------------------------------ MODULE FatTable ------------------------------
(***************************************************************************)
(* The file allocation table of the FAT driver (fat32/open.go,             *)
(* fat32/write.go) as operators on the table v.fat1 holds in memory.       *)
(* Entry c is Free, the next cluster of the chain, or EOC.                 *)
(***************************************************************************)
EXTENDS Integers, Sequences

CONSTANT NumClusters     \* cntClusters

ASSUME FatAssumption == NumClusters \in Nat \ {0}

Clusters == 2..(NumClusters + 1)
Free     == 0
EOC      == NumClusters + 2

isEOC(val) == val >= EOC

freeClusters(fat) == {c \in Clusters : fat[c] = Free}
diskFull(fat) == freeClusters(fat) = {}

\* Mutant of allocCluster: the cluster found is not marked.
allocCluster_Unmarked(fat) ==
    [fat |-> fat, n |-> CHOOSE c \in freeClusters(fat) : \A d \in freeClusters(fat) : c <= d]

\* allocCluster: the first free cluster, marked as the end of a chain.
allocCluster(fat) ==
    LET n == CHOOSE c \in freeClusters(fat) : \A d \in freeClusters(fat) : c <= d
    IN  [fat |-> [fat EXCEPT ![n] = EOC], n |-> n]

\* Mutant of appendCluster: the old end of the chain is not linked.
appendCluster_Unlinked(fat, last) == allocCluster(fat)

appendCluster(fat, last) ==
    LET linked(r) == [fat |-> [r.fat EXCEPT ![last] = r.n], n |-> r.n]
    IN  linked(allocCluster(fat))

\* clusterChain: the clusters from `first' to the end of the chain.
clusterChain(fat, first) ==
    LET at[k \in 1..NumClusters] ==
            IF k = 1 THEN first
            ELSE LET c == at[k - 1] IN IF c < 2 \/ isEOC(fat[c]) THEN 0 ELSE fat[c]
    IN  SelectSeq([k \in 1..NumClusters |-> at[k]], LAMBDA c : c >= 2)

chainSet(fat, first) ==
    LET chain == clusterChain(fat, first) IN {chain[i] : i \in DOMAIN chain}

\* freeChain: every cluster of the chain, its end included.
freeChain(fat, first) ==
    LET gone == chainSet(fat, first) IN [c \in Clusters |-> IF c \in gone THEN Free ELSE fat[c]]

\* The chain cut or extended to `needed' clusters: [ok, fat, chain].  On a full
\* disk the clusters found so far stay allocated.  `head' is below 2 for a file
\* that has no cluster yet.
resized(fat, head, needed) ==
    LET chained(s, r) == [ok |-> TRUE, fat |-> r.fat, chain |-> Append(s.chain, r.n)]
        none  == [ok |-> TRUE, fat |-> fat, chain |-> <<>>]
        start == IF head >= 2 THEN [none EXCEPT !.chain = clusterChain(fat, head)]
                 ELSE IF diskFull(fat) THEN [none EXCEPT !.ok = FALSE]
                 ELSE chained(none, allocCluster(fat))
        grown[k \in 0..needed] ==
            IF k = 0 THEN start
            ELSE LET s == grown[k - 1]
                 IN  IF ~s.ok \/ Len(s.chain) >= needed THEN s
                     ELSE IF diskFull(s.fat) THEN [s EXCEPT !.ok = FALSE]
                     ELSE chained(s, appendCluster(s.fat, s.chain[Len(s.chain)]))
        \* The clusters behind the last one needed are freed.
        cut(s) == [c \in Clusters |->
                      IF c = s.chain[needed] THEN EOC
                      ELSE IF \E i \in (needed + 1)..Len(s.chain) : s.chain[i] = c THEN Free
                      ELSE s.fat[c]]
        fitted(s) == IF ~s.ok \/ Len(s.chain) <= needed THEN s
                     ELSE [s EXCEPT !.fat = cut(s), !.chain = SubSeq(@, 1, needed)]
    IN  fitted(grown[needed])
=============================================================================
