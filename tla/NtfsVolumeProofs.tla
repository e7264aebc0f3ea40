-------------------------- MODULE NtfsVolumeProofs --------------------------
(***************************************************************************)
(* An NTFS volume, for any number of clusters and records, room in an      *)
(* index, length of a directory's run list, set of names and program of    *)
(* the callers, whichever writes fail: while nothing is lost, no cluster   *)
(* belongs to two records and every name leads to a record in use; and a   *)
(* clean volume has its bitmaps on the disk, the MFT's as far as it fits.  *)
(*                                                                         *)
(* A call is put together from parts that each keep one invariant, Good.   *)
(* Between the freeing of clusters and the writing of the record that      *)
(* listed them it is suspended for that record alone (SoundBut).           *)
(***************************************************************************)
EXTENDS NtfsVolume, FiniteSetTheorems, SequenceTheorems, WellFoundedInduction, TLAPS

USE NtfsAssumption

(***************************************************************************)
(* Induction and least elements.                                           *)
(***************************************************************************)

\* A non-empty set of naturals has a least element.
LEMMA NatMin ==
    ASSUME NEW T, T \subseteq Nat, T # {}
    PROVE  \E x \in T : \A y \in T : x <= y
<1> DEFINE R == OpToRel(<, Nat)
<1>1. IsWellFoundedOn(R, Nat)
  BY NatLessThanWellFounded
<1>2. \E x \in T : \A y \in T : ~(<<y, x>> \in R)
  <2> HIDE DEF R
  <2> QED BY <1>1, WFMin
<1>3. \A x, y \in T : ~(<<y, x>> \in R) => x <= y
  BY DEF OpToRel
<1> QED
  BY <1>2, <1>3

\* What holds at 0 and is kept by each of n steps (of a loop over the parts of a
\* path, the blocks of a directory) holds after all of them.
LEMMA Upward ==
    ASSUME NEW n \in Nat, NEW S, 0 \in S,
           \A k \in 1..n : k - 1 \in S => k \in S
    PROVE  \A k \in 0..n : k \in S
<1> DEFINE bad == {k \in 0..n : k \notin S}
<1>1. SUFFICES ASSUME bad # {} PROVE FALSE
  OBVIOUS
<1>2. bad \subseteq Nat
  OBVIOUS
<1>3. PICK k \in bad : \A j \in bad : k <= j
  BY <1>1, <1>2, NatMin
<1>4. k \in 1..n /\ k - 1 \in 0..n
  BY <1>3
<1>5. k - 1 \in S
  BY <1>3, <1>4
<1> QED
  BY <1>3, <1>4, <1>5

\* n steps, each a function on S, and what they lead to from s.
Steps(n, S) == [1..n -> [S -> S]]
IsRun(g, n, s, f) == g[0] = s /\ \A k \in 1..n : g[k] = f[k][g[k - 1]]

\* A recursive definition by n steps, each a function on S, has a solution, and
\* all of it is in S.
LEMMA Iteration ==
    ASSUME NEW n \in Nat, NEW S, NEW s \in S, NEW f \in Steps(n, S)
    PROVE  \E g \in [0..n -> S] : IsRun(g, n, s, f)
<1> USE DEF Steps, IsRun
<1> DEFINE Sol(m, g) == g[0] = s /\ \A k \in 1..m : g[k] = f[k][g[k - 1]]
           T == {m \in 0..n : \E g \in [0..m -> S] : Sol(m, g)}
<1>1. 0 \in T
  <2> DEFINE g == [k \in 0..0 |-> s]
  <2>1. g \in [0..0 -> S] /\ Sol(0, g)
    OBVIOUS
  <2> HIDE DEF g, Sol
  <2> QED BY <2>1
<1>2. ASSUME NEW m \in 1..n, m - 1 \in T PROVE m \in T
  <2>1. PICK g \in [0..(m - 1) -> S] : Sol(m - 1, g)
    BY <1>2
  <2> DEFINE h == [k \in 0..m |-> IF k = m THEN f[m][g[m - 1]] ELSE g[k]]
  <2>2. f[m][g[m - 1]] \in S
    OBVIOUS
  <2>3. h \in [0..m -> S]
    BY <2>2
  <2>4. ASSUME NEW k \in 1..m PROVE h[k] = f[k][h[k - 1]]
    <3>1. CASE k = m
      BY <3>1
    <3>2. CASE k # m
      <4>1. k \in 1..(m - 1) /\ h[k] = g[k] /\ h[k - 1] = g[k - 1]
        BY <3>2
      <4> QED BY <2>1, <4>1
    <3> QED BY <3>1, <3>2
  <2>5. Sol(m, h)
    BY <2>1, <2>4
  <2> HIDE DEF h, Sol
  <2> QED BY <2>3, <2>5
<1>3. n \in T
  <2> HIDE DEF T
  <2>1. \A k \in 0..n : k \in T
    BY <1>1, <1>2, Upward
  <2> QED BY <2>1
<1> QED BY <1>3

-----------------------------------------------------------------------------
(***************************************************************************)
(* Types and the invariant of a volume.                                    *)
(***************************************************************************)
Users == FirstUser..MaxRec
Nums  == {NotExist, Error} \cup Recs
Entry == [name : Names, num : Users]
Ids   == {"INDX", "raw"} \cup {d.id : d \in Contents}
Chunk == [id : Ids, part : Nat, ents : Seq(Entry)]
Data  == [val : Seq(Chunk), cs : Seq(Clusters)]
Record == [use : BOOLEAN, dir : BOOLEAN, data : Data, root : Seq(Entry), ia : Seq(Clusters)]

Volume == [rec : [Recs -> Record], mft : SUBSET Recs, bitmap : SUBSET Clusters,
           cl : [Clusters -> Chunk], dirty : BOOLEAN,
           disk : [bitmap : SUBSET Clusters, mft : SUBSET Recs],
           rootCap : Nat, mftRoom : Nat, io : Nat, freed : SUBSET Clusters, lost : BOOLEAN]

\* The elements of a sequence, and that no two of them are equal.
Elems(s) == {s[i] : i \in 1..Len(s)}
Distinct(s) == \A i, j \in 1..Len(s) : s[i] = s[j] => i = j

\* The clusters a record lists, and that it lists none of them twice.
Listed(r) == Elems(r.data.cs) \cup Elems(r.ia)
Tidy(r) == Distinct(r.data.cs) /\ Distinct(r.ia) /\ Elems(r.data.cs) \cap Elems(r.ia) = {}

\* The entries of a directory, in its record and in its INDX blocks.
Held(cl, r) == Elems(r.root) \cup UNION {Elems(cl[c].ents) : c \in Elems(r.ia)}

\* The clusters of r are marked, and of none of the records S.
Apart(V, S, r) ==
    /\ Tidy(r)
    /\ Listed(r) \subseteq V.bitmap
    /\ \A m \in S : Listed(V.rec[m]) \cap Listed(r) = {}

\* The entries of r name n, or records in use.
Leads(V, n, r) == \A e \in Held(V.cl, r) : e.num = n \/ e.num \in inUse(V)

\* Records in use, apart from n, are as they should be, names of n aside.
SoundBut(V, n) ==
    /\ \A m \in inUse(V) \ {n} : /\ m \in V.mft
                                 /\ Apart(V, inUse(V) \ {m, n}, V.rec[m])
                                 /\ Leads(V, n, V.rec[m])
    /\ Root = n \/ Root \in inUse(V)

\* No record has the number 0.
Sound(V) == SoundBut(V, NotExist)

\* No record on the disk's bitmap is beyond its room, and a clean volume has
\* written all that has room.
Saved(V) ==
    /\ \A n \in V.disk.mft : n < V.mftRoom
    /\ ~V.dirty => V.disk = [bitmap |-> V.bitmap, mft |-> fitting(V)]

Good(V) ==
    /\ V \in Volume
    /\ Saved(V)
    /\ ~V.lost /\ V.freed = {} => Sound(V)

Handle == [num : Recs, buf : SUBSET Contents]

\* The invariant of the specification.
Inv ==
    /\ Good(v) /\ v.freed = {}
    /\ handles \in Seq(Handle)
    /\ caller \in Callers


-----------------------------------------------------------------------------
(***************************************************************************)
(* Sequences.                                                              *)
(***************************************************************************)

\* The least element of a set of numbers.
LEMMA Least ==
    ASSUME NEW T, T \subseteq Nat, T # {}
    PROVE  Sets!Min(T) \in T /\ \A y \in T : Sets!Min(T) <= y
BY NatMin DEF Sets!Min

\* The elements of a concatenation are those of its parts.
LEMMA ElemsConcat ==
    ASSUME NEW S, NEW s \in Seq(S), NEW t \in Seq(S)
    PROVE  s \o t \in Seq(S) /\ Elems(s \o t) = Elems(s) \cup Elems(t)
<1> DEFINE u == s \o t
<1>1. /\ u \in Seq(S) /\ Len(u) = Len(s) + Len(t)
      /\ \A i \in 1..Len(u) : u[i] = IF i <= Len(s) THEN s[i] ELSE t[i - Len(s)]
  BY ConcatProperties
<1>2. PICK m, n \in Nat : m = Len(s) /\ n = Len(t)
  OBVIOUS
<1> HIDE DEF u
<1>3. ASSUME NEW i \in 1..Len(u) PROVE u[i] \in Elems(s) \cup Elems(t)
  <2>1. i <= m \/ i - m \in 1..n
    BY <1>1, <1>2
  <2> QED BY <1>1, <1>2, <2>1 DEF Elems
<1>4. ASSUME NEW i \in 1..Len(s) PROVE s[i] \in Elems(u)
  <2>1. i \in 1..Len(u) /\ u[i] = s[i]
    BY <1>1, <1>2
  <2> QED BY <2>1 DEF Elems
<1>5. ASSUME NEW i \in 1..Len(t) PROVE t[i] \in Elems(u)
  <2>1. i \in 1..n /\ i + m \in 1..Len(u) /\ ~(i + m <= m) /\ (i + m) - m = i
    BY <1>1, <1>2
  <2>2. u[i + m] = t[i]
    BY <1>1, <1>2, <2>1
  <2> QED BY <2>1, <2>2 DEF Elems
<1>6. Elems(u) = Elems(s) \cup Elems(t)
  BY <1>3, <1>4, <1>5 DEF Elems
<1> QED BY <1>1, <1>6 DEF u

\* All blocks of a directory one after another: nothing is added or dropped.
LEMMA Flatten ==
    ASSUME NEW S, NEW s \in Seq(Seq(S))
    PROVE  /\ Seqs!FlattenSeq(s) \in Seq(S)
           /\ Elems(Seqs!FlattenSeq(s)) = UNION {Elems(s[i]) : i \in 1..Len(s)}
<1> DEFINE n == Len(s)
           Sol(g) == g = [i \in 1..n |-> IF i = 1 THEN s[i] ELSE g[i - 1] \o s[i]]
           flat == CHOOSE g : Sol(g)
           f == [k \in 1..n |-> [t \in Seq(S) |-> t \o s[k]]]
<1>0. n \in Nat /\ \A i \in 1..n : s[i] \in Seq(S)
  OBVIOUS
<1>1. CASE n = 0
  <2>1. s = <<>> /\ Seqs!FlattenSeq(s) = s
    BY <1>1 DEF Seqs!FlattenSeq
  <2>2. Len(s) = 0 /\ s \in Seq(S)
    BY <1>1, <2>1
  <2>3. 1..Len(s) = {}
    BY <2>2
  <2> QED BY <2>1, <2>2, <2>3 DEF Elems
<1>2. CASE n # 0
  <2>1. Seqs!FlattenSeq(s) = flat[n]
    BY <1>2 DEF Seqs!FlattenSeq
  <2> HIDE DEF n
  <2>2. \E g : Sol(g)
    <3>1. f \in Steps(n, Seq(S))
      BY <1>0 DEF Steps
    <3>2. PICK g \in [0..n -> Seq(S)] : IsRun(g, n, <<>>, f)
      <4> HIDE DEF f
      <4>1. <<>> \in Seq(S)
        OBVIOUS
      <4> QED BY <1>0, <3>1, <4>1, Iteration
    <3>3. ASSUME NEW k \in 1..n PROVE g[k] = g[k - 1] \o s[k] /\ g[k - 1] \in Seq(S)
      <4>1. g[k - 1] \in Seq(S)
        BY <1>0
      <4> QED BY <3>2, <4>1 DEF IsRun
    <3>4. ASSUME NEW k \in 1..n, k = 1 PROVE g[k] = s[k]
      <4>1. g[k - 1] = <<>>
        BY <3>2, <3>4 DEF IsRun
      <4>2. <<>> \o s[k] = s[k]
        BY <1>0
      <4> QED BY <3>3, <4>1, <4>2
    <3> DEFINE h == [k \in 1..n |-> g[k]]
    <3>5. ASSUME NEW k \in 1..n PROVE h[k] = IF k = 1 THEN s[k] ELSE h[k - 1] \o s[k]
      <4>1. CASE k = 1
        BY <3>4, <4>1
      <4>2. CASE k # 1
        <5>1. k - 1 \in 1..n
          BY <1>0, <4>2
        <5> QED BY <3>3, <4>2, <5>1
      <4> QED BY <4>1, <4>2
    <3>6. Sol(h)
      BY <3>5
    <3> HIDE DEF h, Sol
    <3> QED BY <3>6
  <2>3. Sol(flat)
    <3> HIDE DEF Sol
    <3> QED BY <2>2
  <2> HIDE DEF flat
  <2>4. \A k \in 1..n : flat[k] = IF k = 1 THEN s[k] ELSE flat[k - 1] \o s[k]
    BY <2>3
  <2> DEFINE T == {k \in 0..n : k > 0 => /\ flat[k] \in Seq(S)
                                        /\ Elems(flat[k]) = UNION {Elems(s[i]) : i \in 1..k}}
  <2>5. 0 \in T
    BY <1>0
  <2>6. ASSUME NEW k \in 1..n, k - 1 \in T PROVE k \in T
    <3>1. CASE k = 1
      <4>1. flat[k] = s[k] /\ s[k] \in Seq(S)
        BY <1>0, <2>4, <3>1
      <4>2. UNION {Elems(s[i]) : i \in 1..k} = Elems(s[k])
        BY <3>1
      <4> QED BY <4>1, <4>2
    <3>2. CASE k # 1
      <4>1. /\ flat[k - 1] \in Seq(S) /\ s[k] \in Seq(S)
            /\ Elems(flat[k - 1]) = UNION {Elems(s[i]) : i \in 1..(k - 1)}
        BY <1>0, <2>6, <3>2
      <4>2. flat[k] = flat[k - 1] \o s[k]
        BY <2>4, <3>2
      <4>3. flat[k] \in Seq(S) /\ Elems(flat[k]) = Elems(flat[k - 1]) \cup Elems(s[k])
        <5>1. PICK a \in Seq(S) : a = flat[k - 1]
          BY <4>1
        <5>2. PICK b \in Seq(S) : b = s[k]
          BY <4>1
        <5>3. a \o b \in Seq(S) /\ Elems(a \o b) = Elems(a) \cup Elems(b)
          BY ElemsConcat
        <5> QED BY <4>2, <5>1, <5>2, <5>3, Zenon
      <4>4. UNION {Elems(s[i]) : i \in 1..k} = (UNION {Elems(s[i]) : i \in 1..(k - 1)}) \cup Elems(s[k])
        <5>1. 1..k = 1..(k - 1) \cup {k}
          OBVIOUS
        <5> QED BY <5>1
      <4>5. Elems(flat[k]) = UNION {Elems(s[i]) : i \in 1..k}
        BY <4>1, <4>3, <4>4, Zenon
      <4>6. k \in 0..n
        BY <1>0
      <4> QED BY <4>3, <4>5, <4>6
    <3> QED BY <3>1, <3>2
  <2>7. n \in T
    <3> HIDE DEF T
    <3>1. \A k \in 0..n : k \in T
      BY <1>0, <2>5, <2>6, Upward
    <3> QED BY <1>0, <3>1
  <2>8. n > 0
    BY <1>0, <1>2
  <2> QED BY <2>1, <2>7, <2>8 DEF n
<1> QED BY <1>1, <1>2


-----------------------------------------------------------------------------
(***************************************************************************)
(* Reading directories and paths.                                          *)
(***************************************************************************)

\* readDirEntries returns what the record and the INDX blocks hold.
LEMMA ReadDirEntries ==
    ASSUME NEW V \in Volume, NEW d \in Recs
    PROVE  /\ readDirEntries(V, d) \in Seq(Entry)
           /\ Elems(readDirEntries(V, d)) = Held(V.cl, V.rec[d])
           /\ V.rec[d].ia = <<>> => readDirEntries(V, d) = V.rec[d].root
<1>1. PICK r \in Record : r = V.rec[d]
  BY DEF Volume
<1>2. PICK ia \in Seq(Clusters) : ia = r.ia
  BY DEF Record
<1>3. PICK root \in Seq(Entry) : root = r.root
  BY DEF Record
<1>4. PICK cl \in [Clusters -> Chunk] : cl = V.cl
  BY DEF Volume
<1> DEFINE s == [i \in 1..Len(ia) |-> cl[ia[i]].ents]
           flat == Seqs!FlattenSeq(s)
<1>5. readDirEntries(V, d) = root \o flat
  BY <1>1, <1>2, <1>3, <1>4 DEF readDirEntries
<1>6. \A i \in 1..Len(ia) : ia[i] \in Clusters /\ cl[ia[i]].ents \in Seq(Entry)
  BY DEF Chunk
<1>7. s \in Seq(Seq(Entry)) /\ Len(s) = Len(ia) /\ \A i \in 1..Len(ia) : s[i] = cl[ia[i]].ents
  BY <1>6
<1> HIDE DEF s
<1>8. flat \in Seq(Entry) /\ Elems(flat) = UNION {Elems(s[i]) : i \in 1..Len(s)}
  BY <1>7, Flatten
<1>9. UNION {Elems(s[i]) : i \in 1..Len(s)} = UNION {Elems(cl[c].ents) : c \in Elems(ia)}
  <2>1. \A c : c \in Elems(ia) <=> \E i \in 1..Len(ia) : c = ia[i]
    BY DEF Elems
  <2>2. \A i \in 1..Len(ia) : Elems(s[i]) = Elems(cl[ia[i]].ents)
    BY <1>7
  <2>3. 1..Len(s) = 1..Len(ia)
    BY <1>7
  <2>4. \A x : (\E i \in 1..Len(s) : x \in Elems(s[i])) <=> (\E c \in Elems(ia) : x \in Elems(cl[c].ents))
    <3>1. ASSUME NEW x, NEW i \in 1..Len(s), x \in Elems(s[i])
          PROVE  \E c \in Elems(ia) : x \in Elems(cl[c].ents)
      <4>1. ia[i] \in Elems(ia) /\ x \in Elems(cl[ia[i]].ents)
        BY <2>1, <2>2, <2>3, <3>1
      <4> QED BY <4>1
    <3>2. ASSUME NEW x, NEW c \in Elems(ia), x \in Elems(cl[c].ents)
          PROVE  \E i \in 1..Len(s) : x \in Elems(s[i])
      <4>1. PICK i \in 1..Len(ia) : c = ia[i]
        BY <2>1
      <4> QED BY <2>2, <2>3, <3>2, <4>1
    <3> QED BY <3>1, <3>2, Zenon
  <2> QED BY <2>4
<1>10. ASSUME ia = <<>> PROVE root \o flat = root
  <2>1. Len(s) = 0 /\ s = <<>>
    BY <1>7, <1>10
  <2>2. flat = <<>>
    BY <2>1 DEF Seqs!FlattenSeq
  <2> QED BY <2>2
<1> HIDE DEF flat
<1>11. root \o flat \in Seq(Entry) /\ Elems(root \o flat) = Elems(root) \cup Elems(flat)
  BY <1>8, ElemsConcat
<1>12. Held(V.cl, V.rec[d]) = Elems(root) \cup UNION {Elems(cl[c].ents) : c \in Elems(ia)}
  BY <1>1, <1>2, <1>3, <1>4 DEF Held
<1>13. Elems(root \o flat) = Held(V.cl, V.rec[d])
  BY <1>8, <1>9, <1>11, <1>12, Zenon
<1> QED BY <1>1, <1>2, <1>3, <1>5, <1>10, <1>11, <1>13

\* Where a name is in a list of entries.
Hits(ents, name) == {i \in 1..Len(ents) : ents[i].name = name}

\* firstNamed gives the record of entry k, the first one with the name.
IsFirst(ents, name, k) ==
    k \in Hits(ents, name) /\ firstNamed(ents, name) = ents[k].num /\ ents[k].num \in Users

\* firstNamed finds the first entry of a name, if there is one.
LEMMA FirstNamed ==
    ASSUME NEW ents \in Seq(Entry), NEW name
    PROVE  /\ Hits(ents, name) = {} => firstNamed(ents, name) = NotExist
           /\ Hits(ents, name) # {} => IsFirst(ents, name, Sets!Min(Hits(ents, name)))
<1> DEFINE hits == Hits(ents, name)
<1>1. hits \subseteq Nat /\ \A i \in hits : ents[i] \in Entry
  BY DEF Hits
<1>4. firstNamed(ents, name) = IF hits = {} THEN NotExist ELSE ents[Sets!Min(hits)].num
  BY DEF firstNamed, Hits
<1> HIDE DEF hits
<1>2. hits # {} => Sets!Min(hits) \in hits
  BY <1>1, Least
<1>3. hits # {} => ents[Sets!Min(hits)].num \in Users
  BY <1>1, <1>2 DEF Entry
<1> QED BY <1>2, <1>3, <1>4 DEF IsFirst, hits

\* A lookup in a directory finds nothing, or a record one of its entries names.
LEMMA LookupInDir ==
    ASSUME NEW V \in Volume, NEW d \in Recs, NEW name
    PROVE  /\ lookupInDir(V, d, name) \in Nums
           /\ lookupInDir(V, d, name) > 0 =>
                 /\ V.rec[d].dir
                 /\ \E e \in Held(V.cl, V.rec[d]) : e.num = lookupInDir(V, d, name)
<1> DEFINE ents == readDirEntries(V, d)
           hits == Hits(ents, name)
<1>1. ents \in Seq(Entry) /\ Elems(ents) = Held(V.cl, V.rec[d])
  BY ReadDirEntries
<1>2. CASE ~V.rec[d].dir
  <2>1. lookupInDir(V, d, name) = Error
    BY <1>2 DEF lookupInDir
  <2> QED BY <2>1 DEF Error, Nums
<1>3. CASE V.rec[d].dir
  <2>1. lookupInDir(V, d, name) = firstNamed(ents, name)
    BY <1>3 DEF lookupInDir
  <2> HIDE DEF ents
  <2>2. CASE hits = {}
    <3>1. lookupInDir(V, d, name) = NotExist
      BY <1>1, <2>1, <2>2, FirstNamed
    <3> QED BY <3>1 DEF NotExist, Nums
  <2>3. CASE hits # {}
    <3>1. PICK k \in hits : firstNamed(ents, name) = ents[k].num /\ ents[k].num \in Users
      BY <1>1, <2>3, FirstNamed DEF IsFirst
    <3>2. ents[k] \in Held(V.cl, V.rec[d])
      BY <1>1 DEF Elems, Hits
    <3>3. ents[k].num \in Nums
      BY <3>1 DEF Nums, Recs, Users
    <3> QED BY <1>3, <2>1, <3>1, <3>2, <3>3
  <2> QED BY <2>2, <2>3
<1> QED BY <1>2, <1>3

\* One step of a lookup.
Step(V, num, name) == IF num <= 0 THEN num ELSE lookupInDir(V, num, name)

\* One element of a path in lookupPath: a record number or an error.
LEMMA StepNum ==
    ASSUME NEW V \in Volume, NEW num \in Nums, NEW name
    PROVE  Step(V, num, name) \in Nums
<1>1. num <= 0 \/ num \in Recs
  BY DEF Nums, NotExist, Error
<1> QED BY <1>1, LookupInDir DEF Step

\* The numbers a lookup goes through.
IsTrail(V, p, g) ==
    /\ g \in [0..Len(p) -> Nums]
    /\ g[0] = Root
    /\ \A k \in 1..Len(p) : g[k] = Step(V, g[k - 1], p[k])
    /\ lookupPath(V, p) = g[Len(p)]

\* lookupPath goes through a record number or an error for every prefix of the path.
LEMMA Trail ==
    ASSUME NEW V \in Volume, NEW p \in Seq(Names)
    PROVE  \E g : IsTrail(V, p, g)
<1> DEFINE n == Len(p)
           f == [k \in 1..n |-> [num \in Nums |-> Step(V, num, p[k])]]
           Sol(g) == g = [k \in 0..n |-> IF k = 0 THEN Root ELSE Step(V, g[k - 1], p[k])]
           at == CHOOSE g : Sol(g)
<1>1. n \in Nat
  OBVIOUS
<1>2. Root \in Nums
  BY DEF Nums, Recs
<1>3. lookupPath(V, p) = at[n]
  BY DEF lookupPath, Step
<1> HIDE DEF n
<1>4. f \in Steps(n, Nums)
  BY StepNum DEF Steps
<1>5. PICK g \in [0..n -> Nums] : IsRun(g, n, Root, f)
  <2> HIDE DEF f
  <2> QED BY <1>1, <1>2, <1>4, Iteration
<1>6. ASSUME NEW k \in 1..n PROVE g[k] = Step(V, g[k - 1], p[k])
  <2>1. g[k - 1] \in Nums
    BY <1>1
  <2> QED BY <1>5, <2>1 DEF IsRun
<1>7. Sol(g)
  BY <1>5, <1>6 DEF IsRun
<1>8. Sol(at)
  BY <1>7
<1> HIDE DEF at
<1>9. at[0] = Root /\ \A k \in 1..n : at[k] = Step(V, at[k - 1], p[k])
  BY <1>1, <1>8
<1> DEFINE T == {k \in 0..n : at[k] = g[k]}
<1>10. 0 \in T
  BY <1>1, <1>5, <1>9 DEF IsRun
<1>11. \A k \in 1..n : k - 1 \in T => k \in T
  BY <1>1, <1>6, <1>9
<1>12. at[n] = g[n]
  <2> HIDE DEF T
  <2>1. \A k \in 0..n : k \in T
    BY <1>1, <1>10, <1>11, Upward
  <2> QED BY <1>1, <2>1 DEF T
<1>13. IsTrail(V, p, g)
  BY <1>3, <1>5, <1>6, <1>12 DEF IsTrail, IsRun, n
<1> QED BY <1>13


\* What a path leads to: on a sound volume, a record in use.
LEMMA LookupPath ==
    ASSUME NEW V \in Volume, NEW p \in Seq(Names)
    PROVE  /\ lookupPath(V, p) \in Nums
           /\ Sound(V) /\ lookupPath(V, p) > 0 => lookupPath(V, p) \in inUse(V)
<1>1. PICK g : IsTrail(V, p, g)
  BY Trail
<1>2. PICK n \in Nat : n = Len(p)
  OBVIOUS
<1>3. lookupPath(V, p) \in Nums
  BY <1>1, <1>2 DEF IsTrail
<1>4. ASSUME Sound(V) PROVE g[n] <= 0 \/ g[n] \in inUse(V)
  <2> DEFINE T == {k \in 0..n : g[k] <= 0 \/ g[k] \in inUse(V)}
  <2>1. 0 \in T
    BY <1>1, <1>4 DEF IsTrail, Sound, SoundBut, NotExist, Root
  <2>2. ASSUME NEW k \in 1..n, k - 1 \in T PROVE k \in T
    <3>1. PICK num \in Nums : num = g[k - 1] /\ (num <= 0 \/ num \in inUse(V))
      BY <1>1, <1>2, <2>2 DEF IsTrail
    <3>2. g[k] = Step(V, num, p[k]) /\ k \in 0..n
      BY <1>1, <1>2, <3>1 DEF IsTrail
    <3>3. CASE num <= 0
      BY <3>2, <3>3 DEF Step
    <3>4. CASE ~(num <= 0)
      <4>1. num \in inUse(V) /\ num \in Recs
        BY <3>1, <3>4 DEF inUse
      <4>2. g[k] = lookupInDir(V, num, p[k])
        BY <3>2, <3>4 DEF Step
      <4>3. PICK m \in Nums : m = lookupInDir(V, num, p[k])
        BY <4>1, LookupInDir
      <4>4. CASE m <= 0
        BY <3>2, <4>2, <4>3, <4>4
      <4>5. CASE m > 0
        <5>1. PICK e \in Held(V.cl, V.rec[num]) : e.num = m
          BY <4>1, <4>3, <4>5, LookupInDir
        <5>2. Leads(V, NotExist, V.rec[num])
          <6>1. num # NotExist
            BY <3>4 DEF NotExist
          <6> QED BY <1>4, <4>1, <6>1 DEF Sound, SoundBut
        <5>3. m \in inUse(V)
          BY <4>5, <5>1, <5>2 DEF Leads, NotExist
        <5> QED BY <3>2, <4>2, <4>3, <5>3
      <4>6. m \in Int
        BY <4>3 DEF Nums, Recs, NotExist, Error, Root, FirstUser
      <4> QED BY <4>4, <4>5, <4>6
    <3> QED BY <3>3, <3>4
  <2> HIDE DEF T
  <2>3. n \in T
    <3>1. \A k \in 0..n : k \in T
      BY <2>1, <2>2, Upward
    <3> QED BY <3>1
  <2> QED BY <2>3 DEF T
<1>5. lookupPath(V, p) = g[n] /\ g[n] \in Int
  BY <1>1, <1>2, <1>3 DEF IsTrail, Nums, Recs, NotExist, Error, Root, FirstUser
<1> QED BY <1>3, <1>4, <1>5

\* Paths that take the same steps on two volumes lead to the same record; of two
\* paths, the longer one passes where the shorter one ends.
LEMMA SameTrail ==
    ASSUME NEW V \in Volume, NEW W \in Volume, NEW p \in Seq(Names), NEW q \in Seq(Names),
           NEW g, IsTrail(V, p, g), Len(q) <= Len(p), \A k \in 1..Len(q) : q[k] = p[k],
           \A d \in Recs, name \in Names : lookupInDir(W, d, name) = lookupInDir(V, d, name)
    PROVE  lookupPath(W, q) = g[Len(q)]
<1>1. PICK h : IsTrail(W, q, h)
  BY Trail
<1>2. PICK n \in Nat : n = Len(q)
  OBVIOUS
<1> DEFINE T == {k \in 0..n : h[k] = g[k]}
<1>3. 0 \in T
  BY <1>1 DEF IsTrail
<1>4. ASSUME NEW k \in 1..n, k - 1 \in T PROVE k \in T
  <2>1. k \in 1..Len(q) /\ k \in 1..Len(p) /\ k - 1 \in 0..Len(q)
    BY <1>2
  <2>2. PICK num \in Nums : num = h[k - 1] /\ num = g[k - 1]
    BY <1>1, <1>4, <2>1 DEF IsTrail
  <2>3. h[k] = Step(W, num, p[k]) /\ g[k] = Step(V, num, p[k]) /\ p[k] \in Names
    <3>1. h[k] = Step(W, num, q[k])
      BY <1>1, <2>1, <2>2 DEF IsTrail
    <3>2. g[k] = Step(V, num, p[k])
      BY <2>1, <2>2 DEF IsTrail
    <3> QED BY <2>1, <3>1, <3>2
  <2>4. num <= 0 \/ num \in Recs
    BY DEF Nums, NotExist, Error
  <2>5. Step(W, num, p[k]) = Step(V, num, p[k])
    BY <2>3, <2>4 DEF Step
  <2> QED BY <2>3, <2>5
<1> HIDE DEF T
<1>5. n \in T
  <2>1. \A k \in 0..n : k \in T
    BY <1>3, <1>4, Upward
  <2> QED BY <2>1
<1> QED BY <1>1, <1>2, <1>5 DEF IsTrail, T

\* The parent of a path, and the last name in it.
LEMMA FrontOf ==
    ASSUME NEW p \in Seq(Names), p # <<>>
    PROVE  /\ Seqs!Front(p) \in Seq(Names) /\ Len(Seqs!Front(p)) = Len(p) - 1
           /\ \A k \in 1..(Len(p) - 1) : Seqs!Front(p)[k] = p[k]
           /\ Seqs!Last(p) = p[Len(p)] /\ Seqs!Last(p) \in Names /\ Len(p) >= 1
<1>1. PICK n \in Nat : n = Len(p) /\ n >= 1
  BY EmptySeq
<1>2. Seqs!Front(p) = SubSeq(p, 1, n - 1) /\ Seqs!Last(p) = p[n]
  BY <1>1 DEF Seqs!Front, Seqs!Last
<1>3. \A i \in 1..(n - 1) : p[i] \in Names
  BY <1>1
<1>4. SubSeq(p, 1, n - 1) = [i \in 1..(n - 1) |-> p[i]]
  BY <1>1
<1> QED BY <1>1, <1>2, <1>3, <1>4

\* lookupPath looks the last name up in the directory the rest of the path leads to.
LEMMA LookupLast ==
    ASSUME NEW V \in Volume, NEW p \in Seq(Names), p # <<>>
    PROVE  lookupPath(V, p) = Step(V, parent(V, p), Seqs!Last(p))
<1>1. PICK g : IsTrail(V, p, g)
  BY Trail
<1>2. PICK n \in Nat : n = Len(p) /\ n >= 1
  BY FrontOf
<1>3. parent(V, p) = g[n - 1]
  <2> DEFINE q == Seqs!Front(p)
  <2>1. q \in Seq(Names) /\ Len(q) = n - 1 /\ \A k \in 1..Len(q) : q[k] = p[k]
    BY <1>2, FrontOf
  <2> HIDE DEF q
  <2>2. lookupPath(V, q) = g[Len(q)]
    BY <1>1, <1>2, <2>1, SameTrail
  <2> QED BY <2>1, <2>2 DEF parent, q
<1>4. lookupPath(V, p) = g[n] /\ g[n] = Step(V, g[n - 1], p[n])
  BY <1>1, <1>2 DEF IsTrail
<1> QED BY <1>2, <1>3, <1>4, FrontOf

\* lookupPath gives the same in two volumes whose directories look up alike.
LEMMA LookupAlike ==
    ASSUME NEW V \in Volume, NEW W \in Volume, NEW p \in Seq(Names),
           \A d \in Recs, name \in Names : lookupInDir(W, d, name) = lookupInDir(V, d, name)
    PROVE  lookupPath(W, p) = lookupPath(V, p)
<1>1. PICK g : IsTrail(V, p, g)
  BY Trail
<1>2. lookupPath(W, p) = g[Len(p)]
  BY <1>1, SameTrail
<1> QED BY <1>1, <1>2 DEF IsTrail


-----------------------------------------------------------------------------
(***************************************************************************)
(* Changes of a volume that keep it sound, or sound but for one record.    *)
(***************************************************************************)

\* What a directory holds depends on the clusters of its index alone.
LEMMA HeldSame ==
    ASSUME NEW cl, NEW dl, NEW r, \A c \in Elems(r.ia) : dl[c] = cl[c]
    PROVE  Held(dl, r) = Held(cl, r)
<1>1. \A x : (\E c \in Elems(r.ia) : x \in Elems(dl[c].ents)) <=> (\E c \in Elems(r.ia) : x \in Elems(cl[c].ents))
  OBVIOUS
<1> QED BY <1>1 DEF Held

\* Marking more clusters and writing to clusters that were not marked.
LEMMA Grown ==
    ASSUME NEW V, NEW W, NEW n, SoundBut(V, n),
           W.rec = V.rec, V.mft \subseteq W.mft, V.bitmap \subseteq W.bitmap,
           \A c \in V.bitmap : W.cl[c] = V.cl[c]
    PROVE  SoundBut(W, n)
<1>1. inUse(W) = inUse(V)
  BY DEF inUse
<1>2. ASSUME NEW m \in inUse(V) \ {n}
      PROVE  /\ m \in W.mft
             /\ Apart(W, inUse(V) \ {m, n}, V.rec[m])
             /\ Leads(W, n, V.rec[m])
  <2>1. m \in V.mft /\ Apart(V, inUse(V) \ {m, n}, V.rec[m]) /\ Leads(V, n, V.rec[m])
    BY DEF SoundBut
  <2>2. Elems(V.rec[m].ia) \subseteq V.bitmap
    BY <2>1 DEF Apart, Listed
  <2>3. Held(W.cl, V.rec[m]) = Held(V.cl, V.rec[m])
    BY <2>2, HeldSame
  <2>4. Leads(W, n, V.rec[m])
    BY <1>1, <2>1, <2>3 DEF Leads
  <2>5. Apart(W, inUse(V) \ {m, n}, V.rec[m])
    BY <2>1 DEF Apart
  <2> QED BY <2>1, <2>4, <2>5
<1> QED BY <1>1, <1>2 DEF SoundBut

\* Record n is replaced by one that is not in use.
LEMMA Dropped ==
    ASSUME NEW V \in Volume, NEW W, NEW n \in Recs, NEW r, SoundBut(V, n), ~r.use,
           W.rec = [V.rec EXCEPT ![n] = r], W.cl = V.cl,
           V.mft \ {n} \subseteq W.mft, V.bitmap \subseteq W.bitmap
    PROVE  SoundBut(W, n) /\ n \notin inUse(W) /\ inUse(W) = inUse(V) \ {n}
<1>0. \A m \in Recs : W.rec[m] = IF m = n THEN r ELSE V.rec[m]
  BY DEF Volume
<1>1. inUse(W) = inUse(V) \ {n}
  BY <1>0 DEF inUse
<1>2. ASSUME NEW m \in inUse(W) \ {n}
      PROVE  /\ m \in W.mft
             /\ Apart(W, inUse(W) \ {m, n}, W.rec[m])
             /\ Leads(W, n, W.rec[m])
  <2>1. m \in V.mft /\ Apart(V, inUse(V) \ {m, n}, V.rec[m]) /\ Leads(V, n, V.rec[m])
    BY <1>1 DEF SoundBut
  <2>2. m \in Recs /\ W.rec[m] = V.rec[m] /\ \A k \in inUse(W) \ {m, n} : W.rec[k] = V.rec[k]
    BY <1>0 DEF inUse
  <2>3. Apart(W, inUse(W) \ {m, n}, W.rec[m])
    BY <1>1, <2>1, <2>2 DEF Apart
  <2>4. Leads(W, n, W.rec[m])
    BY <1>1, <2>1, <2>2 DEF Leads
  <2> QED BY <2>1, <2>3, <2>4
<1>3. Root = n \/ Root \in inUse(W)
  BY <1>1 DEF SoundBut
<1> QED BY <1>1, <1>2, <1>3 DEF SoundBut

\* Record n is replaced by one in use, whose clusters are marked and its own.
LEMMA Replaced ==
    ASSUME NEW V \in Volume, NEW W, NEW n \in Recs, NEW r, SoundBut(V, n), r.use,
           W.rec = [V.rec EXCEPT ![n] = r], W.cl = V.cl, W.mft = V.mft, W.bitmap = V.bitmap,
           n \in V.mft, Apart(V, inUse(V) \ {n}, r), Leads(V, n, r)
    PROVE  Sound(W)
<1>0. \A m \in Recs : W.rec[m] = IF m = n THEN r ELSE V.rec[m]
  BY DEF Volume
<1>1. inUse(W) = inUse(V) \cup {n} /\ NotExist \notin inUse(W)
  BY <1>0 DEF inUse, NotExist, Recs, Root, FirstUser
<1>2. ASSUME NEW m \in inUse(W)
      PROVE  /\ m \in W.mft
             /\ Apart(W, inUse(W) \ {m}, W.rec[m])
             /\ Leads(W, NotExist, W.rec[m])
  <2>1. CASE m = n
    <3>1. W.rec[m] = r /\ \A k \in inUse(W) \ {m} : k \in inUse(V) \ {n} /\ W.rec[k] = V.rec[k]
      BY <1>0, <1>1, <2>1 DEF inUse
    <3>2. Apart(W, inUse(W) \ {m}, W.rec[m])
      BY <3>1 DEF Apart
    <3>3. Leads(W, NotExist, W.rec[m])
      BY <1>1, <3>1 DEF Leads
    <3> QED BY <2>1, <3>2, <3>3
  <2>2. CASE m # n
    <3>1. m \in inUse(V) \ {n}
      BY <1>1, <2>2
    <3>2. m \in V.mft /\ Apart(V, inUse(V) \ {m, n}, V.rec[m]) /\ Leads(V, n, V.rec[m])
      BY <3>1 DEF SoundBut
    <3>3. /\ W.rec[m] = V.rec[m] /\ W.rec[n] = r
          /\ \A k \in inUse(W) \ {m, n} : k \in inUse(V) \ {m, n} /\ W.rec[k] = V.rec[k]
      BY <1>0, <1>1, <2>2 DEF inUse
    <3>4. Listed(r) \cap Listed(V.rec[m]) = {}
      BY <3>1 DEF Apart
    <3>5. Apart(W, inUse(W) \ {m}, W.rec[m])
      BY <3>2, <3>3, <3>4 DEF Apart
    <3>6. Leads(W, NotExist, W.rec[m])
      BY <1>1, <3>2, <3>3 DEF Leads
    <3> QED BY <3>2, <3>5, <3>6
  <2> QED BY <2>1, <2>2
<1>3. Root \in inUse(W)
  BY <1>1 DEF SoundBut
<1>4. \A m \in inUse(W) : inUse(W) \ {m, NotExist} = inUse(W) \ {m}
  BY <1>1
<1> QED BY <1>2, <1>3, <1>4 DEF Sound, SoundBut

\* On a sound volume every record may be left out of the claim, and a record in
\* use is as Replaced asks.
LEMMA LeaveOut ==
    ASSUME NEW V \in Volume, Sound(V), NEW n \in Recs
    PROVE  /\ SoundBut(V, n)
           /\ n \in inUse(V) => /\ n \in V.mft
                                /\ Apart(V, inUse(V) \ {n}, V.rec[n])
                                /\ Leads(V, n, V.rec[n])
<1>0. NotExist \notin inUse(V)
  BY DEF inUse, NotExist, Recs, Root, FirstUser
<1>1. ASSUME NEW m \in inUse(V)
      PROVE  /\ m \in V.mft
             /\ Apart(V, inUse(V) \ {m}, V.rec[m])
             /\ Leads(V, NotExist, V.rec[m])
  <2>1. inUse(V) \ {m, NotExist} = inUse(V) \ {m}
    BY <1>0
  <2>2. m \in inUse(V) \ {NotExist}
    BY <1>0
  <2> QED BY <2>1, <2>2 DEF Sound, SoundBut
<1>2. ASSUME NEW m \in inUse(V) PROVE Leads(V, n, V.rec[m])
  <2>1. ASSUME NEW e \in Held(V.cl, V.rec[m]) PROVE e.num # NotExist
    <3>1. V.rec[m] \in Record /\ m \in Recs
      BY DEF Volume, inUse
    <3>2. Held(V.cl, V.rec[m]) \subseteq Entry
      <4>1. Elems(readDirEntries(V, m)) = Held(V.cl, V.rec[m]) /\ readDirEntries(V, m) \in Seq(Entry)
        BY <3>1, ReadDirEntries
      <4> QED BY <4>1 DEF Elems
    <3> QED BY <3>2 DEF Entry, Users, NotExist, FirstUser
  <2> QED BY <1>1, <2>1 DEF Leads
<1>3. \A m \in inUse(V) : Apart(V, inUse(V) \ {m, n}, V.rec[m])
  BY <1>1 DEF Apart
<1>4. Root = n \/ Root \in inUse(V)
  BY DEF Sound, SoundBut, NotExist, Root
<1> QED BY <1>1, <1>2, <1>3, <1>4 DEF SoundBut

\* Nothing names the record that was left out.
LEMMA PutBack ==
    ASSUME NEW V \in Volume, NEW n \in Users, SoundBut(V, n), n \notin inUse(V),
           \A m \in inUse(V) : \A e \in Held(V.cl, V.rec[m]) : e.num # n
    PROVE  Sound(V)
<1>0. n \in Recs /\ n # Root /\ NotExist \notin inUse(V)
  BY DEF inUse, NotExist, Recs, Root, FirstUser, Users
<1>1. inUse(V) \ {n} = inUse(V) /\ inUse(V) \ {NotExist} = inUse(V)
  BY <1>0
<1>2. \A m \in inUse(V) : inUse(V) \ {m, n} = inUse(V) \ {m, NotExist}
  BY <1>0
<1>3. \A m \in inUse(V) : Leads(V, NotExist, V.rec[m])
  BY <1>1 DEF SoundBut, Leads
<1> QED BY <1>0, <1>1, <1>2, <1>3 DEF Sound, SoundBut


-----------------------------------------------------------------------------
(***************************************************************************)
(* Records and clusters: writing, allocating, freeing.                     *)
(***************************************************************************)

\* W is V with other bitmaps and contents of clusters.
SameRecords(V, W) ==
    /\ W \in Volume
    /\ W.rec = V.rec /\ W.mft = V.mft /\ W.lost = V.lost /\ W.freed = V.freed

\* A call that leaves the disk's bitmaps alone keeps them saved if it marks the
\* volume dirty, or leaves the bitmaps in memory alone too.
LEMMA SavedStill ==
    ASSUME NEW V, NEW W, Saved(V), W.disk = V.disk, W.mftRoom = V.mftRoom,
           \/ W.dirty
           \/ W.dirty = V.dirty /\ W.mft = V.mft /\ W.bitmap = V.bitmap
    PROVE  Saved(W)
BY DEF Saved, fitting

\* What putRecord returns: an error and V as it was, or V with the new record.
IsPut(V, n, r, x) ==
    \/ x.ok = FALSE /\ x.v = V
    \/ /\ x.ok = TRUE
       /\ x.v \in Volume /\ Saved(x.v) /\ x.v.freed = {}
       /\ x.v.rec = [V.rec EXCEPT ![n] = r]
       /\ x.v.mft = V.mft /\ x.v.bitmap = V.bitmap /\ x.v.cl = V.cl /\ x.v.lost = V.lost

\* putRecord changes one record and marks the volume dirty, or changes nothing.
LEMMA PutRecord ==
    ASSUME NEW V \in Volume, Saved(V), NEW n \in Recs, NEW r \in Record
    PROVE  IsPut(V, n, r, putRecord(V, n, r))
<1> DEFINE x == putRecord(V, n, r)
           full == runsOf(r.data.cs) > MaxRuns \/ runsOf(r.ia) > MaxRuns \/ V.io = 0
           W == [V EXCEPT !.rec[n] = r, !.dirty = TRUE, !.io = @ - 1, !.freed = {}]
<1>1. x = IF full THEN failed(V) ELSE did(W)
  BY DEF putRecord
<1>2. CASE full
  <2>1. x.ok = FALSE /\ x.v = V
    BY <1>1, <1>2 DEF failed
  <2> QED BY <2>1 DEF IsPut
<1>3. CASE ~full
  <2>1. x.ok = TRUE /\ x.v = W
    BY <1>1, <1>3 DEF did
  <2>2. V.io \in Nat /\ V.io - 1 \in Nat
    BY <1>3 DEF Volume
  <2>3. W \in Volume
    BY <2>2 DEF Volume
  <2>4. W.dirty /\ W.freed = {} /\ W.rec = [V.rec EXCEPT ![n] = r]
        /\ W.mft = V.mft /\ W.bitmap = V.bitmap /\ W.cl = V.cl /\ W.lost = V.lost
        /\ W.disk = V.disk /\ W.mftRoom = V.mftRoom
    BY DEF Volume
  <2> HIDE DEF W, x
  <2>5. Saved(W)
    BY <2>4, SavedStill
  <2>6. IsPut(V, n, r, x)
    BY <2>1, <2>3, <2>4, <2>5 DEF IsPut
  <2> QED BY <2>6 DEF x
<1> QED BY <1>2, <1>3

\* What writing blks to the clusters cs leaves: each cluster as it was or with its
\* block, and no other one touched.
IsWritten(V, cs, blks, x) ==
    /\ SameRecords(V, x.v) /\ Saved(x.v) /\ x.v.bitmap = V.bitmap /\ x.ok \in BOOLEAN
    /\ \A c \in Clusters : \/ x.v.cl[c] = V.cl[c]
                           \/ \E i \in 1..Len(cs) : cs[i] = c /\ x.v.cl[c] = blks[i]
    /\ \A c \in Clusters : c \notin Elems(cs) => x.v.cl[c] = V.cl[c]
    /\ x.ok /\ Distinct(cs) => \A i \in 1..Len(cs) : x.v.cl[cs[i]] = blks[i]

\* writeClusters writes in the order of the clusters, up to the write that fails.
LEMMA WriteClusters ==
    ASSUME NEW V \in Volume, Saved(V), NEW cs \in Seq(Clusters), NEW blks \in Seq(Chunk),
           Len(blks) = Len(cs)
    PROVE  IsWritten(V, cs, blks, writeClusters(V, cs, blks))
<1> DEFINE x == writeClusters(V, cs, blks)
           k0 == IF V.io < Len(cs) THEN V.io ELSE Len(cs)
<1>1. PICK k \in Nat : k = k0 /\ k <= Len(cs) /\ V.io - k \in Nat
  BY DEF Volume
<1> DEFINE F == [c \in Clusters |-> IF \E i \in 1..k : cs[i] = c
                                    THEN blks[CHOOSE i \in 1..k : cs[i] = c] ELSE V.cl[c]]
           W == [V EXCEPT !.io = V.io - k, !.cl = F]
<1>2. x.ok = (k = Len(cs)) /\ x.v = W
  BY <1>1 DEF writeClusters
<1>3. 1..k \subseteq 1..Len(cs) /\ \A i \in 1..k : blks[i] \in Chunk
  BY <1>1
<1>4. F \in [Clusters -> Chunk]
  <2>1. ASSUME NEW c \in Clusters PROVE F[c] \in Chunk
    <3>1. CASE \E i \in 1..k : cs[i] = c
      BY <1>3, <3>1
    <3>2. CASE ~\E i \in 1..k : cs[i] = c
      BY <3>2 DEF Volume
    <3> QED BY <3>1, <3>2
  <2> QED BY <2>1
<1>5. \A c \in Clusters : c \notin Elems(cs) => F[c] = V.cl[c]
  BY <1>3 DEF Elems
<1>10. ASSUME NEW c \in Clusters
       PROVE  F[c] = V.cl[c] \/ \E i \in 1..Len(cs) : cs[i] = c /\ F[c] = blks[i]
  <2>1. CASE \E i \in 1..k : cs[i] = c
    <3> DEFINE j == CHOOSE i \in 1..k : cs[i] = c
    <3>1. j \in 1..k /\ cs[j] = c /\ F[c] = blks[j]
      BY <2>1
    <3> HIDE DEF j, F
    <3> QED BY <1>3, <3>1
  <2>2. CASE ~\E i \in 1..k : cs[i] = c
    BY <2>2
  <2> QED BY <2>1, <2>2
<1>6. ASSUME k = Len(cs), Distinct(cs), NEW i \in 1..Len(cs) PROVE F[cs[i]] = blks[i]
  <2>1. cs[i] \in Clusters /\ i \in 1..k
    BY <1>6
  <2> DEFINE j == CHOOSE a \in 1..k : cs[a] = cs[i]
  <2>2. j \in 1..k /\ cs[j] = cs[i]
    BY <2>1
  <2>3. F[cs[i]] = blks[j]
    BY <2>1
  <2> HIDE DEF j, F
  <2>4. j = i
    BY <1>6, <2>2 DEF Distinct
  <2> QED BY <2>3, <2>4
<1> HIDE DEF F
<1>7. W \in Volume /\ W.cl = F /\ W.rec = V.rec /\ W.mft = V.mft /\ W.lost = V.lost /\ W.freed = V.freed
      /\ W.bitmap = V.bitmap /\ W.dirty = V.dirty /\ W.disk = V.disk /\ W.mftRoom = V.mftRoom
  BY <1>1, <1>4 DEF Volume
<1> HIDE DEF W, x
<1>8. Saved(W)
  BY <1>7, SavedStill
<1>9. SameRecords(V, W)
  BY <1>7 DEF SameRecords
<1>11. IsWritten(V, cs, blks, x)
  BY <1>2, <1>5, <1>6, <1>7, <1>8, <1>9, <1>10 DEF IsWritten
<1> QED BY <1>11 DEF x

\* The i-th free cluster is free, and has i - 1 free ones before it.
LEMMA NthFree ==
    ASSUME NEW V \in Volume
    PROVE  /\ Cardinality(freeClusters(V)) \in Nat
           /\ \A i \in 1..Cardinality(freeClusters(V)) :
                 /\ nthFree(V, i) \in freeClusters(V)
                 /\ Cardinality({b \in freeClusters(V) : b < nthFree(V, i)}) = i - 1
<1> DEFINE S == freeClusters(V)
           Below(c) == {b \in S : b < c}
<1>1. IsFiniteSet(S) /\ S \subseteq Nat
  <2>1. IsFiniteSet(Clusters) /\ Clusters \subseteq Nat
    BY FS_Interval DEF Clusters
  <2>2. S \subseteq Clusters
    BY DEF freeClusters
  <2> QED BY <2>1, <2>2, FS_Subset
<1>2. PICK n \in Nat : n = Cardinality(S)
  BY <1>1, FS_CardinalityType
<1>3. nthFree(V, 0) = nthFree(V, 0) /\ \A i : nthFree(V, i) = CHOOSE c \in S : Cardinality(Below(c)) = i - 1
  BY DEF nthFree
<1> HIDE DEF S
<1> DEFINE T == {k \in 0..n : k > 0 => \E c \in S : Cardinality(Below(c)) = k - 1}
<1>4. 0 \in T
  BY <1>2
<1>5. ASSUME NEW k \in 1..n, k - 1 \in T PROVE k \in T
  <2>1. \E A \in SUBSET S : /\ Cardinality(A) = k - 1 /\ IsFiniteSet(A)
                           /\ \A a \in A, b \in S : b <= a => b \in A
    <3>1. CASE k = 1
      <4>1. {} \in SUBSET S /\ Cardinality({}) = 0 /\ IsFiniteSet({})
        BY FS_EmptySet
      <4> QED BY <3>1, <4>1
    <3>2. CASE k # 1
      <4>1. PICK c \in S : Cardinality(Below(c)) = k - 2
        BY <1>5, <3>2
      <4> DEFINE A == Below(c) \cup {c}
      <4>2. IsFiniteSet(Below(c)) /\ c \notin Below(c)
        BY <1>1, <4>1, FS_Subset
      <4>3. Cardinality(A) = k - 1 /\ IsFiniteSet(A)
        <5>1. Cardinality(A) = Cardinality(Below(c)) + 1 /\ IsFiniteSet(A)
          <6> HIDE DEF Below
          <6> QED BY <4>2, FS_AddElement
        <5> QED BY <4>1, <5>1
      <4>4. \A a \in A, b \in S : b <= a => b \in A
        BY <1>1
      <4>5. A \in SUBSET S
        OBVIOUS
      <4> HIDE DEF A
      <4> QED BY <4>3, <4>4, <4>5
    <3> QED BY <3>1, <3>2
  <2>2. PICK A \in SUBSET S : /\ Cardinality(A) = k - 1 /\ IsFiniteSet(A)
                             /\ \A a \in A, b \in S : b <= a => b \in A
    BY <2>1
  <2>3. S \ A # {}
    <3>1. A # S
      BY <1>2, <2>2
    <3> QED BY <3>1
  <2>4. PICK c \in S \ A : \A b \in S \ A : c <= b
    BY <1>1, <2>3, NatMin
  <2>5. Below(c) = A
    <3>1. ASSUME NEW b \in S, b < c PROVE b \in A
      <4>1. b \in Nat /\ c \in Nat
        BY <1>1, <2>4
      <4> QED BY <2>4, <3>1, <4>1
    <3>2. ASSUME NEW b \in A PROVE b < c
      <4>1. b \in Nat /\ c \in Nat /\ c \in S /\ c \notin A
        BY <1>1, <2>2, <2>4
      <4> QED BY <2>2, <4>1
    <3> QED BY <3>1, <3>2, <2>2
  <2>6. Cardinality(Below(c)) = k - 1 /\ c \in S
    BY <2>2, <2>4, <2>5
  <2> HIDE DEF Below
  <2> QED BY <2>6
<1> HIDE DEF T
<1>6. \A k \in 0..n : k \in T
  BY <1>4, <1>5, Upward
<1>7. ASSUME NEW i \in 1..n PROVE nthFree(V, i) \in S /\ Cardinality(Below(nthFree(V, i))) = i - 1
  <2>1. \E c \in S : Cardinality(Below(c)) = i - 1
    BY <1>6 DEF T
  <2> QED BY <1>3, <2>1
<1> QED BY <1>2, <1>7 DEF S


\* ToSet of a sequence in the terms of these proofs.
LEMMA ToSetElems ==
    ASSUME NEW S, NEW s \in Seq(S)
    PROVE  Seqs!ToSet(s) = Elems(s) /\ Elems(s) \subseteq S /\ (Elems(s) = {} <=> s = <<>>)
<1>1. DOMAIN s = 1..Len(s)
  OBVIOUS
<1>2. Seqs!ToSet(s) = Elems(s)
  BY <1>1 DEF Seqs!ToSet, Elems
<1>3. Elems(s) \subseteq S
  BY DEF Elems
<1>4. s = <<>> => Elems(s) = {}
  BY DEF Elems
<1>5. ASSUME s # <<>> PROVE Elems(s) # {}
  <2>1. 1 \in 1..Len(s)
    BY <1>5, EmptySeq
  <2> QED BY <2>1 DEF Elems
<1> QED BY <1>2, <1>3, <1>4, <1>5

\* Marking clusters makes the volume dirty, if there are any.
LEMMA Taken ==
    ASSUME NEW V \in Volume, Saved(V), NEW cs \in Seq(Clusters)
    PROVE  LET W == taken(V, cs)
           IN  SameRecords(V, W) /\ Saved(W) /\ W.bitmap = V.bitmap \cup Elems(cs) /\ W.cl = V.cl
<1> DEFINE W == taken(V, cs)
<1>1. PICK C \in SUBSET Clusters : C = Elems(cs) /\ C = Seqs!ToSet(cs) /\ (C = {} <=> cs = <<>>)
  BY ToSetElems
<1>2. PICK some \in BOOLEAN : some = (cs # <<>>)
  OBVIOUS
<1>3. W = [V EXCEPT !.bitmap = V.bitmap \cup C, !.dirty = V.dirty \/ some]
  BY <1>1, <1>2 DEF taken
<1> HIDE DEF W
<1>4. /\ W.bitmap = V.bitmap \cup C /\ W.dirty = (V.dirty \/ some) /\ W.disk = V.disk /\ W.cl = V.cl
      /\ W.rec = V.rec /\ W.mft = V.mft /\ W.lost = V.lost /\ W.freed = V.freed
      /\ W.mftRoom = V.mftRoom
  BY <1>3 DEF Volume
<1>5. W \in Volume
  BY <1>3 DEF Volume
<1>6. Saved(W)
  <2>1. CASE some
    BY <1>4, <2>1, SavedStill
  <2>2. CASE ~some
    <3>1. W.bitmap = V.bitmap
      BY <1>1, <1>2, <1>4, <2>2
    <3>2. W.dirty = V.dirty
      BY <1>4, <2>2 DEF Volume
    <3> QED BY <1>4, <3>1, <3>2, SavedStill
  <2> QED BY <2>1, <2>2
<1>7. SameRecords(V, W)
  BY <1>4, <1>5 DEF SameRecords
<1> QED BY <1>1, <1>4, <1>6, <1>7 DEF W

\* Freeing clusters, the record that lists them not being written yet.
LEMMA FreeRuns ==
    ASSUME NEW V \in Volume, Saved(V), NEW cs \in Seq(Clusters)
    PROVE  LET W == freeRuns(V, cs)
           IN  /\ W \in Volume /\ Saved(W) /\ W.rec = V.rec /\ W.mft = V.mft /\ W.lost = V.lost /\ W.cl = V.cl
               /\ W.bitmap = V.bitmap \ Elems(cs) /\ W.freed = V.freed \cup Elems(cs)
<1> DEFINE W == freeRuns(V, cs)
<1>1. PICK C \in SUBSET Clusters : C = Elems(cs) /\ C = Seqs!ToSet(cs) /\ (C = {} <=> cs = <<>>)
  BY ToSetElems
<1>2. PICK some \in BOOLEAN : some = (cs # <<>>)
  OBVIOUS
<1>3. W = [V EXCEPT !.bitmap = V.bitmap \ C, !.dirty = V.dirty \/ some, !.freed = V.freed \cup C]
  BY <1>1, <1>2 DEF freeRuns
<1> HIDE DEF W
<1>4. /\ W.bitmap = V.bitmap \ C /\ W.dirty = (V.dirty \/ some) /\ W.disk = V.disk /\ W.cl = V.cl
      /\ W.rec = V.rec /\ W.mft = V.mft /\ W.lost = V.lost /\ W.freed = V.freed \cup C
      /\ W.mftRoom = V.mftRoom
  BY <1>3 DEF Volume
<1>5. W \in Volume
  BY <1>3 DEF Volume
<1>6. Saved(W)
  <2>1. CASE some
    BY <1>4, <2>1, SavedStill
  <2>2. CASE ~some
    <3>1. W.bitmap = V.bitmap
      BY <1>1, <1>2, <1>4, <2>2
    <3>2. W.dirty = V.dirty
      BY <1>4, <2>2 DEF Volume
    <3> QED BY <1>4, <3>1, <3>2, SavedStill
  <2> QED BY <2>1, <2>2
<1> QED BY <1>1, <1>4, <1>5, <1>6 DEF W

\* cs are n different clusters that were free on V and are marked on W.
NewClusters(V, W, n, cs) ==
    /\ cs \in Seq(Clusters) /\ Len(cs) = n /\ Distinct(cs)
    /\ Elems(cs) \subseteq W.bitmap /\ Elems(cs) \cap V.bitmap = {}

IsAlloc(V, n, a) ==
    /\ a.ok \in BOOLEAN
    /\ SameRecords(V, a.v) /\ Saved(a.v) /\ V.bitmap \subseteq a.v.bitmap
    /\ \A c \in V.bitmap : a.v.cl[c] = V.cl[c]
    /\ a.ok => NewClusters(V, a.v, n, a.cs)

\* The allocator gives clusters that were free, in one run or in several.
LEMMA AllocContiguousClusters ==
    ASSUME NEW V \in Volume, Saved(V), NEW n \in Nat
    PROVE  LET a == allocContiguousClusters(V, n) IN IsAlloc(V, n, a) /\ a.v.cl = V.cl
<1> DEFINE F == freeClusters(V)
           free == [i \in 1..Cardinality(F) |-> nthFree(V, i)]
           starts == {s \in F : s..(s + n - 1) \subseteq F}
           cs == IF starts # {} THEN [i \in 1..n |-> Sets!Min(starts) + i - 1] ELSE SubSeq(free, 1, n)
           a == allocContiguousClusters(V, n)
<1>0. a = IF n = 0 THEN [ok |-> TRUE, v |-> V, cs |-> <<>>]
          ELSE IF Len(free) < n THEN [ok |-> FALSE, v |-> taken(V, free), cs |-> <<>>]
          ELSE [ok |-> TRUE, v |-> taken(V, cs), cs |-> cs]
  BY DEF allocContiguousClusters
<1>1. PICK card \in Nat : card = Cardinality(F)
  BY NthFree
<1>2. \A i \in 1..card : nthFree(V, i) \in F /\ Cardinality({b \in F : b < nthFree(V, i)}) = i - 1
  BY <1>1, NthFree
<1>3. F \subseteq Clusters /\ F \cap V.bitmap = {} /\ Clusters \subseteq Nat
  BY DEF freeClusters, Clusters
<1> HIDE DEF F
<1>4. /\ free \in Seq(F) /\ free \in Seq(Clusters) /\ Len(free) = card
      /\ \A i \in 1..card : free[i] = nthFree(V, i)
  <2>1. free = [i \in 1..card |-> nthFree(V, i)]
    BY <1>1
  <2> HIDE DEF free
  <2>2. free \in Seq(F) /\ Len(free) = card /\ \A i \in 1..card : free[i] = nthFree(V, i)
    <3>1. \A i \in 1..card : nthFree(V, i) \in F
      BY <1>2
    <3> QED BY <2>1, <3>1
  <2>3. \A i \in 1..card : nthFree(V, i) \in Clusters
    BY <1>2, <1>3
  <2>4. free \in Seq(Clusters)
    BY <2>1, <2>3
  <2> QED BY <2>2, <2>4
<1>5. CASE n = 0
  <2>1. a.ok = TRUE /\ a.v = V /\ a.cs = <<>>
    BY <1>0, <1>5
  <2>2. NewClusters(V, V, n, <<>>)
    BY <1>5 DEF NewClusters, Distinct, Elems
  <2>3. SameRecords(V, V)
    BY DEF SameRecords
  <2> HIDE DEF a
  <2> QED BY <2>1, <2>2, <2>3 DEF IsAlloc, a
<1>6. CASE n # 0 /\ Len(free) < n
  <2>1. a.ok = FALSE /\ a.v = taken(V, free)
    BY <1>0, <1>6
  <2> HIDE DEF a, free
  <2>2. /\ SameRecords(V, a.v) /\ Saved(a.v) /\ a.v.bitmap = V.bitmap \cup Elems(free) /\ a.v.cl = V.cl
    BY <1>4, <2>1, Taken
  <2> QED BY <2>1, <2>2 DEF IsAlloc, a
<1>7. CASE n # 0 /\ ~(Len(free) < n)
  <2>1. a.ok = TRUE /\ a.v = taken(V, cs) /\ a.cs = cs
    BY <1>0, <1>7
  <2>2. cs \in Seq(F) /\ Len(cs) = n /\ Distinct(cs)
    <3>1. CASE starts # {}
      <4>1. starts \subseteq Nat
        BY <1>3
      <4>2. PICK s \in starts : s = Sets!Min(starts)
        BY <3>1, <4>1, Least
      <4>3. s \in Nat /\ \A i \in 1..n : s + i - 1 \in s..(s + n - 1)
        <5>1. s \in Nat
          BY <4>1, <4>2
        <5> QED BY <5>1
      <4>4. \A i \in 1..n : s + i - 1 \in F
        BY <4>2, <4>3
      <4>5. cs = [i \in 1..n |-> s + i - 1]
        BY <3>1, <4>2
      <4> HIDE DEF cs
      <4>6. cs \in Seq(F) /\ Len(cs) = n
        BY <4>4, <4>5
      <4>7. Distinct(cs)
        BY <4>3, <4>5, <4>6 DEF Distinct
      <4> QED BY <4>6, <4>7
    <3>2. CASE starts = {}
      <4>1. cs = SubSeq(free, 1, n)
        BY <3>2
      <4> HIDE DEF cs, free
      <4>2. n <= card
        BY <1>4, <1>7
      <4>3. cs \in Seq(F) /\ Len(cs) = n /\ \A i \in 1..n : cs[i] = nthFree(V, i)
        <5>1. cs = [i \in 1..n |-> free[i]]
          BY <1>4, <4>1, <4>2
        <5>2. \A i \in 1..n : free[i] = nthFree(V, i) /\ free[i] \in F
          BY <1>2, <1>4, <4>2
        <5> QED BY <5>1, <5>2
      <4>4. ASSUME NEW i \in 1..n, NEW j \in 1..n, cs[i] = cs[j] PROVE i = j
        <5>1. i \in 1..card /\ j \in 1..card /\ nthFree(V, i) = nthFree(V, j)
          BY <4>2, <4>3, <4>4
        <5>2. i - 1 = j - 1
          BY <1>2, <5>1
        <5> QED BY <5>2
      <4> QED BY <4>3, <4>4 DEF Distinct
    <3> QED BY <3>1, <3>2
  <2> HIDE DEF a, cs
  <2>3. cs \in Seq(Clusters) /\ Elems(cs) \subseteq F
    <3>1. \A i \in 1..n : cs[i] \in F
      BY <2>2
    <3>2. \A i \in 1..n : cs[i] \in Clusters
      BY <1>3, <3>1
    <3>3. cs = [i \in 1..n |-> cs[i]]
      BY <2>2
    <3>4. cs \in Seq(Clusters)
      BY <3>2, <3>3
    <3> QED BY <2>2, <3>1, <3>4 DEF Elems
  <2>4. SameRecords(V, a.v) /\ Saved(a.v) /\ a.v.bitmap = V.bitmap \cup Elems(cs) /\ a.v.cl = V.cl
    BY <2>1, <2>3, Taken
  <2>5. NewClusters(V, a.v, n, cs)
    BY <1>3, <2>2, <2>3, <2>4 DEF NewClusters
  <2> QED BY <2>1, <2>4, <2>5 DEF IsAlloc, a
<1> QED BY <1>5, <1>6, <1>7

\* allocAndWrite: new clusters that hold what was to be written.
LEMMA AllocAndWrite ==
    ASSUME NEW V \in Volume, Saved(V), NEW blks \in Seq(Chunk)
    PROVE  LET a == allocAndWrite(V, blks)
           IN  /\ IsAlloc(V, Len(blks), a)
               /\ a.ok => \A i \in 1..Len(blks) : a.v.cl[a.cs[i]] = blks[i]
<1> DEFINE b == allocContiguousClusters(V, Len(blks))
           w == writeClusters(b.v, b.cs, blks)
           a == allocAndWrite(V, blks)
<1>1. IsAlloc(V, Len(blks), b) /\ b.v.cl = V.cl
  BY AllocContiguousClusters
<1>2. a = IF b.ok THEN [ok |-> w.ok, v |-> w.v, cs |-> b.cs] ELSE b
  BY DEF allocAndWrite
<1> HIDE DEF b
<1>3. CASE ~b.ok
  BY <1>1, <1>2, <1>3
<1>4. CASE b.ok
  <2>1. a.ok = w.ok /\ a.v = w.v /\ a.cs = b.cs
    BY <1>2, <1>4
  <2>2. b.v \in Volume /\ Saved(b.v) /\ NewClusters(V, b.v, Len(blks), b.cs) /\ SameRecords(V, b.v)
    BY <1>1, <1>4 DEF IsAlloc, SameRecords
  <2>3. b.cs \in Seq(Clusters) /\ Len(b.cs) = Len(blks) /\ Distinct(b.cs) /\ Elems(b.cs) \cap V.bitmap = {}
    BY <2>2 DEF NewClusters
  <2>4. /\ SameRecords(b.v, w.v) /\ Saved(w.v) /\ w.v.bitmap = b.v.bitmap /\ w.ok \in BOOLEAN
        /\ \A c \in Clusters : c \notin Elems(b.cs) => w.v.cl[c] = b.v.cl[c]
        /\ w.ok /\ Distinct(b.cs) => \A i \in 1..Len(b.cs) : w.v.cl[b.cs[i]] = blks[i]
    <3>1. IsWritten(b.v, b.cs, blks, w)
      BY <2>2, <2>3, WriteClusters
    <3> QED BY <3>1 DEF IsWritten
  <2> HIDE DEF w, a
  <2>5. SameRecords(V, w.v)
    BY <2>2, <2>4 DEF SameRecords
  <2>6. V.bitmap \subseteq Clusters /\ V.bitmap \subseteq b.v.bitmap
    BY <1>1 DEF Volume, IsAlloc
  <2>7. \A c \in V.bitmap : w.v.cl[c] = V.cl[c]
    BY <1>1, <2>3, <2>4, <2>6
  <2>8. NewClusters(V, w.v, Len(blks), b.cs)
    BY <2>2, <2>4 DEF NewClusters
  <2>9. IsAlloc(V, Len(blks), a)
    BY <2>1, <2>4, <2>5, <2>6, <2>7, <2>8 DEF IsAlloc
  <2>10. a.ok => \A i \in 1..Len(blks) : a.v.cl[a.cs[i]] = blks[i]
    BY <2>1, <2>3, <2>4
  <2> QED BY <2>9, <2>10 DEF a
<1>5. b.ok \in BOOLEAN
  BY <1>1 DEF IsAlloc
<1> QED BY <1>3, <1>4, <1>5


-----------------------------------------------------------------------------
(***************************************************************************)
(* The parts of a call.                                                    *)
(***************************************************************************)

\* What a part of a call makes of V.
Outcome(V, x) ==
    /\ x.ok \in BOOLEAN
    /\ Good(x.v)
    /\ x.ok => x.v.freed = {}
    /\ V.lost => x.v.lost

\* Clusters of record n may be freed, others allocated and written, before a new
\* record n lists what belongs to it.
LEMMA Relisted ==
    ASSUME NEW V \in Volume, Sound(V), NEW n \in inUse(V), NEW W, W.rec = V.rec, W.mft = V.mft,
           NEW keep, keep = V.bitmap \ Listed(V.rec[n]),
           keep \subseteq W.bitmap, \A c \in keep : W.cl[c] = V.cl[c],
           NEW r, Tidy(r), Listed(r) \subseteq W.bitmap, Listed(r) \cap keep = {},
           \A e \in Held(W.cl, r) : e.num \in inUse(V)
    PROVE  SoundBut(W, n) /\ n \in W.mft /\ Apart(W, inUse(W) \ {n}, r) /\ Leads(W, n, r)
<1>0. n \in Recs /\ inUse(W) = inUse(V)
  BY DEF inUse
<1>1. SoundBut(V, n) /\ n \in V.mft /\ Apart(V, inUse(V) \ {n}, V.rec[n])
  BY <1>0, LeaveOut
<1>2. ASSUME NEW m \in inUse(V) \ {n}
      PROVE  /\ Listed(V.rec[m]) \subseteq keep
             /\ m \in W.mft /\ Apart(W, inUse(V) \ {m, n}, V.rec[m]) /\ Leads(W, n, V.rec[m])
  <2>1. m \in V.mft /\ Apart(V, inUse(V) \ {m, n}, V.rec[m]) /\ Leads(V, n, V.rec[m])
    BY <1>1 DEF SoundBut
  <2>2. Listed(V.rec[m]) \subseteq keep
    BY <1>1, <2>1 DEF Apart
  <2>3. Elems(V.rec[m].ia) \subseteq keep
    BY <2>2 DEF Listed
  <2>4. Held(W.cl, V.rec[m]) = Held(V.cl, V.rec[m])
    BY <2>3, HeldSame
  <2>5. Leads(W, n, V.rec[m])
    BY <1>0, <2>1, <2>4 DEF Leads
  <2>6. Apart(W, inUse(V) \ {m, n}, V.rec[m])
    BY <2>1, <2>2 DEF Apart
  <2> QED BY <2>1, <2>2, <2>5, <2>6
<1>3. SoundBut(W, n)
  BY <1>0, <1>1, <1>2 DEF SoundBut
<1>4. Apart(W, inUse(W) \ {n}, r)
  BY <1>0, <1>2 DEF Apart
<1>5. Leads(W, n, r)
  BY <1>0 DEF Leads
<1> QED BY <1>1, <1>3, <1>4, <1>5

\* The condition under which PutGood writes a record.
MayPut(V, n, r) ==
    /\ SoundBut(V, n) /\ r.use /\ n \in V.mft
    /\ Apart(V, inUse(V) \ {n}, r) /\ Leads(V, n, r)

\* A part of a call that takes no record and loses no name.
Kept(V, x) == Outcome(V, x) /\ x.v.mft = V.mft /\ x.v.lost = V.lost

\* putRecord writes a record that Replaced allows, if nothing was lost.
LEMMA PutGood ==
    ASSUME NEW V, Good(V), NEW n \in Recs, NEW r \in Record, ~V.lost => MayPut(V, n, r)
    PROVE  Kept(V, putRecord(V, n, r))
<1> DEFINE x == putRecord(V, n, r)
<1>0. V \in Volume /\ V.lost \in BOOLEAN
  BY DEF Good, Volume
<1>1. IsPut(V, n, r, x)
  <2>1. Saved(V)
    BY DEF Good
  <2> QED BY <1>0, <2>1, PutRecord
<1> HIDE DEF x
<1>2. CASE x.ok = FALSE /\ x.v = V
  BY <1>2 DEF Kept, Outcome, x
<1>3. CASE x.ok = TRUE /\ x.v.freed = {}
  <2>1. /\ x.v \in Volume /\ Saved(x.v) /\ x.v.rec = [V.rec EXCEPT ![n] = r]
        /\ x.v.mft = V.mft /\ x.v.bitmap = V.bitmap /\ x.v.cl = V.cl /\ x.v.lost = V.lost
    BY <1>1, <1>3 DEF IsPut
  <2>2. ~V.lost => Sound(x.v)
    BY <1>0, <2>1, Replaced DEF MayPut
  <2>3. Good(x.v)
    BY <2>1, <2>2 DEF Good
  <2> QED BY <1>3, <2>1, <2>3 DEF Kept, Outcome, x
<1> QED BY <1>1, <1>2, <1>3 DEF IsPut

\* A record is read and written as it is.
LEMMA PutSame ==
    ASSUME NEW V, Good(V), V.freed = {}, NEW n \in Recs
    PROVE  LET x == putRecord(V, n, V.rec[n])
           IN  Outcome(V, x) /\ x.v.mft = V.mft /\ x.v.lost = V.lost /\ x.v.rec = V.rec
<1> DEFINE x == putRecord(V, n, V.rec[n])
<1>0. V \in Volume /\ V.rec[n] \in Record /\ V.rec = [V.rec EXCEPT ![n] = V.rec[n]]
  BY DEF Good, Volume
<1>1. IsPut(V, n, V.rec[n], x)
  <2>1. Saved(V)
    BY DEF Good
  <2> QED BY <1>0, <2>1, PutRecord
<1> HIDE DEF x
<1>2. CASE x.ok = FALSE /\ x.v = V
  BY <1>2 DEF Outcome, x
<1>3. CASE x.ok = TRUE /\ x.v.freed = {}
  <2>1. /\ x.v \in Volume /\ Saved(x.v) /\ x.v.rec = V.rec
        /\ x.v.mft = V.mft /\ x.v.bitmap = V.bitmap /\ x.v.cl = V.cl /\ x.v.lost = V.lost
    BY <1>0, <1>1, <1>3 DEF IsPut
  <2>2. Sound(V) => Sound(x.v)
    BY <2>1, Grown DEF Sound
  <2>3. Good(x.v)
    BY <2>1, <2>2 DEF Good
  <2> QED BY <1>3, <2>1, <2>3 DEF Outcome, x
<1> QED BY <1>1, <1>2, <1>3 DEF IsPut

\* withIndex replaces the index of a record and nothing else.
LEMMA WithIndex ==
    ASSUME NEW r \in Record, NEW root \in Seq(Entry), NEW ia \in Seq(Clusters)
    PROVE  LET x == withIndex(r, root, ia)
           IN  x \in Record /\ x.use = r.use /\ x.data = r.data /\ x.root = root /\ x.ia = ia
BY DEF withIndex, Record

\* withData replaces the data of a record and nothing else.
LEMMA WithData ==
    ASSUME NEW r \in Record, NEW val \in Seq(Chunk), NEW cs \in Seq(Clusters)
    PROVE  LET x == withData(r, val, cs)
           IN  x \in Record /\ x.use = r.use /\ x.data.cs = cs /\ x.root = r.root /\ x.ia = r.ia
BY DEF withData, Record, Data

\* The empty sequence has no element, and none twice.
LEMMA NoElems ==
    ASSUME NEW S
    PROVE  \E none \in Seq(S) : none = <<>> /\ Elems(none) = {} /\ Distinct(none)
<1>1. <<>> \in Seq(S) /\ Len(<<>>) = 0 /\ 1..0 = {}
  OBVIOUS
<1>2. Elems(<<>>) = {}
  BY <1>1 DEF Elems
<1>3. Distinct(<<>>)
  BY <1>1 DEF Distinct
<1> QED BY <1>1, <1>2, <1>3, Zenon

\* Appending adds one element.
LEMMA AppendElems ==
    ASSUME NEW S, NEW s \in Seq(S), NEW e \in S
    PROVE  Append(s, e) \in Seq(S) /\ Elems(Append(s, e)) = Elems(s) \cup {e}
<1>1. PICK n \in Nat : n = Len(s)
  OBVIOUS
<1> DEFINE t == Append(s, e)
<1>2. t \in Seq(S) /\ Len(t) = n + 1 /\ t[n + 1] = e /\ \A i \in 1..n : t[i] = s[i]
  BY <1>1
<1> HIDE DEF t
<1>3. \A i \in 1..(n + 1) : i \in 1..n \/ i = n + 1
  OBVIOUS
<1>4. \A i \in 1..n : i \in 1..(n + 1)
  OBVIOUS
<1>5. n + 1 \in 1..(n + 1)
  OBVIOUS
<1>6. Elems(t) = Elems(s) \cup {e}
  BY <1>1, <1>2, <1>3, <1>4, <1>5 DEF Elems
<1> QED BY <1>2, <1>6 DEF t

\* A part of a sequence.
LEMMA SubSeqElems ==
    ASSUME NEW S, NEW s \in Seq(S), NEW m \in Nat, NEW h \in Int, h <= Len(s)
    PROVE  SubSeq(s, m + 1, h) \in Seq(S) /\ Elems(SubSeq(s, m + 1, h)) \subseteq Elems(s)
<1>1. PICK n \in Nat : n = Len(s)
  OBVIOUS
<1> DEFINE t == SubSeq(s, m + 1, h)
           k == h - m
<1>2. \A i \in 1..k : m + i \in 1..n /\ m + i <= h
  BY <1>1
<1>3. t = [i \in 1..k |-> s[m + i]]
  BY <1>1
<1>4. CASE k >= 0
  <2>1. t \in Seq(S) /\ Len(t) = k
    BY <1>1, <1>2, <1>3, <1>4
  <2>2. \A i \in 1..k : t[i] = s[m + i]
    BY <1>3
  <2> HIDE DEF t, k
  <2>3. ASSUME NEW i \in 1..Len(t) PROVE t[i] \in Elems(s)
    <3>1. i \in 1..k
      BY <2>1
    <3>2. t[i] = s[m + i] /\ m + i \in 1..Len(s)
      BY <1>1, <1>2, <2>2, <3>1
    <3> QED BY <3>2 DEF Elems
  <2>4. Elems(t) \subseteq Elems(s)
    BY <2>3 DEF Elems
  <2> QED BY <2>1, <2>4 DEF t
<1>5. CASE k < 0
  <2>1. 1..k = {}
    BY <1>5
  <2>2. t = <<>>
    BY <1>3, <2>1
  <2>3. <<>> \in Seq(S)
    OBVIOUS
  <2>4. Elems(<<>>) = {}
    BY <2>3, ToSetElems
  <2> HIDE DEF t
  <2> QED BY <2>2, <2>3, <2>4 DEF t
<1> QED BY <1>4, <1>5


-----------------------------------------------------------------------------
(***************************************************************************)
(* Adding a name to a directory.                                           *)
(***************************************************************************)

\* The index of a directory in use moves to clusters that were its own or free.
LEMMA Reindexed ==
    ASSUME NEW V \in Volume, Sound(V), NEW dir \in inUse(V), NEW r, r = V.rec[dir],
           NEW W, W.rec = V.rec, W.mft = V.mft,
           NEW keep, keep = V.bitmap \ Elems(r.ia),
           keep \subseteq W.bitmap, \A c \in keep : W.cl[c] = V.cl[c],
           NEW root \in Seq(Entry), NEW ia \in Seq(Clusters), Distinct(ia),
           Elems(ia) \subseteq W.bitmap, Elems(ia) \cap keep = {},
           \A e \in Elems(root) : e.num \in inUse(V),
           \A c \in Elems(ia) : \A e \in Elems(W.cl[c].ents) : e.num \in inUse(V)
    PROVE  MayPut(W, dir, withIndex(r, root, ia))
<1> DEFINE x == withIndex(r, root, ia)
           rest == V.bitmap \ Listed(r)
<1>0. dir \in Recs /\ r \in Record /\ r.use
  BY DEF inUse, Volume
<1>1. x \in Record /\ x.use = r.use /\ x.data = r.data /\ x.root = root /\ x.ia = ia
  <2>1. \A q \in Record : LET y == withIndex(q, root, ia)
                         IN  y \in Record /\ y.use = q.use /\ y.data = q.data /\ y.root = root /\ y.ia = ia
    BY DEF withIndex, Record
  <2> QED BY <1>0, <2>1, Zenon
<1> HIDE DEF x
<1>2. Tidy(r) /\ Listed(r) \subseteq V.bitmap
  BY <1>0, LeaveOut DEF Apart
<1>3. Elems(r.data.cs) \subseteq keep
  BY <1>2 DEF Tidy, Listed
<1>4. Tidy(x)
  BY <1>1, <1>2, <1>3 DEF Tidy
<1>5. Listed(x) \subseteq W.bitmap
  BY <1>1, <1>3 DEF Listed
<1>6. rest \subseteq keep /\ Listed(x) \cap rest = {}
  BY <1>1 DEF Listed
<1>7. \A e \in Held(W.cl, x) : e.num \in inUse(V)
  BY <1>1 DEF Held
<1> HIDE DEF rest
<1>8. rest \subseteq W.bitmap /\ \A c \in rest : W.cl[c] = V.cl[c]
  BY <1>6
<1>9. SoundBut(W, dir) /\ dir \in W.mft /\ Apart(W, inUse(W) \ {dir}, x) /\ Leads(W, dir, x)
  BY <1>4, <1>5, <1>6, <1>7, <1>8, Relisted DEF rest
<1> QED BY <1>0, <1>1, <1>9 DEF MayPut, x

\* The entries of a directory in use name records in use.
LEMMA HeldInUse ==
    ASSUME NEW V \in Volume, Sound(V), NEW dir \in inUse(V)
    PROVE  /\ \A e \in Elems(V.rec[dir].root) : e.num \in inUse(V)
           /\ \A c \in Elems(V.rec[dir].ia) : \A e \in Elems(V.cl[c].ents) : e.num \in inUse(V)
           /\ Distinct(V.rec[dir].ia) /\ Elems(V.rec[dir].ia) \subseteq V.bitmap
<1>1. dir \in Recs
  BY DEF inUse
<1>2. Leads(V, dir, V.rec[dir]) /\ Apart(V, inUse(V) \ {dir}, V.rec[dir])
  BY <1>1, LeaveOut
<1>3. \A e \in Held(V.cl, V.rec[dir]) : e.num \in inUse(V)
  BY <1>2 DEF Leads
<1>4. \A e \in Elems(V.rec[dir].root) : e \in Held(V.cl, V.rec[dir])
  BY DEF Held
<1>5. \A c \in Elems(V.rec[dir].ia) : \A e \in Elems(V.cl[c].ents) : e \in Held(V.cl, V.rec[dir])
  BY DEF Held
<1> QED BY <1>2, <1>3, <1>4, <1>5 DEF Apart, Tidy, Listed

\* indx builds a block that holds the entries.
LEMMA IndxBlock ==
    ASSUME NEW ents \in Seq(Entry)
    PROVE  indx(ents) \in Chunk /\ indx(ents).ents = ents
BY DEF indx, Chunk, Ids

\* The entries are distributed over blocks.
LEMMA Packed ==
    ASSUME NEW ents \in Seq(Entry)
    PROVE  /\ packed(ents) \in Seq(Chunk)
           /\ \A b \in 1..Len(packed(ents)) : Elems(packed(ents)[b].ents) \subseteq Elems(ents)
<1>1. PICK n \in Nat : n = Len(ents)
  OBVIOUS
<1>2. PICK m \in Nat : m = (n + BlockCap - 1) \div BlockCap
  OBVIOUS
<1> DEFINE part(b) == SubSeq(ents, (b - 1) * BlockCap + 1, IF b * BlockCap < n THEN b * BlockCap ELSE n)
<1>3. packed(ents) = [b \in 1..m |-> indx(part(b))]
  BY <1>1, <1>2 DEF packed
<1>4. ASSUME NEW b \in 1..m PROVE part(b) \in Seq(Entry) /\ Elems(part(b)) \subseteq Elems(ents)
  <2>1. PICK k \in Nat : k = (b - 1) * BlockCap
    OBVIOUS
  <2>2. PICK j \in Int : j = b * BlockCap
    OBVIOUS
  <2>3. PICK h \in Int : h = (IF j < n THEN j ELSE n) /\ h <= n
    OBVIOUS
  <2>4. part(b) = SubSeq(ents, k + 1, h)
    BY <2>1, <2>2, <2>3
  <2> QED BY <1>1, <2>3, <2>4, SubSeqElems
<1> HIDE DEF part
<1>5. \A b \in 1..m : indx(part(b)) \in Chunk /\ indx(part(b)).ents = part(b)
  BY <1>4, IndxBlock
<1>6. packed(ents) \in Seq(Chunk) /\ Len(packed(ents)) = m
  BY <1>3, <1>5
<1>7. \A b \in 1..m : packed(ents)[b].ents = part(b)
  BY <1>3, <1>5
<1> QED BY <1>4, <1>6, <1>7

\* An allocation alone keeps a volume good.
LEMMA AllocGood ==
    ASSUME NEW V, Good(V), NEW W, SameRecords(V, W), Saved(W), V.bitmap \subseteq W.bitmap,
           \A c \in V.bitmap : W.cl[c] = V.cl[c]
    PROVE  Good(W)
<1>1. Sound(V) => Sound(W)
  BY Grown DEF Sound, SameRecords
<1> QED BY <1>1 DEF Good, SameRecords

\* A directory's names move from its record to INDX blocks.
LEMMA Spill ==
    ASSUME NEW V, Good(V), V.freed = {}, NEW dir \in Recs, V.rec[dir].ia = <<>>,
           NEW ents \in Seq(Entry),
           ~V.lost => dir \in inUse(V) /\ \A e \in Elems(ents) : e.num \in inUse(V)
    PROVE  LET x == spillToIndexAlloc(V, dir, ents)
           IN  Outcome(V, x) /\ x.v.mft = V.mft /\ x.v.lost = V.lost
<1> DEFINE a == allocAndWrite(V, packed(ents))
           x == spillToIndexAlloc(V, dir, ents)
<1>0. V \in Volume /\ Saved(V)
  BY DEF Good
<1>1. packed(ents) \in Seq(Chunk) /\ \A b \in 1..Len(packed(ents)) : Elems(packed(ents)[b].ents) \subseteq Elems(ents)
  BY Packed
<1>2. /\ IsAlloc(V, Len(packed(ents)), a)
      /\ a.ok => \A i \in 1..Len(packed(ents)) : a.v.cl[a.cs[i]] = packed(ents)[i]
  BY <1>0, <1>1, AllocAndWrite
<1>3. x = IF a.ok THEN putRecord(a.v, dir, withIndex(a.v.rec[dir], <<>>, a.cs)) ELSE failed(a.v)
  BY DEF spillToIndexAlloc, then
<1> HIDE DEF a
<1>4. Good(a.v) /\ a.v.mft = V.mft /\ a.v.lost = V.lost /\ a.v.freed = {} /\ a.v.rec = V.rec /\ a.ok \in BOOLEAN
  <2>1. /\ SameRecords(V, a.v) /\ Saved(a.v) /\ V.bitmap \subseteq a.v.bitmap /\ a.ok \in BOOLEAN
        /\ \A c \in V.bitmap : a.v.cl[c] = V.cl[c]
    BY <1>2 DEF IsAlloc
  <2>2. Good(a.v)
    BY <2>1, AllocGood
  <2> QED BY <2>1, <2>2 DEF SameRecords
<1>5. CASE ~a.ok
  <2>1. x.ok = FALSE /\ x.v = a.v
    BY <1>3, <1>5 DEF failed
  <2> HIDE DEF x
  <2> QED BY <1>4, <2>1 DEF Outcome, x
<1>6. CASE a.ok
  <2> DEFINE r == withIndex(V.rec[dir], <<>>, a.cs)
  <2>1. NewClusters(V, a.v, Len(packed(ents)), a.cs)
    BY <1>2, <1>6 DEF IsAlloc
  <2>2. a.cs \in Seq(Clusters) /\ V.rec[dir] \in Record /\ <<>> \in Seq(Entry)
    BY <1>0, <2>1 DEF NewClusters, Volume
  <2>3. r \in Record
    BY <2>2, WithIndex
  <2>4. ASSUME ~V.lost PROVE MayPut(a.v, dir, r)
    <3>1. Sound(V)
      BY <2>4 DEF Good
    <3>2. Elems(V.rec[dir].ia) = {} /\ Elems(<<>>) = {}
      <4>1. Elems(<<>>) = {}
        BY <2>2, ToSetElems
      <4> QED BY <4>1
    <3>3. V.bitmap \ Elems(V.rec[dir].ia) = V.bitmap
      BY <3>2
    <3>4. ASSUME NEW c \in Elems(a.cs), NEW e \in Elems(a.v.cl[c].ents) PROVE e.num \in inUse(V)
      <4>1. PICK i \in 1..Len(a.cs) : c = a.cs[i]
        BY DEF Elems
      <4>2. i \in 1..Len(packed(ents)) /\ a.v.cl[c] = packed(ents)[i]
        BY <1>2, <1>6, <2>1, <4>1 DEF NewClusters
      <4>3. e \in Elems(ents)
        BY <1>1, <3>4, <4>2
      <4> QED BY <2>4, <4>3
    <3>5. /\ Distinct(a.cs) /\ Elems(a.cs) \subseteq a.v.bitmap /\ Elems(a.cs) \cap V.bitmap = {}
          /\ V.bitmap \subseteq a.v.bitmap /\ \A c \in V.bitmap : a.v.cl[c] = V.cl[c]
      BY <1>2, <2>1 DEF NewClusters, IsAlloc
    <3> HIDE DEF r
    <3> QED BY <1>0, <1>4, <2>2, <2>4, <3>1, <3>2, <3>3, <3>4, <3>5, Reindexed DEF r
  <2>5. x = putRecord(a.v, dir, r)
    BY <1>3, <1>4, <1>6
  <2> HIDE DEF r, x
  <2>6. Outcome(a.v, x) /\ x.v.mft = a.v.mft /\ x.v.lost = a.v.lost
    <3>1. ~a.v.lost => MayPut(a.v, dir, r)
      BY <1>4, <2>4
    <3>2. Good(a.v)
      BY <1>4
    <3>3. Kept(a.v, putRecord(a.v, dir, r))
      BY <2>3, <3>1, <3>2, PutGood, Zenon
    <3> QED BY <2>5, <3>3 DEF Kept
  <2> QED BY <1>4, <2>6 DEF Outcome, x
<1> QED BY <1>4, <1>5, <1>6


\* The last INDX block of a directory takes the entry.
LEMMA AppendToLast ==
    ASSUME NEW V, Good(V), V.freed = {}, NEW dir \in Recs, V.rec[dir].ia # <<>>, NEW e \in Entry,
           ~V.lost => dir \in inUse(V) /\ e.num \in inUse(V)
    PROVE  LET c == Seqs!Last(V.rec[dir].ia)
               x == writeClusters(V, <<c>>, <<addEntryToINDXBlock(V.cl[c], e)>>)
           IN  Outcome(V, x) /\ x.v.mft = V.mft /\ x.v.lost = V.lost
<1>0. V \in Volume /\ Saved(V)
  BY DEF Good
<1>1. PICK r \in Record : r = V.rec[dir]
  BY <1>0 DEF Volume
<1>2. PICK ia \in Seq(Clusters) : ia = r.ia /\ ia # <<>>
  BY <1>1 DEF Record
<1>3. PICK c \in Clusters : c = Seqs!Last(ia) /\ c \in Elems(ia)
  <2>1. Len(ia) \in 1..Len(ia)
    BY <1>2, EmptySeq
  <2> QED BY <2>1 DEF Seqs!Last, Elems
<1>4. PICK old \in Seq(Entry) : old = V.cl[c].ents
  BY <1>0 DEF Volume, Chunk
<1> DEFINE blk == addEntryToINDXBlock(V.cl[c], e)
           x == writeClusters(V, <<c>>, <<blk>>)
<1>5. blk \in Chunk /\ Elems(blk.ents) = Elems(old) \cup {e}
  <2>1. blk = indx(Append(old, e))
    BY <1>4 DEF addEntryToINDXBlock
  <2>2. Append(old, e) \in Seq(Entry) /\ Elems(Append(old, e)) = Elems(old) \cup {e}
    BY AppendElems
  <2> HIDE DEF blk
  <2> QED BY <2>1, <2>2, IndxBlock
<1> HIDE DEF blk
<1>6. PICK cs \in Seq(Clusters), blks \in Seq(Chunk) :
          /\ cs = <<c>> /\ blks = <<blk>> /\ Len(cs) = 1 /\ Len(blks) = Len(cs)
          /\ cs[1] = c /\ blks[1] = blk
  <2>1. <<c>> \in Seq(Clusters) /\ Len(<<c>>) = 1 /\ <<c>>[1] = c
    OBVIOUS
  <2>2. <<blk>> \in Seq(Chunk) /\ Len(<<blk>>) = 1 /\ <<blk>>[1] = blk
    BY <1>5
  <2> QED BY <2>1, <2>2, Zenon
<1>7. PICK y : y = x /\ /\ SameRecords(V, y.v) /\ Saved(y.v) /\ y.v.bitmap = V.bitmap /\ y.ok \in BOOLEAN
                        /\ \A d \in Clusters : \/ y.v.cl[d] = V.cl[d]
                                               \/ \E i \in 1..Len(cs) : cs[i] = d /\ y.v.cl[d] = blks[i]
  <2> DEFINE z == writeClusters(V, cs, blks)
  <2>1. /\ SameRecords(V, z.v) /\ Saved(z.v) /\ z.v.bitmap = V.bitmap /\ z.ok \in BOOLEAN
        /\ \A d \in Clusters : \/ z.v.cl[d] = V.cl[d]
                               \/ \E i \in 1..Len(cs) : cs[i] = d /\ z.v.cl[d] = blks[i]
    <3>1. Len(blks) = Len(cs)
      BY <1>6
    <3>2. IsWritten(V, cs, blks, z)
      BY <1>0, <3>1, WriteClusters
    <3> HIDE DEF z
    <3> QED BY <3>2 DEF IsWritten
  <2>2. z = x
    BY <1>6
  <2> HIDE DEF z
  <2> QED BY <2>1, <2>2
<1> HIDE DEF x
<1>8. \A d \in Clusters : y.v.cl[d] = V.cl[d] \/ (d = c /\ y.v.cl[d] = blk)
  BY <1>6, <1>7
<1>9. ASSUME ~V.lost PROVE Sound(y.v)
  <2>1. Sound(V) /\ dir \in inUse(V) /\ e.num \in inUse(V)
    BY <1>9 DEF Good
  <2>2. /\ \A f \in Elems(r.root) : f.num \in inUse(V)
        /\ \A d \in Elems(r.ia) : \A f \in Elems(V.cl[d].ents) : f.num \in inUse(V)
        /\ Distinct(r.ia) /\ Elems(r.ia) \subseteq V.bitmap
    BY <1>0, <1>1, <2>1, HeldInUse
  <2>3. V.bitmap \subseteq Clusters
    BY <1>0 DEF Volume
  <2> DEFINE keep == V.bitmap \ Elems(r.ia)
  <2>4. keep \subseteq y.v.bitmap /\ \A d \in keep : y.v.cl[d] = V.cl[d]
    BY <1>2, <1>3, <1>7, <1>8, <2>3
  <2>5. ASSUME NEW d \in Elems(r.ia), NEW f \in Elems(y.v.cl[d].ents) PROVE f.num \in inUse(V)
    <3>1. d \in Clusters
      BY <2>2, <2>3
    <3>2. CASE y.v.cl[d] = V.cl[d]
      BY <2>2, <2>5, <3>2
    <3>3. CASE d = c /\ y.v.cl[d] = blk
      <4>1. f \in Elems(old) \/ f = e
        BY <1>5, <2>5, <3>3
      <4>2. f \in Elems(old) => f.num \in inUse(V)
        BY <1>4, <2>2, <3>3
      <4> QED BY <2>1, <4>1, <4>2
    <3> QED BY <1>8, <3>1, <3>2, <3>3
  <2>6. r.root \in Seq(Entry) /\ y.v.rec = V.rec /\ y.v.mft = V.mft /\ y.v \in Volume
    BY <1>7 DEF Record, SameRecords
  <2>7. Elems(r.ia) \cap keep = {} /\ Elems(r.ia) \subseteq y.v.bitmap /\ r.ia \in Seq(Clusters)
    BY <1>2, <1>7, <2>2
  <2> HIDE DEF keep
  <2>8. MayPut(y.v, dir, withIndex(r, r.root, r.ia))
    BY <1>0, <1>1, <2>1, <2>2, <2>4, <2>5, <2>6, <2>7, Reindexed DEF keep
  <2>9. withIndex(r, r.root, r.ia) = r
    BY DEF withIndex, Record
  <2>10. y.v.rec = [y.v.rec EXCEPT ![dir] = r]
    BY <1>0, <1>1, <2>6 DEF Volume
  <2> QED BY <2>6, <2>8, <2>9, <2>10, Replaced DEF MayPut
<1>10. Good(y.v) /\ y.v.freed = {} /\ y.v.mft = V.mft /\ y.v.lost = V.lost
  BY <1>7, <1>9 DEF Good, SameRecords
<1>11. Outcome(V, y)
  BY <1>7, <1>10 DEF Outcome
<1> QED BY <1>1, <1>2, <1>3, <1>7, <1>10, <1>11, Zenon DEF x, blk


\* repackIndexAlloc rewrites the blocks as they were, and one with the new entry.
LEMMA SavedBlocks ==
    ASSUME NEW V \in Volume, NEW ia \in Seq(Clusters), NEW e \in Entry
    PROVE  /\ saved(V, ia, e) \in Seq(Chunk)
           /\ \A i \in 1..Len(saved(V, ia, e)) : \A f \in Elems(saved(V, ia, e)[i].ents) :
                 f = e \/ \E c \in Elems(ia) : f \in Elems(V.cl[c].ents)
<1>1. PICK cl \in [Clusters -> Chunk] : cl = V.cl
  BY DEF Volume
<1>2. PICK n \in Nat : n = Len(ia)
  OBVIOUS
<1>3. PICK blk \in Chunk : blk = indx(<<e>>) /\ Elems(blk.ents) = {e}
  <2>1. <<e>> \in Seq(Entry) /\ Elems(<<e>>) = {e}
    BY DEF Elems
  <2> QED BY <2>1, IndxBlock
<1> DEFINE s == [i \in 1..(n + 1) |-> IF i <= n THEN cl[ia[i]] ELSE blk]
<1>4. saved(V, ia, e) = s
  BY <1>1, <1>2, <1>3 DEF saved
<1>5. \A i \in 1..n : ia[i] \in Clusters /\ ia[i] \in Elems(ia)
  BY <1>2 DEF Elems
<1>6. \A i \in 1..(n + 1) : s[i] \in Chunk /\ (s[i] = blk \/ \E c \in Elems(ia) : s[i] = cl[c])
  BY <1>2, <1>5
<1>7. s \in Seq(Chunk) /\ Len(s) = n + 1
  BY <1>6
<1> HIDE DEF s
<1>8. \A i \in 1..Len(s) : \A f \in Elems(s[i].ents) : f = e \/ \E c \in Elems(ia) : f \in Elems(cl[c].ents)
  <2> SUFFICES ASSUME NEW i \in 1..Len(s), NEW f \in Elems(s[i].ents)
               PROVE  f = e \/ \E c \in Elems(ia) : f \in Elems(cl[c].ents)
    OBVIOUS
  <2>1. s[i] = blk \/ \E c \in Elems(ia) : s[i] = cl[c]
    BY <1>6, <1>7
  <2>2. CASE s[i] = blk
    BY <1>3, <2>2
  <2> QED BY <2>1, <2>2
<1> QED BY <1>1, <1>4, <1>7, <1>8

\* A directory whose runs would outgrow its record: all its blocks are freed,
\* then written to new clusters.
LEMMA Repack ==
    ASSUME NEW V, Good(V), V.freed = {}, NEW dir \in Recs, V.rec[dir].ia # <<>>, NEW e \in Entry,
           ~V.lost => dir \in inUse(V) /\ e.num \in inUse(V),
           NEW W \in Volume, Saved(W), W.rec = V.rec, W.mft = V.mft, W.lost = V.lost, W.cl = V.cl,
           V.bitmap \subseteq W.bitmap
    PROVE  LET r == V.rec[dir]
               b == repackIndexAlloc(W, r.ia, e)
               x == IF b.ok THEN putRecord(b.v, dir, withIndex(r, r.root, b.cs)) ELSE failed(b.v)
           IN  Outcome(V, x) /\ x.v.mft = V.mft /\ x.v.lost = V.lost
<1>0. V \in Volume /\ Saved(V)
  BY DEF Good
<1>1. PICK r \in Record : r = V.rec[dir]
  BY <1>0 DEF Volume
<1>2. PICK ia \in Seq(Clusters) : ia = r.ia /\ Elems(ia) # {}
  <2>1. r.ia \in Seq(Clusters) /\ r.ia # <<>>
    BY <1>1 DEF Record
  <2> QED BY <2>1, ToSetElems
<1> DEFINE U == freeRuns(W, ia)
           blks == saved(W, ia, e)
           b == allocAndWrite(U, blks)
           x == IF b.ok THEN putRecord(b.v, dir, withIndex(r, r.root, b.cs)) ELSE failed(b.v)
<1>3. /\ U \in Volume /\ Saved(U) /\ U.rec = V.rec /\ U.mft = V.mft /\ U.lost = V.lost /\ U.cl = V.cl
      /\ U.bitmap = W.bitmap \ Elems(ia) /\ U.freed # {}
  BY <1>2, FreeRuns
<1> HIDE DEF U
<1>4. /\ blks \in Seq(Chunk)
      /\ \A i \in 1..Len(blks) : \A f \in Elems(blks[i].ents) :
            f = e \/ \E c \in Elems(ia) : f \in Elems(V.cl[c].ents)
  <2>1. /\ blks \in Seq(Chunk)
        /\ \A i \in 1..Len(blks) : \A f \in Elems(blks[i].ents) :
              f = e \/ \E c \in Elems(ia) : f \in Elems(W.cl[c].ents)
    BY SavedBlocks
  <2> QED BY <2>1
<1> HIDE DEF blks
<1>5. IsAlloc(U, Len(blks), b) /\ (b.ok => \A i \in 1..Len(blks) : b.v.cl[b.cs[i]] = blks[i])
  BY <1>3, <1>4, AllocAndWrite
<1> HIDE DEF b
<1>6. /\ b.ok \in BOOLEAN /\ b.v \in Volume /\ Saved(b.v) /\ b.v.rec = V.rec /\ b.v.mft = V.mft
      /\ b.v.lost = V.lost /\ b.v.freed # {} /\ U.bitmap \subseteq b.v.bitmap
      /\ \A c \in U.bitmap : b.v.cl[c] = V.cl[c]
  BY <1>3, <1>5 DEF IsAlloc, SameRecords
<1>7. Good(b.v)
  <2>1. b.v \in Volume /\ Saved(b.v) /\ b.v.freed # {}
    BY <1>6
  <2> QED BY <2>1, Zenon DEF Good
<1>8. CASE ~b.ok
  <2>1. x.ok = FALSE /\ x.v = b.v
    BY <1>8 DEF failed
  <2> HIDE DEF x
  <2>2. Outcome(V, x) /\ x.v.mft = V.mft /\ x.v.lost = V.lost
    BY <1>6, <1>7, <2>1 DEF Outcome
  <2> QED BY <1>1, <1>2, <2>2, Zenon DEF x, b, blks, U, repackIndexAlloc
<1>9. CASE b.ok
  <2> DEFINE q == withIndex(r, r.root, b.cs)
  <2>1. NewClusters(U, b.v, Len(blks), b.cs)
    BY <1>5, <1>9 DEF IsAlloc
  <2>2. b.cs \in Seq(Clusters) /\ r.root \in Seq(Entry)
    BY <2>1 DEF NewClusters, Record
  <2>3. q \in Record
    BY <2>2, WithIndex
  <2>4. ASSUME ~V.lost PROVE MayPut(b.v, dir, q)
    <3>1. Sound(V) /\ dir \in inUse(V) /\ e.num \in inUse(V)
      BY <2>4 DEF Good
    <3>2. /\ \A f \in Elems(r.root) : f.num \in inUse(V)
          /\ \A c \in Elems(ia) : \A f \in Elems(V.cl[c].ents) : f.num \in inUse(V)
      BY <1>0, <1>1, <1>2, <3>1, HeldInUse
    <3> DEFINE keep == V.bitmap \ Elems(r.ia)
    <3>3. keep \subseteq U.bitmap
      BY <1>2, <1>3
    <3>4. keep \subseteq b.v.bitmap /\ \A c \in keep : b.v.cl[c] = V.cl[c]
      BY <1>6, <3>3
    <3>5. Distinct(b.cs) /\ Elems(b.cs) \subseteq b.v.bitmap /\ Elems(b.cs) \cap keep = {}
      BY <2>1, <3>3 DEF NewClusters
    <3>6. ASSUME NEW c \in Elems(b.cs), NEW f \in Elems(b.v.cl[c].ents) PROVE f.num \in inUse(V)
      <4>1. PICK i \in 1..Len(b.cs) : c = b.cs[i]
        BY DEF Elems
      <4>2. i \in 1..Len(blks) /\ b.v.cl[c] = blks[i]
        BY <1>5, <1>9, <2>1, <4>1 DEF NewClusters
      <4>3. f = e \/ \E d \in Elems(ia) : f \in Elems(V.cl[d].ents)
        BY <1>4, <3>6, <4>2
      <4> QED BY <3>1, <3>2, <4>3
    <3> HIDE DEF keep
    <3> QED BY <1>0, <1>1, <1>6, <2>2, <3>1, <3>2, <3>4, <3>5, <3>6, Reindexed DEF keep
  <2>5. x = putRecord(b.v, dir, q)
    BY <1>9
  <2> HIDE DEF q, x
  <2>6. Outcome(b.v, x) /\ x.v.mft = b.v.mft /\ x.v.lost = b.v.lost
    <3>1. ~b.v.lost => MayPut(b.v, dir, q)
      BY <1>6, <2>4
    <3>2. Kept(b.v, putRecord(b.v, dir, q))
      BY <1>7, <2>3, <3>1, PutGood
    <3> QED BY <2>5, <3>2 DEF Kept
  <2>7. Outcome(V, x) /\ x.v.mft = V.mft /\ x.v.lost = V.lost
    BY <1>6, <2>6 DEF Outcome
  <2> QED BY <1>1, <1>2, <2>7 DEF x, b, blks, U, repackIndexAlloc
<1> QED BY <1>6, <1>8, <1>9


\* Two lists of different clusters without a common one, one after the other.
LEMMA DistinctConcat ==
    ASSUME NEW S, NEW s \in Seq(S), NEW t \in Seq(S), Distinct(s), Distinct(t),
           Elems(s) \cap Elems(t) = {}
    PROVE  Distinct(s \o t)
<1> DEFINE u == s \o t
<1>1. /\ u \in Seq(S) /\ Len(u) = Len(s) + Len(t)
      /\ \A i \in 1..Len(u) : u[i] = IF i <= Len(s) THEN s[i] ELSE t[i - Len(s)]
  BY ConcatProperties
<1>2. PICK m, n \in Nat : m = Len(s) /\ n = Len(t)
  OBVIOUS
<1> HIDE DEF u
<1>3. ASSUME NEW i \in 1..(m + n)
      PROVE  \/ i \in 1..m /\ u[i] = s[i] /\ u[i] \in Elems(s)
             \/ i - m \in 1..n /\ u[i] = t[i - m] /\ u[i] \in Elems(t)
  <2>1. CASE i <= m
    <3>1. i \in 1..Len(s) /\ u[i] = s[i]
      BY <1>1, <1>2, <2>1
    <3> QED BY <1>2, <3>1 DEF Elems
  <2>2. CASE ~(i <= m)
    <3>0. i \in 1..Len(u) /\ ~(i <= Len(s)) /\ i - m \in 1..n
      BY <1>1, <1>2, <2>2
    <3>1. i - m \in 1..Len(t) /\ u[i] = t[i - m]
      BY <1>1, <1>2, <3>0
    <3> QED BY <1>2, <3>1 DEF Elems
  <2> QED BY <2>1, <2>2
<1>4. ASSUME NEW i \in 1..(m + n), NEW j \in 1..(m + n), u[i] = u[j] PROVE i = j
  <2>1. CASE u[i] \in Elems(s)
    <3>1. i \in 1..m /\ j \in 1..m /\ s[i] = s[j]
      BY <1>3, <1>4, <2>1
    <3> QED BY <1>2, <3>1 DEF Distinct
  <2>2. CASE u[i] \notin Elems(s)
    <3>1. i - m \in 1..n /\ j - m \in 1..n /\ t[i - m] = t[j - m]
      BY <1>3, <1>4, <2>2
    <3>2. i - m = j - m
      BY <1>2, <3>1 DEF Distinct
    <3> QED BY <3>2
  <2> QED BY <2>1, <2>2
<1> QED BY <1>1, <1>2, <1>4 DEF Distinct, u

\* A new INDX block with the entry, on a cluster just allocated.
LEMMA NewBlock ==
    ASSUME NEW V, Good(V), V.freed = {}, NEW dir \in Recs, NEW e \in Entry,
           ~V.lost => dir \in inUse(V) /\ e.num \in inUse(V),
           NEW a, IsAlloc(V, 1, a), a.ok
    PROVE  LET r == V.rec[dir]
               w == writeClusters(a.v, a.cs, <<indx(<<e>>)>>)
               x == IF w.ok THEN putRecord(w.v, dir, withIndex(r, r.root, r.ia \o a.cs)) ELSE failed(w.v)
           IN  Outcome(V, x) /\ x.v.mft = V.mft /\ x.v.lost = V.lost
<1>0. V \in Volume /\ Saved(V)
  BY DEF Good
<1>1. PICK r \in Record : r = V.rec[dir]
  BY <1>0 DEF Volume
<1>2. PICK ia \in Seq(Clusters) : ia = r.ia
  BY <1>1 DEF Record
<1>3. PICK cs \in Seq(Clusters) :
          /\ cs = a.cs /\ Len(cs) = 1 /\ Distinct(cs)
          /\ Elems(cs) \subseteq a.v.bitmap /\ Elems(cs) \cap V.bitmap = {}
  BY DEF IsAlloc, NewClusters
<1>4. PICK blks \in Seq(Chunk) : blks = <<indx(<<e>>)>> /\ Len(blks) = Len(cs) /\ Elems(blks[1].ents) = {e}
  <2>1. <<e>> \in Seq(Entry) /\ Elems(<<e>>) = {e}
    BY DEF Elems
  <2>2. PICK blk \in Chunk : blk = indx(<<e>>) /\ Elems(blk.ents) = {e}
    BY <2>1, IndxBlock
  <2>3. <<blk>> \in Seq(Chunk) /\ Len(<<blk>>) = 1 /\ <<blk>>[1] = blk
    OBVIOUS
  <2>4. Len(<<blk>>) = Len(cs)
    BY <1>3, <2>3
  <2> QED BY <2>2, <2>3, <2>4, Zenon
<1> DEFINE w == writeClusters(a.v, cs, blks)
           q == withIndex(r, r.root, ia \o cs)
           x == IF w.ok THEN putRecord(w.v, dir, q) ELSE failed(w.v)
<1>5. /\ a.v \in Volume /\ Saved(a.v) /\ a.v.rec = V.rec /\ a.v.mft = V.mft /\ a.v.lost = V.lost /\ a.v.freed = {}
      /\ V.bitmap \subseteq a.v.bitmap /\ \A c \in V.bitmap : a.v.cl[c] = V.cl[c]
  BY DEF IsAlloc, SameRecords
<1>6. /\ SameRecords(a.v, w.v) /\ Saved(w.v) /\ w.v.bitmap = a.v.bitmap /\ w.ok \in BOOLEAN
      /\ \A c \in Clusters : c \notin Elems(cs) => w.v.cl[c] = a.v.cl[c]
      /\ w.ok => \A i \in 1..Len(cs) : w.v.cl[cs[i]] = blks[i]
  <2>1. Len(blks) = Len(cs) /\ Distinct(cs)
    BY <1>3, <1>4
  <2>2. IsWritten(a.v, cs, blks, w)
    BY <1>5, <2>1, WriteClusters
  <2> HIDE DEF w
  <2> QED BY <2>1, <2>2 DEF IsWritten
<1> HIDE DEF w
<1>7. V.bitmap \subseteq w.v.bitmap /\ \A c \in V.bitmap : w.v.cl[c] = V.cl[c]
  <2>1. V.bitmap \subseteq Clusters
    BY <1>0 DEF Volume
  <2> QED BY <1>3, <1>5, <1>6, <2>1
<1>8. SameRecords(V, w.v) /\ w.v.freed = {}
  BY <1>5, <1>6 DEF SameRecords
<1>9. Good(w.v)
  BY <1>6, <1>7, <1>8, AllocGood
<1>10. ia \o cs \in Seq(Clusters) /\ Elems(ia \o cs) = Elems(ia) \cup Elems(cs) /\ r.root \in Seq(Entry)
  BY ElemsConcat DEF Record
<1>11. q \in Record
  BY <1>10, WithIndex
<1>12. CASE ~w.ok
  <2>1. x.ok = FALSE /\ x.v = w.v
    BY <1>12 DEF failed
  <2> HIDE DEF x
  <2>2. Outcome(V, x) /\ x.v.mft = V.mft /\ x.v.lost = V.lost
    BY <1>8, <1>9, <2>1 DEF Outcome, SameRecords
  <2> QED BY <1>1, <1>2, <1>3, <1>4, <2>2 DEF x, w
<1>13. CASE w.ok
  <2>4. ASSUME ~V.lost PROVE MayPut(w.v, dir, q)
    <3>1. Sound(V) /\ dir \in inUse(V) /\ e.num \in inUse(V)
      BY <2>4 DEF Good
    <3>2. /\ \A f \in Elems(r.root) : f.num \in inUse(V)
          /\ \A c \in Elems(ia) : \A f \in Elems(V.cl[c].ents) : f.num \in inUse(V)
          /\ Distinct(ia) /\ Elems(ia) \subseteq V.bitmap
      BY <1>0, <1>1, <1>2, <3>1, HeldInUse
    <3>3. Distinct(ia \o cs)
      <4>1. Elems(ia) \cap Elems(cs) = {}
        BY <1>3, <3>2
      <4> QED BY <1>3, <3>2, <4>1, DistinctConcat
    <3> DEFINE keep == V.bitmap \ Elems(r.ia)
    <3>4. keep \subseteq w.v.bitmap /\ \A c \in keep : w.v.cl[c] = V.cl[c]
      BY <1>7
    <3>5. Elems(ia \o cs) \subseteq w.v.bitmap /\ Elems(ia \o cs) \cap keep = {}
      BY <1>2, <1>3, <1>6, <1>7, <1>10, <3>2
    <3>6. ASSUME NEW c \in Elems(ia \o cs), NEW f \in Elems(w.v.cl[c].ents) PROVE f.num \in inUse(V)
      <4>1. CASE c \in Elems(ia)
        <5>1. w.v.cl[c] = V.cl[c]
          BY <1>7, <3>2, <4>1
        <5> QED BY <3>2, <3>6, <4>1, <5>1
      <4>2. CASE c \in Elems(cs)
        <5>1. c = cs[1] /\ 1 \in 1..Len(cs)
          BY <1>3, <4>2 DEF Elems
        <5>2. w.v.cl[c] = blks[1]
          BY <1>6, <1>13, <5>1
        <5>3. f = e
          BY <1>4, <3>6, <5>2
        <5> QED BY <3>1, <5>3
      <4> QED BY <1>10, <3>6, <4>1, <4>2
    <3>7. w.v.rec = V.rec /\ w.v.mft = V.mft
      BY <1>8 DEF SameRecords
    <3> HIDE DEF keep
    <3> QED BY <1>0, <1>1, <1>10, <3>1, <3>2, <3>3, <3>4, <3>5, <3>6, <3>7, Reindexed DEF keep
  <2>5. x = putRecord(w.v, dir, q)
    BY <1>13
  <2> HIDE DEF q, x
  <2>6. Outcome(w.v, x) /\ x.v.mft = w.v.mft /\ x.v.lost = w.v.lost
    <3>1. w.v.lost = V.lost
      BY <1>8 DEF SameRecords
    <3>2. ~w.v.lost => MayPut(w.v, dir, q)
      BY <2>4, <3>1
    <3>3. Kept(w.v, putRecord(w.v, dir, q))
      BY <1>9, <1>11, <3>2, PutGood
    <3> QED BY <2>5, <3>3 DEF Kept
  <2>7. Outcome(V, x) /\ x.v.mft = V.mft /\ x.v.lost = V.lost
    BY <1>8, <2>6 DEF Outcome, SameRecords
  <2> QED BY <1>1, <1>2, <1>3, <1>4, <2>7 DEF x, w, q
<1> QED BY <1>6, <1>12, <1>13

\* appendEntryToIndexAlloc: room in the last block, a new block, or all blocks
\* repacked.
LEMMA AppendEntry ==
    ASSUME NEW V, Good(V), V.freed = {}, NEW dir \in Recs, V.rec[dir].ia # <<>>, NEW e \in Entry,
           ~V.lost => dir \in inUse(V) /\ e.num \in inUse(V)
    PROVE  LET x == appendEntryToIndexAlloc(V, dir, e)
           IN  Outcome(V, x) /\ x.v.mft = V.mft /\ x.v.lost = V.lost
<1> DEFINE r == V.rec[dir]
           c == Seqs!Last(r.ia)
           a == allocContiguousClusters(V, 1)
           U == freeRuns(a.v, a.cs)
           b == repackIndexAlloc(U, r.ia, e)
           w == writeClusters(a.v, a.cs, <<indx(<<e>>)>>)
           x0 == writeClusters(V, <<c>>, <<addEntryToINDXBlock(V.cl[c], e)>>)
           x1 == IF b.ok THEN putRecord(b.v, dir, withIndex(r, r.root, b.cs)) ELSE failed(b.v)
           x2 == IF w.ok THEN putRecord(w.v, dir, withIndex(r, r.root, r.ia \o a.cs)) ELSE failed(w.v)
           x == appendEntryToIndexAlloc(V, dir, e)
<1>0. V \in Volume /\ Saved(V)
  BY DEF Good
<1>1. x = IF V.cl[c].id = "INDX" /\ Len(V.cl[c].ents) < BlockCap THEN x0
          ELSE IF ~a.ok THEN failed(a.v)
          ELSE IF runsOf(r.ia \o a.cs) > MaxRuns THEN x1 ELSE x2
  BY DEF appendEntryToIndexAlloc, then, mergeRuns
<1>2. IsAlloc(V, 1, a) /\ a.v.cl = V.cl
  BY <1>0, AllocContiguousClusters
<1>3. Outcome(V, x0) /\ x0.v.mft = V.mft /\ x0.v.lost = V.lost
  BY AppendToLast
<1>4. Outcome(V, failed(a.v)) /\ failed(a.v).v.mft = V.mft /\ failed(a.v).v.lost = V.lost
  <2> HIDE DEF a
  <2>1. SameRecords(V, a.v) /\ Saved(a.v) /\ V.bitmap \subseteq a.v.bitmap /\ \A d \in V.bitmap : a.v.cl[d] = V.cl[d]
    BY <1>2 DEF IsAlloc
  <2>2. Good(a.v)
    BY <2>1, AllocGood
  <2> QED BY <2>1, <2>2 DEF Outcome, SameRecords, failed
<1>5. ASSUME a.ok PROVE Outcome(V, x1) /\ x1.v.mft = V.mft /\ x1.v.lost = V.lost
  <2>1. /\ a.cs \in Seq(Clusters) /\ Elems(a.cs) \cap V.bitmap = {} /\ V.bitmap \subseteq a.v.bitmap
        /\ a.v \in Volume /\ Saved(a.v) /\ a.v.rec = V.rec /\ a.v.mft = V.mft /\ a.v.lost = V.lost
    <3> HIDE DEF a
    <3> QED BY <1>2, <1>5 DEF IsAlloc, NewClusters, SameRecords
  <2> HIDE DEF a
  <2>2. /\ U \in Volume /\ Saved(U) /\ U.rec = V.rec /\ U.mft = V.mft /\ U.lost = V.lost /\ U.cl = V.cl
        /\ U.bitmap = a.v.bitmap \ Elems(a.cs)
    BY <1>2, <2>1, FreeRuns
  <2>3. V.bitmap \subseteq U.bitmap
    BY <2>1, <2>2
  <2> HIDE DEF U
  <2> QED BY <2>2, <2>3, Repack
<1>6. ASSUME a.ok PROVE Outcome(V, x2) /\ x2.v.mft = V.mft /\ x2.v.lost = V.lost
  <2> HIDE DEF a
  <2> QED BY <1>2, <1>6, NewBlock
<1>7. a.ok \in BOOLEAN
  <2> HIDE DEF a
  <2> QED BY <1>2 DEF IsAlloc
<1> HIDE DEF x, x0, x1, x2, a, c
<1>8. Outcome(V, x) /\ x.v.mft = V.mft /\ x.v.lost = V.lost
  BY <1>1, <1>3, <1>4, <1>5, <1>6, <1>7
<1> QED BY <1>8 DEF x


\* addDirEntry adds a name of a record in use to a directory in use.
LEMMA AddDirEntry ==
    ASSUME NEW V, Good(V), V.freed = {}, NEW dir \in Recs, NEW name \in Names, NEW num \in Users,
           ~V.lost => dir \in inUse(V) /\ num \in inUse(V)
    PROVE  LET x == addDirEntry(V, dir, name, num)
           IN  Outcome(V, x) /\ x.v.mft = V.mft /\ x.v.lost = V.lost
<1>0. V \in Volume /\ Saved(V)
  BY DEF Good
<1>1. PICK r \in Record : r = V.rec[dir]
  BY <1>0 DEF Volume
<1>2. PICK root \in Seq(Entry) : root = r.root
  BY <1>1 DEF Record
<1>3. PICK e \in Entry : e = entry(name, num) /\ e.num = num
  <2>1. entry(name, num) \in Entry /\ entry(name, num).num = num
    BY DEF entry, Entry
  <2> QED BY <2>1
<1>4. Append(root, e) \in Seq(Entry) /\ Elems(Append(root, e)) = Elems(root) \cup {e}
  BY AppendElems
<1> DEFINE q == withIndex(r, Append(root, e), <<>>)
           x1 == appendEntryToIndexAlloc(V, dir, e)
           x2 == putRecord(V, dir, q)
           x3 == spillToIndexAlloc(V, dir, Append(root, e))
           x == addDirEntry(V, dir, name, num)
<1>5. x = IF ~r.dir THEN failed(V)
          ELSE IF r.ia # <<>> THEN x1
          ELSE IF rootHasRoom(V, dir) THEN x2 ELSE x3
  BY <1>1, <1>2, <1>3 DEF addDirEntry
<1>6. Outcome(V, failed(V)) /\ failed(V).v.mft = V.mft /\ failed(V).v.lost = V.lost
  BY DEF Outcome, failed
<1>7. ASSUME r.ia # <<>> PROVE Outcome(V, x1) /\ x1.v.mft = V.mft /\ x1.v.lost = V.lost
  <2>1. ~V.lost => dir \in inUse(V) /\ e.num \in inUse(V)
    BY <1>3
  <2> QED BY <1>1, <1>7, <2>1, AppendEntry
<1>8. ASSUME ~V.lost PROVE \A f \in Elems(Append(root, e)) : f.num \in inUse(V)
  <2>1. \A f \in Elems(root) : f.num \in inUse(V)
    BY <1>0, <1>1, <1>2, <1>8, HeldInUse DEF Good
  <2> QED BY <1>3, <1>4, <1>8, <2>1
<1>9. ASSUME r.ia = <<>> PROVE Outcome(V, x3) /\ x3.v.mft = V.mft /\ x3.v.lost = V.lost
  BY <1>1, <1>4, <1>8, <1>9, Spill
<1>10. ASSUME r.ia = <<>> PROVE Outcome(V, x2) /\ x2.v.mft = V.mft /\ x2.v.lost = V.lost
  <2>0. PICK none \in Seq(Clusters) : none = <<>> /\ Elems(none) = {} /\ Distinct(none)
    BY NoElems
  <2>1. q \in Record
    BY <1>4, <2>0, WithIndex
  <2>2. ASSUME ~V.lost PROVE MayPut(V, dir, q)
    <3>1. Sound(V) /\ dir \in inUse(V)
      BY <2>2 DEF Good
    <3>2. Elems(r.ia) = {}
      BY <1>10, <2>0
    <3> DEFINE keep == V.bitmap \ Elems(r.ia)
    <3>3. keep \subseteq V.bitmap /\ Elems(none) \subseteq V.bitmap /\ Elems(none) \cap keep = {}
      BY <2>0
    <3>4. \A c \in Elems(none) : \A f \in Elems(V.cl[c].ents) : f.num \in inUse(V)
      BY <2>0
    <3> HIDE DEF keep, q
    <3>5. MayPut(V, dir, withIndex(r, Append(root, e), none))
      BY <1>0, <1>1, <1>4, <1>8, <2>0, <2>2, <3>1, <3>3, <3>4, Reindexed DEF keep
    <3> QED BY <2>0, <3>5 DEF q
  <2> HIDE DEF q
  <2>3. Kept(V, putRecord(V, dir, q))
    BY <2>1, <2>2, PutGood
  <2> QED BY <2>3 DEF Kept
<1> HIDE DEF x, x1, x2, x3
<1>11. Outcome(V, x) /\ x.v.mft = V.mft /\ x.v.lost = V.lost
  BY <1>5, <1>6, <1>7, <1>9, <1>10
<1> QED BY <1>11 DEF x

-----------------------------------------------------------------------------
(***************************************************************************)
(* Removing a name.                                                        *)
(***************************************************************************)

\* What is left of a sequence when one element is taken out.
LEMMA RemovedAt ==
    ASSUME NEW S, NEW s \in Seq(S), NEW i \in 1..Len(s)
    PROVE  /\ Seqs!RemoveAt(s, i) \in Seq(S)
           /\ \A f \in Elems(Seqs!RemoveAt(s, i)) : \E j \in 1..Len(s) : j # i /\ f = s[j]
<1>1. PICK n \in Nat : n = Len(s)
  OBVIOUS
<1> DEFINE a == SubSeq(s, 1, i - 1)
           b == SubSeq(s, i + 1, n)
<1>2. a \in Seq(S) /\ Len(a) = i - 1 /\ \A k \in 1..(i - 1) : a[k] = s[k]
  BY <1>1
<1>3. b \in Seq(S) /\ Len(b) = n - i /\ \A k \in 1..(n - i) : b[k] = s[i + k]
  BY <1>1
<1>4. Seqs!RemoveAt(s, i) = a \o b
  BY <1>1 DEF Seqs!RemoveAt
<1> HIDE DEF a, b
<1>5. a \o b \in Seq(S) /\ Elems(a \o b) = Elems(a) \cup Elems(b)
  BY <1>2, <1>3, ElemsConcat
<1>6. ASSUME NEW f \in Elems(a) PROVE \E j \in 1..Len(s) : j # i /\ f = s[j]
  <2>1. PICK k \in 1..(i - 1) : f = a[k]
    BY <1>2 DEF Elems
  <2>2. k \in 1..Len(s) /\ k # i /\ f = s[k]
    BY <1>1, <1>2, <2>1
  <2> QED BY <2>2
<1>7. ASSUME NEW f \in Elems(b) PROVE \E j \in 1..Len(s) : j # i /\ f = s[j]
  <2>1. PICK k \in 1..(n - i) : f = b[k]
    BY <1>3 DEF Elems
  <2>2. i + k \in 1..Len(s) /\ i + k # i /\ f = s[i + k]
    BY <1>1, <1>3, <2>1
  <2> QED BY <2>2
<1> QED BY <1>4, <1>5, <1>6, <1>7

\* deleteIndexEntry: the first entry with the name is gone, and nothing new is
\* there.
LEMMA WithoutEntry ==
    ASSUME NEW ents \in Seq(Entry), NEW name
    PROVE  /\ withoutEntry(ents, name) \in Seq(Entry)
           /\ Elems(withoutEntry(ents, name)) \subseteq Elems(ents)
           /\ Hits(ents, name) # {} =>
                 \A f \in Elems(withoutEntry(ents, name)) :
                    \E j \in 1..Len(ents) : j # Sets!Min(Hits(ents, name)) /\ f = ents[j]
<1> DEFINE hits == Hits(ents, name)
<1>1. withoutEntry(ents, name) = IF hits = {} THEN ents ELSE Seqs!RemoveAt(ents, Sets!Min(hits))
  BY DEF withoutEntry, Hits
<1>2. hits \subseteq 1..Len(ents) /\ hits \subseteq Nat
  BY DEF Hits
<1> HIDE DEF hits
<1>3. CASE hits = {}
  BY <1>1, <1>3 DEF hits
<1>4. CASE hits # {}
  <2>1. Sets!Min(hits) \in 1..Len(ents)
    BY <1>2, <1>4, Least
  <2> DEFINE m == Sets!Min(hits)
             left == Seqs!RemoveAt(ents, m)
  <2> HIDE DEF m
  <2>2. left \in Seq(Entry) /\ \A f \in Elems(left) : \E j \in 1..Len(ents) : j # m /\ f = ents[j]
    BY <2>1, RemovedAt DEF m
  <2> HIDE DEF left
  <2>3. Elems(left) \subseteq Elems(ents)
    BY <2>2 DEF Elems
  <2> QED BY <1>1, <1>4, <2>2, <2>3 DEF left, m, hits
<1> QED BY <1>3, <1>4

\* Record m loses entries and is otherwise as it was.
LEMMA Shrunk ==
    ASSUME NEW V \in Volume, NEW W, NEW m \in Recs, NEW r,
           r.use = V.rec[m].use, r.data = V.rec[m].data, r.ia = V.rec[m].ia,
           Elems(r.root) \subseteq Elems(V.rec[m].root),
           W.rec = [V.rec EXCEPT ![m] = r], W.cl = V.cl, W.mft = V.mft, W.bitmap = V.bitmap
    PROVE  /\ inUse(W) = inUse(V)
           /\ \A k \in Recs : Held(W.cl, W.rec[k]) \subseteq Held(V.cl, V.rec[k])
           /\ \A n : SoundBut(V, n) => SoundBut(W, n)
<1>1. V.rec \in [Recs -> Record]
  BY DEF Volume
<1>2. \A k \in Recs : W.rec[k] = IF k = m THEN r ELSE V.rec[k]
  BY <1>1
<1>3. \A k \in Recs : /\ W.rec[k].use = V.rec[k].use /\ W.rec[k].data = V.rec[k].data /\ W.rec[k].ia = V.rec[k].ia
                      /\ Elems(W.rec[k].root) \subseteq Elems(V.rec[k].root)
  BY <1>2
<1>4. inUse(W) = inUse(V) /\ inUse(V) \subseteq Recs
  BY <1>3 DEF inUse
<1>5. \A k \in Recs : Held(W.cl, W.rec[k]) \subseteq Held(V.cl, V.rec[k])
  BY <1>3 DEF Held
<1>6. \A k \in Recs : Listed(W.rec[k]) = Listed(V.rec[k]) /\ (Tidy(W.rec[k]) <=> Tidy(V.rec[k]))
  BY <1>3 DEF Listed, Tidy
<1>7. ASSUME NEW n, SoundBut(V, n) PROVE SoundBut(W, n)
  <2>1. ASSUME NEW k \in inUse(W) \ {n}
        PROVE  /\ k \in W.mft
               /\ Apart(W, inUse(W) \ {k, n}, W.rec[k])
               /\ Leads(W, n, W.rec[k])
    <3>1. k \in Recs /\ k \in V.mft /\ Apart(V, inUse(V) \ {k, n}, V.rec[k]) /\ Leads(V, n, V.rec[k])
      BY <1>4, <1>7 DEF SoundBut
    <3>2. Apart(W, inUse(W) \ {k, n}, W.rec[k])
      BY <1>4, <1>6, <3>1 DEF Apart
    <3>3. Leads(W, n, W.rec[k])
      BY <1>4, <1>5, <3>1 DEF Leads
    <3> QED BY <3>1, <3>2, <3>3
  <2>2. Root = n \/ Root \in inUse(W)
    BY <1>4, <1>7 DEF SoundBut
  <2> QED BY <2>1, <2>2 DEF SoundBut
<1> QED BY <1>4, <1>5, <1>7


\* On W the record d, without INDX blocks, has lost its first entry of the name.
Gone(V, W, d, name) ==
    LET ents == V.rec[d].root
    IN  /\ V.rec[d].ia = <<>> /\ W.rec[d].ia = <<>>
        /\ Hits(ents, name) # {} =>
              \A f \in Elems(W.rec[d].root) :
                 \E j \in 1..Len(ents) : j # Sets!Min(Hits(ents, name)) /\ f = ents[j]

\* What removeDirEntry does: a directory in the path's place may lose entries,
\* and if nothing is lost it has lost the first one of the name.
IsRemoval(V, p, x) ==
    /\ x.ok \in BOOLEAN /\ x.v \in Volume /\ Saved(x.v) /\ x.v.freed = {}
    /\ x.v.mft = V.mft /\ x.v.cl = V.cl /\ (V.lost => x.v.lost)
    /\ inUse(x.v) = inUse(V)
    /\ \A k \in Recs : Held(x.v.cl, x.v.rec[k]) \subseteq Held(V.cl, V.rec[k])
    /\ \A n : SoundBut(V, n) => SoundBut(x.v, n)
    /\ x.ok /\ ~x.v.lost /\ V.rec[parent(V, p)].dir => Gone(V, x.v, parent(V, p), Seqs!Last(p))

\* removeDirEntry does no more than that.
LEMMA RemoveDirEntry ==
    ASSUME NEW V \in Volume, Saved(V), V.freed = {}, NEW p \in Seq(Names), p # <<>>
    PROVE  IsRemoval(V, p, removeDirEntry(V, p))
<1>1. PICK d \in Nums : d = parent(V, p)
  BY FrontOf, LookupPath DEF parent
<1> DEFINE x == removeDirEntry(V, p)
<1>9. PICK name : name = Seqs!Last(p)
  OBVIOUS
<1>2. ASSUME NEW y, y.ok \in BOOLEAN, y.v = V, y.ok => d \in Recs /\ ~V.rec[d].dir
      PROVE  IsRemoval(V, p, y)
  BY <1>1, <1>2 DEF IsRemoval
<1>3. CASE d <= 0
  <2>1. x.ok \in BOOLEAN /\ ~x.ok /\ x.v = V
    BY <1>1, <1>3 DEF removeDirEntry, failed
  <2> HIDE DEF x
  <2>2. IsRemoval(V, p, x)
    BY <1>2, <2>1
  <2> QED BY <2>2 DEF x
<1>4. CASE ~(d <= 0)
  <2>0. d \in Recs
    BY <1>1, <1>4 DEF Nums, NotExist, Error
  <2>1. PICK r \in Record : r = V.rec[d]
    BY <2>0 DEF Volume
  <2>2. PICK root \in Seq(Entry), ia \in Seq(Clusters) : root = r.root /\ ia = r.ia
    BY DEF Record
  <2> DEFINE U == [V EXCEPT !.lost = @ \/ ia # <<>>]
             left == withoutEntry(root, name)
             q == withIndex(r, left, ia)
             hits == Hits(root, name)
  <2>3. x = IF ~r.dir THEN did(V) ELSE putRecord(U, d, q)
    BY <1>1, <1>4, <1>9, <2>1, <2>2 DEF removeDirEntry
  <2>4. CASE ~r.dir
    <3>1. x.ok \in BOOLEAN /\ x.v = V
      BY <2>3, <2>4 DEF did
    <3> HIDE DEF x
    <3>2. IsRemoval(V, p, x)
      BY <1>2, <2>0, <2>1, <2>4, <3>1
    <3> QED BY <3>2 DEF x
  <2>5. CASE r.dir
    <3>1. /\ U \in Volume /\ Saved(U) /\ U.rec = V.rec /\ U.mft = V.mft /\ U.bitmap = V.bitmap /\ U.cl = V.cl
          /\ U.freed = {} /\ (V.lost => U.lost) /\ (~U.lost => ia = <<>>)
      <4>1. PICK l \in BOOLEAN : l = (V.lost \/ ia # <<>>)
        OBVIOUS
      <4>2. U = [V EXCEPT !.lost = l]
        BY <4>1
      <4>3. /\ U \in Volume /\ U.rec = V.rec /\ U.mft = V.mft /\ U.bitmap = V.bitmap /\ U.cl = V.cl
            /\ U.freed = V.freed /\ U.lost = l /\ U.disk = V.disk /\ U.mftRoom = V.mftRoom /\ U.dirty = V.dirty
        BY <4>2 DEF Volume
      <4> HIDE DEF U
      <4>4. Saved(U)
        BY <4>3, SavedStill
      <4> QED BY <4>1, <4>3, <4>4
    <3>2. /\ left \in Seq(Entry) /\ Elems(left) \subseteq Elems(root)
          /\ hits # {} => \A f \in Elems(left) : \E j \in 1..Len(root) : j # Sets!Min(hits) /\ f = root[j]
      BY WithoutEntry
    <3> HIDE DEF U, left, hits
    <3>3. q \in Record /\ q.use = r.use /\ q.data = r.data /\ q.root = left /\ q.ia = ia
      BY <3>2, WithIndex
    <3>4. x = putRecord(U, d, q)
      BY <2>3, <2>5
    <3> HIDE DEF q, x
    <3>5. IsPut(U, d, q, x)
      BY <2>0, <3>1, <3>3, <3>4, PutRecord
    <3>6. CASE x.ok = FALSE /\ x.v = U
      <4>1. inUse(U) = inUse(V)
        BY <3>1 DEF inUse
      <4>2. \A n : SoundBut(V, n) => SoundBut(U, n)
        BY <3>1, Grown
      <4>3. \A k \in Recs : Held(U.cl, U.rec[k]) \subseteq Held(V.cl, V.rec[k])
        BY <3>1
      <4>4. IsRemoval(V, p, x)
        BY <3>1, <3>6, <4>1, <4>2, <4>3 DEF IsRemoval
      <4> QED BY <4>4 DEF x
    <3>7. CASE x.ok = TRUE /\ x.v # U
      <4>1. /\ x.v \in Volume /\ Saved(x.v) /\ x.v.freed = {}
            /\ x.v.rec = [V.rec EXCEPT ![d] = q]
            /\ x.v.mft = V.mft /\ x.v.bitmap = V.bitmap /\ x.v.cl = V.cl /\ x.v.lost = U.lost
        BY <3>1, <3>5, <3>7 DEF IsPut
      <4>2. /\ inUse(x.v) = inUse(V)
            /\ \A k \in Recs : Held(x.v.cl, x.v.rec[k]) \subseteq Held(V.cl, V.rec[k])
            /\ \A n : SoundBut(V, n) => SoundBut(x.v, n)
        <5>1. /\ q.use = V.rec[d].use /\ q.data = V.rec[d].data /\ q.ia = V.rec[d].ia
              /\ Elems(q.root) \subseteq Elems(V.rec[d].root)
          BY <2>1, <2>2, <3>2, <3>3
        <5> QED BY <2>0, <4>1, <5>1, Shrunk
      <4>3. x.v.rec[d] = q
        BY <2>0, <4>1 DEF Volume
      <4>4. ASSUME ~x.v.lost
            PROVE  /\ V.rec[d].ia = <<>> /\ x.v.rec[d].ia = <<>>
                   /\ hits # {} => \A f \in Elems(x.v.rec[d].root) :
                                     \E j \in 1..Len(root) : j # Sets!Min(hits) /\ f = root[j]
        BY <2>1, <2>2, <3>1, <3>2, <3>3, <4>1, <4>3, <4>4
      <4>5. ~x.v.lost => Gone(V, x.v, d, name)
        BY <2>1, <2>2, <4>4 DEF Gone, hits
      <4>9. IsRemoval(V, p, x)
        BY <1>1, <1>9, <3>1, <3>7, <4>1, <4>2, <4>5 DEF IsRemoval
      <4> QED BY <4>9 DEF x
    <3>8. CASE x.ok = TRUE /\ x.v = U
      <4>1. U.rec[d] = q
        BY <2>0, <3>1, <3>5, <3>8 DEF IsPut, Volume
      <4>2. inUse(U) = inUse(V)
        BY <3>1 DEF inUse
      <4>3. \A n : SoundBut(V, n) => SoundBut(U, n)
        BY <3>1, Grown
      <4>4. ASSUME ~x.v.lost
            PROVE  /\ V.rec[d].ia = <<>> /\ x.v.rec[d].ia = <<>>
                   /\ hits # {} => \A f \in Elems(x.v.rec[d].root) :
                                     \E j \in 1..Len(root) : j # Sets!Min(hits) /\ f = root[j]
        BY <2>1, <2>2, <3>1, <3>2, <3>3, <3>8, <4>1, <4>4
      <4>5. ~x.v.lost => Gone(V, x.v, d, name)
        BY <2>1, <2>2, <4>4 DEF Gone, hits
      <4>6. \A k \in Recs : Held(U.cl, U.rec[k]) \subseteq Held(V.cl, V.rec[k])
        BY <3>1
      <4>9. IsRemoval(V, p, x)
        BY <1>1, <1>9, <3>1, <3>8, <4>2, <4>3, <4>5, <4>6 DEF IsRemoval
      <4> QED BY <4>9 DEF x
    <3> QED BY <3>5, <3>6, <3>7, <3>8 DEF IsPut, x
  <2> QED BY <2>4, <2>5
<1> QED BY <1>3, <1>4


\* Clusters are freed: if there were any, Good waits for the record to be written.
LEMMA FreeRunsGood ==
    ASSUME NEW V, Good(V), V.freed = {}, NEW cs \in Seq(Clusters)
    PROVE  Good(freeRuns(V, cs))
<1> DEFINE U == freeRuns(V, cs)
<1>1. /\ U \in Volume /\ Saved(U) /\ U.rec = V.rec /\ U.mft = V.mft /\ U.lost = V.lost /\ U.cl = V.cl
      /\ U.bitmap = V.bitmap \ Elems(cs) /\ U.freed = V.freed \cup Elems(cs)
  BY FreeRuns DEF Good
<1> HIDE DEF U
<1>2. ASSUME ~U.lost, U.freed = {} PROVE Sound(U)
  <2>1. Sound(V) /\ U.bitmap = V.bitmap
    BY <1>1, <1>2 DEF Good
  <2> QED BY <1>1, <2>1, Grown DEF Sound
<1>3. Good(U)
  BY <1>1, <1>2 DEF Good
<1> QED BY <1>3 DEF U

\* The clusters of a record in use are freed: the others do not depend on them.
LEMMA FreedApart ==
    ASSUME NEW V \in Volume, Sound(V), NEW n \in inUse(V), NEW U, U.rec = V.rec, U.mft = V.mft, U.cl = V.cl,
           NEW cs, Elems(cs) \subseteq Listed(V.rec[n]), U.bitmap = V.bitmap \ Elems(cs)
    PROVE  SoundBut(U, n)
<1> DEFINE keep == V.bitmap \ Listed(V.rec[n])
           r == NoRecord
<1>0. Len(<<>>) = 0 /\ 1..0 = {}
  OBVIOUS
<1>1. Elems(<<>>) = {} /\ Distinct(<<>>)
  BY <1>0 DEF Elems, Distinct
<1>2. r.root = <<>> /\ r.ia = <<>> /\ r.data.cs = <<>>
  BY DEF NoRecord, newRecord, NoData
<1> HIDE DEF r
<1>3. Listed(r) = {} /\ Tidy(r) /\ Held(U.cl, r) = {}
  BY <1>1, <1>2 DEF Listed, Tidy, Held
<1>4. keep \subseteq U.bitmap /\ \A c \in keep : U.cl[c] = V.cl[c]
  OBVIOUS
<1>5. Listed(r) \subseteq U.bitmap /\ Listed(r) \cap keep = {} /\ \A e \in Held(U.cl, r) : e.num \in inUse(V)
  BY <1>3
<1> HIDE DEF keep
<1> QED BY <1>3, <1>4, <1>5, Relisted DEF keep

\* What freeRecord returns: an error, or V with record n not in use and its bit
\* cleared.
IsFreed(V, n, W) ==
    /\ W \in Volume /\ Saved(W) /\ W.freed = {}
    /\ W.rec = [V.rec EXCEPT ![n] = [V.rec[n] EXCEPT !.use = FALSE]]
    /\ W.cl = V.cl /\ W.lost = V.lost
    /\ ~V.lost /\ n \in inUse(V) => SoundBut(W, n) /\ inUse(W) = inUse(V) \ {n}

\* freeRecord frees the clusters of the data, the record and its bit.
LEMMA FreeRecord ==
    ASSUME NEW V, Good(V), V.freed = {}, NEW n \in Recs
    PROVE  LET x == freeRecord(V, n)
           IN  /\ x.ok \in BOOLEAN
               /\ x.ok => IsFreed(V, n, x.v)
               /\ ~x.ok => Good(x.v) /\ x.v.lost = V.lost
<1>0. V \in Volume /\ Saved(V)
  BY DEF Good
<1>1. PICK r \in Record : r = V.rec[n]
  BY <1>0 DEF Volume
<1>2. PICK cs \in Seq(Clusters) : cs = r.data.cs
  BY DEF Record, Data
<1> DEFINE U == freeRuns(V, cs)
           q == [r EXCEPT !.use = FALSE]
           y == putRecord(U, n, q)
           W == [y.v EXCEPT !.mft = @ \ {n}, !.dirty = TRUE]
           x == freeRecord(V, n)
<1>3. x = IF y.ok THEN did(W) ELSE failed(y.v)
  BY <1>1, <1>2 DEF freeRecord, then, failed, did
<1>4. /\ U \in Volume /\ Saved(U) /\ U.rec = V.rec /\ U.mft = V.mft /\ U.lost = V.lost /\ U.cl = V.cl
      /\ U.bitmap = V.bitmap \ Elems(cs)
  BY <1>0, FreeRuns
<1>5. Good(U)
  BY FreeRunsGood
<1> HIDE DEF U
<1>6. q \in Record /\ ~q.use
  BY DEF Record
<1>7. IsPut(U, n, q, y)
  <2> HIDE DEF q
  <2> QED BY <1>4, <1>6, PutRecord
<1> HIDE DEF y
<1>8. CASE ~y.ok
  <2>1. x.ok \in BOOLEAN /\ ~x.ok /\ x.v = U
    BY <1>3, <1>7, <1>8 DEF IsPut, failed
  <2> HIDE DEF x
  <2> QED BY <1>4, <1>5, <2>1 DEF x
<1>9. CASE y.ok
  <2>1. /\ y.v \in Volume /\ Saved(y.v) /\ y.v.freed = {}
        /\ y.v.rec = [V.rec EXCEPT ![n] = q]
        /\ y.v.mft = V.mft /\ y.v.bitmap = U.bitmap /\ y.v.cl = V.cl /\ y.v.lost = V.lost
    BY <1>4, <1>7, <1>9 DEF IsPut
  <2>2. /\ W \in Volume /\ Saved(W) /\ W.freed = {}
        /\ W.rec = [V.rec EXCEPT ![n] = q]
        /\ W.mft = V.mft \ {n} /\ W.bitmap = U.bitmap /\ W.cl = V.cl /\ W.lost = V.lost
    <3>1. PICK Y \in Volume : Y = y.v
      BY <2>1
    <3> DEFINE Z == [Y EXCEPT !.mft = @ \ {n}, !.dirty = TRUE]
    <3>2. /\ Z \in Volume /\ Z.dirty = TRUE /\ Z.freed = Y.freed /\ Z.rec = Y.rec /\ Z.mft = Y.mft \ {n}
          /\ Z.bitmap = Y.bitmap /\ Z.cl = Y.cl /\ Z.lost = Y.lost /\ Z.disk = Y.disk /\ Z.mftRoom = Y.mftRoom
      BY DEF Volume
    <3>3. Z = W
      BY <3>1
    <3> HIDE DEF Z, W
    <3>4. Saved(Z)
      BY <2>1, <3>1, <3>2, SavedStill
    <3> QED BY <2>1, <3>1, <3>2, <3>3, <3>4
  <2> HIDE DEF W
  <2>3. ASSUME ~V.lost, n \in inUse(V) PROVE SoundBut(W, n) /\ inUse(W) = inUse(V) \ {n}
    <3>1. Sound(V)
      BY <2>3 DEF Good
    <3>2. Elems(cs) \subseteq Listed(V.rec[n])
      BY <1>1, <1>2 DEF Listed
    <3>3. SoundBut(U, n)
      BY <1>0, <1>4, <2>3, <3>1, <3>2, FreedApart
    <3>4. inUse(U) = inUse(V)
      BY <1>4 DEF inUse
    <3> HIDE DEF q
    <3>5. U.mft \ {n} \subseteq W.mft /\ U.bitmap \subseteq W.bitmap /\ W.cl = U.cl /\ W.rec = [U.rec EXCEPT ![n] = q]
      BY <1>4, <2>2
    <3> QED BY <1>4, <1>6, <3>3, <3>4, <3>5, Dropped
  <2>4. IsFreed(V, n, W)
    BY <1>1, <2>2, <2>3 DEF IsFreed
  <2>5. x.ok \in BOOLEAN /\ x.ok /\ x.v = W
    BY <1>3, <1>9 DEF did
  <2> HIDE DEF x
  <2> QED BY <2>4, <2>5 DEF x
<1> QED BY <1>7, <1>8, <1>9 DEF IsPut


\* Each place of a directory in use that names record num is one of its names.
LEMMA NamesOf ==
    ASSUME NEW V, NEW num, NEW d \in inUse(V), NEW i \in 1..Len(readDirEntries(V, d)),
           readDirEntries(V, d)[i].num = num
    PROVE  <<d, i>> \in namesOf(V, num)
<1> DEFINE at(n) == {j \in 1..Len(readDirEntries(V, n)) : readDirEntries(V, n)[j].num = num}
           of(n) == {<<n, j>> : j \in at(n)}
<1>1. namesOf(V, num) = UNION {of(n) : n \in inUse(V)}
  BY DEF namesOf, inUse
<1>2. <<d, i>> \in of(d)
  OBVIOUS
<1> HIDE DEF of
<1> QED BY <1>1, <1>2

\* A path that leads to a record: its directory, and the place of the name in it.
LEMMA Found ==
    ASSUME NEW V \in Volume, NEW p \in Seq(Names), p # <<>>, NEW num, num = lookupPath(V, p), num > 0
    PROVE  LET d == parent(V, p)
               ents == readDirEntries(V, d)
               hits == Hits(ents, Seqs!Last(p))
           IN  /\ d \in Recs /\ V.rec[d].dir /\ num \in Users
               /\ Sound(V) => d \in inUse(V)
               /\ hits # {} /\ Sets!Min(hits) \in 1..Len(ents) /\ ents[Sets!Min(hits)].num = num
<1>1. PICK d \in Nums : d = parent(V, p) /\ (Sound(V) /\ d > 0 => d \in inUse(V))
  BY FrontOf, LookupPath DEF parent
<1>2. PICK name : name = Seqs!Last(p)
  OBVIOUS
<1>3. num = IF d <= 0 THEN d ELSE lookupInDir(V, d, name)
  BY <1>1, <1>2, LookupLast DEF Step
<1>4. d \in Int /\ d > 0
  BY <1>1, <1>3 DEF Nums, Recs, NotExist, Error, Root, FirstUser
<1>5. d \in Recs
  BY <1>4 DEF Nums, NotExist, Error
<1>6. num = lookupInDir(V, d, name)
  BY <1>3, <1>4
<1>7. V.rec[d].dir
  BY <1>5, <1>6, LookupInDir
<1>8. PICK ents \in Seq(Entry) : ents = readDirEntries(V, d)
  BY <1>5, ReadDirEntries
<1>9. num = firstNamed(ents, name)
  BY <1>6, <1>7, <1>8 DEF lookupInDir
<1> DEFINE hits == Hits(ents, name)
<1>10. /\ hits = {} => firstNamed(ents, name) = NotExist
       /\ hits # {} => /\ Sets!Min(hits) \in hits /\ firstNamed(ents, name) = ents[Sets!Min(hits)].num
                       /\ ents[Sets!Min(hits)].num \in Users
  BY FirstNamed DEF IsFirst
<1>11. hits \subseteq 1..Len(ents)
  BY DEF Hits
<1> HIDE DEF hits
<1>12. hits # {}
  BY <1>9, <1>10 DEF NotExist
<1>13. num \in Users /\ Sets!Min(hits) \in 1..Len(ents) /\ ents[Sets!Min(hits)].num = num
  BY <1>9, <1>10, <1>11, <1>12
<1> QED BY <1>1, <1>2, <1>4, <1>5, <1>7, <1>8, <1>12, <1>13 DEF hits

\* A record that is not in use any more does not change what names lead to.
LEMMA FreedAlike ==
    ASSUME NEW V \in Volume, NEW n \in Recs, NEW W, IsFreed(V, n, W)
    PROVE  /\ \A k \in Recs : W.rec[k].dir = V.rec[k].dir /\ W.rec[k].root = V.rec[k].root /\ W.rec[k].ia = V.rec[k].ia
           /\ \A p \in Seq(Names) : lookupPath(W, p) = lookupPath(V, p)
<1>0. W \in Volume /\ W.cl = V.cl
  BY DEF IsFreed
<1>1. PICK r \in Record : r = V.rec[n]
  BY DEF Volume
<1>2. PICK q \in Record : q = [r EXCEPT !.use = FALSE] /\ q.dir = r.dir /\ q.root = r.root /\ q.ia = r.ia
  BY DEF Record
<1>3. W.rec = [V.rec EXCEPT ![n] = q]
  BY <1>1, <1>2 DEF IsFreed
<1>4. \A k \in Recs : W.rec[k] = IF k = n THEN q ELSE V.rec[k]
  BY <1>3 DEF Volume
<1>5. \A k \in Recs : W.rec[k].dir = V.rec[k].dir /\ W.rec[k].root = V.rec[k].root /\ W.rec[k].ia = V.rec[k].ia
  BY <1>1, <1>2, <1>4, Zenon
<1>6. \A k \in Recs : readDirEntries(W, k) = readDirEntries(V, k)
  BY <1>0, <1>5, Zenon DEF readDirEntries
<1>7. \A k \in Recs, name \in Names : lookupInDir(W, k, name) = lookupInDir(V, k, name)
  BY <1>5, <1>6 DEF lookupInDir
<1> QED BY <1>0, <1>5, <1>7, LookupAlike

\* The record is free and its only name is gone.
LEMMA Unnamed ==
    ASSUME NEW V \in Volume, Sound(V), NEW p \in Seq(Names), p # <<>>,
           NEW num, num = lookupPath(V, p), num > 0, ~V.lost,
           \A x, y \in namesOf(V, num) : x = y,
           NEW W, IsFreed(V, num, W), NEW y, IsRemoval(W, p, y), y.ok, ~y.v.lost
    PROVE  Sound(y.v)
<1> DEFINE d == parent(V, p)
           name == Seqs!Last(p)
           ents == readDirEntries(V, d)
           hits == Hits(ents, name)
           k == Sets!Min(hits)
<1>1. /\ d \in inUse(V) /\ d \in Recs /\ V.rec[d].dir /\ num \in Users
      /\ hits # {} /\ k \in 1..Len(ents) /\ ents[k].num = num
  BY Found
<1>2. num \in Recs /\ num \in inUse(V)
  BY <1>1, LookupPath DEF Recs, Users
<1>3. /\ \A m \in Recs : W.rec[m].dir = V.rec[m].dir /\ W.rec[m].root = V.rec[m].root /\ W.rec[m].ia = V.rec[m].ia
      /\ \A q \in Seq(Names) : lookupPath(W, q) = lookupPath(V, q)
  BY <1>2, FreedAlike
<1>4. parent(W, p) = d
  BY <1>3, FrontOf DEF parent
<1>5. SoundBut(W, num) /\ inUse(W) = inUse(V) \ {num} /\ W.cl = V.cl
  BY <1>2 DEF IsFreed
<1>6. /\ y.v \in Volume /\ SoundBut(y.v, num) /\ inUse(y.v) = inUse(V) \ {num}
      /\ \A m \in Recs : Held(y.v.cl, y.v.rec[m]) \subseteq Held(W.cl, W.rec[m])
  BY <1>5 DEF IsRemoval
<1>7. Gone(W, y.v, d, name)
  BY <1>1, <1>3, <1>4 DEF IsRemoval
<1>8. <<d, k>> \in namesOf(V, num)
  <2> HIDE DEF k, ents
  <2> QED BY <1>1, NamesOf DEF ents
<1> HIDE DEF d, name, k, hits, ents
<1>9. ASSUME NEW m \in inUse(y.v), NEW e \in Held(y.v.cl, y.v.rec[m]), e.num = num PROVE FALSE
  <2>1. m \in inUse(V) /\ m \in Recs
    BY <1>6 DEF inUse
  <2>2. e \in Elems(readDirEntries(V, m))
    <3>1. e \in Held(W.cl, W.rec[m])
      BY <1>6, <1>9, <2>1
    <3>2. Held(W.cl, W.rec[m]) = Held(V.cl, V.rec[m])
      BY <1>3, <1>5, <2>1 DEF Held
    <3> QED BY <2>1, <3>1, <3>2, ReadDirEntries
  <2>3. PICK i \in 1..Len(readDirEntries(V, m)) : e = readDirEntries(V, m)[i]
    BY <2>2 DEF Elems
  <2>4. <<m, i>> \in namesOf(V, num)
    BY <1>9, <2>1, <2>3, NamesOf
  <2>5. <<m, i>> = <<d, k>>
    BY <1>8, <2>4
  <2>6. m = d
    BY <2>5
  <2>7. /\ V.rec[d].ia = <<>> /\ y.v.rec[d].ia = <<>>
        /\ Hits(V.rec[d].root, name) # {} =>
              \A f \in Elems(y.v.rec[d].root) :
                 \E j \in 1..Len(V.rec[d].root) : j # Sets!Min(Hits(V.rec[d].root, name)) /\ f = V.rec[d].root[j]
    <3>1. W.rec[d].root = V.rec[d].root /\ W.rec[d].ia = V.rec[d].ia
      BY <1>1, <1>3
    <3>2. PICK root : root = W.rec[d].root
      OBVIOUS
    <3>3. /\ W.rec[d].ia = <<>> /\ y.v.rec[d].ia = <<>>
          /\ Hits(root, name) # {} =>
                \A f \in Elems(y.v.rec[d].root) :
                   \E j \in 1..Len(root) : j # Sets!Min(Hits(root, name)) /\ f = root[j]
      BY <1>7, <3>2 DEF Gone
    <3>4. root = V.rec[d].root
      BY <3>1, <3>2
    <3> QED BY <3>1, <3>3, <3>4
  <2>8. ents = V.rec[d].root
    BY <1>1, <2>7, ReadDirEntries DEF ents
  <2>9. e \in Elems(y.v.rec[d].root)
    <3>1. Len(<<>>) = 0 /\ 1..0 = {}
      OBVIOUS
    <3>2. Elems(<<>>) = {}
      BY <3>1 DEF Elems
    <3> QED BY <1>9, <2>6, <2>7, <3>2 DEF Held
  <2>10. PICK j \in 1..Len(ents) : j # k /\ e = ents[j]
    BY <1>1, <2>7, <2>8, <2>9 DEF k, hits
  <2>11. <<d, j>> \in namesOf(V, num)
    BY <1>1, <1>9, <2>10, NamesOf DEF ents
  <2>12. <<d, j>> = <<d, k>>
    BY <1>8, <2>11
  <2> QED BY <2>10, <2>12
<1> QED BY <1>1, <1>6, <1>9, PutBack

\* unlinkEntry frees the record, then removes the name; what goes wrong is lost.
LEMMA UnlinkEntry ==
    ASSUME NEW V, Good(V), V.freed = {}, NEW p \in Seq(Names), p # <<>>,
           NEW num, num = lookupPath(V, p), num > 0
    PROVE  Outcome(V, unlinkEntry(V, num, p))
<1>0. V \in Volume /\ Saved(V)
  BY DEF Good
<1>1. num \in Recs
  BY <1>0, Found DEF Recs, Users
<1> DEFINE f == freeRecord(V, num)
           y == removeDirEntry(f.v, p)
           two == \E a, b \in namesOf(V, num) : a # b
           W == [y.v EXCEPT !.lost = @ \/ ~y.ok \/ two]
           x == unlinkEntry(V, num, p)
<1>2. x = IF f.ok THEN [ok |-> y.ok, v |-> W] ELSE failed(f.v)
  BY DEF unlinkEntry, then
<1>3. /\ f.ok \in BOOLEAN
      /\ f.ok => IsFreed(V, num, f.v)
      /\ ~f.ok => Good(f.v) /\ f.v.lost = V.lost
  BY <1>1, FreeRecord
<1> HIDE DEF f, two
<1>4. CASE ~f.ok
  <2>1. x.ok \in BOOLEAN /\ ~x.ok /\ x.v = f.v
    BY <1>2, <1>4 DEF failed
  <2> HIDE DEF x
  <2>2. Outcome(V, x)
    BY <1>3, <1>4, <2>1 DEF Outcome
  <2> QED BY <2>2 DEF x
<1>5. CASE f.ok
  <2>1. IsFreed(V, num, f.v) /\ f.v \in Volume /\ Saved(f.v) /\ f.v.freed = {} /\ f.v.lost = V.lost
    BY <1>3, <1>5 DEF IsFreed
  <2>2. IsRemoval(f.v, p, y)
    BY <2>1, RemoveDirEntry
  <2>3. x.ok = y.ok /\ x.v = W
    BY <1>2, <1>5
  <2> HIDE DEF y, x
  <2>4. y.ok \in BOOLEAN /\ y.v \in Volume /\ Saved(y.v) /\ y.v.freed = {} /\ (V.lost => y.v.lost)
    BY <2>1, <2>2 DEF IsRemoval
  <2>5. /\ W \in Volume /\ Saved(W) /\ W.freed = {} /\ (y.v.lost => W.lost)
        /\ W.rec = y.v.rec /\ W.mft = y.v.mft /\ W.bitmap = y.v.bitmap /\ W.cl = y.v.cl
        /\ ~W.lost => ~y.v.lost /\ y.ok /\ ~two
    <3>1. PICK Y \in Volume : Y = y.v
      BY <2>4
    <3>2. PICK l \in BOOLEAN : l = (Y.lost \/ ~y.ok \/ two)
      BY <2>4
    <3> DEFINE Z == [Y EXCEPT !.lost = l]
    <3>3. /\ Z \in Volume /\ Z.freed = Y.freed /\ Z.rec = Y.rec /\ Z.mft = Y.mft /\ Z.dirty = Y.dirty
          /\ Z.bitmap = Y.bitmap /\ Z.cl = Y.cl /\ Z.lost = l /\ Z.disk = Y.disk /\ Z.mftRoom = Y.mftRoom
      BY DEF Volume
    <3>4. Z = W
      BY <3>1, <3>2
    <3> HIDE DEF Z, W
    <3>5. Saved(Z)
      BY <2>4, <3>1, <3>3, SavedStill
    <3> QED BY <2>4, <3>1, <3>2, <3>3, <3>4, <3>5
  <2> HIDE DEF W
  <2>6. ASSUME ~W.lost PROVE Sound(W)
    <3>1. ~y.v.lost /\ y.ok /\ ~V.lost /\ \A a, b \in namesOf(V, num) : a = b
      BY <2>4, <2>5, <2>6 DEF two
    <3>2. Sound(V)
      BY <3>1 DEF Good
    <3>3. Sound(y.v)
      BY <1>0, <2>1, <2>2, <3>1, <3>2, Unnamed
    <3> QED BY <2>5, <3>3, Grown DEF Sound
  <2>7. Outcome(V, x)
    BY <2>3, <2>4, <2>5, <2>6 DEF Outcome, Good
  <2> QED BY <2>7 DEF x
<1> QED BY <1>3, <1>4, <1>5


-----------------------------------------------------------------------------
(***************************************************************************)
(* Creating, writing and truncating files.                                 *)
(***************************************************************************)

\* createEntry takes the first free record, then adds the name.
LEMMA CreateEntry ==
    ASSUME NEW V, Good(V), V.freed = {}, NEW p \in Seq(Names), p # <<>>, NEW isDir \in BOOLEAN,
           freeRecs(V) # {}
    PROVE  LET x == createEntry(V, p, isDir)
           IN  Outcome(V, x) /\ x.v.mft \subseteq V.mft \cup {nextRec(V)} /\ x.v.lost = V.lost
<1>0. V \in Volume /\ Saved(V)
  BY DEF Good
<1>1. PICK dir \in Nums : dir = parent(V, p) /\ (Sound(V) /\ dir > 0 => dir \in inUse(V))
  BY <1>0, FrontOf, LookupPath DEF parent
<1>2. PICK num \in Users : num = nextRec(V) /\ num \notin V.mft
  <2>1. freeRecs(V) \subseteq Nat
    BY DEF freeRecs, FirstUser
  <2>2. nextRec(V) \in freeRecs(V)
    BY <2>1, Least DEF nextRec
  <2> QED BY <2>2 DEF freeRecs, Users
<1>3. num \in Recs
  BY DEF Recs, Users
<1> DEFINE U == allocMFTRecord(V)
           q == newRecord(isDir)
           y == putRecord(U, num, q)
           z == addDirEntry(y.v, dir, Seqs!Last(p), num)
           x == createEntry(V, p, isDir)
<1>4. x = IF dir <= 0 THEN failed(V) ELSE IF y.ok THEN z ELSE failed(y.v)
  BY <1>1, <1>2 DEF createEntry, then
<1>5. /\ U \in Volume /\ Saved(U) /\ U.rec = V.rec /\ U.mft = V.mft \cup {num} /\ U.bitmap = V.bitmap
      /\ U.cl = V.cl /\ U.lost = V.lost /\ U.freed = {}
  <2>1. /\ U \in Volume /\ U.rec = V.rec /\ U.mft = V.mft \cup {num} /\ U.bitmap = V.bitmap
        /\ U.cl = V.cl /\ U.lost = V.lost /\ U.freed = {}
        /\ U.disk = V.disk /\ U.mftRoom = V.mftRoom /\ U.dirty = TRUE
    BY <1>0, <1>2, <1>3 DEF allocMFTRecord, Volume
  <2> HIDE DEF U
  <2>2. Saved(U)
    BY <1>0, <2>1, SavedStill
  <2> QED BY <2>1, <2>2
<1> HIDE DEF U
<1>6. ~V.lost => Sound(V) /\ Sound(U)
  BY <1>5, Grown DEF Sound, Good
<1>7. Good(U)
  BY <1>5, <1>6 DEF Good
<1>8. PICK none : none = <<>> /\ Elems(none) = {} /\ Distinct(none)
  <2>1. Len(<<>>) = 0 /\ 1..0 = {}
    OBVIOUS
  <2> QED BY <2>1 DEF Elems, Distinct
<1>9. q \in Record /\ q.use /\ q.data.cs = none /\ q.root = none /\ q.ia = none
  BY <1>8 DEF newRecord, NoData, Record, Data
<1> HIDE DEF q
<1>10. Tidy(q) /\ Listed(q) = {} /\ Held(U.cl, q) = {}
  BY <1>8, <1>9 DEF Tidy, Listed, Held
<1>11. ~U.lost => MayPut(U, num, q)
  BY <1>3, <1>5, <1>6, <1>9, <1>10, LeaveOut DEF MayPut, Apart, Leads
<1>12. Outcome(U, y) /\ y.v.mft = U.mft /\ y.v.lost = U.lost
  <2>1. Kept(U, putRecord(U, num, q))
    BY <1>3, <1>7, <1>9, <1>11, PutGood
  <2> QED BY <2>1 DEF Kept
<1>13. IsPut(U, num, q, y)
  BY <1>3, <1>5, <1>9, PutRecord
<1> HIDE DEF y
<1>14. CASE dir <= 0
  <2>1. x.ok \in BOOLEAN /\ ~x.ok /\ x.v = V
    BY <1>4, <1>14 DEF failed
  <2> HIDE DEF x
  <2> QED BY <2>1 DEF x, Outcome
<1>15. CASE ~(dir <= 0) /\ ~y.ok
  <2>1. x.ok \in BOOLEAN /\ ~x.ok /\ x.v = y.v
    BY <1>4, <1>15 DEF failed
  <2> HIDE DEF x
  <2>2. Outcome(V, x) /\ x.v.mft \subseteq V.mft \cup {num} /\ x.v.lost = V.lost
    BY <1>5, <1>12, <2>1 DEF Outcome
  <2> QED BY <1>2, <2>2 DEF x
<1>16. CASE ~(dir <= 0) /\ y.ok
  <2>1. dir \in Recs /\ dir > 0
    BY <1>16 DEF Nums, Recs, NotExist, Error, Root, FirstUser
  <2>2. x = z
    BY <1>4, <1>16
  <2>3. Good(y.v) /\ y.v.freed = {} /\ y.v.lost = V.lost /\ y.v.mft = V.mft \cup {num}
    BY <1>5, <1>12, <1>16 DEF Outcome
  <2>4. y.v.rec = [V.rec EXCEPT ![num] = q]
    BY <1>5, <1>13, <1>16 DEF IsPut
  <2>5. ~y.v.lost => dir \in inUse(y.v) /\ num \in inUse(y.v)
    <3>1. ~V.lost => V.rec[dir].use
      BY <1>1, <1>6, <2>1 DEF inUse
    <3>2. V.rec \in [Recs -> Record]
      BY <1>0 DEF Volume
    <3>3. y.v.rec[num] = q /\ (dir # num => y.v.rec[dir] = V.rec[dir])
      BY <1>3, <2>1, <2>4, <3>2
    <3> QED BY <1>3, <1>9, <2>1, <2>3, <3>1, <3>3 DEF inUse
  <2>6. Seqs!Last(p) \in Names
    BY FrontOf
  <2>7. Outcome(y.v, z) /\ z.v.mft = y.v.mft /\ z.v.lost = y.v.lost
    BY <2>1, <2>3, <2>5, <2>6, AddDirEntry
  <2> HIDE DEF x, z
  <2>8. Outcome(V, x) /\ x.v.mft \subseteq V.mft \cup {num} /\ x.v.lost = V.lost
    BY <2>2, <2>3, <2>7 DEF Outcome
  <2> QED BY <1>2, <2>8 DEF x
<1>17. y.ok \in BOOLEAN
  BY <1>12 DEF Outcome
<1> QED BY <1>14, <1>15, <1>16, <1>17

\* The data of a record in use moves to clusters that were its own or free.
LEMMA Redata ==
    ASSUME NEW V \in Volume, Sound(V), NEW n \in inUse(V), NEW r, r = V.rec[n],
           NEW W, W.rec = V.rec, W.mft = V.mft,
           NEW keep, keep = V.bitmap \ Elems(r.data.cs),
           keep \subseteq W.bitmap, \A c \in keep : W.cl[c] = V.cl[c],
           NEW val \in Seq(Chunk), NEW cs \in Seq(Clusters), Distinct(cs),
           Elems(cs) \subseteq W.bitmap, Elems(cs) \cap keep = {}
    PROVE  MayPut(W, n, withData(r, val, cs))
<1> DEFINE x == withData(r, val, cs)
           rest == V.bitmap \ Listed(r)
<1>0. n \in Recs /\ r \in Record /\ r.use
  BY DEF inUse, Volume
<1>1. x \in Record /\ x.use = r.use /\ x.data.cs = cs /\ x.root = r.root /\ x.ia = r.ia
  <2>1. \A q \in Record : LET y == withData(q, val, cs)
                         IN  y \in Record /\ y.use = q.use /\ y.data.cs = cs /\ y.root = q.root /\ y.ia = q.ia
    BY DEF withData, Record, Data
  <2> QED BY <1>0, <2>1, Zenon
<1> HIDE DEF x
<1>2. Tidy(r) /\ Listed(r) \subseteq V.bitmap
  BY <1>0, LeaveOut DEF Apart
<1>3. Elems(r.ia) \subseteq keep
  BY <1>2 DEF Tidy, Listed
<1>4. Tidy(x)
  BY <1>1, <1>2, <1>3 DEF Tidy
<1>5. Listed(x) \subseteq W.bitmap
  BY <1>1, <1>3 DEF Listed
<1>6. rest \subseteq keep /\ Listed(x) \cap rest = {}
  BY <1>1 DEF Listed
<1>7. \A e \in Held(W.cl, x) : e.num \in inUse(V)
  <2>1. Held(W.cl, x) = Held(W.cl, r)
    BY <1>1 DEF Held
  <2>2. Held(W.cl, r) = Held(V.cl, r)
    BY <1>3, HeldSame
  <2>3. \A e \in Held(V.cl, r) : e.num \in inUse(V)
    BY <1>0, LeaveOut DEF Leads
  <2> QED BY <2>1, <2>2, <2>3
<1> HIDE DEF rest
<1>8. rest \subseteq W.bitmap /\ \A c \in rest : W.cl[c] = V.cl[c]
  BY <1>6
<1>9. SoundBut(W, n) /\ n \in W.mft /\ Apart(W, inUse(W) \ {n}, x) /\ Leads(W, n, x)
  BY <1>4, <1>5, <1>6, <1>7, <1>8, Relisted DEF rest
<1> QED BY <1>0, <1>1, <1>9 DEF MayPut, x

\* A late Close writes to a record that is not in use (flushFileWrite): it stays
\* so, and nothing else changes.
LEMMA PutUnused ==
    ASSUME NEW V, Good(V), V.freed = {}, NEW n \in Recs, NEW r \in Record, ~r.use, n \notin inUse(V)
    PROVE  LET x == putRecord(V, n, r)
           IN  Outcome(V, x) /\ x.v.mft = V.mft /\ x.v.lost = V.lost
<1> DEFINE x == putRecord(V, n, r)
<1>0. V \in Volume
  BY DEF Good
<1>1. IsPut(V, n, r, x)
  <2>1. Saved(V)
    BY DEF Good
  <2> QED BY <1>0, <2>1, PutRecord
<1> HIDE DEF x
<1>2. CASE x.ok = FALSE /\ x.v = V
  BY <1>2 DEF Outcome, x
<1>3. CASE x.ok = TRUE /\ x.v.freed = {}
  <2>1. /\ x.v \in Volume /\ Saved(x.v) /\ x.v.rec = [V.rec EXCEPT ![n] = r]
        /\ x.v.mft = V.mft /\ x.v.bitmap = V.bitmap /\ x.v.cl = V.cl /\ x.v.lost = V.lost
    BY <1>1, <1>3 DEF IsPut
  <2>2. ASSUME ~V.lost PROVE Sound(x.v)
    <3>1. Sound(V)
      BY <2>2 DEF Good
    <3>2. SoundBut(x.v, n) /\ n \notin inUse(x.v) /\ inUse(x.v) = inUse(V)
      <4>1. SoundBut(V, n)
        BY <1>0, <3>1, LeaveOut
      <4>2. SoundBut(x.v, n) /\ n \notin inUse(x.v) /\ inUse(x.v) = inUse(V) \ {n}
        BY <1>0, <2>1, <4>1, Dropped
      <4> QED BY <4>2
    <3>3. n \in Users
      BY <3>1 DEF Sound, SoundBut, Recs, Users, Root, NotExist
    <3>4. ASSUME NEW m \in inUse(x.v), NEW e \in Held(x.v.cl, x.v.rec[m]) PROVE e.num # n
      <4>1. m \in inUse(V) /\ m # n /\ m \in Recs
        BY <3>2 DEF inUse
      <4>2. x.v.rec[m] = V.rec[m]
        BY <1>0, <2>1, <4>1 DEF Volume
      <4>3. Leads(V, NotExist, V.rec[m])
        <5>1. m # NotExist
          BY <4>1 DEF NotExist, Recs, Root, FirstUser
        <5> QED BY <3>1, <4>1, <5>1 DEF Sound, SoundBut
      <4>4. e.num = NotExist \/ e.num \in inUse(V)
        BY <2>1, <3>4, <4>2, <4>3 DEF Leads
      <4>5. n # NotExist
        BY DEF NotExist, Recs, Root, FirstUser
      <4> QED BY <4>4, <4>5
    <3> QED BY <2>1, <3>2, <3>3, <3>4, PutBack
  <2>3. Good(x.v)
    BY <2>1, <2>2 DEF Good
  <2> QED BY <1>3, <2>1, <2>3 DEF Outcome, x
<1> QED BY <1>1, <1>2, <1>3 DEF IsPut

\* The record gets the clusters that were allocated and written for its data.
LEMMA PutData ==
    ASSUME NEW V, Good(V), V.freed = {}, NEW n \in Recs,
           NEW W, SameRecords(V, W), Saved(W), V.bitmap \subseteq W.bitmap,
           \A c \in V.bitmap : W.cl[c] = V.cl[c],
           NEW val \in Seq(Chunk), NEW cs \in Seq(Clusters), Distinct(cs),
           Elems(cs) \subseteq W.bitmap, Elems(cs) \cap V.bitmap = {}
    PROVE  LET x == putRecord(W, n, withData(V.rec[n], val, cs))
           IN  Outcome(V, x) /\ x.v.mft = V.mft /\ x.v.lost = V.lost
<1>0. V \in Volume /\ V.lost \in BOOLEAN
  BY DEF Good, Volume
<1>1. PICK r \in Record : r = V.rec[n]
  BY <1>0 DEF Volume
<1> DEFINE q == withData(r, val, cs)
           x == putRecord(W, n, q)
<1>2. q \in Record /\ q.use = r.use
  BY WithData
<1>3. Good(W)
  BY AllocGood
<1>4. W.rec = V.rec /\ W.mft = V.mft /\ W.lost = V.lost /\ W.freed = {}
  BY DEF SameRecords
<1>5. Outcome(W, x) /\ x.v.mft = W.mft /\ x.v.lost = W.lost
  <2>1. CASE n \in inUse(V) \/ V.lost
    <3>1. ASSUME ~W.lost PROVE MayPut(W, n, q)
      <4>1. n \in inUse(V) /\ Sound(V)
        BY <1>4, <2>1, <3>1 DEF Good
      <4> DEFINE keep == V.bitmap \ Elems(r.data.cs)
      <4>2. keep \subseteq W.bitmap /\ (\A c \in keep : W.cl[c] = V.cl[c]) /\ Elems(cs) \cap keep = {}
        OBVIOUS
      <4> HIDE DEF keep, q
      <4> QED BY <1>0, <1>1, <1>4, <4>1, <4>2, Redata DEF keep, q
    <3> HIDE DEF q
    <3>2. Kept(W, putRecord(W, n, q))
      BY <1>2, <1>3, <3>1, PutGood
    <3> QED BY <3>2 DEF Kept
  <2>2. CASE n \notin inUse(V)
    <3>1. ~q.use /\ n \notin inUse(W)
      BY <1>1, <1>2, <1>4, <2>2 DEF inUse
    <3> HIDE DEF q
    <3> QED BY <1>2, <1>3, <1>4, <3>1, PutUnused
  <2> QED BY <1>0, <2>1, <2>2
<1> HIDE DEF x
<1>6. Outcome(V, x) /\ x.v.mft = V.mft /\ x.v.lost = V.lost
  BY <1>4, <1>5 DEF Outcome
<1> QED BY <1>1, <1>6 DEF x


\* writeFileData writes the data to new clusters, or into the record.
LEMMA WriteFileData ==
    ASSUME NEW V, Good(V), V.freed = {}, NEW num \in Recs, NEW d \in Contents, NEW resident \in BOOLEAN
    PROVE  Outcome(V, writeFileData(V, num, d, resident))
<1>0. V \in Volume /\ Saved(V)
  BY DEF Good
<1>1. PICK none \in Seq(Clusters) : none = <<>> /\ Elems(none) = {} /\ Distinct(none)
  BY NoElems
<1>2. PICK blks \in Seq(Chunk) : blks = parts(d)
  <2>1. d.n \in Nat
    OBVIOUS
  <2>2. \A i \in 1..d.n : chunk(d, i) \in Chunk
    BY <2>1 DEF chunk, Chunk, Ids
  <2>3. parts(d) \in Seq(Chunk)
    BY <2>1, <2>2 DEF parts
  <2> QED BY <2>3
<1>3. <<>> \in Seq(Chunk)
  OBVIOUS
<1> DEFINE r == V.rec[num]
           a == allocAndWrite(V, blks)
           y == putRecord(V, num, withData(r, blks, none))
           z == putRecord(a.v, num, withData(r, <<>>, a.cs))
           x == writeFileData(V, num, d, resident)
<1>4. x = IF resident THEN y ELSE IF a.ok THEN z ELSE failed(a.v)
  BY <1>1, <1>2 DEF writeFileData, then
<1>5. Outcome(V, y)
  <2>1. SameRecords(V, V) /\ V.bitmap \subseteq V.bitmap /\ (\A c \in V.bitmap : V.cl[c] = V.cl[c])
    BY <1>0 DEF SameRecords
  <2>2. Elems(none) \subseteq V.bitmap /\ Elems(none) \cap V.bitmap = {}
    BY <1>1
  <2> QED BY <1>0, <1>1, <2>1, <2>2, PutData
<1>6. IsAlloc(V, Len(blks), a)
  BY <1>0, AllocAndWrite
<1> HIDE DEF a
<1>7. SameRecords(V, a.v) /\ Saved(a.v) /\ V.bitmap \subseteq a.v.bitmap /\ a.ok \in BOOLEAN
      /\ \A c \in V.bitmap : a.v.cl[c] = V.cl[c]
  BY <1>6 DEF IsAlloc
<1>8. Outcome(V, failed(a.v))
  <2>1. Good(a.v)
    BY <1>7, AllocGood
  <2> QED BY <1>7, <2>1 DEF Outcome, SameRecords, failed
<1>9. ASSUME a.ok PROVE Outcome(V, z)
  <2>1. /\ a.cs \in Seq(Clusters) /\ Distinct(a.cs)
        /\ Elems(a.cs) \subseteq a.v.bitmap /\ Elems(a.cs) \cap V.bitmap = {}
    BY <1>6, <1>9 DEF IsAlloc, NewClusters
  <2> QED BY <1>3, <1>7, <2>1, PutData
<1> HIDE DEF x, y, z
<1>10. Outcome(V, x)
  BY <1>4, <1>5, <1>7, <1>8, <1>9
<1> QED BY <1>10 DEF x

\* truncateFile frees the clusters, then writes the record.
LEMMA TruncateFile ==
    ASSUME NEW V, Good(V), V.freed = {}, NEW num \in Recs, ~V.lost => num \in inUse(V)
    PROVE  Outcome(V, truncateFile(V, num))
<1>0. V \in Volume /\ Saved(V)
  BY DEF Good
<1>1. PICK none \in Seq(Clusters) : none = <<>> /\ Elems(none) = {} /\ Distinct(none)
  BY NoElems
<1>2. PICK r \in Record : r = V.rec[num]
  BY <1>0 DEF Volume
<1>3. PICK cs \in Seq(Clusters) : cs = r.data.cs
  BY DEF Record, Data
<1>4. PICK val \in Seq(Chunk) : val = <<>>
  <2>1. <<>> \in Seq(Chunk)
    OBVIOUS
  <2> QED BY <2>1
<1> DEFINE U == freeRuns(V, cs)
           q == withData(r, val, none)
           x == putRecord(U, num, q)
<1>5. truncateFile(V, num) = x
  BY <1>1, <1>2, <1>3, <1>4 DEF truncateFile
<1>6. U.rec = V.rec /\ U.mft = V.mft /\ U.lost = V.lost /\ U.cl = V.cl /\ U.bitmap = V.bitmap \ Elems(cs)
  BY <1>0, FreeRuns
<1>7. Good(U)
  BY FreeRunsGood
<1> HIDE DEF U
<1>8. q \in Record
  BY WithData
<1>9. ASSUME ~U.lost PROVE MayPut(U, num, q)
  <2>1. num \in inUse(V) /\ Sound(V)
    BY <1>6, <1>9 DEF Good
  <2> DEFINE keep == V.bitmap \ Elems(r.data.cs)
  <2>2. /\ keep \subseteq U.bitmap /\ (\A c \in keep : U.cl[c] = V.cl[c])
        /\ Elems(none) \subseteq U.bitmap /\ Elems(none) \cap keep = {}
    BY <1>1, <1>3, <1>6
  <2> HIDE DEF keep, q
  <2> QED BY <1>0, <1>1, <1>2, <1>6, <2>1, <2>2, Redata DEF keep, q
<1> HIDE DEF q
<1>10. Kept(U, putRecord(U, num, q))
  BY <1>7, <1>8, <1>9, PutGood
<1>11. Outcome(U, x)
  BY <1>10 DEF Kept
<1>12. Outcome(V, x)
  BY <1>6, <1>11 DEF Outcome
<1> QED BY <1>5, <1>12

\* A part of a call that follows another one.
LEMMA Chain ==
    ASSUME NEW V, NEW y, Outcome(V, y),
           NEW x, y.ok => Outcome(y.v, x), ~y.ok => x = failed(y.v)
    PROVE  Outcome(V, x)
<1>1. CASE y.ok
  BY <1>1 DEF Outcome
<1>2. CASE ~y.ok
  <2>1. x.ok = FALSE /\ x.v = y.v
    BY <1>2 DEF failed
  <2> QED BY <2>1 DEF Outcome
<1> QED BY <1>1, <1>2

\* The parts that change nothing.
LEMMA NothingDone ==
    ASSUME NEW V, Good(V), V.freed = {}
    PROVE  Outcome(V, did(V)) /\ Outcome(V, failed(V))
BY DEF did, failed, Outcome

\* What a path leads to is a number, and on a good volume a record in use.
LEMMA Lookup ==
    ASSUME NEW V, Good(V), V.freed = {}, NEW p \in Seq(Names), p # <<>>
    PROVE  /\ lookupPath(V, p) \in Int
           /\ lookupPath(V, p) <= 0 => lookupPath(V, p) \in {NotExist, Error}
           /\ lookupPath(V, p) > 0 => /\ lookupPath(V, p) \in Users /\ lookupPath(V, p) \in Recs
                                      /\ ~V.lost => lookupPath(V, p) \in inUse(V)
<1>0. V \in Volume /\ (~V.lost => Sound(V))
  BY DEF Good
<1>1. PICK n \in Nums : n = lookupPath(V, p) /\ (Sound(V) /\ n > 0 => n \in inUse(V))
  BY <1>0, LookupPath
<1>2. n > 0 => n \in Users
  BY <1>0, <1>1, Found
<1>3. n \in Int /\ (n <= 0 => n \in {NotExist, Error}) /\ (n > 0 => n \in Recs)
  BY DEF Nums, Recs, NotExist, Error, Root, FirstUser
<1> QED BY <1>0, <1>1, <1>2, <1>3

-----------------------------------------------------------------------------
(***************************************************************************)
(* The calls.                                                              *)
(***************************************************************************)

\* WriteFile: the file is created if it does not exist, then written.
LEMMA WriteFileGood ==
    ASSUME NEW V, Good(V), V.freed = {}, NEW p \in Seq(Names), p # <<>>, freeRecs(V) # {},
           NEW d \in Contents, NEW resident \in BOOLEAN
    PROVE  Outcome(V, writeFile(V, p, d, resident))
<1> DEFINE write(W, n) == IF W.rec[n].dir THEN failed(W) ELSE writeFileData(W, n, d, resident)
<1>1. ASSUME NEW W, Good(W), W.freed = {}, NEW n \in Recs PROVE Outcome(W, write(W, n))
  BY <1>1, WriteFileData, NothingDone
<1>2. PICK num \in Int : num = lookupPath(V, p) /\ (num <= 0 => num \in {NotExist, Error}) /\ (num > 0 => num \in Recs)
  BY Lookup
<1>3. PICK new \in Recs : new = nextRec(V)
  <2>1. freeRecs(V) \subseteq Nat /\ freeRecs(V) \subseteq Recs
    BY DEF freeRecs, FirstUser, Recs
  <2>2. nextRec(V) \in freeRecs(V)
    BY <2>1, Least DEF nextRec
  <2> QED BY <2>1, <2>2
<1> DEFINE y == createEntry(V, p, FALSE)
           z == IF y.ok THEN write(y.v, new) ELSE failed(y.v)
           x == writeFile(V, p, d, resident)
<1>4. Outcome(V, y)
  BY CreateEntry
<1>5. Outcome(V, z)
  <2> HIDE DEF y
  <2>1. y.ok => Outcome(y.v, z)
    BY <1>1, <1>4 DEF Outcome
  <2> HIDE DEF z
  <2>2. ~y.ok => z = failed(y.v)
    BY DEF z
  <2> QED BY <1>4, <2>1, <2>2, Chain
<1>6. CASE num = NotExist
  <2>1. x = z
    BY <1>2, <1>3, <1>6 DEF writeFile, then, NotExist, Error
  <2> QED BY <1>5, <2>1
<1>7. CASE num = Error
  <2>1. x = failed(V)
    BY <1>2, <1>7 DEF writeFile, NotExist, Error
  <2> QED BY <2>1, NothingDone
<1>8. CASE num > 0
  <2>1. x = write(V, num)
    BY <1>2, <1>8 DEF writeFile, NotExist, Error
  <2> HIDE DEF write
  <2> QED BY <1>1, <1>2, <1>8, <2>1
<1> QED BY <1>2, <1>6, <1>7, <1>8


\* Mkdir, and one step of MkdirAll: at most one record is taken.
LEMMA MkdirGood ==
    ASSUME NEW V, Good(V), V.freed = {}, NEW p \in Seq(Names), p # <<>>, freeRecs(V) # {}
    PROVE  LET x == mkdir(V, p) IN Outcome(V, x) /\ x.v.mft \subseteq V.mft \cup {nextRec(V)}
<1> DEFINE y == createEntry(V, p, TRUE)
           x == mkdir(V, p)
<1>1. x = IF lookupPath(V, p) > 0 THEN failed(V) ELSE y
  BY DEF mkdir
<1>2. Outcome(V, y) /\ y.v.mft \subseteq V.mft \cup {nextRec(V)}
  BY CreateEntry
<1>3. Outcome(V, failed(V)) /\ failed(V).v = V
  BY NothingDone DEF failed
<1> HIDE DEF x, y
<1>4. Outcome(V, x) /\ x.v.mft \subseteq V.mft \cup {nextRec(V)}
  BY <1>1, <1>2, <1>3
<1> QED BY <1>4 DEF x

\* One step of MkdirAll.
Made(W, q) == IF lookupPath(W, q) > 0 THEN did(W) ELSE mkdir(W, q)

\* MkdirAll, for one prefix: the directory is there, or Mkdir makes it.
LEMMA MadeGood ==
    ASSUME NEW V, Good(V), V.freed = {}, NEW p \in Seq(Names), p # <<>>, freeRecs(V) # {}
    PROVE  LET x == Made(V, p) IN Outcome(V, x) /\ x.v.mft \subseteq V.mft \cup {nextRec(V)}
<1> DEFINE y == mkdir(V, p)
           x == Made(V, p)
<1>1. x = IF lookupPath(V, p) > 0 THEN did(V) ELSE y
  BY DEF Made
<1>2. Outcome(V, y) /\ y.v.mft \subseteq V.mft \cup {nextRec(V)}
  BY MkdirGood
<1>3. Outcome(V, did(V)) /\ did(V).v = V
  BY NothingDone DEF did
<1> HIDE DEF x, y
<1>4. Outcome(V, x) /\ x.v.mft \subseteq V.mft \cup {nextRec(V)}
  BY <1>1, <1>2, <1>3
<1> QED BY <1>4 DEF x

\* MkdirAll on a path of one or two names, with two records free.
LEMMA MkdirAllGood ==
    ASSUME NEW V, Good(V), V.freed = {}, NEW p \in Seq(Names), Len(p) \in {1, 2},
           \A n : freeRecs(V) \ {n} # {}
    PROVE  Outcome(V, mkdirAll(V, p))
<1> DEFINE next(y, k) == IF y.ok THEN Made(y.v, SubSeq(p, 1, k)) ELSE failed(y.v)
           n == Len(p)
           y0 == did(V)
           y1 == next(y0, 1)
           y2 == next(y1, 2)
           Sol(g) == g = [k \in 0..n |-> IF k = 0 THEN y0 ELSE next(g[k - 1], k)]
           h == [k \in 0..n |-> IF k = 0 THEN y0 ELSE IF k = 1 THEN y1 ELSE y2]
           at == CHOOSE g : Sol(g)
<1>1. mkdirAll(V, p) = at[n]
  BY DEF mkdirAll, then, Made
<1>2. n = 1 \/ n = 2
  OBVIOUS
<1> HIDE DEF n, next, y0
<1>3. Sol(h)
  <2> SUFFICES ASSUME NEW k \in 0..n PROVE h[k] = IF k = 0 THEN y0 ELSE next(h[k - 1], k)
    OBVIOUS
  <2>1. CASE k = 0
    BY <1>2, <2>1
  <2>2. CASE k = 1
    <3>1. 0 \in 0..n /\ k - 1 = 0 /\ k # 0
      BY <1>2, <2>2
    <3>2. h[k - 1] = y0 /\ h[k] = y1
      BY <2>2, <3>1
    <3> QED BY <2>2, <3>1, <3>2
  <2>3. CASE k = 2
    <3>1. 1 \in 0..n /\ k - 1 = 1 /\ k # 0 /\ k # 1
      BY <1>2, <2>3
    <3>2. h[k - 1] = y1 /\ h[k] = y2
      BY <2>3, <3>1
    <3> QED BY <2>3, <3>1, <3>2
  <2> QED BY <1>2, <2>1, <2>2, <2>3
<1>4. Sol(at)
  BY <1>3
<1> HIDE DEF at
<1>5. at[0] = y0 /\ at[1] = y1 /\ (n = 2 => at[2] = y2)
  <2>1. at[0] = y0
    BY <1>2, <1>4
  <2>2. at[1] = next(at[0], 1)
    BY <1>2, <1>4
  <2>3. n = 2 => at[2] = next(at[1], 2)
    BY <1>2, <1>4
  <2> QED BY <2>1, <2>2, <2>3
<1>6. y0.ok = TRUE /\ y0.v = V
  BY DEF y0, did
<1>7. \A k \in 1..n : SubSeq(p, 1, k) \in Seq(Names) /\ SubSeq(p, 1, k) # <<>>
  BY DEF n
<1>8. Outcome(V, y1) /\ y1.v.mft \subseteq V.mft \cup {nextRec(V)}
  <2>1. y1 = Made(V, SubSeq(p, 1, 1))
    BY <1>6 DEF next
  <2>2. SubSeq(p, 1, 1) \in Seq(Names) /\ SubSeq(p, 1, 1) # <<>> /\ freeRecs(V) # {}
    BY <1>2, <1>7
  <2> HIDE DEF y1
  <2> QED BY <2>1, <2>2, MadeGood
<1>9. ASSUME n = 2 PROVE Outcome(V, y2)
  <2> HIDE DEF y1
  <2>1. ASSUME y1.ok PROVE Outcome(y1.v, y2)
    <3>1. Good(y1.v) /\ y1.v.freed = {}
      BY <1>8, <2>1 DEF Outcome
    <3>2. freeRecs(y1.v) # {}
      BY <1>8 DEF freeRecs
    <3>3. y2 = Made(y1.v, SubSeq(p, 1, 2))
      BY <2>1 DEF next
    <3>4. SubSeq(p, 1, 2) \in Seq(Names) /\ SubSeq(p, 1, 2) # <<>>
      BY <1>7, <1>9
    <3> HIDE DEF y2
    <3> QED BY <3>1, <3>2, <3>3, <3>4, MadeGood
  <2>2. ~y1.ok => y2 = failed(y1.v)
    BY DEF next
  <2> HIDE DEF y2
  <2> QED BY <1>8, <2>1, <2>2, Chain
<1> QED BY <1>1, <1>2, <1>5, <1>8, <1>9

\* Remove of a file or of an empty directory.
LEMMA RemoveGood ==
    ASSUME NEW V, Good(V), V.freed = {}, NEW p \in Seq(Names), p # <<>>
    PROVE  Outcome(V, remove(V, p))
<1> DEFINE num == lookupPath(V, p)
           y == unlinkEntry(V, num, p)
<1>1. remove(V, p) = IF num <= 0 \/ (V.rec[num].dir /\ readDirEntries(V, num) # <<>>) THEN failed(V) ELSE y
  BY DEF remove
<1>2. num \in Int
  BY Lookup
<1>3. num > 0 => Outcome(V, y)
  BY UnlinkEntry
<1> HIDE DEF y, num
<1> QED BY <1>1, <1>2, <1>3, NothingDone

\* RemoveAll of a name without children.
LEMMA RemoveLeafGood ==
    ASSUME NEW V, Good(V), V.freed = {}, NEW p \in Seq(Names), p # <<>>
    PROVE  Outcome(V, removeLeaf(V, p)) /\ removeLeaf(V, p) \in [ok : BOOLEAN, v : Volume]
<1> DEFINE num == lookupPath(V, p)
           y == unlinkEntry(V, num, p)
           x == removeLeaf(V, p)
<1>1. x = CASE num = NotExist -> did(V)
            [] num = Error    -> failed(V)
            [] num > 0        -> y
  BY DEF removeLeaf
<1>2. num \in Int /\ (num <= 0 => num \in {NotExist, Error})
  BY Lookup
<1>3. num > 0 => Outcome(V, y)
  BY UnlinkEntry
<1>4. y = [ok |-> y.ok, v |-> y.v]
  <2>1. PICK a, b : y = [ok |-> a, v |-> b]
    <3> DEFINE f == freeRecord(V, num)
               z == removeDirEntry(f.v, p)
               W == [z.v EXCEPT !.lost = @ \/ ~z.ok \/ \E s, t \in namesOf(V, num) : s # t]
    <3>1. y = IF f.ok THEN [ok |-> z.ok, v |-> W] ELSE failed(f.v)
      BY DEF unlinkEntry, then
    <3> HIDE DEF f, z, W, y
    <3>2. y = [ok |-> z.ok, v |-> W] \/ y = [ok |-> FALSE, v |-> f.v]
      BY <3>1 DEF failed
    <3> QED BY <3>2 DEF y
  <2> QED BY <2>1
<1> HIDE DEF y, num
<1>5. CASE num = NotExist
  <2>1. x = did(V)
    BY <1>1, <1>5 DEF NotExist, Error
  <2> HIDE DEF x
  <2>2. Outcome(V, x) /\ x = [ok |-> TRUE, v |-> V]
    BY <2>1, NothingDone DEF did
  <2> QED BY <2>2 DEF Outcome, Good, x
<1>6. CASE num = Error
  <2>1. x = failed(V)
    BY <1>1, <1>6 DEF NotExist, Error
  <2> HIDE DEF x
  <2>2. Outcome(V, x) /\ x = [ok |-> FALSE, v |-> V]
    BY <2>1, NothingDone DEF failed
  <2> QED BY <2>2 DEF Outcome, Good, x
<1>7. CASE num > 0
  <2>1. x = y
    BY <1>1, <1>7 DEF NotExist, Error
  <2> HIDE DEF x
  <2>2. Outcome(V, x) /\ x = [ok |-> x.ok, v |-> x.v]
    BY <1>3, <1>4, <1>7, <2>1
  <2>3. x.ok \in BOOLEAN /\ x.v \in Volume
    BY <2>2 DEF Outcome, Good
  <2>4. x \in [ok : BOOLEAN, v : Volume]
    BY <2>2, <2>3
  <2> QED BY <2>2, <2>4 DEF x
<1> QED BY <1>2, <1>5, <1>6, <1>7


\* What RemoveAll does to the children of a directory, one after another.
RemoveNext(p, ents, k, y) ==
    IF y.ok THEN removeLeaf(y.v, Append(p, ents[k].name)) ELSE failed(y.v)

\* RemoveAll: the children as they were read at the beginning, then the name.
LEMMA RemoveAllGood ==
    ASSUME NEW V, Good(V), V.freed = {}, NEW p \in Seq(Names), p # <<>>
    PROVE  Outcome(V, removeAll(V, p))
<1>0. V \in Volume
  BY DEF Good
<1> DEFINE num == lookupPath(V, p)
<1>1. PICK ents \in Seq(Entry) : ents = IF num > 0 /\ V.rec[num].dir THEN readDirEntries(V, num) ELSE <<>>
  <2>1. num > 0 => num \in Recs
    BY Lookup
  <2>2. num > 0 => readDirEntries(V, num) \in Seq(Entry)
    BY <1>0, <2>1, ReadDirEntries
  <2> HIDE DEF num
  <2>3. <<>> \in Seq(Entry)
    OBVIOUS
  <2> QED BY <2>2, <2>3
<1>2. PICK n \in Nat : n = Len(ents)
  OBVIOUS
<1> DEFINE S == {y \in [ok : BOOLEAN, v : Volume] : Outcome(V, y)}
           next(y, k) == RemoveNext(p, ents, k, y)
           f == [k \in 1..n |-> [y \in S |-> next(y, k)]]
           Sol(g) == g = [k \in 0..n |-> IF k = 0 THEN did(V) ELSE next(g[k - 1], k)]
           at == CHOOSE g : Sol(g)
           x == IF at[n].ok THEN removeLeaf(at[n].v, p) ELSE failed(at[n].v)
<1>3. removeAll(V, p) = x
  BY <1>1, <1>2 DEF removeAll, then, RemoveNext
<1>4. ASSUME NEW k \in 1..n, NEW y \in S PROVE next(y, k) \in S
  <2>1. y.ok \in BOOLEAN /\ y.v \in Volume /\ Outcome(V, y)
    OBVIOUS
  <2> DEFINE q == Append(p, ents[k].name)
  <2>2. q \in Seq(Names) /\ q # <<>>
    <3>0. PICK e \in Entry : e = ents[k]
      BY <1>2
    <3>1. ents[k].name \in Names
      BY <3>0 DEF Entry
    <3>2. PICK name \in Names : name = ents[k].name
      BY <3>1
    <3>3. Append(p, name) \in Seq(Names) /\ Append(p, name) # <<>>
      OBVIOUS
    <3> QED BY <3>2, <3>3
  <2> HIDE DEF q
  <2>3. next(y, k) = IF y.ok THEN removeLeaf(y.v, q) ELSE failed(y.v)
    BY DEF RemoveNext, q
  <2> HIDE DEF next
  <2>4. CASE y.ok
    <3>1. Good(y.v) /\ y.v.freed = {}
      BY <2>1, <2>4 DEF Outcome
    <3>2. Outcome(y.v, removeLeaf(y.v, q)) /\ removeLeaf(y.v, q) \in [ok : BOOLEAN, v : Volume]
      BY <2>2, <3>1, RemoveLeafGood
    <3>3. next(y, k) = removeLeaf(y.v, q)
      BY <2>3, <2>4
    <3>4. Outcome(V, next(y, k))
      BY <2>1, <2>4, <3>2, <3>3, Chain
    <3> QED BY <3>2, <3>3, <3>4
  <2>5. CASE ~y.ok
    <3>1. next(y, k) = failed(y.v)
      BY <2>3, <2>5
    <3>2. next(y, k) \in [ok : BOOLEAN, v : Volume]
      BY <2>1, <3>1 DEF failed
    <3>3. Outcome(V, next(y, k))
      BY <2>1, <2>5, <3>1, Chain
    <3> QED BY <3>2, <3>3
  <2> QED BY <2>1, <2>4, <2>5
<1>5. did(V) \in S
  <2>1. did(V) \in [ok : BOOLEAN, v : Volume]
    BY <1>0 DEF did
  <2> QED BY <2>1, NothingDone
<1> HIDE DEF S, next
<1>6. f \in Steps(n, S)
  BY <1>4 DEF Steps
<1>7. PICK g \in [0..n -> S] : IsRun(g, n, did(V), f)
  <2> HIDE DEF f
  <2> QED BY <1>5, <1>6, Iteration
<1>8. ASSUME NEW k \in 1..n PROVE g[k] = next(g[k - 1], k)
  <2>1. g[k - 1] \in S
    OBVIOUS
  <2> QED BY <1>7, <2>1 DEF IsRun
<1>9. Sol(g)
  BY <1>7, <1>8 DEF IsRun
<1>10. Sol(at)
  BY <1>9
<1> HIDE DEF at
<1>11. at[0] = did(V) /\ \A k \in 1..n : at[k] = next(at[k - 1], k)
  BY <1>10
<1> DEFINE T == {k \in 0..n : at[k] \in S}
<1>12. 0 \in T
  BY <1>5, <1>11
<1>13. \A k \in 1..n : k - 1 \in T => k \in T
  BY <1>4, <1>11
<1>14. at[n] \in S
  <2> HIDE DEF T
  <2>1. \A k \in 0..n : k \in T
    BY <1>12, <1>13, Upward
  <2> QED BY <2>1 DEF T
<1>15. Outcome(V, at[n])
  BY <1>14 DEF S
<1>16. PICK y : y = at[n]
  OBVIOUS
<1>17. y.ok => Outcome(y.v, x)
  <2>1. ASSUME y.ok PROVE Outcome(y.v, removeLeaf(y.v, p))
    <3>1. Good(y.v) /\ y.v.freed = {}
      BY <1>15, <1>16, <2>1 DEF Outcome
    <3> QED BY <3>1, RemoveLeafGood
  <2> QED BY <1>16, <2>1
<1>18. ~y.ok => x = failed(y.v)
  BY <1>16
<1>19. Outcome(V, x)
  <2> HIDE DEF x
  <2> QED BY <1>15, <1>16, <1>17, <1>18, Chain
<1> QED BY <1>3, <1>19

\* The directory a new name goes to.
LEMMA ParentOf ==
    ASSUME NEW V, Good(V), V.freed = {}, NEW p \in Seq(Names), p # <<>>
    PROVE  /\ parent(V, p) \in Int
           /\ parent(V, p) > 0 => parent(V, p) \in Recs /\ (~V.lost => parent(V, p) \in inUse(V))
<1>0. V \in Volume /\ (~V.lost => Sound(V))
  BY DEF Good
<1>1. PICK n \in Nums : n = parent(V, p) /\ (Sound(V) /\ n > 0 => n \in inUse(V))
  BY <1>0, FrontOf, LookupPath DEF parent
<1>2. n \in Int /\ (n > 0 => n \in Recs)
  BY DEF Nums, Recs, NotExist, Error, Root, FirstUser
<1> QED BY <1>0, <1>1, <1>2

\* A record in use is written as it is and entered under a path, by Rename and
\* Link.
Entered(V, num, p) == IF parent(V, p) <= 0 THEN failed(V) ELSE rewrittenIn(V, num, parent(V, p), p)

\* Rename writes the record and enters it in the new directory.
LEMMA EnteredGood ==
    ASSUME NEW V, Good(V), V.freed = {}, NEW p \in Seq(Names), p # <<>>,
           NEW num \in Users, ~V.lost => num \in inUse(V)
    PROVE  Outcome(V, Entered(V, num, p))
<1>1. PICK dir \in Int : dir = parent(V, p) /\ (dir > 0 => dir \in Recs /\ (~V.lost => dir \in inUse(V)))
  BY ParentOf
<1> DEFINE y == putRecord(V, num, V.rec[num])
           x == IF y.ok THEN addDirEntry(y.v, dir, Seqs!Last(p), num) ELSE failed(y.v)
<1>2. Entered(V, num, p) = IF dir <= 0 THEN failed(V) ELSE x
  BY <1>1 DEF Entered, rewrittenIn, then
<1>3. Outcome(V, y) /\ y.v.lost = V.lost /\ y.v.rec = V.rec
  <2>1. num \in Recs
    BY DEF Recs, Users
  <2> QED BY <2>1, PutSame
<1> HIDE DEF y
<1>4. ASSUME dir > 0 PROVE Outcome(V, x)
  <2>1. ASSUME y.ok PROVE Outcome(y.v, x)
    <3>1. Good(y.v) /\ y.v.freed = {}
      BY <1>3, <2>1 DEF Outcome
    <3>2. ~y.v.lost => dir \in inUse(y.v) /\ num \in inUse(y.v)
      BY <1>1, <1>3, <1>4 DEF inUse
    <3>3. Seqs!Last(p) \in Names
      BY FrontOf
    <3>4. x = addDirEntry(y.v, dir, Seqs!Last(p), num)
      BY <2>1
    <3> HIDE DEF x
    <3> QED BY <1>1, <1>4, <3>1, <3>2, <3>3, <3>4, AddDirEntry
  <2>2. ~y.ok => x = failed(y.v)
    OBVIOUS
  <2> HIDE DEF x
  <2> QED BY <1>3, <2>1, <2>2, Chain
<1> HIDE DEF x
<1> QED BY <1>2, <1>4, NothingDone

\* Rename: the old entry goes first.
LEMMA RenameGood ==
    ASSUME NEW V, Good(V), V.freed = {}, NEW o \in Seq(Names), o # <<>>, NEW p \in Seq(Names), p # <<>>
    PROVE  Outcome(V, rename(V, o, p))
<1>0. V \in Volume /\ Saved(V) /\ (~V.lost => Sound(V))
  BY DEF Good
<1>1. PICK num \in Int : num = lookupPath(V, o) /\ (num > 0 => num \in Users /\ (~V.lost => num \in inUse(V)))
  BY Lookup
<1> DEFINE y == removeDirEntry(V, o)
           x == IF y.ok THEN Entered(y.v, num, p) ELSE failed(y.v)
<1>2. rename(V, o, p) = IF num <= 0 THEN failed(V) ELSE x
  BY <1>1 DEF rename, then, inParent, Entered
<1>3. IsRemoval(V, o, y)
  BY <1>0, RemoveDirEntry
<1> HIDE DEF y
<1>4. Outcome(V, y) /\ inUse(y.v) = inUse(V) /\ (V.lost => y.v.lost)
  BY <1>0, <1>3 DEF IsRemoval, Outcome, Good, Sound
<1>5. ASSUME num > 0 PROVE Outcome(V, x)
  <2>1. ASSUME y.ok PROVE Outcome(y.v, x)
    <3>1. Good(y.v) /\ y.v.freed = {}
      BY <1>4, <2>1 DEF Outcome
    <3>2. num \in Users /\ (~y.v.lost => num \in inUse(y.v))
      BY <1>1, <1>4, <1>5
    <3>3. x = Entered(y.v, num, p)
      BY <2>1
    <3> HIDE DEF x
    <3> QED BY <3>1, <3>2, <3>3, EnteredGood
  <2>2. ~y.ok => x = failed(y.v)
    OBVIOUS
  <2> HIDE DEF x
  <2> QED BY <1>4, <2>1, <2>2, Chain
<1> HIDE DEF x
<1> QED BY <1>2, <1>5, NothingDone

\* Link: another name for a record.
LEMMA LinkGood ==
    ASSUME NEW V, Good(V), V.freed = {}, NEW o \in Seq(Names), o # <<>>, NEW p \in Seq(Names), p # <<>>
    PROVE  Outcome(V, link(V, o, p))
<1>1. PICK num \in Int : num = lookupPath(V, o) /\ (num > 0 => num \in Users /\ (~V.lost => num \in inUse(V)))
  BY Lookup
<1>2. link(V, o, p) = IF num <= 0 THEN failed(V) ELSE Entered(V, num, p)
  BY <1>1 DEF link, inParent, Entered
<1>3. num > 0 => Outcome(V, Entered(V, num, p))
  BY <1>1, EnteredGood
<1> QED BY <1>2, <1>3, NothingDone

\* Symlink: the new record is written a second time.
LEMMA SymlinkGood ==
    ASSUME NEW V, Good(V), V.freed = {}, NEW p \in Seq(Names), p # <<>>, freeRecs(V) # {}
    PROVE  Outcome(V, symlink(V, p))
<1>1. PICK new \in Recs : new = nextRec(V)
  <2>1. freeRecs(V) \subseteq Nat /\ freeRecs(V) \subseteq Recs
    BY DEF freeRecs, FirstUser, Recs
  <2>2. nextRec(V) \in freeRecs(V)
    BY <2>1, Least DEF nextRec
  <2> QED BY <2>1, <2>2
<1> DEFINE y == createEntry(V, p, FALSE)
           x == IF y.ok THEN putRecord(y.v, new, y.v.rec[new]) ELSE failed(y.v)
<1>2. symlink(V, p) = x
  BY <1>1 DEF symlink, then
<1>3. Outcome(V, y)
  BY CreateEntry
<1> HIDE DEF y
<1>4. ASSUME y.ok PROVE Outcome(y.v, x)
  <2>1. Good(y.v) /\ y.v.freed = {}
    BY <1>3, <1>4 DEF Outcome
  <2>2. x = putRecord(y.v, new, y.v.rec[new])
    BY <1>4
  <2> HIDE DEF x
  <2> QED BY <2>1, <2>2, PutSame
<1>5. ~y.ok => x = failed(y.v)
  OBVIOUS
<1> HIDE DEF x
<1> QED BY <1>2, <1>3, <1>4, <1>5, Chain

\* Chmod and Chtimes.
LEMMA ChmodGood ==
    ASSUME NEW V, Good(V), V.freed = {}, NEW p \in Seq(Names), p # <<>>
    PROVE  Outcome(V, chmod(V, p))
<1>1. PICK num \in Int : num = lookupPath(V, p) /\ (num > 0 => num \in Recs)
  BY Lookup
<1>2. chmod(V, p) = IF num <= 0 THEN failed(V) ELSE putRecord(V, num, V.rec[num])
  BY <1>1 DEF chmod
<1>3. num > 0 => Outcome(V, putRecord(V, num, V.rec[num]))
  BY <1>1, PutSame
<1> QED BY <1>2, <1>3, NothingDone

\* OpenFile: the record of the handle it returns is a record.
LEMMA OpenFileGood ==
    ASSUME NEW V, Good(V), V.freed = {}, NEW p \in Seq(Names), p # <<>>, freeRecs(V) # {},
           NEW num, num = lookupPath(V, p), NEW create \in BOOLEAN, NEW trunc \in BOOLEAN
    PROVE  LET x == openFile(V, p, num, create, trunc)
           IN  Outcome(V, x) /\ (x.ok => x.num \in Recs)
<1>1. /\ num \in Int /\ (num <= 0 => num \in {NotExist, Error})
      /\ num > 0 => num \in Recs /\ (~V.lost => num \in inUse(V))
  BY Lookup
<1>2. PICK new \in Recs : new = nextRec(V)
  <2>1. freeRecs(V) \subseteq Nat /\ freeRecs(V) \subseteq Recs
    BY DEF freeRecs, FirstUser, Recs
  <2>2. nextRec(V) \in freeRecs(V)
    BY <2>1, Least DEF nextRec
  <2> QED BY <2>1, <2>2
<1> DEFINE y == createEntry(V, p, FALSE)
           t == truncateFile(V, num)
           opened(W, n) == [ok |-> TRUE, v |-> W, num |-> n]
           x == openFile(V, p, num, create, trunc)
<1>3. ASSUME NEW W, NEW n \in Recs, NEW z, z.ok, z.v = W, Outcome(V, z)
      PROVE  Outcome(V, opened(W, n)) /\ opened(W, n).num \in Recs
  BY <1>3 DEF Outcome
<1>4. ASSUME NEW W, Outcome(V, failed(W)) PROVE Outcome(V, failed(W)) /\ ~failed(W).ok
  BY <1>4 DEF failed
<1>5. ASSUME NEW z, Outcome(V, z), ~z.ok PROVE Outcome(V, failed(z.v)) /\ ~failed(z.v).ok
  BY <1>5 DEF Outcome, failed
<1>6. CASE num = NotExist /\ create
  <2>1. Outcome(V, y)
    BY CreateEntry
  <2>2. x = IF y.ok THEN opened(y.v, new) ELSE failed(y.v)
    BY <1>2, <1>6 DEF openFile, then, NotExist
  <2> HIDE DEF x, y, opened
  <2>3. Outcome(V, x) /\ (x.ok => x.num \in Recs)
    BY <1>3, <1>5, <2>1, <2>2
  <2> QED BY <2>3 DEF x
<1>7. CASE num > 0 /\ trunc
  <2>1. Outcome(V, t)
    BY <1>1, <1>7, TruncateFile
  <2>2. x = IF t.ok THEN opened(t.v, num) ELSE failed(t.v)
    BY <1>1, <1>7 DEF openFile, then, NotExist
  <2> HIDE DEF x, t, opened
  <2>3. Outcome(V, x) /\ (x.ok => x.num \in Recs)
    BY <1>1, <1>3, <1>5, <1>7, <2>1, <2>2
  <2> QED BY <2>3 DEF x
<1>8. CASE num > 0 /\ ~trunc
  <2>1. Outcome(V, did(V)) /\ did(V).ok /\ did(V).v = V
    BY NothingDone DEF did
  <2>0. ~(num = NotExist /\ create) /\ ~(num > 0 /\ trunc) /\ (num > 0 /\ ~trunc)
    BY <1>1, <1>8 DEF NotExist
  <2>2. x = opened(V, num)
    BY <2>0, Zenon DEF openFile
  <2> HIDE DEF x, opened
  <2>3. Outcome(V, x) /\ (x.ok => x.num \in Recs)
    BY <1>1, <1>3, <1>8, <2>1, <2>2
  <2> QED BY <2>3 DEF x
<1>9. CASE ~(num = NotExist /\ create) /\ ~(num > 0)
  <2>1. x = failed(V)
    BY <1>1, <1>9 DEF openFile
  <2>2. Outcome(V, failed(V)) /\ ~failed(V).ok
    BY NothingDone DEF failed
  <2> HIDE DEF x
  <2> QED BY <2>1, <2>2 DEF x
<1> QED BY <1>1, <1>6, <1>7, <1>8, <1>9


\* Unmount: the bitmaps are written one after another, then the volume is clean.
LEMMA UnmountGood ==
    ASSUME NEW V, Good(V), V.freed = {}
    PROVE  Outcome(V, unmount(V))
<1>0. V \in Volume /\ Saved(V) /\ (~V.lost => Sound(V)) /\ V.io \in Nat /\ V.dirty \in BOOLEAN
  BY DEF Good, Volume
<1> DEFINE w1 == [V EXCEPT !.disk.bitmap = V.bitmap, !.io = @ - 1]
           w2 == [w1 EXCEPT !.disk.mft = fitting(V), !.io = @ - 1]
           w3 == [w2 EXCEPT !.dirty = FALSE]
           Same(W) == W.rec = V.rec /\ W.mft = V.mft /\ W.bitmap = V.bitmap /\ W.cl = V.cl
                      /\ W.lost = V.lost /\ W.freed = V.freed /\ W.mftRoom = V.mftRoom
<1>1. ASSUME NEW W \in Volume, Saved(W), Same(W), NEW b \in BOOLEAN, NEW x, x.ok = b, x.v = W
      PROVE  Outcome(V, x)
  <2>1. Sound(V) => Sound(W)
    BY <1>1, Grown DEF Sound
  <2>2. Good(W) /\ W.freed = {} /\ W.lost = V.lost
    BY <1>0, <1>1, <2>1 DEF Good
  <2> QED BY <1>1, <2>2 DEF Outcome
<1>2. ASSUME V.io > 0, V.dirty
      PROVE  /\ w1 \in Volume /\ Same(w1) /\ w1.io = V.io - 1 /\ w1.dirty = TRUE
             /\ w1.disk.bitmap = V.bitmap /\ w1.disk.mft = V.disk.mft
  <2>1. PICK D \in [bitmap : SUBSET Clusters, mft : SUBSET Recs] :
            D = [V.disk EXCEPT !.bitmap = V.bitmap] /\ D.bitmap = V.bitmap /\ D.mft = V.disk.mft
    <3>1. PICK E \in [bitmap : SUBSET Clusters, mft : SUBSET Recs] : E = V.disk
      BY <1>0 DEF Volume
    <3>2. PICK b \in SUBSET Clusters : b = V.bitmap
      BY <1>0 DEF Volume
    <3>3. /\ [E EXCEPT !.bitmap = b] \in [bitmap : SUBSET Clusters, mft : SUBSET Recs]
          /\ [E EXCEPT !.bitmap = b].bitmap = b /\ [E EXCEPT !.bitmap = b].mft = E.mft
      OBVIOUS
    <3> QED BY <3>1, <3>2, <3>3
  <2>2. PICK i \in Nat : i = V.io - 1
    BY <1>0, <1>2
  <2> DEFINE Z == [V EXCEPT !.disk = D, !.io = i]
  <2>3. /\ Z \in Volume /\ Same(Z) /\ Z.io = i /\ Z.dirty = V.dirty /\ Z.disk = D
    BY <1>0 DEF Volume
  <2>4. Z = w1
    BY <1>0, <2>1, <2>2 DEF Volume
  <2> HIDE DEF Z, w1
  <2> QED BY <1>0, <1>2, <2>1, <2>2, <2>3, <2>4
<1>3. ASSUME V.io > 1, V.dirty
      PROVE  w2 \in Volume /\ Same(w2) /\ w2.dirty = TRUE /\ w2.disk = [bitmap |-> V.bitmap, mft |-> fitting(V)]
  <2>0. V.io > 0
    BY <1>0, <1>3
  <2>1. PICK W : W \in Volume /\ W = w1 /\ Same(W) /\ W.io = V.io - 1 /\ W.dirty = TRUE /\ W.disk.bitmap = V.bitmap
    <3> HIDE DEF w1
    <3> QED BY <1>2, <1>3, <2>0
  <2>2. PICK D \in [bitmap : SUBSET Clusters, mft : SUBSET Recs] :
            D = [W.disk EXCEPT !.mft = fitting(V)] /\ D = [bitmap |-> V.bitmap, mft |-> fitting(V)]
    <3>1. PICK E \in [bitmap : SUBSET Clusters, mft : SUBSET Recs] : E = W.disk /\ E.bitmap = V.bitmap
      BY <2>1 DEF Volume
    <3>2. PICK m \in SUBSET Recs : m = fitting(V)
      BY <1>0 DEF Volume, fitting
    <3>3. /\ [E EXCEPT !.mft = m] \in [bitmap : SUBSET Clusters, mft : SUBSET Recs]
          /\ [E EXCEPT !.mft = m] = [bitmap |-> E.bitmap, mft |-> m]
      OBVIOUS
    <3> QED BY <3>1, <3>2, <3>3
  <2>3. PICK i \in Nat : i = W.io - 1
    BY <1>0, <1>3, <2>1
  <2> DEFINE Z == [W EXCEPT !.disk = D, !.io = i]
  <2>4. /\ Z \in Volume /\ Z.rec = W.rec /\ Z.mft = W.mft /\ Z.bitmap = W.bitmap /\ Z.cl = W.cl
        /\ Z.lost = W.lost /\ Z.freed = W.freed /\ Z.mftRoom = W.mftRoom /\ Z.dirty = W.dirty /\ Z.disk = D
    BY <2>1 DEF Volume
  <2>5. Z = w2
    <3>1. Z = [W EXCEPT !.disk.mft = fitting(V), !.io = @ - 1]
      BY <2>1, <2>2, <2>3 DEF Volume
    <3> HIDE DEF Z, w1
    <3> QED BY <2>1, <3>1
  <2> HIDE DEF Z, w2, w1
  <2> QED BY <2>1, <2>2, <2>4, <2>5
<1>4. ASSUME V.io > 1, V.dirty
      PROVE  w3 \in Volume /\ Same(w3) /\ w3.disk = [bitmap |-> V.bitmap, mft |-> fitting(V)]
  <2>1. PICK W : W \in Volume /\ W = w2 /\ Same(W) /\ W.disk = [bitmap |-> V.bitmap, mft |-> fitting(V)]
    <3> HIDE DEF w2
    <3> QED BY <1>3, <1>4
  <2> DEFINE Z == [W EXCEPT !.dirty = FALSE]
  <2>2. /\ Z \in Volume /\ Z.rec = W.rec /\ Z.mft = W.mft /\ Z.bitmap = W.bitmap /\ Z.cl = W.cl
        /\ Z.lost = W.lost /\ Z.freed = W.freed /\ Z.mftRoom = W.mftRoom /\ Z.disk = W.disk
    <3>1. W \in Volume
      BY <2>1
    <3> QED BY <3>1 DEF Volume
  <2>3. Z = w3
    BY <2>1
  <2> HIDE DEF Z, w3, w2
  <2> QED BY <2>1, <2>2, <2>3
<1> DEFINE x == unmount(V)
<1>5. x = CASE ~V.dirty -> did(V)
            [] V.dirty /\ V.io = 0 -> failed(V)
            [] V.dirty /\ V.io = 1 -> failed(w1)
            [] V.dirty /\ V.io = 2 -> failed(w2)
            [] OTHER -> did(w3)
  BY DEF unmount
<1> HIDE DEF w1, w2, w3
<1>6. CASE ~V.dirty \/ V.io = 0
  <2>1. x = did(V) \/ x = failed(V)
    BY <1>0, <1>5, <1>6
  <2> HIDE DEF x
  <2>2. Outcome(V, x)
    BY <2>1, NothingDone
  <2> QED BY <2>2 DEF x
<1>7. CASE V.dirty /\ V.io = 1
  <2>1. x = failed(w1)
    BY <1>5, <1>7
  <2>2. x.ok = FALSE /\ x.v = w1
    BY <2>1 DEF failed
  <2>3. w1 \in Volume /\ Same(w1) /\ Saved(w1)
    <3>1. V.io > 0 /\ V.dirty
      BY <1>0, <1>7
    <3> QED BY <1>0, <1>2, <3>1 DEF Saved
  <2> HIDE DEF x, Same
  <2>4. Outcome(V, x)
    BY <1>1, <2>2, <2>3
  <2> QED BY <2>4 DEF x
<1>8. CASE V.dirty /\ V.io = 2
  <2>1. x = failed(w2)
    BY <1>5, <1>8
  <2>2. x.ok = FALSE /\ x.v = w2
    BY <2>1 DEF failed
  <2>3. w2 \in Volume /\ Same(w2) /\ Saved(w2)
    <3>1. V.io > 1 /\ V.dirty
      BY <1>0, <1>8
    <3>2. w2 \in Volume /\ Same(w2) /\ w2.disk = [bitmap |-> V.bitmap, mft |-> fitting(V)]
      BY <1>3, <3>1
    <3>3. w2.disk.mft = fitting(V) /\ fitting(w2) = fitting(V) /\ w2.bitmap = V.bitmap
      BY <3>2 DEF fitting
    <3>4. \A n \in w2.disk.mft : n < w2.mftRoom
      BY <3>2, <3>3 DEF fitting
    <3> QED BY <3>2, <3>3, <3>4 DEF Saved
  <2> HIDE DEF x, Same
  <2>4. Outcome(V, x)
    BY <1>1, <2>2, <2>3
  <2> QED BY <2>4 DEF x
<1>9. CASE V.dirty /\ V.io > 2
  <2>1. x = did(w3)
    BY <1>0, <1>5, <1>9
  <2>2. x.ok = TRUE /\ x.v = w3
    BY <2>1 DEF did
  <2>3. w3 \in Volume /\ Same(w3) /\ Saved(w3)
    <3>1. V.io > 1 /\ V.dirty
      BY <1>0, <1>9
    <3>2. w3 \in Volume /\ Same(w3) /\ w3.disk = [bitmap |-> V.bitmap, mft |-> fitting(V)]
      BY <1>4, <3>1
    <3>3. w3.disk.mft = fitting(V) /\ fitting(w3) = fitting(V) /\ w3.bitmap = V.bitmap
      BY <3>2 DEF fitting
    <3>4. \A n \in w3.disk.mft : n < w3.mftRoom
      BY <3>2, <3>3 DEF fitting
    <3> QED BY <3>2, <3>3, <3>4 DEF Saved
  <2> HIDE DEF x, Same
  <2>4. Outcome(V, x)
    BY <1>1, <2>2, <2>3
  <2> QED BY <2>4 DEF x
<1> QED BY <1>0, <1>6, <1>7, <1>8, <1>9

\* The volume read again after the process died: if it was dirty, or has records
\* beyond the room of the bitmap on the disk, it is lost.
LEMMA ReopenGood ==
    ASSUME NEW V, Good(V), V.freed = {}
    PROVE  Good([V EXCEPT !.bitmap = V.disk.bitmap, !.mft = V.disk.mft, !.dirty = FALSE,
                          !.lost = @ \/ V.dirty \/ V.disk.mft # V.mft])
<1>0. V \in Volume /\ Saved(V) /\ (~V.lost => Sound(V)) /\ V.lost \in BOOLEAN /\ V.dirty \in BOOLEAN
  BY DEF Good, Volume
<1>1. PICK l \in BOOLEAN : l = (V.lost \/ V.dirty \/ V.disk.mft # V.mft)
  OBVIOUS
<1> DEFINE W == [V EXCEPT !.bitmap = V.disk.bitmap, !.mft = V.disk.mft, !.dirty = FALSE, !.lost = l]
<1>2. /\ W \in Volume /\ W.rec = V.rec /\ W.cl = V.cl /\ W.lost = l /\ W.disk = V.disk
      /\ W.bitmap = V.disk.bitmap /\ W.mft = V.disk.mft /\ W.mftRoom = V.mftRoom
  BY <1>0 DEF Volume
<1>3. W = [V EXCEPT !.bitmap = V.disk.bitmap, !.mft = V.disk.mft, !.dirty = FALSE,
                     !.lost = @ \/ V.dirty \/ V.disk.mft # V.mft]
  BY <1>1
<1>4. V.disk = [bitmap |-> V.disk.bitmap, mft |-> V.disk.mft]
  BY <1>0 DEF Volume
<1> HIDE DEF W
<1>5. Saved(W)
  <2>1. \A n \in W.disk.mft : n < W.mftRoom
    BY <1>0, <1>2 DEF Saved
  <2>2. fitting(W) = V.disk.mft
    BY <1>2, <2>1 DEF fitting
  <2> QED BY <1>2, <1>4, <2>1, <2>2 DEF Saved
<1>6. ASSUME ~W.lost PROVE Sound(W)
  <2>1. Sound(V) /\ W.bitmap = V.bitmap /\ W.mft = V.mft
    <3>1. ~V.lost /\ ~V.dirty /\ V.disk.mft = V.mft
      BY <1>1, <1>2, <1>6
    <3>2. V.disk.bitmap = V.bitmap
      BY <1>0, <3>1 DEF Saved
    <3> QED BY <1>0, <1>2, <3>1, <3>2
  <2> QED BY <1>2, <2>1, Grown DEF Sound
<1> QED BY <1>2, <1>3, <1>5, <1>6 DEF Good

\* A call returns: what it has freed and not written is lost.
LEMMA Returned ==
    ASSUME Inv, NEW x, Good(x.v), NEW call, NEW p, NEW names, NEW recs, NEW data,
           returns(call, p, x, names, recs, data)
    PROVE  Good(v') /\ v'.freed = {} /\ caller' = caller
<1>1. PICK V \in Volume : V = x.v /\ Good(V)
  BY DEF Good
<1>2. PICK l \in BOOLEAN : l = (V.lost \/ V.freed # {})
  OBVIOUS
<1> DEFINE W == [V EXCEPT !.io = 0, !.freed = {}, !.lost = l]
<1>3. /\ W \in Volume /\ W.rec = V.rec /\ W.cl = V.cl /\ W.lost = l /\ W.disk = V.disk /\ W.freed = {}
      /\ W.bitmap = V.bitmap /\ W.mft = V.mft /\ W.dirty = V.dirty /\ W.mftRoom = V.mftRoom
  BY DEF Volume
<1>4. v' = W
  BY <1>1, <1>2 DEF returns
<1> HIDE DEF W
<1>5. ~W.lost => Sound(W)
  BY <1>1, <1>2, <1>3, Grown DEF Good, Sound
<1>6. Good(W)
  <2>1. Saved(W)
    BY <1>1, <1>3, SavedStill DEF Good
  <2> QED BY <1>3, <1>5, <2>1 DEF Good
<1> QED BY <1>3, <1>4, <1>6 DEF returns

\* The volume as a call finds it.
LEMMA With ==
    ASSUME Inv, NEW k \in caller.io
    PROVE  /\ Good(with(k)) /\ with(k).freed = {} /\ freeRecs(with(k)) = freeRecs(v)
           /\ \A p \in Seq(Names) : lookupPath(with(k), p) = lookupPath(v, p)
<1>1. PICK V \in Volume : V = v /\ Good(V) /\ V.freed = {}
  BY DEF Inv, Good
<1>2. k \in Nat
  BY DEF Inv
<1> DEFINE W == [V EXCEPT !.io = k]
<1>3. /\ W \in Volume /\ W.rec = V.rec /\ W.cl = V.cl /\ W.lost = V.lost /\ W.disk = V.disk /\ W.freed = {}
      /\ W.bitmap = V.bitmap /\ W.mft = V.mft /\ W.dirty = V.dirty /\ W.mftRoom = V.mftRoom
  BY <1>1, <1>2 DEF Volume
<1>4. with(k) = W
  BY <1>1 DEF with
<1> HIDE DEF W
<1>5. ~W.lost => Sound(W)
  BY <1>1, <1>3, Grown DEF Good, Sound
<1>6. Good(W)
  <2>1. Saved(W)
    BY <1>1, <1>3, SavedStill DEF Good
  <2> QED BY <1>3, <1>5, <2>1 DEF Good
<1>7. freeRecs(W) = freeRecs(V)
  BY <1>3 DEF freeRecs
<1>8. \A d \in Recs, name \in Names : lookupInDir(W, d, name) = lookupInDir(V, d, name)
  BY <1>3 DEF lookupInDir, readDirEntries
<1>9. \A p \in Seq(Names) : lookupPath(W, p) = lookupPath(V, p)
  BY <1>3, <1>8, LookupAlike
<1> QED BY <1>1, <1>3, <1>4, <1>6, <1>7, <1>9

\* The paths callers use.
LEMMA PathsAre ==
    ASSUME Inv, NEW p \in Paths
    PROVE  p \in Seq(Names) /\ p # <<>> /\ Len(p) \in {1, 2}
<1>1. caller.names \subseteq Names
  BY DEF Inv
<1>2. \/ \E n \in Names : p = <<n>>
      \/ \E d, n \in Names : p = <<d, n>>
  BY <1>1 DEF Paths
<1>3. ASSUME NEW n \in Names, p = <<n>> PROVE p \in Seq(Names) /\ p # <<>> /\ Len(p) \in {1, 2}
  BY <1>3
<1>4. ASSUME NEW d \in Names, NEW n \in Names, p = <<d, n>>
      PROVE  p \in Seq(Names) /\ p # <<>> /\ Len(p) \in {1, 2}
  BY <1>4
<1> QED BY <1>2, <1>3, <1>4

\* Room for records, as the calls ask for it.
LEMMA Room ==
    ASSUME Inv, NEW n \in {1, 2}, roomForRecords(n)
    PROVE  freeRecs(v) # {} /\ (n = 2 => \A m : freeRecs(v) \ {m} # {})
<1> DEFINE F == freeRecs(v)
<1>1. IsFiniteSet(F) /\ Cardinality(F) \in Nat
  <2>1. IsFiniteSet(FirstUser..MaxRec)
    <3>1. FirstUser \in Int /\ MaxRec \in Int
      BY DEF FirstUser
    <3> QED BY <3>1, FS_Interval
  <2>2. F \subseteq FirstUser..MaxRec
    BY DEF freeRecs
  <2> QED BY <2>1, <2>2, FS_Subset, FS_CardinalityType
<1>2. Cardinality(F) >= n
  BY DEF roomForRecords
<1> HIDE DEF F
<1>3. F # {}
  BY <1>1, <1>2, FS_EmptySet
<1>4. ASSUME n = 2, NEW m, F \ {m} = {} PROVE FALSE
  <2>1. F \subseteq {m}
    BY <1>4
  <2>2. IsFiniteSet({m}) /\ Cardinality({m}) = 1
    BY FS_Singleton
  <2>3. Cardinality(F) <= 1
    BY <2>1, <2>2, FS_Subset
  <2> QED BY <1>1, <1>2, <1>4, <2>3
<1> QED BY <1>3, <1>4 DEF F


\* A call that leaves the handles alone.
LEMMA CallKeepsInv ==
    ASSUME Inv, NEW V, NEW x, Outcome(V, x), NEW call, NEW p, NEW names, NEW recs, NEW data,
           returns(call, p, x, names, recs, data), UNCHANGED handles
    PROVE  Inv'
<1>1. Good(x.v)
  BY DEF Outcome
<1>2. Good(v') /\ v'.freed = {} /\ caller' = caller
  BY <1>1, Returned
<1> QED BY <1>2 DEF Inv

\* The calls on a path keep the invariant.
LEMMA PathCalls ==
    ASSUME Inv, NEW k \in caller.io, NEW p \in Paths,
           \/ \E d \in Contents, resident \in BOOLEAN : WriteFile(p, d, resident, k)
           \/ Mkdir(p, k) \/ MkdirAll(p, k) \/ Remove(p, k) \/ RemoveAll(p, k)
           \/ Symlink(p, k) \/ Chmod(p, k)
           \/ \E o \in Paths : Rename(o, p, k) \/ Link(o, p, k)
    PROVE  Inv'
<1>0. PICK V : V = with(k) /\ Good(V) /\ V.freed = {} /\ freeRecs(V) = freeRecs(v)
  BY With
<1>1. p \in Seq(Names) /\ p # <<>> /\ Len(p) \in {1, 2}
  BY PathsAre
<1>2. ASSUME NEW d \in Contents, NEW resident \in BOOLEAN, WriteFile(p, d, resident, k) PROVE Inv'
  <2>1. freeRecs(V) # {}
    BY <1>0, <1>2, Room DEF WriteFile
  <2>2. Outcome(V, writeFile(V, p, d, resident))
    BY <1>0, <1>1, <2>1, WriteFileGood
  <2> QED BY <1>0, <1>2, <2>2, CallKeepsInv DEF WriteFile
<1>3. CASE Mkdir(p, k)
  <2>1. freeRecs(V) # {}
    BY <1>0, <1>3, Room DEF Mkdir
  <2>2. Outcome(V, mkdir(V, p))
    BY <1>0, <1>1, <2>1, MkdirGood
  <2> QED BY <1>0, <1>3, <2>2, CallKeepsInv DEF Mkdir
<1>4. CASE MkdirAll(p, k)
  <2>1. \A n : freeRecs(V) \ {n} # {}
    BY <1>0, <1>4, Room DEF MkdirAll
  <2>2. Outcome(V, mkdirAll(V, p))
    BY <1>0, <1>1, <2>1, MkdirAllGood
  <2> QED BY <1>0, <1>4, <2>2, CallKeepsInv DEF MkdirAll
<1>5. CASE Remove(p, k)
  <2>1. Outcome(V, remove(V, p))
    BY <1>0, <1>1, RemoveGood
  <2> QED BY <1>0, <1>5, <2>1, CallKeepsInv DEF Remove
<1>6. CASE RemoveAll(p, k)
  <2>1. Outcome(V, removeAll(V, p))
    BY <1>0, <1>1, RemoveAllGood
  <2> QED BY <1>0, <1>6, <2>1, CallKeepsInv DEF RemoveAll
<1>7. CASE Symlink(p, k)
  <2>1. freeRecs(V) # {}
    BY <1>0, <1>7, Room DEF Symlink
  <2>2. Outcome(V, symlink(V, p))
    BY <1>0, <1>1, <2>1, SymlinkGood
  <2> QED BY <1>0, <1>7, <2>2, CallKeepsInv DEF Symlink
<1>8. CASE Chmod(p, k)
  <2>1. Outcome(V, chmod(V, p))
    BY <1>0, <1>1, ChmodGood
  <2> QED BY <1>0, <1>8, <2>1, CallKeepsInv DEF Chmod
<1>9. ASSUME NEW o \in Paths, Rename(o, p, k) PROVE Inv'
  <2>1. o \in Seq(Names) /\ o # <<>>
    BY PathsAre
  <2>2. Outcome(V, rename(V, o, p))
    BY <1>0, <1>1, <2>1, RenameGood
  <2> QED BY <1>0, <1>9, <2>2, CallKeepsInv DEF Rename
<1>10. ASSUME NEW o \in Paths, Link(o, p, k) PROVE Inv'
  <2>1. o \in Seq(Names) /\ o # <<>>
    BY PathsAre
  <2>2. Outcome(V, link(V, o, p))
    BY <1>0, <1>1, <2>1, LinkGood
  <2> QED BY <1>0, <1>10, <2>2, CallKeepsInv DEF Link
<1> QED BY <1>2, <1>3, <1>4, <1>5, <1>6, <1>7, <1>8, <1>9, <1>10

\* Opening, writing and closing a handle keeps the invariant, also when the
\* handle's record has been freed since.
LEMMA HandleCalls ==
    ASSUME Inv,
           \/ \E k \in caller.io, p \in Paths, create \in BOOLEAN, trunc \in BOOLEAN : OpenFile(p, create, trunc, k)
           \/ \E k \in caller.io, h \in 1..Len(handles), resident \in BOOLEAN : Close(h, resident, k)
           \/ \E h \in 1..Len(handles), d \in Contents : Write(h, d)
    PROVE  Inv'
<1>0. handles \in Seq(Handle) /\ caller \in Callers /\ Good(v) /\ v.freed = {}
  BY DEF Inv
<1>1. ASSUME NEW k \in caller.io, NEW p \in Paths, NEW create \in BOOLEAN, NEW trunc \in BOOLEAN,
             OpenFile(p, create, trunc, k)
      PROVE  Inv'
  <2>0. PICK V : V = with(k) /\ Good(V) /\ V.freed = {} /\ freeRecs(V) = freeRecs(v)
    BY With
  <2>1. p \in Seq(Names) /\ p # <<>>
    BY PathsAre
  <2>2. freeRecs(V) # {}
    BY <1>1, <2>0, Room DEF OpenFile
  <2>3. PICK num : num = lookupPath(v, p) /\ num = lookupPath(V, p)
    BY <2>0, <2>1, With
  <2> DEFINE x == openFile(V, p, num, create, trunc)
  <2>4. Outcome(V, x) /\ (x.ok => x.num \in Recs)
    BY <2>0, <2>1, <2>2, <2>3, OpenFileGood
  <2>5. /\ handles' = IF x.ok THEN Append(handles, [num |-> x.num, buf |-> {}]) ELSE handles
        /\ returns("OpenFile", p, x, {target(v, p)}, {num}, <<>>)
    BY <1>1, <2>0, <2>3 DEF OpenFile
  <2> HIDE DEF x
  <2>6. Good(v') /\ v'.freed = {} /\ caller' = caller
    BY <2>4, <2>5, Returned DEF Outcome
  <2>7. handles' \in Seq(Handle)
    <3>1. CASE x.ok
      <4>1. PICK h \in Handle : h = [num |-> x.num, buf |-> {}]
        <5>1. [num |-> x.num, buf |-> {}] \in Handle
          BY <2>4, <3>1 DEF Handle
        <5> QED BY <5>1
      <4> QED BY <1>0, <2>5, <3>1, <4>1
    <3>2. CASE ~x.ok
      BY <1>0, <2>5, <3>2
    <3> QED BY <3>1, <3>2
  <2> QED BY <1>0, <2>6, <2>7 DEF Inv
<1>2. ASSUME NEW k \in caller.io, NEW h \in 1..Len(handles), NEW resident \in BOOLEAN, Close(h, resident, k)
      PROVE  Inv'
  <2>0. PICK V : V = with(k) /\ Good(V) /\ V.freed = {}
    BY With
  <2>1. PICK f \in Handle : f = handles[h]
    BY <1>0
  <2>2. handles' \in Seq(Handle)
    BY <1>0, <1>2, RemovedAt DEF Close
  <2>3. CASE returns("Close", <<>>, did(v), {}, {}, <<>>)
    <3>1. Good(did(v).v)
      BY <1>0 DEF did
    <3>2. Good(v') /\ v'.freed = {} /\ caller' = caller
      BY <2>3, <3>1, Returned
    <3> QED BY <1>0, <2>2, <3>2 DEF Inv
  <2>4. CASE ~returns("Close", <<>>, did(v), {}, {}, <<>>)
    <3> DEFINE d == CHOOSE b \in f.buf : TRUE
               x == writeFileData(V, f.num, d, resident)
    <3>1. f.buf # {} /\ returns("Close", <<>>, x, {}, {f.num}, <<>>)
      BY <1>2, <2>0, <2>1, <2>4 DEF Close
    <3>2. f.num \in Recs /\ d \in Contents
      BY <2>1, <3>1 DEF Handle
    <3> HIDE DEF d
    <3>3. Outcome(V, x)
      BY <2>0, <3>2, WriteFileData
    <3> HIDE DEF x
    <3>4. Good(v') /\ v'.freed = {} /\ caller' = caller
      BY <3>1, <3>3, Returned DEF Outcome
    <3> QED BY <1>0, <2>2, <3>4 DEF Inv
  <2> QED BY <2>3, <2>4
<1>3. ASSUME NEW h \in 1..Len(handles), NEW d \in Contents, Write(h, d) PROVE Inv'
  <2>1. handles' = [handles EXCEPT ![h].buf = {d}] /\ returns("Write", <<>>, did(v), {}, {}, <<>>)
    BY <1>3 DEF Write
  <2>2. Good(did(v).v)
    BY <1>0 DEF did
  <2>3. Good(v') /\ v'.freed = {} /\ caller' = caller
    BY <2>1, <2>2, Returned
  <2>4. PICK f \in Handle : f = handles[h]
    BY <1>0
  <2>5. PICK g \in Handle : g = [f EXCEPT !.buf = {d}]
    <3>1. [f EXCEPT !.buf = {d}] \in Handle
      BY DEF Handle
    <3> QED BY <3>1
  <2>6. handles' = [handles EXCEPT ![h] = g]
    BY <2>1, <2>4, <2>5
  <2>7. handles' \in Seq(Handle)
    BY <1>0, <2>6
  <2> QED BY <1>0, <2>3, <2>7 DEF Inv
<1> QED BY <1>1, <1>2, <1>3

\* Unmount and the death of the process keep the invariant.
LEMMA VolumeCalls ==
    ASSUME Inv, (\E k \in caller.io : Unmount(k)) \/ Reopen
    PROVE  Inv'
<1>0. caller \in Callers /\ Good(v) /\ v.freed = {}
  BY DEF Inv
<1>1. ASSUME NEW k \in caller.io, Unmount(k) PROVE Inv'
  <2>0. PICK V : V = with(k) /\ Good(V) /\ V.freed = {}
    BY With
  <2>1. Outcome(V, unmount(V))
    BY <2>0, UnmountGood
  <2> QED BY <1>1, <2>0, <2>1, CallKeepsInv DEF Unmount
<1>2. CASE Reopen
  <2> DEFINE W == [v EXCEPT !.bitmap = v.disk.bitmap, !.mft = v.disk.mft, !.dirty = FALSE,
                            !.lost = @ \/ v.dirty \/ v.disk.mft # v.mft]
  <2>1. Good(W)
    BY <1>0, ReopenGood
  <2>2. returns("Reopen", <<>>, did(W), {}, {}, <<>>) /\ handles' = <<>>
    BY <1>2 DEF Reopen
  <2> HIDE DEF W
  <2>3. Good(did(W).v)
    BY <2>1 DEF did
  <2>4. Good(v') /\ v'.freed = {} /\ caller' = caller
    BY <2>2, <2>3, Returned
  <2> QED BY <1>0, <2>2, <2>4 DEF Inv
<1> QED BY <1>1, <1>2

-----------------------------------------------------------------------------
(***************************************************************************)
(* The theorems.                                                           *)
(***************************************************************************)

\* A volume as it is opened: the root directory, empty.
LEMMA InitInv == Init => Inv
<1> SUFFICES ASSUME Init PROVE Inv
  OBVIOUS
<1>0. caller \in Callers /\ caller.rootCap \in Nat /\ handles = <<>>
      /\ caller.mftRoom \in Nat /\ caller.mftRoom >= FirstUser
  BY DEF Init
<1>1. PICK none : none = <<>> /\ Elems(none) = {} /\ Distinct(none)
  <2>1. Len(<<>>) = 0 /\ 1..0 = {}
    OBVIOUS
  <2> QED BY <2>1 DEF Elems, Distinct
<1>2. PICK top \in Record : top = newRecord(TRUE) /\ top.use = TRUE /\ top.root = none /\ top.ia = none /\ top.data.cs = none
  <2>1. newRecord(TRUE) \in Record
    BY DEF newRecord, NoData, Record, Data
  <2> QED BY <1>1, <2>1 DEF newRecord, NoData
<1>3. PICK off \in Record : off = NoRecord /\ off.use = FALSE
  <2>0. PICK r \in Record : r = newRecord(FALSE)
    <3>1. newRecord(FALSE) \in Record
      BY DEF newRecord, NoData, Record, Data
    <3> QED BY <3>1
  <2>1. NoRecord \in Record /\ NoRecord.use = FALSE
    BY <2>0 DEF NoRecord, Record
  <2> QED BY <2>1
<1>4. PICK raw \in Chunk : raw = Raw
  <2>1. Raw \in Chunk
    BY DEF Raw, Chunk, Ids
  <2> QED BY <2>1
<1>5. Root \in Recs
  BY DEF Recs
<1>6. v = [rec |-> [n \in Recs |-> IF n = Root THEN top ELSE off], mft |-> {Root}, bitmap |-> {},
           cl |-> [c \in Clusters |-> raw], dirty |-> FALSE, disk |-> [bitmap |-> {}, mft |-> {Root}],
           rootCap |-> caller.rootCap, mftRoom |-> caller.mftRoom, io |-> 0, freed |-> {}, lost |-> FALSE]
  BY <1>2, <1>3, <1>4 DEF Init
<1>7. v \in Volume
  BY <1>0, <1>5, <1>6 DEF Volume
<1>8. Saved(v)
  <2>1. Root < caller.mftRoom
    BY <1>0 DEF Root, FirstUser
  <2> QED BY <1>6, <2>1 DEF Saved, fitting
<1>9. inUse(v) = {Root} /\ v.rec[Root] = top
  BY <1>2, <1>3, <1>5, <1>6 DEF inUse
<1>10. Listed(top) = {} /\ Tidy(top) /\ Held(v.cl, top) = {}
  BY <1>1, <1>2 DEF Listed, Tidy, Held
<1>11. Sound(v)
  <2>1. v.mft = {Root}
    BY <1>6
  <2>2. Apart(v, inUse(v) \ {Root, NotExist}, top) /\ Leads(v, NotExist, top)
    BY <1>9, <1>10 DEF Apart, Leads
  <2> QED BY <1>9, <2>1, <2>2 DEF Sound, SoundBut
<1>12. v.freed = {} /\ handles \in Seq(Handle)
  BY <1>0, <1>6
<1> QED BY <1>0, <1>7, <1>8, <1>11, <1>12 DEF Inv, Good

\* Every step keeps the invariant.
LEMMA NextInv == Inv /\ [Next]_vars => Inv'
<1> SUFFICES ASSUME Inv, [Next]_vars PROVE Inv'
  OBVIOUS
<1>1. CASE UNCHANGED vars
  BY <1>1 DEF Inv, vars
<1>2. CASE Finished
  BY <1>2 DEF Finished, Inv, vars
<1>3. CASE Next /\ ~Finished
  <2>1. \/ \E k \in caller.io : \E p \in Paths :
              \/ \E d \in Contents, resident \in BOOLEAN : WriteFile(p, d, resident, k)
              \/ Mkdir(p, k) \/ MkdirAll(p, k) \/ Remove(p, k) \/ RemoveAll(p, k)
              \/ Symlink(p, k) \/ Chmod(p, k)
              \/ \E o \in Paths : Rename(o, p, k) \/ Link(o, p, k)
        \/ \E k \in caller.io, p \in Paths, create \in BOOLEAN, trunc \in BOOLEAN : OpenFile(p, create, trunc, k)
        \/ \E k \in caller.io, h \in 1..Len(handles), resident \in BOOLEAN : Close(h, resident, k)
        \/ \E h \in 1..Len(handles), d \in Contents : Write(h, d)
        \/ (\E k \in caller.io : Unmount(k)) \/ Reopen
    BY <1>3, Zenon DEF Next
  <2>2. CASE \E k \in caller.io : \E p \in Paths :
                \/ \E d \in Contents, resident \in BOOLEAN : WriteFile(p, d, resident, k)
                \/ Mkdir(p, k) \/ MkdirAll(p, k) \/ Remove(p, k) \/ RemoveAll(p, k)
                \/ Symlink(p, k) \/ Chmod(p, k)
                \/ \E o \in Paths : Rename(o, p, k) \/ Link(o, p, k)
    BY <2>2, PathCalls, Zenon
  <2> QED BY <2>1, <2>2, HandleCalls, VolumeCalls, Zenon
<1> QED BY <1>1, <1>2, <1>3

\* The invariant holds in every state: whichever writes fail, each call leaves a
\* volume that is good, or is known to be lost.
THEOREM InvCorrect == Spec => []Inv
<1>1. Init => Inv
  BY InitInv
<1>2. Inv /\ [Next]_vars => Inv'
  BY NextInv
<1> QED BY <1>1, <1>2, PTL DEF Spec

\* Unless lost, no cluster belongs to two records, or twice to one, and none is
\* free in the bitmap: allocation, spilling and repacking write to clusters of
\* nobody else, and a late Close (flushFileWrite) takes none that is given away.
THEOREM NoSharedClusterCorrect == Spec => []NoSharedCluster
<1>1. Inv => NoSharedCluster
  <2> SUFFICES ASSUME Inv, ~v.lost, NEW x \in owners
               PROVE  /\ clusterOf(x) \in v.bitmap
                      /\ \A y \in owners : clusterOf(x) = clusterOf(y) => x = y
    BY DEF NoSharedCluster
  <2>0. v \in Volume /\ Sound(v)
    BY DEF Inv, Good
  <2> DEFINE list(n, s) == IF s = "ia" THEN v.rec[n].ia ELSE v.rec[n].data.cs
  <2>1. ASSUME NEW y \in owners
        PROVE  \E n \in inUse(v), s \in {"data", "ia"} : \E i \in 1..Len(list(n, s)) :
                  y = <<n, s, i>> /\ clusterOf(y) = list(n, s)[i]
    <3>1. PICK n \in inUse(v), s \in {"data", "ia"}, i \in 1..NumClusters :
              y = <<n, s, i>> /\ i <= Len(list(n, s))
      BY DEF owners
    <3>2. clusterOf(y) = list(n, s)[i]
      BY <3>1 DEF clusterOf
    <3>3. list(n, s) \in Seq(Clusters)
      BY <2>0 DEF inUse, Volume, Record, Data
    <3>4. i \in 1..Len(list(n, s))
      BY <3>1, <3>3
    <3> HIDE DEF list
    <3> QED BY <3>1, <3>2, <3>4
  <2>2. ASSUME NEW n \in inUse(v), NEW s \in {"data", "ia"}, NEW i \in 1..Len(list(n, s))
        PROVE  list(n, s)[i] \in Elems(list(n, s)) /\ Elems(list(n, s)) \subseteq Listed(v.rec[n])
    BY DEF Elems, Listed
  <2>3. ASSUME NEW n \in inUse(v)
        PROVE  /\ Tidy(v.rec[n]) /\ Listed(v.rec[n]) \subseteq v.bitmap
               /\ \A m \in inUse(v) : m # n => Listed(v.rec[m]) \cap Listed(v.rec[n]) = {}
    BY <2>0, LeaveOut DEF Apart, inUse
  <2>4. PICK n \in inUse(v), s \in {"data", "ia"} : \E i \in 1..Len(list(n, s)) :
            x = <<n, s, i>> /\ clusterOf(x) = list(n, s)[i]
    BY <2>1
  <2>5. PICK i \in 1..Len(list(n, s)) : x = <<n, s, i>> /\ clusterOf(x) = list(n, s)[i]
    BY <2>4
  <2>6. clusterOf(x) \in v.bitmap
    <3> HIDE DEF list
    <3> QED BY <2>2, <2>3, <2>5
  <2>7. ASSUME NEW y \in owners, clusterOf(x) = clusterOf(y) PROVE x = y
    <3>1. PICK m \in inUse(v), t \in {"data", "ia"} : \E j \in 1..Len(list(m, t)) :
              y = <<m, t, j>> /\ clusterOf(y) = list(m, t)[j]
      BY <2>1
    <3>2. PICK j \in 1..Len(list(m, t)) : y = <<m, t, j>> /\ clusterOf(y) = list(m, t)[j]
      BY <3>1
    <3>3. list(n, s)[i] = list(m, t)[j]
      BY <2>5, <2>7, <3>2
    <3>4. m = n
      <4> HIDE DEF list
      <4> QED BY <2>2, <2>3, <3>3
    <3>5. s = t
      <4>1. PICK c : c \in Elems(list(n, s)) /\ c \in Elems(list(n, t))
        <5> HIDE DEF list
        <5> QED BY <2>2, <3>3, <3>4
      <4>2. Elems(list(n, "data")) \cap Elems(list(n, "ia")) = {}
        BY <2>3 DEF Tidy
      <4> HIDE DEF list
      <4> QED BY <4>1, <4>2
    <3>6. i = j
      <4>1. Distinct(list(n, s))
        BY <2>3 DEF Tidy
      <4> HIDE DEF list
      <4> QED BY <3>3, <3>4, <3>5, <4>1 DEF Distinct
    <3> QED BY <2>5, <3>2, <3>4, <3>5, <3>6
  <2> QED BY <2>6, <2>7
<1> QED BY <1>1, InvCorrect, PTL

\* Unless lost, every name leads to a record in use whose bit is set, whether its
\* entry is in the directory's record or in an INDX block: createEntry writes the
\* record before the name, and a record freed before its name is unreachable.
THEOREM NamesResolveCorrect == Spec => []NamesResolve
<1>1. Inv => NamesResolve
  <2> SUFFICES ASSUME Inv, ~v.lost, NEW d \in inUse(v), NEW e \in Seqs!ToSet(readDirEntries(v, d))
               PROVE  v.rec[e.num].use /\ e.num \in v.mft
    BY DEF NamesResolve
  <2>0. v \in Volume /\ Sound(v) /\ d \in Recs
    BY DEF Inv, Good, inUse
  <2>1. readDirEntries(v, d) \in Seq(Entry) /\ Elems(readDirEntries(v, d)) = Held(v.cl, v.rec[d])
    BY <2>0, ReadDirEntries
  <2>2. e \in Held(v.cl, v.rec[d])
    BY <2>1, ToSetElems
  <2>3. e.num \in inUse(v)
    <3>1. Leads(v, d, v.rec[d])
      BY <2>0, LeaveOut
    <3> QED BY <2>2, <3>1 DEF Leads
  <2>4. e.num \in v.mft
    BY <2>0, <2>3, LeaveOut DEF inUse
  <2> QED BY <2>3, <2>4 DEF inUse
<1> QED BY <1>1, InvCorrect, PTL

\* A volume that is not dirty has its cluster bitmap on the disk, and its MFT
\* bitmap as far as $BITMAP has room: Unmount may return at once, and a volume
\* opened again is as it was unless it has records beyond that room, which
\* flushMFTBitmap drops.
THEOREM CleanMeansSavedCorrect == Spec => []CleanMeansSaved
<1>1. Inv => CleanMeansSaved
  BY DEF Inv, Good, Saved, CleanMeansSaved
<1> QED BY <1>1, InvCorrect, PTL
=============================================================================
