-------------------------- MODULE RegionMapProofs --------------------------
(***************************************************************************)
(* Proofs about buildRegions for every sector size, every file size and    *)
(* every partition table, of any length.                                   *)
(***************************************************************************)
EXTENDS RegionMap, SequenceTheorems, TLAPS

-----------------------------------------------------------------------------
(***************************************************************************)
(* Type correctness.                                                       *)
(***************************************************************************)

\* Whatever order sort.Slice leaves equal starts in, the result is a list of
\* spans as long as the partition list.
LEMMA SortingsType ==
    ASSUME NEW parts \in Seq(Partition), NEW s \in sortings(parts)
    PROVE  s \in Seq(Span)
<1>1. PICK f \in [DOMAIN parts -> DOMAIN parts] :
          s = [i \in DOMAIN parts |-> spanOf(parts[f[i]])]
  BY DEF sortings
<1>2. \A i \in DOMAIN parts : parts[f[i]] \in Partition
  BY ElementOfSeq
<1>3. \A i \in DOMAIN parts : spanOf(parts[f[i]]) \in Span
  BY <1>2 DEF spanOf, Span, Partition
<1>4. DOMAIN parts = 1..Len(parts) /\ Len(parts) \in Nat
  OBVIOUS
<1> QED
  BY <1>1, <1>3, <1>4, IsASeq

\* Emitting a gap keeps a list of regions a list of regions.
LEMMA FillToType ==
    ASSUME TypeOK, NEW e \in Int
    PROVE  fillTo(e) \in Seq(Region)
<1>1. gap(cursor, e) \in Region
  BY DEF TypeOK, gap, Region, Kinds
<1> QED
  BY <1>1 DEF TypeOK, fillTo

\* The end of the boot region is an integer, whatever the table.
LEMMA BootLimitType ==
    ASSUME NEW ss \in Seq(Span), NEW g \in BOOLEAN
    PROVE  bootLimit(ss, g) \in Int
<1>1. CASE ss = <<>>
  BY <1>1, RegionMapAssumption DEF bootLimit
<1>2. CASE ss # <<>>
  <2>1. ss[1] \in Span
    BY <1>2, EmptySeq, LenProperties
  <2> QED
    BY <2>1, RegionMapAssumption DEF bootLimit, Span
<1> QED
  BY <1>1, <1>2

\* Nothing is emitted before the spans are sorted and the boot region is known.
NotStarted == pc \in {"sort", "boot"} => k = 0 /\ regions = <<>>

\* buildRegions begins well typed, with nothing emitted.
LEMMA TypeInitially ==
    Init => TypeOK /\ NotStarted
BY RegionMapAssumption, EmptySeq DEF Init, TypeOK, NotStarted

\* No region is emitted before the spans are sorted.
LEMMA NotStartedStep ==
    TypeOK /\ NotStarted /\ [Next]_vars => NotStarted'
BY DEF TypeOK, NotStarted, Next, vars, SortSpans, EmitBoot, EmitSpan, EmitTail, Done

\* Every step of buildRegions keeps the types.
LEMMA TypeStep ==
    TypeOK /\ NotStarted /\ [Next]_vars => TypeOK'
<1> SUFFICES ASSUME TypeOK, NotStarted, [Next]_vars PROVE TypeOK'
  OBVIOUS
<1> USE RegionMapAssumption
<1>1. CASE SortSpans
  <2>1. spans' \in Seq(Span)
    BY <1>1, SortingsType DEF SortSpans, TypeOK
  <2>2. k' \in 0..Len(spans')
    BY <1>1, <2>1, LenProperties DEF SortSpans, NotStarted
  <2> QED
    BY <1>1, <2>1, <2>2 DEF SortSpans, TypeOK
<1>2. CASE EmitBoot
  <2> DEFINE b == bootLimit(spans, in.isGPT)
  <2>1. b \in Int
    BY BootLimitType DEF TypeOK
  <2>2. boot(b) \in Region
    BY <2>1 DEF boot, Region, Kinds
  <2>3. regions' \in Seq(Region)
    BY <1>2, <2>2, EmptySeq DEF EmitBoot
  <2> HIDE DEF b
  <2>4. cursor' \in Int
    BY <1>2, <2>1 DEF EmitBoot, b
  <2> QED
    BY <1>2, <2>3, <2>4 DEF EmitBoot, TypeOK
<1>3. CASE EmitSpan
  <2>1. spans[k + 1] \in Span
    BY <1>3 DEF EmitSpan, TypeOK
  <2>2. part(spans[k + 1]) \in Region
    BY <2>1 DEF part, Region, Kinds, Span
  <2>3. fillTo(spans[k + 1].start) \in Seq(Region)
    BY <2>1, FillToType DEF Span
  <2>4. regions' \in Seq(Region)
    BY <1>3, <2>2, <2>3, AppendProperties DEF EmitSpan
  <2>5. cursor' \in Int
    BY <1>3, <2>1 DEF EmitSpan, Span
  <2> QED
    BY <1>3, <2>4, <2>5 DEF EmitSpan, TypeOK
<1>4. CASE EmitTail
  <2>1. in.size \in Int /\ in.size - SectorSize \in Int
    BY DEF TypeOK
  <2>2. backup(in.size - SectorSize, in.size) \in Region
    BY <2>1 DEF backup, Region, Kinds
  <2>3. tailRegions \in Seq(Region)
    BY <2>1, <2>2, FillToType, AppendProperties DEF tailRegions
  <2> QED
    BY <1>4, <2>3 DEF EmitTail, TypeOK
<1>5. CASE Done \/ UNCHANGED vars
  BY <1>5 DEF Done, vars, TypeOK
<1> QED
  BY <1>1, <1>2, <1>3, <1>4, <1>5 DEF Next

\* Every variable of the loop keeps its type, and the loop index never leaves
\* the partition list.
THEOREM TypeCorrect ==
    Spec => [](TypeOK /\ NotStarted)
BY TypeInitially, TypeStep, NotStartedStep, PTL DEF Spec

-----------------------------------------------------------------------------
(***************************************************************************)
(* Coverage.  The bytes below the cursor are always covered: a partition   *)
(* that starts above the cursor is preceded by a gap, one that starts      *)
(* below it overlaps what is covered already, and one that ends below it   *)
(* moves the cursor back, which only makes the claim weaker.               *)
(***************************************************************************)

CoveredBy(rs, b) == \E i \in 1..Len(rs) : rs[i].start <= b /\ b < rs[i].end

CoveredToCursor == pc = "spans" => \A b \in 0..(cursor - 1) : covers(b)

\* Appending a region keeps what was covered and adds the region's bytes.
LEMMA CoveredAppend ==
    ASSUME NEW rs \in Seq(Region), NEW r \in Region, NEW b \in Int,
           CoveredBy(rs, b) \/ (r.start <= b /\ b < r.end)
    PROVE  CoveredBy(Append(rs, r), b)
<1>1. CASE CoveredBy(rs, b)
  <2>1. PICK i \in 1..Len(rs) : rs[i].start <= b /\ b < rs[i].end
    BY <1>1 DEF CoveredBy
  <2>2. i \in 1..Len(Append(rs, r)) /\ Append(rs, r)[i] = rs[i]
    BY <2>1, AppendProperties, LenProperties
  <2> QED
    BY <2>1, <2>2 DEF CoveredBy
<1>2. CASE r.start <= b /\ b < r.end
  <2>1. /\ Len(rs) + 1 \in 1..Len(Append(rs, r))
        /\ Append(rs, r)[Len(rs) + 1] = r
    BY AppendProperties, LenProperties
  <2> QED
    BY <1>2, <2>1 DEF CoveredBy
<1> QED
  BY <1>1, <1>2

\* After fillTo(e) the bytes below e are covered as well.
LEMMA FillToCovers ==
    ASSUME TypeOK, NEW e \in Int,
           \A b \in 0..(cursor - 1) : CoveredBy(regions, b)
    PROVE  /\ \A b \in 0..(cursor - 1) : CoveredBy(fillTo(e), b)
           /\ \A b \in 0..(e - 1) : CoveredBy(fillTo(e), b)
<1>1. CASE e > cursor
  <2>1. fillTo(e) = Append(regions, gap(cursor, e))
    BY <1>1 DEF fillTo
  <2>2. gap(cursor, e) \in Region
    BY DEF TypeOK, gap, Region, Kinds
  <2>3. ASSUME NEW b \in 0..(e - 1)
        PROVE  CoveredBy(regions, b) \/ (gap(cursor, e).start <= b /\ b < gap(cursor, e).end)
    BY <2>3 DEF TypeOK, gap
  <2>4. \A b \in 0..(e - 1) : CoveredBy(fillTo(e), b)
    BY <2>1, <2>2, <2>3, CoveredAppend DEF TypeOK
  <2> QED
    BY <1>1, <2>4 DEF TypeOK
<1>2. CASE ~(e > cursor)
  BY <1>2 DEF fillTo, TypeOK
<1> QED
  BY <1>1, <1>2

\* Every step of buildRegions keeps what is below the cursor covered.
LEMMA CoverStep ==
    ASSUME TypeOK, NotStarted, CoveredToCursor, CopiesEveryByte, [Next]_vars
    PROVE  CoveredToCursor' /\ CopiesEveryByte'
<1> USE RegionMapAssumption
<1>1. CASE SortSpans
  BY <1>1 DEF SortSpans, CoveredToCursor, CopiesEveryByte
<1>2. CASE EmitBoot
  <2> DEFINE e == bootLimit(spans, in.isGPT)
  <2>1. e \in Int
    BY BootLimitType DEF TypeOK
  <2>2. cursor' = e /\ pc' = "spans" /\ regions' = (IF e > 0 THEN <<boot(e)>> ELSE <<>>)
    BY <1>2 DEF EmitBoot
  <2> HIDE DEF e
  <2>3. ASSUME NEW b \in 0..(e - 1) PROVE covers(b)'
    <3>1. regions' = <<boot(e)>>
      BY <2>1, <2>2, <2>3
    <3>2. 1 \in 1..Len(regions') /\ regions'[1] = boot(e)
      BY <3>1
    <3> QED
      BY <2>1, <2>3, <3>2 DEF covers, boot
  <2> QED
    BY <2>2, <2>3 DEF CoveredToCursor, CopiesEveryByte
<1>3. CASE EmitSpan
  <2> DEFINE s == spans[k + 1]
  <2>1. s \in Span
    BY <1>3 DEF EmitSpan, TypeOK
  <2>2. /\ regions' = Append(fillTo(s.start), part(s))
        /\ cursor' = s.end
        /\ pc = "spans" /\ pc' = "spans"
    BY <1>3 DEF EmitSpan
  <2>3. s.start \in Int /\ s.end \in Int
    BY <2>1 DEF Span
  <2>4. part(s) \in Region /\ part(s).start = s.start /\ part(s).end = s.end
    BY <2>1 DEF part, Region, Kinds, Span
  <2>5. fillTo(s.start) \in Seq(Region)
    BY <2>3, FillToType
  <2>6. \A b \in 0..(s.start - 1) : CoveredBy(fillTo(s.start), b)
    BY <2>2, <2>3, FillToCovers DEF CoveredToCursor, covers, CoveredBy
  <2> HIDE DEF s
  <2>7. ASSUME NEW b \in 0..(s.end - 1) PROVE CoveredBy(regions', b)
    <3>1. CoveredBy(fillTo(s.start), b) \/ (part(s).start <= b /\ b < part(s).end)
      BY <2>3, <2>4, <2>6, <2>7
    <3> QED
      BY <2>2, <2>3, <2>4, <2>5, <3>1, CoveredAppend
  <2> QED
    BY <2>2, <2>7 DEF CoveredToCursor, CopiesEveryByte, covers, CoveredBy
<1>4. CASE EmitTail
  <2>1. pc = "spans" /\ pc' = "done" /\ regions' = tailRegions /\ in' = in
    BY <1>4 DEF EmitTail
  <2>2. \A e \in Int : \A b \in 0..(e - 1) : CoveredBy(fillTo(e), b)
    BY <2>1, FillToCovers DEF CoveredToCursor, covers, CoveredBy
  <2>3. in.size \in Nat
    BY DEF TypeOK
  <2>4. ASSUME NEW b \in 0..(in.size - 1) PROVE CoveredBy(tailRegions, b)
    <3>1. CASE in.isGPT /\ in.size > 0
      <4> DEFINE t == in.size - SectorSize
      <4>1. t \in Int
        BY <2>3
      <4>2. /\ backup(t, in.size) \in Region
            /\ backup(t, in.size).start = t /\ backup(t, in.size).end = in.size
        BY <2>3, <4>1 DEF backup, Region, Kinds
      <4>3. CoveredBy(fillTo(t), b) \/ (t <= b /\ b < in.size)
        BY <2>2, <2>3, <4>1
      <4>4. fillTo(t) \in Seq(Region)
        BY <4>1, FillToType
      <4>5. tailRegions = Append(fillTo(t), backup(t, in.size))
        BY <3>1 DEF tailRegions
      <4> HIDE DEF t
      <4> QED
        BY <4>2, <4>3, <4>4, <4>5, CoveredAppend
    <3>2. CASE ~(in.isGPT /\ in.size > 0)
      BY <3>2, <2>2, <2>3 DEF tailRegions
    <3> QED
      BY <3>1, <3>2
  <2> QED
    BY <2>1, <2>4 DEF CoveredToCursor, CopiesEveryByte, covers, CoveredBy
<1>5. CASE Done \/ UNCHANGED vars
  BY <1>5 DEF Done, vars, CoveredToCursor, CopiesEveryByte, covers
<1> QED
  BY <1>1, <1>2, <1>3, <1>4, <1>5 DEF Next

\* For every partition table the parsers can return, the finished region map
\* covers every byte of the image, so Detach's copy misses nothing.
THEOREM CoverageCorrect ==
    Spec => []CopiesEveryByte
<1>1. Init => CoveredToCursor /\ CopiesEveryByte
  BY DEF Init, CoveredToCursor, CopiesEveryByte
<1>2. /\ TypeOK /\ NotStarted /\ CoveredToCursor /\ CopiesEveryByte
      /\ [Next]_vars
      => CoveredToCursor' /\ CopiesEveryByte'
  BY CoverStep
<1> QED
  BY <1>1, <1>2, TypeCorrect, PTL DEF Spec

-----------------------------------------------------------------------------
(***************************************************************************)
(* Tiling.  For a well-formed table the emitted regions form a chain from  *)
(* byte 0 to the cursor, and the cursor never passes the start of the next *)
(* partition nor the start of the tail.                                    *)
(***************************************************************************)

Chain(rs, e) ==
    /\ rs = <<>> => e = 0
    /\ rs # <<>> => rs[1].start = 0 /\ rs[Len(rs)].end = e
    /\ \A i \in 1..(Len(rs) - 1) : rs[i].end = rs[i + 1].start

TiledToCursor ==
    (pc = "spans" /\ wellFormed) =>
        /\ Chain(regions, cursor)
        /\ cursor >= 0
        /\ cursor <= tailStart
        /\ k < Len(spans) => cursor <= spans[k + 1].start

\* A region that begins where a chain ends makes it a longer chain.
LEMMA ChainAppend ==
    ASSUME NEW rs \in Seq(Region), NEW r \in Region, Chain(rs, r.start)
    PROVE  Append(rs, r) \in Seq(Region) /\ Chain(Append(rs, r), r.end)
<1> DEFINE qs == Append(rs, r)
           n  == Len(rs)
<1>1. /\ qs \in Seq(Region) /\ qs # <<>> /\ Len(qs) = n + 1 /\ n \in Nat
      /\ \A i \in 1..n : qs[i] = rs[i]
      /\ qs[n + 1] = r
  BY AppendProperties, LenProperties
<1>2. n = 0 <=> rs = <<>>
  BY EmptySeq, LenProperties
<1> HIDE DEF qs
<1>3. qs[1].start = 0
  <2>1. CASE rs = <<>>
    BY <1>1, <1>2, <2>1 DEF Chain
  <2>2. CASE rs # <<>>
    <3>1. qs[1] = rs[1]
      BY <1>1, <1>2, <2>2
    <3> QED
      BY <2>2, <3>1 DEF Chain
  <2> QED
    BY <2>1, <2>2
<1>4. ASSUME NEW i \in 1..(Len(qs) - 1) PROVE qs[i].end = qs[i + 1].start
  <2>1. i \in 1..n /\ rs # <<>>
    BY <1>1, <1>2
  <2>2. CASE i = n
    <3>1. rs[n].end = r.start
      BY <2>1 DEF Chain
    <3> QED
      BY <1>1, <2>1, <2>2, <3>1
  <2>3. CASE i # n
    <3>1. i \in 1..(n - 1) /\ i + 1 \in 1..n
      BY <1>1, <2>1, <2>3
    <3>2. rs[i].end = rs[i + 1].start
      BY <3>1 DEF Chain
    <3> QED
      BY <1>1, <3>1, <3>2
  <2> QED
    BY <2>2, <2>3
<1> QED
  BY <1>1, <1>3, <1>4 DEF Chain, qs

\* fillTo closes the hole between the cursor and e.
LEMMA FillToChain ==
    ASSUME TypeOK, NEW e \in Int, Chain(regions, cursor), cursor <= e
    PROVE  fillTo(e) \in Seq(Region) /\ Chain(fillTo(e), e)
<1>1. CASE e > cursor
  <2>1. /\ gap(cursor, e) \in Region
        /\ gap(cursor, e).start = cursor /\ gap(cursor, e).end = e
    BY DEF TypeOK, gap, Region, Kinds
  <2>2. fillTo(e) = Append(regions, gap(cursor, e)) /\ regions \in Seq(Region)
    BY <1>1 DEF fillTo, TypeOK
  <2> QED
    BY <2>1, <2>2, ChainAppend
<1>2. CASE ~(e > cursor)
  <2>1. e = cursor /\ fillTo(e) = regions
    BY <1>2 DEF fillTo, TypeOK
  <2> QED
    BY <2>1 DEF TypeOK
<1> QED
  BY <1>1, <1>2

\* Every step of buildRegions on a well-formed table keeps the chain whose end is
\* the cursor.
LEMMA TilingStep ==
    ASSUME TypeOK, NotStarted, TiledToCursor, Tiling, [Next]_vars
    PROVE  TiledToCursor' /\ Tiling'
<1> USE RegionMapAssumption
<1>1. CASE SortSpans
  BY <1>1 DEF SortSpans, TiledToCursor, Tiling
<1>2. CASE EmitBoot
  <2> SUFFICES ASSUME wellFormed' PROVE TiledToCursor'
    BY <1>2 DEF EmitBoot, Tiling, TiledToCursor
  <2> DEFINE e == bootLimit(spans, in.isGPT)
  <2>1. e \in Int /\ spans \in Seq(Span)
    BY BootLimitType DEF TypeOK
  <2>2. /\ cursor' = e /\ pc' = "spans"
        /\ regions' = (IF e > 0 THEN <<boot(e)>> ELSE <<>>)
        /\ spans' = spans /\ in' = in /\ k' = 0
    BY <1>2 DEF EmitBoot, NotStarted
  <2>3. e <= tailStart /\ tailStart' = tailStart
    BY <2>2 DEF wellFormed, tailStart
  <2>4. /\ spans = <<>> => e > 0
        /\ spans # <<>> => e <= spans[1].start /\ (e < 0 => e = spans[1].start)
    <3>1. spans # <<>> => spans[1] \in Span
      BY <2>1, EmptySeq, LenProperties
    <3> QED
      BY <3>1 DEF bootLimit, Span
  <2>5. e >= 0
    <3>1. spans # <<>> => 0 <= spans[1].start
      <4>1. spans # <<>> => 1 \in DOMAIN spans
        BY <2>1, EmptySeq, LenProperties
      <4> QED
        BY <2>2, <4>1 DEF wellFormed
    <3> QED
      BY <2>1, <2>4, <3>1
  <2> HIDE DEF e
  <2>6. Chain(regions', e)
    <3>1. CASE e > 0
      <4>1. regions' = <<boot(e)>>
        BY <2>2, <3>1
      <4> QED
        BY <4>1 DEF Chain, boot
    <3>2. CASE ~(e > 0)
      <4>1. regions' = <<>> /\ e = 0
        BY <2>1, <2>2, <2>5, <3>2
      <4> QED
        BY <4>1 DEF Chain
    <3> QED
      BY <3>1, <3>2
  <2>7. k' < Len(spans') => cursor' <= spans'[k' + 1].start
    BY <2>1, <2>2, <2>4, EmptySeq
  <2>8. Chain(regions, cursor)'
    BY <2>2, <2>6 DEF Chain
  <2> QED
    BY <2>2, <2>3, <2>4, <2>5, <2>7, <2>8 DEF TiledToCursor
<1>3. CASE EmitSpan
  <2> SUFFICES ASSUME wellFormed' PROVE TiledToCursor'
    BY <1>3 DEF EmitSpan, Tiling, TiledToCursor
  <2> DEFINE s == spans[k + 1]
  <2>1. /\ regions' = Append(fillTo(s.start), part(s)) /\ cursor' = s.end
        /\ pc = "spans" /\ pc' = "spans" /\ k < Len(spans) /\ k' = k + 1
        /\ spans' = spans /\ in' = in
    BY <1>3 DEF EmitSpan
  <2>2. wellFormed /\ tailStart' = tailStart
    BY <2>1 DEF wellFormed, tailStart
  <2>3. /\ k \in Nat /\ k + 1 \in DOMAIN spans /\ s \in Span
        /\ s.start \in Int /\ s.end \in Int
        /\ spans \in Seq(Span)
    <3>1. /\ k \in Nat /\ spans \in Seq(Span)
          /\ k + 1 \in 1..Len(spans) /\ DOMAIN spans = 1..Len(spans)
      BY <2>1, LenProperties DEF TypeOK
    <3>2. s \in Span
      BY <3>1, ElementOfSeq
    <3> QED
      BY <3>1, <3>2 DEF Span
  <2>4. Chain(regions, cursor) /\ cursor <= s.start
    BY <2>1, <2>2 DEF TiledToCursor
  <2>5. /\ part(s) \in Region /\ part(s).start = s.start /\ part(s).end = s.end
    BY <2>3 DEF part, Region, Kinds, Span
  <2>6. fillTo(s.start) \in Seq(Region) /\ Chain(fillTo(s.start), s.start)
    BY <2>3, <2>4, FillToChain
  <2>7. Chain(regions', s.end)
    BY <2>1, <2>5, <2>6, ChainAppend
  <2>8. s.end >= 0 /\ s.end <= tailStart
    BY <2>2, <2>3 DEF wellFormed
  <2>9. k' < Len(spans') => s.end <= spans'[k' + 1].start
    <3>1. k' < Len(spans') => k + 2 \in DOMAIN spans /\ k' + 1 = k + 2
      BY <2>1, <2>3
    <3> QED
      BY <2>1, <2>2, <2>3, <3>1 DEF wellFormed
  <2>10. Chain(regions, cursor)'
    BY <2>1, <2>7 DEF Chain
  <2>11. spans' # <<>>
    BY <2>1, <2>3, EmptySeq
  <2> HIDE DEF s
  <2> QED
    BY <2>1, <2>2, <2>8, <2>9, <2>10, <2>11 DEF TiledToCursor
<1>4. CASE EmitTail
  <2> SUFFICES ASSUME wellFormed', in'.size > 0
               PROVE  /\ regions' # <<>>
                      /\ regions'[1].start = 0
                      /\ regions'[Len(regions')].end = in'.size
                      /\ \A i \in 1..(Len(regions') - 1) : regions'[i].end = regions'[i + 1].start
    BY <1>4 DEF EmitTail, Tiling, TiledToCursor, adjacent
  <2>1. /\ pc = "spans" /\ regions' = tailRegions /\ in' = in /\ spans' = spans
    BY <1>4 DEF EmitTail
  <2>2. wellFormed /\ in.size \in Nat /\ in.size > 0 /\ in.isGPT \in BOOLEAN
    BY <2>1 DEF wellFormed, tailStart, TypeOK
  <2>3. Chain(regions, cursor) /\ cursor <= tailStart
    BY <2>1, <2>2 DEF TiledToCursor
  <2>4. Chain(regions', in.size) /\ regions' \in Seq(Region)
    <3>1. CASE in.isGPT
      <4> DEFINE t == in.size - SectorSize
      <4>1. t \in Int /\ t = tailStart
        BY <3>1, <2>2 DEF tailStart
      <4>2. /\ backup(t, in.size) \in Region
            /\ backup(t, in.size).start = t /\ backup(t, in.size).end = in.size
        BY <2>2, <4>1 DEF backup, Region, Kinds
      <4>3. regions' = Append(fillTo(t), backup(t, in.size))
        BY <2>1, <2>2, <3>1 DEF tailRegions
      <4>4. fillTo(t) \in Seq(Region) /\ Chain(fillTo(t), t)
        BY <2>3, <4>1, FillToChain
      <4> HIDE DEF t
      <4> QED
        BY <4>2, <4>3, <4>4, ChainAppend
    <3>2. CASE ~in.isGPT
      <4>1. regions' = fillTo(in.size) /\ cursor <= in.size
        BY <2>1, <2>3, <3>2 DEF tailRegions, tailStart
      <4> QED
        BY <2>2, <2>3, <4>1, FillToChain
    <3> QED
      BY <2>2, <3>1, <3>2
  <2> QED
    BY <2>1, <2>2, <2>4 DEF Chain
<1>5. CASE Done \/ UNCHANGED vars
  <2>1. TiledToCursor'
    BY <1>5 DEF Done, vars, TiledToCursor, Chain, wellFormed, bootLimit, tailStart
  <2>2. Tiling'
    BY <1>5 DEF Done, vars, Tiling, adjacent, wellFormed, bootLimit, tailStart
  <2> QED
    BY <2>1, <2>2
<1> QED
  BY <1>1, <1>2, <1>3, <1>4, <1>5 DEF Next

\* For a well-formed table of any length the finished map is a tiling of the
\* image: no byte is copied twice and none belongs to two regions.
THEOREM TilingCorrect ==
    Spec => []Tiling
<1>1. Init => TiledToCursor /\ Tiling
  BY DEF Init, TiledToCursor, Tiling
<1>2. TypeOK /\ NotStarted /\ TiledToCursor /\ Tiling /\ [Next]_vars
      => TiledToCursor' /\ Tiling'
  BY TilingStep
<1> QED
  BY <1>1, <1>2, TypeCorrect, PTL DEF Spec
=============================================================================
