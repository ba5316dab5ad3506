---------------------------- MODULE PageHeapProofs ----------------------------
(***************************************************************************)
(* Proofs about PageHeap, for any callers, sizes and origins of tables.    *)
(***************************************************************************)
EXTENDS PageHeap, SequenceTheorems, TLAPS

SegmentType == [entries : Nat, count : Nat, used : BOOLEAN]

End(seg) == seg.entries + seg.count

\* Contiguous, and what follows from it for segments that are not neighbours.
Row(segs) ==
  /\ segs \in Seq(SegmentType) /\ Len(segs) > 0
  /\ segs[1].entries = Base
  /\ \A i \in 1 .. Len(segs) : segs[i].count > 0
  /\ \A i \in 1 .. Len(segs) - 1 : segs[i + 1].entries = End(segs[i])
  /\ \A i, j \in 1 .. Len(segs) : i < j => End(segs[i]) <= segs[j].entries
  /\ End(segs[Len(segs)]) <= Base + MaxTables

\* What c's call is, until it has changed c's block.
Plan(c) ==
  /\ pc[c] \notin {"idle", "unlock"} =>
       \/ call[c].fun = "alloc" /\ lo[c] = None
       \/ call[c].fun = "realloc" /\ lo[c] = None /\ call[c].ptr \in Foreign
       \/ call[c].fun \in {"realloc", "free"} /\ lo[c] # None /\ call[c].ptr = lo[c]
  /\ pc[c] \notin {"idle", "unlock"} /\ call[c].fun # "free" => call[c].tables \in Tables
  /\ pc[c] \in {"alloc", "realloc", "free"} => call[c].fun = pc[c]
  /\ pc[c] = "search" => call[c].fun # "alloc"
  /\ pc[c] = "mark" => lo[c] = None

\* The search has not passed the block of its caller, and is in the vector
\* unless it is for a table below the heap.
Ahead(c) ==
  /\ low <= high /\ (~Below(c) => high < Len(segments))
  /\ lo[c] # None => \E t \in low .. high : segments[t + 1].entries = lo[c]

\* The segment found is the caller's, or there is none for a table of other origin.
FoundBy(c) ==
  IF lo[c] = None THEN chosen = None
  ELSE chosen \in DOMAIN segments /\ segments[chosen].entries = lo[c]

\* The segment chosen is free and large enough.
Settled(c) ==
  /\ chosen \in DOMAIN segments
  /\ ~segments[chosen].used
  /\ segments[chosen].count >= call[c].tables

\* What the caller that holds the lock knows.
Knows(c) ==
  /\ pc[c] = "search" => Ahead(c)
  /\ pc[c] \in {"realloc", "free"} => FoundBy(c)
  /\ pc[c] = "outside" => Below(c)
  /\ pc[c] = "mark" => Settled(c)
  /\ pc[c] \in {"search", "alloc", "realloc"} /\ lo[c] = None => Room(c)

\* Until a mark is lost no two callers own the same segment.
Distinct ==
  ~lost => \A c, d \in Callers : lo[c] # None /\ lo[c] = lo[d] => c = d

\* The inductive invariant.
IInv ==
  /\ TypeOK /\ Locked /\ Row(segments) /\ OwnedIsUsed /\ Distinct
  /\ \A c \in Callers : Plan(c) /\ Knows(c)

-----------------------------------------------------------------------------
(* The vector.                                                              *)

LEMMA SegmentFields ==
  ASSUME NEW e \in Nat, NEW n \in Nat, NEW u \in BOOLEAN
  PROVE  Segment(e, n, u) \in SegmentType
  BY DEF Segment, SegmentType

LEMMA EndIsNat ==
  ASSUME NEW seg, seg.entries \in Nat, seg.count \in Nat
  PROVE  End(seg) \in Nat
  BY DEF End

\* What InsertAt() of the community modules returns.
LEMMA InsertShape ==
  ASSUME NEW S, NEW seq \in Seq(S), NEW at \in 1 .. Len(seq) + 1, NEW elt \in S
  PROVE  /\ InsertAt(seq, at, elt) \in Seq(S)
         /\ Len(InsertAt(seq, at, elt)) = Len(seq) + 1
         /\ \A k \in 1 .. Len(seq) : k < at => InsertAt(seq, at, elt)[k] = seq[k]
         /\ InsertAt(seq, at, elt)[at] = elt
         /\ \A k \in 1 .. Len(seq) : k >= at => InsertAt(seq, at, elt)[k + 1] = seq[k]
  <1> DEFINE front == SubSeq(seq, 1, at - 1)
             back == SubSeq(seq, at, Len(seq))
             left == front \o <<elt>>
             all == left \o back
  <1>0. /\ Len(seq) \in Nat /\ at \in Int /\ at - 1 \in Int /\ 1 \in Int
        /\ \A k \in 1 .. Len(seq) : seq[k] \in S
    BY LenProperties, ElementOfSeq
  <1>1. /\ front \in Seq(S) /\ Len(front) = at - 1
        /\ \A k \in 1 .. at - 1 : front[k] = seq[k]
    <2>1. \A k \in 1 .. at - 1 : seq[k] \in S
      BY <1>0
    <2>2. /\ front \in Seq(S)
          /\ Len(front) = IF 1 <= at - 1 THEN at - 1 - 1 + 1 ELSE 0
          /\ \A k \in 1 .. at - 1 - 1 + 1 : front[k] = seq[1 + k - 1]
      BY <1>0, <2>1, SubSeqProperties
    <2> QED
      BY <1>0, <2>2
  <1>2. /\ back \in Seq(S) /\ Len(back) = Len(seq) - at + 1
        /\ \A k \in 1 .. Len(seq) - at + 1 : back[k] = seq[at + k - 1]
    <2>1. \A k \in at .. Len(seq) : seq[k] \in S
      BY <1>0
    <2>2. /\ back \in Seq(S)
          /\ Len(back) = IF at <= Len(seq) THEN Len(seq) - at + 1 ELSE 0
          /\ \A k \in 1 .. Len(seq) - at + 1 : back[k] = seq[at + k - 1]
      BY <1>0, <2>1, SubSeqProperties
    <2> QED
      BY <1>0, <2>2
  <1>3. <<elt>> \in Seq(S) /\ Len(<<elt>>) = 1 /\ <<elt>>[1] = elt
    OBVIOUS
  <1> HIDE DEF front, back
  <1>4. /\ left \in Seq(S) /\ Len(left) = at /\ left[at] = elt
        /\ \A k \in 1 .. at - 1 : left[k] = seq[k]
    <2>1. /\ left \in Seq(S) /\ Len(left) = Len(front) + 1
          /\ \A k \in 1 .. Len(front) + 1 :
               left[k] = IF k <= Len(front) THEN front[k] ELSE <<elt>>[k - Len(front)]
      BY <1>1, <1>3, ConcatProperties
    <2>2. left[at] = <<elt>>[1]
      BY <1>0, <1>1, <2>1
    <2> QED
      BY <1>0, <1>1, <1>3, <2>1, <2>2
  <1>5. InsertAt(seq, at, elt) = all
    BY DEF InsertAt, front, back
  <1> HIDE DEF left
  <1>6. /\ all \in Seq(S) /\ Len(all) = Len(left) + Len(back)
        /\ \A k \in 1 .. Len(left) + Len(back) :
             all[k] = IF k <= Len(left) THEN left[k] ELSE back[k - Len(left)]
    BY <1>2, <1>4, ConcatProperties
  <1> HIDE DEF all
  <1>7. ASSUME NEW k \in 1 .. Len(seq), k >= at
        PROVE  all[k + 1] = seq[k]
    <2>1. /\ k - at + 1 \in 1 .. Len(seq) - at + 1 /\ k + 1 - at = k - at + 1
          /\ at + (k - at + 1) - 1 = k /\ ~(k + 1 <= at)
          /\ k + 1 \in 1 .. at + (Len(seq) - at + 1)
      BY <1>0, <1>7
    <2>2. all[k + 1] = back[k - at + 1]
      BY <1>2, <1>4, <1>6, <2>1
    <2> QED
      BY <1>2, <2>1, <2>2
  <1>8. /\ all \in Seq(S) /\ Len(all) = Len(seq) + 1
        /\ \A k \in 1 .. at : all[k] = left[k]
    BY <1>0, <1>2, <1>4, <1>6
  <1> QED
    BY <1>0, <1>4, <1>5, <1>7, <1>8

\* A division shifts what follows by one place.
LEMMA DivideShape ==
  ASSUME NEW segs \in Seq(SegmentType), NEW i \in 1 .. Len(segs),
         NEW n \in Nat, n < segs[i].count
  PROVE  /\ Divide(segs, i, n) \in Seq(SegmentType)
         /\ Len(Divide(segs, i, n)) = Len(segs) + 1
         /\ \A k \in 1 .. Len(segs) : k < i => Divide(segs, i, n)[k] = segs[k]
         /\ Divide(segs, i, n)[i] = Segment(segs[i].entries, n, segs[i].used)
         /\ Divide(segs, i, n)[i + 1]
              = Segment(segs[i].entries + n, segs[i].count - n, FALSE)
         /\ \A k \in 1 .. Len(segs) : k > i => Divide(segs, i, n)[k + 1] = segs[k]
  <1> DEFINE old == Segment(segs[i].entries, n, segs[i].used)
             new == Segment(segs[i].entries + n, segs[i].count - n, FALSE)
             cut == [segs EXCEPT ![i] = old]
  <1>1. segs[i] \in SegmentType /\ Len(segs) \in Nat
    BY ElementOfSeq, LenProperties
  <1>2. old \in SegmentType /\ new \in SegmentType
    <2>1. /\ segs[i].entries \in Nat /\ segs[i].entries + n \in Nat
          /\ segs[i].count - n \in Nat
      BY <1>1 DEF SegmentType
    <2>2. segs[i].used \in BOOLEAN
      BY <1>1 DEF SegmentType
    <2> QED
      BY <2>1, <2>2, SegmentFields
  <1>3. [segs EXCEPT ![i].count = n] = cut
    <2>1. segs[i] = [entries |-> segs[i].entries, count |-> segs[i].count,
                     used |-> segs[i].used]
      BY <1>1 DEF SegmentType
    <2>2. [segs[i] EXCEPT !.count = n] = old
      BY <2>1 DEF Segment
    <2> QED
      BY <2>2
  <1>4. Divide(segs, i, n) = InsertAt(cut, i + 1, new)
    BY <1>3 DEF Divide
  <1> HIDE DEF old, new
  <1>5. /\ cut \in Seq(SegmentType) /\ Len(cut) = Len(segs)
        /\ \A j \in 1 .. Len(segs) : cut[j] = IF j = i THEN old ELSE segs[j]
    BY <1>2, ExceptSeq
  <1> HIDE DEF cut
  <1> DEFINE next == i + 1
  <1> HIDE DEF next
  <1>6. /\ InsertAt(cut, next, new) \in Seq(SegmentType)
        /\ Len(InsertAt(cut, next, new)) = Len(segs) + 1
        /\ \A k \in 1 .. Len(segs) : k < next => InsertAt(cut, next, new)[k] = cut[k]
        /\ InsertAt(cut, next, new)[next] = new
        /\ \A k \in 1 .. Len(segs) : k >= next => InsertAt(cut, next, new)[k + 1] = cut[k]
    <2>1. cut \in Seq(SegmentType) /\ new \in SegmentType /\ next \in 1 .. Len(cut) + 1
      BY <1>1, <1>2, <1>5 DEF next
    <2>2. Len(cut) = Len(segs)
      BY <1>5
    <2>3. /\ InsertAt(cut, next, new) \in Seq(SegmentType)
          /\ Len(InsertAt(cut, next, new)) = Len(cut) + 1
          /\ InsertAt(cut, next, new)[next] = new
      BY <2>1, InsertShape
    <2>4. \A k \in 1 .. Len(cut) : k < next => InsertAt(cut, next, new)[k] = cut[k]
      BY <2>1, InsertShape
    <2>5. \A k \in 1 .. Len(cut) : k >= next => InsertAt(cut, next, new)[k + 1] = cut[k]
      BY <2>1, InsertShape
    <2> QED
      BY <2>2, <2>3, <2>4, <2>5
  <1>7. Divide(segs, i, n) = InsertAt(cut, next, new)
    BY <1>4 DEF next
  <1>8. /\ \A k \in 1 .. Len(segs) : k < i => Divide(segs, i, n)[k] = segs[k]
        /\ Divide(segs, i, n)[i] = old
        /\ Divide(segs, i, n)[i + 1] = new
        /\ \A k \in 1 .. Len(segs) : k > i => Divide(segs, i, n)[k + 1] = segs[k]
    BY <1>1, <1>7, <1>5, <1>6 DEF next
  <1> QED
    BY <1>6, <1>7, <1>8 DEF old, new

LEMMA SegmentOf ==
  ASSUME NEW segs, Row(segs), NEW i \in 1 .. Len(segs)
  PROVE  /\ segs[i].entries \in Nat /\ segs[i].count \in Nat
         /\ segs[i].used \in BOOLEAN
         /\ segs[i] \in SegmentType
         /\ segs[i].count > 0 /\ End(segs[i]) \in Nat
         /\ Base <= segs[i].entries /\ End(segs[i]) <= Base + MaxTables
  <1>1. segs[i] \in SegmentType /\ segs[1] \in SegmentType
        /\ segs[Len(segs)] \in SegmentType /\ Len(segs) \in Nat /\ Len(segs) > 0
    BY ElementOfSeq, LenProperties DEF Row
  <1>2. /\ segs[i].entries \in Nat /\ segs[i].count \in Nat
        /\ segs[1].entries \in Nat /\ segs[1].count \in Nat
        /\ segs[Len(segs)].entries \in Nat /\ segs[Len(segs)].count \in Nat
        /\ segs[i].count > 0 /\ End(segs[i]) \in Nat
    BY <1>1 DEF SegmentType, End, Row
  <1>3. segs[i].used \in BOOLEAN
    BY <1>1 DEF SegmentType
  <1>4. Base <= segs[i].entries
    <2>1. CASE i = 1
      BY <1>2, <2>1, PageHeapAssumption DEF Row
    <2>2. CASE i # 1
      <3>1. 1 \in 1 .. Len(segs) /\ 1 < i
        BY <1>1, <2>2
      <3>2. End(segs[1]) <= segs[i].entries /\ segs[1].entries = Base
        BY <3>1 DEF Row
      <3>3. Base + segs[1].count <= segs[i].entries
        BY <3>2 DEF End
      <3> QED
        BY <1>2, <3>3, PageHeapAssumption
    <2> QED
      BY <2>1, <2>2
  <1>5. End(segs[i]) <= Base + MaxTables
    <2>1. CASE i = Len(segs)
      BY <2>1 DEF Row
    <2>2. CASE i # Len(segs)
      <3>1. i < Len(segs) /\ Len(segs) \in 1 .. Len(segs)
        BY <1>1, <2>2
      <3>2. /\ End(segs[i]) <= segs[Len(segs)].entries
            /\ segs[Len(segs)].entries + segs[Len(segs)].count <= Base + MaxTables
        BY <3>1 DEF Row, End
      <3> QED
        BY <1>2, <3>2, PageHeapAssumption
    <2> QED
      BY <2>1, <2>2
  <1> QED
    BY <1>1, <1>2, <1>3, <1>4, <1>5

\* Two segments that begin at the same table are the same.
LEMMA OneSegment ==
  ASSUME NEW segs, Row(segs), NEW i \in 1 .. Len(segs), NEW j \in 1 .. Len(segs),
         segs[i].entries = segs[j].entries
  PROVE  i = j
  <1>1. /\ segs[i].entries \in Nat /\ segs[i].count \in Nat /\ segs[i].count > 0
        /\ segs[j].entries \in Nat /\ segs[j].count \in Nat /\ segs[j].count > 0
    BY SegmentOf
  <1>2. ~(i < j) /\ ~(j < i)
    BY <1>1 DEF Row, End
  <1> QED
    BY <1>2, LenProperties

LEMMA DivideRow ==
  ASSUME NEW segs, Row(segs), NEW i \in 1 .. Len(segs),
         NEW n \in Nat, n > 0, n < segs[i].count
  PROVE  Row(Divide(segs, i, n))
  <1> DEFINE t == Divide(segs, i, n)
             from(k) == IF k <= i THEN k ELSE k - 1
  <1>0. segs \in Seq(SegmentType) /\ Len(segs) \in Nat /\ Len(segs) > 0 /\ i \in Nat
    BY LenProperties DEF Row
  <1>1. /\ t \in Seq(SegmentType)
        /\ Len(t) = Len(segs) + 1
        /\ \A k \in 1 .. Len(segs) : k < i => t[k] = segs[k]
        /\ t[i] = Segment(segs[i].entries, n, segs[i].used)
        /\ t[i + 1] = Segment(segs[i].entries + n, segs[i].count - n, FALSE)
        /\ \A k \in 1 .. Len(segs) : k > i => t[k + 1] = segs[k]
    BY <1>0, DivideShape
  <1>2. segs[i].entries \in Nat /\ segs[i].count \in Nat
    BY SegmentOf
  <1>3. /\ t[i].entries = segs[i].entries /\ t[i].count = n
        /\ t[i + 1].entries = segs[i].entries + n
        /\ t[i + 1].count = segs[i].count - n
    BY <1>1 DEF Segment
  <1> HIDE DEF t
  <1>4. ASSUME NEW k \in 1 .. Len(t), k # i, k # i + 1
        PROVE  from(k) \in 1 .. Len(segs) /\ from(k) # i /\ t[k] = segs[from(k)]
    <2>1. CASE k < i
      BY <1>0, <1>1, <2>1
    <2>2. CASE k > i + 1
      <3>1. k - 1 \in 1 .. Len(segs) /\ k - 1 > i /\ k - 1 + 1 = k
        BY <1>0, <1>1, <2>2
      <3>2. t[k - 1 + 1] = segs[k - 1]
        BY <1>1, <3>1
      <3> QED
        BY <1>0, <2>2, <3>1, <3>2
    <2> QED
      BY <1>0, <1>1, <1>4, <2>1, <2>2
  <1>5. ASSUME NEW k \in 1 .. Len(t)
        PROVE  /\ t[k].entries \in Nat /\ t[k].count \in Nat /\ t[k].count > 0
               /\ from(k) \in 1 .. Len(segs)
               /\ segs[from(k)].entries <= t[k].entries
               /\ End(t[k]) <= End(segs[from(k)])
               /\ k # i + 1 => t[k].entries = segs[from(k)].entries
               /\ k # i => End(t[k]) = End(segs[from(k)])
    <2>1. CASE k = i
      BY <1>2, <1>3, <1>0, <2>1 DEF End
    <2>2. CASE k = i + 1
      <3>1. from(k) = i /\ k # i
        BY <1>0, <2>2
      <3>2. /\ t[k].entries = segs[i].entries + n
            /\ t[k].count = segs[i].count - n
        BY <1>3, <2>2
      <3>3. End(t[k]) = End(segs[i])
        BY <1>2, <3>2 DEF End
      <3>4. /\ t[k].count > 0 /\ t[k].count \in Nat
            /\ t[k].entries \in Nat /\ segs[i].entries <= t[k].entries
        <4>1. segs[i].count - n > 0 /\ segs[i].count - n \in Nat
          BY <1>2
        <4>2. segs[i].entries + n \in Nat /\ segs[i].entries <= segs[i].entries + n
          BY <1>2
        <4> QED
          BY <3>2, <4>1, <4>2
      <3>5. End(segs[i]) \in Nat
        BY <1>2 DEF End
      <3> HIDE DEF from
      <3> QED
        BY <2>2, <3>1, <3>3, <3>4, <3>5
    <2>3. CASE k # i /\ k # i + 1
      <3>1. from(k) \in 1 .. Len(segs) /\ t[k] = segs[from(k)]
        BY <1>4, <2>3
      <3> HIDE DEF from
      <3>2. /\ segs[from(k)].entries \in Nat /\ segs[from(k)].count \in Nat
            /\ segs[from(k)].count > 0 /\ End(segs[from(k)]) \in Nat
        BY <3>1, SegmentOf
      <3> QED
        BY <3>1, <3>2
    <2> QED
      BY <2>1, <2>2, <2>3
  <1>6. t[1].entries = Base
    <2>1. 1 \in 1 .. Len(t) /\ 1 # i + 1 /\ from(1) = 1
      BY <1>0, <1>1
    <2>2. t[1].entries = segs[from(1)].entries
      BY <1>5, <2>1
    <2> QED
      BY <2>1, <2>2 DEF Row
  <1>7. End(t[Len(t)]) <= Base + MaxTables
    <2>1. Len(t) \in 1 .. Len(t) /\ Len(t) # i /\ from(Len(t)) = Len(segs)
      BY <1>0, <1>1
    <2>2. End(t[Len(t)]) = End(segs[from(Len(t))])
      BY <1>5, <2>1
    <2> QED
      BY <2>1, <2>2 DEF Row
  <1>8. ASSUME NEW k \in 1 .. Len(t) - 1
        PROVE  t[k + 1].entries = End(t[k])
    <2>1. k \in 1 .. Len(t) /\ k + 1 \in 1 .. Len(t)
      BY <1>0, <1>1
    <2>2. CASE k = i
      BY <1>2, <1>3, <2>2 DEF End
    <2>3. CASE k # i
      <3>1. k + 1 # i + 1 /\ from(k + 1) = from(k) + 1 /\ from(k) \in 1 .. Len(segs) - 1
        BY <1>0, <1>1, <2>1, <2>3
      <3>2. /\ t[k + 1].entries = segs[from(k + 1)].entries
            /\ End(t[k]) = End(segs[from(k)])
        BY <1>5, <2>1, <2>3, <3>1
      <3> HIDE DEF from
      <3>3. segs[from(k) + 1].entries = End(segs[from(k)])
        BY <3>1 DEF Row
      <3> QED
        BY <3>1, <3>2, <3>3
    <2> QED
      BY <2>2, <2>3
  <1>9. ASSUME NEW k \in 1 .. Len(t), NEW j \in 1 .. Len(t), k < j
        PROVE  End(t[k]) <= t[j].entries
    <2>1. CASE from(k) = from(j)
      <3>1. k = i /\ j = i + 1
        BY <1>0, <1>1, <1>9, <2>1
      <3> QED
        BY <1>2, <1>3, <3>1 DEF End
    <2>2. CASE from(k) # from(j)
      <3>1. from(k) < from(j)
        BY <1>0, <1>1, <1>9, <2>2
      <3>2. /\ from(k) \in 1 .. Len(segs) /\ from(j) \in 1 .. Len(segs)
            /\ End(t[k]) <= End(segs[from(k)])
            /\ segs[from(j)].entries <= t[j].entries
        BY <1>5
      <3>4. /\ t[k].entries \in Nat /\ t[k].count \in Nat
            /\ t[j].entries \in Nat
        BY <1>5
      <3> HIDE DEF from
      <3>5. End(t[k]) \in Nat
        BY <3>4, EndIsNat
      <3>3. /\ End(segs[from(k)]) <= segs[from(j)].entries
            /\ End(segs[from(k)]) \in Nat /\ segs[from(j)].entries \in Nat
        BY <3>1, <3>2, SegmentOf DEF Row
      <3> DEFINE a == End(t[k])
                 b == End(segs[from(k)])
                 e == segs[from(j)].entries
                 f == t[j].entries
      <3>6. /\ a \in Nat /\ b \in Nat /\ e \in Nat /\ f \in Nat
            /\ a <= b /\ b <= e /\ e <= f
        BY <3>2, <3>3, <3>4, <3>5
      <3> HIDE DEF a, b, e, f
      <3>7. a <= f
        BY <3>6
      <3> QED
        BY <3>7 DEF a, f
    <2> QED
      BY <2>1, <2>2
  <1> QED
    BY <1>0, <1>1, <1>5, <1>6, <1>7, <1>8, <1>9 DEF Row, t

\* What the callers see of a division: the segment is still there, large
\* enough, the others are unchanged, and what is new is not used.
LEMMA TrimShape ==
  ASSUME NEW segs, Row(segs), NEW i \in 1 .. Len(segs),
         NEW n \in Nat, n > 0, n <= segs[i].count
  PROVE  /\ Row(Trim(segs, i, n)) /\ Len(Trim(segs, i, n)) >= Len(segs)
         /\ Trim(segs, i, n)[i].entries = segs[i].entries
         /\ Trim(segs, i, n)[i].used = segs[i].used
         /\ Trim(segs, i, n)[i].count >= n
         /\ \A k \in 1 .. Len(segs) : k # i =>
              \E j \in 1 .. Len(Trim(segs, i, n)) : Trim(segs, i, n)[j] = segs[k]
         /\ \A j \in 1 .. Len(Trim(segs, i, n)) : Trim(segs, i, n)[j].used =>
              \E k \in 1 .. Len(segs) :
                segs[k].used /\ segs[k].entries = Trim(segs, i, n)[j].entries
  <1>0. /\ segs \in Seq(SegmentType) /\ Len(segs) \in Nat /\ i \in Nat
        /\ segs[i].entries \in Nat /\ segs[i].count \in Nat
    <2>1. segs \in Seq(SegmentType) /\ Len(segs) \in Nat
      BY LenProperties DEF Row
    <2>2. segs[i].entries \in Nat /\ segs[i].count \in Nat
      BY SegmentOf
    <2> QED
      BY <2>1, <2>2
  <1>1. CASE ~Divisible(segs[i], n)
    <2>1. Trim(segs, i, n) = segs
      BY <1>1 DEF Trim
    <2>2. Row(segs) /\ Len(segs) >= Len(segs) /\ segs[i].count >= n
      BY <1>0
    <2> QED
      BY <2>1, <2>2
  <1>2. CASE Divisible(segs[i], n)
    <2> DEFINE t == Divide(segs, i, n)
    <2>1. Trim(segs, i, n) = t /\ n < segs[i].count
      BY <1>0, <1>2 DEF Trim, Divisible
    <2>2. Row(t)
      BY <2>1, DivideRow
    <2>3. /\ Len(t) = Len(segs) + 1
          /\ \A k \in 1 .. Len(segs) : k < i => t[k] = segs[k]
          /\ t[i] = Segment(segs[i].entries, n, segs[i].used)
          /\ t[i + 1] = Segment(segs[i].entries + n, segs[i].count - n, FALSE)
          /\ \A k \in 1 .. Len(segs) : k > i => t[k + 1] = segs[k]
      <3>1. n \in Nat /\ n < segs[i].count
        BY <2>1
      <3>2. Len(t) = Len(segs) + 1
        BY <1>0, <3>1, DivideShape, Zenon
      <3>3. \A k \in 1 .. Len(segs) : k < i => t[k] = segs[k]
        BY <1>0, <3>1, DivideShape, Zenon
      <3>4. t[i] = Segment(segs[i].entries, n, segs[i].used)
        BY <1>0, <3>1, DivideShape, Zenon
      <3>6. t[i + 1] = Segment(segs[i].entries + n, segs[i].count - n, FALSE)
        BY <1>0, <3>1, DivideShape, Zenon
      <3>5. \A k \in 1 .. Len(segs) : k > i => t[k + 1] = segs[k]
        BY <1>0, <3>1, DivideShape, Zenon
      <3> QED
        BY <3>2, <3>3, <3>4, <3>5, <3>6
    <2> HIDE DEF t
    <2>4. /\ t[i].entries = segs[i].entries /\ t[i].used = segs[i].used
          /\ t[i].count = n
      BY <2>3 DEF Segment
    <2>5. ASSUME NEW k \in 1 .. Len(segs), k # i
          PROVE  \E j \in 1 .. Len(t) : t[j] = segs[k]
      <3>1. CASE k < i
        BY <1>0, <2>3, <3>1
      <3>2. CASE k > i
        <4>1. k + 1 \in 1 .. Len(t) /\ t[k + 1] = segs[k]
          BY <1>0, <2>3, <3>2
        <4> QED
          BY <4>1
      <3> QED
        BY <1>0, <2>5, <3>1, <3>2
    <2>6. ASSUME NEW j \in 1 .. Len(t), t[j].used
          PROVE  \E k \in 1 .. Len(segs) : segs[k].used /\ segs[k].entries = t[j].entries
      <3>1. j # i + 1
        BY <2>3, <2>6 DEF Segment
      <3>2. CASE j < i
        BY <1>0, <2>3, <2>6, <3>2
      <3>3. CASE j = i
        BY <2>4, <2>6, <3>3
      <3>4. CASE j > i + 1
        <4>1. j - 1 \in 1 .. Len(segs) /\ j - 1 > i /\ j - 1 + 1 = j
          BY <1>0, <2>3, <3>4
        <4>2. t[j] = segs[j - 1]
          BY <2>3, <4>1
        <4> QED
          BY <2>6, <4>1, <4>2
      <3> QED
        BY <1>0, <3>1, <3>2, <3>3, <3>4
    <2>7. Len(t) >= Len(segs) /\ t[i].count >= n
      BY <1>0, <2>3, <2>4
    <2> QED
      BY <2>1, <2>2, <2>4, <2>5, <2>6, <2>7
  <1> QED
    BY <1>1, <1>2

\* Marking a segment used or free moves nothing.
LEMMA FlagShape ==
  ASSUME NEW segs, Row(segs), NEW i \in 1 .. Len(segs), NEW u \in BOOLEAN
  PROVE  LET t == [segs EXCEPT ![i].used = u]
         IN /\ Row(t) /\ Len(t) = Len(segs)
            /\ t[i].used = u
            /\ \A k \in 1 .. Len(segs) :
                 /\ t[k].entries = segs[k].entries /\ t[k].count = segs[k].count
                 /\ k # i => t[k] = segs[k]
  <1> DEFINE new == Segment(segs[i].entries, segs[i].count, u)
             t == [segs EXCEPT ![i] = new]
  <1>0. segs \in Seq(SegmentType)
    BY DEF Row
  <1>1. segs[i] \in SegmentType /\ segs[i].entries \in Nat /\ segs[i].count \in Nat
    BY SegmentOf
  <1>2. [segs EXCEPT ![i].used = u] = t
    <2>1. segs[i] = [entries |-> segs[i].entries, count |-> segs[i].count,
                     used |-> segs[i].used]
      BY <1>1 DEF SegmentType
    <2>2. [segs[i] EXCEPT !.used = u] = new
      BY <2>1 DEF Segment
    <2> QED
      BY <2>2
  <1>3. new \in SegmentType
    BY <1>1, SegmentFields
  <1>4. new.entries = segs[i].entries /\ new.count = segs[i].count /\ new.used = u
    BY DEF Segment
  <1> HIDE DEF new
  <1>5. /\ t \in Seq(SegmentType) /\ Len(t) = Len(segs)
        /\ \A k \in 1 .. Len(segs) : t[k] = IF k = i THEN new ELSE segs[k]
    BY <1>0, <1>3, ExceptSeq
  <1> HIDE DEF t
  <1>6. \A k \in 1 .. Len(segs) :
          /\ t[k].entries = segs[k].entries /\ t[k].count = segs[k].count
          /\ k # i => t[k] = segs[k]
    BY <1>4, <1>5
  <1>7. \A k \in 1 .. Len(segs) : End(t[k]) = End(segs[k])
    BY <1>6 DEF End
  <1>8. /\ 1 \in 1 .. Len(segs) /\ Len(segs) \in 1 .. Len(segs) /\ Len(segs) \in Nat
        /\ \A k \in 1 .. Len(segs) - 1 : k \in 1 .. Len(segs) /\ k + 1 \in 1 .. Len(segs)
    BY <1>0, LenProperties DEF Row
  <1>9. Row(t)
    BY <1>5, <1>6, <1>7, <1>8 DEF Row
  <1> QED
    BY <1>2, <1>4, <1>5, <1>6, <1>9

\* The last segment takes a larger size.
LEMMA ReuseShape ==
  ASSUME NEW segs, Row(segs), NEW n \in Nat, n > 0,
         segs[Len(segs)].entries + n <= Base + MaxTables
  PROVE  LET last == Len(segs)
             new == Segment(segs[last].entries, n, TRUE)
             t == [segs EXCEPT ![last] = new]
         IN /\ Row(t) /\ Len(t) = last
            /\ t[last].used /\ t[last].count = n
            /\ \A j \in 1 .. last - 1 : t[j] = segs[j]
  <1> DEFINE last == Len(segs)
             new == Segment(segs[last].entries, n, TRUE)
             t == [segs EXCEPT ![last] = new]
  <1>0. segs \in Seq(SegmentType) /\ last \in Nat /\ last > 0 /\ last \in 1 .. Len(segs)
    BY LenProperties DEF Row
  <1>1. segs[last] \in SegmentType /\ segs[last].entries \in Nat
    BY <1>0, SegmentOf
  <1>3. new \in SegmentType
    BY <1>1, SegmentFields
  <1>4. new.entries = segs[last].entries /\ new.count = n /\ new.used
    BY DEF Segment
  <1> HIDE DEF new
  <1>5. /\ t \in Seq(SegmentType) /\ Len(t) = Len(segs)
        /\ \A k \in 1 .. Len(segs) : t[k] = IF k = last THEN new ELSE segs[k]
    BY <1>0, <1>3, ExceptSeq
  <1> HIDE DEF t
  <1>6. /\ \A k \in 1 .. last - 1 : t[k] = segs[k]
        /\ t[last] = new /\ End(t[last]) = segs[last].entries + n
    BY <1>0, <1>4, <1>5 DEF End
  <1>7. \A k \in 1 .. last : t[k].entries = segs[k].entries /\ t[k].count > 0
    BY <1>0, <1>4, <1>5, SegmentOf
  <1>8. \A i \in 1 .. last - 1 : t[i + 1].entries = End(t[i])
    BY <1>0, <1>6, <1>7 DEF Row
  <1>9. \A i, j \in 1 .. last : i < j => End(t[i]) <= t[j].entries
    BY <1>0, <1>6, <1>7 DEF Row
  <1>10. Row(t)
    BY <1>0, <1>5, <1>6, <1>7, <1>8, <1>9 DEF Row
  <1> QED
    BY <1>4, <1>5, <1>6, <1>10 DEF t, new

\* A segment of its own follows the last one.
LEMMA ExpandShape ==
  ASSUME NEW segs, Row(segs), NEW n \in Nat, n > 0,
         End(segs[Len(segs)]) + n <= Base + MaxTables
  PROVE  /\ Row(Expand(segs, n)) /\ Len(Expand(segs, n)) = Len(segs) + 1
         /\ \A j \in 1 .. Len(segs) : Expand(segs, n)[j] = segs[j]
         /\ Expand(segs, n)[Len(segs) + 1] = Segment(End(segs[Len(segs)]), n, TRUE)
  <1> DEFINE last == Len(segs)
             new == Segment(End(segs[last]), n, TRUE)
             t == Append(segs, new)
  <1>0. segs \in Seq(SegmentType) /\ last \in Nat /\ last > 0 /\ last \in 1 .. Len(segs)
    BY LenProperties DEF Row
  <1>1. End(segs[last]) \in Nat
    BY <1>0, SegmentOf
  <1>2. Expand(segs, n) = t
    BY DEF Expand, Last, End
  <1>3. new \in SegmentType
    BY <1>1, SegmentFields
  <1>4. new.entries = End(segs[last]) /\ new.count = n /\ End(new) = End(segs[last]) + n
    BY DEF Segment, End
  <1> HIDE DEF new
  <1>5. /\ t \in Seq(SegmentType) /\ Len(t) = last + 1
        /\ \A k \in 1 .. last : t[k] = segs[k]
        /\ t[last + 1] = new
    BY <1>0, <1>3, AppendProperties
  <1> HIDE DEF t
  <1>6. \A i \in 1 .. last + 1 : t[i].count > 0
    BY <1>0, <1>4, <1>5 DEF Row
  <1>7. \A i \in 1 .. last : t[i + 1].entries = End(t[i])
    <2> SUFFICES ASSUME NEW i \in 1 .. last PROVE t[i + 1].entries = End(t[i])
      OBVIOUS
    <2>1. CASE i = last
      BY <1>0, <1>4, <1>5, <2>1
    <2>2. CASE i # last
      <3>1. i \in 1 .. last - 1 /\ i + 1 \in 1 .. last
        BY <1>0, <2>2
      <3> QED
        BY <1>5, <3>1 DEF Row
    <2> QED
      BY <2>1, <2>2
  <1>8. \A i, j \in 1 .. last + 1 : i < j => End(t[i]) <= t[j].entries
    <2> SUFFICES ASSUME NEW i \in 1 .. last + 1, NEW j \in 1 .. last + 1, i < j
                 PROVE  End(t[i]) <= t[j].entries
      OBVIOUS
    <2>1. i \in 1 .. last /\ t[i] = segs[i] /\ End(segs[i]) \in Nat
      BY <1>0, <1>5, SegmentOf
    <2>2. CASE j = last + 1
      <3>1. CASE i = last
        BY <1>1, <1>4, <1>5, <2>1, <2>2, <3>1
      <3>2. CASE i # last
        <4>1. End(segs[i]) <= segs[last].entries
          BY <1>0, <2>1, <3>2 DEF Row
        <4>2. segs[last].entries <= End(segs[last]) /\ segs[last].entries \in Nat
          BY <1>0, SegmentOf DEF End
        <4> QED
          BY <1>1, <1>4, <1>5, <2>1, <2>2, <4>1, <4>2
      <3> QED
        BY <3>1, <3>2
    <2>3. CASE j # last + 1
      <3>1. j \in 1 .. last /\ t[j] = segs[j]
        BY <1>0, <1>5, <2>3
      <3> QED
        BY <2>1, <3>1 DEF Row
    <2> QED
      BY <2>2, <2>3
  <1>9. Len(t) > 0 /\ t[1] = segs[1] /\ Len(t) - 1 = last
    BY <1>0, <1>5
  <1>10. Row(t)
    BY <1>0, <1>4, <1>5, <1>6, <1>7, <1>8, <1>9 DEF Row
  <1> QED
    BY <1>2, <1>5, <1>10 DEF new

-----------------------------------------------------------------------------
(* The lock.                                                                *)

Waiting == {"idle", "lock"}
Working == {"search", "alloc", "realloc", "free", "mark", "unlock", "relock", "outside"}

LEMMA Alone ==
  ASSUME TypeOK, Locked, NEW c \in Callers, Holder(c), NEW d \in Callers, d # c
  PROVE  pc[d] \in Waiting
  BY DEF TypeOK, Locked, Holder, Waiting

\* The holder goes on to hold the lock.
LEMMA LockKept ==
  ASSUME TypeOK, Locked, NEW c \in Callers, Holder(c),
         NEW l \in Working, Goto(c, l), lock' = lock
  PROVE  Locked'
  <1>1. /\ pc'[c] = l /\ \A d \in Callers : d # c => pc'[d] = pc[d]
        /\ l \notin {"idle", "lock"}
    BY DEF TypeOK, Goto, Working
  <1>2. \A d \in Callers : Holder(d)' <=> d = c
    BY <1>1, Alone DEF Holder, Waiting
  <1>3. lock
    BY DEF Locked
  <1>4. lock' <=> \E d \in Callers : Holder(d)'
    BY <1>2, <1>3
  <1> QED
    BY <1>2, <1>4 DEF Locked

\* What is left to show of a step of the holder: what it does to its own
\* call, to the vector and to the blocks.
LEMMA HolderKeeps ==
  ASSUME IInv, NEW c \in Callers, Holder(c),
         NEW l \in Working, Goto(c, l), lock' = lock, call' = call,
         Row(segments'), usedUntil' \in DOMAIN segments',
         low' \in Nat, high' \in Nat, chosen' \in DOMAIN segments' \cup {None},
         stale' \in BOOLEAN, lost' \in BOOLEAN,
         lo' \in [Callers -> Nat], len' \in [Callers -> Nat],
         \A d \in Callers : d # c => lo'[d] = lo[d],
         Plan(c)', Knows(c)', OwnedIsUsed', Distinct'
  PROVE  IInv'
  <1>1. Locked'
    BY LockKept DEF IInv
  <1>2. /\ pc' = [pc EXCEPT ![c] = l]
        /\ \A d \in Callers : d # c => pc'[d] = pc[d]
    BY DEF IInv, TypeOK, Goto
  <1>3. TypeOK'
    <2>1. pc' \in [Callers -> {"idle", "lock", "search", "alloc", "realloc", "free",
                               "mark", "unlock", "relock", "outside"}]
      BY <1>2 DEF IInv, TypeOK, Working
    <2>2. segments' \in Seq([entries : Nat, count : Nat, used : BOOLEAN])
      BY DEF Row, SegmentType
    <2>3. call' \in [Callers -> Calls] /\ lock' \in BOOLEAN
      BY DEF IInv, TypeOK
    <2> QED
      BY <2>1, <2>2, <2>3 DEF TypeOK
  <1>4. ASSUME NEW d \in Callers, d # c
        PROVE  Plan(d)' /\ Knows(d)'
    <2>1. pc'[d] \in Waiting
      BY <1>2, <1>4, Alone DEF IInv
    <2>2. Knows(d)'
      BY <2>1 DEF Knows, Waiting
    <2>3. Plan(d)'
      BY <1>2, <1>4 DEF IInv, Plan
    <2> QED
      BY <2>2, <2>3
  <1> QED
    BY <1>1, <1>3, <1>4 DEF IInv

-----------------------------------------------------------------------------
(* The steps outside the lock, taking it and giving it back.                *)

LEMMA DomainIs ==
  ASSUME NEW segs, Row(segs)
  PROVE  DOMAIN segs = 1 .. Len(segs) /\ Len(segs) \in Nat /\ Len(segs) > 0
  BY LenProperties DEF Row

LEMMA CallKeeps ==
  ASSUME IInv, NEW c \in Callers, NEW fun \in {"alloc", "realloc", "free"},
         NEW p \in Nat, NEW n \in Nat, Call(c, fun, p, n),
         \/ fun = "alloc" /\ lo[c] = None
         \/ fun = "realloc" /\ lo[c] = None /\ p \in Foreign
         \/ fun \in {"realloc", "free"} /\ lo[c] # None /\ p = lo[c],
         fun # "free" => n \in Tables
  PROVE  IInv'
  <1>1. /\ pc[c] = "idle" /\ pc' = [pc EXCEPT ![c] = "lock"]
        /\ pc'[c] = "lock" /\ \A d \in Callers : d # c => pc'[d] = pc[d]
    BY DEF Call, Goto, IInv, TypeOK
  <1>2. /\ call'[c] = [fun |-> fun, ptr |-> p, tables |-> n]
        /\ \A d \in Callers : d # c => call'[d] = call[d]
        /\ call' \in [Callers -> Calls]
    BY DEF Call, IInv, TypeOK, Calls
  <1>3. UNCHANGED <<segments, lock, usedUntil, low, high, chosen, stale, lo, len, lost>>
    BY DEF Call, locals, blocks
  <1>4. \A d \in Callers : Holder(d)' <=> Holder(d)
    BY <1>1 DEF Holder
  <1>5. Locked'
    BY <1>3, <1>4 DEF IInv, Locked
  <1>6. TypeOK'
    BY <1>1, <1>2, <1>3 DEF IInv, TypeOK
  <1>7. Row(segments') /\ OwnedIsUsed' /\ Distinct'
    BY <1>3 DEF IInv, OwnedIsUsed, Distinct
  <1>8. ASSUME NEW d \in Callers
        PROVE  Plan(d)' /\ Knows(d)'
    <2>1. CASE d = c
      BY <1>1, <1>2, <1>3, <2>1 DEF Plan, Knows
    <2>2. CASE d # c
      <3>1. pc'[d] = pc[d] /\ call'[d] = call[d]
        BY <1>1, <1>2, <2>2
      <3>2. Plan(d) /\ Knows(d)
        BY DEF IInv
      <3>3. Plan(d)'
        BY <1>3, <3>1, <3>2 DEF Plan
      <3>4. Knows(d)'
        BY <1>3, <3>1, <3>2 DEF Knows, Ahead, Below, FoundBy, Settled, Room, Fits
      <3> QED
        BY <3>3, <3>4
    <2> QED
      BY <2>1, <2>2
  <1> QED
    BY <1>5, <1>6, <1>7, <1>8 DEF IInv

LEMMA LockKeeps ==
  ASSUME IInv, ~lost, NEW c \in Callers, Lock(c)
  PROVE  IInv'
  <1> DEFINE l == IF call[c].fun = "alloc" THEN "alloc" ELSE "search"
  <1>1. /\ pc[c] = "lock" /\ ~lock /\ lock' = TRUE
        /\ pc' = [pc EXCEPT ![c] = l]
        /\ pc'[c] = l /\ \A d \in Callers : d # c => pc'[d] = pc[d]
    BY DEF Lock, Goto, IInv, TypeOK
  <1>2. /\ UNCHANGED <<segments, usedUntil, call, chosen, stale, lo, len, lost>>
        /\ call[c].fun = "alloc" => UNCHANGED <<low, high>>
        /\ call[c].fun # "alloc" => low' = 0 /\ high' = Len(segments) - 1
    BY DEF Lock, blocks
  <1>3. /\ DOMAIN segments = 1 .. Len(segments) /\ Len(segments) \in Nat
        /\ Len(segments) > 0
    BY DomainIs DEF IInv
  <1>4. low' \in Nat /\ high' \in Nat
    BY <1>2, <1>3 DEF IInv, TypeOK
  <1>5. TypeOK'
    <2>1. pc' \in [Callers -> {"idle", "lock", "search", "alloc", "realloc", "free",
                               "mark", "unlock", "relock", "outside"}]
      BY <1>1 DEF IInv, TypeOK
    <2> QED
      BY <1>1, <1>2, <1>4, <2>1 DEF IInv, TypeOK
  <1>6. Locked'
    <2>1. \A d \in Callers : ~Holder(d)
      BY <1>1 DEF IInv, Locked
    <2>2. \A d \in Callers : Holder(d)' <=> d = c
      BY <1>1, <2>1 DEF Holder
    <2>3. lock' <=> \E d \in Callers : Holder(d)'
      BY <1>1, <2>2
    <2> QED
      BY <2>2, <2>3 DEF Locked
  <1>7. Row(segments') /\ OwnedIsUsed' /\ Distinct'
    BY <1>2 DEF IInv, OwnedIsUsed, Distinct
  <1>8. Plan(c)'
    <2>1. Plan(c) /\ call[c].fun \in {"alloc", "realloc", "free"}
      BY <1>1 DEF IInv, Plan
    <2>2. /\ l \in {"alloc", "search"}
          /\ l = "alloc" => call[c].fun = "alloc"
          /\ l = "search" => call[c].fun # "alloc"
      OBVIOUS
    <2>3. pc'[c] = l /\ pc[c] = "lock" /\ call' = call /\ lo' = lo
      BY <1>1, <1>2
    <2> HIDE DEF l
    <2>4. l \notin {"idle", "unlock", "realloc", "free", "mark"}
      BY <2>2
    <2>5. /\ \/ call[c].fun = "alloc" /\ lo[c] = None
             \/ call[c].fun = "realloc" /\ lo[c] = None /\ call[c].ptr \in Foreign
             \/ call[c].fun \in {"realloc", "free"} /\ lo[c] # None /\ call[c].ptr = lo[c]
          /\ call[c].fun # "free" => call[c].tables \in Tables
      BY <2>1, <2>3 DEF Plan
    <2> QED
      BY <2>2, <2>3, <2>4, <2>5 DEF Plan
  <1>9. Knows(c)'
    <2>1. l = "search" => Ahead(c)'
      <3> SUFFICES ASSUME l = "search"
                   PROVE  Ahead(c)'
        OBVIOUS
      <3>1. low' = 0 /\ high' = Len(segments) - 1
        BY <1>2
      <3>2. low' <= high' /\ high' < Len(segments')
        BY <1>2, <1>3, <3>1
      <3>3. lo[c] # None => \E t \in 0 .. Len(segments) - 1 : segments[t + 1].entries = lo[c]
        <4> SUFFICES ASSUME lo[c] # None
                     PROVE  \E t \in 0 .. Len(segments) - 1 : segments[t + 1].entries = lo[c]
          OBVIOUS
        <4>2. PICK i \in 1 .. Len(segments) : segments[i].entries = lo[c]
          BY <1>3 DEF IInv, OwnedIsUsed
        <4>3. i - 1 \in 0 .. Len(segments) - 1 /\ i - 1 + 1 = i
          BY <1>3
        <4> QED
          BY <4>2, <4>3
      <3> QED
        BY <1>2, <3>1, <3>2, <3>3 DEF Ahead
    <2>2. Room(c)'
      <3>1. Room(c)
        BY DEF Lock
      <3> QED
        BY <1>2, <3>1 DEF Room, Fits
    <2>3. l \in {"alloc", "search"}
      OBVIOUS
    <2> HIDE DEF l
    <2> QED
      BY <1>1, <2>1, <2>2, <2>3 DEF Knows
  <1>10. ASSUME NEW d \in Callers, d # c
         PROVE  Plan(d)' /\ Knows(d)'
    <2>1. pc'[d] = pc[d] /\ pc[d] \in Waiting
      BY <1>1, <1>10 DEF IInv, Locked, Holder, Waiting
    <2>2. Knows(d)'
      BY <2>1 DEF Knows, Waiting
    <2>3. Plan(d)'
      BY <1>2, <2>1 DEF IInv, Plan
    <2> QED
      BY <2>2, <2>3
  <1> QED
    BY <1>5, <1>6, <1>7, <1>8, <1>9, <1>10 DEF IInv

LEMMA UnlockKeeps ==
  ASSUME IInv, NEW c \in Callers, Unlock(c)
  PROVE  IInv'
  <1>1. /\ pc[c] = "unlock" /\ pc' = [pc EXCEPT ![c] = "idle"] /\ lock' = FALSE
        /\ pc'[c] = "idle" /\ \A d \in Callers : d # c => pc'[d] = pc[d]
    BY DEF Unlock, Goto, IInv, TypeOK
  <1>2. /\ \A d \in Callers : d # c => call'[d] = call[d]
        /\ call' \in [Callers -> Calls]
    BY DEF Unlock, NoCall, None, IInv, TypeOK, Calls
  <1>3. UNCHANGED <<segments, usedUntil, lo, len, lost>>
    BY DEF Unlock, blocks
  <1>4. TypeOK'
    <2>1. pc' \in [Callers -> {"idle", "lock", "search", "alloc", "realloc", "free",
                               "mark", "unlock", "relock", "outside"}]
      BY <1>1 DEF IInv, TypeOK
    <2>2. low' = 0 /\ high' = 0 /\ chosen' = None /\ stale' = FALSE
      BY DEF Unlock
    <2> QED
      BY <1>1, <1>2, <1>3, <2>1, <2>2 DEF IInv, TypeOK
  <1>5. \A d \in Callers : ~Holder(d)'
    <2>1. Holder(c)
      BY <1>1 DEF Holder
    <2> QED
      BY <1>1, <2>1 DEF Holder, IInv, Locked
  <1>6. Locked'
    BY <1>1, <1>5 DEF Locked
  <1>7. Row(segments') /\ OwnedIsUsed' /\ Distinct'
    BY <1>3 DEF IInv, OwnedIsUsed, Distinct
  <1>8. ASSUME NEW d \in Callers
        PROVE  Plan(d)' /\ Knows(d)'
    <2>1. pc'[d] \in Waiting
      BY <1>5, <1>4 DEF Holder, Waiting, TypeOK
    <2>2. Knows(d)'
      BY <2>1 DEF Knows, Waiting
    <2>3. CASE d = c
      BY <1>1, <2>2, <2>3 DEF Plan
    <2>4. CASE d # c
      BY <1>1, <1>2, <1>3, <2>2, <2>4 DEF IInv, Plan
    <2> QED
      BY <2>3, <2>4
  <1> QED
    BY <1>4, <1>6, <1>7, <1>8 DEF IInv

-----------------------------------------------------------------------------
(* The search.                                                              *)

LEMMA MiddleBetween ==
  ASSUME low \in Nat, high \in Nat, low <= high
  PROVE  Middle \in low .. high
  <1> DEFINE half == (high - low) \div 2
  <1>1. half \in Nat /\ half <= high - low
    OBVIOUS
  <1>2. Middle = low + half
    BY DEF Middle
  <1> HIDE DEF half
  <1> QED
    BY <1>1, <1>2

\* What the loop may rely on: a segment it looks at in the vector is a segment,
\* a table above the heap is beyond it and one below is in front of it, the
\* caller's block is between the bounds, and no other search leaves the vector.
LEMMA Looked ==
  ASSUME IInv, NEW c \in Callers, pc[c] = "search"
  PROVE  /\ low \in Nat /\ high \in Nat /\ Middle \in low .. high /\ Middle \in Nat
         /\ call[c].ptr \in Nat /\ call[c].fun \in {"realloc", "free"}
         /\ ~Below(c) => high < Len(segments) /\ InVector(Middle)
         /\ InVector(Middle) => /\ Middle + 1 \in 1 .. Len(segments)
                                /\ segments[Middle + 1].entries \in Nat
         /\ lo[c] # None => call[c].ptr = lo[c] /\ ~Below(c)
         /\ lo[c] = None =>
              /\ call[c].fun = "realloc"
              /\ InVector(Middle) => IF Below(c) THEN segments[Middle + 1].entries > call[c].ptr
                                     ELSE segments[Middle + 1].entries < call[c].ptr
  <1>1. /\ low \in Nat /\ high \in Nat /\ low <= high
        /\ ~Below(c) => high < Len(segments)
        /\ Len(segments) \in Nat
    BY DomainIs DEF IInv, TypeOK, Knows, Ahead
  <1>2. Middle \in low .. high /\ Middle \in Nat
    BY <1>1, MiddleBetween
  <1>3. /\ ~Below(c) => InVector(Middle)
        /\ InVector(Middle) => Middle + 1 \in 1 .. Len(segments)
    BY <1>1, <1>2 DEF InVector
  <1>4. /\ call[c].ptr \in Nat /\ call[c].fun \in {"realloc", "free"}
        /\ lo[c] # None => call[c].ptr = lo[c] /\ ~Below(c)
        /\ lo[c] = None => call[c].fun = "realloc" /\ call[c].ptr \in Foreign
    <2>1. Plan(c) /\ call[c].ptr \in Nat
      BY DEF IInv, TypeOK, Calls
    <2> QED
      BY <2>1 DEF Plan, Below
  <1>5. InVector(Middle) =>
          /\ segments[Middle + 1].entries \in Nat /\ segments[Middle + 1].count \in Nat
          /\ segments[Middle + 1].count > 0 /\ segments[Middle + 1].entries >= Base
          /\ segments[Middle + 1].entries + segments[Middle + 1].count <= Base + MaxTables
    <2> SUFFICES ASSUME InVector(Middle)
                 PROVE  /\ segments[Middle + 1].entries \in Nat
                        /\ segments[Middle + 1].count \in Nat
                        /\ segments[Middle + 1].count > 0
                        /\ segments[Middle + 1].entries >= Base
                        /\ segments[Middle + 1].entries + segments[Middle + 1].count
                             <= Base + MaxTables
      OBVIOUS
    <2> DEFINE m == Middle + 1
    <2>1. Row(segments) /\ m \in 1 .. Len(segments)
      BY <1>3 DEF IInv
    <2> HIDE DEF m
    <2>2. /\ segments[m].entries \in Nat /\ segments[m].count \in Nat
          /\ segments[m].count > 0 /\ End(segments[m]) <= Base + MaxTables
          /\ Base <= segments[m].entries
      BY <2>1, SegmentOf
    <2> QED
      BY <2>2, PageHeapAssumption DEF m, End
  <1>6. lo[c] = None /\ InVector(Middle) =>
          IF Below(c) THEN segments[Middle + 1].entries > call[c].ptr
          ELSE segments[Middle + 1].entries < call[c].ptr
    <2> SUFFICES ASSUME lo[c] = None, InVector(Middle)
                 PROVE  IF Below(c) THEN segments[Middle + 1].entries > call[c].ptr
                        ELSE segments[Middle + 1].entries < call[c].ptr
      OBVIOUS
    <2>1. /\ call[c].ptr \in Nat /\ Base \in Nat /\ MaxTables \in Nat
          /\ Below(c) <=> call[c].ptr < Base
          /\ call[c].ptr < Base \/ call[c].ptr >= Base + MaxTables
      BY <1>4, PageHeapAssumption DEF Below
    <2> QED
      BY <1>5, <2>1
  <1> QED
    BY <1>1, <1>2, <1>3, <1>4, <1>5, <1>6

\* The entries climb with the index.
LEMMA Climbing ==
  ASSUME IInv, NEW i \in 1 .. Len(segments), NEW j \in 1 .. Len(segments), i < j
  PROVE  segments[i].entries < segments[j].entries
  <1>1. /\ segments[i].entries \in Nat /\ segments[i].count \in Nat
        /\ segments[j].entries \in Nat /\ segments[i].count > 0
    BY SegmentOf DEF IInv
  <1>2. segments[i].entries + segments[i].count <= segments[j].entries
    BY DEF IInv, Row, End
  <1> QED
    BY <1>1, <1>2

\* A turn of the search touches nothing but its own bounds.
LEMMA SearchKeeps ==
  ASSUME IInv, NEW c \in Callers, Holder(c), NEW l \in Working, Goto(c, l),
         UNCHANGED <<segments, lock, usedUntil, call, stale, lo, len, lost>>,
         low' \in Nat, high' \in Nat, chosen' \in DOMAIN segments' \cup {None},
         Plan(c)', Knows(c)'
  PROVE  IInv'
  <1>1. /\ Row(segments') /\ OwnedIsUsed' /\ Distinct'
        /\ usedUntil' \in DOMAIN segments'
        /\ lo' \in [Callers -> Nat] /\ len' \in [Callers -> Nat]
    BY DEF IInv, TypeOK, OwnedIsUsed, Distinct
  <1>2. stale' \in BOOLEAN /\ lost' \in BOOLEAN
    BY DEF IInv, TypeOK
  <1> QED
    BY <1>1, <1>2, HolderKeeps

LEMMA HitKeeps ==
  ASSUME IInv, NEW c \in Callers, Search(c), Hit(c)
  PROVE  IInv'
  <1>1. /\ pc[c] = "search" /\ Goto(c, call[c].fun) /\ chosen' = Middle + 1
        /\ UNCHANGED <<segments, lock, usedUntil, call, low, high, stale, lo, len, lost>>
        /\ segments[Middle + 1].entries = call[c].ptr /\ InVector(Middle)
    BY DEF Search, Hit, blocks
  <1>2. /\ Middle + 1 \in DOMAIN segments
        /\ call[c].fun \in {"realloc", "free"}
        /\ lo[c] # None /\ call[c].ptr = lo[c]
    <2>1. /\ Middle + 1 \in 1 .. Len(segments) /\ segments[Middle + 1].entries \in Nat
          /\ call[c].fun \in {"realloc", "free"}
          /\ lo[c] # None => call[c].ptr = lo[c]
          /\ lo[c] = None => segments[Middle + 1].entries > call[c].ptr
                             \/ segments[Middle + 1].entries < call[c].ptr
      BY <1>1, Looked
    <2>2. lo[c] # None
      BY <1>1, <2>1
    <2> QED
      BY <2>1, <2>2, DomainIs DEF IInv
  <1>3. Holder(c) /\ call[c].fun \in Working
    BY <1>1, <1>2 DEF Holder, Working
  <1>4. pc'[c] = call[c].fun
    BY <1>1 DEF Goto, IInv, TypeOK
  <1>5. Plan(c)'
    <2>1. Plan(c)
      BY DEF IInv
    <2> QED
      BY <1>1, <1>2, <1>4, <2>1 DEF Plan
  <1>6. Knows(c)'
    <2>1. FoundBy(c)'
      BY <1>1, <1>2 DEF FoundBy
    <2> QED
      BY <1>1, <1>2, <1>4, <2>1 DEF Knows
  <1>7. /\ low' \in Nat /\ high' \in Nat
        /\ chosen' \in DOMAIN segments' \cup {None}
    BY <1>1, <1>2 DEF IInv, TypeOK
  <1> QED
    BY <1>1, <1>3, <1>5, <1>6, <1>7, SearchKeeps

\* A turn of a search for a table of other origin: whatever the bounds become,
\* nothing has been found.
LEMMA TurnKeeps ==
  ASSUME IInv, NEW c \in Callers, Search(c), Turn(c), lo[c] = None,
         low' \in Nat, high' \in Nat, ~Below(c) => high' < Len(segments)
  PROVE  IInv'
  <1> DEFINE l == IF Again(low', high') THEN "search" ELSE call[c].fun
  <1>1. /\ pc[c] = "search" /\ Goto(c, l) /\ chosen' = None
        /\ UNCHANGED <<segments, lock, usedUntil, call, stale, lo, len, lost>>
    BY DEF Search, Turn, blocks
  <1>2. call[c].fun = "realloc"
    BY <1>1, Looked
  <1>3. /\ Holder(c) /\ l \in Working /\ l \in {"search", "realloc"}
        /\ l = "search" => low' <= high'
    BY <1>1, <1>2 DEF Holder, Working, Again
  <1> HIDE DEF l
  <1>4. pc'[c] = l
    BY <1>1 DEF Goto, IInv, TypeOK
  <1>5. Plan(c)'
    <2>1. Plan(c)
      BY DEF IInv
    <2> QED
      BY <1>1, <1>2, <1>3, <1>4, <2>1 DEF Plan
  <1>6. Knows(c)'
    <2>1. l = "search" => Ahead(c)'
      BY <1>1, <1>3 DEF Ahead, Below
    <2>2. FoundBy(c)'
      BY <1>1 DEF FoundBy
    <2>3. Room(c)'
      <3>1. Room(c)
        BY <1>1 DEF IInv, Knows
      <3> QED
        BY <1>1, <3>1 DEF Room, Fits
    <2> QED
      BY <1>3, <1>4, <2>1, <2>2, <2>3 DEF Knows
  <1> QED
    BY <1>1, <1>3, <1>5, <1>6, SearchKeeps

\* Behind the vector only searches for a table below the heap go on.
LEMMA StrayKeeps ==
  ASSUME IInv, NEW c \in Callers, Search(c), Stray(c)
  PROVE  IInv'
  <1>1. pc[c] = "search" /\ Turn(c) /\ ~InVector(Middle)
    BY DEF Search, Stray
  <1>2. /\ lo[c] = None /\ Below(c)
        /\ low \in Nat /\ high \in Nat /\ Middle \in Nat
    BY <1>1, Looked
  <1>3. Middle > 0
    <2>1. Len(segments) \in Nat /\ Len(segments) > 0
      BY DomainIs DEF IInv
    <2> QED
      BY <1>1, <1>2, <2>1 DEF InVector
  <1>4. low' \in Nat /\ high' \in Nat
    <2>1. \/ low' = (IF Middle = SizeMax THEN 0 ELSE Middle + 1) /\ high' = high
          \/ low' = low /\ high' = Middle - 1
      BY DEF Stray
    <2>2. ASSUME NEW m \in Nat
          PROVE  (IF m = SizeMax THEN 0 ELSE m + 1) \in Nat /\ (m > 0 => m - 1 \in Nat)
      OBVIOUS
    <2> QED
      BY <1>2, <1>3, <2>1, <2>2
  <1> QED
    BY <1>1, <1>2, <1>4, TurnKeeps

\* And only one of those takes what is there for a segment, or faults.
LEMMA DerailKeeps ==
  ASSUME IInv, NEW c \in Callers, Search(c), Derail(c)
  PROVE  IInv'
  <1>1. /\ pc[c] = "search" /\ Goto(c, "outside") /\ ~InVector(Middle)
        /\ UNCHANGED <<segments, lock, usedUntil, call, low, high, chosen, stale, lo, len, lost>>
    BY DEF Search, Derail, blocks
  <1>2. Below(c)
    BY <1>1, Looked
  <1>3. pc'[c] = "outside" /\ "outside" \in Working /\ Holder(c)
    BY <1>1 DEF Goto, IInv, TypeOK, Working, Holder
  <1>4. Plan(c)'
    <2>1. Plan(c)
      BY DEF IInv
    <2> QED
      BY <1>1, <1>3, <2>1 DEF Plan
  <1>5. Knows(c)'
    BY <1>1, <1>2, <1>3 DEF Knows, Below
  <1>6. low' \in Nat /\ high' \in Nat /\ chosen' \in DOMAIN segments' \cup {None}
    BY <1>1 DEF IInv, TypeOK
  <1> QED
    BY <1>1, <1>3, <1>4, <1>5, <1>6, SearchKeeps

\* A turn that misses takes the half the block is in: high wraps only below
\* the first segment, and a caller that owns a block does not leave the loop
\* without it.
LEMMA MissKeeps ==
  ASSUME IInv, NEW c \in Callers, Search(c), Miss(c)
  PROVE  IInv'
  <1> DEFINE at == segments[Middle + 1].entries
             l == IF Again(low', high') THEN "search" ELSE call[c].fun
  <1>1. /\ pc[c] = "search" /\ Goto(c, l) /\ chosen' = None /\ Turn(c)
        /\ UNCHANGED <<segments, lock, usedUntil, call, stale, lo, len, lost>>
        /\ at # call[c].ptr /\ InVector(Middle)
    BY DEF Search, Miss, Turn, blocks
  <1>2. /\ low' = IF at < call[c].ptr THEN Middle + 1 ELSE low
        /\ high' = IF at < call[c].ptr THEN high
                   ELSE IF Middle = 0 THEN SizeMax ELSE Middle - 1
    BY DEF Miss
  <1>3. /\ low \in Nat /\ high \in Nat /\ Middle \in low .. high
        /\ Middle + 1 \in 1 .. Len(segments) /\ Middle \in Nat
        /\ at \in Nat
        /\ call[c].ptr \in Nat /\ call[c].fun \in {"realloc", "free"}
        /\ lo[c] # None => call[c].ptr = lo[c] /\ ~Below(c)
        /\ lo[c] = None => (~Below(c) => at < call[c].ptr)
        /\ ~Below(c) => high < Len(segments)
    BY <1>1, Looked
  <1>4. low' \in Nat /\ high' \in Nat
    <2> HIDE DEF at
    <2> QED
      BY <1>2, <1>3, PageHeapAssumption
  <1>5. Holder(c) /\ l \in Working /\ l \in {"search", "realloc", "free"}
        /\ (l = "search" <=> low' <= high') /\ (l # "search" => l = call[c].fun)
    BY <1>1, <1>3 DEF Holder, Working, Again
  <1>6. pc'[c] = l
    BY <1>1 DEF Goto, IInv, TypeOK
  <1>7. Plan(c)'
    <2>1. Plan(c)
      BY DEF IInv
    <2> HIDE DEF l, at
    <2> QED
      BY <1>1, <1>3, <1>5, <1>6, <2>1 DEF Plan
  <1>8. CASE lo[c] = None
    <2>1. ~Below(c) => high' < Len(segments)
      <3> HIDE DEF at
      <3> QED
        BY <1>2, <1>3, <1>8
    <2> QED
      BY <1>1, <1>4, <1>8, <2>1, TurnKeeps
  <1>9. CASE lo[c] # None
    <2>0. high < Len(segments) /\ Len(segments) \in Nat
      BY <1>3, <1>9, DomainIs DEF IInv
    <2>1. PICK t \in low .. high : segments[t + 1].entries = call[c].ptr
      BY <1>1, <1>3, <1>9 DEF IInv, Knows, Ahead
    <2>2. t + 1 \in 1 .. Len(segments) /\ t \in Nat /\ t # Middle
      BY <1>1, <1>3, <2>0, <2>1
    <2>3. CASE at < call[c].ptr
      <3>1. t > Middle
        <4>1. ~(t + 1 < Middle + 1)
          BY <1>3, <2>1, <2>2, <2>3, Climbing
        <4> QED
          BY <1>3, <2>2, <4>1
      <3>2. low' = Middle + 1 /\ high' = high
        BY <1>2, <2>3
      <3> HIDE DEF l, at
      <3>3. t \in low' .. high' /\ low' <= high' /\ high' < Len(segments')
        BY <1>1, <1>3, <2>0, <2>2, <3>1, <3>2
      <3>4. l = "search" /\ Ahead(c)'
        BY <1>1, <1>3, <1>5, <2>1, <3>3 DEF Ahead
      <3>5. Knows(c)'
        BY <1>1, <1>6, <1>9, <3>4 DEF Knows
      <3> QED
        BY <1>1, <1>4, <1>5, <1>7, <3>5, SearchKeeps
    <2>4. CASE ~(at < call[c].ptr)
      <3>1. t < Middle
        <4>1. ~(Middle + 1 < t + 1)
          BY <1>1, <1>3, <2>1, <2>2, <2>4, Climbing
        <4> QED
          BY <1>3, <2>2, <4>1
      <3>2. low' = low /\ high' = Middle - 1
        BY <1>2, <1>3, <2>2, <2>4, <3>1
      <3> HIDE DEF l, at
      <3>3. t \in low' .. high' /\ low' <= high' /\ high' < Len(segments')
        BY <1>1, <1>3, <2>0, <2>2, <3>1, <3>2
      <3>4. l = "search" /\ Ahead(c)'
        BY <1>1, <1>3, <1>5, <2>1, <3>3 DEF Ahead
      <3>5. Knows(c)'
        BY <1>1, <1>6, <1>9, <3>4 DEF Knows
      <3> QED
        BY <1>1, <1>4, <1>5, <1>7, <3>5, SearchKeeps
    <2> QED
      BY <2>3, <2>4
  <1> QED
    BY <1>8, <1>9

-----------------------------------------------------------------------------
(* Allocation.                                                              *)

\* What an allocation has to show for the owners: the new block has a
\* segment that was free or is new, and the other used segments stay.
LEMMA Taken ==
  ASSUME IInv, ~lost, NEW c \in Callers, lo[c] = None, NEW n \in Nat,
         NEW m \in 1 .. Len(segments'), Row(segments'),
         segments'[m].used, segments'[m].count >= n,
         Own(c, segments'[m].entries, n),
         \A k \in 1 .. Len(segments) : segments[k].used =>
           k # m /\ k \in 1 .. Len(segments') /\ segments'[k] = segments[k],
         \A k \in 1 .. Len(segments') : k # m /\ segments'[k].used =>
           k \in 1 .. Len(segments) /\ segments'[k] = segments[k]
  PROVE  /\ OwnedIsUsed' /\ Distinct'
         /\ lo' \in [Callers -> Nat] /\ len' \in [Callers -> Nat]
         /\ lo'[c] # None /\ \A d \in Callers : d # c => lo'[d] = lo[d]
  <1>1. /\ segments'[m].entries \in Nat /\ segments'[m].entries # None
    BY SegmentOf, PageHeapAssumption DEF None
  <1>2. /\ lo'[c] = segments'[m].entries /\ len'[c] = n
        /\ \A d \in Callers : d # c => lo'[d] = lo[d] /\ len'[d] = len[d]
        /\ lo' \in [Callers -> Nat] /\ len' \in [Callers -> Nat]
    BY <1>1 DEF Own, IInv, TypeOK
  <1>3. /\ DOMAIN segments = 1 .. Len(segments)
        /\ DOMAIN segments' = 1 .. Len(segments')
    BY DomainIs DEF IInv
  <1>4. ASSUME NEW d \in Callers, d # c, lo[d] # None
        PROVE  /\ \E k \in 1 .. Len(segments') : k # m /\ segments'[k].used
                    /\ segments'[k].entries = lo[d] /\ segments'[k].count >= len[d]
               /\ lo[d] # segments'[m].entries
    <2>1. PICK k \in 1 .. Len(segments) :
            segments[k].used /\ segments[k].entries = lo[d] /\ segments[k].count >= len[d]
      BY <1>3, <1>4 DEF IInv, OwnedIsUsed
    <2>2. k # m /\ k \in 1 .. Len(segments') /\ segments'[k] = segments[k]
      BY <2>1
    <2>3. segments'[k].entries # segments'[m].entries
      BY <2>2, OneSegment
    <2> QED
      BY <2>1, <2>2, <2>3
  <1>5. ASSUME NEW d \in Callers, lo'[d] # None
        PROVE  \E k \in 1 .. Len(segments') : segments'[k].used
                 /\ segments'[k].entries = lo'[d] /\ segments'[k].count >= len'[d]
    <2>1. CASE d = c
      BY <1>2, <2>1
    <2>2. CASE d # c
      <3>1. lo'[d] = lo[d] /\ len'[d] = len[d] /\ lo[d] # None
        BY <1>2, <1>5, <2>2
      <3>2. \E k \in 1 .. Len(segments') : k # m /\ segments'[k].used
              /\ segments'[k].entries = lo[d] /\ segments'[k].count >= len[d]
        BY <1>4, <2>2, <3>1
      <3> QED
        BY <3>1, <3>2
    <2> QED
      BY <2>1, <2>2
  <1>6. ASSUME NEW k \in 1 .. Len(segments'), segments'[k].used
        PROVE  \E d \in Callers : lo'[d] = segments'[k].entries
    <2>1. CASE k = m
      BY <1>2, <2>1
    <2>2. CASE k # m
      <3>1. k \in 1 .. Len(segments) /\ segments'[k] = segments[k]
        BY <1>6, <2>2
      <3>2. PICK d \in Callers : lo[d] = segments[k].entries
        BY <1>3, <1>6, <3>1 DEF IInv, OwnedIsUsed
      <3>3. segments[k].entries # None
        <4>1. segments[k].entries \in Nat /\ Base <= segments[k].entries
          BY <3>1, SegmentOf DEF IInv
        <4> QED
          BY <4>1, PageHeapAssumption DEF None
      <3> QED
        BY <1>2, <3>1, <3>2, <3>3
    <2> QED
      BY <2>1, <2>2
  <1>7. OwnedIsUsed'
    BY <1>3, <1>5, <1>6 DEF OwnedIsUsed
  <1>8. ASSUME NEW d \in Callers, NEW e \in Callers, lo'[d] # None, lo'[d] = lo'[e]
        PROVE  d = e
    <2>1. CASE d # c /\ e # c
      BY <1>2, <1>8, <2>1 DEF IInv, Distinct
    <2>2. CASE d = c /\ e # c
      BY <1>1, <1>2, <1>4, <1>8, <2>2
    <2>3. CASE d # c /\ e = c
      BY <1>1, <1>2, <1>4, <1>8, <2>3
    <2> QED
      BY <2>1, <2>2, <2>3
  <1> QED
    BY <1>1, <1>2, <1>7, <1>8 DEF Distinct

\* A division leaves every block a segment of its own.
LEMMA TrimOwned ==
  ASSUME IInv, ~lost, NEW i \in 1 .. Len(segments), NEW n \in Nat, n > 0,
         n <= segments[i].count, segments' = Trim(segments, i, n),
         lo' = lo, len' \in [Callers -> Nat],
         \A d \in Callers : lo[d] # None =>
           IF lo[d] = segments[i].entries THEN len'[d] <= n ELSE len'[d] = len[d]
  PROVE  /\ Row(segments') /\ OwnedIsUsed' /\ Distinct'
         /\ Len(segments') >= Len(segments) /\ i \in 1 .. Len(segments')
         /\ segments'[i].entries = segments[i].entries
         /\ segments'[i].used = segments[i].used
         /\ segments'[i].count >= n
  <1> DEFINE t == Trim(segments, i, n)
  <1>1. Row(segments)
    BY DEF IInv
  <1>2. /\ Row(t) /\ Len(t) >= Len(segments)
        /\ t[i].entries = segments[i].entries
        /\ t[i].used = segments[i].used
        /\ t[i].count >= n
        /\ \A k \in 1 .. Len(segments) : k # i => \E j \in 1 .. Len(t) : t[j] = segments[k]
        /\ \A j \in 1 .. Len(t) : t[j].used =>
             \E k \in 1 .. Len(segments) : segments[k].used /\ segments[k].entries = t[j].entries
    BY <1>1, TrimShape
  <1> HIDE DEF t
  <1>3. /\ DOMAIN segments = 1 .. Len(segments) /\ DOMAIN t = 1 .. Len(t)
        /\ Len(segments) \in Nat /\ Len(t) \in Nat
    BY <1>1, <1>2, DomainIs
  <1>4. i \in 1 .. Len(t)
    BY <1>2, <1>3
  <1>5. ASSUME NEW d \in Callers, lo[d] # None
        PROVE  \E j \in 1 .. Len(t) :
                 t[j].used /\ t[j].entries = lo[d] /\ t[j].count >= len'[d]
    <2>1. PICK k \in 1 .. Len(segments) :
            segments[k].used /\ segments[k].entries = lo[d] /\ segments[k].count >= len[d]
      BY <1>3, <1>5 DEF IInv, OwnedIsUsed
    <2>2. CASE k = i
      <3>1. len'[d] <= n /\ t[i].count >= n /\ n \in Nat /\ len'[d] \in Nat
            /\ t[i].count \in Nat
        BY <1>2, <1>4, <1>5, <2>1, <2>2, SegmentOf
      <3>2. t[i].count >= len'[d]
        BY <3>1
      <3>3. t[i].used /\ t[i].entries = lo[d]
        BY <1>2, <2>1, <2>2
      <3> QED
        BY <1>4, <3>2, <3>3
    <2>3. CASE k # i
      <3>1. lo[d] # segments[i].entries
        BY <1>1, <2>1, <2>3, OneSegment
      <3>2. len'[d] = len[d]
        BY <1>5, <3>1
      <3>3. PICK j \in 1 .. Len(t) : t[j] = segments[k]
        BY <1>2, <2>3
      <3> QED
        BY <2>1, <3>2, <3>3
    <2> QED
      BY <2>2, <2>3
  <1>6. ASSUME NEW j \in 1 .. Len(t), t[j].used
        PROVE  \E d \in Callers : lo[d] = t[j].entries
    <2>1. PICK k \in 1 .. Len(segments) : segments[k].used /\ segments[k].entries = t[j].entries
      BY <1>2, <1>6
    <2>2. PICK d \in Callers : lo[d] = segments[k].entries
      BY <1>3, <2>1 DEF IInv, OwnedIsUsed
    <2> QED
      BY <2>1, <2>2
  <1>7. segments' = t
    BY DEF t
  <1>8. OwnedIsUsed'
    BY <1>3, <1>5, <1>6, <1>7 DEF OwnedIsUsed
  <1>9. Distinct'
    BY DEF IInv, Distinct
  <1> QED
    BY <1>2, <1>4, <1>7, <1>8, <1>9

\* What a caller that allocates has: no block, and a size to ask for.
LEMMA Allocates ==
  ASSUME IInv, NEW c \in Callers, pc[c] \in {"alloc", "realloc", "mark"}
  PROVE  /\ call[c].tables \in Tables /\ call[c].tables \in Nat /\ call[c].tables > 0
         /\ Holder(c)
         /\ pc[c] = "mark" => lo[c] = None
         /\ pc[c] = "realloc" /\ chosen = None => lo[c] = None
         /\ pc[c] = "alloc" => lo[c] = None
  <1>1. Plan(c) /\ Knows(c)
    BY DEF IInv
  <1>2. pc[c] = "realloc" /\ chosen = None => lo[c] = None
    <2> SUFFICES ASSUME pc[c] = "realloc", chosen = None, lo[c] # None
                 PROVE  FALSE
      OBVIOUS
    <2>1. chosen \in 1 .. Len(segments)
      BY <1>1, DomainIs DEF Knows, FoundBy, IInv
    <2> QED
      BY <2>1 DEF None
  <1>3. call[c].fun # "free"
    BY <1>1 DEF Plan
  <1>4. call[c].tables \in Tables
    BY <1>1, <1>3 DEF Plan
  <1>5. /\ Holder(c) /\ (pc[c] = "mark" => lo[c] = None)
        /\ (pc[c] = "alloc" => lo[c] = None)
    BY <1>1 DEF Plan, Holder
  <1>6. call[c].tables \in Nat \ {0}
    BY <1>4, PageHeapAssumption
  <1> QED
    BY <1>2, <1>4, <1>5, <1>6

LEMMA FindKeeps ==
  ASSUME IInv, ~lost, NEW c \in Callers, pc[c] \in {"alloc", "realloc"},
         lo[c] = None, Find(c)
  PROVE  IInv'
  <1> DEFINE n == call[c].tables
  <1>0. n \in Nat /\ n > 0 /\ Holder(c)
    BY Allocates
  <1>1. PICK i \in Lowest(Fits(n)) :
          /\ chosen' = i /\ segments' = Trim(segments, i, n)
          /\ stale' \in BOOLEAN
          /\ Goto(c, "mark")
          /\ UNCHANGED <<lock, usedUntil, call, low, high, lo, len, lost>>
    BY DEF Find, blocks
  <1>2. /\ DOMAIN segments = 1 .. Len(segments) /\ Len(segments) \in Nat
        /\ usedUntil \in 1 .. Len(segments)
    BY DomainIs DEF IInv, TypeOK
  <1>3. i \in 1 .. Len(segments) /\ ~segments[i].used /\ segments[i].count >= n
    BY <1>2 DEF Lowest, Fits
  <1>4. segments[i].count \in Nat
    BY <1>3, SegmentOf DEF IInv
  <1>5. \A d \in Callers : lo[d] # None => lo[d] # segments[i].entries
    <2> SUFFICES ASSUME NEW d \in Callers, lo[d] # None, lo[d] = segments[i].entries
                 PROVE  FALSE
      OBVIOUS
    <2>1. PICK k \in 1 .. Len(segments) : segments[k].used /\ segments[k].entries = lo[d]
      BY <1>2 DEF IInv, OwnedIsUsed
    <2>2. k = i
      BY <1>3, <2>1, OneSegment DEF IInv
    <2> QED
      BY <1>3, <2>1, <2>2
  <1> HIDE DEF n
  <1>6. /\ Row(segments') /\ OwnedIsUsed' /\ Distinct'
        /\ Len(segments') >= Len(segments) /\ i \in 1 .. Len(segments')
        /\ segments'[i].used = segments[i].used
        /\ segments'[i].count >= n
    <2>1. lo' = lo /\ len' \in [Callers -> Nat]
          /\ \A d \in Callers : lo[d] # None =>
               IF lo[d] = segments[i].entries THEN len'[d] <= n ELSE len'[d] = len[d]
      BY <1>1, <1>5 DEF IInv, TypeOK
    <2>2. n <= segments[i].count
      BY <1>0, <1>3, <1>4
    <2> QED
      BY <1>0, <1>1, <1>3, <2>1, <2>2, TrimOwned
  <1>7. DOMAIN segments' = 1 .. Len(segments') /\ Len(segments') \in Nat
    BY <1>6, DomainIs
  <1>8. usedUntil' \in DOMAIN segments' /\ chosen' \in DOMAIN segments'
    BY <1>1, <1>2, <1>6, <1>7
  <1>9. pc'[c] = "mark"
    BY <1>1 DEF Goto, IInv, TypeOK
  <1>10. Knows(c)'
    <2>1. ~segments'[i].used
      BY <1>3, <1>6
    <2>2. Settled(c)'
      BY <1>1, <1>6, <1>8, <2>1 DEF Settled, n
    <2> QED
      BY <1>9, <2>2 DEF Knows
  <1>11. Plan(c)'
    <2>1. Plan(c)
      BY DEF IInv
    <2> QED
      BY <1>1, <1>9, <2>1 DEF Plan
  <1>12. /\ low' \in Nat /\ high' \in Nat /\ lo' \in [Callers -> Nat]
         /\ len' \in [Callers -> Nat]
    BY <1>1 DEF IInv, TypeOK
  <1>13. lost' \in BOOLEAN /\ "mark" \in Working
    BY <1>1 DEF IInv, TypeOK, Working
  <1> QED
    BY <1>0, <1>1, <1>6, <1>8, <1>10, <1>11, <1>12, <1>13, HolderKeeps

LEMMA MarkKeeps ==
  ASSUME IInv, ~lost, NEW c \in Callers, Mark(c)
  PROVE  IInv'
  <1> DEFINE n == call[c].tables
             at == segments[chosen].entries
  <1>0. n \in Nat /\ Holder(c) /\ lo[c] = None
    BY Allocates DEF Mark
  <1>1. /\ segments' = IF stale THEN segments ELSE [segments EXCEPT ![chosen].used = TRUE]
        /\ lost' = (lost \/ stale)
        /\ usedUntil' = IF usedUntil < chosen THEN chosen ELSE usedUntil
        /\ Own(c, at, n) /\ Goto(c, "unlock")
        /\ UNCHANGED <<lock, call, low, high, chosen, stale>>
    BY DEF Mark, locals
  <1>2. /\ DOMAIN segments = 1 .. Len(segments)
        /\ Row(segments)
    BY DomainIs DEF IInv
  <1>3. /\ chosen \in 1 .. Len(segments) /\ ~segments[chosen].used
        /\ segments[chosen].count >= n
    BY <1>2 DEF Mark, IInv, Knows, Settled
  <1>4. /\ Row(segments') /\ Len(segments') = Len(segments)
        /\ \A k \in 1 .. Len(segments) :
             /\ segments'[k].entries = segments[k].entries
             /\ segments'[k].count = segments[k].count
             /\ k # chosen => segments'[k] = segments[k]
        /\ ~stale => segments'[chosen].used
    <2>1. CASE stale
      BY <1>1, <1>2, <2>1
    <2>2. CASE ~stale
      BY <1>1, <1>2, <1>3, <2>2, FlagShape
    <2> QED
      BY <2>1, <2>2
  <1>5. DOMAIN segments' = 1 .. Len(segments)
    BY <1>4, DomainIs
  <1>6. at \in Nat
    BY <1>2, <1>3, SegmentOf
  <1>7. /\ OwnedIsUsed' /\ Distinct'
        /\ lo' \in [Callers -> Nat] /\ len' \in [Callers -> Nat]
        /\ \A d \in Callers : d # c => lo'[d] = lo[d]
    <2>1. CASE stale
      <3>1. lost'
        BY <1>1, <2>1
      <3> QED
        BY <1>0, <1>1, <1>6, <3>1 DEF OwnedIsUsed, Distinct, Own, IInv, TypeOK
    <2>2. CASE ~stale
      <3>1. /\ chosen \in 1 .. Len(segments') /\ segments'[chosen].used
            /\ segments'[chosen].count >= n /\ segments'[chosen].entries = at
        BY <1>3, <1>4, <2>2
      <3>2. \A k \in 1 .. Len(segments) : segments[k].used =>
              k # chosen /\ k \in 1 .. Len(segments') /\ segments'[k] = segments[k]
        BY <1>3, <1>4
      <3>3. \A k \in 1 .. Len(segments') : k # chosen /\ segments'[k].used =>
              k \in 1 .. Len(segments) /\ segments'[k] = segments[k]
        BY <1>4
      <3>4. Own(c, segments'[chosen].entries, n)
        BY <1>1, <3>1
      <3> HIDE DEF n, at
      <3> QED
        BY <1>0, <1>4, <3>1, <3>2, <3>3, <3>4, Taken
    <2> QED
      BY <2>1, <2>2
  <1>8. /\ usedUntil' \in DOMAIN segments' /\ chosen' \in DOMAIN segments' \cup {None}
        /\ low' \in Nat /\ high' \in Nat
    BY <1>1, <1>2, <1>3, <1>5 DEF IInv, TypeOK
  <1>9. stale' \in BOOLEAN /\ lost' \in BOOLEAN
    BY <1>1 DEF IInv, TypeOK
  <1>10. pc'[c] = "unlock" /\ "unlock" \in Working
    BY <1>1 DEF Goto, IInv, TypeOK, Working
  <1>11. Plan(c)' /\ Knows(c)'
    BY <1>10 DEF Plan, Knows
  <1> QED
    BY <1>0, <1>1, <1>4, <1>7, <1>8, <1>9, <1>10, <1>11, HolderKeeps

\* What an allocation by enlarging the heap leaves alone.
LEMMA EnlargeRest ==
  ASSUME IInv, NEW c \in Callers, pc[c] \in {"alloc", "realloc"}, Enlarge(c),
         Row(segments'), Len(segments') >= Len(segments), OwnedIsUsed', Distinct',
         lo' \in [Callers -> Nat], len' \in [Callers -> Nat],
         \A d \in Callers : d # c => lo'[d] = lo[d]
  PROVE  IInv'
  <1>1. /\ Goto(c, "unlock") /\ Holder(c)
        /\ UNCHANGED <<lock, usedUntil, call, low, high, chosen, stale, lost>>
    BY DEF Enlarge, locals, Holder
  <1>2. /\ DOMAIN segments = 1 .. Len(segments) /\ Len(segments) \in Nat
        /\ DOMAIN segments' = 1 .. Len(segments') /\ Len(segments') \in Nat
    BY DomainIs DEF IInv
  <1>3. /\ usedUntil' \in DOMAIN segments' /\ chosen' \in DOMAIN segments' \cup {None}
        /\ low' \in Nat /\ high' \in Nat
    BY <1>1, <1>2 DEF IInv, TypeOK
  <1>4. stale' \in BOOLEAN /\ lost' \in BOOLEAN
    BY <1>1 DEF IInv, TypeOK
  <1>5. pc'[c] = "unlock" /\ "unlock" \in Working
    BY <1>1 DEF Goto, IInv, TypeOK, Working
  <1>6. Plan(c)' /\ Knows(c)'
    BY <1>5 DEF Plan, Knows
  <1> QED
    BY <1>1, <1>3, <1>4, <1>5, <1>6, HolderKeeps

LEMMA EnlargeKeeps ==
  ASSUME IInv, ~lost, NEW c \in Callers, pc[c] \in {"alloc", "realloc"},
         lo[c] = None, Enlarge(c)
  PROVE  IInv'
  <1> DEFINE n == call[c].tables
             k == Len(segments)
  <1>0. n \in Nat /\ n > 0 /\ Holder(c)
    BY Allocates
  <1>1. /\ Fits(n) = {}
        /\ segments' = IF segments[k].used THEN Expand(segments, n)
                       ELSE [segments EXCEPT ![k] = Segment(@.entries, n, TRUE)]
        /\ Own(c, Last(segments').entries, n)
        /\ Goto(c, "unlock")
        /\ UNCHANGED <<lock, usedUntil, call, low, high, chosen, stale, lost>>
    BY DEF Enlarge, locals
  <1>2. /\ DOMAIN segments = 1 .. k /\ k \in Nat /\ k > 0
        /\ Row(segments)
    BY DomainIs DEF IInv
  <1>3. /\ segments[k].entries \in Nat /\ segments[k].count \in Nat
        /\ End(segments[k]) = segments[k].entries + segments[k].count
    BY <1>2, SegmentOf DEF End
  <1>4. End(segments[k]) + n <= Base + MaxTables
    <2>1. Room(c)
      BY DEF IInv, Knows
    <2> QED
      BY <1>1, <2>1 DEF Room, Last, End
  <1> HIDE DEF n
  <1>5. CASE segments[k].used
    <2> DEFINE m == k + 1
    <2>1. segments' = Expand(segments, n)
      BY <1>1, <1>5
    <2>2. /\ Row(segments') /\ Len(segments') = m
          /\ \A j \in 1 .. k : segments'[j] = segments[j]
          /\ segments'[m] = Segment(End(segments[k]), n, TRUE)
      BY <1>0, <1>2, <1>4, <2>1, ExpandShape
    <2>3. segments'[m].used /\ segments'[m].count = n
      BY <2>2 DEF Segment
    <2>4. m \in 1 .. Len(segments') /\ Own(c, segments'[m].entries, n)
      <3>1. m \in 1 .. m
        BY <1>2
      <3> HIDE DEF m
      <3>2. Last(segments') = segments'[m]
        BY <2>2 DEF Last
      <3> QED
        BY <1>1, <2>2, <3>1, <3>2 DEF Own
    <2>5. \A j \in 1 .. k : segments[j].used =>
            j # m /\ j \in 1 .. Len(segments') /\ segments'[j] = segments[j]
      BY <1>2, <2>2
    <2>6. \A j \in 1 .. Len(segments') : j # m /\ segments'[j].used =>
            j \in 1 .. k /\ segments'[j] = segments[j]
      BY <1>2, <2>2
    <2>7. segments'[m].count >= n /\ Len(segments') >= k
      <3>1. n >= n /\ m >= k
        BY <1>0, <1>2
      <3> HIDE DEF m
      <3> QED
        BY <2>2, <2>3, <3>1
    <2> HIDE DEF m
    <2>8. lo[c] = None /\ n \in Nat /\ Row(segments')
      BY <1>0, <2>2
    <2>9. /\ OwnedIsUsed' /\ Distinct'
          /\ lo' \in [Callers -> Nat] /\ len' \in [Callers -> Nat]
          /\ \A d \in Callers : d # c => lo'[d] = lo[d]
      BY <2>3, <2>4, <2>5, <2>6, <2>7, <2>8, Taken
    <2> QED
      BY <1>0, <2>7, <2>8, <2>9, EnlargeRest
  <1>6. CASE ~segments[k].used
    <2>1. segments' = [segments EXCEPT ![k] = Segment(segments[k].entries, n, TRUE)]
      BY <1>1, <1>6
    <2>2. segments[k].entries + n <= Base + MaxTables
      BY <1>0, <1>3, <1>4, PageHeapAssumption
    <2>3. /\ Row(segments') /\ Len(segments') = k
          /\ segments'[k].used /\ segments'[k].count = n
          /\ \A j \in 1 .. k - 1 : segments'[j] = segments[j]
      <3> DEFINE new == Segment(segments[k].entries, n, TRUE)
                 t == [segments EXCEPT ![k] = new]
      <3>1. /\ Row(t) /\ Len(t) = k
            /\ t[k].used /\ t[k].count = n
            /\ \A j \in 1 .. k - 1 : t[j] = segments[j]
        BY <1>0, <1>2, <2>2, ReuseShape
      <3>2. segments' = t
        BY <2>1
      <3> HIDE DEF t
      <3> QED
        BY <3>1, <3>2
    <2>4. k \in 1 .. Len(segments') /\ Own(c, segments'[k].entries, n)
      <3>1. k \in 1 .. k
        BY <1>2
      <3> HIDE DEF k
      <3>2. Last(segments') = segments'[k]
        BY <2>3 DEF Last
      <3> QED
        BY <1>1, <2>3, <3>1, <3>2 DEF Own
    <2>5. \A j \in 1 .. k : segments[j].used =>
            j # k /\ j \in 1 .. Len(segments') /\ segments'[j] = segments[j]
      <3>0. k \in Nat
        BY <1>2
      <3> HIDE DEF k
      <3>1. \A j \in 1 .. k : j # k => j \in 1 .. k - 1
        BY <3>0
      <3> QED
        BY <1>6, <2>3, <3>1
    <2>6. \A j \in 1 .. Len(segments') : j # k /\ segments'[j].used =>
            j \in 1 .. k /\ segments'[j] = segments[j]
      <3>0. k \in Nat
        BY <1>2
      <3> HIDE DEF k
      <3>1. \A j \in 1 .. k : j # k => j \in 1 .. k - 1
        BY <3>0
      <3>2. Len(segments') = k
        BY <2>3
      <3> QED
        BY <2>3, <3>1, <3>2
    <2>7. segments'[k].count >= n /\ Len(segments') >= k
      BY <1>0, <1>2, <2>3
    <2>8. lo[c] = None /\ n \in Nat /\ Row(segments')
      BY <1>0, <2>3
    <2>9. /\ OwnedIsUsed' /\ Distinct'
          /\ lo' \in [Callers -> Nat] /\ len' \in [Callers -> Nat]
          /\ \A d \in Callers : d # c => lo'[d] = lo[d]
      BY <2>3, <2>4, <2>5, <2>6, <2>7, <2>8, Taken
    <2> QED
      BY <1>0, <2>7, <2>8, <2>9, EnlargeRest
  <1> QED
    BY <1>5, <1>6

-----------------------------------------------------------------------------
(* The functions.                                                           *)

LEMMA PageAllocKeeps ==
  ASSUME IInv, ~lost, NEW c \in Callers, PageAlloc(c)
  PROVE  IInv'
  BY Allocates, FindKeeps, EnlargeKeeps DEF PageAlloc, AllocLocked

\* A block that is large enough is trimmed in place.
LEMMA TrimKeeps ==
  ASSUME IInv, ~lost, NEW c \in Callers, pc[c] = "realloc", chosen # None,
         segments[chosen].count >= call[c].tables,
         segments' = Trim(segments, chosen, call[c].tables),
         Own(c, call[c].ptr, call[c].tables),
         Goto(c, "unlock"),
         UNCHANGED <<lock, usedUntil, call, locals, lost>>
  PROVE  IInv'
  <1> DEFINE n == call[c].tables
             i == chosen
  <1>0. n \in Nat /\ n > 0 /\ Holder(c)
    BY Allocates
  <1>1. UNCHANGED <<lock, usedUntil, call, low, high, chosen, stale, lost>>
    BY DEF locals
  <1>2. DOMAIN segments = 1 .. Len(segments) /\ Len(segments) \in Nat
    BY DomainIs DEF IInv
  <1>3. /\ lo[c] # None /\ call[c].ptr = lo[c]
        /\ i \in 1 .. Len(segments) /\ segments[i].entries = lo[c]
    <2>1. Plan(c) /\ FoundBy(c)
      BY DEF IInv, Knows
    <2>2. lo[c] # None
      BY <2>1 DEF FoundBy
    <2> QED
      BY <1>2, <2>1, <2>2 DEF FoundBy, Plan
  <1>4. segments[i].count \in Nat
    BY <1>3, SegmentOf DEF IInv
  <1>5. lo' = lo /\ len' = [len EXCEPT ![c] = n]
    BY <1>3 DEF Own, IInv, TypeOK
  <1>6. ASSUME NEW d \in Callers, lo[d] # None
        PROVE  IF lo[d] = segments[i].entries THEN len'[d] <= n ELSE len'[d] = len[d]
    <2>1. CASE d = c
      BY <1>0, <1>3, <1>5, <2>1 DEF IInv, TypeOK
    <2>2. CASE d # c
      <3>1. lo[d] # lo[c]
        BY <1>3, <1>6, <2>2 DEF IInv, Distinct
      <3> QED
        BY <1>3, <1>5, <2>2, <3>1 DEF IInv, TypeOK
    <2> QED
      BY <2>1, <2>2
  <1> HIDE DEF n
  <1>7. len' \in [Callers -> Nat] /\ lo' \in [Callers -> Nat]
    BY <1>0, <1>5 DEF IInv, TypeOK
  <1>8. /\ Row(segments') /\ OwnedIsUsed' /\ Distinct'
        /\ Len(segments') >= Len(segments)
    <2>1. segments' = Trim(segments, i, n) /\ n <= segments[i].count
      BY <1>0, <1>4 DEF n
    <2> QED
      BY <1>0, <1>1, <1>3, <1>5, <1>6, <1>7, <2>1, TrimOwned
  <1>9. DOMAIN segments' = 1 .. Len(segments') /\ Len(segments') \in Nat
    BY <1>8, DomainIs
  <1>10. /\ usedUntil' \in DOMAIN segments' /\ chosen' \in DOMAIN segments' \cup {None}
         /\ low' \in Nat /\ high' \in Nat
    BY <1>1, <1>2, <1>3, <1>8, <1>9 DEF IInv, TypeOK
  <1>11. stale' \in BOOLEAN /\ lost' \in BOOLEAN
    BY <1>1 DEF IInv, TypeOK
  <1>12. pc'[c] = "unlock" /\ "unlock" \in Working
    BY DEF Goto, IInv, TypeOK, Working
  <1>13. Plan(c)' /\ Knows(c)'
    BY <1>12 DEF Plan, Knows
  <1>14. \A d \in Callers : d # c => lo'[d] = lo[d]
    BY <1>5
  <1> QED
    BY <1>0, <1>1, <1>7, <1>8, <1>10, <1>11, <1>12, <1>13, <1>14, HolderKeeps

LEMMA RelockKeeps ==
  ASSUME IInv, NEW c \in Callers, pc[c] = "realloc", chosen # None,
         Goto(c, "relock"),
         UNCHANGED <<segments, lock, usedUntil, call, locals, blocks>>
  PROVE  IInv'
  <1>1. UNCHANGED <<segments, lock, usedUntil, call, low, high, chosen, stale, lo, len, lost>>
    BY DEF locals, blocks
  <1>2. pc'[c] = "relock" /\ "relock" \in Working /\ Holder(c)
    BY DEF Goto, IInv, TypeOK, Working, Holder
  <1>3. Plan(c)'
    <2>1. Plan(c)
      BY DEF IInv
    <2> QED
      BY <1>1, <1>2, <2>1 DEF Plan
  <1>4. Knows(c)'
    BY <1>2 DEF Knows
  <1>5. low' \in Nat /\ high' \in Nat /\ chosen' \in DOMAIN segments' \cup {None}
    BY <1>1 DEF IInv, TypeOK
  <1> QED
    BY <1>1, <1>2, <1>3, <1>4, <1>5, SearchKeeps

LEMMA PageReallocKeeps ==
  ASSUME IInv, ~lost, NEW c \in Callers, PageRealloc(c)
  PROVE  IInv'
  <1>1. pc[c] = "realloc"
    BY DEF PageRealloc
  <1>2. CASE chosen = None /\ AllocLocked(c)
    <2>1. lo[c] = None
      BY <1>1, <1>2, Allocates
    <2> QED
      BY <1>1, <1>2, <2>1, FindKeeps, EnlargeKeeps DEF AllocLocked
  <1>3. CASE /\ chosen # None /\ segments[chosen].count >= call[c].tables
             /\ segments' = Trim(segments, chosen, call[c].tables)
             /\ Own(c, call[c].ptr, call[c].tables)
             /\ Goto(c, "unlock")
             /\ UNCHANGED <<lock, usedUntil, call, locals, lost>>
    BY <1>1, <1>3, TrimKeeps
  <1>4. CASE /\ chosen # None /\ Goto(c, "relock")
             /\ UNCHANGED <<segments, lock, usedUntil, call, locals, blocks>>
    BY <1>1, <1>4, RelockKeeps
  <1> QED
    BY <1>2, <1>3, <1>4 DEF PageRealloc

\* The block of the caller has a segment, and it is the one that is unmarked.
LEMMA PageFreeKeeps ==
  ASSUME IInv, ~lost, NEW c \in Callers, PageFree(c)
  PROVE  IInv'
  <1>1. /\ pc[c] = "free" /\ segments' = Unmarked /\ Own(c, None, 0)
        /\ Goto(c, "unlock")
        /\ UNCHANGED <<lock, usedUntil, call, low, high, chosen, stale, lost>>
    BY DEF PageFree, locals
  <1>2. /\ DOMAIN segments = 1 .. Len(segments) /\ Len(segments) \in Nat
        /\ Row(segments) /\ Holder(c)
    BY <1>1, DomainIs DEF IInv, Holder
  <1>3. /\ lo[c] # None
        /\ chosen \in 1 .. Len(segments) /\ segments[chosen].entries = lo[c]
    <2>1. Plan(c) /\ FoundBy(c)
      BY <1>1 DEF IInv, Knows
    <2>2. lo[c] # None
      BY <1>1, <2>1 DEF Plan
    <2> QED
      BY <1>2, <2>1, <2>2 DEF FoundBy
  <1>4. /\ Row(segments') /\ Len(segments') = Len(segments)
        /\ ~segments'[chosen].used
        /\ \A k \in 1 .. Len(segments) :
             /\ segments'[k].entries = segments[k].entries
             /\ k # chosen => segments'[k] = segments[k]
    <2>1. segments' = [segments EXCEPT ![chosen].used = FALSE]
      BY <1>1, <1>3 DEF Unmarked, None
    <2> QED
      BY <1>2, <1>3, <2>1, FlagShape
  <1>5. DOMAIN segments' = 1 .. Len(segments)
    BY <1>4, DomainIs
  <1>6. /\ lo'[c] = None /\ \A d \in Callers : d # c => lo'[d] = lo[d] /\ len'[d] = len[d]
        /\ lo' \in [Callers -> Nat] /\ len' \in [Callers -> Nat]
    BY <1>1 DEF Own, IInv, TypeOK, None
  <1>7. ASSUME NEW d \in Callers, lo'[d] # None
        PROVE  \E k \in DOMAIN segments' : segments'[k].used
                 /\ segments'[k].entries = lo'[d] /\ segments'[k].count >= len'[d]
    <2>1. d # c /\ lo[d] # None
      BY <1>6, <1>7
    <2>2. PICK k \in 1 .. Len(segments) :
            segments[k].used /\ segments[k].entries = lo[d] /\ segments[k].count >= len[d]
      BY <1>2, <2>1 DEF IInv, OwnedIsUsed
    <2>3. k # chosen
      BY <1>3, <2>1, <2>2 DEF IInv, Distinct
    <2> QED
      BY <1>4, <1>5, <1>6, <2>1, <2>2, <2>3
  <1>8. ASSUME NEW k \in DOMAIN segments', segments'[k].used
        PROVE  \E d \in Callers : lo'[d] = segments'[k].entries
    <2>1. k \in 1 .. Len(segments) /\ k # chosen
      BY <1>4, <1>5, <1>8
    <2>2. PICK d \in Callers : lo[d] = segments[k].entries
      BY <1>2, <1>4, <1>8, <2>1 DEF IInv, OwnedIsUsed
    <2>3. d # c
      BY <1>2, <1>3, <2>1, <2>2, OneSegment
    <2> QED
      BY <1>4, <1>6, <2>1, <2>2, <2>3
  <1>9. OwnedIsUsed'
    BY <1>7, <1>8 DEF OwnedIsUsed
  <1>10. Distinct'
    BY <1>1, <1>6 DEF IInv, Distinct
  <1>11. /\ usedUntil' \in DOMAIN segments' /\ chosen' \in DOMAIN segments' \cup {None}
         /\ low' \in Nat /\ high' \in Nat
    BY <1>1, <1>2, <1>3, <1>5 DEF IInv, TypeOK
  <1>12. stale' \in BOOLEAN /\ lost' \in BOOLEAN
    BY <1>1 DEF IInv, TypeOK
  <1>13. pc'[c] = "unlock" /\ "unlock" \in Working
    BY <1>1 DEF Goto, IInv, TypeOK, Working
  <1>14. Plan(c)' /\ Knows(c)'
    BY <1>13 DEF Plan, Knows
  <1> QED
    BY <1>1, <1>2, <1>4, <1>6, <1>9, <1>10, <1>11, <1>12, <1>13, <1>14, HolderKeeps

-----------------------------------------------------------------------------
(* The invariant.                                                           *)

LEMMA Initial == Init => IInv
  <1> SUFFICES ASSUME Init PROVE IInv
    OBVIOUS
  <1> DEFINE first == Segment(Base, 1, FALSE)
  <1>1. /\ first \in SegmentType
        /\ first.entries = Base /\ first.count = 1 /\ first.used = FALSE
    BY SegmentFields, PageHeapAssumption DEF Segment
  <1>2. segments = <<first>>
    BY DEF Init
  <1> HIDE DEF first
  <1>3. <<first>> \in Seq(SegmentType) /\ Len(<<first>>) = 1 /\ <<first>>[1] = first
    BY <1>1
  <1>4. /\ segments \in Seq(SegmentType) /\ Len(segments) = 1
        /\ segments[1] = first
    BY <1>2, <1>3
  <1>5. DOMAIN segments = 1 .. 1
    BY <1>4, LenProperties
  <1>6. Row(segments)
    <2>1. End(segments[1]) <= Base + MaxTables
      BY <1>1, <1>4, PageHeapAssumption DEF End
    <2>2. segments[1].entries = Base /\ segments[1].count > 0
      BY <1>1, <1>4
    <2> QED
      BY <1>4, <2>1, <2>2 DEF Row
  <1>7. TypeOK
    <2>1. NoCall \in Calls
      BY DEF NoCall, Calls, None
    <2>2. segments \in Seq([entries : Nat, count : Nat, used : BOOLEAN])
      BY <1>4 DEF SegmentType
    <2>3. usedUntil \in DOMAIN segments /\ chosen \in DOMAIN segments \cup {None}
      BY <1>5 DEF Init
    <2>4. call \in [Callers -> Calls]
      BY <2>1 DEF Init
    <2>5. low \in Nat /\ high \in Nat
      BY DEF Init
    <2>6. lo \in [Callers -> Nat] /\ len \in [Callers -> Nat]
      BY DEF Init, None
    <2>7. pc \in [Callers -> {"idle", "lock", "search", "alloc", "realloc",
                              "free", "mark", "unlock", "relock", "outside"}]
      BY DEF Init
    <2>8. lock \in BOOLEAN /\ stale \in BOOLEAN /\ lost \in BOOLEAN
      BY DEF Init
    <2> QED
      BY <2>2, <2>3, <2>4, <2>5, <2>6, <2>7, <2>8 DEF TypeOK
  <1>8. \A c \in Callers : pc[c] = "idle" /\ lo[c] = None
    BY DEF Init
  <1>9. Locked
    <2>1. lock = FALSE /\ \A c \in Callers : ~Holder(c)
      BY <1>8 DEF Init, Holder
    <2> QED
      BY <2>1 DEF Locked
  <1>10. OwnedIsUsed
    <2>1. \A i \in DOMAIN segments : ~segments[i].used
      BY <1>1, <1>4, <1>5
    <2> QED
      BY <1>8, <2>1 DEF OwnedIsUsed
  <1>11. Distinct
    BY <1>8 DEF Distinct
  <1>12. \A c \in Callers : Plan(c) /\ Knows(c)
    BY <1>8 DEF Plan, Knows
  <1> QED
    BY <1>6, <1>7, <1>9, <1>10, <1>11, <1>12 DEF IInv

\* The calls: what their arguments are.
LEMMA CallsKeep ==
  ASSUME IInv, NEW c \in Callers, CallAlloc(c) \/ CallRealloc(c) \/ CallFree(c)
  PROVE  IInv'
  <1>1. CASE CallAlloc(c)
    <2>1. PICK n \in Tables : Call(c, "alloc", None, n)
      BY <1>1 DEF CallAlloc
    <2>2. n \in Nat /\ None \in Nat /\ lo[c] = None
      BY <1>1, PageHeapAssumption DEF CallAlloc, None
    <2> QED
      BY <2>1, <2>2, CallKeeps
  <1>2. CASE CallRealloc(c)
    <2>1. PICK n \in Tables, p \in (IF lo[c] = None THEN Foreign ELSE {lo[c]}) :
            Call(c, "realloc", p, n)
      BY <1>2 DEF CallRealloc
    <2>2. n \in Nat /\ p \in Nat
      BY PageHeapAssumption DEF IInv, TypeOK
    <2>3. IF lo[c] = None THEN p \in Foreign ELSE p = lo[c]
      OBVIOUS
    <2> QED
      BY <2>1, <2>2, <2>3, CallKeeps
  <1>3. CASE CallFree(c)
    <2>1. Call(c, "free", lo[c], 0) /\ lo[c] # None /\ lo[c] \in Nat
      BY <1>3 DEF CallFree, IInv, TypeOK
    <2> QED
      BY <2>1, CallKeeps
  <1> QED
    BY <1>1, <1>2, <1>3

LEMMA Stutters ==
  ASSUME IInv, UNCHANGED vars
  PROVE  IInv'
  <1>1. UNCHANGED <<segments, lock, usedUntil, pc, call, low, high, chosen, stale, lo, len, lost>>
    BY DEF vars
  <1>2. TypeOK' /\ Row(segments') /\ OwnedIsUsed' /\ Distinct'
    BY <1>1 DEF IInv, TypeOK, OwnedIsUsed, Distinct
  <1>3. Locked'
    BY <1>1 DEF IInv, Locked, Holder
  <1>4. \A c \in Callers : Plan(c)' /\ Knows(c)'
    BY <1>1 DEF IInv, Plan, Knows, Ahead, Below, FoundBy, Settled, Room, Fits
  <1> QED
    BY <1>2, <1>3, <1>4 DEF IInv

LEMMA Inductive == IInv /\ [Next]_vars => IInv'
  <1> SUFFICES ASSUME IInv, [Next]_vars PROVE IInv'
    OBVIOUS
  <1>1. CASE UNCHANGED vars
    BY <1>1, Stutters
  <1>2. ASSUME ~lost, NEW c \in Callers, Step(c)
        PROVE  IInv'
    <2>1. CASE CallAlloc(c) \/ CallRealloc(c) \/ CallFree(c)
      BY <2>1, CallsKeep
    <2>2. CASE Lock(c)
      BY <1>2, <2>2, LockKeeps
    <2>3. CASE Search(c)
      BY <2>3, HitKeeps, MissKeeps, StrayKeeps, DerailKeeps DEF Search
    <2>4. CASE PageAlloc(c)
      BY <1>2, <2>4, PageAllocKeeps
    <2>5. CASE PageRealloc(c)
      BY <1>2, <2>5, PageReallocKeeps
    <2>6. CASE PageFree(c)
      BY <1>2, <2>6, PageFreeKeeps
    <2>7. CASE Mark(c)
      BY <1>2, <2>7, MarkKeeps
    <2>8. CASE Unlock(c)
      BY <2>8, UnlockKeeps
    <2> QED
      BY <1>2, <2>1, <2>2, <2>3, <2>4, <2>5, <2>6, <2>7, <2>8 DEF Step, Holds
  <1> QED
    BY <1>1, <1>2 DEF Next, Spin

-----------------------------------------------------------------------------
(* The theorems.                                                            *)

\* IInv holds in every reachable state.
THEOREM Invariance == Spec => []IInv
  BY Initial, Inductive, PTL DEF Spec

\* Whoever has the lock has it alone, finds the segments contiguous and finds
\* what it searches, whoever called what before.
THEOREM PageHeapSound == Spec => []Sound
  <1>1. IInv => Sound
    <2> SUFFICES ASSUME IInv PROVE Sound
      OBVIOUS
    <2>1. DOMAIN segments = 1 .. Len(segments)
      BY DomainIs DEF IInv
    <2>2. Contiguous
      BY <2>1 DEF IInv, Row, Contiguous, End
    <2>3. Found
      BY DEF IInv, Knows, Ahead, FoundBy, Found, InVector
    <2> QED
      BY <2>2, <2>3 DEF IInv, Sound
  <1> QED
    BY <1>1, Invariance, PTL

\* Until a mark is lost, the segments marked used are those the callers own.
THEOREM OwnersMarked == Spec => []OwnedIsUsed
  BY Invariance, PTL DEF IInv

-----------------------------------------------------------------------------
(* The page heap as an allocator.                                           *)

\* Blocks have segments of their own, and segments do not overlap.
LEMMA OwnersApart ==
  IInv /\ ~lost => \A c, d \in Callers : c # d => Promise!Apart(c, d)
  <1> SUFFICES ASSUME IInv, ~lost, NEW c \in Callers, NEW d \in Callers, c # d,
                      lo[c] # None, lo[d] # None
               PROVE  lo[c] + len[c] <= lo[d] \/ lo[d] + len[d] <= lo[c]
    BY DEF Promise!Apart, Promise!NoBlock, None
  <1>1. DOMAIN segments = 1 .. Len(segments) /\ Row(segments) /\ Len(segments) \in Nat
    BY DomainIs, LenProperties DEF IInv, Row
  <1>2. PICK i \in 1 .. Len(segments) :
          segments[i].entries = lo[c] /\ segments[i].count >= len[c]
    BY <1>1 DEF IInv, OwnedIsUsed
  <1>3. PICK j \in 1 .. Len(segments) :
          segments[j].entries = lo[d] /\ segments[j].count >= len[d]
    BY <1>1 DEF IInv, OwnedIsUsed
  <1>4. lo[c] # lo[d]
    BY DEF IInv, Distinct
  <1>5. i < j \/ j < i
    BY <1>1, <1>2, <1>3, <1>4
  <1>6. /\ segments[i].entries \in Nat /\ segments[i].count \in Nat
        /\ segments[j].entries \in Nat /\ segments[j].count \in Nat
    BY <1>1, SegmentOf
  <1>7. len[c] \in Nat /\ len[d] \in Nat
    BY DEF IInv, TypeOK
  <1>8. /\ i < j => segments[i].entries + segments[i].count <= segments[j].entries
        /\ j < i => segments[j].entries + segments[j].count <= segments[i].entries
    BY <1>1 DEF Row, End
  <1>9. lo[c] + len[c] <= segments[i].entries + segments[i].count
    BY <1>2, <1>6, <1>7
  <1>10. lo[d] + len[d] <= segments[j].entries + segments[j].count
    BY <1>3, <1>6, <1>7
  <1>11. CASE i < j
    BY <1>2, <1>3, <1>6, <1>7, <1>8, <1>9, <1>11
  <1>12. CASE j < i
    BY <1>2, <1>3, <1>6, <1>7, <1>8, <1>10, <1>12
  <1> QED
    BY <1>5, <1>11, <1>12

\* What a step of a caller that does not lose a mark does to the blocks.
LEMMA Effects ==
  ASSUME IInv, IInv', ~lost, ~lost', NEW c \in Callers, Step(c)
  PROVE  \/ UNCHANGED blocks
         \/ /\ \A d \in Callers \ {c} : lo'[d] = lo[d] /\ len'[d] = len[d]
            /\ \/ lo[c] = None /\ lo'[c] # None /\ len'[c] \in Tables
               \/ lo[c] # None /\ lo'[c] # None /\ len'[c] \in Tables
               \/ lo[c] # None /\ lo'[c] = None
  <1> DEFINE Others == \A d \in Callers \ {c} : lo'[d] = lo[d] /\ len'[d] = len[d]
  <1>1. ASSUME NEW p, NEW n, Own(c, p, n)
        PROVE  lo'[c] = p /\ len'[c] = n /\ Others
    BY <1>1 DEF Own, IInv, TypeOK
  <1>2. Plan(c) /\ Knows(c)
    BY DEF IInv
  <1>3. ASSUME pc[c] \in {"alloc", "realloc"}, Enlarge(c), lo[c] = None
        PROVE  lo'[c] # None /\ len'[c] \in Tables /\ Others
    <2>1. Own(c, Last(segments').entries, call[c].tables)
      BY <1>3 DEF Enlarge
    <2>2. call[c].tables \in Tables
      BY <1>2, <1>3 DEF Plan
    <2>3. Row(segments')
      BY DEF IInv
    <2>4. Last(segments') = segments'[Len(segments')] /\ Len(segments') \in 1 .. Len(segments')
      BY <2>3, LenProperties DEF Row, Last
    <2>5. Base <= Last(segments').entries /\ Last(segments').entries \in Nat
      BY <2>3, <2>4, SegmentOf
    <2> QED
      BY <1>1, <2>1, <2>2, <2>5, PageHeapAssumption DEF None
  <1>4. CASE CallAlloc(c) \/ CallRealloc(c) \/ CallFree(c)
    BY <1>4 DEF CallAlloc, CallRealloc, CallFree, Call
  <1>5. CASE Lock(c)
    BY <1>5 DEF Lock
  <1>6. CASE Search(c)
    BY <1>6 DEF Search
  <1>7. CASE PageAlloc(c)
    <2>1. lo[c] = None
      BY <1>2, <1>7 DEF PageAlloc, Plan
    <2>2. CASE Find(c)
      BY <2>2 DEF Find
    <2>3. CASE Enlarge(c)
      BY <1>3, <1>7, <2>1, <2>3 DEF PageAlloc
    <2> QED
      BY <1>7, <2>2, <2>3 DEF PageAlloc, AllocLocked
  <1>8. CASE PageRealloc(c)
    <2>0. pc[c] = "realloc"
      BY <1>8 DEF PageRealloc
    <2>1. CASE chosen = None /\ AllocLocked(c)
      <3>1. lo[c] = None
        <4>1. FoundBy(c) /\ DOMAIN segments = 1 .. Len(segments)
          BY <1>2, <2>0, DomainIs DEF Knows, IInv
        <4> QED
          BY <2>1, <4>1 DEF FoundBy, None
      <3>2. CASE Find(c)
        BY <3>2 DEF Find
      <3>3. CASE Enlarge(c)
        BY <1>3, <2>0, <3>1, <3>3
      <3> QED
        BY <2>1, <3>2, <3>3 DEF AllocLocked
    <2>2. CASE chosen # None /\ Own(c, call[c].ptr, call[c].tables)
      <3>1. FoundBy(c)
        BY <1>2, <2>0 DEF Knows
      <3>2. lo[c] # None
        BY <2>2, <3>1 DEF FoundBy
      <3>3. call[c].fun = "realloc"
        BY <1>2, <2>0 DEF Plan
      <3>4. call[c].ptr = lo[c] /\ call[c].tables \in Tables
        BY <1>2, <2>0, <3>2, <3>3 DEF Plan
      <3> QED
        BY <1>1, <2>2, <3>2, <3>4
    <2>3. CASE UNCHANGED blocks
      BY <2>3
    <2> QED
      BY <1>8, <2>1, <2>2, <2>3 DEF PageRealloc
  <1>9. CASE PageFree(c)
    <2>1. lo[c] # None
      BY <1>2, <1>9 DEF PageFree, Plan
    <2>2. Own(c, None, 0)
      BY <1>9 DEF PageFree
    <2> QED
      BY <1>1, <2>1, <2>2
  <1>10. CASE Mark(c)
    <2>1. lo[c] = None /\ call[c].tables \in Tables /\ pc[c] = "mark"
      <3>1. pc[c] = "mark"
        BY <1>10 DEF Mark
      <3>2. lo[c] = None /\ call[c].fun # "free"
        BY <1>2, <3>1 DEF Plan
      <3> QED
        BY <1>2, <3>1, <3>2 DEF Plan
    <2>2. Own(c, segments[chosen].entries, call[c].tables)
      BY <1>10 DEF Mark
    <2>3. chosen \in 1 .. Len(segments) /\ Row(segments)
      BY <1>2, <2>1, DomainIs DEF Knows, Settled, IInv
    <2>4. Base <= segments[chosen].entries /\ segments[chosen].entries \in Nat
      BY <2>3, SegmentOf
    <2> QED
      BY <1>1, <2>1, <2>2, <2>4, PageHeapAssumption DEF None
  <1>11. CASE Unlock(c)
    BY <1>11 DEF Unlock
  <1> QED
    BY <1>4, <1>5, <1>6, <1>7, <1>8, <1>9, <1>10, <1>11 DEF Step, Holds

\* The page heap implements the allocator: what a caller does between locking
\* and unlocking is one acquisition, resizing or release of its own block,
\* apart from all others, or the lost mark that breaks the promise.
THEOREM PageHeapKeepsPromise == Spec => KeepsPromise
  <1>1. Init => Promise!AllocatorInit
    BY DEF Init, Promise!AllocatorInit, Promise!NoBlock, None
  <1>2. (IInv /\ ~lost => \A c, d \in Callers : c # d => Promise!Apart(c, d))'
    BY OwnersApart, PTL
  <1>3. IInv /\ IInv' /\ [Next]_vars => [Promise!AllocatorNext]_(Promise!avars)
    <2> SUFFICES ASSUME IInv, IInv', [Next]_vars
                 PROVE  [Promise!AllocatorNext]_(Promise!avars)
      OBVIOUS
    <2>1. CASE UNCHANGED vars
      BY <2>1 DEF vars, Promise!avars
    <2>2. CASE lost'
      BY <2>2 DEF IInv, TypeOK, Promise!AllocatorNext, Promise!Break
    <2>3. ASSUME ~lost, ~lost', NEW c \in Callers, Step(c)
          PROVE  [Promise!AllocatorNext]_(Promise!avars)
      <3>1. CASE UNCHANGED blocks
        BY <3>1 DEF blocks, Promise!avars
      <3>2. CASE /\ \A d \in Callers \ {c} : lo'[d] = lo[d] /\ len'[d] = len[d]
                 /\ \/ lo[c] = None /\ lo'[c] # None /\ len'[c] \in Tables
                    \/ lo[c] # None /\ lo'[c] # None /\ len'[c] \in Tables
                    \/ lo[c] # None /\ lo'[c] = None
        <4>1. lo' \in [Callers -> Nat] /\ len' \in [Callers -> Nat]
          BY DEF IInv, TypeOK
        <4>2. \A d \in Callers \ {c} : Promise!Apart(c, d)'
          BY <1>2, <2>3
        <4>3. lost' = lost
          BY <2>3 DEF IInv, TypeOK
        <4>4. Promise!Replace(c)
          BY <3>2, <4>1, <4>2, <4>3 DEF Promise!Replace
        <4> QED
          BY <2>3, <3>2, <4>4
             DEF Promise!AllocatorNext, Promise!Acquire, Promise!Resize,
                 Promise!Release, Promise!NoBlock, None
      <3> QED
        BY <2>3, <3>1, <3>2, Effects
    <2> QED
      BY <2>1, <2>2, <2>3 DEF Next, Spin
  <1> QED
    BY <1>1, <1>3, Invariance, PTL DEF Spec, KeepsPromise, Promise!AllocatorSpec

\* Two callers never own the same table, until a mark is lost.
THEOREM CallersExclusive == Spec => []Promise!Exclusive
  <1>1. IInv => Promise!Exclusive
    BY OwnersApart DEF Promise!Exclusive
  <1> QED
    BY <1>1, Invariance, PTL
=============================================================================
