--------------------------- MODULE ContainersProofs ---------------------------
(***************************************************************************)
(* Proofs about Containers, and with it about Vectors, Strings and         *)
(* StringOps, for all values of their constants.                           *)
(***************************************************************************)
EXTENDS Containers, HeapOpsProofs, SequenceTheorems

-----------------------------------------------------------------------------
(* Vectors and Strings are instances, with operators of their own.          *)

\* The functions of the heap that the vectors call are those of HeapOps.
LEMMA VectorsUseHeap ==
  /\ Vec!Null = Null
  /\ Vec!InitialHeap = InitialHeap
  /\ \A h : Vec!HeapType(h) = HeapType(h) /\ Vec!Segs(h) = Segs(h)
  /\ \A h, s : Vec!SegEnd(h, s) = SegEnd(h, s) /\ Vec!Free(h, s) = Free(h, s)
  /\ \A h, b : Vec!Alloc(h, b) = Alloc(h, b)
  /\ \A h, s, b : Vec!Realloc(h, s, b) = Realloc(h, s, b)
  /\ \A h, s, b, add : Vec!Realloca(h, s, b, add) = Realloca(h, s, b, add)
  <1>1. Vec!Null = Null /\ Vec!InitialHeap = InitialHeap
    BY DEF Vec!Null, Null, Vec!InitialHeap, InitialHeap
  <1>2. /\ \A h : Vec!HeapType(h) = HeapType(h) /\ Vec!Segs(h) = Segs(h)
        /\ \A h, s : Vec!SegEnd(h, s) = SegEnd(h, s) /\ Vec!Free(h, s) = Free(h, s)
    BY DEF Vec!HeapType, HeapType, Vec!Segs, Segs, Vec!SegEnd, SegEnd, Vec!Free, Free
  <1>3. \A h, s, b : Vec!Divide(h, s, b) = Divide(h, s, b)
    BY DEF Vec!Divide, Divide, Vec!Write, Write
  <1>4. \A h, b : Vec!Enlarge(h, b) = Enlarge(h, b)
    <2>1. \A h, b : Vec!Expand(h, b) = Expand(h, b)
      BY DEF Vec!Expand, Expand, Vec!SegEnd, SegEnd, Vec!Write, Write, Vec!Stale, Stale,
             Vec!Null, Null
    <2>2. \A h, b : Vec!ReuseEnd(h, b) = ReuseEnd(h, b)
      BY DEF Vec!ReuseEnd, ReuseEnd, Vec!Write, Write, Vec!Stale, Stale, Vec!Null, Null
    <2> QED
      BY <2>1, <2>2 DEF Vec!Enlarge, Enlarge
  <1>5. \A h, b : Vec!Fits(h, b) = Fits(h, b)
    <2>1. \A h, a : Vec!Walk(h, a) = Walk(h, a)
      BY DEF Vec!Walk, Walk, Vec!Segs, Segs, Vec!Null, Null, Vec!Cardinality, Cardinality
    <2> QED
      BY <1>2, <2>1 DEF Vec!Fits, Fits
  <1>6. \A h, b : Vec!Alloc(h, b) = Alloc(h, b)
    <2>1. \A h, s, b : Vec!Take(h, s, b) = Take(h, s, b)
      BY <1>3 DEF Vec!Take, Take
    <2>2. \A S : Vec!Lowest(S) = Lowest(S)
      BY DEF Vec!Lowest, Lowest
    <2> QED
      BY <1>4, <1>5, <2>1, <2>2 DEF Vec!Alloc, Alloc
  <1>7. \A h, s, b, reserve : Vec!Move(h, s, b, reserve) = Move(h, s, b, reserve)
    <2>1. \A h, b : Vec!GrowEnd(h, b) = GrowEnd(h, b)
      BY DEF Vec!GrowEnd, GrowEnd, Vec!Write, Write, Vec!Stale, Stale, Vec!Null, Null
    <2>2. \A h, s : Vec!Abandon(h, s) = Abandon(h, s)
      BY DEF Vec!Abandon, Abandon
    <2> QED
      <3> SUFFICES ASSUME NEW h, NEW s, NEW b, NEW reserve
                   PROVE  Vec!Move(h, s, b, reserve) = Move(h, s, b, reserve)
        OBVIOUS
      <3>1. /\ Vec!Alloc(h, b + reserve) = Alloc(h, b + reserve)
            /\ Vec!GrowEnd(h, b) = GrowEnd(h, b)
        BY <1>6, <2>1
      <3> QED
        BY <2>2, <3>1 DEF Vec!Move, Move
  <1>8. \A h, s, b : Vec!Realloc(h, s, b) = Realloc(h, s, b)
    BY <1>3, <1>7 DEF Vec!Realloc, Realloc
  <1>9. \A h, s, b, add : Vec!Realloca(h, s, b, add) = Realloca(h, s, b, add)
    BY <1>7 DEF Vec!Realloca, Realloca
  <1> QED
    BY <1>1, <1>2, <1>6, <1>8, <1>9

\* And so are those the strings call.
LEMMA StringsUseHeap ==
  /\ Str!Null = Null
  /\ Str!InitialHeap = InitialHeap
  /\ \A h : Str!HeapType(h) = HeapType(h) /\ Str!Segs(h) = Segs(h)
  /\ \A h, s : Str!SegEnd(h, s) = SegEnd(h, s) /\ Str!Free(h, s) = Free(h, s)
  /\ \A h, b : Str!Alloc(h, b) = Alloc(h, b)
  /\ \A h, s, b : Str!Realloc(h, s, b) = Realloc(h, s, b)
  /\ \A h, s, b, add : Str!Realloca(h, s, b, add) = Realloca(h, s, b, add)
  <1>1. Str!Null = Null /\ Str!InitialHeap = InitialHeap
    BY DEF Str!Null, Null, Str!InitialHeap, InitialHeap
  <1>2. /\ \A h : Str!HeapType(h) = HeapType(h) /\ Str!Segs(h) = Segs(h)
        /\ \A h, s : Str!SegEnd(h, s) = SegEnd(h, s) /\ Str!Free(h, s) = Free(h, s)
    BY DEF Str!HeapType, HeapType, Str!Segs, Segs, Str!SegEnd, SegEnd, Str!Free, Free
  <1>3. \A h, s, b : Str!Divide(h, s, b) = Divide(h, s, b)
    BY DEF Str!Divide, Divide, Str!Write, Write
  <1>4. \A h, b : Str!Enlarge(h, b) = Enlarge(h, b)
    <2>1. \A h, b : Str!Expand(h, b) = Expand(h, b)
      BY DEF Str!Expand, Expand, Str!SegEnd, SegEnd, Str!Write, Write, Str!Stale, Stale,
             Str!Null, Null
    <2>2. \A h, b : Str!ReuseEnd(h, b) = ReuseEnd(h, b)
      BY DEF Str!ReuseEnd, ReuseEnd, Str!Write, Write, Str!Stale, Stale, Str!Null, Null
    <2> QED
      BY <2>1, <2>2 DEF Str!Enlarge, Enlarge
  <1>5. \A h, b : Str!Fits(h, b) = Fits(h, b)
    <2>1. \A h, a : Str!Walk(h, a) = Walk(h, a)
      BY DEF Str!Walk, Walk, Str!Segs, Segs, Str!Null, Null, Str!Cardinality, Cardinality
    <2> QED
      BY <1>2, <2>1 DEF Str!Fits, Fits
  <1>6. \A h, b : Str!Alloc(h, b) = Alloc(h, b)
    <2>1. \A h, s, b : Str!Take(h, s, b) = Take(h, s, b)
      BY <1>3 DEF Str!Take, Take
    <2>2. \A S : Str!Lowest(S) = Lowest(S)
      BY DEF Str!Lowest, Lowest
    <2> QED
      BY <1>4, <1>5, <2>1, <2>2 DEF Str!Alloc, Alloc
  <1>7. \A h, s, b, reserve : Str!Move(h, s, b, reserve) = Move(h, s, b, reserve)
    <2>1. \A h, b : Str!GrowEnd(h, b) = GrowEnd(h, b)
      BY DEF Str!GrowEnd, GrowEnd, Str!Write, Write, Str!Stale, Stale, Str!Null, Null
    <2>2. \A h, s : Str!Abandon(h, s) = Abandon(h, s)
      BY DEF Str!Abandon, Abandon
    <2> QED
      <3> SUFFICES ASSUME NEW h, NEW s, NEW b, NEW reserve
                   PROVE  Str!Move(h, s, b, reserve) = Move(h, s, b, reserve)
        OBVIOUS
      <3>1. /\ Str!Alloc(h, b + reserve) = Alloc(h, b + reserve)
            /\ Str!GrowEnd(h, b) = GrowEnd(h, b)
        BY <1>6, <2>1
      <3> QED
        BY <2>2, <3>1 DEF Str!Move, Move
  <1>8. \A h, s, b : Str!Realloc(h, s, b) = Realloc(h, s, b)
    BY <1>3, <1>7 DEF Str!Realloc, Realloc
  <1>9. \A h, s, b, add : Str!Realloca(h, s, b, add) = Realloca(h, s, b, add)
    BY <1>7 DEF Str!Realloca, Realloca
  <1> QED
    BY <1>1, <1>2, <1>6, <1>8, <1>9

-----------------------------------------------------------------------------
(* The block of the vector.                                                 *)

\* The heap is in order but for the misuse of a last segment, and the vector's
\* block is the only one that is used.
Housed ==
  /\ HeapType(heap)
  /\ vec \in [data : Nat, len : Nat, capacity : Nat]
  /\ vec.data # 0 => vec.data - HeaderSize \in Segs(heap)
  /\ heap.misused = {} =>
       /\ Tiled(heap)
       /\ heap.used = IF vec.data = 0 THEN {} ELSE {vec.data - HeaderSize}

\* The block has room for the elements there are and for those the next push
\* may put into it without asking the heap.
Roomy == vec.data # 0 =>
  /\ heap.size[vec.data - HeaderSize] >= ElementSize * vec.len
  /\ heap.size[vec.data - HeaderSize] >= ElementSize * vec.capacity

\* As many elements as the vector's length says, each constructed or raw.
Contents == elems \in Seq(Marks \cup {"raw"}) /\ Len(elems) = vec.len

\* The inductive invariant of the vector.
VectorKept == Housed /\ (~resized => Roomy) /\ Contents

\* What the assumption on the constants says of those of the vectors.
LEMMA VectorConstants ==
  /\ ElementSize \in Nat \ {0} /\ ReallocAdd \in Nat /\ Slack \in Nat
  /\ MaxLen \in Nat /\ "raw" \notin Marks
  BY ContainersAssumption DEF Vec!VectorsAssumption

\* The parts of a vector.
LEMMA VectorParts ==
  ASSUME Housed
  PROVE  /\ vec = [data |-> vec.data, len |-> vec.len, capacity |-> vec.capacity]
         /\ vec.data \in Nat /\ vec.len \in Nat /\ vec.capacity \in Nat
  BY DEF Housed

\* Products are monotonic: fewer elements need no more bytes.
LEMMA FewerBytes ==
  ASSUME NEW m \in Nat, NEW n \in Nat, m <= n, NEW x, x >= ElementSize * n,
         x \in Nat
  PROVE  x >= ElementSize * m
  <1>1. ElementSize \in Nat
    BY VectorConstants
  <1>2. ElementSize * n = (ElementSize * m) + (ElementSize * (n - m))
    BY <1>1
  <1>3. ElementSize * (n - m) \in Nat /\ ElementSize * m \in Nat
    BY <1>1
  <1> QED
    BY <1>2, <1>3

\* The first block of a vector.
LEMMA VectorAllocs ==
  ASSUME Housed, heap.misused = {}, vec.data = Vec!Null, NEW b \in Nat,
         NEW r \in Vec!Alloc(heap, b)
  PROVE  Obtained(heap, heap.used, r, b)
  <1>1. vec.data = 0
    BY VectorsUseHeap DEF Null
  <1>2. HeapType(heap) /\ heap.used = {}
    BY <1>1 DEF Housed
  <1>3. r \in Alloc(heap, b)
    BY VectorsUseHeap
  <1>4. Obtained(heap, {}, r, b)
    BY <1>2, <1>3, AllocObtains
  <1> QED
    BY <1>2, <1>4

\* realloc() of the block.
LEMMA VectorReallocs ==
  ASSUME Housed, heap.misused = {}, vec.data # Vec!Null, NEW b \in Nat,
         NEW r \in Vec!Realloc(heap, Vec!Block, b)
  PROVE  Obtained(heap, heap.used, r, b)
  <1> DEFINE s == vec.data - HeaderSize
  <1>1. vec.data # 0
    BY VectorsUseHeap DEF Null
  <1>2. HeapType(heap) /\ s \in Segs(heap) /\ heap.used = {s}
    BY <1>1 DEF Housed
  <1>3. r \in Realloc(heap, s, b)
    BY VectorsUseHeap DEF Vec!Block
  <1> HIDE DEF s
  <1>4. Obtained(heap, {s}, r, b)
    BY <1>2, <1>3, ReallocObtains
  <1> QED
    BY <1>2, <1>4

\* realloca() of the block.
LEMMA VectorReallocas ==
  ASSUME Housed, heap.misused = {}, vec.data # Vec!Null, NEW b \in Nat,
         NEW r \in Vec!Realloca(heap, Vec!Block, b, ReallocAdd)
  PROVE  Obtained(heap, heap.used, r, b)
  <1> DEFINE s == vec.data - HeaderSize
  <1>1. vec.data # 0
    BY VectorsUseHeap DEF Null
  <1>2. HeapType(heap) /\ s \in Segs(heap) /\ heap.used = {s}
    BY <1>1 DEF Housed
  <1>3. r \in Realloca(heap, s, b, ReallocAdd)
    BY VectorsUseHeap DEF Vec!Block
  <1>4. ReallocAdd \in Nat
    BY VectorConstants
  <1> HIDE DEF s
  <1>5. Obtained(heap, {s}, r, b)
    BY <1>2, <1>3, <1>4, ReallocaObtains
  <1> QED
    BY <1>2, <1>5

\* The vector moves to what it obtained.
LEMMA NewBlock ==
  ASSUME Housed, heap.misused = {}, NEW len \in Nat, NEW c \in Nat, NEW r,
         Obtained(heap, heap.used, r, len * ElementSize), heap' = r.heap,
         vec' = [data |-> r.seg + HeaderSize, len |-> len, capacity |-> c]
  PROVE  /\ Housed'
         /\ vec'.data - HeaderSize = r.seg
         /\ heap'.size[r.seg] >= ElementSize * len
  <1>1. /\ HeapType(heap') /\ r.seg \in Segs(heap')
        /\ heap'.size[r.seg] >= len * ElementSize
    BY DEF Obtained
  <1>2. r.seg \in Nat /\ HeaderSize \in Nat \ {0} /\ ElementSize \in Nat
    BY <1>1, HeapElim, HeapOpsAssumption, VectorConstants
  <1>3. vec' \in [data : Nat, len : Nat, capacity : Nat]
    BY <1>2
  <1>4. vec'.data - HeaderSize = r.seg /\ vec'.data # 0
    BY <1>2
  <1>5. heap'.misused = {} => Tiled(heap') /\ heap'.used = {r.seg}
    <2>1. Tiled(heap)
      BY DEF Housed
    <2> QED
      BY <2>1 DEF Obtained, Served
  <1>6. Housed'
    BY <1>1, <1>3, <1>4, <1>5 DEF Housed
  <1>7. len * ElementSize = ElementSize * len
    BY <1>2
  <1> QED
    BY <1>1, <1>4, <1>6, <1>7

\* Its capacity is then what the segment has room for.
LEMMA MovedKeeps ==
  ASSUME Housed, heap.misused = {}, NEW len \in Nat, NEW r,
         Obtained(heap, heap.used, r, len * ElementSize), Vec!Moved(r, len)
  PROVE  Housed' /\ Roomy' /\ vec'.len = len
  <1> DEFINE size == r.heap.size[r.seg]
             c == IF Vec!Multi THEN 0 ELSE size \div ElementSize
  <1>1. /\ heap' = r.heap
        /\ vec' = [data |-> r.seg + HeaderSize, len |-> len, capacity |-> c]
    BY DEF Vec!Moved
  <1>2. size \in Nat
    BY HeapElim DEF Obtained
  <1>3. ElementSize \in Nat \ {0}
    BY VectorConstants
  <1> HIDE DEF size
  <1>4. /\ size \div ElementSize \in Nat
        /\ size >= ElementSize * (size \div ElementSize)
    <2>1. /\ size = (ElementSize * (size \div ElementSize)) + (size % ElementSize)
          /\ size % ElementSize \in Nat
      BY <1>2, <1>3, DivMod
    <2>2. size \div ElementSize \in Nat
      BY <1>2, <1>3
    <2>3. ElementSize * (size \div ElementSize) \in Nat
      BY <1>3, <2>2
    <2> QED
      BY <2>1, <2>2, <2>3
  <1>5. c \in Nat /\ size >= ElementSize * c
    <2>1. ElementSize * 0 = 0
      BY <1>3
    <2> QED
      BY <1>2, <1>4, <2>1
  <1> HIDE DEF c
  <1>6. /\ Housed' /\ vec'.data - HeaderSize = r.seg
        /\ heap'.size[r.seg] >= ElementSize * len
    BY <1>1, <1>5, NewBlock
  <1>7. vec'.len = len /\ vec'.capacity = c
    BY <1>1
  <1>8. heap'.size[r.seg] >= ElementSize * c
    BY <1>1, <1>5 DEF size
  <1> QED
    BY <1>6, <1>7, <1>8 DEF Roomy

\* The vector gives its block back.
LEMMA FreedKeeps ==
  ASSUME Housed, heap.misused = {}, vec.data # Vec!Null,
         heap' = Vec!Free(heap, Vec!Block), NEW c \in Nat,
         vec' = [data |-> 0, len |-> 0, capacity |-> c]
  PROVE  Housed' /\ Roomy' /\ vec'.len = 0
  <1> DEFINE s == vec.data - HeaderSize
  <1>1. vec.data # 0
    BY VectorsUseHeap DEF Null
  <1>2. HeapType(heap) /\ s \in Segs(heap) /\ heap.used = {s} /\ Tiled(heap)
    BY <1>1 DEF Housed
  <1>3. heap' = Free(heap, s)
    BY VectorsUseHeap DEF Vec!Block
  <1> HIDE DEF s
  <1>4. /\ HeapType(heap') /\ Segs(heap') = Segs(heap)
        /\ heap'.next = heap.next /\ heap'.size = heap.size
        /\ heap'.used = heap.used \ {s}
    BY <1>2, <1>3, FreeFields
  <1>5. heap'.used = {}
    BY <1>2, <1>4
  <1>6. Tiled(heap')
    BY <1>2, <1>4 DEF Tiled, SegEnd
  <1>7. vec' \in [data : Nat, len : Nat, capacity : Nat] /\ vec'.data = 0
    OBVIOUS
  <1> QED
    BY <1>4, <1>5, <1>6, <1>7 DEF Housed, Roomy

\* The vector stays in its block.
LEMMA StaysKeeps ==
  ASSUME Housed, heap' = heap, NEW len \in Nat, vec' = [vec EXCEPT !.len = len]
  PROVE  /\ Housed' /\ vec'.len = len
         /\ Roomy /\ (len <= vec.len \/ len <= vec.capacity) => Roomy'
  <1>1. /\ vec'.data = vec.data /\ vec'.len = len /\ vec'.capacity = vec.capacity
        /\ vec' \in [data : Nat, len : Nat, capacity : Nat]
    BY DEF Housed
  <1>2. Housed'
    BY <1>1 DEF Housed
  <1>3. ASSUME Roomy, len <= vec.len \/ len <= vec.capacity, vec.data # 0
        PROVE  Roomy'
    <2> DEFINE size == heap.size[vec.data - HeaderSize]
    <2>1. size \in Nat
      BY <1>3, HeapElim DEF Housed
    <2>2. size >= ElementSize * vec.len /\ size >= ElementSize * vec.capacity
      BY <1>3 DEF Roomy
    <2> HIDE DEF size
    <2>3. size >= ElementSize * len
      BY <1>3, <2>1, <2>2, FewerBytes, VectorParts
    <2> QED
      BY <1>1, <2>2, <2>3 DEF Roomy, size
  <1>4. vec.data = 0 => Roomy'
    BY <1>1 DEF Roomy
  <1> QED
    BY <1>1, <1>2, <1>3, <1>4

-----------------------------------------------------------------------------
(* The elements of the vector.                                              *)

\* No element is raw memory.
NoneRaw == \A i \in 1 .. Len(elems) : elems[i] # "raw"

\* The first n elements.
LEMMA FirstElements ==
  ASSUME Contents, NEW n \in Nat, n <= vec.len, NEW e, e = SubSeq(elems, 1, n)
  PROVE  /\ e \in Seq(Marks \cup {"raw"}) /\ Len(e) = n
         /\ \A i \in 1 .. n : e[i] = elems[i]
  <1>1. \A i \in 1 .. n : elems[i] \in Marks \cup {"raw"}
    BY ElementOfSeq DEF Contents
  <1>2. /\ SubSeq(elems, 1, n) \in Seq(Marks \cup {"raw"})
        /\ Len(SubSeq(elems, 1, n)) = IF 1 <= n THEN n - 1 + 1 ELSE 0
        /\ \A i \in 1 .. n - 1 + 1 : SubSeq(elems, 1, n)[i] = elems[1 + i - 1]
    BY <1>1, SubSeqProperties
  <1> QED
    BY <1>2

\* Some elements are dropped.
LEMMA CutContents ==
  ASSUME Contents, NEW n \in Nat, n <= vec.len, elems' = SubSeq(elems, 1, n),
         vec'.len = n
  PROVE  Contents' /\ (NoneRaw => NoneRaw')
  <1>1. /\ elems' \in Seq(Marks \cup {"raw"}) /\ Len(elems') = n
        /\ \A i \in 1 .. n : elems'[i] = elems[i]
    BY FirstElements
  <1>2. \A i \in 1 .. n : i \in 1 .. Len(elems)
    <2>1. Len(elems) \in Nat
      BY LenProperties DEF Contents
    <2> QED
      BY <2>1 DEF Contents
  <1> QED
    BY <1>1, <1>2 DEF Contents, NoneRaw

\* Elements are added behind the first n, raw or built.
LEMMA ExtendedContents ==
  ASSUME Contents, NEW n \in Nat, n <= vec.len, NEW count \in Nat, NEW built,
         Vec!Extended(n, count, built), vec'.len = n + count
  PROVE  Contents' /\ (built /\ NoneRaw => NoneRaw')
  <1> DEFINE e == SubSeq(elems, 1, n)
  <1>1. /\ e \in Seq(Marks \cup {"raw"}) /\ Len(e) = n
        /\ \A i \in 1 .. n : e[i] = elems[i]
    BY FirstElements
  <1>2. PICK x \in Marks \cup {"raw"} :
          /\ elems' = e \o [i \in 1 .. count |-> x]
          /\ built => x # "raw"
    BY VectorConstants DEF Vec!Extended, Vec!Raw
  <1> DEFINE more == [i \in 1 .. count |-> x]
  <1>3. /\ more \in Seq(Marks \cup {"raw"}) /\ Len(more) = count
        /\ \A i \in 1 .. count : more[i] = x
    OBVIOUS
  <1>4. elems' = e \o more
    BY <1>2
  <1> HIDE DEF e, more
  <1>5. /\ elems' \in Seq(Marks \cup {"raw"}) /\ Len(elems') = n + count
        /\ \A i \in 1 .. n + count :
             elems'[i] = IF i <= n THEN e[i] ELSE more[i - n]
    <2> DEFINE S == Marks \cup {"raw"}
    <2>1. e \in Seq(S) /\ more \in Seq(S) /\ Len(e) = n /\ Len(more) = count
      BY <1>1, <1>3
    <2> HIDE DEF S
    <2>2. /\ e \o more \in Seq(S)
          /\ Len(e \o more) = Len(e) + Len(more)
          /\ \A i \in 1 .. Len(e) + Len(more) :
               (e \o more)[i] = IF i <= Len(e) THEN e[i] ELSE more[i - Len(e)]
      BY <2>1, ConcatProperties
    <2> QED
      BY <1>4, <2>1, <2>2 DEF S
  <1>6. ASSUME built, NoneRaw, NEW i \in 1 .. n + count
        PROVE  elems'[i] # "raw"
    <2>1. CASE i <= n
      <3>1. i \in 1 .. n /\ i \in 1 .. Len(elems)
        BY <2>1, LenProperties DEF Contents
      <3> QED
        BY <1>1, <1>5, <1>6, <2>1, <3>1 DEF NoneRaw
    <2>2. CASE ~(i <= n)
      <3>1. i - n \in 1 .. count
        BY <2>2
      <3> QED
        BY <1>2, <1>3, <1>5, <1>6, <2>2, <3>1
    <2> QED
      BY <2>1, <2>2
  <1> QED
    BY <1>5, <1>6 DEF Contents, NoneRaw

-----------------------------------------------------------------------------
(* The functions of the vectors.                                            *)

\* A vector that builds and destructs its elements and was not resized has a raw
\* one, or destructed one, only after a push that skipped the constructor, and
\* lost one only through the pop() of vector_type_cd.
AllBuilt ==
  Vec!Constructs /\ ~resized =>
    /\ ~skipped => ~wild /\ NoneRaw
    /\ kind = "multi_cd" => ~skipped
    /\ kind # "type_cd" => ~dropped

\* construct(), vecsa(), vecsac(), resize() without data
LEMMA ConstructKeeps ==
  ASSUME VectorKept, AllBuilt, heap.misused = {}, NEW len \in Nat,
         Vec!Construct(len)
  PROVE  VectorKept' /\ AllBuilt'
  <1>1. len * ElementSize \in Nat
    BY VectorConstants
  <1>2. PICK r \in Vec!Alloc(heap, len * ElementSize) : Vec!Moved(r, len)
    BY DEF Vec!Construct
  <1>3. Housed' /\ Roomy' /\ vec'.len = len
    <2>1. Obtained(heap, heap.used, r, len * ElementSize)
      BY <1>1, VectorAllocs DEF VectorKept, Vec!Construct
    <2> QED
      BY <1>2, <2>1, MovedKeeps DEF VectorKept
  <1>4. Contents' /\ (Vec!Constructs /\ NoneRaw => NoneRaw')
    <2>1. Vec!Extended(0, len, Vec!Constructs) /\ 0 <= vec.len /\ 0 + len = len
      BY VectorParts DEF Vec!Construct, VectorKept
    <2> QED
      BY <1>3, <2>1, ExtendedContents DEF VectorKept
  <1>5. AllBuilt'
    BY <1>4 DEF AllBuilt, Vec!Construct, Vec!Constructs
  <1> QED
    BY <1>3, <1>4, <1>5 DEF VectorKept

\* push() on a vector with data
LEMMA PushKeeps ==
  ASSUME VectorKept, AllBuilt, heap.misused = {}, NEW count \in Nat,
         Vec!Push(count)
  PROVE  VectorKept' /\ AllBuilt'
  <1> DEFINE len == vec.len + count
  <1>1. len \in Nat /\ len * ElementSize \in Nat /\ vec.len <= len
        /\ len = vec.len + count /\ vec.len \in Nat
    BY VectorConstants, VectorParts DEF VectorKept
  <1>2. Housed' /\ (~resized => Roomy') /\ vec'.len = len
    <2>1. CASE len <= vec.capacity
      <3>1. heap' = heap /\ vec' = [vec EXCEPT !.len = len]
        BY <2>1 DEF Vec!Push
      <3> HIDE DEF len
      <3> QED
        BY <1>1, <2>1, <3>1, StaysKeeps DEF VectorKept
    <2>2. CASE ~(len <= vec.capacity)
      <3>1. PICK r \in Vec!Realloca(heap, Vec!Block, len * ElementSize, ReallocAdd) :
              Vec!Moved(r, len)
        BY <2>2 DEF Vec!Push
      <3>2. vec.data # Vec!Null
        BY DEF Vec!Push
      <3> HIDE DEF len
      <3>3. Obtained(heap, heap.used, r, len * ElementSize)
        BY <1>1, <3>1, <3>2, VectorReallocas DEF VectorKept
      <3> QED
        BY <1>1, <3>1, <3>3, MovedKeeps DEF VectorKept
    <2> QED
      BY <2>1, <2>2
  <1>3. Contents'
    <2>1. Vec!Extended(vec.len, count, Vec!Constructs /\ ~(len <= vec.capacity))
      BY DEF Vec!Push
    <2> QED
      BY <1>1, <1>2, <2>1, ExtendedContents DEF VectorKept
  <1>4. resized' = resized
    BY DEF Vec!Push
  <1>5. AllBuilt'
    <2>1. skipped' = (skipped \/ (Vec!Constructs /\ len <= vec.capacity))
      BY DEF Vec!Push
    <2>2. /\ UNCHANGED <<kind, resized, wild, dropped>>
          /\ kind # "multi_cd" /\ (Vec!Constructs' <=> Vec!Constructs)
      BY DEF Vec!Push, Vec!Multi, Vec!Constructs
    <2>3. ASSUME Vec!Constructs, ~(len <= vec.capacity), NoneRaw
          PROVE  NoneRaw'
      <3>1. Vec!Extended(vec.len, count, TRUE)
        BY <2>3 DEF Vec!Push, Vec!Extended
      <3>2. Contents /\ vec.len \in Nat /\ vec.len <= vec.len /\ vec'.len = vec.len + count
        BY <1>1, <1>2 DEF VectorKept
      <3> QED
        BY <2>3, <3>1, <3>2, ExtendedContents, Zenon
    <2> QED
      BY <2>1, <2>2, <2>3 DEF AllBuilt
  <1> QED
    BY <1>2, <1>3, <1>4, <1>5 DEF VectorKept

\* vec_push() and vec_pushc()
LEMMA PushMultiKeeps ==
  ASSUME VectorKept, AllBuilt, heap.misused = {}, NEW count \in Nat,
         Vec!PushMulti(count)
  PROVE  VectorKept' /\ AllBuilt'
  <1> DEFINE len == vec.len + count
  <1>1. len \in Nat /\ len * ElementSize \in Nat /\ vec.len <= len
        /\ len = vec.len + count /\ vec.len \in Nat
    BY VectorConstants, VectorParts DEF VectorKept
  <1>2. Housed' /\ Roomy' /\ vec'.len = len
    <2>1. PICK r \in Vec!Realloca(heap, Vec!Block, len * ElementSize, ReallocAdd) :
            Vec!Moved(r, len)
      BY DEF Vec!PushMulti
    <2>2. vec.data # Vec!Null
      BY DEF Vec!PushMulti
    <2> HIDE DEF len
    <2>3. Obtained(heap, heap.used, r, len * ElementSize)
      BY <1>1, <2>1, <2>2, VectorReallocas DEF VectorKept
    <2> QED
      BY <1>1, <2>1, <2>3, MovedKeeps DEF VectorKept
  <1>3. Contents' /\ (Vec!Constructs /\ NoneRaw => NoneRaw')
    <2>1. Vec!Extended(vec.len, count, Vec!Constructs)
      BY DEF Vec!PushMulti
    <2> QED
      BY <1>1, <1>2, <2>1, ExtendedContents DEF VectorKept
  <1>4. AllBuilt'
    BY <1>3 DEF AllBuilt, Vec!PushMulti, Vec!Constructs
  <1> QED
    BY <1>2, <1>3, <1>4 DEF VectorKept

\* The first push()
LEMMA PushFirstKeeps ==
  ASSUME VectorKept, AllBuilt, heap.misused = {}, NEW count \in Nat,
         Vec!PushFirst(count)
  PROVE  VectorKept' /\ AllBuilt'
  <1>1. count * ElementSize \in Nat
    BY VectorConstants
  <1>2. PICK r \in Vec!Alloc(heap, count * ElementSize) : Vec!Moved(r, count)
    BY DEF Vec!PushFirst
  <1>3. Housed' /\ Roomy' /\ vec'.len = count
    <2>1. Obtained(heap, heap.used, r, count * ElementSize)
      BY <1>1, VectorAllocs DEF VectorKept, Vec!PushFirst
    <2> QED
      BY <1>2, <2>1, MovedKeeps DEF VectorKept
  <1>4. Contents' /\ (kind \in {"type_cd", "multi_cd"} /\ NoneRaw => NoneRaw')
    <2>1. /\ Vec!Extended(0, count, kind \in {"type_cd", "multi_cd"})
          /\ 0 <= vec.len /\ 0 + count = count
      BY VectorParts DEF Vec!PushFirst, VectorKept
    <2> QED
      BY <1>3, <2>1, ExtendedContents DEF VectorKept
  <1>5. AllBuilt'
    <2>1. /\ skipped' = (skipped \/ kind = "instance_cd")
          /\ UNCHANGED <<kind, resized, wild, dropped>>
      BY DEF Vec!PushFirst
    <2> QED
      BY <1>4, <2>1 DEF AllBuilt, Vec!Constructs
  <1> QED
    BY <1>3, <1>4, <1>5 DEF VectorKept

\* An owner fills in an element.
LEMMA FillKeeps ==
  ASSUME VectorKept, AllBuilt, NEW i \in 1 .. MaxLen, Vec!Fill(i)
  PROVE  VectorKept' /\ AllBuilt'
  <1>1. i \in 1 .. Len(elems) /\ elems[i] = "raw"
    BY VectorParts, VectorConstants DEF Vec!Fill, VectorKept, Contents
  <1>2. Contents'
    <2>1. PICK m \in Marks : elems' = [elems EXCEPT ![i] = m]
      BY DEF Vec!Fill
    <2>2. /\ [elems EXCEPT ![i] = m] \in Seq(Marks \cup {"raw"})
          /\ Len([elems EXCEPT ![i] = m]) = Len(elems)
      BY <1>1, ExceptSeq DEF VectorKept, Contents
    <2> QED
      BY <2>1, <2>2 DEF VectorKept, Contents, Vec!Fill
  <1>3. Housed' /\ (Roomy => Roomy') /\ resized' = resized
    BY DEF Vec!Fill, VectorKept, Housed, Roomy
  <1>4. AllBuilt'
    <2>1. ~NoneRaw /\ UNCHANGED <<kind, resized, wild, dropped, skipped>>
      BY <1>1 DEF NoneRaw, Vec!Fill
    <2> QED
      BY <2>1 DEF AllBuilt, Vec!Constructs
  <1> QED
    BY <1>2, <1>3, <1>4 DEF VectorKept

\* What pop() and destruct() do to the elements.
LEMMA RemovedContents ==
  ASSUME Contents, vec.len \in Nat, NEW n \in Nat, n <= vec.len, NEW destructed,
         Vec!Removed(n, destructed), vec'.len = n
  PROVE  /\ Contents'
         /\ NoneRaw /\ ~wild => NoneRaw' /\ ~wild'
         /\ destructed /\ ~dropped => ~dropped'
  <1>1. Contents' /\ (NoneRaw => NoneRaw')
    BY CutContents DEF Vec!Removed
  <1>2. ASSUME NoneRaw, ~wild
        PROVE  ~wild'
    <2>1. ~ \E i \in n + 1 .. vec.len : elems[i] = "raw"
      <3>1. \A i \in n + 1 .. vec.len : i \in 1 .. Len(elems)
        BY DEF Contents
      <3> QED
        BY <1>2, <3>1 DEF NoneRaw
    <2> QED
      BY <1>2, <2>1 DEF Vec!Removed
  <1>3. destructed /\ ~dropped => ~dropped'
    BY DEF Vec!Removed
  <1> QED
    BY <1>1, <1>2, <1>3

\* pop(), vec_pop(), vec_popd()
LEMMA PopKeeps ==
  ASSUME VectorKept, AllBuilt, heap.misused = {}, NEW count \in Nat, Vec!Pop(count)
  PROVE  VectorKept' /\ AllBuilt'
  <1> DEFINE len == vec.len - count
             n == IF vec.len <= count THEN 0 ELSE len
  <1>1. vec.len \in Nat /\ n \in Nat /\ n <= vec.len
        /\ (~(vec.len <= count) => len = n)
    BY VectorParts DEF VectorKept
  <1>2. Housed' /\ Roomy' /\ vec'.len = n
    <2>1. CASE vec.len <= count
      <3>1. /\ vec.data # Vec!Null /\ heap' = Vec!Free(heap, Vec!Block)
            /\ vec' = [data |-> 0, len |-> 0, capacity |-> 0]
        BY <2>1, VectorsUseHeap DEF Vec!Pop, Vec!Empty, Null
      <3> QED
        BY <2>1, <3>1, FreedKeeps DEF VectorKept
    <2>2. CASE ~(vec.len <= count)
      <3>1. PICK r \in Vec!Realloc(heap, Vec!Block, len * ElementSize) :
              Vec!Moved(r, len)
        BY <2>2 DEF Vec!Pop
      <3>2. vec.data # Vec!Null /\ len * ElementSize \in Nat /\ len = n
        BY <1>1, <2>2, VectorConstants DEF Vec!Pop
      <3> HIDE DEF len, n
      <3>3. Obtained(heap, heap.used, r, len * ElementSize)
        BY <3>1, <3>2, VectorReallocs DEF VectorKept
      <3> QED
        BY <1>1, <3>1, <3>2, <3>3, MovedKeeps DEF VectorKept
    <2> QED
      BY <2>1, <2>2
  <1>3. /\ Contents'
        /\ NoneRaw /\ ~wild => NoneRaw' /\ ~wild'
        /\ Vec!Constructs /\ ~dropped => ~dropped'
    <2>1. Vec!Removed(n, Vec!Constructs)
      BY DEF Vec!Pop
    <2> HIDE DEF n
    <2> QED
      BY <1>1, <1>2, <2>1, RemovedContents DEF VectorKept
  <1>4. AllBuilt'
    BY <1>3 DEF AllBuilt, Vec!Pop, Vec!Constructs
  <1> QED
    BY <1>2, <1>3, <1>4 DEF VectorKept

\* pop() of vector_type_cd
LEMMA PopTypeCDKeeps ==
  ASSUME VectorKept, AllBuilt, heap.misused = {}, NEW count \in Nat,
         Vec!PopTypeCD(count)
  PROVE  VectorKept' /\ AllBuilt'
  <1> DEFINE len == vec.len - count
             n == IF vec.len <= count THEN 0 ELSE len
  <1>1. /\ vec.len \in Nat /\ vec.capacity \in Nat /\ Slack \in Nat
        /\ n \in Nat /\ n <= vec.len
        /\ ~(vec.len <= count) => len = n
    BY VectorParts, VectorConstants DEF VectorKept
  <1>2. vec.data # Vec!Null /\ resized' = resized /\ kind = "type_cd" /\ kind' = kind
    BY DEF Vec!PopTypeCD
  <1>3. Housed' /\ (~resized => Roomy') /\ vec'.len = n
    <2>1. CASE vec.len <= count
      <3>1. /\ heap' = Vec!Free(heap, Vec!Block)
            /\ vec' = [data |-> 0, len |-> 0, capacity |-> vec.capacity]
        BY <1>1, <2>1, VectorsUseHeap DEF Vec!PopTypeCD, Vec!Empty, Null
      <3> QED
        BY <1>1, <1>2, <2>1, <3>1, FreedKeeps DEF VectorKept
    <2>2. CASE ~(vec.len <= count) /\ count < Slack
      <3>1. heap' = heap /\ vec' = [vec EXCEPT !.len = len]
        BY <1>1, <2>2 DEF Vec!PopTypeCD
      <3>2. len = n
        BY <2>2
      <3> HIDE DEF len, n
      <3> QED
        BY <1>1, <3>1, <3>2, StaysKeeps DEF VectorKept
    <2>3. CASE ~(vec.len <= count) /\ ~(count < Slack)
      <3>1. PICK r \in Vec!Realloc(heap, Vec!Block, len * ElementSize) :
              Vec!Moved(r, len)
        BY <1>1, <2>3 DEF Vec!PopTypeCD
      <3>2. len * ElementSize \in Nat /\ len = n
        BY <1>1, <2>3, VectorConstants
      <3> HIDE DEF len, n
      <3>3. Obtained(heap, heap.used, r, len * ElementSize)
        BY <1>2, <3>1, <3>2, VectorReallocs DEF VectorKept
      <3> QED
        BY <1>1, <3>1, <3>2, <3>3, MovedKeeps DEF VectorKept
    <2> QED
      BY <2>1, <2>2, <2>3
  <1>4. Contents' /\ (NoneRaw /\ ~wild => NoneRaw' /\ ~wild')
    <2>1. Vec!Removed(n, FALSE)
      BY DEF Vec!PopTypeCD
    <2> HIDE DEF n
    <2> QED
      BY <1>1, <1>3, <2>1, RemovedContents DEF VectorKept
  <1>5. AllBuilt'
    <2>1. skipped' = skipped
      BY DEF Vec!PopTypeCD
    <2> QED
      BY <1>2, <1>4, <2>1 DEF AllBuilt, Vec!Constructs
  <1> QED
    BY <1>2, <1>3, <1>4, <1>5 DEF VectorKept

\* resize() and vec_resize() without constructors
LEMMA ResizePlainKeeps ==
  ASSUME VectorKept, AllBuilt, heap.misused = {}, NEW len \in Nat,
         Vec!ResizePlain(len)
  PROVE  VectorKept' /\ AllBuilt'
  <1>1. /\ len * ElementSize \in Nat /\ vec.len \in Nat /\ vec.data # Vec!Null
        /\ ~Vec!Constructs /\ len # vec.len
        /\ UNCHANGED <<kind, resized, wild, skipped, expected>>
    BY VectorConstants, VectorParts DEF VectorKept, Vec!ResizePlain
  <1>2. Housed' /\ Roomy' /\ vec'.len = len
    <2>1. PICK r \in Vec!Realloc(heap, Vec!Block, len * ElementSize) :
            Vec!Moved(r, len)
      BY DEF Vec!ResizePlain
    <2>2. Obtained(heap, heap.used, r, len * ElementSize)
      BY <1>1, <2>1, VectorReallocs DEF VectorKept
    <2> QED
      BY <2>1, <2>2, MovedKeeps DEF VectorKept
  <1>3. Contents'
    <2>1. CASE len < vec.len
      <3>1. elems' = SubSeq(elems, 1, len)
        BY <2>1 DEF Vec!ResizePlain
      <3>2. len <= vec.len
        BY <1>1, <2>1
      <3>3. Contents /\ vec'.len = len
        BY <1>2 DEF VectorKept
      <3> QED
        BY <3>1, <3>2, <3>3, CutContents
    <2>2. CASE ~(len < vec.len)
      <3> DEFINE count == len - vec.len
      <3>1. Vec!Extended(vec.len, count, FALSE)
        BY <2>2 DEF Vec!ResizePlain
      <3>2. /\ count \in Nat /\ vec.len \in Nat /\ vec.len <= vec.len
            /\ vec'.len = vec.len + count
        BY <1>1, <1>2, <2>2
      <3>3. Contents
        BY DEF VectorKept
      <3> HIDE DEF count
      <3> QED
        BY <3>1, <3>2, <3>3, ExtendedContents
    <2> QED
      BY <2>1, <2>2
  <1>4. AllBuilt'
    BY <1>1 DEF AllBuilt, Vec!Constructs
  <1> QED
    BY <1>2, <1>3, <1>4 DEF VectorKept

\* resize() and vec_resizecd() with constructors: a shorter vector keeps its
\* capacity.
LEMMA ResizeCDKeeps ==
  ASSUME VectorKept, AllBuilt, heap.misused = {}, NEW len \in Nat,
         Vec!ResizeCD(len)
  PROVE  VectorKept' /\ AllBuilt'
  <1>1. /\ len * ElementSize \in Nat /\ vec.len \in Nat /\ vec.capacity \in Nat
        /\ vec.data # Vec!Null /\ len # vec.len /\ resized' = TRUE
    BY VectorConstants, VectorParts DEF VectorKept, Vec!ResizeCD
  <1>2. Housed' /\ vec'.len = len
    <2>1. PICK r \in Vec!Realloc(heap, Vec!Block, len * ElementSize) :
            /\ heap' = r.heap
            /\ vec' = [data |-> r.seg + HeaderSize, len |-> len,
                       capacity |-> IF Vec!Multi THEN 0
                                    ELSE IF vec.len < len
                                    THEN r.heap.size[r.seg] \div ElementSize
                                    ELSE vec.capacity]
      BY DEF Vec!ResizeCD
    <2>2. Obtained(heap, heap.used, r, len * ElementSize)
      BY <1>1, <2>1, VectorReallocs DEF VectorKept
    <2>3. r.heap.size[r.seg] \div ElementSize \in Nat
      <3>1. r.heap.size[r.seg] \in Nat
        BY <2>2, HeapElim DEF Obtained
      <3> QED
        BY <3>1, VectorConstants
    <2>4. PICK c \in Nat : vec' = [data |-> r.seg + HeaderSize, len |-> len,
                                   capacity |-> c]
      BY <1>1, <2>1, <2>3
    <2> QED
      BY <2>1, <2>2, <2>4, NewBlock DEF VectorKept
  <1>3. Contents'
    <2>1. CASE len < vec.len
      <3>1. elems' = SubSeq(elems, 1, len)
        BY <2>1 DEF Vec!ResizeCD
      <3>2. len <= vec.len
        BY <1>1, <2>1
      <3>3. Contents /\ vec'.len = len
        BY <1>2 DEF VectorKept
      <3> QED
        BY <3>1, <3>2, <3>3, CutContents
    <2>2. CASE ~(len < vec.len)
      <3> DEFINE count == len - vec.len
      <3>1. Vec!Extended(vec.len, count, FALSE)
        BY <2>2 DEF Vec!ResizeCD
      <3>2. /\ count \in Nat /\ vec.len \in Nat /\ vec.len <= vec.len
            /\ vec'.len = vec.len + count
        BY <1>1, <1>2, <2>2
      <3>3. Contents
        BY DEF VectorKept
      <3> HIDE DEF count
      <3> QED
        BY <3>1, <3>2, <3>3, ExtendedContents
    <2> QED
      BY <2>1, <2>2
  <1> QED
    BY <1>1, <1>2, <1>3 DEF VectorKept, AllBuilt

\* destruct(), vec_free(), vec_clear()
LEMMA DestructKeeps ==
  ASSUME VectorKept, AllBuilt, heap.misused = {}, Vec!Destruct
  PROVE  VectorKept' /\ AllBuilt'
  <1>1. /\ vec.data # Vec!Null /\ heap' = Vec!Free(heap, Vec!Block)
        /\ vec' = [data |-> 0, len |-> 0, capacity |-> 0]
        /\ Vec!Removed(0, Vec!Constructs)
        /\ UNCHANGED <<kind, resized, skipped, expected>>
    BY VectorsUseHeap DEF Vec!Destruct, Vec!Empty, Null
  <1>2. Housed' /\ Roomy' /\ vec'.len = 0
    BY <1>1, FreedKeeps DEF VectorKept
  <1>3. /\ Contents'
        /\ NoneRaw /\ ~wild => NoneRaw' /\ ~wild'
        /\ Vec!Constructs /\ ~dropped => ~dropped'
    <2>1. vec.len \in Nat /\ 0 <= vec.len
      BY VectorParts DEF VectorKept
    <2> QED
      BY <1>1, <1>2, <2>1, RemovedContents DEF VectorKept
  <1>4. AllBuilt'
    BY <1>1, <1>3 DEF AllBuilt, Vec!Constructs
  <1> QED
    BY <1>2, <1>3, <1>4 DEF VectorKept

\* vec_insert()
LEMMA InsertKeeps ==
  ASSUME VectorKept, AllBuilt, heap.misused = {}, NEW index \in Nat,
         Vec!Insert(index)
  PROVE  VectorKept' /\ AllBuilt'
  <1> DEFINE len == vec.len + 1
             shifted == [i \in 1 .. len |-> IF i > index /\ i > 1 THEN elems[i - 1]
                                            ELSE IF i <= vec.len THEN elems[i]
                                            ELSE "raw"]
  <1>1. /\ len * ElementSize \in Nat /\ vec.len \in Nat /\ len \in Nat
        /\ vec.data # Vec!Null /\ index < vec.len /\ kind = "multi"
        /\ UNCHANGED <<kind, resized, wild, dropped, skipped>>
    <2>1. vec.len \in Nat /\ len \in Nat
      BY VectorParts DEF VectorKept
    <2>2. len * ElementSize \in Nat
      BY <2>1, VectorConstants
    <2> QED
      BY <2>1, <2>2 DEF Vec!Insert
  <1>2. Housed' /\ Roomy' /\ vec'.len = len
    <2>1. PICK r \in Vec!Realloca(heap, Vec!Block, len * ElementSize, ReallocAdd) :
            Vec!Moved(r, len)
      BY DEF Vec!Insert
    <2> HIDE DEF len
    <2>2. Obtained(heap, heap.used, r, len * ElementSize)
      BY <1>1, <2>1, VectorReallocas DEF VectorKept
    <2> QED
      BY <1>1, <2>1, <2>2, MovedKeeps DEF VectorKept
  <1>3. Contents'
    <2>1. PICK m \in Marks : elems' = [shifted EXCEPT ![index + 2] = m]
      BY DEF Vec!Insert
    <2>2. ASSUME NEW i \in 1 .. len
          PROVE  shifted[i] \in Marks \cup {"raw"}
      <3>1. Len(elems) = vec.len /\ elems \in Seq(Marks \cup {"raw"})
        BY DEF VectorKept, Contents
      <3>2. i > index /\ i > 1 => i - 1 \in 1 .. Len(elems)
        BY <1>1, <3>1
      <3>3. i <= vec.len => i \in 1 .. Len(elems)
        BY <1>1, <3>1
      <3> QED
        BY <3>1, <3>2, <3>3, ElementOfSeq
    <2>3. shifted \in Seq(Marks \cup {"raw"}) /\ Len(shifted) = len
      <3>1. shifted \in [1 .. len -> Marks \cup {"raw"}]
        BY <2>2
      <3> HIDE DEF shifted, len
      <3> QED
        BY <1>1, <3>1
    <2>4. index + 2 \in 1 .. len
      BY <1>1
    <2> HIDE DEF shifted, len
    <2>5. /\ [shifted EXCEPT ![index + 2] = m] \in Seq(Marks \cup {"raw"})
          /\ Len([shifted EXCEPT ![index + 2] = m]) = Len(shifted)
      <3>1. index + 2 \in 1 .. Len(shifted)
        BY <2>3, <2>4
      <3> QED
        BY <2>3, <3>1, ExceptSeq
    <2> QED
      BY <1>2, <2>1, <2>3, <2>5 DEF Contents
  <1> QED
    BY <1>1, <1>2, <1>3 DEF VectorKept, AllBuilt, Vec!Constructs

-----------------------------------------------------------------------------
(* The blocks of the strings.                                               *)

\* String s owns the segment in front of its data.
Holds(s) == strs[s].data # 0 /\ s \notin cleared

\* The segment the data of string s lies in.
SegOf(s) == strs[s].data - HeaderSize

\* The used segments are the blocks of the strings, one each and large enough.
BlocksOwned ==
  /\ \A s \in Names : Holds(s) =>
       SegOf(s) \in heap.used /\ heap.size[SegOf(s)] >= strs[s].size
  /\ \A s, t \in Names : Holds(s) /\ Holds(t) /\ SegOf(s) = SegOf(t) => s = t
  /\ \A x \in heap.used : \E s \in Names : Holds(s) /\ x = SegOf(s)

\* The inductive invariant of the strings.  A string without data is empty: the
\* functions that append do not look at its size.
StringsKept ==
  /\ HeapType(heap)
  /\ strs \in [Names -> [data : Nat, size : Nat]]
  /\ \A s \in Names : strs[s].data # 0 => SegOf(s) \in Segs(heap)
  /\ \A s \in Names : strs[s].data = 0 => strs[s].size = 0
  /\ cleared \subseteq Names
  /\ overrun \subseteq {"stre", "str_pushs"}
  /\ heap.misused = {} /\ ~reused => Tiled(heap) /\ BlocksOwned

\* The segments a call on string s gives up.
OldBlock(s) == IF strs[s].data = 0 THEN {} ELSE {SegOf(s)}

\* What the assumption on the constants says of those of the strings.
LEMMA StringConstants ==
  Lengths \subseteq Nat /\ StringReallocAdd \in Nat
  BY ContainersAssumption DEF Str!StringsAssumption

\* The parts of a string.
LEMMA StringParts ==
  ASSUME StringsKept, NEW s \in Names
  PROVE  /\ strs[s] = [data |-> strs[s].data, size |-> strs[s].size]
         /\ strs[s].data \in Nat /\ strs[s].size \in Nat
         /\ strs[s].data # 0 => SegOf(s) \in Segs(heap) /\ SegOf(s) \in Nat
  <1>1. strs[s] \in [data : Nat, size : Nat]
    BY DEF StringsKept
  <1>2. strs[s].data # 0 => SegOf(s) \in Segs(heap) /\ SegOf(s) \in Nat
    BY HeapElim DEF StringsKept
  <1> QED
    BY <1>1, <1>2

\* Outcome r of a function that gave up string s's block: the heap served it
\* with one that has room for the string.
Outcome(s, r) ==
  /\ r.str \in [data : Nat, size : Nat] /\ r.str.data # 0
  /\ Obtained(heap, OldBlock(s),
              [heap |-> r.heap, seg |-> r.str.data - HeaderSize], r.str.size)

\* No byte was written behind the block.
Within(r) ==
  r.wrote[2] \in Nat /\ r.wrote[2] <= SegEnd(r.heap, r.str.data - HeaderSize)

\* The outcome whose block is the segment of result q.
LEMMA PlacedIs ==
  ASSUME NEW s, NEW q, NEW b \in Nat, Obtained(heap, OldBlock(s), q, b),
         NEW size \in Nat, size <= b, NEW from, NEW to \in Nat, NEW r,
         r = Str!Placed(q, size, from, to)
  PROVE  Outcome(s, r) /\ (to <= b => Within(r))
  <1>1. /\ r.heap = q.heap
        /\ r.str = [data |-> q.seg + HeaderSize, size |-> size]
        /\ r.wrote[2] = q.seg + HeaderSize + to
    BY DEF Str!Placed
  <1>2. /\ q.seg \in Nat /\ q.heap.size[q.seg] \in Nat
        /\ q.heap.size[q.seg] >= b
    BY HeapElim DEF Obtained
  <1>3. HeaderSize \in Nat \ {0}
    BY HeapOpsAssumption
  <1>4. /\ r.str \in [data : Nat, size : Nat] /\ r.str.data # 0
        /\ r.str.data - HeaderSize = q.seg /\ r.str.size = size
    BY <1>1, <1>2, <1>3
  <1> DEFINE p == [heap |-> r.heap, seg |-> r.str.data - HeaderSize]
  <1>5. p.heap = q.heap /\ p.seg = q.seg
    BY <1>1, <1>4
  <1> HIDE DEF p
  <1>6. Obtained(heap, OldBlock(s), p, size)
    BY <1>2, <1>5 DEF Obtained, Served
  <1>7. Outcome(s, r)
    BY <1>4, <1>6 DEF Outcome, p
  <1>8. to <= b => Within(r)
    BY <1>1, <1>2, <1>3, <1>4 DEF Within, SegEnd
  <1> QED
    BY <1>7, <1>8

\* alloc() for string s
LEMMA StringAllocs ==
  ASSUME StringsKept, NEW s \in Names, strs[s].data = Str!Null, NEW b \in Nat,
         NEW q \in Str!Alloc(heap, b)
  PROVE  Obtained(heap, OldBlock(s), q, b)
  <1>1. strs[s].data = 0 /\ q \in Alloc(heap, b)
    BY StringsUseHeap DEF Null
  <1>2. OldBlock(s) = {} /\ HeapType(heap)
    BY <1>1 DEF OldBlock, StringsKept
  <1>3. Obtained(heap, {}, q, b)
    BY <1>1, <1>2, AllocObtains
  <1> QED
    BY <1>2, <1>3

\* realloc()
LEMMA StringReallocs ==
  ASSUME StringsKept, NEW s \in Names, strs[s].data # Str!Null, NEW b \in Nat,
         NEW q \in Str!Realloc(heap, Str!Block(strs[s].data), b)
  PROVE  Obtained(heap, OldBlock(s), q, b)
  <1> DEFINE g == SegOf(s)
  <1>1. strs[s].data # 0 /\ q \in Realloc(heap, g, b)
    BY StringsUseHeap DEF Null, Str!Block, SegOf
  <1>2. OldBlock(s) = {g} /\ HeapType(heap) /\ g \in Segs(heap)
    BY <1>1, StringParts DEF OldBlock, StringsKept
  <1> HIDE DEF g
  <1>3. Obtained(heap, {g}, q, b)
    BY <1>1, <1>2, ReallocObtains
  <1> QED
    BY <1>2, <1>3

\* realloca()
LEMMA StringReallocas ==
  ASSUME StringsKept, NEW s \in Names, strs[s].data # Str!Null, NEW b \in Nat,
         NEW q \in Str!Realloca(heap, Str!Block(strs[s].data), b, StringReallocAdd)
  PROVE  Obtained(heap, OldBlock(s), q, b)
  <1> DEFINE g == SegOf(s)
  <1>1. strs[s].data # 0 /\ q \in Realloca(heap, g, b, StringReallocAdd)
    BY StringsUseHeap DEF Null, Str!Block, SegOf
  <1>2. OldBlock(s) = {g} /\ HeapType(heap) /\ g \in Segs(heap)
    BY <1>1, StringParts DEF OldBlock, StringsKept
  <1>3. StringReallocAdd \in Nat
    BY StringConstants
  <1> HIDE DEF g
  <1>4. Obtained(heap, {g}, q, b)
    BY <1>1, <1>2, <1>3, ReallocaObtains
  <1> QED
    BY <1>2, <1>4

-----------------------------------------------------------------------------
(* The functions of the strings.                                            *)

\* The functions that append.
LEMMA AppendOutcome ==
  ASSUME StringsKept, NEW s \in Names, NEW first \in Nat, NEW size \in Nat,
         NEW to \in Nat, strs[s].data = 0 => size <= first,
         NEW r \in Str!AppendBytes(heap, strs[s], first, size, to)
  PROVE  /\ Outcome(s, r)
         /\ to <= size => Within(r)
  <1>1. CASE strs[s].data = Str!Null
    <2>1. PICK q \in Str!Alloc(heap, first) : r = Str!Placed(q, size, 0, to)
      BY <1>1 DEF Str!AppendBytes
    <2>2. size <= first
      BY <1>1, StringsUseHeap DEF Null
    <2>3. Obtained(heap, OldBlock(s), q, first)
      BY <1>1, <2>1, StringAllocs
    <2>4. Outcome(s, r) /\ (to <= first => Within(r))
      BY <2>1, <2>2, <2>3, PlacedIs
    <2> QED
      BY <2>2, <2>4
  <1>2. CASE strs[s].data # Str!Null
    <2>1. PICK q \in Str!Realloca(heap, Str!Block(strs[s].data), size,
                                  StringReallocAdd) :
            r = Str!Placed(q, size, strs[s].size, to)
      BY <1>2 DEF Str!AppendBytes
    <2>2. Obtained(heap, OldBlock(s), q, size)
      BY <1>2, <2>1, StringReallocas
    <2>3. size <= size
      OBVIOUS
    <2> QED
      BY <2>1, <2>2, <2>3, PlacedIs
  <1> QED
    BY <1>1, <1>2

\* The functions that replace the contents, on s or on a string that is as
\* empty as s.
LEMMA ReplaceOutcome ==
  ASSUME StringsKept, NEW s \in Names, NEW x, x.data = strs[s].data,
         NEW size \in Nat, NEW to \in Nat, to <= size,
         NEW r \in Str!Replace(heap, x, size, to)
  PROVE  Outcome(s, r) /\ Within(r)
  <1>1. PICK q \in IF x.data = Str!Null
                   THEN Str!Alloc(heap, size)
                   ELSE Str!Realloc(heap, Str!Block(x.data), size) :
          r = Str!Placed(q, size, 0, to)
    BY DEF Str!Replace
  <1>2. Obtained(heap, OldBlock(s), q, size)
    <2>1. CASE strs[s].data = Str!Null
      <3>1. q \in Str!Alloc(heap, size)
        BY <1>1, <2>1
      <3> QED
        BY <2>1, <3>1, StringAllocs
    <2>2. CASE strs[s].data # Str!Null
      <3>1. q \in Str!Realloc(heap, Str!Block(strs[s].data), size)
        BY <1>1, <2>2
      <3> QED
        BY <2>2, <3>1, StringReallocs
    <2> QED
      BY <2>1, <2>2
  <1>3. size <= size
    OBVIOUS
  <1> QED
    BY <1>1, <1>2, <1>3, PlacedIs

\* stre() copies one byte more than it asks for.
LEMMA StrEOutcome ==
  ASSUME StringsKept, NEW s \in Names, strs[s].data = Str!Null, NEW n \in Nat,
         NEW r \in Str!StrE(heap, n)
  PROVE  Outcome(s, r)
  <1>1. PICK q \in Str!Alloc(heap, n) : r = Str!Placed(q, n, 0, n + 1)
    BY DEF Str!StrE
  <1>2. Obtained(heap, OldBlock(s), q, n) /\ n + 1 \in Nat /\ n <= n
    BY <1>1, StringAllocs
  <1> QED
    BY <1>1, <1>2, PlacedIs

\* The heap is in order, nobody used a cleared string, nobody wrote behind a
\* block: the strings may be used.
Calm == heap.misused = {} /\ ~reused /\ overrun = {}

\* A string of Calm strings that is not cleared gives up its own block.
LEMMA OldIsUsed ==
  ASSUME StringsKept, Calm, NEW s \in Names, s \notin cleared
  PROVE  OldBlock(s) \subseteq heap.used
  BY DEF StringsKept, Calm, BlocksOwned, Holds, OldBlock

\* A string becomes the outcome of a function.
LEMMA BecomesKeeps ==
  ASSUME StringsKept, Calm, NEW s \in Names, NEW r, Outcome(s, r), NEW function,
         Within(r) \/ function \in {"stre", "str_pushs"},
         Str!Becomes(s, r, function)
  PROVE  StringsKept'
  <1> DEFINE g == r.str.data - HeaderSize
             q == [heap |-> r.heap, seg |-> g]
  <1>1. /\ heap' = r.heap /\ strs' = [strs EXCEPT ![s] = r.str]
        /\ cleared' = cleared \ {s} /\ reused' = (reused \/ s \in cleared)
    BY DEF Str!Becomes
  <1>2. overrun' \subseteq {"stre", "str_pushs"}
    <2>1. CASE function \in {"stre", "str_pushs"}
      BY <2>1 DEF Str!Becomes, Calm
    <2>2. CASE Within(r)
      <3>1. /\ r.str.data \in Nat /\ HeaderSize \in Nat /\ g \in Nat
            /\ r.heap.size[g] \in Nat
        BY HeapElim, HeapOpsAssumption DEF Outcome, Obtained
      <3>2. ~(r.wrote[2] > Str!SegEnd(r.heap, Str!Block(r.str.data)))
        <4>1. Str!SegEnd(r.heap, Str!Block(r.str.data)) = SegEnd(r.heap, g)
          BY StringsUseHeap DEF Str!Block
        <4>2. SegEnd(r.heap, g) \in Nat
          BY <3>1 DEF SegEnd
        <4> QED
          BY <2>2, <4>1, <4>2 DEF Within
      <3> QED
        BY <3>2 DEF Str!Becomes, Calm
    <2> QED
      BY <2>1, <2>2
  <1>3. /\ HeapType(heap') /\ Segs(heap) \subseteq Segs(heap')
        /\ g \in Segs(heap') /\ r.str \in [data : Nat, size : Nat]
        /\ r.str.data # 0 /\ Obtained(heap, OldBlock(s), q, r.str.size)
    BY <1>1 DEF Outcome, Obtained
  <1>4. strs' \in [Names -> [data : Nat, size : Nat]]
    BY <1>1, <1>3 DEF StringsKept
  <1>5. /\ strs'[s] = r.str
        /\ \A t \in Names \ {s} : strs'[t] = strs[t]
    BY <1>1 DEF StringsKept
  <1>6. /\ \A t \in Names : strs'[t].data # 0 => SegOf(t)' \in Segs(heap')
        /\ \A t \in Names : strs'[t].data = 0 => strs'[t].size = 0
    BY <1>3, <1>5 DEF StringsKept, SegOf
  <1>7. ASSUME heap'.misused = {}, ~reused'
        PROVE  Tiled(heap') /\ BlocksOwned'
    <2>1. s \notin cleared /\ cleared' = cleared
      BY <1>1, <1>7
    <2>2. Served(heap, OldBlock(s), q, r.str.size)
      <3>1. Tiled(heap) /\ OldBlock(s) \subseteq heap.used
        BY <2>1, OldIsUsed DEF StringsKept, Calm
      <3> QED
        BY <1>1, <1>3, <1>7, <3>1 DEF Obtained
    <2>3. /\ Tiled(heap') /\ g \notin heap.used \ OldBlock(s)
          /\ heap'.used = (heap.used \ OldBlock(s)) \cup {g}
          /\ heap'.size[g] >= r.str.size
          /\ \A t \in heap.used \ OldBlock(s) : heap'.size[t] = heap.size[t]
      BY <1>1, <2>2 DEF Served
    <2>4. Holds(s)' /\ SegOf(s)' = g
      BY <1>3, <1>5, <2>1 DEF Holds, SegOf
    <2>5. ASSUME NEW t \in Names \ {s}
          PROVE  /\ Holds(t)' = Holds(t) /\ SegOf(t)' = SegOf(t)
                 /\ strs'[t].size = strs[t].size
                 /\ Holds(t) => SegOf(t) \in heap.used \ OldBlock(s)
      <3>1. Holds(t)' = Holds(t) /\ SegOf(t)' = SegOf(t) /\ strs'[t] = strs[t]
        BY <1>5, <2>1 DEF Holds, SegOf
      <3>2. ASSUME Holds(t) PROVE SegOf(t) \in heap.used \ OldBlock(s)
        <4>1. SegOf(t) \in heap.used
          BY <3>2 DEF StringsKept, Calm, BlocksOwned
        <4>2. SegOf(t) \notin OldBlock(s)
          BY <2>1, <3>2 DEF StringsKept, Calm, BlocksOwned, OldBlock, Holds
        <4> QED
          BY <4>1, <4>2
      <3> QED
        BY <3>1, <3>2
    <2>6. \A x \in heap.used \ OldBlock(s) : \E t \in Names \ {s} : Holds(t) /\ x = SegOf(t)
      BY DEF StringsKept, Calm, BlocksOwned, OldBlock, Holds
    <2>7. \A t \in Names : Holds(t)' =>
            SegOf(t)' \in heap'.used /\ heap'.size[SegOf(t)'] >= strs'[t].size
      <3>1. ASSUME NEW t \in Names \ {s}, Holds(t)
            PROVE  SegOf(t)' \in heap'.used /\ heap'.size[SegOf(t)'] >= strs'[t].size
        <4>1. heap.size[SegOf(t)] >= strs[t].size
          BY <3>1 DEF StringsKept, Calm, BlocksOwned
        <4> QED
          BY <2>3, <2>5, <3>1, <4>1
      <3> QED
        BY <1>5, <2>3, <2>4, <2>5, <3>1
    <2>8. \A t, u \in Names : Holds(t)' /\ Holds(u)' /\ SegOf(t)' = SegOf(u)' => t = u
      <3>1. \A t \in Names \ {s} : Holds(t) => SegOf(t) # g
        BY <2>3, <2>5
      <3>2. \A t, u \in Names : Holds(t) /\ Holds(u) /\ SegOf(t) = SegOf(u) => t = u
        BY DEF StringsKept, Calm, BlocksOwned
      <3> QED
        BY <2>4, <2>5, <3>1, <3>2
    <2>9. \A x \in heap'.used : \E t \in Names : Holds(t)' /\ x = SegOf(t)'
      BY <2>3, <2>4, <2>5, <2>6
    <2> QED
      BY <2>3, <2>7, <2>8, <2>9 DEF BlocksOwned
  <1>8. cleared' \subseteq Names
    BY <1>1 DEF StringsKept
  <1> QED
    BY <1>2, <1>3, <1>4, <1>6, <1>7, <1>8 DEF StringsKept

\* The heap without the block of string s.
LEMMA Released ==
  ASSUME StringsKept, NEW s \in Names, NEW g,
         g = IF strs[s].data = Str!Null THEN heap
             ELSE Str!Free(heap, Str!Block(strs[s].data))
  PROVE  /\ HeapType(g) /\ Segs(g) = Segs(heap) /\ g.size = heap.size
         /\ g.used = heap.used \ OldBlock(s) /\ g.misused = heap.misused
         /\ Tiled(heap) => Tiled(g)
  <1>1. HeapType(heap)
    BY DEF StringsKept
  <1>2. CASE strs[s].data = 0
    <2>1. g = heap
      BY <1>2, StringsUseHeap DEF Null
    <2>2. OldBlock(s) = {}
      BY <1>2 DEF OldBlock
    <2> QED
      BY <1>1, <2>1, <2>2
  <1>3. CASE strs[s].data # 0
    <2> DEFINE x == SegOf(s)
    <2>1. g = Free(heap, x)
      BY <1>3, StringsUseHeap DEF Null, Str!Block, SegOf
    <2>2. x \in Segs(heap) /\ OldBlock(s) = {x}
      BY <1>3, StringParts DEF OldBlock
    <2> HIDE DEF x
    <2>3. /\ HeapType(g) /\ Segs(g) = Segs(heap)
          /\ g.next = heap.next /\ g.size = heap.size
          /\ g.used = heap.used \ {x} /\ g.misused = heap.misused
      BY <1>1, <2>1, <2>2, FreeFields
    <2>4. Tiled(heap) => Tiled(g)
      BY <2>3 DEF Tiled, SegEnd
    <2> QED
      BY <2>2, <2>3, <2>4
  <1> QED
    BY <1>2, <1>3

\* String s loses its block.
LEMMA LosesBlock ==
  ASSUME StringsKept, Calm, NEW s \in Names,
         heap' = IF strs[s].data = Str!Null THEN heap
                 ELSE Str!Free(heap, Str!Block(strs[s].data)),
         NEW str, str \in [data : Nat, size : Nat], str.data = 0 => str.size = 0,
         str.data = strs[s].data \/ str.data = 0,
         strs' = [strs EXCEPT ![s] = str],
         cleared' \subseteq Names, \A t \in Names \ {s} : t \in cleared' <=> t \in cleared,
         str.data # 0 => s \in cleared',
         ~reused' => s \notin cleared,
         overrun' = overrun
  PROVE  StringsKept'
  <1>1. /\ HeapType(heap') /\ Segs(heap') = Segs(heap) /\ heap'.size = heap.size
        /\ heap'.used = heap.used \ OldBlock(s) /\ heap'.misused = heap.misused
        /\ Tiled(heap) => Tiled(heap')
    BY Released
  <1>2. strs' \in [Names -> [data : Nat, size : Nat]]
    BY DEF StringsKept
  <1>3. /\ strs'[s] = str
        /\ \A t \in Names \ {s} : strs'[t] = strs[t]
    BY DEF StringsKept
  <1>4. /\ \A t \in Names : strs'[t].data # 0 => SegOf(t)' \in Segs(heap')
        /\ \A t \in Names : strs'[t].data = 0 => strs'[t].size = 0
    BY <1>1, <1>3 DEF StringsKept, SegOf
  <1>5. ASSUME ~reused'
        PROVE  Tiled(heap') /\ BlocksOwned'
    <2>1. ~Holds(s)'
      BY <1>3 DEF Holds
    <2>2. ASSUME NEW t \in Names \ {s}
          PROVE  /\ Holds(t)' <=> Holds(t)
                 /\ SegOf(t)' = SegOf(t) /\ strs'[t].size = strs[t].size
                 /\ Holds(t) => SegOf(t) \in heap.used \ OldBlock(s)
      <3>1. Holds(t)' <=> Holds(t)
        BY <1>3 DEF Holds
      <3>2. SegOf(t)' = SegOf(t) /\ strs'[t].size = strs[t].size
        BY <1>3 DEF SegOf
      <3>3. Holds(t) => SegOf(t) \in heap.used \ OldBlock(s)
        BY <1>5 DEF StringsKept, Calm, BlocksOwned, OldBlock, Holds
      <3> QED
        BY <3>1, <3>2, <3>3
    <2>3. \A x \in heap.used \ OldBlock(s) : \E t \in Names \ {s} : Holds(t) /\ x = SegOf(t)
      BY DEF StringsKept, Calm, BlocksOwned, OldBlock, Holds
    <2>4. \A t \in Names : Holds(t)' =>
            SegOf(t)' \in heap'.used /\ heap'.size[SegOf(t)'] >= strs'[t].size
      <3>1. \A t \in Names : Holds(t) => heap.size[SegOf(t)] >= strs[t].size
        BY DEF StringsKept, Calm, BlocksOwned
      <3> QED
        BY <1>1, <2>1, <2>2, <3>1
    <2>5. \A t, u \in Names : Holds(t)' /\ Holds(u)' /\ SegOf(t)' = SegOf(u)' => t = u
      <3>1. \A t, u \in Names : Holds(t) /\ Holds(u) /\ SegOf(t) = SegOf(u) => t = u
        BY DEF StringsKept, Calm, BlocksOwned
      <3> QED
        BY <2>1, <2>2, <3>1
    <2>6. \A x \in heap'.used : \E t \in Names : Holds(t)' /\ x = SegOf(t)'
      BY <1>1, <2>2, <2>3
    <2>7. Tiled(heap')
      BY <1>1 DEF StringsKept, Calm
    <2> QED
      BY <2>4, <2>5, <2>6, <2>7 DEF BlocksOwned
  <1>6. overrun' \subseteq {"stre", "str_pushs"}
    BY DEF StringsKept
  <1> QED
    BY <1>1, <1>2, <1>4, <1>5, <1>6 DEF StringsKept

\* str_pop()
LEMMA StringPopKeeps ==
  ASSUME StringsKept, Calm, NEW s \in Names, Str!Pop(s)
  PROVE  StringsKept'
  <1>1. PICK count \in Lengths :
          LET r == Str!StrPop(heap, strs[s], count)
          IN /\ heap' = r.heap
             /\ strs' = [strs EXCEPT ![s] = r.str]
             /\ cleared' = IF r.str.data = Str!Null THEN cleared \ {s} ELSE cleared
             /\ reused' = (reused \/ s \in cleared)
             /\ UNCHANGED overrun
    BY DEF Str!Pop
  <1>2. /\ count \in Nat /\ strs[s].data \in Nat /\ strs[s].size \in Nat
        /\ strs[s] = [data |-> strs[s].data, size |-> strs[s].size]
        /\ Str!Null = 0 /\ cleared \subseteq Names
    BY StringConstants, StringParts, StringsUseHeap DEF Null, StringsKept
  <1>3. CASE strs[s].data = 0
    <2>1. Str!StrPop(heap, strs[s], count) = [heap |-> heap, str |-> strs[s]]
      BY <1>2, <1>3 DEF Str!StrPop
    <2>2. /\ heap' = heap /\ strs' = strs /\ overrun' = overrun
          /\ cleared' = cleared \ {s} /\ reused' = (reused \/ s \in cleared)
      BY <1>1, <1>2, <1>3, <2>1 DEF StringsKept
    <2>3. strs[s].size = 0
      BY <1>3 DEF StringsKept
    <2>4. strs' = [strs EXCEPT ![s] = strs[s]]
      BY <2>2 DEF StringsKept
    <2>5. heap' = IF strs[s].data = Str!Null THEN heap
                  ELSE Str!Free(heap, Str!Block(strs[s].data))
      BY <1>2, <1>3, <2>2
    <2>6. strs[s] \in [data : Nat, size : Nat]
      BY <1>2
    <2> QED
      BY <1>2, <1>3, <2>2, <2>3, <2>4, <2>5, <2>6, LosesBlock
  <1>4. CASE strs[s].data # 0 /\ strs[s].size <= count
    <2> DEFINE none == [data |-> 0, size |-> 0]
    <2>1. Str!StrPop(heap, strs[s], count)
            = [heap |-> Str!Free(heap, Str!Block(strs[s].data)), str |-> none]
      BY <1>2, <1>4 DEF Str!StrPop, Str!Unset
    <2>2. /\ heap' = Str!Free(heap, Str!Block(strs[s].data))
          /\ strs' = [strs EXCEPT ![s] = none] /\ overrun' = overrun
          /\ cleared' = cleared \ {s} /\ reused' = (reused \/ s \in cleared)
      BY <1>1, <1>2, <1>4, <2>1
    <2>3. none \in [data : Nat, size : Nat] /\ none.data = 0 /\ none.size = 0
      OBVIOUS
    <2>4. heap' = IF strs[s].data = Str!Null THEN heap
                  ELSE Str!Free(heap, Str!Block(strs[s].data))
      BY <1>2, <1>4, <2>2
    <2> HIDE DEF none
    <2> QED
      BY <1>2, <2>2, <2>3, <2>4, LosesBlock
  <1>5. CASE strs[s].data # 0 /\ ~(strs[s].size <= count)
    <2> DEFINE less == [data |-> strs[s].data, size |-> strs[s].size - count]
    <2>1. Str!StrPop(heap, strs[s], count) = [heap |-> heap, str |-> less]
      BY <1>2, <1>5 DEF Str!StrPop
    <2>2. /\ heap' = heap /\ strs' = [strs EXCEPT ![s] = less]
          /\ cleared' = cleared /\ overrun' = overrun
          /\ reused' = (reused \/ s \in cleared)
      BY <1>1, <1>2, <1>5, <2>1
    <2>3. /\ less \in [data : Nat, size : Nat] /\ less.data = strs[s].data
          /\ less.size <= strs[s].size
      BY <1>2, <1>5
    <2> HIDE DEF less
    <2>4. strs' \in [Names -> [data : Nat, size : Nat]]
      BY <2>2, <2>3 DEF StringsKept
    <2>5. /\ \A t \in Names : strs'[t].data = strs[t].data
          /\ \A t \in Names : strs'[t].size <= strs[t].size
      <3>1. strs'[s] = less /\ \A t \in Names \ {s} : strs'[t] = strs[t]
        BY <2>2 DEF StringsKept
      <3>2. \A t \in Names : strs[t].size <= strs[t].size
        <4>1. \A t \in Names : strs[t].size \in Nat
          BY StringParts
        <4> QED
          BY <4>1
      <3> QED
        BY <2>3, <3>1, <3>2
    <2>6. \A t \in Names : Holds(t)' = Holds(t) /\ SegOf(t)' = SegOf(t)
      BY <2>2, <2>5 DEF Holds, SegOf
    <2>7. \A t \in Names : strs'[t].data = 0 => strs'[t].size = 0
      <3>1. strs[s].data # 0 /\ \A t \in Names \ {s} : strs'[t] = strs[t]
        BY <1>5, <2>2 DEF StringsKept
      <3> QED
        BY <2>5, <3>1 DEF StringsKept
    <2>8. ASSUME ~reused'
          PROVE  Tiled(heap') /\ BlocksOwned'
      <3>1. Tiled(heap) /\ BlocksOwned
        BY DEF StringsKept, Calm
      <3>2. \A t \in Names : Holds(t)' => heap'.size[SegOf(t)'] >= strs'[t].size
        <4>1. ASSUME NEW t \in Names, Holds(t)
              PROVE  heap.size[SegOf(t)] >= strs'[t].size
          <5>1. heap.size[SegOf(t)] >= strs[t].size /\ strs'[t].size <= strs[t].size
            BY <2>5, <3>1, <4>1 DEF BlocksOwned
          <5>2. strs[t].size \in Nat /\ strs'[t].size \in Nat
            BY <2>4, StringParts
          <5>3. heap.size[SegOf(t)] \in Nat
            BY <4>1, StringParts, HeapElim DEF StringsKept, Holds
          <5> QED
            BY <5>1, <5>2, <5>3
        <4> QED
          BY <2>2, <2>6, <4>1
      <3> QED
        BY <2>2, <2>6, <3>1, <3>2 DEF BlocksOwned
    <2>9. \A t \in Names : strs'[t].data # 0 => SegOf(t)' \in Segs(heap')
      BY <2>2, <2>5, <2>6 DEF StringsKept
    <2> QED
      BY <2>2, <2>4, <2>7, <2>8, <2>9 DEF StringsKept
  <1> QED
    BY <1>3, <1>4, <1>5

\* str_clear(), which keeps the pointer
LEMMA ClearKeeps ==
  ASSUME StringsKept, Calm, NEW s \in Names, Str!Clear(s)
  PROVE  StringsKept'
  <1> DEFINE str == [data |-> strs[s].data, size |-> 0]
  <1>1. /\ strs[s] = [data |-> strs[s].data, size |-> strs[s].size]
        /\ strs[s].data \in Nat /\ Str!Null = 0 /\ cleared \subseteq Names
    BY StringParts, StringsUseHeap DEF Null, StringsKept
  <1>2. /\ heap' = IF strs[s].data = Str!Null THEN heap
                   ELSE Str!Free(heap, Str!Block(strs[s].data))
        /\ strs' = [strs EXCEPT ![s] = str]
        /\ cleared' = IF strs[s].data = 0 THEN cleared ELSE cleared \cup {s}
        /\ reused' = (reused \/ s \in cleared) /\ overrun' = overrun
    BY <1>1 DEF Str!Clear, Str!StrClear
  <1>3. /\ str \in [data : Nat, size : Nat] /\ str.data = strs[s].data
        /\ str.size = 0
    BY <1>1
  <1> HIDE DEF str
  <1>4. str.data # 0 => s \in cleared'
    BY <1>2, <1>3
  <1>5. cleared' \subseteq Names /\ \A t \in Names \ {s} : t \in cleared' <=> t \in cleared
    BY <1>1, <1>2
  <1>6. ~reused' => s \notin cleared
    BY <1>2
  <1> QED
    BY <1>2, <1>3, <1>4, <1>5, <1>6, LosesBlock

\* str_take_over(): string s gives its block back and gets that of o.
LEMMA TakeOverKeeps ==
  ASSUME StringsKept, Calm, NEW s \in Names, NEW o \in Names, Str!TakeOver(s, o)
  PROVE  StringsKept'
  <1> DEFINE none == [data |-> 0, size |-> 0]
  <1>1. Str!Null = 0 /\ cleared \subseteq Names
    BY StringsUseHeap DEF Null, StringsKept
  <1>2. /\ s # o
        /\ heap' = IF strs[s].data = Str!Null THEN heap
                   ELSE Str!Free(heap, Str!Block(strs[s].data))
        /\ strs' = [strs EXCEPT ![s] = strs[o], ![o] = none]
        /\ cleared' = (cleared \ {s, o}) \cup (IF o \in cleared THEN {s} ELSE {})
        /\ reused' = (reused \/ s \in cleared) /\ overrun' = overrun
    BY <1>1 DEF Str!TakeOver, Str!TakenOver, Str!Unset
  <1>3. /\ HeapType(heap') /\ Segs(heap') = Segs(heap) /\ heap'.size = heap.size
        /\ heap'.used = heap.used \ OldBlock(s) /\ heap'.misused = heap.misused
        /\ Tiled(heap) => Tiled(heap')
    BY <1>2, Released
  <1>4. strs' \in [Names -> [data : Nat, size : Nat]]
    <2>1. strs[o] \in [data : Nat, size : Nat] /\ none \in [data : Nat, size : Nat]
      BY DEF StringsKept
    <2> HIDE DEF none
    <2> QED
      BY <1>2, <2>1 DEF StringsKept
  <1>5. /\ strs'[s] = strs[o] /\ strs'[o].data = 0 /\ strs'[o].size = 0
        /\ \A t \in Names \ {s, o} : strs'[t] = strs[t]
    BY <1>2 DEF StringsKept
  <1>6. /\ \A t \in Names : strs'[t].data # 0 => SegOf(t)' \in Segs(heap')
        /\ \A t \in Names : strs'[t].data = 0 => strs'[t].size = 0
    BY <1>3, <1>5 DEF StringsKept, SegOf
  <1>7. ASSUME ~reused'
        PROVE  Tiled(heap') /\ BlocksOwned'
    <2>0. Tiled(heap) /\ BlocksOwned /\ s \notin cleared
      BY <1>2, <1>7 DEF StringsKept, Calm
    <2>1. /\ ~Holds(o)' /\ (Holds(s)' <=> Holds(o)) /\ SegOf(s)' = SegOf(o)
          /\ strs'[s].size = strs[o].size
      BY <1>2, <1>5, <2>0 DEF Holds, SegOf
    <2>2. \A t \in Names \ {s, o} :
            /\ Holds(t)' <=> Holds(t)
            /\ SegOf(t)' = SegOf(t) /\ strs'[t].size = strs[t].size
      BY <1>2, <1>5 DEF Holds, SegOf
    <2>3. \A t \in Names \ {s} : Holds(t) => SegOf(t) \in heap.used \ OldBlock(s)
      BY <2>0 DEF BlocksOwned, OldBlock, Holds
    <2>4. \A x \in heap.used \ OldBlock(s) : \E t \in Names \ {s} : Holds(t) /\ x = SegOf(t)
      BY <2>0 DEF BlocksOwned, OldBlock, Holds
    <2>5. \A t \in Names : Holds(t)' =>
            SegOf(t)' \in heap'.used /\ heap'.size[SegOf(t)'] >= strs'[t].size
      <3> SUFFICES ASSUME NEW t \in Names, Holds(t)'
                   PROVE  /\ SegOf(t)' \in heap'.used
                          /\ heap'.size[SegOf(t)'] >= strs'[t].size
        OBVIOUS
      <3>1. PICK u \in Names \ {s} : /\ Holds(u) /\ SegOf(t)' = SegOf(u)
                                     /\ strs'[t].size = strs[u].size
        <4>1. CASE t = s
          BY <1>2, <2>1, <4>1
        <4>2. CASE t # s
          BY <2>1, <2>2, <4>2
        <4> QED
          BY <4>1, <4>2
      <3>2. SegOf(u) \in heap'.used
        BY <1>3, <2>3, <3>1
      <3>3. heap'.size[SegOf(u)] >= strs[u].size
        BY <1>3, <2>0, <3>1 DEF BlocksOwned
      <3> QED
        BY <3>1, <3>2, <3>3
    <2>6. \A t, u \in Names : Holds(t)' /\ Holds(u)' /\ SegOf(t)' = SegOf(u)' => t = u
      <3>1. \A t, u \in Names : Holds(t) /\ Holds(u) /\ SegOf(t) = SegOf(u) => t = u
        BY <2>0 DEF BlocksOwned
      <3> QED
        BY <1>2, <2>1, <2>2, <3>1
    <2>7. \A x \in heap'.used : \E t \in Names : Holds(t)' /\ x = SegOf(t)'
      <3>1. ASSUME NEW x \in heap'.used, NEW t \in Names \ {s}, Holds(t), x = SegOf(t)
            PROVE  \E u \in Names : Holds(u)' /\ x = SegOf(u)'
        <4>1. CASE t = o
          BY <2>1, <3>1, <4>1
        <4>2. CASE t # o
          BY <2>2, <3>1, <4>2
        <4> QED
          BY <4>1, <4>2
      <3> QED
        BY <1>3, <2>4, <3>1
    <2> QED
      BY <1>3, <2>0, <2>5, <2>6, <2>7 DEF BlocksOwned
  <1>8. cleared' \subseteq Names /\ overrun' \subseteq {"stre", "str_pushs"}
    BY <1>1, <1>2 DEF StringsKept
  <1> QED
    BY <1>3, <1>4, <1>6, <1>7, <1>8 DEF StringsKept

\* str() on a cleared string
LEMMA ResetKeeps ==
  ASSUME StringsKept, Calm, NEW s \in Names, Str!Reset(s)
  PROVE  StringsKept'
  <1> DEFINE none == [data |-> 0, size |-> 0]
  <1>1. /\ s \in cleared /\ strs' = [strs EXCEPT ![s] = none]
        /\ cleared' = cleared \ {s}
        /\ heap' = heap /\ reused' = reused /\ overrun' = overrun
    BY StringsUseHeap DEF Str!Reset, Str!Unset, Null
  <1>2. /\ strs'[s].data = 0 /\ strs'[s].size = 0
        /\ \A t \in Names \ {s} : strs'[t] = strs[t]
    BY <1>1 DEF StringsKept
  <1>3. strs' \in [Names -> [data : Nat, size : Nat]]
    <2>1. none \in [data : Nat, size : Nat]
      OBVIOUS
    <2> HIDE DEF none
    <2> QED
      BY <1>1, <2>1 DEF StringsKept
  <1>4. ~Holds(s) /\ ~Holds(s)'
    BY <1>1, <1>2 DEF Holds
  <1>5. \A t \in Names \ {s} :
          /\ Holds(t)' <=> Holds(t)
          /\ SegOf(t)' = SegOf(t) /\ strs'[t].size = strs[t].size
    BY <1>1, <1>2 DEF Holds, SegOf
  <1>6. Tiled(heap) /\ BlocksOwned => Tiled(heap') /\ BlocksOwned'
    BY <1>1, <1>4, <1>5 DEF BlocksOwned
  <1>7. /\ \A t \in Names : strs'[t].data # 0 => SegOf(t)' \in Segs(heap')
        /\ \A t \in Names : strs'[t].data = 0 => strs'[t].size = 0
    BY <1>1, <1>2 DEF StringsKept, SegOf
  <1> QED
    BY <1>1, <1>3, <1>6, <1>7 DEF StringsKept

\* str(), stre(), stres()
LEMMA StringConstructKeeps ==
  ASSUME StringsKept, Calm, NEW s \in Names, Str!Construct(s)
  PROVE  StringsKept'
  <1>1. strs[s].data = Str!Null /\ Str!Null = 0
    BY StringsUseHeap DEF Str!Construct, Null
  <1>2. ASSUME NEW n \in Lengths, NEW r \in Str!StrE(heap, n),
               Str!Becomes(s, r, "stre")
        PROVE  StringsKept'
    <2>1. Outcome(s, r)
      BY <1>1, <1>2, StrEOutcome, StringConstants
    <2> QED
      BY <1>2, <2>1, BecomesKeeps
  <1>3. ASSUME NEW n \in Lengths, NEW r \in Str!StrSet(heap, Str!Unset, n),
               Str!Becomes(s, r, "stres")
        PROVE  StringsKept'
    <2>1. n \in Nat /\ n <= n /\ Str!Unset.data = strs[s].data
      BY <1>1, StringConstants DEF Str!Unset
    <2>2. r \in Str!Replace(heap, Str!Unset, n, n)
      BY <1>3 DEF Str!StrSet
    <2>3. Outcome(s, r) /\ Within(r)
      BY <2>1, <2>2, ReplaceOutcome
    <2> QED
      BY <1>3, <2>3, BecomesKeeps
  <1> QED
    BY <1>2, <1>3 DEF Str!Construct

\* str_push(), str_pushc(), str_pushs()
LEMMA StringPushKeeps ==
  ASSUME StringsKept, Calm, NEW s \in Names, Str!Push(s)
  PROVE  StringsKept'
  <1>1. /\ Str!Null = 0 /\ strs[s].size \in Nat
        /\ strs[s].data = 0 => strs[s].size = 0
    BY StringsUseHeap, StringParts DEF Null, StringsKept
  <1>2. ASSUME NEW n \in Lengths, NEW r \in Str!StrPush(heap, strs[s], n),
               Str!Becomes(s, r, "str_push")
        PROVE  StringsKept'
    <2> DEFINE size == strs[s].size + n
    <2>1. n \in Nat /\ size \in Nat /\ size <= size /\ (strs[s].data = 0 => size <= n)
      BY <1>1, StringConstants
    <2>2. r \in Str!AppendBytes(heap, strs[s], n, size, size)
      BY <1>2 DEF Str!StrPush
    <2> HIDE DEF size
    <2>3. Outcome(s, r) /\ Within(r)
      BY <2>1, <2>2, AppendOutcome
    <2> QED
      BY <1>2, <2>3, BecomesKeeps
  <1>3. ASSUME NEW r \in Str!StrPushc(heap, strs[s]), Str!Becomes(s, r, "str_pushc")
        PROVE  StringsKept'
    <2> DEFINE size == strs[s].size + 1
    <2>1. 4 \in Nat /\ size \in Nat /\ size <= size /\ (strs[s].data = 0 => size <= 4)
      BY <1>1
    <2>2. r \in Str!AppendBytes(heap, strs[s], 4, size, size)
      BY <1>3 DEF Str!StrPushc
    <2> HIDE DEF size
    <2>3. Outcome(s, r) /\ Within(r)
      BY <2>1, <2>2, AppendOutcome
    <2> QED
      BY <1>3, <2>3, BecomesKeeps
  <1>4. ASSUME NEW o \in Names, NEW r \in Str!StrPushs(heap, strs[s], strs[o]),
               Str!Becomes(s, r, "str_pushs")
        PROVE  StringsKept'
    <2> DEFINE size == strs[s].size + strs[o].size
               to == IF strs[s].data = 0 THEN strs[o].size ELSE strs[s].size + size
    <2>1. strs[o].size \in Nat
      BY StringParts
    <2>2. size \in Nat /\ to \in Nat /\ size <= size
      BY <1>1, <2>1
    <2>3. r \in Str!AppendBytes(heap, strs[s], size, size, to)
      BY <1>1, <1>4 DEF Str!StrPushs
    <2> HIDE DEF size, to
    <2>4. Outcome(s, r)
      BY <2>2, <2>3, AppendOutcome
    <2> QED
      BY <1>4, <2>4, BecomesKeeps
  <1> QED
    BY <1>2, <1>3, <1>4 DEF Str!Push

\* str_set() and its variants, str_resize()
LEMMA StringSetKeeps ==
  ASSUME StringsKept, Calm, NEW s \in Names, Str!Set(s)
  PROVE  StringsKept'
  <1>1. PICK n \in Lengths \cup {strs[o].size : o \in Names} :
          \/ \E r \in Str!StrSet(heap, strs[s], n) : Str!Becomes(s, r, "str_set")
          \/ \E r \in Str!StrResize(heap, strs[s], n) : Str!Becomes(s, r, "str_resize")
    BY DEF Str!Set
  <1>2. n \in Nat /\ n <= n /\ 0 <= n /\ 0 \in Nat
    <2>1. n \in Nat
      BY StringConstants, StringParts
    <2> QED
      BY <2>1
  <1>3. ASSUME NEW r \in Str!StrSet(heap, strs[s], n), Str!Becomes(s, r, "str_set")
        PROVE  StringsKept'
    <2>1. r \in Str!Replace(heap, strs[s], n, n)
      BY <1>3 DEF Str!StrSet
    <2>2. Outcome(s, r) /\ Within(r)
      BY <1>2, <2>1, ReplaceOutcome
    <2> QED
      BY <1>3, <2>2, BecomesKeeps
  <1>4. ASSUME NEW r \in Str!StrResize(heap, strs[s], n),
               Str!Becomes(s, r, "str_resize")
        PROVE  StringsKept'
    <2>1. r \in Str!Replace(heap, strs[s], n, 0)
      BY <1>4 DEF Str!StrResize
    <2>2. Outcome(s, r) /\ Within(r)
      BY <1>2, <2>1, ReplaceOutcome
    <2> QED
      BY <1>4, <2>2, BecomesKeeps
  <1> QED
    BY <1>1, <1>3, <1>4

-----------------------------------------------------------------------------
(* The invariant of vectors and strings.                                    *)

\* The vector, or the strings, are in order; the other kind is not there.
ContainersInv ==
  /\ AllBuilt
  /\ kind # "string" => VectorKept
  /\ kind = "string" => StringsKept

\* At the start the heap has one free segment and nobody has a block.
LEMMA ContainersStart == Init => ContainersInv
  <1> SUFFICES ASSUME Init PROVE ContainersInv
    OBVIOUS
  <1>1. /\ heap = InitialHeap /\ vec = [data |-> 0, len |-> 0, capacity |-> 0]
        /\ elems = << >> /\ wild = FALSE /\ dropped = FALSE /\ skipped = FALSE
        /\ strs = [s \in Names |-> [data |-> 0, size |-> 0]]
        /\ cleared = {} /\ overrun = {}
    BY VectorsUseHeap, StringsUseHeap
       DEF Init, Vec!Init, Str!Init, Vec!Empty, Str!Unset, Null
  <1>2. HeapType(heap) /\ Tiled(heap) /\ heap.used = {}
    BY <1>1, InitialInOrder
  <1>3. Contents
    BY <1>1 DEF Contents
  <1>4. Housed /\ Roomy
    BY <1>1, <1>2 DEF Housed, Roomy
  <1>5. AllBuilt
    BY <1>1 DEF AllBuilt, NoneRaw
  <1>6. BlocksOwned
    BY <1>1, <1>2 DEF BlocksOwned, Holds
  <1>7. StringsKept
    BY <1>1, <1>2, <1>6 DEF StringsKept
  <1> QED
    BY <1>3, <1>4, <1>5, <1>7 DEF ContainersInv, VectorKept

\* Every function of the vectors keeps the vector in order.
LEMMA VectorSteps ==
  ASSUME VectorKept, AllBuilt, Vec!Next
  PROVE  VectorKept' /\ AllBuilt'
  <1>1. CASE ~Vec!Broken /\ Vec!Use
    <2>1. heap.misused = {}
      BY <1>1 DEF Vec!Broken
    <2>2. \A n \in 1 .. MaxLen : n \in Nat
      OBVIOUS
    <2>3. \A n \in 0 .. MaxLen : n \in Nat
      OBVIOUS
    <2>4. CASE Vec!Destruct
      BY <2>1, <2>4, DestructKeeps
    <2>5. ASSUME NEW n \in 1 .. MaxLen,
                 \/ Vec!Construct(n) \/ Vec!Fill(n) \/ Vec!Push(n)
                 \/ Vec!PushMulti(n) \/ Vec!PushFirst(n)
                 \/ Vec!Pop(n) \/ Vec!PopTypeCD(n)
          PROVE  VectorKept' /\ AllBuilt'
      BY <2>1, <2>2, <2>5, ConstructKeeps, FillKeeps, PushKeeps, PushMultiKeeps,
         PushFirstKeeps, PopKeeps, PopTypeCDKeeps
    <2>6. ASSUME NEW n \in 0 .. MaxLen,
                 Vec!ResizePlain(n) \/ Vec!ResizeCD(n) \/ Vec!Insert(n)
          PROVE  VectorKept' /\ AllBuilt'
      BY <2>1, <2>3, <2>6, ResizePlainKeeps, ResizeCDKeeps, InsertKeeps
    <2> QED
      BY <1>1, <2>4, <2>5, <2>6 DEF Vec!Use
  <1>2. CASE Vec!Stopped
    BY <1>2 DEF Vec!Stopped, Vec!vars, VectorKept, Housed, Roomy, Contents,
                AllBuilt, NoneRaw, Vec!Constructs
  <1> QED
    BY <1>1, <1>2 DEF Vec!Next

\* Every function of the strings keeps the strings in order.
LEMMA StringSteps ==
  ASSUME StringsKept, Str!Next
  PROVE  StringsKept'
  <1>1. CASE ~Str!Broken /\ \E s \in Names : Str!Use(s)
    <2>1. Calm
      BY <1>1 DEF Str!Broken, Calm
    <2>2. PICK s \in Names : Str!Use(s)
      BY <1>1
    <2>3. CASE \E o \in Names : Str!TakeOver(s, o)
      BY <2>1, <2>3, TakeOverKeeps
    <2> QED
      BY <2>1, <2>2, <2>3, StringConstructKeeps, ResetKeeps, StringPushKeeps,
         StringSetKeeps, StringPopKeeps, ClearKeeps DEF Str!Use
  <1>2. CASE Str!Stopped
    BY <1>2 DEF Str!Stopped, Str!vars, StringsKept, BlocksOwned, Holds, SegOf
  <1> QED
    BY <1>1, <1>2 DEF Str!Next

\* The inductive invariant holds in every reachable state.
LEMMA ContainersInvariant == Spec => []ContainersInv
  <1>1. ContainersInv /\ [Next]_vars => ContainersInv'
    <2> SUFFICES ASSUME ContainersInv, [Next]_vars PROVE ContainersInv'
      OBVIOUS
    <2>1. CASE UseVector
      <3>1. VectorKept' /\ AllBuilt'
        BY <2>1, VectorSteps DEF UseVector, ContainersInv
      <3>2. kind' = kind
        BY <2>1 DEF UseVector, Vec!Next, Vec!Use, Vec!Stopped, Vec!vars,
             Vec!Destruct, Vec!Construct, Vec!Fill, Vec!Push, Vec!PushMulti,
             Vec!PushFirst, Vec!Pop, Vec!PopTypeCD, Vec!ResizePlain,
             Vec!ResizeCD, Vec!Insert
      <3> QED
        BY <2>1, <3>1, <3>2 DEF UseVector, ContainersInv
    <2>2. CASE UseStrings
      <3>1. StringsKept' /\ kind' = kind /\ kind = "string"
        BY <2>2, StringSteps DEF UseStrings, ContainersInv
      <3> QED
        BY <3>1 DEF ContainersInv, AllBuilt, Vec!Constructs
    <2>3. CASE UNCHANGED vars
      BY <2>3 DEF vars, vectorVars, stringVars, ContainersInv, AllBuilt, NoneRaw, Vec!Constructs,
           VectorKept, Housed, Roomy, Contents, StringsKept, BlocksOwned, Holds,
           SegOf
    <2> QED
      BY <2>1, <2>2, <2>3 DEF Next
  <1> QED
    BY <1>1, ContainersStart, PTL DEF Spec

-----------------------------------------------------------------------------
(* What the vectors and the strings promise.                                *)

\* Whatever is pushed, popped, inserted and resized, in any order and number,
\* the vector's block is the only one the heap counts as used and has room for
\* length and capacity: the next push that fits the capacity stays inside.
THEOREM VectorsHold == Spec => []BlockHolds
  <1>1. ContainersInv => BlockHolds
    <2> SUFFICES ASSUME ContainersInv, kind # "string"
                 PROVE  Vec!VectorTypeOK /\ Vec!BlockHolds
      BY DEF BlockHolds
    <2>1. /\ Housed /\ (~resized => Roomy) /\ Contents
          /\ Vec!Null = 0 /\ Vec!Block = vec.data - HeaderSize
      BY VectorsUseHeap DEF ContainersInv, VectorKept, Null, Vec!Block
    <2>2. Vec!VectorTypeOK
      <3>1. /\ Vec!HeapType(heap)
            /\ vec.data # Vec!Null => Vec!Block \in Vec!Segs(heap)
        BY <2>1, VectorsUseHeap DEF Housed
      <3>2. \A i \in DOMAIN elems : elems[i] \in Marks \cup {"raw"}
        BY <2>1, ElementOfSeq, LenProperties DEF Contents
      <3> QED
        BY <2>1, <3>1, <3>2 DEF Vec!VectorTypeOK, Contents
    <2>3. Vec!BlockHolds
      <3>1. ~Vec!Broken => heap.misused = {}
        BY DEF Vec!Broken
      <3> QED
        BY <2>1, <3>1 DEF Vec!BlockHolds, Housed, Roomy
    <2> QED
      BY <2>2, <2>3
  <1> QED
    BY <1>1, ContainersInvariant, PTL

\* Of the three families that construct and destruct, as long as nobody resizes:
\* an element is raw, and a destructor run on raw memory, only after a push
\* within the capacity or the first of vector_instance_cd, and none of either
\* kind is the multipurpose vector's; an element is dropped without its
\* destructor by the pop() of vector_type_cd only.
THEOREM ElementsBuiltOnce == Spec => []EachBuiltOnce
  <1>1. ContainersInv => EachBuiltOnce
    <2> SUFFICES ASSUME ContainersInv, Vec!Constructs, ~resized
                 PROVE  /\ ~skipped => ~wild /\ \A i \in DOMAIN elems : elems[i] # "raw"
                        /\ kind = "multi_cd" => ~skipped
                        /\ kind # "type_cd" => ~dropped
      BY DEF EachBuiltOnce, Vec!EachBuiltOnce
    <2>1. AllBuilt /\ Contents
      BY DEF ContainersInv, VectorKept, Vec!Constructs
    <2>2. DOMAIN elems = 1 .. Len(elems)
      BY <2>1, LenProperties DEF Contents
    <2> QED
      BY <2>1, <2>2 DEF AllBuilt, NoneRaw
  <1> QED
    BY <1>1, ContainersInvariant, PTL

\* Whatever functions are called on however many strings, each string has a
\* block of its own, large enough, and the heap counts no other as used, until
\* a cleared string is used or a last segment is misused; and only stre() and
\* str_pushs() ever write past theirs.
THEOREM StringsApart == Spec => []OneBlockEach
  <1>1. ContainersInv => OneBlockEach
    <2> SUFFICES ASSUME ContainersInv, kind = "string"
                 PROVE  Str!StringsTypeOK /\ Str!OneBlockEach /\ Str!OnlyTwoOverrun
      BY DEF OneBlockEach
    <2>1. StringsKept /\ Str!Null = 0
      BY StringsUseHeap DEF ContainersInv, Null
    <2>2. \A s \in Names : Str!Block(strs[s].data) = SegOf(s)
      BY DEF Str!Block, SegOf
    <2>3. Str!StringsTypeOK
      BY <2>1, <2>2, StringsUseHeap DEF StringsKept, Str!StringsTypeOK
    <2>4. \A s \in Names : s \in Str!Holding <=> Holds(s)
      BY <2>1 DEF Str!Holding, Holds
    <2>5. Str!Holding \subseteq Names
      BY DEF Str!Holding
    <2>6. Str!OneBlockEach
      <3> SUFFICES ASSUME heap.misused = {}, ~reused
                   PROVE  /\ \A s \in Str!Holding :
                               strs[s].size <= heap.size[Str!Block(strs[s].data)]
                          /\ \A s, o \in Str!Holding :
                               strs[s].data = strs[o].data => s = o
                          /\ heap.used = {Str!Block(strs[s].data) : s \in Str!Holding}
        BY DEF Str!OneBlockEach
      <3>1. BlocksOwned
        BY <2>1 DEF StringsKept
      <3>2. \A s \in Str!Holding : strs[s].size <= heap.size[Str!Block(strs[s].data)]
        BY <2>2, <2>4, <2>5, <3>1 DEF BlocksOwned
      <3>3. \A s, o \in Str!Holding : strs[s].data = strs[o].data => s = o
        BY <2>4, <2>5, <3>1 DEF BlocksOwned, SegOf
      <3>4. heap.used = {SegOf(s) : s \in Str!Holding}
        BY <2>4, <2>5, <3>1 DEF BlocksOwned
      <3>5. {SegOf(s) : s \in Str!Holding} = {Str!Block(strs[s].data) : s \in Str!Holding}
        BY <2>2, <2>5
      <3> QED
        BY <3>2, <3>3, <3>4, <3>5
    <2>7. Str!OnlyTwoOverrun
      BY <2>1 DEF StringsKept, Str!OnlyTwoOverrun
    <2> QED
      BY <2>3, <2>6, <2>7
  <1> QED
    BY <1>1, ContainersInvariant, PTL
=============================================================================
