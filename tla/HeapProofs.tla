----------------------------- MODULE HeapProofs -----------------------------
(***************************************************************************)
(* Proofs about Heap and AlignedHeap, for all values of their constants.   *)
(***************************************************************************)
EXTENDS AlignedHeap, HeapOpsProofs

-----------------------------------------------------------------------------
(* The types.                                                               *)

\* Whatever the calls and their order, every pointer the heap or a client
\* keeps names a header that exists.
THEOREM TypeCorrect == Spec => []TypeOK
  <1>1. Init => TypeOK
    <2> SUFFICES ASSUME Init PROVE TypeOK
      OBVIOUS
    <2>1. /\ heap.next = [s \in {HeapStart} |-> Null]
          /\ heap.size = [s \in {HeapStart} |-> InitialBlock]
          /\ heap.used = {} /\ heap.end = HeapStart
          /\ heap.usedUntil = HeapStart /\ heap.misused = {}
          /\ heap = [next |-> heap.next, size |-> heap.size,
                     used |-> heap.used, end |-> heap.end,
                     usedUntil |-> heap.usedUntil, misused |-> heap.misused]
      BY DEF Init, InitialHeap
    <2>2. Segs(heap) = {HeapStart}
      BY <2>1 DEF Segs
    <2>3. HeapType(heap)
      BY <2>1, <2>2, HeapAssumption, HeapOpsAssumption DEF HeapType, Null
    <2>4. /\ ptr \in [Clients -> Nat] /\ want \in [Clients -> Nat]
          /\ Live = {}
      BY DEF Init, Live, Null
    <2> QED
      BY <2>3, <2>4 DEF TypeOK
  <1>2. TypeOK /\ [Next]_vars => TypeOK'
    <2> SUFFICES ASSUME TypeOK, [Next]_vars PROVE TypeOK'
      OBVIOUS
    <2>1. ASSUME NEW c \in Clients, NEW bytes \in Sizes, NEW r,
                 HeapType(r.heap), Segs(heap) \subseteq Segs(r.heap),
                 r.seg \in Segs(r.heap), Receive(c, r, bytes)
          PROVE  TypeOK'
      <3>1. HeapType(heap') /\ Segs(heap) \subseteq Segs(heap')
        BY <2>1 DEF Receive
      <3>2. ptr' \in [Clients -> Nat] /\ want' \in [Clients -> Nat]
        <4>1. r.seg + HeaderSize \in Nat /\ bytes \in Nat
          BY <2>1, HeapElim, HeapAssumption, HeapOpsAssumption
        <4> QED
          BY <2>1, <4>1 DEF Receive, TypeOK
      <3>3. ASSUME NEW d \in Clients, ptr'[d] # Null
            PROVE  ptr'[d] - HeaderSize \in Segs(heap')
        <4>1. CASE d = c
          <5>1. ptr'[d] = r.seg + HeaderSize /\ heap' = r.heap
            BY <2>1, <4>1 DEF Receive, TypeOK
          <5>2. r.seg \in Nat
            BY <2>1, HeapElim
          <5>3. ptr'[d] - HeaderSize = r.seg
            BY <5>1, <5>2, HeapAssumption, HeapOpsAssumption
          <5> QED
            BY <2>1, <5>1, <5>3
        <4>2. CASE d # c
          <5>1. ptr'[d] = ptr[d]
            BY <2>1, <4>2 DEF Receive, TypeOK
          <5> QED
            BY <3>1, <3>3, <5>1 DEF TypeOK, Live, Seg
        <4> QED
          BY <4>1, <4>2
      <3> QED
        BY <3>1, <3>2, <3>3 DEF TypeOK, Live, Seg
    <2>2. ASSUME NEW c \in Clients, AllocBy(c)
          PROVE  TypeOK'
      <3>0. PICK bytes \in Sizes :
              \E r \in Alloc(heap, bytes) : Receive(c, r, bytes)
        BY <2>2 DEF AllocBy
      <3>1. PICK r \in Alloc(heap, bytes) : Receive(c, r, bytes)
        BY <3>0
      <3>2. bytes \in Nat /\ HeapType(heap)
        BY HeapAssumption, HeapOpsAssumption DEF TypeOK
      <3> QED
        BY <2>1, <3>1, <3>2, AllocType
    <2>3. ASSUME NEW c \in Clients, ReallocBy(c)
          PROVE  TypeOK'
      <3>0. PICK bytes \in Sizes :
              \E r \in Realloc(heap, Seg(c), bytes) : Receive(c, r, bytes)
        BY <2>3 DEF ReallocBy
      <3>1. PICK r \in Realloc(heap, Seg(c), bytes) : Receive(c, r, bytes)
        BY <3>0
      <3>2. bytes \in Nat /\ HeapType(heap) /\ Seg(c) \in Segs(heap)
        BY <2>3, HeapAssumption, HeapOpsAssumption DEF TypeOK, ReallocBy, Live
      <3> QED
        BY <2>1, <3>1, <3>2, ReallocType
    <2>4. ASSUME NEW c \in Clients, ReallocaBy(c)
          PROVE  TypeOK'
      <3>0. PICK bytes \in Sizes, add \in Adds :
              \E r \in Realloca(heap, Seg(c), bytes, add) : Receive(c, r, bytes)
        BY <2>4 DEF ReallocaBy
      <3>1. PICK r \in Realloca(heap, Seg(c), bytes, add) : Receive(c, r, bytes)
        BY <3>0
      <3>2. /\ bytes \in Nat /\ add \in Nat /\ HeapType(heap)
            /\ Seg(c) \in Segs(heap)
        BY <2>4, HeapAssumption, HeapOpsAssumption DEF TypeOK, ReallocaBy, Live
      <3> QED
        BY <2>1, <3>1, <3>2, ReallocaType
    <2>5. ASSUME NEW c \in Clients, FreeBy(c)
          PROVE  TypeOK'
      <3>1. HeapType(heap) /\ Seg(c) \in Segs(heap)
        BY <2>5 DEF TypeOK, FreeBy, Live
      <3>2. HeapType(heap') /\ Segs(heap') = Segs(heap)
        BY <2>5, <3>1, FreeFields DEF FreeBy
      <3>3. ptr' \in [Clients -> Nat] /\ want' \in [Clients -> Nat]
        BY <2>5 DEF FreeBy, TypeOK, Null
      <3>4. ASSUME NEW d \in Clients, ptr'[d] # Null
            PROVE  ptr'[d] = ptr[d] /\ ptr[d] - HeaderSize \in Segs(heap)
        BY <2>5, <3>4 DEF FreeBy, TypeOK, Live, Seg
      <3> QED
        BY <3>2, <3>3, <3>4 DEF TypeOK, Live, Seg
    <2>6. CASE UNCHANGED vars
      BY <2>6 DEF vars, TypeOK, Live, Seg, Segs, HeapType
    <2> QED
      BY <2>2, <2>3, <2>4, <2>5, <2>6 DEF Next, Call, Stopped
  <1> QED
    BY <1>1, <1>2, PTL DEF Spec

-----------------------------------------------------------------------------
(* The invariant of the system.                                             *)

\* A caller that was served owns its segment, and nobody else lost anything.
LEMMA ReceiveOwned ==
  ASSUME TypeOK, Owned, NEW c \in Clients, NEW bytes \in Nat, NEW r, NEW old,
         old = IF ptr[c] = Null THEN {} ELSE {Seg(c)},
         Served(heap, old, r, bytes), Receive(c, r, bytes)
  PROVE  Owned'
  <1>1. /\ ptr \in [Clients -> Nat] /\ want \in [Clients -> Nat]
        /\ HeapType(heap) /\ HeapType(r.heap)
    BY DEF TypeOK, Served
  <1>2. /\ heap' = r.heap
        /\ ptr'[c] = r.seg + HeaderSize /\ want'[c] = bytes
        /\ \A d \in Clients \ {c} : ptr'[d] = ptr[d] /\ want'[d] = want[d]
    BY <1>1 DEF Receive
  <1>3. /\ r.seg \in Nat \ {0} /\ r.heap.size \in [Segs(r.heap) -> Nat]
        /\ heap.used \subseteq Segs(heap)
        /\ Segs(heap) \subseteq Nat \ {0}
    BY <1>1, HeapElim DEF Served
  <1>4. ptr'[c] # Null /\ ptr'[c] - HeaderSize = r.seg
    BY <1>2, <1>3, HeapAssumption, HeapOpsAssumption DEF Null
  <1>5. ASSUME NEW d \in Clients \ {c}, ptr[d] # Null
        PROVE  /\ ptr[d] - HeaderSize \in heap.used \ old
               /\ want[d] <= heap.size[ptr[d] - HeaderSize]
    <2>1. Seg(d) \in heap.used /\ want[d] <= heap.size[Seg(d)]
      BY <1>5 DEF Owned, Live
    <2>2. ptr[c] # Null => Seg(d) # Seg(c)
      <3>1. ptr[c] # Null => ptr[c] # ptr[d]
        BY <1>5 DEF Owned, Live
      <3> QED
        BY <1>1, <3>1, HeapAssumption, HeapOpsAssumption DEF Seg
    <2> QED
      BY <2>1, <2>2 DEF Seg
  <1>6. ASSUME NEW d \in Clients, ptr'[d] # Null
        PROVE  /\ ptr'[d] - HeaderSize \in heap'.used
               /\ want'[d] <= heap'.size[ptr'[d] - HeaderSize]
    <2>1. CASE d = c
      <3>1. r.seg \in r.heap.used /\ r.heap.size[r.seg] >= bytes
        BY DEF Served
      <3>2. r.heap.size[r.seg] \in Nat
        BY <1>3 DEF Served
      <3> QED
        BY <1>2, <1>4, <2>1, <3>1, <3>2
    <2>2. CASE d # c
      <3>1. /\ ptr[d] - HeaderSize \in heap.used \ old
            /\ want[d] <= heap.size[ptr[d] - HeaderSize]
            /\ ptr'[d] = ptr[d] /\ want'[d] = want[d]
        BY <1>2, <1>5, <1>6, <2>2
      <3> QED
        BY <1>2, <3>1 DEF Served
    <2> QED
      BY <2>1, <2>2
  <1>7. ASSUME NEW d \in Clients \ {c}, ptr'[d] # Null
        PROVE  ptr'[d] # ptr'[c]
    <2>1. ptr'[d] = ptr[d] /\ ptr[d] - HeaderSize \in heap.used \ old
      BY <1>2, <1>5, <1>7
    <2>2. r.seg \notin heap.used \ old
      BY DEF Served
    <2> QED
      BY <1>4, <2>1, <2>2
  <1>8. ASSUME NEW d \in Clients, NEW e \in Clients, ptr'[d] # Null,
               ptr'[e] # Null, ptr'[d] = ptr'[e]
        PROVE  d = e
    <2>1. CASE d = c \/ e = c
      BY <1>7, <1>8, <2>1
    <2>2. CASE d # c /\ e # c
      BY <1>2, <1>8, <2>2 DEF Owned, Live
    <2> QED
      BY <2>1, <2>2
  <1>9. ASSUME NEW s \in heap'.used
        PROVE  \E d \in Clients : ptr'[d] # Null /\ ptr'[d] - HeaderSize = s
    <2>1. CASE s = r.seg
      BY <1>4, <2>1
    <2>2. CASE s # r.seg
      <3>1. s \in heap.used \ old
        BY <1>2, <1>9, <2>2 DEF Served
      <3>2. PICK d \in Clients : ptr[d] # Null /\ Seg(d) = s
        BY <3>1 DEF Owned, Live
      <3>3. d # c
        BY <3>1, <3>2
      <3> QED
        BY <1>2, <3>2, <3>3 DEF Seg
    <2> QED
      BY <2>1, <2>2
  <1> QED
    BY <1>6, <1>8, <1>9 DEF Owned, Live, Seg

\* free() takes the segment of its caller and nothing else.
LEMMA FreeOwned ==
  ASSUME TypeOK, Owned, NEW c \in Clients, FreeBy(c)
  PROVE  Owned'
  <1>1. /\ ptr \in [Clients -> Nat] /\ want \in [Clients -> Nat]
        /\ HeapType(heap) /\ Seg(c) \in Segs(heap) /\ ptr[c] # Null
    BY DEF TypeOK, FreeBy, Live
  <1>2. /\ ptr'[c] = Null
        /\ \A d \in Clients \ {c} : ptr'[d] = ptr[d] /\ want'[d] = want[d]
    BY <1>1 DEF FreeBy
  <1>3. heap' = Free(heap, Seg(c))
    BY DEF FreeBy
  <1>4. heap'.used = heap.used \ {Seg(c)} /\ heap'.size = heap.size
    BY <1>1, <1>3, FreeFields
  <1>5. ASSUME NEW d \in Clients, ptr'[d] # Null
        PROVE  /\ ptr'[d] - HeaderSize \in heap'.used
               /\ want'[d] <= heap'.size[ptr'[d] - HeaderSize]
    <2>1. d # c /\ ptr'[d] = ptr[d] /\ want'[d] = want[d]
      BY <1>2, <1>5
    <2>2. Seg(d) \in heap.used /\ want[d] <= heap.size[Seg(d)]
      BY <1>5, <2>1 DEF Owned, Live
    <2>3. ptr[c] # ptr[d]
      BY <1>1, <1>5, <2>1 DEF Owned, Live
    <2>4. Seg(d) # Seg(c)
      BY <1>1, <2>3, HeapAssumption, HeapOpsAssumption DEF Seg
    <2> QED
      BY <1>4, <2>1, <2>2, <2>4 DEF Seg
  <1>6. ASSUME NEW d \in Clients, NEW e \in Clients, ptr'[d] # Null,
               ptr'[e] # Null, ptr'[d] = ptr'[e]
        PROVE  d = e
    BY <1>2, <1>6 DEF Owned, Live
  <1>7. ASSUME NEW s \in heap'.used
        PROVE  \E d \in Clients : ptr'[d] # Null /\ ptr'[d] - HeaderSize = s
    <2>1. s \in heap.used /\ s # Seg(c)
      BY <1>4, <1>7
    <2>2. PICK d \in Clients : ptr[d] # Null /\ Seg(d) = s
      BY <2>1 DEF Owned, Live
    <2> QED
      BY <1>2, <2>1, <2>2 DEF Seg
  <1> QED
    BY <1>5, <1>6, <1>7 DEF Owned, Live, Seg

\* A step that does not misuse heap.end starts where none was misused.
LEMMA MisuseGrows ==
  ASSUME TypeOK, [Next]_vars, heap'.misused = {}
  PROVE  heap.misused = {}
  <1>1. ASSUME NEW c \in Clients, AllocBy(c)
        PROVE  heap.misused = {}
    <2>1. PICK bytes \in Sizes : \E r \in Alloc(heap, bytes) : Receive(c, r, bytes)
      BY <1>1 DEF AllocBy
    <2>2. PICK r \in Alloc(heap, bytes) : Receive(c, r, bytes)
      BY <2>1
    <2>3. heap.misused \subseteq r.heap.misused
      BY AllocType, HeapAssumption, HeapOpsAssumption DEF TypeOK
    <2> QED
      BY <2>2, <2>3 DEF Receive
  <1>2. ASSUME NEW c \in Clients, ReallocBy(c)
        PROVE  heap.misused = {}
    <2>1. PICK bytes \in Sizes :
            \E r \in Realloc(heap, Seg(c), bytes) : Receive(c, r, bytes)
      BY <1>2 DEF ReallocBy
    <2>2. PICK r \in Realloc(heap, Seg(c), bytes) : Receive(c, r, bytes)
      BY <2>1
    <2>3. Seg(c) \in Segs(heap) /\ bytes \in Nat
      BY <1>2, HeapAssumption, HeapOpsAssumption DEF TypeOK, ReallocBy, Live
    <2>4. heap.misused \subseteq r.heap.misused
      BY <2>3, ReallocType DEF TypeOK
    <2> QED
      BY <2>2, <2>4 DEF Receive
  <1>3. ASSUME NEW c \in Clients, ReallocaBy(c)
        PROVE  heap.misused = {}
    <2>1. PICK bytes \in Sizes, add \in Adds :
            \E r \in Realloca(heap, Seg(c), bytes, add) : Receive(c, r, bytes)
      BY <1>3 DEF ReallocaBy
    <2>2. PICK r \in Realloca(heap, Seg(c), bytes, add) : Receive(c, r, bytes)
      BY <2>1
    <2>3. Seg(c) \in Segs(heap) /\ bytes \in Nat /\ add \in Nat
      BY <1>3, HeapAssumption, HeapOpsAssumption DEF TypeOK, ReallocaBy, Live
    <2>4. heap.misused \subseteq r.heap.misused
      BY <2>3, ReallocaType DEF TypeOK
    <2> QED
      BY <2>2, <2>4 DEF Receive
  <1>4. ASSUME NEW c \in Clients, FreeBy(c)
        PROVE  heap.misused = {}
    <2>1. heap'.misused = heap.misused
      BY <1>4, FreeFields DEF FreeBy, TypeOK, Live
    <2> QED
      BY <2>1
  <1>5. CASE UNCHANGED vars
    BY <1>5 DEF vars
  <1> QED
    BY <1>1, <1>2, <1>3, <1>4, <1>5 DEF Next, Call, Stopped

\* alloc(), realloc() and realloca() serve their caller unless they misuse
\* heap.end.
LEMMA CallServed ==
  ASSUME TypeOK, Intact, heap.misused = {}, heap'.misused = {},
         NEW c \in Clients, AllocBy(c) \/ ReallocBy(c) \/ ReallocaBy(c),
         NEW old, old = IF ptr[c] = Null THEN {} ELSE {Seg(c)}
  PROVE  \E bytes \in Sizes : \E r :
           Served(heap, old, r, bytes) /\ Receive(c, r, bytes)
  <1>1. HeapType(heap) /\ Tiled(heap) /\ Owned /\ Sizes \subseteq Nat
    BY HeapAssumption, HeapOpsAssumption DEF TypeOK, Intact
  <1>2. CASE AllocBy(c)
    <2>1. old = {}
      BY <1>2 DEF AllocBy
    <2>2. PICK bytes \in Sizes : \E r \in Alloc(heap, bytes) : Receive(c, r, bytes)
      BY <1>2 DEF AllocBy
    <2>3. PICK r \in Alloc(heap, bytes) : Receive(c, r, bytes)
      BY <2>2
    <2>4. r.heap.misused = {} /\ bytes \in Nat
      BY <1>1, <2>3 DEF Receive
    <2>5. Served(heap, {}, r, bytes)
      BY <1>1, <2>4, AllocServed
    <2> QED
      BY <2>1, <2>3, <2>5
  <1>3. CASE ReallocBy(c)
    <2>1. old = {Seg(c)} /\ Seg(c) \in heap.used
      BY <1>1, <1>3 DEF ReallocBy, Owned, Live
    <2>2. PICK bytes \in Sizes :
            \E r \in Realloc(heap, Seg(c), bytes) : Receive(c, r, bytes)
      BY <1>3 DEF ReallocBy
    <2>3. PICK r \in Realloc(heap, Seg(c), bytes) : Receive(c, r, bytes)
      BY <2>2
    <2>4. r.heap.misused = {} /\ bytes \in Nat
      BY <1>1, <2>3 DEF Receive
    <2>5. Served(heap, {Seg(c)}, r, bytes)
      BY <1>1, <2>1, <2>4, ReallocServed
    <2> QED
      BY <2>1, <2>3, <2>5
  <1>4. CASE ReallocaBy(c)
    <2>1. old = {Seg(c)} /\ Seg(c) \in heap.used
      BY <1>1, <1>4 DEF ReallocaBy, Owned, Live
    <2>2. PICK bytes \in Sizes, add \in Adds :
            \E r \in Realloca(heap, Seg(c), bytes, add) : Receive(c, r, bytes)
      BY <1>4 DEF ReallocaBy
    <2>3. PICK r \in Realloca(heap, Seg(c), bytes, add) : Receive(c, r, bytes)
      BY <2>2
    <2>4. r.heap.misused = {} /\ bytes \in Nat /\ add \in Nat
      BY <1>1, <2>3, HeapAssumption, HeapOpsAssumption DEF Receive
    <2>5. Served(heap, {Seg(c)}, r, bytes)
      BY <1>1, <2>1, <2>4, ReallocaServed
    <2> QED
      BY <2>1, <2>3, <2>5
  <1> QED
    BY <1>2, <1>3, <1>4

\* The list stays a tiling and its blocks keep their owners for as long as no
\* call takes heap.end for the last segment when it is not: heap.end is the
\* only thing in heap.c that can break the heap.
THEOREM HeapIntact == Spec => []Intact
  <1>1. Init => Intact
    <2> SUFFICES ASSUME Init PROVE Intact
      OBVIOUS
    <2>1. /\ heap.next = [s \in {HeapStart} |-> Null] /\ heap.used = {}
          /\ Live = {}
      BY DEF Init, InitialHeap, Live
    <2>2. Segs(heap) = {HeapStart} /\ heap.next[HeapStart] = Null
      BY <2>1 DEF Segs
    <2>3. Tiled(heap)
      BY <2>2, HeapAssumption, HeapOpsAssumption DEF Tiled
    <2>4. Owned
      <3>1. \A c \in Clients : ptr[c] = Null
        BY DEF Init
      <3> QED
        BY <2>1, <3>1 DEF Owned, Live
    <2> QED
      BY <2>3, <2>4 DEF Intact
  <1>2. TypeOK /\ Intact /\ [Next]_vars => Intact'
    <2> SUFFICES ASSUME TypeOK, Intact, [Next]_vars, heap'.misused = {}
                 PROVE  Tiled(heap') /\ Owned'
      BY DEF Intact
    <2>1. heap.misused = {} /\ Tiled(heap) /\ Owned
      BY MisuseGrows DEF Intact
    <2>2. ASSUME NEW c \in Clients,
                 AllocBy(c) \/ ReallocBy(c) \/ ReallocaBy(c)
          PROVE  Tiled(heap') /\ Owned'
      <3> DEFINE old == IF ptr[c] = Null THEN {} ELSE {Seg(c)}
      <3>1. PICK bytes \in Sizes : \E r :
              Served(heap, old, r, bytes) /\ Receive(c, r, bytes)
        BY <2>1, <2>2, CallServed
      <3>2. PICK r : Served(heap, old, r, bytes) /\ Receive(c, r, bytes)
        BY <3>1
      <3>3. bytes \in Nat
        BY HeapAssumption, HeapOpsAssumption
      <3>4. Owned'
        BY <2>1, <3>2, <3>3, ReceiveOwned
      <3>5. Tiled(heap')
        BY <3>2 DEF Served, Receive
      <3> QED
        BY <3>4, <3>5
    <2>3. ASSUME NEW c \in Clients, FreeBy(c)
          PROVE  Tiled(heap') /\ Owned'
      <3>1. HeapType(heap) /\ Seg(c) \in Segs(heap)
        BY <2>3 DEF TypeOK, FreeBy, Live
      <3>2. /\ Segs(heap') = Segs(heap) /\ heap'.next = heap.next
            /\ heap'.size = heap.size
        BY <2>3, <3>1, FreeFields DEF FreeBy
      <3>3. Tiled(heap')
        BY <2>1, <3>2 DEF Tiled, SegEnd
      <3>4. Owned'
        BY <2>1, <2>3, FreeOwned
      <3> QED
        BY <3>3, <3>4
    <2>4. CASE UNCHANGED vars
      BY <2>1, <2>4 DEF vars, Owned, Live, Seg
    <2> QED
      BY <2>2, <2>3, <2>4 DEF Next, Call, Stopped
  <1> QED
    BY <1>1, <1>2, TypeCorrect, PTL DEF Spec

-----------------------------------------------------------------------------
(* What the invariant gives the clients.                                    *)

\* In an intact heap the blocks of two clients are apart.
LEMMA OwnersApart ==
  TypeOK /\ Intact /\ heap.misused = {} =>
    \A c, d \in Clients : c # d => Promise!Apart(c, d)
  <1> SUFFICES ASSUME TypeOK, Intact, heap.misused = {},
                      NEW c \in Clients, NEW d \in Clients, c # d,
                      ptr[c] # Null, ptr[d] # Null
               PROVE  \/ ptr[c] + want[c] <= ptr[d]
                      \/ ptr[d] + want[d] <= ptr[c]
    BY DEF Promise!Apart, Promise!NoBlock, Null
  <1>1. /\ ptr[c] \in Nat /\ ptr[d] \in Nat
        /\ want[c] \in Nat /\ want[d] \in Nat
        /\ Seg(c) \in Segs(heap) /\ Seg(d) \in Segs(heap)
    BY DEF TypeOK, Live
  <1>2. /\ want[c] <= heap.size[Seg(c)] /\ want[d] <= heap.size[Seg(d)]
        /\ ptr[c] # ptr[d]
    BY DEF Intact, Owned, Live
  <1>3. /\ heap.size[Seg(c)] \in Nat /\ heap.size[Seg(d)] \in Nat
        /\ Segs(heap) \subseteq Nat
    BY <1>1, HeapElim DEF TypeOK
  <1>4. Seg(c) < Seg(d) \/ Seg(d) < Seg(c)
    BY <1>1, <1>2, HeapAssumption, HeapOpsAssumption DEF Seg
  <1>5. \/ Seg(c) + HeaderSize + heap.size[Seg(c)] <= Seg(d)
        \/ Seg(d) + HeaderSize + heap.size[Seg(d)] <= Seg(c)
    BY <1>1, <1>4 DEF Intact, Tiled, SegEnd
  <1> DEFINE x == heap.size[Seg(c)]
             y == heap.size[Seg(d)]
  <1>6. /\ x \in Nat /\ y \in Nat /\ want[c] <= x /\ want[d] <= y
        /\ \/ Seg(c) + HeaderSize + x <= Seg(d)
           \/ Seg(d) + HeaderSize + y <= Seg(c)
    BY <1>2, <1>3, <1>5
  <1> HIDE DEF x, y
  <1> QED
    BY <1>1, <1>6, HeapAssumption, HeapOpsAssumption DEF Seg

\* In an intact heap no client writes into a header or another one's block.
LEMMA NothingClobbered ==
  ASSUME TypeOK, Intact, heap.misused = {}
  PROVE  ~Clobbered
  <1>1. Tiled(heap) /\ Owned
    BY DEF Intact
  <1>2. /\ Segs(heap) \subseteq Nat \ {0} /\ heap.size \in [Segs(heap) -> Nat]
        /\ heap.end \in Segs(heap)
        /\ \A c \in Live : Seg(c) \in Segs(heap)
    BY HeapElim DEF TypeOK
  <1>3. Pinned \subseteq Segs(heap)
    BY <1>2 DEF Pinned, Walk
  <1>4. \A s, t \in Segs(heap) : s < t => s + HeaderSize + heap.size[s] <= t
    BY <1>1 DEF Tiled, SegEnd
  <1>5. ASSUME NEW s \in Pinned, NEW t \in Pinned, s # t
        PROVE  s + HeaderSize <= t \/ t + HeaderSize <= s
    <2>1. /\ s \in Nat /\ t \in Nat /\ s \in Segs(heap) /\ t \in Segs(heap)
          /\ heap.size[s] \in Nat /\ heap.size[t] \in Nat
      BY <1>2, <1>3
    <2>2. \/ s + HeaderSize + heap.size[s] <= t
          \/ t + HeaderSize + heap.size[t] <= s
      BY <1>4, <1>5, <2>1
    <2> QED
      BY <2>1, <2>2, HeapAssumption, HeapOpsAssumption
  <1>6. ASSUME NEW s \in Pinned, NEW c \in Live
        PROVE  s + HeaderSize <= ptr[c] \/ ptr[c] + want[c] <= s
    <2>1. /\ s \in Segs(heap) /\ Seg(c) \in Segs(heap)
          /\ s \in Nat /\ ptr[c] \in Nat /\ want[c] \in Nat
          /\ heap.size[s] \in Nat /\ heap.size[Seg(c)] \in Nat
          /\ want[c] <= heap.size[Seg(c)]
      BY <1>1, <1>2, <1>3 DEF TypeOK, Owned, Live
    <2>2. \/ s = Seg(c)
          \/ s + HeaderSize + heap.size[s] <= Seg(c)
          \/ Seg(c) + HeaderSize + heap.size[Seg(c)] <= s
      <3>1. s = Seg(c) \/ s < Seg(c) \/ Seg(c) < s
        BY <2>1, HeapAssumption, HeapOpsAssumption DEF Seg
      <3> QED
        BY <1>4, <2>1, <3>1
    <2> DEFINE x == heap.size[Seg(c)]
               y == heap.size[s]
    <2>3. /\ x \in Nat /\ y \in Nat /\ want[c] <= x
          /\ \/ s = Seg(c)
             \/ s + HeaderSize + y <= Seg(c)
             \/ Seg(c) + HeaderSize + x <= s
      BY <2>1, <2>2
    <2> HIDE DEF x, y
    <2> QED
      BY <2>1, <2>3, HeapAssumption, HeapOpsAssumption DEF Seg
  <1>7. ASSUME NEW c \in Live, NEW d \in Live, c # d
        PROVE  /\ ptr[c] + want[c] <= ptr[d] \/ ptr[d] + want[d] <= ptr[c]
               /\ ptr[c] # ptr[d]
    <2>1. Promise!Apart(c, d) /\ c \in Clients /\ d \in Clients
      BY <1>7, OwnersApart DEF Live
    <2> QED
      BY <1>1, <1>7, <2>1 DEF Promise!Apart, Promise!NoBlock, Owned, Live, Null
  <1>8. ASSUME NEW r \in Regions, NEW q \in Regions, r # q
        PROVE  ~(r[1] < q[2] /\ q[1] < r[2])
    <2>1. /\ \A s \in Pinned : s \in Nat
          /\ \A c \in Live : ptr[c] \in Nat /\ want[c] \in Nat
      BY <1>2, <1>3 DEF TypeOK, Live
    <2>2. CASE \E s, t \in Pinned : r = <<s, s + HeaderSize>>
                                  /\ q = <<t, t + HeaderSize>>
      BY <1>5, <1>8, <2>1, <2>2, HeapAssumption, HeapOpsAssumption
    <2>3. CASE \E s \in Pinned, c \in Live : r = <<s, s + HeaderSize>>
                                         /\ q = <<ptr[c], ptr[c] + want[c]>>
      BY <1>6, <2>1, <2>3, HeapAssumption, HeapOpsAssumption
    <2>4. CASE \E s \in Pinned, c \in Live : q = <<s, s + HeaderSize>>
                                         /\ r = <<ptr[c], ptr[c] + want[c]>>
      BY <1>6, <2>1, <2>4, HeapAssumption, HeapOpsAssumption
    <2>5. CASE \E c, d \in Live : r = <<ptr[c], ptr[c] + want[c]>>
                               /\ q = <<ptr[d], ptr[d] + want[d]>>
      BY <1>7, <1>8, <2>1, <2>5
    <2> QED
      BY <2>2, <2>3, <2>4, <2>5 DEF Regions
  <1> QED
    BY <1>7, <1>8 DEF Clobbered

\* No client's bytes are written by anybody else, and no header by a client,
\* before heap.end is misused.
THEOREM NobodyHarmed == Spec => []Unharmed
  <1>1. TypeOK /\ Intact => Unharmed
    BY NothingClobbered DEF Unharmed
  <1> QED
    BY <1>1, TypeCorrect, HeapIntact, PTL

\* The heap implements the allocator: every call is an acquisition, a resizing
\* or a release of the caller's block only, apart from all other blocks, or
\* the misuse of heap.end that breaks the promise.
THEOREM HeapKeepsPromise == Spec => KeepsPromise
  <1>1. Init => Promise!AllocatorInit
    BY DEF Init, InitialHeap, Promise!AllocatorInit, Promise!NoBlock, Null
  <1>2. (TypeOK /\ Intact /\ heap.misused = {} =>
           \A c, d \in Clients : c # d => Promise!Apart(c, d))'
    BY OwnersApart, PTL
  <1>3. TypeOK /\ TypeOK' /\ Intact /\ Intact' /\ [Next]_vars =>
          [Promise!AllocatorNext]_(Promise!avars)
    <2> SUFFICES ASSUME TypeOK, TypeOK', Intact, Intact', [Next]_vars
                 PROVE  [Promise!AllocatorNext]_(Promise!avars)
      OBVIOUS
    <2>1. CASE heap'.misused # {}
      BY <2>1 DEF Promise!AllocatorNext, Promise!Break
    <2>2. CASE heap'.misused = {}
      <3>1. heap.misused = {}
        BY <2>2, MisuseGrows
      <3>2. ASSUME NEW c \in Clients,
                   \A d \in Clients \ {c} : ptr'[d] = ptr[d] /\ want'[d] = want[d]
            PROVE  Promise!Replace(c)
        <4>1. ptr' \in [Clients -> Nat] /\ want' \in [Clients -> Nat]
          BY DEF TypeOK
        <4>2. \A d \in Clients \ {c} : Promise!Apart(c, d)'
          BY <1>2, <2>2
        <4>3. (heap.misused # {})' = (heap.misused # {})
          BY <2>2, <3>1
        <4> QED
          BY <3>2, <4>1, <4>2, <4>3 DEF Promise!Replace
      <3>3. ASSUME NEW c \in Clients,
                   AllocBy(c) \/ ReallocBy(c) \/ ReallocaBy(c)
            PROVE  Promise!AllocatorNext
        <4> DEFINE old == IF ptr[c] = Null THEN {} ELSE {Seg(c)}
        <4>1. PICK bytes \in Sizes : \E r :
                Served(heap, old, r, bytes) /\ Receive(c, r, bytes)
          BY <2>2, <3>1, <3>3, CallServed
        <4>2. PICK r : Served(heap, old, r, bytes) /\ Receive(c, r, bytes)
          BY <4>1
        <4>3. r.seg \in Nat
          BY <4>2, HeapElim DEF Served
        <4>4. /\ ptr'[c] = r.seg + HeaderSize /\ want'[c] = bytes
              /\ \A d \in Clients \ {c} : ptr'[d] = ptr[d] /\ want'[d] = want[d]
          BY <4>2 DEF Receive, TypeOK
        <4>5. ptr'[c] # 0
          BY <4>3, <4>4, HeapAssumption, HeapOpsAssumption
        <4>6. Promise!Replace(c)
          BY <3>2, <4>4
        <4> QED
          BY <3>1, <4>4, <4>5, <4>6
             DEF Promise!AllocatorNext, Promise!Acquire, Promise!Resize,
                 Promise!NoBlock
      <3>4. ASSUME NEW c \in Clients, FreeBy(c)
            PROVE  Promise!AllocatorNext
        <4>1. /\ ptr[c] # 0 /\ ptr'[c] = 0
              /\ \A d \in Clients \ {c} : ptr'[d] = ptr[d] /\ want'[d] = want[d]
          BY <3>4 DEF FreeBy, TypeOK, Null
        <4>2. Promise!Replace(c)
          BY <3>2, <4>1
        <4> QED
          BY <3>1, <4>1, <4>2
             DEF Promise!AllocatorNext, Promise!Release, Promise!NoBlock
      <3>5. CASE UNCHANGED vars
        BY <3>5 DEF vars, Promise!avars
      <3> QED
        BY <3>3, <3>4, <3>5 DEF Next, Call, Stopped
    <2> QED
      BY <2>1, <2>2
  <1> QED
    BY <1>1, <1>3, TypeCorrect, HeapIntact, PTL
       DEF Spec, KeepsPromise, Promise!AllocatorSpec

\* Blocks, or none, at natural addresses.
PromisedBlocks == ptr \in [Clients -> Nat] /\ want \in [Clients -> Nat]

\* The promise is what the callers of alloc() need: as long as each call
\* keeps to its part of it, the blocks of all owners are disjoint. Nothing of
\* the heap is used here.
THEOREM OwnersExclusive == Promise!AllocatorSpec => []Promise!Exclusive
  <1> DEFINE broken == heap.misused # {}
  <1>1. Promise!AllocatorInit => PromisedBlocks /\ Promise!Exclusive
    BY DEF Promise!AllocatorInit, Promise!NoBlock, PromisedBlocks, Promise!Exclusive,
           Promise!Apart
  <1>2. PromisedBlocks /\ Promise!Exclusive /\ ~broken
          /\ [Promise!AllocatorNext]_(Promise!avars) =>
          (PromisedBlocks /\ Promise!Exclusive)' \/ broken'
    <2> SUFFICES ASSUME PromisedBlocks, Promise!Exclusive, ~broken,
                        [Promise!AllocatorNext]_(Promise!avars), ~broken'
                 PROVE  (PromisedBlocks /\ Promise!Exclusive)'
      OBVIOUS
    <2>1. CASE UNCHANGED Promise!avars
      BY <2>1 DEF Promise!avars, PromisedBlocks, Promise!Exclusive, Promise!Apart
    <2>2. ASSUME NEW c \in Clients, Promise!Replace(c)
          PROVE  (PromisedBlocks /\ Promise!Exclusive)'
      <3>1. \A d, e \in Clients \ {c} : Promise!Apart(d, e) => Promise!Apart(d, e)'
        BY <2>2 DEF Promise!Replace, Promise!Apart
      <3>2. \A d \in Clients \ {c} : Promise!Apart(c, d)' /\ Promise!Apart(d, c)'
        BY <2>2 DEF Promise!Replace, Promise!Apart
      <3> QED
        BY <2>2, <3>1, <3>2 DEF Promise!Replace, PromisedBlocks, Promise!Exclusive
    <2> QED
      BY <2>1, <2>2 DEF Promise!AllocatorNext, Promise!Break, Promise!Acquire,
                        Promise!Resize, Promise!Release
  <1>3. broken /\ [Promise!AllocatorNext]_(Promise!avars) => broken'
    BY DEF Promise!AllocatorNext, Promise!Break, Promise!avars
  <1>4. broken => Promise!Exclusive
    BY DEF Promise!Exclusive
  <1> QED
    BY <1>1, <1>2, <1>3, <1>4, PTL DEF Promise!AllocatorSpec

\* What the callers of the heap want of it, through the abstract allocator:
\* their blocks are disjoint.
THEOREM ClientsExclusive == Spec => []Promise!Exclusive
  BY HeapKeepsPromise, OwnersExclusive, PTL DEF KeepsPromise

-----------------------------------------------------------------------------
(* What was given back can be found again.                                  *)

\* The heap has finitely many headers, and a walk that climbs visits all of
\* them.
Finite == IsFiniteSet(Segs(heap))

\* No call writes more than one header.
LEMMA HeadersFinite == Spec => []Finite
  <1>1. Init => Finite
    <2> SUFFICES ASSUME Init PROVE Finite
      OBVIOUS
    <2>1. heap.next = [s \in {HeapStart} |-> Null]
      BY DEF Init, InitialHeap
    <2>2. Segs(heap) = {HeapStart}
      BY <2>1 DEF Segs
    <2> QED
      BY <2>2, FS_Singleton DEF Finite
  <1>2. TypeOK /\ Finite /\ [Next]_vars => Finite'
    <2> SUFFICES ASSUME TypeOK, Finite, [Next]_vars PROVE Finite'
      OBVIOUS
    <2>1. HeapType(heap) /\ IsFiniteSet(Segs(heap))
      BY DEF TypeOK, Finite
    <2>2. ASSUME NEW c \in Clients, AllocBy(c)
          PROVE  Finite'
      <3>1. PICK bytes \in Sizes :
              \E r \in Alloc(heap, bytes) : Receive(c, r, bytes)
        BY <2>2 DEF AllocBy
      <3>2. PICK r \in Alloc(heap, bytes) : Receive(c, r, bytes)
        BY <3>1
      <3>3. bytes \in Nat
        BY HeapAssumption
      <3>4. IsFiniteSet(Segs(r.heap))
        BY <2>1, <3>2, <3>3, AllocFinite
      <3> QED
        BY <3>2, <3>4 DEF Receive, Finite
    <2>3. ASSUME NEW c \in Clients, ReallocBy(c)
          PROVE  Finite'
      <3>1. PICK bytes \in Sizes :
              \E r \in Realloc(heap, Seg(c), bytes) : Receive(c, r, bytes)
        BY <2>3 DEF ReallocBy
      <3>2. PICK r \in Realloc(heap, Seg(c), bytes) : Receive(c, r, bytes)
        BY <3>1
      <3>3. bytes \in Nat /\ Seg(c) \in Segs(heap)
        BY <2>3, HeapAssumption DEF TypeOK, ReallocBy, Live
      <3>4. IsFiniteSet(Segs(r.heap))
        BY <2>1, <3>2, <3>3, ReallocFinite
      <3> QED
        BY <3>2, <3>4 DEF Receive, Finite
    <2>4. ASSUME NEW c \in Clients, ReallocaBy(c)
          PROVE  Finite'
      <3>1. PICK bytes \in Sizes, add \in Adds :
              \E r \in Realloca(heap, Seg(c), bytes, add) : Receive(c, r, bytes)
        BY <2>4 DEF ReallocaBy
      <3>2. PICK r \in Realloca(heap, Seg(c), bytes, add) : Receive(c, r, bytes)
        BY <3>1
      <3>3. bytes \in Nat /\ add \in Nat /\ Seg(c) \in Segs(heap)
        BY <2>4, HeapAssumption DEF TypeOK, ReallocaBy, Live
      <3>4. IsFiniteSet(Segs(r.heap))
        BY <2>1, <3>2, <3>3, ReallocaFinite
      <3> QED
        BY <3>2, <3>4 DEF Receive, Finite
    <2>5. ASSUME NEW c \in Clients, FreeBy(c)
          PROVE  Finite'
      <3>1. Seg(c) \in Segs(heap) /\ heap' = Free(heap, Seg(c))
        BY <2>5 DEF TypeOK, FreeBy, Live
      <3>2. Segs(heap') = Segs(heap)
        BY <2>1, <3>1, FreeFields
      <3> QED
        BY <2>1, <3>2 DEF Finite
    <2>6. CASE UNCHANGED vars
      BY <2>1, <2>6 DEF vars, Finite
    <2> QED
      BY <2>2, <2>3, <2>4, <2>5, <2>6 DEF Next, Call, Stopped
  <1> QED
    BY <1>1, <1>2, TypeCorrect, PTL DEF Spec

\* Only free() takes the pointer of a client away.
LEMMA OnlyFreeTakes ==
  ASSUME TypeOK, [Next]_vars, NEW c \in Clients, ptr[c] # Null, ptr'[c] = Null
  PROVE  FreeBy(c)
  <1>1. ptr \in [Clients -> Nat] /\ HeapType(heap)
    BY DEF TypeOK
  <1>2. ASSUME NEW d \in Clients, NEW bytes \in Sizes, NEW r,
               HeapType(r.heap), r.seg \in Segs(r.heap), Receive(d, r, bytes)
        PROVE  FALSE
    <2>1. r.seg + HeaderSize # Null
      BY <1>2, HeapElim, HeapOpsAssumption DEF Null
    <2> QED
      BY <1>1, <1>2, <2>1 DEF Receive
  <1>3. ASSUME NEW d \in Clients, AllocBy(d)
        PROVE  FALSE
    <2>1. PICK bytes \in Sizes :
            \E r \in Alloc(heap, bytes) : Receive(d, r, bytes)
      BY <1>3 DEF AllocBy
    <2>2. PICK r \in Alloc(heap, bytes) : Receive(d, r, bytes)
      BY <2>1
    <2>3. bytes \in Nat
      BY HeapAssumption
    <2> QED
      BY <1>1, <1>2, <2>2, <2>3, AllocType
  <1>4. ASSUME NEW d \in Clients, ReallocBy(d)
        PROVE  FALSE
    <2>1. PICK bytes \in Sizes :
            \E r \in Realloc(heap, Seg(d), bytes) : Receive(d, r, bytes)
      BY <1>4 DEF ReallocBy
    <2>2. PICK r \in Realloc(heap, Seg(d), bytes) : Receive(d, r, bytes)
      BY <2>1
    <2>3. bytes \in Nat /\ Seg(d) \in Segs(heap)
      BY <1>4, HeapAssumption DEF TypeOK, ReallocBy, Live
    <2> QED
      BY <1>1, <1>2, <2>2, <2>3, ReallocType
  <1>5. ASSUME NEW d \in Clients, ReallocaBy(d)
        PROVE  FALSE
    <2>1. PICK bytes \in Sizes, add \in Adds :
            \E r \in Realloca(heap, Seg(d), bytes, add) : Receive(d, r, bytes)
      BY <1>5 DEF ReallocaBy
    <2>2. PICK r \in Realloca(heap, Seg(d), bytes, add) : Receive(d, r, bytes)
      BY <2>1
    <2>3. bytes \in Nat /\ add \in Nat /\ Seg(d) \in Segs(heap)
      BY <1>5, HeapAssumption DEF TypeOK, ReallocaBy, Live
    <2> QED
      BY <1>1, <1>2, <2>2, <2>3, ReallocaType
  <1>6. ASSUME NEW d \in Clients, FreeBy(d)
        PROVE  d = c
    BY <1>1, <1>6 DEF FreeBy
  <1>7. ~UNCHANGED vars
    BY DEF vars
  <1> QED
    BY <1>3, <1>4, <1>5, <1>6, <1>7 DEF Next, Call, Stopped

\* A block given back with free() is in reach of the next alloc(): used_until
\* is lowered to it when it lies higher, and from there the `next' pointers
\* lead through every header above.
THEOREM FreedReached == Spec => FreedIsFound
  <1>1. TypeOK /\ Intact /\ Finite /\ [Next]_vars =>
          [\A c \in Clients :
             ptr[c] # Null /\ ptr'[c] = Null /\ heap.misused = {} =>
               Seg(c) \in Walk(heap', heap'.usedUntil)]_vars
    <2> SUFFICES ASSUME TypeOK, Intact, Finite, [Next]_vars, NEW c \in Clients,
                        ptr[c] # Null, ptr'[c] = Null, heap.misused = {}
                 PROVE  Seg(c) \in Walk(heap', heap'.usedUntil)
      OBVIOUS
    <2>1. FreeBy(c)
      BY OnlyFreeTakes
    <2> DEFINE s == Seg(c)
               g == Free(heap, s)
    <2>2. HeapType(heap) /\ s \in Segs(heap) /\ heap' = g
      BY <2>1 DEF TypeOK, FreeBy, Live
    <2>3. /\ HeapType(g) /\ Segs(g) = Segs(heap)
          /\ g.next = heap.next /\ g.size = heap.size
      BY <2>2, FreeFields
    <2>4. Tiled(g)
      BY <2>3 DEF Tiled, SegEnd, Intact
    <2>5. g.usedUntil = IF heap.usedUntil > s THEN s ELSE heap.usedUntil
      BY <2>2 DEF Free, HeapType
    <2>6. g.usedUntil \in Segs(g) /\ g.usedUntil <= s
      <3>1. heap.usedUntil \in Nat /\ s \in Nat /\ heap.usedUntil \in Segs(heap)
        BY <2>2, HeapElim
      <3> QED
        BY <2>2, <2>3, <2>5, <3>1
    <2>7. IsFiniteSet(Segs(g)) /\ s \in Segs(g)
      BY <2>2, <2>3 DEF Finite
    <2> DEFINE u == g.usedUntil
    <2> HIDE DEF s, g, u
    <2>8. u \in Segs(g) /\ u <= s
      BY <2>6 DEF u
    <2>9. s \in Walk(g, u)
      BY <2>3, <2>4, <2>7, <2>8, WalkReaches
    <2> QED
      BY <2>2, <2>9 DEF s, u
  <1> QED
    BY <1>1, TypeCorrect, HeapIntact, HeadersFinite, PTL
      DEF Spec, FreedIsFound

-----------------------------------------------------------------------------
(* Aligning.                                                                *)

\* Multiples of a leave no remainder.
LEMMA MultipleMod ==
  ASSUME NEW q \in Int, NEW a \in Nat \ {0}
  PROVE  (a * q) % a = 0
  OBVIOUS

\* What is below a is its own remainder: the addresses do not wrap.
LEMMA SmallMod ==
  ASSUME NEW x \in Nat, NEW a \in Nat, x < a
  PROVE  x % a = x
  OBVIOUS

\* The offset align_alloc() computes leads to the next multiple.
LEMMA OffsetAligns ==
  ASSUME NEW s \in Nat, NEW a \in Nat \ {0}
  PROVE  /\ OffsetIn(s, a) \in Nat
         /\ (s + OffsetIn(s, a) + HeaderSize) % a = 0
  <1> DEFINE x == s + HeaderSize
             y == OffsetIn(s, a)
             q == (-x) \div a
  <1>1. x \in Nat /\ -x \in Int
    BY HeapOpsAssumption
  <1>2. y = (-x) % a
    BY DEF OffsetIn
  <1> HIDE DEF x, y
  <1>3. q \in Int /\ -x = (a * q) + y /\ y \in Nat
    BY <1>1, <1>2, DivMod
  <1> HIDE DEF q
  <1>4. x + y = a * (-q) /\ -q \in Int
    BY <1>1, <1>3
  <1>5. (x + y) % a = 0
    BY <1>4, MultipleMod
  <1>6. s + y + HeaderSize = x + y
    BY <1>3, HeapOpsAssumption DEF x
  <1> QED
    BY <1>3, <1>5, <1>6 DEF y

-----------------------------------------------------------------------------
(* What the aligned functions return.                                       *)

\* A heap, with at least the headers it had, and the place of a block in it
\* that starts at a multiple of a.
Returned(h, r, a) ==
  /\ HeapType(r.heap) /\ Segs(h) \subseteq Segs(r.heap)
  /\ r.seg \in Segs(r.heap) /\ r.off \in Nat
  /\ (r.seg + r.off + HeaderSize) % a = 0
  /\ h.misused \subseteq r.heap.misused

\* What a caller is owed, as in Served, except that padding may stay marked:
\* the segments `old' are given up, all others stay used and keep their size,
\* and the caller's is none of them and has room for b bytes behind the offset.
Granted(h, old, r, b) ==
  /\ Tiled(r.heap)
  /\ h.used \ old \subseteq r.heap.used
  /\ r.seg \in r.heap.used \ (h.used \ old)
  /\ r.heap.size[r.seg] >= r.off + b
  /\ \A t \in h.used \ old : r.heap.size[t] = h.size[t]

\* The header align_alloc() cuts out of the padding: the fields it writes.
LEMMA PadFields ==
  ASSUME NEW h, HeapType(h), NEW s \in Segs(h), NEW off \in Nat,
         off > HeaderSize + SplitSlack,
         NEW r, r = Pad(h, s, off), NEW n, n = s + off
  PROVE  /\ HeapType(r.heap) /\ r.seg = n /\ r.off = 0
         /\ n \in Nat \ {0} /\ Segs(r.heap) = Segs(h) \cup {n}
         /\ r.heap.next = Write(Write(h.next, s, n), n, h.next[s])
         /\ r.heap.size = Write(Write(h.size, s, off - HeaderSize), n,
                                (h.next[s] - n - HeaderSize) % Word)
         /\ r.heap.used = h.used \cup {n}
         /\ h.misused \subseteq r.heap.misused
         /\ h.next[s] = Null => r.heap.misused # {}
  <1> DEFINE D == Segs(h) \cup {n}
             left == (h.next[s] - n - HeaderSize) % Word
             nxt == Write(Write(h.next, s, n), n, h.next[s])
             siz == Write(Write(h.size, s, off - HeaderSize), n, left)
             mis == h.misused \cup (IF h.next[s] = Null THEN {n} ELSE {})
             g == r.heap
  <1>1. /\ Segs(h) \subseteq Nat \ {0}
        /\ h.next \in [Segs(h) -> Nat] /\ h.size \in [Segs(h) -> Nat]
        /\ h.used \subseteq Segs(h)
        /\ h.end \in Segs(h) /\ h.usedUntil \in Segs(h)
        /\ h.misused \subseteq Nat
    BY HeapElim
  <1>2. n \in Nat \ {0} /\ off - HeaderSize \in Nat
    BY <1>1, HeapOpsAssumption
  <1>3. left \in Nat
    <2>1. h.next[s] - n - HeaderSize \in Int
      BY <1>1, <1>2, HeapOpsAssumption
    <2> QED
      BY <2>1, DivMod, AlignedAssumption
  <1>4. nxt \in [D -> Nat]
    <2>1. h.next[s] \in Nat
      BY <1>1
    <2>2. Write(h.next, s, n) \in [Segs(h) -> Nat]
      BY <1>1, <1>2, WriteOld
    <2> QED
      BY <2>1, <2>2, WriteNew
  <1> HIDE DEF left
  <1>5. siz \in [D -> Nat]
    <2>1. Write(h.size, s, off - HeaderSize) \in [Segs(h) -> Nat]
      BY <1>1, <1>2, WriteOld
    <2> QED
      BY <1>3, <2>1, WriteNew
  <1>6. mis \subseteq Nat
    BY <1>1, <1>2
  <1>7. /\ g = [h EXCEPT !.next = nxt, !.size = siz, !.used = @ \cup {n},
                         !.misused = mis]
        /\ r.seg = n /\ r.off = 0
    BY DEF Pad, left
  <1> HIDE DEF nxt, siz, mis, g
  <1>8. g = [next |-> nxt, size |-> siz, used |-> h.used \cup {n},
             end |-> h.end, usedUntil |-> h.usedUntil, misused |-> mis]
    BY <1>7 DEF HeapType
  <1>9. /\ g.next = nxt /\ g.size = siz /\ g.used = h.used \cup {n}
        /\ g.end = h.end /\ g.usedUntil = h.usedUntil /\ g.misused = mis
    BY <1>8
  <1>10. HeapType(g) /\ Segs(g) = D
    <2>1. g = [next |-> g.next, size |-> g.size, used |-> g.used,
               end |-> g.end, usedUntil |-> g.usedUntil,
               misused |-> g.misused]
      BY <1>8
    <2>2. /\ D \subseteq Nat \ {0} /\ g.used \subseteq D
          /\ g.end \in D /\ g.usedUntil \in D
      BY <1>1, <1>2, <1>9
    <2>3. g.next \in [D -> Nat] /\ g.size \in [D -> Nat] /\ g.misused \subseteq Nat
      BY <1>4, <1>5, <1>6, <1>9
    <2> HIDE DEF D
    <2> QED
      BY <2>1, <2>2, <2>3, HeapIs
  <1>11. h.misused \subseteq mis /\ (h.next[s] = Null => n \in mis)
    BY DEF mis
  <1> QED
    BY <1>2, <1>7, <1>9, <1>10, <1>11 DEF D, nxt, siz, mis, g, left

\* The block of result r starts off bytes behind the header s of heap h.
Starts(h, s, off, r) ==
  /\ HeapType(r.heap) /\ Segs(h) \subseteq Segs(r.heap)
  /\ r.seg \in Segs(r.heap) /\ r.off \in Nat
  /\ r.seg + r.off = s + off
  /\ h.misused \subseteq r.heap.misused

\* The padding of align_alloc() leaves the block where it is to start.
LEMMA PadReturned ==
  ASSUME NEW h, HeapType(h), NEW s \in Segs(h), NEW off \in Nat,
         NEW r, r = Pad(h, s, off)
  PROVE  Starts(h, s, off, r)
  <1> USE DEF Starts
  <1>1. s \in Nat
    BY HeapElim
  <1>2. CASE off > HeaderSize + SplitSlack
    <2> DEFINE n == s + off
    <2>1. /\ HeapType(r.heap) /\ r.seg = n /\ r.off = 0
      BY <1>2, PadFields
    <2>3. Segs(r.heap) = Segs(h) \cup {n} /\ h.misused \subseteq r.heap.misused
      BY <1>2, PadFields
    <2>2. n \in Nat /\ n + 0 = n
      BY <1>1
    <2> QED
      BY <2>1, <2>2, <2>3
  <1>3. CASE ~(off > HeaderSize + SplitSlack)
    BY <1>3 DEF Pad
  <1> QED
    BY <1>2, <1>3

\* A padded block is as large as the segment it was cut from allows, if that
\* has a successor to compute its size from.
LEMMA PadGranted ==
  ASSUME NEW h, HeapType(h), Tiled(h), NEW s \in h.used, NEW off \in Nat,
         NEW b \in Nat, h.size[s] >= off + b,
         NEW r, r = Pad(h, s, off), InBounds(r.heap), r.heap.misused = {}
  PROVE  Granted(h, {s}, r, b) /\ s \in r.heap.used
  <1> USE DEF Granted
  <1>1. /\ Segs(h) \subseteq Nat \ {0} /\ s \in Segs(h)
        /\ h.next \in [Segs(h) -> Nat] /\ h.size \in [Segs(h) -> Nat]
        /\ h.used \subseteq Segs(h)
    BY HeapElim
  <1>2. CASE off > HeaderSize + SplitSlack
    <2>0. s \in Segs(h)
      BY <1>1
    <2> DEFINE n == s + off
    <2>a. HeapType(r.heap) /\ r.seg = n /\ r.off = 0 /\ n \in Nat \ {0}
      BY <1>2, <2>0, PadFields
    <2>b. Segs(r.heap) = Segs(h) \cup {n} /\ r.heap.used = h.used \cup {n}
      BY <1>2, <2>0, PadFields
    <2>c. r.heap.next = Write(Write(h.next, s, n), n, h.next[s])
      BY <1>2, <2>0, PadFields
    <2>d. r.heap.size = Write(Write(h.size, s, off - HeaderSize), n,
                              (h.next[s] - n - HeaderSize) % Word)
      BY <1>2, <2>0, PadFields
    <2>e. h.next[s] # Null
      BY <1>2, <2>0, PadFields
    <2> DEFINE g == r.heap
               v == h.next[s]
               left == (v - n - HeaderSize) % Word
    <2>1. /\ HeapType(g) /\ r.seg = n /\ r.off = 0
          /\ n \in Nat \ {0} /\ Segs(g) = Segs(h) \cup {n}
          /\ g.next = Write(Write(h.next, s, n), n, v)
          /\ g.size = Write(Write(h.size, s, off - HeaderSize), n, left)
          /\ g.used = h.used \cup {n}
          /\ v # Null
      BY <2>a, <2>b, <2>c, <2>d, <2>e
    <2>3. v \in Segs(h) /\ v = SegEnd(h, s)
      BY <1>1, <2>1 DEF Tiled
    <2>4. v = s + HeaderSize + h.size[s] /\ h.size[s] \in Nat /\ v \in Nat
      BY <1>1, <2>3 DEF SegEnd
    <2>5. /\ s + HeaderSize <= n /\ n + HeaderSize <= v /\ n # s
          /\ v - n - HeaderSize \in Nat
          /\ v - n - HeaderSize = h.size[s] - off
      <3> DEFINE z == h.size[s]
      <3>1. z \in Nat /\ z >= off + b /\ s \in Nat /\ v = s + HeaderSize + z
        BY <1>1, <2>4
      <3> HIDE DEF z
      <3>2. n = s + off
        OBVIOUS
      <3> HIDE DEF n, v
      <3>3. /\ s + HeaderSize <= n /\ n + HeaderSize <= v /\ n # s
            /\ v - n - HeaderSize \in Nat
            /\ v - n - HeaderSize = z - off
        BY <1>2, <3>1, <3>2, HeapOpsAssumption
      <3> QED
        BY <3>3 DEF z
    <2>6. v <= Word
      <3>1. v \in Segs(g) /\ g.size[v] \in Nat
        BY <2>1, <2>3, HeapElim
      <3>2. v + HeaderSize + g.size[v] <= HeapStart + MaxExtent
        BY <3>1 DEF InBounds, SegEnd
      <3> DEFINE z == g.size[v]
      <3>3. z \in Nat /\ v + HeaderSize + z <= HeapStart + MaxExtent
        BY <3>1, <3>2
      <3> HIDE DEF z, v
      <3> QED
        BY <2>4, <3>3, HeapOpsAssumption, HeapAssumption, AlignedAssumption
    <2>7. left = h.size[s] - off
      <3> DEFINE x == v - n - HeaderSize
      <3>1. x \in Nat /\ x < Word /\ Word \in Nat
        BY <2>1, <2>4, <2>5, <2>6, HeapOpsAssumption, AlignedAssumption
      <3>2. x = h.size[s] - off
        BY <2>5
      <3>3. left = x % Word
        OBVIOUS
      <3> HIDE DEF x, left
      <3>4. x % Word = x
        BY <3>1, SmallMod
      <3> QED
        BY <3>2, <3>3, <3>4
    <2>8. n \notin Segs(h)
      <3>1. ASSUME n \in Segs(h) PROVE FALSE
        <4>1. s < n
          BY <1>1, <2>1, <2>5
        <4>2. SegEnd(h, s) <= n
          BY <1>1, <3>1, <4>1 DEF Tiled
        <4> QED
          BY <2>1, <2>3, <2>4, <2>5, <4>2, HeapOpsAssumption
      <3> QED
        BY <3>1
    <2> HIDE DEF n, g, v, left
    <2>9. /\ g.next[s] = n /\ g.next[n] = v
          /\ \A t \in Segs(h) \ {s, n} : g.next[t] = h.next[t]
      BY <1>1, <2>1, <2>5 DEF Write
    <2>10. /\ g.size[s] = off - HeaderSize /\ g.size[n] = left
           /\ \A t \in Segs(h) \ {s, n} : g.size[t] = h.size[t]
      BY <1>1, <2>1, <2>5 DEF Write
    <2>11. SegEnd(g, s) = n
      BY <1>1, <2>10, HeapOpsAssumption DEF SegEnd, n
    <2>12. SegEnd(g, n) = v
      <3>1. n + HeaderSize + left = v
        BY <1>1, <2>4, <2>7, HeapOpsAssumption DEF n
      <3> QED
        BY <2>10, <3>1 DEF SegEnd
    <2>13. \A t \in Segs(h) \ {s, n} : SegEnd(g, t) = SegEnd(h, t)
      BY <2>10 DEF SegEnd
    <2>14. Tiled(g)
      <3>1. /\ s + HeaderSize <= n /\ n + HeaderSize <= SegEnd(h, s)
            /\ g.next[n] = h.next[s] /\ SegEnd(g, n) = SegEnd(h, s)
        BY <2>3, <2>5, <2>9, <2>12 DEF v
      <3>2. n \in Nat
        BY <2>1
      <3>3. /\ HeapType(g) /\ Segs(g) = Segs(h) \cup {n} /\ g.next[s] = n
            /\ SegEnd(g, s) = n
        BY <2>1, <2>9, <2>11
      <3> QED
        BY <1>1, <2>9, <2>13, <3>1, <3>2, <3>3, CutTiled
    <2>15. g.size[n] >= 0 + b
      <3> DEFINE z == h.size[s]
      <3>1. z \in Nat /\ z >= off + b /\ g.size[n] = z - off
        BY <2>4, <2>7, <2>10
      <3> HIDE DEF z
      <3> QED
        BY <3>1
    <2>16. \A t \in h.used \ {s} : g.size[t] = h.size[t]
      BY <1>1, <2>8, <2>10
    <2>17. n \in g.used /\ h.used \subseteq g.used /\ n \notin h.used
      BY <1>1, <2>1, <2>8
    <2> QED
      BY <2>1, <2>14, <2>15, <2>16, <2>17 DEF g
  <1>3. CASE ~(off > HeaderSize + SplitSlack)
    <2>1. r.heap = h /\ r.seg = s /\ r.off = off
      BY <1>3 DEF Pad
    <2> QED
      BY <2>1
  <1> QED
    BY <1>2, <1>3

\* heap_align_expand() writes behind heap.end.
LEMMA AlignExpandMisuse ==
  ASSUME NEW h, HeapType(h), NEW b, NEW a
  PROVE  AlignExpand(h, b, a).heap.misused = h.misused \cup Stale(h)
  <1> DEFINE mis == h.misused \cup Stale(h)
  <1>1. /\ h = [next |-> h.next, size |-> h.size, used |-> h.used,
                end |-> h.end, usedUntil |-> h.usedUntil,
                misused |-> h.misused]
        /\ mis = h.misused \cup Stale(h)
    BY HeapElim
  <1> HIDE DEF mis
  <1> QED
    BY <1>1 DEF AlignExpand

\* Heap h, continued by a segment e of padding and the block n of result r.
Continued(h, b, e, n, r) ==
  /\ HeapType(r.heap) /\ r.seg = n /\ r.off = 0
  /\ Segs(r.heap) = (Segs(h) \cup {e}) \cup {n}
  /\ r.heap.next = Write(Write(Write(h.next, h.end, e), e, n), n, Null)
  /\ r.heap.size = Write(Write(h.size, e, n - e - HeaderSize), n, b)
  /\ r.heap.used = (h.used \ {e}) \cup {n}

\* heap_align_expand() with a segment for the padding: the fields it writes.
LEMMA AlignExpandFields ==
  ASSUME NEW h, HeapType(h), NEW b \in Nat, NEW a \in Nat \ {0},
         NEW e, e = SegEnd(h, h.end), NEW off, off = OffsetIn(e, a),
         off > HeaderSize + SplitSlack, NEW n, n = e + off,
         NEW r, r = AlignExpand(h, b, a)
  PROVE  Continued(h, b, e, n, r)
  <1> DEFINE D == (Segs(h) \cup {e}) \cup {n}
             nxt == Write(Write(Write(h.next, h.end, e), e, n), n, Null)
             siz == Write(Write(h.size, e, n - e - HeaderSize), n, b)
             mis == h.misused \cup Stale(h)
             g == r.heap
  <1>1. /\ Segs(h) \subseteq Nat \ {0}
        /\ h.next \in [Segs(h) -> Nat] /\ h.size \in [Segs(h) -> Nat]
        /\ h.used \subseteq Segs(h)
        /\ h.end \in Segs(h) /\ h.usedUntil \in Segs(h)
        /\ h.misused \subseteq Nat
    BY HeapElim
  <1>2. e \in Nat \ {0}
    BY <1>1, HeapOpsAssumption DEF SegEnd
  <1>3. off \in Nat
    BY <1>2, OffsetAligns
  <1>4. n \in Nat \ {0} /\ n - e - HeaderSize \in Nat /\ Null \in Nat
    BY <1>2, <1>3, HeapOpsAssumption DEF Null
  <1>5. D = (Segs(h) \cup {e}) \cup {n}
    OBVIOUS
  <1>6. nxt \in [D -> Nat]
    <2>1. Write(h.next, h.end, e) \in [Segs(h) -> Nat]
      BY <1>1, <1>2, WriteOld
    <2>2. Write(Write(h.next, h.end, e), e, n) \in [Segs(h) \cup {e} -> Nat]
      BY <1>4, <2>1, WriteNew
    <2>3. nxt \in [(Segs(h) \cup {e}) \cup {n} -> Nat]
      BY <1>4, <2>2, WriteNew
    <2> QED
      BY <1>5, <2>3
  <1>7. siz \in [D -> Nat]
    <2> DEFINE f == Write(h.size, e, n - e - HeaderSize)
    <2>1. f \in [Segs(h) \cup {e} -> Nat]
      BY <1>1, <1>4, WriteNew
    <2> HIDE DEF f
    <2>2. Write(f, n, b) \in [(Segs(h) \cup {e}) \cup {n} -> Nat]
      BY <2>1, WriteNew
    <2> QED
      BY <1>5, <2>2 DEF f
  <1>8. mis \subseteq Nat
    BY <1>1 DEF Stale
  <1>9. /\ g = [h EXCEPT !.end = n, !.next = nxt, !.size = siz,
                         !.used = (@ \ {e}) \cup {n}, !.misused = mis]
        /\ r.seg = n /\ r.off = 0
    <2>1. n - e - HeaderSize = off - HeaderSize
      BY <1>2, <1>3
    <2> QED
      BY <2>1 DEF AlignExpand
  <1> HIDE DEF nxt, siz, mis, g
  <1>10. g = [next |-> nxt, size |-> siz, used |-> (h.used \ {e}) \cup {n},
              end |-> n, usedUntil |-> h.usedUntil, misused |-> mis]
    BY <1>9 DEF HeapType
  <1>11. /\ g.next = nxt /\ g.size = siz /\ g.used = (h.used \ {e}) \cup {n}
         /\ g.end = n /\ g.usedUntil = h.usedUntil /\ g.misused = mis
    BY <1>10
  <1>12. HeapType(g) /\ Segs(g) = D
    <2>1. g = [next |-> g.next, size |-> g.size, used |-> g.used,
               end |-> g.end, usedUntil |-> g.usedUntil,
               misused |-> g.misused]
      BY <1>10
    <2>2. /\ D \subseteq Nat \ {0} /\ g.used \subseteq D
          /\ g.end \in D /\ g.usedUntil \in D
      BY <1>1, <1>2, <1>4, <1>11
    <2>3. /\ g.next \in [D -> Nat] /\ g.size \in [D -> Nat]
          /\ g.misused \subseteq Nat
      BY <1>6, <1>7, <1>8, <1>11
    <2> QED
      BY <2>1, <2>2, <2>3, HeapIs
  <1> QED
    BY <1>9, <1>11, <1>12 DEF Continued, nxt, siz, g

\* heap_align_expand() returns a block at a multiple.
LEMMA AlignExpandReturned ==
  ASSUME NEW h, HeapType(h), NEW b \in Nat, NEW a \in Nat \ {0},
         NEW r, r = AlignExpand(h, b, a)
  PROVE  Returned(h, r, a) /\ r.heap.misused = h.misused \cup Stale(h)
  <1> DEFINE e == SegEnd(h, h.end)
             off == OffsetIn(e, a)
             n == e + off
  <1>0. e = SegEnd(h, h.end) /\ off = OffsetIn(e, a) /\ n = e + off
    OBVIOUS
  <1>1. e \in Nat
    BY HeapElim, HeapOpsAssumption DEF SegEnd
  <1>2. off \in Nat /\ (e + off + HeaderSize) % a = 0
    BY <1>1, OffsetAligns
  <1> HIDE DEF e, off, n
  <1>3. CASE off > HeaderSize + SplitSlack
    <2>1. Continued(h, b, e, n, r)
      BY <1>0, <1>3, AlignExpandFields
    <2>2. /\ HeapType(r.heap) /\ r.seg = n /\ r.off = 0
          /\ Segs(r.heap) = (Segs(h) \cup {e}) \cup {n}
      BY <2>1 DEF Continued
    <2>3. r.heap.misused = h.misused \cup Stale(h)
      BY AlignExpandMisuse
    <2>4. r.seg + r.off = e + off
      BY <1>0, <1>1, <1>2, <2>2
    <2> QED
      BY <1>2, <2>2, <2>3, <2>4 DEF Returned
  <1>4. CASE ~(off > HeaderSize + SplitSlack)
    <2>1. r.heap = Expand(h, off + b) /\ r.seg = e /\ r.off = off
      BY <1>4 DEF AlignExpand, Expand, e, off, n
    <2>2. off + b \in Nat
      BY <1>2
    <2>3. HeapType(r.heap)
      BY <2>1, <2>2, ExpandFields
    <2>4. Segs(r.heap) = Segs(h) \cup {e}
      BY <1>0, <2>1, <2>2, ExpandFields
    <2>5. r.heap.misused = h.misused \cup Stale(h)
      BY <2>1, <2>2, ExpandFields
    <2> QED
      BY <1>2, <2>1, <2>3, <2>4, <2>5 DEF Returned
  <1> QED
    BY <1>3, <1>4

\* heap_align_expand() puts its segments behind the highest one.
LEMMA AlignExpandGranted ==
  ASSUME NEW h, HeapType(h), Tiled(h), Stale(h) = {}, NEW b \in Nat,
         NEW a \in Nat \ {0}, NEW r, r = AlignExpand(h, b, a)
  PROVE  Granted(h, {}, r, b)
  <1> DEFINE e == SegEnd(h, h.end)
             off == OffsetIn(e, a)
             n == e + off
             g == r.heap
  <1>0. /\ e = SegEnd(h, h.end) /\ off = OffsetIn(e, a) /\ n = e + off
        /\ g = r.heap
    OBVIOUS
  <1>1. e \in Nat /\ h.used \subseteq Segs(h) /\ h.end \in Segs(h)
        /\ Segs(h) \subseteq Nat \ {0}
        /\ h.next \in [Segs(h) -> Nat] /\ h.size \in [Segs(h) -> Nat]
    BY HeapElim, HeapOpsAssumption DEF SegEnd
  <1>2. off \in Nat
    BY <1>1, OffsetAligns
  <1> HIDE DEF e, off, n
  <1>3. CASE off > HeaderSize + SplitSlack
    <2> DEFINE k == off - HeaderSize
               m == Expand(h, k)
    <2>1. k \in Nat /\ Null \in Nat /\ n \in Nat /\ n # e /\ e < n
      BY <1>0, <1>1, <1>2, <1>3, HeapOpsAssumption DEF Null
    <2> HIDE DEF k, g
    <2>2. Continued(h, b, e, n, r)
      BY <1>0, <1>3, AlignExpandFields
    <2>3. k = n - e - HeaderSize
      BY <1>0, <1>1, <1>2 DEF k
    <2>4. /\ HeapType(g) /\ r.seg = n /\ r.off = 0
          /\ Segs(g) = (Segs(h) \cup {e}) \cup {n}
          /\ g.next = Write(Write(Write(h.next, h.end, e), e, n), n, Null)
          /\ g.used = (h.used \ {e}) \cup {n}
      BY <2>2 DEF Continued, g
    <2>5. g.size = Write(Write(h.size, e, k), n, b)
      BY <2>2, <2>3 DEF Continued, g
    <2>6. HeapType(g)
      BY <2>4
    <2>7. /\ HeapType(m) /\ Segs(m) = Segs(h) \cup {e}
          /\ m.next = Write(Write(h.next, h.end, e), e, Null)
          /\ m.size = Write(h.size, e, k)
      BY <1>0, <2>1, ExpandFields
    <2>8. Tiled(m) /\ e \notin Segs(h)
      BY <1>0, <2>1, ExpandTiled
    <2>9. \A t \in Segs(h) : t <= h.end
      BY EndIsTop
    <2>10. h.end < e
      BY <1>0, <1>1, HeapOpsAssumption DEF SegEnd
    <2>11. n \notin Segs(h)
      BY <1>1, <2>1, <2>9, <2>10
    <2> HIDE DEF m
    <2>12. /\ m.next[e] = Null
           /\ g.next[e] = n /\ g.next[n] = Null
           /\ \A t \in Segs(m) \ {e, n} : g.next[t] = m.next[t]
      BY <1>1, <2>1, <2>4, <2>7, <2>8, <2>11 DEF Write
    <2>13. /\ g.size[e] = k /\ m.size[e] = k /\ g.size[n] = b
           /\ \A t \in Segs(m) \ {e, n} : g.size[t] = m.size[t]
           /\ \A t \in Segs(h) : g.size[t] = h.size[t]
      BY <1>1, <2>1, <2>5, <2>7, <2>8, <2>11 DEF Write
    <2>14. SegEnd(g, e) = n
      BY <1>0, <1>1, <1>2, <2>13, HeapOpsAssumption DEF SegEnd, k
    <2>15. \A t \in Segs(m) \ {e, n} : SegEnd(g, t) = SegEnd(m, t)
      BY <2>13 DEF SegEnd
    <2>16. e \in Segs(m) /\ Segs(g) = Segs(m) \cup {n}
      BY <2>4, <2>7
    <2>17. Tiled(g)
      BY <2>1, <2>6, <2>7, <2>8, <2>12, <2>14, <2>15, <2>16, AppendTiled
    <2>18. g.size[n] >= 0 + b
      BY <2>13
    <2>19. n \in g.used \ h.used /\ h.used \subseteq g.used
      BY <1>1, <2>4, <2>8, <2>11
    <2>20. \A t \in h.used : g.size[t] = h.size[t]
      BY <1>1, <2>13
    <2> QED
      BY <2>4, <2>17, <2>18, <2>19, <2>20 DEF Granted, g
  <1>4. CASE ~(off > HeaderSize + SplitSlack)
    <2>1. r.heap = Expand(h, off + b) /\ r.seg = e /\ r.off = off
      BY <1>4 DEF AlignExpand, Expand, e, off, n
    <2>2. off + b \in Nat
      BY <1>2
    <2>3. r.heap.used = h.used \cup {e}
      BY <1>0, <2>1, <2>2, ExpandFields
    <2>4. /\ Tiled(r.heap) /\ e \notin Segs(h) /\ r.heap.size[e] = off + b
          /\ \A t \in Segs(h) : r.heap.size[t] = h.size[t]
      BY <1>0, <2>1, <2>2, ExpandTiled
    <2>5. r.heap.size[r.seg] >= r.off + b
      BY <2>1, <2>2, <2>4
    <2> QED
      BY <1>1, <2>1, <2>3, <2>4, <2>5 DEF Granted
  <1> QED
    BY <1>3, <1>4

\* Heap h, whose free last segment became padding for the block n of result r.
Cut(h, b, n, r) ==
  /\ HeapType(r.heap) /\ r.seg = n /\ r.off = 0
  /\ Segs(r.heap) = Segs(h) \cup {n}
  /\ r.heap.next = Write(Write(h.next, h.end, n), n, Null)
  /\ r.heap.size = Write(Write(h.size, h.end, n - h.end - HeaderSize), n, b)
  /\ r.heap.used = h.used \cup {n}

\* heap_align_enlarge() writes behind heap.end.
LEMMA AlignReuseMisuse ==
  ASSUME NEW h, HeapType(h), NEW b, NEW a
  PROVE  AlignReuseEnd(h, b, a).heap.misused = h.misused \cup Stale(h)
  <1> DEFINE mis == h.misused \cup Stale(h)
  <1>1. /\ h = [next |-> h.next, size |-> h.size, used |-> h.used,
                end |-> h.end, usedUntil |-> h.usedUntil,
                misused |-> h.misused]
        /\ mis = h.misused \cup Stale(h)
    BY HeapElim
  <1> HIDE DEF mis
  <1> QED
    BY <1>1 DEF AlignReuseEnd

\* heap_align_enlarge() on a free heap.end that is cut: the fields it writes.
LEMMA AlignReuseFields ==
  ASSUME NEW h, HeapType(h), NEW b \in Nat, NEW a \in Nat \ {0},
         NEW off, off = OffsetIn(h.end, a),
         off >= HeaderSize + SplitSlack, NEW n, n = h.end + off,
         NEW r, r = AlignReuseEnd(h, b, a)
  PROVE  Cut(h, b, n, r)
  <1> DEFINE D == Segs(h) \cup {n}
             nxt == Write(Write(h.next, h.end, n), n, Null)
             siz == Write(Write(h.size, h.end, n - h.end - HeaderSize), n, b)
             mis == h.misused \cup Stale(h)
             g == r.heap
  <1>1. /\ Segs(h) \subseteq Nat \ {0}
        /\ h.next \in [Segs(h) -> Nat] /\ h.size \in [Segs(h) -> Nat]
        /\ h.used \subseteq Segs(h)
        /\ h.end \in Segs(h) /\ h.usedUntil \in Segs(h)
        /\ h.misused \subseteq Nat
    BY HeapElim
  <1>2. off \in Nat
    <2>1. h.end \in Nat
      BY <1>1
    <2> QED
      BY <2>1, OffsetAligns
  <1>3. /\ n \in Nat \ {0} /\ n - h.end - HeaderSize \in Nat /\ Null \in Nat
        /\ n - h.end - HeaderSize = off - HeaderSize
    BY <1>1, <1>2, HeapOpsAssumption DEF Null
  <1>4. nxt \in [D -> Nat]
    <2>1. Write(h.next, h.end, n) \in [Segs(h) -> Nat]
      BY <1>1, <1>3, WriteOld
    <2> QED
      BY <1>3, <2>1, WriteNew
  <1>5. siz \in [D -> Nat]
    <2>1. Write(h.size, h.end, n - h.end - HeaderSize) \in [Segs(h) -> Nat]
      BY <1>1, <1>3, WriteOld
    <2> QED
      BY <2>1, WriteNew
  <1>6. mis \subseteq Nat
    BY <1>1 DEF Stale
  <1>7. /\ g = [h EXCEPT !.end = n, !.next = nxt, !.size = siz,
                         !.used = @ \cup {n}, !.misused = mis]
        /\ r.seg = n /\ r.off = 0
    BY <1>3 DEF AlignReuseEnd
  <1> HIDE DEF nxt, siz, mis, g
  <1>8. g = [next |-> nxt, size |-> siz, used |-> h.used \cup {n},
             end |-> n, usedUntil |-> h.usedUntil, misused |-> mis]
    BY <1>7 DEF HeapType
  <1>9. /\ g.next = nxt /\ g.size = siz /\ g.used = h.used \cup {n}
        /\ g.end = n /\ g.usedUntil = h.usedUntil /\ g.misused = mis
    BY <1>8
  <1>10. HeapType(g) /\ Segs(g) = D
    <2>1. g = [next |-> g.next, size |-> g.size, used |-> g.used,
               end |-> g.end, usedUntil |-> g.usedUntil,
               misused |-> g.misused]
      BY <1>8
    <2>2. /\ D \subseteq Nat \ {0} /\ g.used \subseteq D
          /\ g.end \in D /\ g.usedUntil \in D
      BY <1>1, <1>3, <1>9
    <2>3. /\ g.next \in [D -> Nat] /\ g.size \in [D -> Nat]
          /\ g.misused \subseteq Nat
      BY <1>4, <1>5, <1>6, <1>9
    <2> HIDE DEF D
    <2> QED
      BY <2>1, <2>2, <2>3, HeapIs
  <1> QED
    BY <1>7, <1>9, <1>10 DEF Cut, nxt, siz, g

\* heap_align_enlarge() on a free heap.end that is not cut.
LEMMA AlignReuseWhole ==
  ASSUME NEW h, HeapType(h), NEW b \in Nat, NEW a \in Nat \ {0},
         NEW off, off = OffsetIn(h.end, a),
         ~(off >= HeaderSize + SplitSlack),
         NEW r, r = AlignReuseEnd(h, b, a)
  PROVE  /\ HeapType(r.heap) /\ r.seg = h.end /\ r.off = off
         /\ Segs(r.heap) = Segs(h) /\ r.heap.next = h.next
         /\ r.heap.size = Write(h.size, h.end, b + off)
         /\ r.heap.used = h.used \cup {h.end}
  <1> DEFINE siz == Write(h.size, h.end, b + off)
             mis == h.misused \cup Stale(h)
             g == r.heap
             D == Segs(h)
  <1>1. /\ D \subseteq Nat \ {0}
        /\ h.next \in [D -> Nat] /\ h.size \in [D -> Nat]
        /\ h.used \subseteq D /\ h.end \in D /\ h.usedUntil \in D
        /\ h.misused \subseteq Nat
    BY HeapElim
  <1>2. off \in Nat /\ b + off \in Nat
    <2>1. h.end \in Nat
      BY <1>1
    <2>2. off \in Nat
      BY <2>1, OffsetAligns
    <2> QED
      BY <2>2
  <1>3. siz \in [D -> Nat]
    BY <1>1, <1>2, WriteOld
  <1>4. mis \subseteq Nat
    BY <1>1 DEF Stale
  <1>5. /\ g = [h EXCEPT !.size = siz, !.used = @ \cup {h.end}, !.misused = mis]
        /\ r.seg = h.end /\ r.off = off
    BY DEF AlignReuseEnd
  <1> HIDE DEF siz, mis, g
  <1>6. g = [next |-> h.next, size |-> siz, used |-> h.used \cup {h.end},
             end |-> h.end, usedUntil |-> h.usedUntil, misused |-> mis]
    BY <1>5 DEF HeapType
  <1>7. /\ g.next = h.next /\ g.size = siz /\ g.used = h.used \cup {h.end}
        /\ g.end = h.end /\ g.usedUntil = h.usedUntil /\ g.misused = mis
    BY <1>6
  <1>8. HeapType(g) /\ Segs(g) = D
    <2>1. g = [next |-> g.next, size |-> g.size, used |-> g.used,
               end |-> g.end, usedUntil |-> g.usedUntil,
               misused |-> g.misused]
      BY <1>6
    <2>2. g.used \subseteq D /\ g.end \in D /\ g.usedUntil \in D
      BY <1>1, <1>7
    <2>3. /\ g.next \in [D -> Nat] /\ g.size \in [D -> Nat]
          /\ g.misused \subseteq Nat
      BY <1>1, <1>3, <1>4, <1>7
    <2> HIDE DEF D
    <2> QED
      BY <1>1, <2>1, <2>2, <2>3, HeapIs
  <1> QED
    BY <1>5, <1>7, <1>8 DEF siz, g

\* heap_align_enlarge() on a free heap.end returns a block at a multiple.
LEMMA AlignReuseReturned ==
  ASSUME NEW h, HeapType(h), NEW b \in Nat, NEW a \in Nat \ {0},
         NEW r, r = AlignReuseEnd(h, b, a)
  PROVE  Returned(h, r, a) /\ r.heap.misused = h.misused \cup Stale(h)
  <1> DEFINE e == h.end
             off == OffsetIn(e, a)
             n == e + off
  <1>0. e = h.end /\ off = OffsetIn(e, a) /\ n = e + off
    OBVIOUS
  <1>1. e \in Nat /\ e \in Segs(h)
    BY HeapElim
  <1>2. off \in Nat /\ (e + off + HeaderSize) % a = 0
    BY <1>1, OffsetAligns
  <1>3. r.heap.misused = h.misused \cup Stale(h)
    BY AlignReuseMisuse
  <1> HIDE DEF e, off, n
  <1>4. CASE off >= HeaderSize + SplitSlack
    <2>1. Cut(h, b, n, r)
      BY <1>0, <1>4, AlignReuseFields
    <2>2. /\ HeapType(r.heap) /\ r.seg = n /\ r.off = 0
          /\ Segs(r.heap) = Segs(h) \cup {n}
      BY <2>1 DEF Cut
    <2>3. r.seg + r.off = e + off
      BY <1>0, <1>1, <1>2, <2>2
    <2> QED
      BY <1>2, <1>3, <2>2, <2>3 DEF Returned
  <1>5. CASE ~(off >= HeaderSize + SplitSlack)
    <2>1. /\ HeapType(r.heap) /\ r.seg = e /\ r.off = off
          /\ Segs(r.heap) = Segs(h)
      BY <1>0, <1>5, AlignReuseWhole
    <2> QED
      BY <1>1, <1>2, <1>3, <2>1 DEF Returned
  <1> QED
    BY <1>4, <1>5

\* heap_align_enlarge() cuts the last segment, or gives it any size.
LEMMA AlignReuseGranted ==
  ASSUME NEW h, HeapType(h), Tiled(h), Stale(h) = {}, h.end \notin h.used,
         NEW b \in Nat, NEW a \in Nat \ {0}, NEW r, r = AlignReuseEnd(h, b, a)
  PROVE  Granted(h, {}, r, b)
  <1> DEFINE e == h.end
             off == OffsetIn(e, a)
             n == e + off
             g == r.heap
  <1>0. e = h.end /\ off = OffsetIn(e, a) /\ n = e + off /\ g = r.heap
    OBVIOUS
  <1>1. e \in Nat /\ h.used \subseteq Segs(h) /\ e \in Segs(h)
        /\ Segs(h) \subseteq Nat \ {0}
        /\ h.next \in [Segs(h) -> Nat] /\ h.size \in [Segs(h) -> Nat]
    BY HeapElim
  <1>2. off \in Nat
    BY <1>1, OffsetAligns
  <1>3. h.next[e] = Null /\ \A t \in Segs(h) : t <= e
    BY EndIsTop
  <1> HIDE DEF e, off, n, g
  <1>4. CASE off >= HeaderSize + SplitSlack
    <2> DEFINE k == n - e - HeaderSize
    <2>1. /\ n \in Nat /\ e < n /\ k \in Nat /\ e + HeaderSize + k = n
      BY <1>0, <1>1, <1>2, <1>4, HeapOpsAssumption
    <2> HIDE DEF k
    <2>2. Cut(h, b, n, r)
      BY <1>0, <1>4, AlignReuseFields
    <2>3. /\ HeapType(g) /\ r.seg = n /\ r.off = 0
          /\ Segs(g) = Segs(h) \cup {n}
          /\ g.next = Write(Write(h.next, e, n), n, Null)
          /\ g.size = Write(Write(h.size, e, k), n, b)
          /\ g.used = h.used \cup {n}
      BY <1>0, <2>2 DEF Cut, k
    <2>4. n \notin Segs(h) /\ n # e
      BY <1>1, <1>3, <2>1
    <2>5. /\ g.next[e] = n /\ g.next[n] = Null
          /\ \A t \in Segs(h) \ {e, n} : g.next[t] = h.next[t]
      BY <1>1, <2>3, <2>4 DEF Write
    <2>6. /\ g.size[e] = k /\ g.size[n] = b
          /\ \A t \in Segs(h) \ {e, n} : g.size[t] = h.size[t]
      BY <1>1, <2>3, <2>4 DEF Write
    <2>7. SegEnd(g, e) = n
      BY <2>1, <2>6 DEF SegEnd
    <2>8. \A t \in Segs(h) \ {e, n} : SegEnd(g, t) = SegEnd(h, t)
      BY <2>6 DEF SegEnd
    <2>9. HeapType(g) /\ Segs(g) = Segs(h) \cup {n}
      BY <2>3
    <2>10. Tiled(g)
      BY <1>1, <1>3, <2>1, <2>5, <2>7, <2>8, <2>9, AppendTiled
    <2>11. \A t \in h.used : g.size[t] = h.size[t]
      BY <1>0, <1>1, <2>4, <2>6
    <2>12. n \in g.used \ h.used /\ h.used \subseteq g.used
      BY <1>1, <2>3, <2>4
    <2>13. g.size[n] >= 0 + b
      BY <2>6
    <2> QED
      BY <2>3, <2>10, <2>11, <2>12, <2>13 DEF Granted, g
  <1>5. CASE ~(off >= HeaderSize + SplitSlack)
    <2>1. HeapType(g) /\ r.seg = e /\ r.off = off /\ Segs(g) = Segs(h)
      BY <1>0, <1>5, AlignReuseWhole
    <2>2. g.next = h.next
      BY <1>0, <1>5, AlignReuseWhole
    <2>3. g.size = Write(h.size, e, b + off)
      BY <1>0, <1>5, AlignReuseWhole
    <2>4. g.used = h.used \cup {e}
      BY <1>0, <1>5, AlignReuseWhole
    <2>5. b + off \in Nat
      BY <1>2
    <2>6. \A t \in Segs(h) : g.next[t] = h.next[t]
      BY <2>2
    <2>7. Tiled(g)
      BY <1>0, <2>1, <2>3, <2>5, <2>6, ResizeTopTiled
    <2>8. g.size[e] = b + off /\ \A t \in h.used : g.size[t] = h.size[t]
      BY <1>0, <1>1, <2>3 DEF Write
    <2>9. g.size[e] >= off + b
      BY <1>2, <2>8
    <2>10. e \in g.used \ h.used /\ h.used \subseteq g.used
      BY <1>0, <2>4
    <2> QED
      BY <2>1, <2>7, <2>8, <2>9, <2>10 DEF Granted, g
  <1> QED
    BY <1>4, <1>5

\* align_alloc() returns a heap and a block at a multiple.
LEMMA AlignAllocReturned ==
  ASSUME NEW h, HeapType(h), NEW b \in Nat, NEW a \in Nat \ {0},
         NEW r \in AlignAlloc(h, b, a)
  PROVE  Returned(h, r, a)
  <1>1. CASE AlignFits(h, b, a) = {}
    <2>1. r = AlignEnlarge(h, b, a)
      BY <1>1 DEF AlignAlloc
    <2>2. r = AlignReuseEnd(h, b, a) \/ r = AlignExpand(h, b, a)
      BY <2>1 DEF AlignEnlarge
    <2> QED
      BY <2>2, AlignReuseReturned, AlignExpandReturned
  <1>2. CASE AlignFits(h, b, a) # {}
    <2>1. PICK s \in AlignFits(h, b, a) :
            r = Pad(Take(h, s, b + OffsetIn(s, a)), s, OffsetIn(s, a))
      BY <1>2 DEF AlignAlloc, Lowest
    <2> DEFINE off == OffsetIn(s, a)
               k == b + off
               m == Take(h, s, k)
    <2>2. s \in Segs(h) /\ s \in Nat
      BY HeapElim DEF AlignFits
    <2>3. off \in Nat /\ (s + off + HeaderSize) % a = 0
      BY <2>2, OffsetAligns
    <2>4. k \in Nat /\ r = Pad(m, s, off)
      BY <2>1, <2>3
    <2> HIDE DEF off, k
    <2>5. HeapType(m) /\ Segs(h) \subseteq Segs(m) /\ m.misused = h.misused
      BY <2>2, <2>4, TakeType
    <2> HIDE DEF m
    <2>6. s \in Segs(m)
      BY <2>2, <2>5
    <2>7. Starts(m, s, off, r)
      BY <2>3, <2>4, <2>5, <2>6, PadReturned
    <2>8. /\ HeapType(r.heap) /\ Segs(h) \subseteq Segs(r.heap)
          /\ r.seg \in Segs(r.heap) /\ r.off \in Nat
          /\ r.seg + r.off = s + off
          /\ h.misused \subseteq r.heap.misused
      BY <2>5, <2>7 DEF Starts
    <2> QED
      BY <2>3, <2>8 DEF Returned
  <1> QED
    BY <1>1, <1>2

\* align_alloc() grants what it is asked for if it misused no last segment.
LEMMA AlignAllocGranted ==
  ASSUME NEW h, HeapType(h), Tiled(h), NEW b \in Nat, NEW a \in Nat \ {0},
         NEW r \in AlignAlloc(h, b, a), InBounds(r.heap), r.heap.misused = {}
  PROVE  Granted(h, {}, r, b)
  <1>1. CASE AlignFits(h, b, a) = {}
    <2>1. r = AlignEnlarge(h, b, a)
      BY <1>1 DEF AlignAlloc
    <2>2. CASE h.end \notin h.used
      <3>1. r = AlignReuseEnd(h, b, a)
        BY <2>1, <2>2 DEF AlignEnlarge
      <3>2. Stale(h) = {}
        <4>1. r.heap.misused = h.misused \cup Stale(h)
          BY <3>1, AlignReuseReturned
        <4> QED
          BY <4>1
      <3> QED
        BY <2>2, <3>1, <3>2, AlignReuseGranted
    <2>3. CASE h.end \in h.used
      <3>1. r = AlignExpand(h, b, a)
        BY <2>1, <2>3 DEF AlignEnlarge
      <3>2. Stale(h) = {}
        <4>1. r.heap.misused = h.misused \cup Stale(h)
          BY <3>1, AlignExpandReturned
        <4> QED
          BY <4>1
      <3> QED
        BY <3>1, <3>2, AlignExpandGranted
    <2> QED
      BY <2>2, <2>3
  <1>2. CASE AlignFits(h, b, a) # {}
    <2>1. PICK s \in AlignFits(h, b, a) :
            r = Pad(Take(h, s, b + OffsetIn(s, a)), s, OffsetIn(s, a))
      BY <1>2 DEF AlignAlloc, Lowest
    <2> DEFINE off == OffsetIn(s, a)
               k == b + off
               m == Take(h, s, k)
               q == [heap |-> m, seg |-> s]
    <2>2. s \in Segs(h) /\ s \in Nat /\ s \in Segs(h) \ h.used
          /\ h.size[s] >= k
      BY HeapElim DEF AlignFits
    <2>3. off \in Nat
      BY <2>2, OffsetAligns
    <2>4. k \in Nat /\ k = b + off /\ r = Pad(m, s, off)
      BY <2>1, <2>3
    <2>5. q.heap = Take(h, s, k) /\ q.seg = s /\ m = Take(h, s, k)
      OBVIOUS
    <2> HIDE DEF off, k, m, q
    <2>6. Served(h, {}, q, k)
      BY <2>2, <2>4, <2>5, TakeServed
    <2>7. /\ HeapType(m) /\ Tiled(m) /\ m.used = h.used \cup {s}
          /\ m.size[s] >= k
          /\ \A t \in h.used : m.size[t] = h.size[t]
      BY <2>5, <2>6 DEF Served
    <2>8. s \in m.used /\ m.size[s] >= off + b
      BY <2>3, <2>4, <2>7
    <2>9. Granted(m, {s}, r, b) /\ s \in r.heap.used
      BY <2>3, <2>4, <2>7, <2>8, PadGranted
    <2>10. m.used \ {s} = h.used
      BY <2>2, <2>7
    <2> QED
      BY <2>7, <2>9, <2>10 DEF Granted
  <1> QED
    BY <1>1, <1>2

\* The old block is given up after the new one was granted.
LEMMA AbandonGranted ==
  ASSUME NEW h, HeapType(h), NEW s \in h.used, NEW b \in Nat, NEW c \in Nat,
         NEW q, HeapType(q.heap), Granted(h, {}, q, b + c), q.off \in Nat,
         NEW r, r.heap = Abandon(q.heap, s), r.seg = q.seg, r.off = q.off
  PROVE  Granted(h, {s}, r, b)
  <1>1. /\ HeapType(r.heap) /\ Segs(r.heap) = Segs(q.heap)
        /\ r.heap.next = q.heap.next /\ r.heap.size = q.heap.size
        /\ r.heap.used = q.heap.used \ {s}
    BY AbandonFields
  <1>2. /\ Tiled(q.heap) /\ h.used \subseteq q.heap.used
        /\ q.seg \in q.heap.used \ h.used
        /\ q.heap.size[q.seg] >= q.off + (b + c)
        /\ \A t \in h.used : q.heap.size[t] = h.size[t]
    BY DEF Granted
  <1>3. Tiled(r.heap)
    BY <1>1, <1>2 DEF Tiled, SegEnd
  <1>4. r.heap.size[r.seg] >= r.off + b
    <2> DEFINE z == q.heap.size[q.seg]
    <2>1. z \in Nat
      BY <1>2, HeapElim
    <2>2. z >= q.off + (b + c) /\ r.heap.size[r.seg] = z
      BY <1>1, <1>2
    <2> HIDE DEF z
    <2> QED
      BY <2>1, <2>2
  <1> QED
    BY <1>1, <1>2, <1>3, <1>4 DEF Granted

\* align_realloc() and align_realloca() on a segment that is too small.
LEMMA AlignMoveReturned ==
  ASSUME NEW h, HeapType(h), NEW s \in Segs(h), NEW off \in Nat,
         NEW a \in Nat \ {0}, (s + off + HeaderSize) % a = 0,
         NEW b \in Nat, NEW c \in Nat, NEW r \in AlignMove(h, s, off, a, b, c)
  PROVE  Returned(h, r, a)
  <1>1. CASE s = h.end
    <2> DEFINE k == b + off
    <2>1. r.heap = GrowEnd(h, k) /\ r.seg = s /\ r.off = off
      BY <1>1 DEF AlignMove
    <2>2. k \in Nat
      OBVIOUS
    <2> HIDE DEF k
    <2>3. HeapType(GrowEnd(h, k)) /\ Segs(GrowEnd(h, k)) = Segs(h)
      BY <2>2, GrowEndFields
    <2>4. GrowEnd(h, k).misused = h.misused \cup Stale(h)
      BY <2>2, GrowEndFields
    <2> QED
      BY <2>1, <2>3, <2>4 DEF Returned
  <1>2. CASE s # h.end
    <2>1. PICK q \in AlignAlloc(h, b + c, a) :
            r = [heap |-> Abandon(q.heap, s), seg |-> q.seg, off |-> q.off]
      BY <1>2 DEF AlignMove
    <2>2. b + c \in Nat
      OBVIOUS
    <2>3. Returned(h, q, a)
      BY <2>2, AlignAllocReturned
    <2>4. r.heap = Abandon(q.heap, s) /\ r.seg = q.seg /\ r.off = q.off
      BY <2>1
    <2>5. /\ HeapType(r.heap) /\ Segs(r.heap) = Segs(q.heap)
          /\ r.heap.misused = q.heap.misused
      BY <2>3, <2>4, AbandonFields DEF Returned
    <2> QED
      BY <2>3, <2>4, <2>5 DEF Returned
  <1> QED
    BY <1>1, <1>2

\* The same, if no last segment was misused.
LEMMA AlignMoveGranted ==
  ASSUME NEW h, HeapType(h), Tiled(h), NEW s \in h.used, NEW off \in Nat,
         NEW a \in Nat \ {0}, NEW b \in Nat, NEW c \in Nat,
         NEW r \in AlignMove(h, s, off, a, b, c),
         InBounds(r.heap), r.heap.misused = {}
  PROVE  Granted(h, {s}, r, b)
  <1>1. CASE s = h.end
    <2>1. r.heap = GrowEnd(h, b + off) /\ r.seg = s /\ r.off = off
      BY <1>1 DEF AlignMove
    <2> DEFINE k == b + off
               q == [heap |-> GrowEnd(h, k), seg |-> s]
    <2>2. k \in Nat /\ 0 \in Nat /\ k = b + off /\ k = off + b
      OBVIOUS
    <2>3. q.heap = r.heap /\ q.seg = r.seg /\ q \in Move(h, s, k, 0)
      BY <1>1, <2>1 DEF Move
    <2> HIDE DEF k, q
    <2>4. Served(h, {s}, q, k)
      BY <2>2, <2>3, MoveServed
    <2>5. /\ Tiled(r.heap) /\ r.heap.used = (h.used \ {s}) \cup {s}
          /\ r.heap.size[s] >= k
          /\ \A t \in h.used \ {s} : r.heap.size[t] = h.size[t]
      BY <2>1, <2>3, <2>4 DEF Served
    <2> QED
      BY <2>1, <2>2, <2>5 DEF Granted
  <1>2. CASE s # h.end
    <2>1. PICK q \in AlignAlloc(h, b + c, a) :
            r = [heap |-> Abandon(q.heap, s), seg |-> q.seg, off |-> q.off]
      BY <1>2 DEF AlignMove
    <2>2. b + c \in Nat
      OBVIOUS
    <2>3. Returned(h, q, a)
      BY <2>2, AlignAllocReturned
    <2>4. r.heap = Abandon(q.heap, s) /\ r.seg = q.seg /\ r.off = q.off
      BY <2>1
    <2>5. HeapType(q.heap) /\ q.off \in Nat
      BY <2>3 DEF Returned
    <2>6. /\ Segs(r.heap) = Segs(q.heap) /\ r.heap.size = q.heap.size
          /\ r.heap.misused = q.heap.misused
      BY <2>4, <2>5, AbandonFields
    <2>7. InBounds(q.heap) /\ q.heap.misused = {}
      BY <2>6 DEF InBounds, SegEnd
    <2>8. Granted(h, {}, q, b + c)
      BY <2>2, <2>7, AlignAllocGranted
    <2> QED
      BY <2>4, <2>5, <2>8, AbandonGranted
  <1> QED
    BY <1>1, <1>2

\* align_realloc() returns a heap and a block at a multiple.
LEMMA AlignReallocReturned ==
  ASSUME NEW h, HeapType(h), NEW s \in Segs(h), NEW off \in Nat,
         NEW a \in Nat \ {0}, (s + off + HeaderSize) % a = 0,
         NEW b \in Nat, NEW r \in AlignRealloc(h, s, off, a, b)
  PROVE  Returned(h, r, a)
  <1>1. CASE h.size[s] >= b + off
    <2> DEFINE k == b + off
    <2>1. r.heap = Divide(h, s, k) /\ r.seg = s /\ r.off = off
      BY <1>1 DEF AlignRealloc
    <2>2. k \in Nat
      OBVIOUS
    <2> HIDE DEF k
    <2>3. HeapType(Divide(h, s, k)) /\ Segs(h) \subseteq Segs(Divide(h, s, k))
      BY <2>2, DivideType
    <2>4. Divide(h, s, k).misused = h.misused
      BY <2>2, DivideType
    <2> QED
      BY <2>1, <2>3, <2>4 DEF Returned
  <1>2. CASE ~(h.size[s] >= b + off)
    <2>1. r \in AlignMove(h, s, off, a, b, 0)
      BY <1>2 DEF AlignRealloc
    <2>2. 0 \in Nat
      OBVIOUS
    <2> QED
      BY <2>1, <2>2, AlignMoveReturned
  <1> QED
    BY <1>1, <1>2

\* The same, if no last segment was misused.
LEMMA AlignReallocGranted ==
  ASSUME NEW h, HeapType(h), Tiled(h), NEW s \in h.used, NEW off \in Nat,
         NEW a \in Nat \ {0}, NEW b \in Nat,
         NEW r \in AlignRealloc(h, s, off, a, b),
         InBounds(r.heap), r.heap.misused = {}
  PROVE  Granted(h, {s}, r, b)
  <1>1. s \in Segs(h) /\ h.used \subseteq Segs(h)
    BY HeapElim
  <1>2. CASE h.size[s] >= b + off
    <2> DEFINE k == b + off
    <2>1. r.heap = Divide(h, s, k) /\ r.seg = s /\ r.off = off
      BY <1>2 DEF AlignRealloc
    <2>2. k \in Nat /\ k = off + b /\ h.size[s] >= k
      BY <1>2
    <2> HIDE DEF k
    <2>3. /\ Tiled(Divide(h, s, k)) /\ Divide(h, s, k).used = h.used
          /\ h.size[s] >= k => Divide(h, s, k).size[s] >= k
          /\ \A t \in Segs(h) \ {s} : Divide(h, s, k).size[t] = h.size[t]
      BY <1>1, <2>2, DivideTiled
    <2> QED
      BY <1>1, <2>1, <2>2, <2>3 DEF Granted
  <1>3. CASE ~(h.size[s] >= b + off)
    <2>1. r \in AlignMove(h, s, off, a, b, 0)
      BY <1>3 DEF AlignRealloc
    <2>2. 0 \in Nat
      OBVIOUS
    <2> QED
      BY <2>1, <2>2, AlignMoveGranted
  <1> QED
    BY <1>2, <1>3

\* align_realloca() returns a heap and a block at a multiple.
LEMMA AlignReallocaReturned ==
  ASSUME NEW h, HeapType(h), NEW s \in Segs(h), NEW off \in Nat,
         NEW a \in Nat \ {0}, (s + off + HeaderSize) % a = 0,
         NEW b \in Nat, NEW c \in Nat,
         NEW r \in AlignRealloca(h, s, off, a, b, c)
  PROVE  Returned(h, r, a)
  <1>1. CASE h.size[s] >= b + off
    BY <1>1 DEF AlignRealloca, Returned
  <1>2. CASE ~(h.size[s] >= b + off)
    <2>1. r \in AlignMove(h, s, off, a, b, c)
      BY <1>2 DEF AlignRealloca
    <2> QED
      BY <2>1, AlignMoveReturned
  <1> QED
    BY <1>1, <1>2

\* The same, if no last segment was misused.
LEMMA AlignReallocaGranted ==
  ASSUME NEW h, HeapType(h), Tiled(h), NEW s \in h.used, NEW off \in Nat,
         NEW a \in Nat \ {0}, NEW b \in Nat, NEW c \in Nat,
         NEW r \in AlignRealloca(h, s, off, a, b, c),
         InBounds(r.heap), r.heap.misused = {}
  PROVE  Granted(h, {s}, r, b)
  <1>1. CASE h.size[s] >= b + off
    <2>1. r.heap = h /\ r.seg = s /\ r.off = off
      BY <1>1 DEF AlignRealloca
    <2>2. h.size[s] >= off + b
      <3>1. b + off = off + b
        OBVIOUS
      <3> QED
        BY <1>1, <3>1
    <2> QED
      BY <2>1, <2>2 DEF Granted
  <1>2. CASE ~(h.size[s] >= b + off)
    <2>1. r \in AlignMove(h, s, off, a, b, c)
      BY <1>2 DEF AlignRealloca
    <2> QED
      BY <2>1, AlignMoveGranted
  <1> QED
    BY <1>1, <1>2

-----------------------------------------------------------------------------
(* The invariant of aligned and plain clients on one heap.                  *)

\* Plain clients start at the payload of their segment.
PlainAtPayload == \A c \in Plain : offset[c] = 0

\* The others start at a multiple of what they once asked for.
AtMultiples ==
  \A c \in Live \ Plain : align[c] \in Aligns /\ ptr[c] % align[c] = 0

\* The inductive invariant.
AlignedInv == AlignedTypeOK /\ PlainAtPayload /\ AtMultiples /\ AlignedIntact

\* The segment a call of c gives up.
Mine(c) == IF ptr[c] = Null THEN {} ELSE {Header(c)}

\* Client c holds the block of result r from now on, as aligned as it was asked
\* for, and was granted it unless a last segment was misused.
Gives(c, r, bytes) ==
  /\ HeapType(r.heap) /\ Segs(heap) \subseteq Segs(r.heap)
  /\ r.seg \in Segs(r.heap) /\ r.off \in Nat
  /\ heap.misused \subseteq r.heap.misused
  /\ heap' = r.heap
  /\ ptr' = [ptr EXCEPT ![c] = r.seg + r.off + HeaderSize]
  /\ want' = [want EXCEPT ![c] = bytes]
  /\ offset' = [offset EXCEPT ![c] = r.off]
  /\ c \in Plain => r.off = 0 /\ align' = align
  /\ c \notin Plain =>
       \E a \in Aligns : /\ align' = [align EXCEPT ![c] = a]
                         /\ (r.seg + r.off + HeaderSize) % a = 0
  /\ r.heap.misused = {} => Granted(heap, Mine(c), r, bytes)

\* What the types of the aligned heap and its clients say.
LEMMA AlignedTypes ==
  ASSUME AlignedTypeOK
  PROVE  /\ HeapType(heap)
         /\ ptr \in [Clients -> Nat] /\ want \in [Clients -> Nat]
         /\ offset \in [Clients -> Nat] /\ align \in [Clients -> Nat]
         /\ \A c \in Clients : ptr[c] # Null =>
              Header(c) \in Segs(heap) /\ Header(c) \in Nat
  <1>1. /\ ptr \in [Clients -> Nat] /\ want \in [Clients -> Nat]
        /\ offset \in [Clients -> Nat] /\ align \in [Clients -> Nat]
    BY DEF AlignedTypeOK
  <1>2. HeapType(heap) /\ \A c \in Clients : ptr[c] # Null => Header(c) \in Segs(heap)
    BY DEF AlignedTypeOK, Live
  <1>3. Segs(heap) \subseteq Nat
    BY <1>2, HeapElim
  <1> QED
    BY <1>1, <1>2, <1>3

\* What a client owns, before the first misuse.
LEMMA MineUsed ==
  ASSUME AlignedInv, heap.misused = {}, NEW c \in Clients, ptr[c] # Null
  PROVE  /\ Tiled(heap) /\ Header(c) \in heap.used
         /\ Mine(c) = {Header(c)}
  BY DEF AlignedInv, AlignedIntact, Live, Mine

\* alloc(), realloc() and realloca() of a plain client give it a block.
LEMMA PlainGives ==
  ASSUME AlignedInv, heap.misused = {}, NEW c \in Plain,
         AllocBy(c) \/ ReallocBy(c) \/ ReallocaBy(c), UNCHANGED aptrs
  PROVE  \E bytes \in Sizes : \E r : Gives(c, r, bytes)
  <1>1. /\ HeapType(heap) /\ ptr \in [Clients -> Nat]
        /\ offset \in [Clients -> Nat]
        /\ ptr[c] # Null => Header(c) \in Segs(heap)
        /\ c \in Clients /\ offset[c] = 0
    BY AlignedTypes, AlignedAssumption DEF AlignedInv, PlainAtPayload
  <1>2. Seg(c) = Header(c)
    BY <1>1, HeapOpsAssumption DEF Seg, Header
  <1>3. Tiled(heap)
    BY DEF AlignedInv, AlignedIntact
  <1>4. ASSUME NEW bytes \in Sizes, NEW q, HeapType(q.heap),
               Segs(heap) \subseteq Segs(q.heap), q.seg \in Segs(q.heap),
               heap.misused \subseteq q.heap.misused,
               q.heap.misused = {} => Served(heap, Mine(c), q, bytes),
               Receive(c, q, bytes)
        PROVE  \E r : Gives(c, r, bytes)
    <2> DEFINE r == [heap |-> q.heap, seg |-> q.seg, off |-> 0]
    <2>1. r.heap = q.heap /\ r.seg = q.seg /\ r.off = 0
      OBVIOUS
    <2> HIDE DEF r
    <2>2. r.seg \in Nat
      BY <1>4, <2>1, HeapElim
    <2>3. r.seg + r.off + HeaderSize = q.seg + HeaderSize
      BY <2>1, <2>2, HeapOpsAssumption
    <2>4. heap' = r.heap /\ want' = [want EXCEPT ![c] = bytes]
      BY <1>4, <2>1 DEF Receive
    <2>5. ptr' = [ptr EXCEPT ![c] = r.seg + r.off + HeaderSize]
      BY <1>4, <2>3 DEF Receive
    <2>6. offset' = [offset EXCEPT ![c] = r.off] /\ align' = align
      BY <1>1, <2>1 DEF aptrs
    <2>7. r.heap.misused = {} => Granted(heap, Mine(c), r, bytes)
      <3> SUFFICES ASSUME r.heap.misused = {}
                   PROVE  Granted(heap, Mine(c), r, bytes)
        OBVIOUS
      <3> DEFINE old == Mine(c)
                 z == q.heap.size[q.seg]
      <3> HIDE DEF old, z
      <3>1. Served(heap, old, q, bytes)
        BY <1>4, <2>1 DEF old
      <3>2. /\ Tiled(q.heap) /\ q.seg \notin heap.used \ old
            /\ q.heap.used = (heap.used \ old) \cup {q.seg} /\ z >= bytes
            /\ \A t \in heap.used \ old : q.heap.size[t] = heap.size[t]
        BY <3>1 DEF Served, z
      <3>3. z \in Nat /\ bytes \in Nat
        BY <1>4, HeapElim, HeapAssumption DEF z
      <3>4. q.heap.size[q.seg] >= 0 + bytes
        BY <3>2, <3>3 DEF z
      <3>5. Granted(heap, old, r, bytes)
        BY <2>1, <3>2, <3>4 DEF Granted
      <3> QED
        BY <3>5 DEF old
    <2>8. HeapType(r.heap) /\ Segs(heap) \subseteq Segs(r.heap)
          /\ r.seg \in Segs(r.heap) /\ r.off \in Nat
          /\ heap.misused \subseteq r.heap.misused
      BY <1>4, <2>1
    <2>9. Gives(c, r, bytes)
      BY <2>1, <2>4, <2>5, <2>6, <2>7, <2>8 DEF Gives
    <2> QED
      BY <2>9
  <1>5. CASE AllocBy(c)
    <2>1. Mine(c) = {}
      BY <1>5 DEF AllocBy, Mine
    <2>2. PICK bytes \in Sizes : \E r \in Alloc(heap, bytes) : Receive(c, r, bytes)
      BY <1>5 DEF AllocBy
    <2>3. PICK r \in Alloc(heap, bytes) : Receive(c, r, bytes)
      BY <2>2
    <2>4. bytes \in Nat
      BY HeapAssumption
    <2>5. /\ HeapType(r.heap) /\ Segs(heap) \subseteq Segs(r.heap)
          /\ r.seg \in Segs(r.heap) /\ heap.misused \subseteq r.heap.misused
      BY <1>1, <2>4, AllocType
    <2>6. r.heap.misused = {} => Served(heap, Mine(c), r, bytes)
      BY <1>1, <1>3, <2>1, <2>4, AllocServed
    <2> QED
      BY <1>4, <2>3, <2>5, <2>6
  <1>6. CASE ReallocBy(c)
    <2> DEFINE s == Header(c)
    <2>1. Mine(c) = {s} /\ s \in heap.used /\ s \in Segs(heap) /\ Seg(c) = s
      BY <1>1, <1>2, <1>6, MineUsed DEF ReallocBy
    <2> HIDE DEF s
    <2>2. PICK bytes \in Sizes :
            \E r \in Realloc(heap, s, bytes) : Receive(c, r, bytes)
      BY <1>6, <2>1 DEF ReallocBy
    <2>3. PICK r \in Realloc(heap, s, bytes) : Receive(c, r, bytes)
      BY <2>2
    <2>4. bytes \in Nat
      BY HeapAssumption
    <2>5. /\ HeapType(r.heap) /\ Segs(heap) \subseteq Segs(r.heap)
          /\ r.seg \in Segs(r.heap) /\ heap.misused \subseteq r.heap.misused
      BY <1>1, <2>1, <2>4, ReallocType
    <2>6. r.heap.misused = {} => Served(heap, Mine(c), r, bytes)
      BY <1>1, <1>3, <2>1, <2>4, ReallocServed
    <2> QED
      BY <1>4, <2>3, <2>5, <2>6
  <1>7. CASE ReallocaBy(c)
    <2> DEFINE s == Header(c)
    <2>1. Mine(c) = {s} /\ s \in heap.used /\ s \in Segs(heap) /\ Seg(c) = s
      BY <1>1, <1>2, <1>7, MineUsed DEF ReallocaBy
    <2> HIDE DEF s
    <2>2. PICK bytes \in Sizes, add \in Adds :
            \E r \in Realloca(heap, s, bytes, add) : Receive(c, r, bytes)
      BY <1>7, <2>1 DEF ReallocaBy
    <2>3. PICK r \in Realloca(heap, s, bytes, add) : Receive(c, r, bytes)
      BY <2>2
    <2>4. bytes \in Nat /\ add \in Nat
      BY HeapAssumption
    <2>5. /\ HeapType(r.heap) /\ Segs(heap) \subseteq Segs(r.heap)
          /\ r.seg \in Segs(r.heap) /\ heap.misused \subseteq r.heap.misused
      BY <1>1, <2>1, <2>4, ReallocaType
    <2>6. r.heap.misused = {} => Served(heap, Mine(c), r, bytes)
      BY <1>1, <1>3, <2>1, <2>4, ReallocaServed
    <2> QED
      BY <1>4, <2>3, <2>5, <2>6
  <1> QED
    BY <1>5, <1>6, <1>7

\* align_alloc(), align_realloc() and align_realloca() give an aligned_ptr a
\* block.
LEMMA AlignedGives ==
  ASSUME AlignedInv, heap.misused = {}, NEW c \in Clients \ Plain,
         AptrAlloc(c) \/ AptrRealloc(c) \/ AptrRealloca(c)
  PROVE  \E bytes \in Sizes : \E r : Gives(c, r, bytes)
  <1>1. /\ HeapType(heap) /\ ptr \in [Clients -> Nat]
        /\ offset \in [Clients -> Nat]
        /\ ptr[c] # Null => Header(c) \in Segs(heap) /\ Header(c) \in Nat
    BY AlignedTypes DEF AlignedInv
  <1>2. Tiled(heap)
    BY DEF AlignedInv, AlignedIntact
  <1>3. ASSUME NEW bytes \in Sizes, NEW a \in Aligns, NEW r, Returned(heap, r, a),
               r.heap.misused = {} /\ InBounds(r.heap) =>
                 Granted(heap, Mine(c), r, bytes),
               ReceiveAligned(c, r, a, bytes)
        PROVE  Gives(c, r, bytes)
    <2>1. r.seg \in Nat /\ r.off \in Nat
      BY <1>3, HeapElim DEF Returned
    <2>2. InBounds(r.heap) /\ heap' = r.heap /\ want' = [want EXCEPT ![c] = bytes]
      BY <1>3 DEF ReceiveAligned, Receive
    <2>3. ptr' = [ptr EXCEPT ![c] = r.seg + r.off + HeaderSize]
      BY <1>3 DEF ReceiveAligned, Receive
    <2>4. /\ offset' = [offset EXCEPT ![c] = r.off]
          /\ align' = [align EXCEPT ![c] = a]
      BY <1>3 DEF ReceiveAligned
    <2>5. /\ HeapType(r.heap) /\ Segs(heap) \subseteq Segs(r.heap)
          /\ r.seg \in Segs(r.heap) /\ r.off \in Nat
          /\ heap.misused \subseteq r.heap.misused
          /\ (r.seg + r.off + HeaderSize) % a = 0
      BY <1>3 DEF Returned
    <2>6. r.heap.misused = {} => Granted(heap, Mine(c), r, bytes)
      BY <1>3, <2>2
    <2> QED
      BY <2>2, <2>3, <2>4, <2>5, <2>6 DEF Gives
  <1>4. CASE AptrAlloc(c)
    <2>1. Mine(c) = {}
      BY <1>4 DEF AptrAlloc, Mine
    <2>2. PICK a \in Aligns, bytes \in Sizes :
            \E r \in AlignAlloc(heap, bytes, a) : ReceiveAligned(c, r, a, bytes)
      BY <1>4 DEF AptrAlloc
    <2>3. PICK r \in AlignAlloc(heap, bytes, a) : ReceiveAligned(c, r, a, bytes)
      BY <2>2
    <2>4. bytes \in Nat /\ a \in Nat \ {0}
      BY HeapAssumption, AlignedAssumption
    <2>5. Returned(heap, r, a)
      BY <1>1, <2>4, AlignAllocReturned
    <2>6. r.heap.misused = {} /\ InBounds(r.heap) =>
            Granted(heap, Mine(c), r, bytes)
      BY <1>1, <1>2, <2>1, <2>4, AlignAllocGranted
    <2> QED
      BY <1>3, <2>3, <2>5, <2>6
  <1>5. ASSUME ptr[c] # Null
        PROVE  /\ Mine(c) = {Header(c)} /\ Header(c) \in heap.used
               /\ Header(c) \in Segs(heap) /\ offset[c] \in Nat
               /\ align[c] \in Aligns /\ align[c] \in Nat \ {0}
               /\ (Header(c) + offset[c] + HeaderSize) % align[c] = 0
    <2>1. align[c] \in Aligns /\ ptr[c] % align[c] = 0
      BY <1>5 DEF AlignedInv, AtMultiples, Live
    <2>2. Header(c) + offset[c] + HeaderSize = ptr[c]
      BY <1>1, HeapOpsAssumption DEF Header
    <2> QED
      BY <1>1, <1>5, <2>1, <2>2, MineUsed, AlignedAssumption
  <1>6. CASE AptrRealloc(c)
    <2> DEFINE s == Header(c)
               off == offset[c]
               a == align[c]
    <2>1. /\ Mine(c) = {s} /\ s \in heap.used /\ s \in Segs(heap)
          /\ off \in Nat /\ a \in Aligns /\ a \in Nat \ {0}
          /\ (s + off + HeaderSize) % a = 0
      BY <1>5, <1>6 DEF AptrRealloc
    <2>2. PICK bytes \in Sizes :
            \E r \in AlignRealloc(heap, s, off, a, bytes) :
              ReceiveAligned(c, r, a, bytes)
      BY <1>6 DEF AptrRealloc
    <2> HIDE DEF s, off, a
    <2>3. PICK r \in AlignRealloc(heap, s, off, a, bytes) :
            ReceiveAligned(c, r, a, bytes)
      BY <2>2
    <2>4. bytes \in Nat
      BY HeapAssumption
    <2>5. Returned(heap, r, a)
      BY <1>1, <2>1, <2>4, AlignReallocReturned
    <2>6. r.heap.misused = {} /\ InBounds(r.heap) =>
            Granted(heap, Mine(c), r, bytes)
      BY <1>1, <1>2, <2>1, <2>4, AlignReallocGranted
    <2> QED
      BY <1>3, <2>1, <2>3, <2>5, <2>6
  <1>7. CASE AptrRealloca(c)
    <2> DEFINE s == Header(c)
               off == offset[c]
               a == align[c]
    <2>1. /\ Mine(c) = {s} /\ s \in heap.used /\ s \in Segs(heap)
          /\ off \in Nat /\ a \in Aligns /\ a \in Nat \ {0}
          /\ (s + off + HeaderSize) % a = 0
      BY <1>5, <1>7 DEF AptrRealloca
    <2>2. PICK bytes \in Sizes, add \in Adds :
            \E r \in AlignRealloca(heap, s, off, a, bytes, add) :
              ReceiveAligned(c, r, a, bytes)
      BY <1>7 DEF AptrRealloca
    <2> HIDE DEF s, off, a
    <2>3. PICK r \in AlignRealloca(heap, s, off, a, bytes, add) :
            ReceiveAligned(c, r, a, bytes)
      BY <2>2
    <2>4. bytes \in Nat /\ add \in Nat
      BY HeapAssumption
    <2>5. Returned(heap, r, a)
      BY <1>1, <2>1, <2>4, AlignReallocaReturned
    <2>6. r.heap.misused = {} /\ InBounds(r.heap) =>
            Granted(heap, Mine(c), r, bytes)
      BY <1>1, <1>2, <2>1, <2>4, AlignReallocaGranted
    <2> QED
      BY <1>3, <2>1, <2>3, <2>5, <2>6
  <1> QED
    BY <1>4, <1>6, <1>7

\* A client that was given a block owns it, and nobody else lost anything.
LEMMA GivesKeeps ==
  ASSUME AlignedInv, heap.misused = {}, NEW c \in Clients, NEW bytes \in Nat,
         NEW r, Gives(c, r, bytes)
  PROVE  AlignedInv'
  <1>1. /\ HeapType(heap)
        /\ ptr \in [Clients -> Nat] /\ want \in [Clients -> Nat]
        /\ offset \in [Clients -> Nat] /\ align \in [Clients -> Nat]
        /\ \A d \in Clients : ptr[d] # Null =>
             Header(d) \in Segs(heap) /\ Header(d) \in Nat
    BY AlignedTypes DEF AlignedInv
  <1>2. /\ HeapType(r.heap) /\ Segs(heap) \subseteq Segs(r.heap)
        /\ r.seg \in Segs(r.heap) /\ r.off \in Nat /\ heap' = r.heap
    BY DEF Gives
  <1>3. r.seg \in Nat \ {0} /\ r.heap.size \in [Segs(r.heap) -> Nat]
    BY <1>2, HeapElim
  <1> DEFINE p == r.seg + r.off + HeaderSize
  <1>4. p \in Nat \ {0} /\ p - HeaderSize - r.off = r.seg
    BY <1>2, <1>3, HeapOpsAssumption
  <1>5. /\ ptr' = [ptr EXCEPT ![c] = p] /\ want' = [want EXCEPT ![c] = bytes]
        /\ offset' = [offset EXCEPT ![c] = r.off]
    BY DEF Gives
  <1> HIDE DEF p
  <1>6. /\ ptr' \in [Clients -> Nat] /\ want' \in [Clients -> Nat]
        /\ offset' \in [Clients -> Nat]
        /\ ptr'[c] = p /\ want'[c] = bytes /\ offset'[c] = r.off
        /\ \A d \in Clients \ {c} : /\ ptr'[d] = ptr[d] /\ want'[d] = want[d]
                                    /\ offset'[d] = offset[d]
    BY <1>1, <1>2, <1>4, <1>5
  <1>7. /\ align' \in [Clients -> Nat]
        /\ \A d \in Clients \ {c} : align'[d] = align[d]
        /\ c \notin Plain => align'[c] \in Aligns /\ p % align'[c] = 0
    <2>1. CASE c \in Plain
      BY <1>1, <2>1 DEF Gives
    <2>2. CASE c \notin Plain
      <3>1. PICK a \in Aligns : /\ align' = [align EXCEPT ![c] = a]
                                /\ p % a = 0
        BY <2>2 DEF Gives, p
      <3> QED
        BY <1>1, <3>1, AlignedAssumption
    <2> QED
      BY <2>1, <2>2
  <1> DEFINE head(d) == ptr'[d] - HeaderSize - offset'[d]
  <1>8. head(c) = r.seg /\ \A d \in Clients \ {c} : head(d) = Header(d)
    BY <1>4, <1>6 DEF Header
  <1>9. \A d \in Clients : Header(d)' = head(d)
    BY DEF Header
  <1> HIDE DEF head
  <1>10. \A d \in Clients : ptr'[d] # Null => head(d) \in Segs(r.heap)
    BY <1>1, <1>2, <1>6, <1>8
  <1>11. AlignedTypeOK'
    BY <1>2, <1>6, <1>7, <1>9, <1>10 DEF AlignedTypeOK, Live
  <1>12. PlainAtPayload'
    <2>1. c \in Plain => offset'[c] = 0
      BY <1>6 DEF Gives
    <2> QED
      BY <1>6, <2>1, AlignedAssumption DEF AlignedInv, PlainAtPayload
  <1>13. AtMultiples'
    BY <1>6, <1>7 DEF AlignedInv, AtMultiples, Live
  <1>14. AlignedIntact'
    <2> SUFFICES ASSUME r.heap.misused = {} PROVE AlignedIntact'
      BY <1>2 DEF AlignedIntact
    <2> DEFINE old == Mine(c)
    <2>1. Granted(heap, old, r, bytes)
      BY DEF Gives
    <2>2. ASSUME NEW d \in Clients \ {c}, ptr[d] # Null
          PROVE  /\ Header(d) \in heap.used \ old
                 /\ offset[d] + want[d] <= heap.size[Header(d)]
      <3>1. /\ Header(d) \in heap.used
            /\ offset[d] + want[d] <= heap.size[Header(d)]
        BY <2>2 DEF AlignedInv, AlignedIntact, Live
      <3>2. ptr[c] # Null => Header(d) # Header(c)
        BY <2>2 DEF AlignedInv, AlignedIntact, Live
      <3> QED
        BY <3>1, <3>2 DEF Mine
    <2> HIDE DEF old
    <2>3. /\ Tiled(r.heap) /\ heap.used \ old \subseteq r.heap.used
          /\ r.seg \in r.heap.used \ (heap.used \ old)
          /\ r.heap.size[r.seg] >= r.off + bytes
          /\ \A t \in heap.used \ old : r.heap.size[t] = heap.size[t]
      BY <2>1 DEF Granted
    <2>4. r.off + bytes <= r.heap.size[r.seg]
      <3> DEFINE z == r.heap.size[r.seg]
      <3>1. z \in Nat /\ z >= r.off + bytes
        BY <1>2, <1>3, <2>3
      <3> HIDE DEF z
      <3>2. r.off + bytes <= z
        BY <1>2, <3>1
      <3> QED
        BY <3>2 DEF z
    <2>5. ASSUME NEW d \in Clients, ptr'[d] # Null
          PROVE  /\ head(d) \in r.heap.used
                 /\ offset'[d] + want'[d] <= r.heap.size[head(d)]
      <3>1. CASE d = c
        BY <1>6, <1>8, <2>3, <2>4, <3>1
      <3>2. CASE d # c
        BY <1>6, <1>8, <2>2, <2>3, <2>5, <3>2
      <3> QED
        BY <3>1, <3>2
    <2>6. ASSUME NEW d \in Clients, NEW e \in Clients, ptr'[d] # Null,
                 ptr'[e] # Null, head(d) = head(e)
          PROVE  d = e
      <3>1. ASSUME NEW x \in Clients \ {c}, ptr'[x] # Null
            PROVE  head(x) # head(c)
        BY <1>6, <1>8, <2>2, <2>3, <3>1
      <3>2. CASE d = c \/ e = c
        BY <2>6, <3>1, <3>2
      <3>3. CASE d # c /\ e # c
        BY <1>6, <1>8, <2>6, <3>3 DEF AlignedInv, AlignedIntact, Live
      <3> QED
        BY <3>2, <3>3
    <2> QED
      BY <1>2, <1>9, <2>3, <2>5, <2>6 DEF AlignedIntact, Live
  <1> QED
    BY <1>11, <1>12, <1>13, <1>14 DEF AlignedInv

\* Client c gives its block back.
Returns(c) ==
  /\ ptr[c] # Null
  /\ heap' = Free(heap, Header(c))
  /\ ptr' = [ptr EXCEPT ![c] = Null]
  /\ want' = [want EXCEPT ![c] = 0]
  /\ offset' = [offset EXCEPT ![c] = 0]
  /\ align' \in [Clients -> Nat]
  /\ \A d \in Clients \ {c} : align'[d] = align[d]

\* free() and align_free() do that.
LEMMA FreeReturns ==
  ASSUME AlignedInv, NEW c \in Clients,
         \/ c \in Plain /\ FreeBy(c) /\ UNCHANGED aptrs
         \/ c \notin Plain /\ AptrFree(c)
  PROVE  Returns(c)
  <1>1. /\ ptr \in [Clients -> Nat]
        /\ offset \in [Clients -> Nat] /\ align \in [Clients -> Nat]
    BY AlignedTypes DEF AlignedInv
  <1>2. CASE c \in Plain /\ FreeBy(c) /\ UNCHANGED aptrs
    <2>1. offset[c] = 0
      BY <1>2 DEF AlignedInv, PlainAtPayload
    <2>2. Seg(c) = Header(c)
      BY <1>1, <2>1, HeapOpsAssumption DEF Seg, Header
    <2> QED
      BY <1>1, <1>2, <2>1, <2>2 DEF FreeBy, aptrs, Returns
  <1>3. CASE c \notin Plain /\ AptrFree(c)
    BY <1>1, <1>3 DEF AptrFree, Returns
  <1> QED
    BY <1>2, <1>3

\* A block given back leaves all others to their owners.
LEMMA ReturnsKeeps ==
  ASSUME AlignedInv, NEW c \in Clients, Returns(c)
  PROVE  AlignedInv'
  <1>1. /\ HeapType(heap)
        /\ ptr \in [Clients -> Nat] /\ want \in [Clients -> Nat]
        /\ offset \in [Clients -> Nat] /\ align \in [Clients -> Nat]
        /\ \A d \in Clients : ptr[d] # Null => Header(d) \in Segs(heap)
    BY AlignedTypes DEF AlignedInv
  <1> DEFINE s == Header(c)
  <1>2. s \in Segs(heap) /\ heap' = Free(heap, s)
    BY <1>1 DEF Returns
  <1> HIDE DEF s
  <1>3. /\ HeapType(heap') /\ Segs(heap') = Segs(heap)
        /\ heap'.next = heap.next /\ heap'.size = heap.size
        /\ heap'.used = heap.used \ {s} /\ heap'.misused = heap.misused
    BY <1>1, <1>2, FreeFields
  <1>4. /\ ptr' \in [Clients -> Nat] /\ want' \in [Clients -> Nat]
        /\ offset' \in [Clients -> Nat] /\ align' \in [Clients -> Nat]
        /\ ptr'[c] = Null /\ offset'[c] = 0
        /\ \A d \in Clients \ {c} :
             /\ ptr'[d] = ptr[d] /\ want'[d] = want[d]
             /\ offset'[d] = offset[d] /\ align'[d] = align[d]
    BY <1>1 DEF Returns, Null
  <1> DEFINE head(d) == ptr'[d] - HeaderSize - offset'[d]
  <1>5. \A d \in Clients \ {c} : head(d) = Header(d)
    BY <1>4 DEF Header
  <1>6. \A d \in Clients : Header(d)' = head(d)
    BY DEF Header
  <1> HIDE DEF head
  <1>7. \A d \in Clients : ptr'[d] # Null => d # c /\ ptr[d] # Null
    BY <1>4
  <1>8. AlignedTypeOK'
    <2>1. \A d \in Clients : ptr'[d] # Null => head(d) \in Segs(heap')
      BY <1>1, <1>3, <1>5, <1>7
    <2> QED
      BY <1>3, <1>4, <1>6, <2>1 DEF AlignedTypeOK, Live
  <1>9. PlainAtPayload'
    BY <1>4, AlignedAssumption DEF AlignedInv, PlainAtPayload
  <1>10. AtMultiples'
    BY <1>4 DEF AlignedInv, AtMultiples, Live
  <1>11. AlignedIntact'
    <2> SUFFICES ASSUME heap.misused = {} PROVE AlignedIntact'
      BY <1>3 DEF AlignedIntact
    <2>1. /\ Tiled(heap)
          /\ \A d \in Clients : ptr[d] # Null =>
               /\ Header(d) \in heap.used
               /\ offset[d] + want[d] <= heap.size[Header(d)]
          /\ \A d, e \in Clients :
               ptr[d] # Null /\ ptr[e] # Null /\ Header(d) = Header(e) => d = e
      BY DEF AlignedInv, AlignedIntact, Live
    <2>2. Tiled(heap')
      BY <1>3, <2>1 DEF Tiled, SegEnd
    <2>3. ASSUME NEW d \in Clients, ptr'[d] # Null
          PROVE  /\ head(d) \in heap'.used
                 /\ offset'[d] + want'[d] <= heap'.size[head(d)]
      <3>1. Header(d) # s
        <4>1. ptr[c] # Null
          BY DEF Returns
        <4> QED
          BY <1>7, <2>1, <2>3, <4>1 DEF s
      <3> QED
        BY <1>3, <1>4, <1>5, <1>7, <2>1, <2>3, <3>1
    <2>4. \A d, e \in Clients :
            ptr'[d] # Null /\ ptr'[e] # Null /\ head(d) = head(e) => d = e
      BY <1>5, <1>7, <2>1
    <2> QED
      BY <1>6, <2>2, <2>3, <2>4 DEF AlignedIntact, Live
  <1> QED
    BY <1>8, <1>9, <1>10, <1>11 DEF AlignedInv

\* What a step is: a block given, a block given back, or nothing.
LEMMA AlignedSteps ==
  ASSUME AlignedInv, [AlignedNext]_allVars
  PROVE  \/ /\ heap.misused = {}
            /\ \/ \E c \in Clients : \E bytes \in Sizes : \E r : Gives(c, r, bytes)
               \/ \E c \in Clients : Returns(c)
         \/ UNCHANGED allVars
  <1>1. ASSUME heap.misused = {}, NEW c \in Plain, Call(c), UNCHANGED aptrs
        PROVE  \/ \E bytes \in Sizes : \E r : Gives(c, r, bytes)
               \/ Returns(c)
    <2>1. c \in Clients
      BY AlignedAssumption
    <2>2. CASE FreeBy(c)
      BY <1>1, <2>1, <2>2, FreeReturns
    <2>3. CASE AllocBy(c) \/ ReallocBy(c) \/ ReallocaBy(c)
      BY <1>1, <2>3, PlainGives
    <2> QED
      BY <1>1, <2>2, <2>3 DEF Call
  <1>2. ASSUME heap.misused = {}, NEW c \in Clients \ Plain,
               AptrAlloc(c) \/ AptrRealloc(c) \/ AptrRealloca(c) \/ AptrFree(c)
        PROVE  \/ \E bytes \in Sizes : \E r : Gives(c, r, bytes)
               \/ Returns(c)
    <2>1. CASE AptrFree(c)
      BY <1>2, <2>1, FreeReturns
    <2>2. CASE AptrAlloc(c) \/ AptrRealloc(c) \/ AptrRealloca(c)
      BY <1>2, <2>2, AlignedGives
    <2> QED
      BY <1>2, <2>1, <2>2
  <1> QED
    BY <1>1, <1>2, AlignedAssumption DEF AlignedNext, Ended

\* Nobody moved, nothing changed.
LEMMA StutterKeeps ==
  ASSUME AlignedInv, UNCHANGED allVars
  PROVE  AlignedInv'
  <1>1. /\ heap' = heap /\ ptr' = ptr /\ want' = want /\ offset' = offset
        /\ align' = align
    BY DEF allVars
  <1>2. AlignedTypeOK'
    BY <1>1 DEF AlignedInv, AlignedTypeOK, Live, Header
  <1>3. PlainAtPayload' /\ AtMultiples'
    BY <1>1 DEF AlignedInv, PlainAtPayload, AtMultiples, Live
  <1>4. AlignedIntact'
    BY <1>1 DEF AlignedInv, AlignedIntact, Live, Header
  <1> QED
    BY <1>2, <1>3, <1>4 DEF AlignedInv

\* The heap is created tiled, and nobody has a block.
LEMMA AlignedStarts == AlignedInit => AlignedInv
  <1> SUFFICES ASSUME AlignedInit PROVE AlignedInv
    OBVIOUS
  <1>1. /\ heap.next = [s \in {HeapStart} |-> Null]
        /\ heap.size = [s \in {HeapStart} |-> InitialBlock]
        /\ heap.used = {} /\ heap.end = HeapStart
        /\ heap.usedUntil = HeapStart /\ heap.misused = {}
        /\ heap = [next |-> heap.next, size |-> heap.size,
                   used |-> heap.used, end |-> heap.end,
                   usedUntil |-> heap.usedUntil, misused |-> heap.misused]
    BY DEF AlignedInit, Init, InitialHeap
  <1>2. Segs(heap) = {HeapStart} /\ heap.next[HeapStart] = Null
    BY <1>1 DEF Segs
  <1>3. HeapType(heap)
    BY <1>1, <1>2, HeapOpsAssumption DEF HeapType, Null
  <1>4. Tiled(heap)
    BY <1>2, HeapOpsAssumption DEF Tiled
  <1>5. /\ ptr \in [Clients -> Nat] /\ want \in [Clients -> Nat]
        /\ offset \in [Clients -> Nat] /\ align \in [Clients -> Nat]
        /\ \A c \in Clients : ptr[c] = Null /\ offset[c] = 0
    BY DEF AlignedInit, Init, Null
  <1>6. Live = {}
    BY <1>5 DEF Live
  <1>7. AlignedTypeOK
    BY <1>3, <1>5, <1>6 DEF AlignedTypeOK
  <1>8. PlainAtPayload
    BY <1>5, AlignedAssumption DEF PlainAtPayload
  <1>9. AtMultiples /\ AlignedIntact
    BY <1>4, <1>6 DEF AtMultiples, AlignedIntact
  <1> QED
    BY <1>7, <1>8, <1>9 DEF AlignedInv

\* The inductive invariant holds in every reachable state.
LEMMA AlignedInvariant == AlignedSpec => []AlignedInv
  <1>1. AlignedInv /\ [AlignedNext]_allVars => AlignedInv'
    <2> SUFFICES ASSUME AlignedInv, [AlignedNext]_allVars PROVE AlignedInv'
      OBVIOUS
    <2>1. ASSUME heap.misused = {}, NEW c \in Clients, NEW bytes \in Sizes,
                 NEW r, Gives(c, r, bytes)
          PROVE  AlignedInv'
      <3>1. bytes \in Nat
        BY HeapAssumption
      <3> QED
        BY <2>1, <3>1, GivesKeeps
    <2>2. ASSUME NEW c \in Clients, Returns(c)
          PROVE  AlignedInv'
      BY <2>2, ReturnsKeeps
    <2>3. CASE UNCHANGED allVars
      BY <2>3, StutterKeeps
    <2> QED
      BY <2>1, <2>2, <2>3, AlignedSteps
  <1> QED
    BY <1>1, AlignedStarts, PTL DEF AlignedSpec

\* However often an aligned block is resized, moved or grown in place, by
\* align_realloc() and align_realloca() through an offset or behind a header of
\* its own, it stays aligned as its owner asked.
THEOREM AlignedAlways == AlignedSpec => []StaysAligned
  <1>1. AlignedInv => StaysAligned
    BY DEF AlignedInv, AtMultiples, StaysAligned
  <1> QED
    BY <1>1, AlignedInvariant, PTL

\* The addresses of a client's block, before the first misuse.
LEMMA BlockInside ==
  ASSUME AlignedInv, heap.misused = {}, NEW c \in Clients, ptr[c] # Null
  PROVE  /\ Header(c) \in Segs(heap) /\ Header(c) \in Nat
         /\ ptr[c] \in Nat /\ want[c] \in Nat
         /\ SegEnd(heap, Header(c)) \in Nat
         /\ Header(c) + HeaderSize <= ptr[c]
         /\ ptr[c] + want[c] <= SegEnd(heap, Header(c))
  <1>1. /\ HeapType(heap) /\ ptr[c] \in Nat /\ want[c] \in Nat
        /\ offset[c] \in Nat /\ Header(c) \in Segs(heap) /\ Header(c) \in Nat
    BY AlignedTypes DEF AlignedInv
  <1>2. offset[c] + want[c] <= heap.size[Header(c)]
    BY DEF AlignedInv, AlignedIntact, Live
  <1>3. heap.size[Header(c)] \in Nat
    BY <1>1, HeapElim
  <1> DEFINE s == Header(c)
             z == heap.size[s]
             o == offset[c]
             w == want[c]
             p == ptr[c]
  <1>4. /\ z \in Nat /\ o \in Nat /\ w \in Nat /\ s \in Nat /\ p \in Nat
        /\ o + w <= z /\ s = p - HeaderSize - o
        /\ SegEnd(heap, s) = s + HeaderSize + z
    BY <1>1, <1>2, <1>3 DEF Header, SegEnd
  <1> HIDE DEF s, z, o, w, p
  <1>5. /\ SegEnd(heap, s) \in Nat /\ s + HeaderSize <= p
        /\ p + w <= SegEnd(heap, s)
    BY <1>4, HeapOpsAssumption
  <1> QED
    BY <1>1, <1>5 DEF s, w, p

\* Before the first misuse the blocks of two clients are apart.
LEMMA AlignedApart ==
  ASSUME AlignedInv, heap.misused = {}, NEW c \in Clients, NEW d \in Clients,
         c # d, ptr[c] # Null, ptr[d] # Null
  PROVE  /\ ptr[c] + want[c] <= ptr[d] \/ ptr[d] + want[d] <= ptr[c]
         /\ ptr[c] # ptr[d]
  <1> DEFINE s == Header(c)
             t == Header(d)
  <1>1. /\ s \in Segs(heap) /\ s \in Nat /\ ptr[c] \in Nat /\ want[c] \in Nat
        /\ SegEnd(heap, s) \in Nat /\ s + HeaderSize <= ptr[c]
        /\ ptr[c] + want[c] <= SegEnd(heap, s)
    BY BlockInside
  <1>2. /\ t \in Segs(heap) /\ t \in Nat /\ ptr[d] \in Nat /\ want[d] \in Nat
        /\ SegEnd(heap, t) \in Nat /\ t + HeaderSize <= ptr[d]
        /\ ptr[d] + want[d] <= SegEnd(heap, t)
    BY BlockInside
  <1>3. s # t
    BY DEF AlignedInv, AlignedIntact, Live
  <1> HIDE DEF s, t
  <1>4. SegEnd(heap, s) <= t \/ SegEnd(heap, t) <= s
    <2>1. s < t \/ t < s
      BY <1>1, <1>2, <1>3
    <2> QED
      BY <1>1, <1>2, <2>1 DEF AlignedInv, AlignedIntact, Tiled
  <1> DEFINE x == SegEnd(heap, s)
             y == SegEnd(heap, t)
             p == ptr[c]
             q == ptr[d]
             u == want[c]
             v == want[d]
  <1>5. /\ x \in Nat /\ y \in Nat /\ s \in Nat /\ t \in Nat
        /\ p \in Nat /\ q \in Nat /\ u \in Nat /\ v \in Nat
        /\ s + HeaderSize <= p /\ p + u <= x
        /\ t + HeaderSize <= q /\ q + v <= y
        /\ x <= t \/ y <= s
    BY <1>1, <1>2, <1>4
  <1> HIDE DEF x, y, p, q, u, v
  <1>6. (p + u <= q \/ q + v <= p) /\ p # q
    BY <1>5, HeapOpsAssumption
  <1> QED
    BY <1>6 DEF p, q, u, v

\* Before the first misuse no client writes into a header or another's block.
LEMMA NothingOverwritten ==
  ASSUME AlignedInv, heap.misused = {}
  PROVE  ~Overwritten
  <1> DEFINE Kept == Walk(heap, HeapStart) \cup {heap.end}
                     \cup {Header(c) : c \in Live}
  <1>1. /\ HeapType(heap) /\ Segs(heap) \subseteq Nat \ {0}
        /\ heap.size \in [Segs(heap) -> Nat] /\ heap.end \in Segs(heap)
    BY HeapElim DEF AlignedInv, AlignedTypeOK
  <1>2. Kept \subseteq Segs(heap)
    BY <1>1 DEF Walk, AlignedInv, AlignedTypeOK
  <1>3. \A s \in Segs(heap) :
          /\ s \in Nat /\ SegEnd(heap, s) \in Nat
          /\ s + HeaderSize <= SegEnd(heap, s)
    <2> SUFFICES ASSUME NEW s \in Segs(heap)
                 PROVE  /\ s \in Nat /\ SegEnd(heap, s) \in Nat
                        /\ s + HeaderSize <= SegEnd(heap, s)
      OBVIOUS
    <2> DEFINE z == heap.size[s]
    <2>1. s \in Nat /\ z \in Nat /\ SegEnd(heap, s) = s + HeaderSize + z
      BY <1>1 DEF SegEnd
    <2> HIDE DEF z
    <2> QED
      BY <2>1, HeapOpsAssumption
  <1>4. \A s, t \in Segs(heap) : s < t => SegEnd(heap, s) <= t
    BY DEF AlignedInv, AlignedIntact, Tiled
  <1>5. ASSUME NEW s \in Segs(heap), NEW t \in Segs(heap), s # t
        PROVE  s + HeaderSize <= t \/ t + HeaderSize <= s
    <2>1. s \in Nat /\ t \in Nat /\ SegEnd(heap, s) \in Nat /\ SegEnd(heap, t) \in Nat
          /\ s + HeaderSize <= SegEnd(heap, s) /\ t + HeaderSize <= SegEnd(heap, t)
      BY <1>3
    <2>2. SegEnd(heap, s) <= t \/ SegEnd(heap, t) <= s
      BY <1>4, <1>5, <2>1
    <2> QED
      BY <2>1, <2>2, HeapOpsAssumption
  <1>6. ASSUME NEW s \in Segs(heap), NEW c \in Live
        PROVE  s + HeaderSize <= ptr[c] \/ ptr[c] + want[c] <= s
    <2> DEFINE t == Header(c)
               p == ptr[c]
               w == want[c]
    <2>1. /\ t \in Segs(heap) /\ t \in Nat /\ p \in Nat /\ w \in Nat
          /\ SegEnd(heap, t) \in Nat /\ t + HeaderSize <= p
          /\ p + w <= SegEnd(heap, t)
      BY BlockInside DEF Live
    <2> HIDE DEF t, p, w
    <2>2. s \in Nat /\ SegEnd(heap, s) \in Nat
          /\ s + HeaderSize <= SegEnd(heap, s)
      BY <1>3
    <2>3. s = t \/ SegEnd(heap, s) <= t \/ SegEnd(heap, t) <= s
      <3>1. s = t \/ s < t \/ t < s
        BY <2>1, <2>2
      <3> QED
        BY <1>4, <2>1, <3>1
    <2> DEFINE x == SegEnd(heap, s)
               y == SegEnd(heap, t)
    <2>4. /\ x \in Nat /\ y \in Nat /\ s \in Nat /\ t \in Nat /\ p \in Nat
          /\ w \in Nat /\ s + HeaderSize <= x /\ t + HeaderSize <= p /\ p + w <= y
          /\ s = t \/ x <= t \/ y <= s
      BY <2>1, <2>2, <2>3
    <2> HIDE DEF x, y
    <2>5. s + HeaderSize <= p \/ p + w <= s
      BY <2>4, HeapOpsAssumption
    <2> QED
      BY <2>5 DEF p, w
  <1>7. ASSUME NEW c \in Live, NEW d \in Live, c # d
        PROVE  /\ ptr[c] + want[c] <= ptr[d] \/ ptr[d] + want[d] <= ptr[c]
               /\ ptr[c] # ptr[d]
    BY <1>7, AlignedApart DEF Live
  <1>8. AlignedRegions = {<<s, s + HeaderSize>> : s \in Kept}
                         \cup {<<ptr[c], ptr[c] + want[c]>> : c \in Live}
    BY DEF AlignedRegions
  <1> HIDE DEF Kept
  <1>9. ASSUME NEW r \in AlignedRegions, NEW q \in AlignedRegions, r # q
        PROVE  ~(r[1] < q[2] /\ q[1] < r[2])
    <2>1. /\ \A s \in Kept : s \in Nat
          /\ \A c \in Live : ptr[c] \in Nat /\ want[c] \in Nat
      BY <1>2, <1>3, AlignedTypes DEF AlignedInv, Live
    <2>2. CASE \E s, t \in Kept : r = <<s, s + HeaderSize>>
                                /\ q = <<t, t + HeaderSize>>
      BY <1>2, <1>5, <1>9, <2>1, <2>2, HeapOpsAssumption
    <2>3. CASE \E s \in Kept, c \in Live : r = <<s, s + HeaderSize>>
                                       /\ q = <<ptr[c], ptr[c] + want[c]>>
      BY <1>2, <1>6, <2>1, <2>3, HeapOpsAssumption
    <2>4. CASE \E s \in Kept, c \in Live : q = <<s, s + HeaderSize>>
                                       /\ r = <<ptr[c], ptr[c] + want[c]>>
      BY <1>2, <1>6, <2>1, <2>4, HeapOpsAssumption
    <2>5. CASE \E c, d \in Live : r = <<ptr[c], ptr[c] + want[c]>>
                               /\ q = <<ptr[d], ptr[d] + want[d]>>
      BY <1>7, <1>9, <2>1, <2>5
    <2> QED
      BY <1>8, <2>2, <2>3, <2>4, <2>5
  <1> QED
    BY <1>7, <1>9 DEF Overwritten

\* Types, tiling, one owner for every block and nobody's bytes written over,
\* however aligned and plain calls are mixed, until a last segment is misused:
\* by heap.end, or because the size of a cut block is computed from the header
\* behind it when there is none.
THEOREM AlignedIsSound == AlignedSpec => []AlignedSound
  <1>1. AlignedInv => AlignedSound
    BY NothingOverwritten DEF AlignedInv, AlignedSound, AlignedUnharmed
  <1> QED
    BY <1>1, AlignedInvariant, PTL

\* Aligned and plain clients together are served as the abstract allocator
\* promises.
THEOREM AlignedKeepsPromise == AlignedSpec => KeepsPromiseAligned
  <1>1. AlignedInit => Shared!AllocatorInit
    BY DEF AlignedInit, Init, InitialHeap, Shared!AllocatorInit, Shared!NoBlock,
           Null
  <1>2. (AlignedInv /\ heap.misused = {} =>
           \A c, d \in Clients : c # d => Shared!Apart(c, d))'
    <2>1. AlignedInv /\ heap.misused = {} =>
            \A c, d \in Clients : c # d => Shared!Apart(c, d)
      BY AlignedApart DEF Shared!Apart, Shared!NoBlock, Null
    <2> QED
      BY <2>1, PTL
  <1>3. AlignedInv /\ AlignedInv' /\ [AlignedNext]_allVars =>
          [Shared!AllocatorNext]_(Shared!avars)
    <2> SUFFICES ASSUME AlignedInv, AlignedInv', [AlignedNext]_allVars
                 PROVE  [Shared!AllocatorNext]_(Shared!avars)
      OBVIOUS
    <2>1. /\ ptr \in [Clients -> Nat] /\ want \in [Clients -> Nat]
      BY AlignedTypes DEF AlignedInv
    <2>2. ptr' \in [Clients -> Nat] /\ want' \in [Clients -> Nat]
      BY DEF AlignedInv, AlignedTypeOK
    <2>3. CASE heap'.misused # {}
      BY <2>3 DEF Shared!AllocatorNext, Shared!Break
    <2>4. CASE heap'.misused = {}
      <3>1. ASSUME heap.misused = {}, NEW c \in Clients,
                   \A d \in Clients \ {c} : ptr'[d] = ptr[d] /\ want'[d] = want[d]
            PROVE  Shared!Replace(c)
        <4>1. \A d \in Clients \ {c} : Shared!Apart(c, d)'
          BY <1>2, <2>4
        <4>2. (heap.misused # {})' = (heap.misused # {})
          BY <2>4, <3>1
        <4> QED
          BY <2>2, <3>1, <4>1, <4>2 DEF Shared!Replace
      <3>2. ASSUME heap.misused = {}, NEW c \in Clients, NEW bytes \in Sizes,
                   NEW r, Gives(c, r, bytes)
            PROVE  Shared!AllocatorNext
        <4>1. r.seg \in Nat /\ r.off \in Nat
          BY <3>2, HeapElim DEF Gives
        <4>2. /\ ptr'[c] = r.seg + r.off + HeaderSize /\ want'[c] = bytes
              /\ \A d \in Clients \ {c} : ptr'[d] = ptr[d] /\ want'[d] = want[d]
          BY <2>1, <3>2 DEF Gives
        <4>3. ptr'[c] # 0
          BY <4>1, <4>2, HeapOpsAssumption
        <4>4. Shared!Replace(c)
          BY <3>1, <3>2, <4>2
        <4> QED
          BY <3>2, <4>2, <4>3, <4>4
             DEF Shared!AllocatorNext, Shared!Acquire, Shared!Resize,
                 Shared!NoBlock
      <3>3. ASSUME heap.misused = {}, NEW c \in Clients, Returns(c)
            PROVE  Shared!AllocatorNext
        <4>1. /\ ptr[c] # 0 /\ ptr'[c] = 0
              /\ \A d \in Clients \ {c} : ptr'[d] = ptr[d] /\ want'[d] = want[d]
          BY <2>1, <3>3 DEF Returns, Null
        <4>2. Shared!Replace(c)
          BY <3>1, <3>3, <4>1
        <4> QED
          BY <3>3, <4>1, <4>2
             DEF Shared!AllocatorNext, Shared!Release, Shared!NoBlock
      <3>4. CASE UNCHANGED allVars
        BY <3>4 DEF allVars, Shared!avars
      <3> QED
        BY <3>2, <3>3, <3>4, AlignedSteps
    <2> QED
      BY <2>3, <2>4
  <1> QED
    BY <1>1, <1>3, AlignedInvariant, PTL
       DEF AlignedSpec, KeepsPromiseAligned, Shared!AllocatorSpec
=============================================================================
