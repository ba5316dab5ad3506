-------------------------------- MODULE Heap --------------------------------
(***************************************************************************)
(* The kernel heap of lib/memory/heap/heap.{h,c}: a singly linked list of  *)
(* segments, each a header followed by its payload.  free() and alloc()    *)
(* are called from the kernel's only thread and never from an interrupt    *)
(* handler, so that every call is one atomic step.                         *)
(*                                                                         *)
(* The functions themselves are the operators of HeapOps.                  *)
(***************************************************************************)
EXTENDS HeapOps

CONSTANTS Clients,       \* data structures owning at most one block each
          Sizes,         \* the numbers of bytes they ask for
          Adds,          \* the reserve realloca() is given
          MaxExtent      \* bound: bytes of heap explored beyond HeapStart

ASSUME HeapAssumption ==
  /\ Sizes \subseteq Nat \ {0}
  /\ Adds \subseteq Nat
  /\ MaxExtent \in Nat

VARIABLES heap,   \* headers (next, size, used), end, usedUntil, misused
          ptr,    \* ptr[c]: the pointer client c holds, or Null
          want    \* want[c]: the bytes c may use behind it

vars == <<heap, ptr, want>>

-----------------------------------------------------------------------------
(* The clients.                                                             *)

Live == {c \in Clients : ptr[c] # Null}

Seg(c) == ptr[c] - HeaderSize

\* The headers the kernel may still read or write.
Pinned == Walk(heap, HeapStart) \cup Walk(heap, heap.usedUntil)
          \cup {heap.end} \cup {Seg(c) : c \in Live}

\* What must stay apart: headers, and the bytes the clients write.
Regions == {<<s, s + HeaderSize>> : s \in Pinned}
           \cup {<<ptr[c], ptr[c] + want[c]>> : c \in Live}

\* Two regions share a byte, or two clients a block.  From here on headers
\* hold whatever the clients wrote and the model stops.
Clobbered ==
  \/ \E r, q \in Regions : r # q /\ r[1] < q[2] /\ q[1] < r[2]
  \/ \E c, d \in Live : c # d /\ ptr[c] = ptr[d]

InBounds(h) == \A s \in Segs(h) : SegEnd(h, s) <= HeapStart + MaxExtent

Init == /\ heap = InitialHeap
        /\ ptr = [c \in Clients |-> Null]
        /\ want = [c \in Clients |-> 0]

\* Client c receives the segment of result r, of which it may use `bytes'.
Receive(c, r, bytes) ==
  /\ InBounds(r.heap)
  /\ heap' = r.heap
  /\ ptr' = [ptr EXCEPT ![c] = r.seg + HeaderSize]
  /\ want' = [want EXCEPT ![c] = bytes]

AllocBy(c) ==
  /\ ptr[c] = Null
  /\ \E bytes \in Sizes : \E r \in Alloc(heap, bytes) : Receive(c, r, bytes)

ReallocBy(c) ==
  /\ ptr[c] # Null
  /\ \E bytes \in Sizes : \E r \in Realloc(heap, Seg(c), bytes) :
       Receive(c, r, bytes)

ReallocaBy(c) ==
  /\ ptr[c] # Null
  /\ \E bytes \in Sizes, add \in Adds :
       \E r \in Realloca(heap, Seg(c), bytes, add) : Receive(c, r, bytes)

FreeBy(c) ==
  /\ ptr[c] # Null
  /\ heap' = Free(heap, Seg(c))
  /\ ptr' = [ptr EXCEPT ![c] = Null]
  /\ want' = [want EXCEPT ![c] = 0]

Call(c) == AllocBy(c) \/ ReallocBy(c) \/ ReallocaBy(c) \/ FreeBy(c)

Stopped == Clobbered /\ UNCHANGED vars

Next == (~Clobbered /\ \E c \in Clients : Call(c)) \/ Stopped

Spec == Init /\ [][Next]_vars

-----------------------------------------------------------------------------
(* Properties.                                                              *)

\* The types of the variables: every pointer kept by the heap or by a client
\* (heap.end, used_until, the used flags, ptr) names a header that exists,
\* whatever has become of the list.
TypeOK ==
  /\ HeapType(heap)
  /\ ptr \in [Clients -> Nat]
  /\ want \in [Clients -> Nat]
  /\ \A c \in Live : Seg(c) \in Segs(heap)

\* A segment is marked used exactly when a client owns it, no segment has
\* two owners, and each is as large as its owner believes.
Owned ==
  /\ \A c \in Live : Seg(c) \in heap.used /\ want[c] <= heap.size[Seg(c)]
  /\ \A c, d \in Live : ptr[c] = ptr[d] => c = d
  /\ \A s \in heap.used : \E c \in Live : Seg(c) = s

\* As long as heap.end was never taken for the last segment when it was not
\* (heap.c, heap_enlarge and realloc), any mix of alloc, realloc, realloca
\* and free calls keeps the list a tiling, and every block has one owner,
\* is large enough and is never lost.
Intact == heap.misused = {} => Tiled(heap) /\ Owned

\* Under the same condition no client writes into another one's block or
\* into a header the heap relies on.
Unharmed == heap.misused = {} => ~Clobbered

\* A block given back with free() is in reach of the next alloc(): the walk
\* from used_until visits it.
FreedIsFound ==
  [][\A c \in Clients :
       ptr[c] # Null /\ ptr'[c] = Null /\ heap.misused = {} =>
         Seg(c) \in Walk(heap', heap'.usedUntil)]_vars

\* The heap implements the allocator its callers count on, up to the first
\* use of a heap.end that is not the last segment.
Promise == INSTANCE Allocator
             WITH lo <- ptr, len <- want, Lengths <- Sizes,
                  broken <- (heap.misused # {})
KeepsPromise == Promise!AllocatorSpec

\* The comment in align_realloca() and align_reallocaf() on the test
\* heap.end == seg, "is last block -> enlarge", which realloc(), realloca()
\* and heap_enlarge() rely on as well: heap.end is the last block.
EndIsLast == ~Clobbered => heap.next[heap.end] = Null
=============================================================================
