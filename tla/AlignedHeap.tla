----------------------------- MODULE AlignedHeap -----------------------------
(***************************************************************************)
(* The aligned half of the kernel heap (align_alloc() and what follows it  *)
(* in lib/src/memory/heap/heap.c) and its user, aligned_ptr                *)
(* (lib/memory/aligned_ptr.h, lib/src/memory/aligned_ptr.c), next to plain *)
(* clients of the same heap.  A block may start behind its header, at an   *)
(* offset its owner keeps, or behind a new header cut out of the padding.  *)
(*                                                                         *)
(* The merging branches of align_alloc() are as dead as those of alloc():  *)
(* c_size is the size of a segment too small for bytes + c_offset.  The    *)
(* functions ending in f differ by a callback on the moved data.           *)
(***************************************************************************)
EXTENDS Heap

CONSTANTS Plain,      \* the clients that use alloc() and free()
          Aligns,     \* the alignments the others ask for
          Bits,       \* the width of an address, 64
          Word        \* 2^64

ASSUME AlignedAssumption ==
  /\ Plain \subseteq Clients
  /\ Aligns \subseteq Nat \ {0}
  /\ Bits \in Nat
  /\ \A a \in Aligns : \E k \in 0 .. Bits - 1 : a = 2 ^ k   \* align() masks
  /\ Word \in Nat \ {0}
  /\ HeapStart + MaxExtent <= Word   \* the heap is in the address space

VARIABLES offset,     \* aligned_ptr.offset
          align       \* aligned_ptr.align

aptrs == <<offset, align>>
allVars == <<heap, ptr, want, offset, align>>

-----------------------------------------------------------------------------

\* Mutant of OffsetIn: the header is aligned, not the payload.
OffsetOfHeader(s, a) == (-s) % a

\* align(): (p + a - 1) & ~(a - 1) clears the bits below a power of two, which
\* leaves the next multiple of it.  These are the bytes from the payload of
\* segment s to there.
OffsetIn(s, a) == (-(s + HeaderSize)) % a

\* Mutant of AlignFits: the offset is not counted.
AlignFitsBare(h, bytes, a) == Fits(h, bytes)

\* The segments the loop of align_alloc() may settle for.
AlignFits(h, bytes, a) ==
  {s \in Segs(h) \ h.used :
     s \in Walk(h, h.usedUntil) /\ h.size[s] >= bytes + OffsetIn(s, a)}

\* A large offset becomes a segment, which stays marked as used, and the
\* block gets a header of its own.  Its size is computed from the next
\* header: without one, it comes out too large by an address.
Pad(h, s, off) ==
  LET n == s + off
  IN IF off > HeaderSize + SplitSlack
     THEN [heap |-> [h EXCEPT
             !.next = Write(Write(@, s, n), n, h.next[s]),
             !.size = Write(Write(@, s, off - HeaderSize), n,
                            (h.next[s] - n - HeaderSize) % Word),
             !.used = @ \cup {n},
             !.misused = @ \cup (IF h.next[s] = Null THEN {n} ELSE {})],
           seg |-> n, off |-> 0]
     ELSE [heap |-> h, seg |-> s, off |-> off]

\* heap_align_expand(): a new last segment, behind one for the padding.
AlignExpand(h, bytes, a) ==
  LET e == SegEnd(h, h.end)
      off == OffsetIn(e, a)
      n == e + off
  IN IF off > HeaderSize + SplitSlack
     THEN [heap |-> [h EXCEPT
             !.end = n,
             !.next = Write(Write(Write(@, h.end, e), e, n), n, Null),
             !.size = Write(Write(@, e, off - HeaderSize), n, bytes),
             !.used = (@ \ {e}) \cup {n},
             !.misused = @ \cup Stale(h)],
           seg |-> n, off |-> 0]
     ELSE [heap |-> [h EXCEPT
             !.end = e,
             !.next = Write(Write(@, h.end, e), e, Null),
             !.size = Write(@, e, off + bytes),
             !.used = @ \cup {e},
             !.misused = @ \cup Stale(h)],
           seg |-> e, off |-> off]

\* The first branch of heap_align_enlarge(): heap.end is free.
AlignReuseEnd(h, bytes, a) ==
  LET off == OffsetIn(h.end, a)
      n == h.end + off
  IN IF off >= HeaderSize + SplitSlack
     THEN [heap |-> [h EXCEPT
             !.end = n,
             !.next = Write(Write(@, h.end, n), n, Null),
             !.size = Write(Write(@, h.end, off - HeaderSize), n, bytes),
             !.used = @ \cup {n},
             !.misused = @ \cup Stale(h)],
           seg |-> n, off |-> 0]
     ELSE [heap |-> [h EXCEPT
             !.size = Write(@, h.end, bytes + off),
             !.used = @ \cup {h.end},
             !.misused = @ \cup Stale(h)],
           seg |-> h.end, off |-> off]

\* heap_align_enlarge()
AlignEnlarge(h, bytes, a) ==
  IF h.end \notin h.used THEN AlignReuseEnd(h, bytes, a)
                         ELSE AlignExpand(h, bytes, a)

\* align_alloc(): the heap it leaves, the segment and the offset in it.
AlignAlloc(h, bytes, a) ==
  IF AlignFits(h, bytes, a) = {}
  THEN {AlignEnlarge(h, bytes, a)}
  ELSE {Pad(Take(h, s, bytes + OffsetIn(s, a)), s, OffsetIn(s, a)) :
          s \in Lowest(AlignFits(h, bytes, a))}

\* align_realloc() and align_realloca() for a segment that is too small.
AlignMove(h, s, off, a, bytes, reserve) ==
  IF s = h.end
  THEN {[heap |-> GrowEnd(h, bytes + off), seg |-> s, off |-> off]}
  ELSE {[heap |-> Abandon(r.heap, s), seg |-> r.seg, off |-> r.off] :
          r \in AlignAlloc(h, bytes + reserve, a)}

\* Mutant of AlignRealloc: the rest is cut off without regard to the offset.
AlignReallocBare(h, s, off, a, bytes) ==
  IF h.size[s] >= bytes + off
  THEN {[heap |-> Divide(h, s, bytes), seg |-> s, off |-> off]}
  ELSE AlignMove(h, s, off, a, bytes, 0)

\* align_realloc() and align_reallocf()
AlignRealloc(h, s, off, a, bytes) ==
  IF h.size[s] >= bytes + off
  THEN {[heap |-> Divide(h, s, bytes + off), seg |-> s, off |-> off]}
  ELSE AlignMove(h, s, off, a, bytes, 0)

\* align_realloca() and align_reallocaf()
AlignRealloca(h, s, off, a, bytes, add) ==
  IF h.size[s] >= bytes + off
  THEN {[heap |-> h, seg |-> s, off |-> off]}
  ELSE AlignMove(h, s, off, a, bytes, add)

-----------------------------------------------------------------------------
(* The aligned_ptrs.                                                        *)

\* The header of c's block.
Header(c) == ptr[c] - HeaderSize - offset[c]

AlignedInit == Init /\ offset = [c \in Clients |-> 0]
                    /\ align = [c \in Clients |-> 0]

\* c's aligned_ptr receives the block of result r.
ReceiveAligned(c, r, a, bytes) ==
  /\ Receive(c, [heap |-> r.heap, seg |-> r.seg + r.off], bytes)
  /\ offset' = [offset EXCEPT ![c] = r.off]
  /\ align' = [align EXCEPT ![c] = a]

\* aptrse(), or aptrs() and aptr_alloc()
AptrAlloc(c) ==
  /\ ptr[c] = Null
  /\ \E a \in Aligns, bytes \in Sizes : \E r \in AlignAlloc(heap, bytes, a) :
       ReceiveAligned(c, r, a, bytes)

\* aptr_realloc() and aptr_reallocf() on a pointer that has a block
AptrRealloc(c) ==
  /\ ptr[c] # Null
  /\ \E bytes \in Sizes :
       \E r \in AlignRealloc(heap, Header(c), offset[c], align[c], bytes) :
         ReceiveAligned(c, r, align[c], bytes)

\* aptr_realloca() and aptr_reallocaf() on a pointer that has a block
AptrRealloca(c) ==
  /\ ptr[c] # Null
  /\ \E bytes \in Sizes, add \in Adds :
       \E r \in AlignRealloca(heap, Header(c), offset[c], align[c], bytes, add) :
         ReceiveAligned(c, r, align[c], bytes)

\* aptr_free(), through align_free()
AptrFree(c) ==
  /\ ptr[c] # Null
  /\ heap' = Free(heap, Header(c))
  /\ ptr' = [ptr EXCEPT ![c] = Null]
  /\ want' = [want EXCEPT ![c] = 0]
  /\ offset' = [offset EXCEPT ![c] = 0]
  /\ align' = [align EXCEPT ![c] = 0]

\* The bytes that must stay apart, as in Heap, with the offsets.
AlignedRegions ==
  {<<s, s + HeaderSize>> : s \in Walk(heap, HeapStart) \cup {heap.end}
                                 \cup {Header(c) : c \in Live}}
  \cup {<<ptr[c], ptr[c] + want[c]>> : c \in Live}

Overwritten ==
  \/ \E r, q \in AlignedRegions : r # q /\ r[1] < q[2] /\ q[1] < r[2]
  \/ \E c, d \in Live : c # d /\ ptr[c] = ptr[d]

\* Nothing is explored behind the first misuse or overwritten header.
Ended == (Overwritten \/ heap.misused # {}) /\ UNCHANGED allVars

AlignedNext ==
  \/ /\ ~Overwritten /\ heap.misused = {}
     /\ \/ \E c \in Plain : Call(c) /\ UNCHANGED aptrs
        \/ \E c \in Clients \ Plain :
             AptrAlloc(c) \/ AptrRealloc(c) \/ AptrRealloca(c) \/ AptrFree(c)
  \/ Ended

AlignedSpec == AlignedInit /\ [][AlignedNext]_allVars

-----------------------------------------------------------------------------
(* Properties.                                                              *)

\* Types; every block has its header where its owner will look for it.
AlignedTypeOK ==
  /\ HeapType(heap)
  /\ {ptr, want, offset, align} \subseteq [Clients -> Nat]
  /\ \A c \in Live : Header(c) \in Segs(heap)

\* However often an aligned block is resized, moved or grown in place, it
\* stays aligned as its owner asked.
StaysAligned == \A c \in Live \ Plain : ptr[c] % align[c] = 0

\* Until a last segment is misused, aligned and plain calls in any mix keep
\* the list a tiling, and give every owner a used segment that is not
\* another's and holds the offset and all the owner asked for.
AlignedIntact ==
  heap.misused = {} =>
    /\ Tiled(heap)
    /\ \A c \in Live : /\ Header(c) \in heap.used
                       /\ offset[c] + want[c] <= heap.size[Header(c)]
    /\ \A c, d \in Live : Header(c) = Header(d) => c = d

\* Until then nobody writes over a header or another one's bytes.
AlignedUnharmed == heap.misused = {} => ~Overwritten

\* All three: the types, the tiling with one owner each, and nobody's bytes are
\* written over, however aligned and plain calls are mixed.
AlignedSound == AlignedTypeOK /\ AlignedIntact /\ AlignedUnharmed

\* Aligned and plain clients together are served as Allocator promises.
Shared == INSTANCE Allocator
            WITH lo <- ptr, len <- want, Lengths <- Sizes,
                 broken <- (heap.misused # {})
KeepsPromiseAligned == Shared!AllocatorSpec

\* heap.h on align_alloc(): it allocates "and create new block at the empty
\* space", a block others can have, as every segment in use has an owner.
PaddingIsFree ==
  \A s \in heap.used : \E c \in Live : Header(c) = s
=============================================================================
