------------------------------- MODULE HeapOps -------------------------------
(***************************************************************************)
(* The functions of the kernel heap (lib/memory/heap/heap.{h,c}) as        *)
(* operators from heap states to heap states, which compose as the calls   *)
(* do.  A heap state is one record, as in the code: the headers (next,     *)
(* size, used), end, usedUntil.                                            *)
(*                                                                         *)
(* Memory is flat: a header stays at its address until a client overwrites *)
(* it, and the segments of the heap are those the `next' pointers reach.   *)
(* The branches of alloc() that merge free segments are left out: they     *)
(* need c_size > bytes, and c_size is only ever assigned the size of a     *)
(* segment that failed the test size >= bytes.                             *)
(***************************************************************************)
EXTENDS Integers, FiniteSets

CONSTANTS HeapStart,     \* heap.start
          HeaderSize,    \* sizeof(heap_segment_t)
          SplitSlack,    \* the 8 bytes a split must leave beyond a header
          InitialBlock   \* HEAP_INITIAL_BLOCK_SIZE

ASSUME HeapOpsAssumption ==
  /\ HeapStart \in Nat \ {0}
  /\ HeaderSize \in Nat \ {0}
  /\ SplitSlack \in Nat
  /\ InitialBlock \in Nat

Null == 0

-----------------------------------------------------------------------------
(* Headers and segments.  heap.used is the set of the headers whose `used'  *)
(* flag is set.  heap.misused is a history field: the segments that         *)
(* heap_enlarge() or an in-place growth treated as the last one, through    *)
(* heap.end, while they had a successor.                                    *)

Write(f, a, v) == [x \in DOMAIN f \cup {a} |-> IF x = a THEN v ELSE f[x]]

Segs(h) == DOMAIN h.next

SegEnd(h, s) == s + HeaderSize + h.size[s]

Stale(h) == IF h.next[h.end] = Null THEN {} ELSE {h.end}

\* The headers a walk along `next' from a visits.
Walk(h, a) ==
  LET at[k \in Nat] == IF k = 0 THEN a
                       ELSE IF at[k - 1] = Null THEN Null
                       ELSE h.next[at[k - 1]]
  IN {at[k] : k \in 0 .. Cardinality(Segs(h))} \cap Segs(h)

\* heap_divide()
Divide(h, seg, bytes) ==
  LET nw == seg + HeaderSize + bytes
  IN IF h.size[seg] > bytes + HeaderSize + SplitSlack
     THEN [h EXCEPT
             !.next = Write(Write(@, seg, nw), nw, h.next[seg]),
             !.size = Write(Write(@, seg, bytes), nw,
                            h.size[seg] - HeaderSize - bytes),
             !.used = @ \ {nw}]
     ELSE h

\* The first branch of heap_enlarge(): heap.end is free and takes any size.
ReuseEnd(h, bytes) ==
  [h EXCEPT !.next = Write(@, h.end, Null),
            !.size = Write(@, h.end, bytes),
            !.used = @ \cup {h.end},
            !.misused = @ \cup Stale(h)]

\* Mutant of Expand: the header of the last segment is not counted.
ExpandNoHeader(h, bytes) ==
  LET new == h.end + h.size[h.end]
  IN [h EXCEPT !.end  = new,
               !.next = Write(Write(@, h.end, new), new, Null),
               !.size = Write(@, new, bytes),
               !.used = @ \cup {new},
               !.misused = @ \cup Stale(h)]

\* heap_expand(): a new segment behind heap.end.
Expand(h, bytes) ==
  LET new == SegEnd(h, h.end)
  IN [h EXCEPT !.end  = new,
               !.next = Write(Write(@, h.end, new), new, Null),
               !.size = Write(@, new, bytes),
               !.used = @ \cup {new},
               !.misused = @ \cup Stale(h)]

\* heap_enlarge(): the result is the payload of the heap.end it leaves.
Enlarge(h, bytes) ==
  IF h.end \notin h.used THEN ReuseEnd(h, bytes) ELSE Expand(h, bytes)

\* Mutant of Fits: the used flag is not tested.
FitsUsed(h, bytes) ==
  {s \in Segs(h) : s \in Walk(h, h.usedUntil) /\ h.size[s] >= bytes}

\* The segments the loop of alloc() may settle for.
Fits(h, bytes) ==
  {s \in Segs(h) \ h.used : s \in Walk(h, h.usedUntil) /\ h.size[s] >= bytes}

\* alloc() on a segment that fits: mark it, advance used_until, divide it.
Take(h, s, bytes) ==
  Divide([h EXCEPT !.used = @ \cup {s},
                   !.usedUntil = IF @ < s THEN s ELSE @], s, bytes)

Lowest(S) == {s \in S : \A t \in S : s <= t}

\* alloc(): the heap it leaves and the segment it hands out.  The walk only
\* climbs, so that the first segment that fits is the lowest.
Alloc(h, bytes) ==
  IF Fits(h, bytes) = {}
  THEN {[heap |-> Enlarge(h, bytes), seg |-> Enlarge(h, bytes).end]}
  ELSE {[heap |-> Take(h, s, bytes), seg |-> s] : s \in Lowest(Fits(h, bytes))}

\* Mutant of Free: used_until stays behind.
FreeForgets(h, s) == [h EXCEPT !.used = @ \ {s}]

\* free()
Free(h, s) ==
  [h EXCEPT !.used = @ \ {s},
            !.usedUntil = IF @ > s THEN s ELSE @]

\* Mutant of Abandon: the old block is not marked free.
AbandonNothing(h, s) == h

\* The last statement of realloc() and realloca() on the block they leave:
\* unlike free() it does not lower used_until.
Abandon(h, s) == [h EXCEPT !.used = @ \ {s}]

\* The branch of realloc() and realloca() for the segment heap.end names.
GrowEnd(h, bytes) ==
  [h EXCEPT !.size = Write(@, h.end, bytes),
            !.misused = @ \cup Stale(h)]

\* realloc() and realloca() for a segment that is too small.
Move(h, s, bytes, reserve) ==
  IF s = h.end
  THEN {[heap |-> GrowEnd(h, bytes), seg |-> s]}
  ELSE {[heap |-> Abandon(r.heap, s), seg |-> r.seg] :
          r \in Alloc(h, bytes + reserve)}

\* realloc()
Realloc(h, s, bytes) ==
  IF h.size[s] >= bytes THEN {[heap |-> Divide(h, s, bytes), seg |-> s]}
                        ELSE Move(h, s, bytes, 0)

\* realloca(): a block that is large enough is not divided.
Realloca(h, s, bytes, add) ==
  IF h.size[s] >= bytes THEN {[heap |-> h, seg |-> s]}
                        ELSE Move(h, s, bytes, add)

\* heap_init()
InitialHeap ==
  [next |-> [s \in {HeapStart} |-> Null],
   size |-> [s \in {HeapStart} |-> InitialBlock],
   used |-> {},
   end |-> HeapStart,
   usedUntil |-> HeapStart,
   misused |-> {}]

-----------------------------------------------------------------------------

\* A heap state is well formed: every pointer names a header.
HeapType(h) ==
  /\ h = [next |-> h.next, size |-> h.size, used |-> h.used, end |-> h.end,
          usedUntil |-> h.usedUntil, misused |-> h.misused]
  /\ Segs(h) \subseteq Nat \ {0}
  /\ h.next \in [Segs(h) -> Nat]
  /\ h.size \in [Segs(h) -> Nat]
  /\ h.used \subseteq Segs(h)
  /\ h.end \in Segs(h)
  /\ h.usedUntil \in Segs(h)
  /\ h.misused \subseteq Nat

\* The segments tile the heap: each next pointer leads to the byte behind
\* its segment, segments do not overlap, and only the highest has no
\* successor.
Tiled(h) ==
  /\ \A s \in Segs(h) : s >= HeapStart
  /\ \A s \in Segs(h) : h.next[s] # Null =>
       h.next[s] \in Segs(h) /\ h.next[s] = SegEnd(h, s)
  /\ \A s, t \in Segs(h) : s < t => SegEnd(h, s) <= t
  /\ \A s, t \in Segs(h) : h.next[s] = Null => t <= s
=============================================================================
