------------------------------ MODULE PageHeap ------------------------------
(***************************************************************************)
(* The page heap of lib/memory/heap/page-heap.{h,c}: whole page tables     *)
(* handed out from a vector of consecutive segments.  The vector is a      *)
(* volatile_vector, whose spin lock serialises the callers; the vector     *)
(* itself lives on the kernel heap, so that a push may move it and leave   *)
(* behind every pointer into it.                                           *)
(*                                                                         *)
(* Indices count from 1 here and from 0 in the code.  Callers give back    *)
(* and resize only what they own; realloc may also be given a table that   *)
(* is not from the page heap.  It does not find one above the heap; with   *)
(* one below it the search leaves the vector.                              *)
(***************************************************************************)
EXTENDS Integers, Sequences, SequencesExt

CONSTANTS Callers,
          Tables,    \* the numbers of tables they ask for
          Base,      \* page_heap.base.virtual, in tables
          Foreign,   \* tables of other origin, below the heap and above it
          SizeMax,   \* SIZE_MAX
          MaxTables  \* bound: tables explored beyond Base

ASSUME PageHeapAssumption ==
  /\ Base \in Nat \ {0}
  /\ Tables \subseteq Nat \ {0}
  /\ MaxTables \in Nat \ {0}
  /\ SizeMax \in Nat
  /\ Foreign \subseteq Nat \ {0}
  /\ \A a \in Foreign : a < Base \/ a >= Base + MaxTables

None == 0

VARIABLES segments,   \* page_heap.segments: entries, count and used of each
          lock,       \* page_heap.segments.lock
          usedUntil,  \* page_heap.used_until
          pc,         \* where each caller is in its call
          call,       \* call[c]: the function called and its arguments
          low, high,  \* the bounds of the binary search
          chosen,     \* the segment the search found or the loop settled for
          stale,      \* `segs' there points to the vector's former place
          lo, len,    \* the block each caller owns
          lost        \* history: a segment was marked through a stale `segs'

vars == <<segments, lock, usedUntil, pc, call, low, high, chosen, stale, lo,
          len, lost>>

\* What only the caller that holds the lock writes and the callers own.
locals == <<low, high, chosen, stale>>
blocks == <<lo, len, lost>>

-----------------------------------------------------------------------------
(* The vector.                                                              *)

Segment(entries, count, used) ==
  [entries |-> entries, count |-> count, used |-> used]

\* __page_heap_divide_block()
Divide(segs, i, tables) ==
  InsertAt([segs EXCEPT ![i].count = tables], i + 1,
           Segment(segs[i].entries + tables, segs[i].count - tables, FALSE))

\* The test before each division.
Divisible(seg, tables) == seg.count > tables /\ seg.count > 1

Trim(segs, i, tables) ==
  IF Divisible(segs[i], tables) THEN Divide(segs, i, tables) ELSE segs

\* Mutant of Expand: the new segment is not marked.
ExpandUnused(segs, tables) ==
  Append(segs, Segment(Last(segs).entries + Last(segs).count, tables, FALSE))

\* page_heap_expand()
Expand(segs, tables) ==
  Append(segs, Segment(Last(segs).entries + Last(segs).count, tables, TRUE))

-----------------------------------------------------------------------------
(* A call: the caller waits for the lock, works on the vector, unlocks.     *)

NoCall == [fun |-> "none", ptr |-> None, tables |-> 0]

Goto(c, label) == pc' = [pc EXCEPT ![c] = label]

Own(c, ptr, tables) ==
  /\ lo' = [lo EXCEPT ![c] = ptr]
  /\ len' = [len EXCEPT ![c] = tables]

Call(c, fun, ptr, tables) ==
  /\ pc[c] = "idle"
  /\ call' = [call EXCEPT ![c] = [fun |-> fun, ptr |-> ptr, tables |-> tables]]
  /\ Goto(c, "lock")
  /\ UNCHANGED <<segments, lock, usedUntil, locals, blocks>>

CallAlloc(c) == lo[c] = None /\ \E n \in Tables : Call(c, "alloc", None, n)

CallRealloc(c) ==
  \E n \in Tables, ptr \in (IF lo[c] = None THEN Foreign ELSE {lo[c]}) :
    Call(c, "realloc", ptr, n)

CallFree(c) == lo[c] # None /\ Call(c, "free", lo[c], 0)

\* Mutant of Fits: the used flag is not tested.
FitsUsed(n) == {i \in usedUntil .. Len(segments) : segments[i].count >= n}

\* The segments the loop of __page_alloc_locked() may settle for.
Fits(n) ==
  {i \in usedUntil .. Len(segments) : ~segments[i].used /\ segments[i].count >= n}

\* The bound: whatever c has called, the heap does not outgrow MaxTables.
Room(c) ==
  \/ Fits(call[c].tables) # {}
  \/ Last(segments).entries + Last(segments).count + call[c].tables
       <= Base + MaxTables

\* vvec_wait_and_lock(), and the bounds of the search that follows it.
Lock(c) ==
  /\ pc[c] = "lock" /\ ~lock /\ Room(c)
  /\ lock' = TRUE
  /\ \/ call[c].fun = "alloc" /\ Goto(c, "alloc") /\ UNCHANGED <<low, high>>
     \/ /\ call[c].fun # "alloc" /\ Goto(c, "search")
        /\ low' = 0 /\ high' = Len(segments) - 1
  /\ UNCHANGED <<segments, usedUntil, call, chosen, stale, blocks>>

\* Nothing is modelled of a search that has gone wrong outside the vector.
Spin(c) == pc[c] \in {"lock", "relock", "outside"} /\ UNCHANGED vars

\* vvec_unlock() and return
Unlock(c) ==
  /\ pc[c] = "unlock"
  /\ lock' = FALSE
  /\ call' = [call EXCEPT ![c] = NoCall]
  /\ low' = 0 /\ high' = 0 /\ chosen' = None /\ stale' = FALSE
  /\ Goto(c, "idle")
  /\ UNCHANGED <<segments, usedUntil, blocks>>

-----------------------------------------------------------------------------
(* page_find_index() and page_find(): a binary search, one step for each    *)
(* turn of its loop.                                                        *)

\* Mutant of Again: the search ends with one segment left.
AgainStops(l, h) == l < h

\* while (low <= high)
Again(l, h) == l <= h

Middle == low + (high - low) \div 2

InVector(i) == i < Len(segments)

Hit(c) ==
  /\ InVector(Middle)
  /\ segments[Middle + 1].entries = call[c].ptr
  /\ chosen' = Middle + 1
  /\ Goto(c, call[c].fun)
  /\ UNCHANGED <<low, high>>

Turn(c) ==
  /\ Goto(c, IF Again(low', high') THEN "search" ELSE call[c].fun)
  /\ chosen' = None

\* high is unsigned: below the first segment it wraps.
Miss(c) ==
  LET at == segments[Middle + 1].entries
  IN /\ InVector(Middle) /\ at # call[c].ptr
     /\ low' = IF at < call[c].ptr THEN Middle + 1 ELSE low
     /\ high' = IF at < call[c].ptr THEN high
                ELSE IF Middle = 0 THEN SizeMax ELSE Middle - 1
     /\ Turn(c)

\* Behind the vector the loop goes on with whatever the memory holds,
Stray(c) ==
  /\ ~InVector(Middle)
  /\ \/ low' = (IF Middle = SizeMax THEN 0 ELSE Middle + 1) /\ high' = high
     \/ low' = low /\ high' = Middle - 1
  /\ Turn(c)

\* takes it for the segment it searches, or cannot read it.
Derail(c) ==
  /\ ~InVector(Middle)
  /\ Goto(c, "outside")
  /\ UNCHANGED <<low, high, chosen>>

Search(c) ==
  /\ pc[c] = "search"
  /\ Hit(c) \/ Miss(c) \/ Stray(c) \/ Derail(c)
  /\ UNCHANGED <<segments, lock, usedUntil, call, stale, blocks>>

-----------------------------------------------------------------------------
(* __page_alloc_locked()                                                    *)

Lowest(S) == {i \in S : \A j \in S : i <= j}

\* The loop stops at the first segment that fits and divides it, which may
\* move the vector away from under `segs'.
Find(c) ==
  LET n == call[c].tables
  IN \E i \in Lowest(Fits(n)) :
       /\ chosen' = i
       /\ segments' = Trim(segments, i, n)
       /\ stale' \in (IF Divisible(segments[i], n) THEN BOOLEAN ELSE {FALSE})
       /\ Goto(c, "mark")
       /\ UNCHANGED <<lock, usedUntil, call, low, high, blocks>>

\* segs[i].used = true, used_until, return segs[i].entries: a write through a
\* stale pointer misses the vector, a read still finds the old entry.
Mark(c) ==
  /\ pc[c] = "mark"
  /\ segments' = IF stale THEN segments
                          ELSE [segments EXCEPT ![chosen].used = TRUE]
  /\ lost' = (lost \/ stale)
  /\ usedUntil' = IF usedUntil < chosen THEN chosen ELSE usedUntil
  /\ Own(c, segments[chosen].entries, call[c].tables)
  /\ Goto(c, "unlock")
  /\ UNCHANGED <<lock, call, locals>>

\* Nothing fits: the last segment takes any size, or a new one follows it.
Enlarge(c) ==
  LET n == call[c].tables
      k == Len(segments)
  IN /\ Fits(n) = {}
     /\ segments' = IF segments[k].used
                    THEN Expand(segments, n)
                    ELSE [segments EXCEPT ![k] = Segment(@.entries, n, TRUE)]
     /\ Own(c, Last(segments').entries, n)
     /\ Goto(c, "unlock")
     /\ UNCHANGED <<lock, usedUntil, call, locals, lost>>

AllocLocked(c) == Find(c) \/ Enlarge(c)

-----------------------------------------------------------------------------
(* The functions, once they hold the lock.                                  *)

\* page_alloc()
PageAlloc(c) == pc[c] = "alloc" /\ AllocLocked(c)

\* page_realloc(): an unknown table is allocated anew, a block that is large
\* enough is trimmed, any other calls page_alloc(), which waits for the lock
\* its caller holds.
PageRealloc(c) ==
  LET i == chosen
      n == call[c].tables
  IN /\ pc[c] = "realloc"
     /\ \/ i = None /\ AllocLocked(c)
        \/ /\ i # None /\ segments[i].count >= n
           /\ segments' = Trim(segments, i, n)
           /\ Own(c, call[c].ptr, n)
           /\ Goto(c, "unlock")
           /\ UNCHANGED <<lock, usedUntil, call, locals, lost>>
        \/ /\ i # None /\ segments[i].count < n
           /\ Goto(c, "relock")
           /\ UNCHANGED <<segments, lock, usedUntil, call, locals, blocks>>

Unmarked == IF chosen = None THEN segments
                             ELSE [segments EXCEPT ![chosen].used = FALSE]

\* Mutant of PageFree: it returns without unlocking.
PageFreeKeepsLock(c) ==
  /\ pc[c] = "free"
  /\ segments' = Unmarked
  /\ Own(c, None, 0)
  /\ Goto(c, "idle")
  /\ call' = [call EXCEPT ![c] = NoCall]
  /\ UNCHANGED <<lock, usedUntil, locals, lost>>

\* page_free()
PageFree(c) ==
  /\ pc[c] = "free"
  /\ segments' = Unmarked
  /\ Own(c, None, 0)
  /\ Goto(c, "unlock")
  /\ UNCHANGED <<lock, usedUntil, call, locals, lost>>

-----------------------------------------------------------------------------
\* page_heap_init()
Init ==
  /\ segments = <<Segment(Base, 1, FALSE)>>
  /\ lock = FALSE
  /\ usedUntil = 1
  /\ pc = [c \in Callers |-> "idle"]
  /\ call = [c \in Callers |-> NoCall]
  /\ low = 0 /\ high = 0 /\ chosen = None /\ stale = FALSE
  /\ lo = [c \in Callers |-> None]
  /\ len = [c \in Callers |-> 0]
  /\ lost = FALSE

\* What a caller does once it has called, unless it waits for the lock.
Holds(c) ==
  \/ Search(c) \/ PageAlloc(c) \/ PageRealloc(c) \/ PageFree(c)
  \/ Mark(c) \/ Unlock(c)

Step(c) == CallAlloc(c) \/ CallRealloc(c) \/ CallFree(c) \/ Lock(c) \/ Holds(c)

\* After a lost mark the heap hands out tables that are in use: the model
\* goes no further.
Next ==
  \/ ~lost /\ \E c \in Callers : Step(c) \/ Spin(c)
  \/ lost /\ UNCHANGED vars

\* A caller that holds the lock is not kept from running.
Fairness == \A c \in Callers : WF_vars(~lost /\ Holds(c))

Spec == Init /\ [][Next]_vars /\ Fairness

-----------------------------------------------------------------------------
(* Properties.                                                              *)

Calls == [fun : {"none", "alloc", "realloc", "free"}, ptr : Nat, tables : Nat]

TypeOK ==
  /\ segments \in Seq([entries : Nat, count : Nat, used : BOOLEAN])
  /\ lock \in BOOLEAN
  /\ usedUntil \in DOMAIN segments
  /\ pc \in [Callers -> {"idle", "lock", "search", "alloc", "realloc", "free",
                         "mark", "unlock", "relock", "outside"}]
  /\ call \in [Callers -> Calls]
  /\ low \in Nat /\ high \in Nat
  /\ chosen \in DOMAIN segments \cup {None}
  /\ stale \in BOOLEAN
  /\ lo \in [Callers -> Nat] /\ len \in [Callers -> Nat]
  /\ lost \in BOOLEAN

\* At most one caller is past the lock, and the lock is held while one is.
Holder(c) == pc[c] \notin {"idle", "lock"}
Locked == /\ lock <=> \E c \in Callers : Holder(c)
          /\ \A c, d \in Callers : Holder(c) /\ Holder(d) => c = d

\* The segments follow one another without gap or overlap from the base of
\* the heap, whatever is divided, enlarged or lost: the binary search and
\* the divisions rely on it.
Contiguous ==
  /\ segments[1].entries = Base
  /\ \A i \in DOMAIN segments : segments[i].count > 0
  /\ \A i \in 1 .. Len(segments) - 1 :
       segments[i + 1].entries = segments[i].entries + segments[i].count

\* c's realloc() was given a table below the heap.
Below(c) == call[c].fun = "realloc" /\ lo[c] = None /\ call[c].ptr < Base

\* The search finds the block of the caller, and none for a table that is
\* not from the heap; only for one below the heap does it leave the vector.
Found ==
  \A c \in Callers :
    /\ pc[c] = "search" /\ ~Below(c) => low <= high /\ InVector(high)
    /\ pc[c] = "outside" => Below(c)
    /\ pc[c] \in {"realloc", "free"} =>
         IF lo[c] = None THEN chosen = None
         ELSE chosen \in DOMAIN segments /\ segments[chosen].entries = lo[c]

\* What every function finds once it has the lock: it alone has it, the
\* segments are contiguous and the search finds what is searched.
Sound == TypeOK /\ Locked /\ Contiguous /\ Found

\* Until a mark is lost, the used flags say what the callers own: every
\* block has a segment of its own, marked used and large enough, and no
\* other segment is marked.
OwnedIsUsed ==
  ~lost =>
    /\ \A c \in Callers : lo[c] # None =>
         \E i \in DOMAIN segments :
           segments[i].used /\ segments[i].entries = lo[c]
                           /\ segments[i].count >= len[c]
    /\ \A i \in DOMAIN segments : segments[i].used =>
         \E c \in Callers : lo[c] = segments[i].entries

\* Two callers never own the same table, and a call changes nobody's block
\* but the caller's, until a mark is lost.
Promise == INSTANCE Allocator
             WITH Clients <- Callers, Lengths <- Tables, broken <- lost
KeepsPromise == Promise!AllocatorSpec

\* Whoever takes the lock gives it back, except a page_realloc() that has to
\* move its block, which waits for the lock it holds, and all others with it, and
\* one of a table below the heap, whose search may go round for ever.
LockReturned ==
  lock ~> \/ ~lock \/ lost
          \/ \E c \in Callers : pc[c] = "relock" \/ (Holder(c) /\ Below(c))

\* page-heap.c, __page_heap_divide_block(): "function assumes: vector is
\* already locked and not accessed".
NotAccessed == \A c \in Callers : pc[c] = "mark" => ~stale
=============================================================================
