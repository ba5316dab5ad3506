------------------------------- MODULE Strings -------------------------------
(***************************************************************************)
(* A few strings in arbitrary use: any function of lib/string.h on any of  *)
(* them, on one heap, in any order.  A string without data is constructed; *)
(* one that str_clear() emptied still has its pointer and may be           *)
(* constructed again with str() or used as it is.                          *)
(***************************************************************************)
EXTENDS StringOps

CONSTANTS Names,       \* the strings
          Lengths,     \* lengths of literals, counts and sizes
          MaxSize,     \* bound: the size of a string
          MaxExtent    \* bound: bytes of heap explored beyond HeapStart

StringsAssumption ==
  /\ Lengths \subseteq Nat
  /\ {StringReallocAdd, MaxSize, MaxExtent} \subseteq Nat

VARIABLES heap,
          strs,      \* strs[s]: the pointer and the size of string s
          cleared,   \* history: the strings str_clear() emptied last
          reused,    \* history: a string was used after str_clear()
          overrun    \* history: the functions that wrote past their block

vars == <<heap, strs, cleared, reused, overrun>>

-----------------------------------------------------------------------------

InBounds(h) == \A s \in Segs(h) : SegEnd(h, s) <= HeapStart + MaxExtent

\* Outcome r of `function' reaches string s.
Becomes(s, r, function) ==
  /\ InBounds(r.heap) /\ r.str.size <= MaxSize
  /\ heap' = r.heap
  /\ strs' = [strs EXCEPT ![s] = r.str]
  /\ cleared' = cleared \ {s}
  /\ reused' = (reused \/ s \in cleared)
  /\ overrun' =
       IF r.wrote[2] > SegEnd(r.heap, Block(r.str.data))
       THEN overrun \cup {function} ELSE overrun

\* From here on headers hold what was written over them, or two strings
\* write into one block: the model stops.
Broken == heap.misused # {} \/ reused \/ overrun # {}

Init == /\ heap = InitialHeap
        /\ strs = [s \in Names |-> Unset]
        /\ cleared = {}
        /\ reused = FALSE
        /\ overrun = {}

Construct(s) ==
  /\ strs[s].data = Null
  /\ \E n \in Lengths : \/ \E r \in StrE(heap, n) : Becomes(s, r, "stre")
                        \/ \E r \in StrSet(heap, Unset, n) : Becomes(s, r, "stres")

\* str() on a string that was cleared.
Reset(s) ==
  /\ s \in cleared
  /\ strs' = [strs EXCEPT ![s] = Unset]
  /\ cleared' = cleared \ {s}
  /\ UNCHANGED <<heap, reused, overrun>>

Push(s) ==
  \/ \E n \in Lengths : \E r \in StrPush(heap, strs[s], n) :
       Becomes(s, r, "str_push")
  \/ \E r \in StrPushc(heap, strs[s]) : Becomes(s, r, "str_pushc")
  \/ \E o \in Names \ {s} :
       \E r \in StrPushs(heap, strs[s], strs[o]) : Becomes(s, r, "str_pushs")

Set(s) ==
  \E n \in Lengths \cup {strs[o].size : o \in Names} :
    \/ \E r \in StrSet(heap, strs[s], n) : Becomes(s, r, "str_set")
    \/ \E r \in StrResize(heap, strs[s], n) : Becomes(s, r, "str_resize")

Pop(s) ==
  \E count \in Lengths :
    LET r == StrPop(heap, strs[s], count)
    IN /\ heap' = r.heap
       /\ strs' = [strs EXCEPT ![s] = r.str]
       /\ cleared' = IF r.str.data = Null THEN cleared \ {s} ELSE cleared
       /\ reused' = (reused \/ s \in cleared)
       /\ UNCHANGED overrun

Clear(s) ==
  LET r == StrClear(heap, strs[s])
  IN /\ heap' = r.heap
     /\ strs' = [strs EXCEPT ![s] = r.str]
     /\ cleared' = IF strs[s].data = Null THEN cleared ELSE cleared \cup {s}
     /\ reused' = (reused \/ s \in cleared)
     /\ UNCHANGED overrun

TakeOver(s, o) ==
  /\ s # o
  /\ heap' = TakenOver(heap, strs[s])
  /\ strs' = [strs EXCEPT ![s] = strs[o], ![o] = Unset]
  /\ cleared' = (cleared \ {s, o}) \cup (IF o \in cleared THEN {s} ELSE {})
  /\ reused' = (reused \/ s \in cleared)
  /\ UNCHANGED overrun

Use(s) == \/ Construct(s) \/ Reset(s) \/ Push(s) \/ Set(s)
          \/ Pop(s) \/ Clear(s) \/ \E o \in Names : TakeOver(s, o)

Stopped == Broken /\ UNCHANGED vars

Next == (~Broken /\ \E s \in Names : Use(s)) \/ Stopped

-----------------------------------------------------------------------------

\* The strings that own a block.
Holding == {s \in Names : strs[s].data # Null /\ s \notin cleared}

\* Types; every pointer, that of a cleared string included, still names a
\* header, so that the next function finds one in front of it.
StringsTypeOK ==
  /\ HeapType(heap)
  /\ strs \in [Names -> [data : Nat, size : Nat]]
  /\ \A s \in Names : strs[s].data # Null => Block(strs[s].data) \in Segs(heap)
  /\ cleared \subseteq Names

\* The functions keep the heap's side of the bargain: until a heap.end that
\* is not the last segment is misused or a cleared string is used, the used
\* segments are the blocks of the strings, one each, and large enough.
OneBlockEach ==
  heap.misused = {} /\ ~reused =>
    /\ \A s \in Holding : strs[s].size <= heap.size[Block(strs[s].data)]
    /\ \A s, o \in Holding : strs[s].data = strs[o].data => s = o
    /\ heap.used = {Block(strs[s].data) : s \in Holding}

\* Only stre(), which also copies the terminating zero, and str_pushs(),
\* which copies as many bytes as both strings have, write past their block.
OnlyTwoOverrun == overrun \subseteq {"stre", "str_pushs"}
=============================================================================
