------------------------------ MODULE StringOps ------------------------------
(***************************************************************************)
(* The string functions of lib/string.h and lib/src/string.c over the      *)
(* kernel heap.  A string is a record of its pointer and its size; the     *)
(* literals of the char* variants are given by their length.  Each         *)
(* function is an operator from a heap and a string to the set of its      *)
(* outcomes: the heap and the string it leaves, and the bytes it wrote, as *)
(* the first address and the address behind the last one.                  *)
(***************************************************************************)
EXTENDS HeapOps

CONSTANT StringReallocAdd   \* string_realloc_add

Block(data) == data - HeaderSize

\* An outcome in which the string of `size' bytes lies in the segment that
\* result r of the heap names, and the bytes from `from' to `to' were written.
Placed(r, size, from, to) ==
  LET data == r.seg + HeaderSize
  IN [heap |-> r.heap, str |-> [data |-> data, size |-> size],
      wrote |-> <<data + from, data + to>>]

\* The common shape of the functions that append: a new block of `first'
\* bytes for a string without data, realloca() for the others; `to' is where
\* the copying ends.
AppendBytes(h, s, first, size, to) ==
  IF s.data = Null
  THEN {Placed(r, size, 0, to) : r \in Alloc(h, first)}
  ELSE {Placed(r, size, s.size, to) :
          r \in Realloca(h, Block(s.data), size, StringReallocAdd)}

\* The common shape of the functions that replace the contents.
Replace(h, s, size, to) ==
  {Placed(r, size, 0, to) :
     r \in IF s.data = Null THEN Alloc(h, size)
                            ELSE Realloc(h, Block(s.data), size)}

Unset == [data |-> Null, size |-> 0]

\* stre(): the terminating zero is copied, too, but not counted.
StrE(h, n) == {Placed(r, n, 0, n + 1) : r \in Alloc(h, n)}

\* str_push() of a literal of n characters.
StrPush(h, s, n) == AppendBytes(h, s, n, s.size + n, s.size + n)

\* str_pushs(): memcpy() is given the size of both strings together.
StrPushs(h, s, other) ==
  LET size == s.size + other.size
  IN AppendBytes(h, s, size, size,
            IF s.data = Null THEN other.size ELSE s.size + size)

\* str_pushc(): the first block has room for four characters.
StrPushc(h, s) == AppendBytes(h, s, 4, s.size + 1, s.size + 1)

\* str_set(), str_sets(), str_setss() and stres(), the last on a string
\* without data.
StrSet(h, s, n) == Replace(h, s, n, n)

\* str_resize() copies nothing itself.
StrResize(h, s, n) == Replace(h, s, n, 0)

\* str_pop()
StrPop(h, s, count) ==
  CASE s.data = Null -> [heap |-> h, str |-> s]
    [] s.data # Null /\ s.size <= count ->
         [heap |-> Free(h, Block(s.data)), str |-> Unset]
    [] OTHER -> [heap |-> h, str |-> [s EXCEPT !.size = @ - count]]

\* Mutant of StrClear: nothing is freed.
StrClearLeaks(h, s) == [heap |-> h, str |-> [s EXCEPT !.size = 0]]

\* str_clear(): the pointer to the block given back is kept.
StrClear(h, s) ==
  [heap |-> IF s.data = Null THEN h ELSE Free(h, Block(s.data)),
   str |-> [s EXCEPT !.size = 0]]

\* str_take_over(): the heap it leaves; `other' ends without data.
TakenOver(h, s) == IF s.data = Null THEN h ELSE Free(h, Block(s.data))
=============================================================================
