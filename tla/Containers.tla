------------------------------- MODULE Containers -------------------------------
(***************************************************************************)
(* The vectors and the strings on the kernel heap, one kind at a time: a   *)
(* vector of one of the families of lib/vector/vector.h, or the strings of *)
(* lib/string.h.                                                           *)
(***************************************************************************)
EXTENDS HeapOps, Sequences, TLC

CONSTANTS Kinds, Marks, ElementSize, ReallocAdd, Slack, MaxLen,
          StringReallocAdd, Names, Lengths, MaxSize,
          MaxExtent

VARIABLES heap, kind,
          vec, elems, resized, wild, dropped, skipped, expected,
          strs, cleared, reused, overrun

vectorVars == <<vec, elems, resized, wild, dropped, skipped, expected>>
stringVars == <<strs, cleared, reused, overrun>>
vars == <<heap, kind, vectorVars, stringVars>>

Vec == INSTANCE Vectors
Str == INSTANCE Strings

ASSUME ContainersAssumption == Vec!VectorsAssumption /\ Str!StringsAssumption

-----------------------------------------------------------------------------

Init == /\ kind \in Kinds
        /\ Vec!Init /\ Str!Init

UseVector == kind # "string" /\ Vec!Next /\ UNCHANGED stringVars
UseStrings == kind = "string" /\ Str!Next /\ UNCHANGED <<kind, vectorVars>>

Next == UseVector \/ UseStrings

Spec == Init /\ [][Next]_vars

Symmetry == Permutations(Names)

-----------------------------------------------------------------------------

\* The vector's block is the only one in use and holds its elements and its
\* capacity, unless a vector with constructors was resized.
BlockHolds == kind # "string" => Vec!VectorTypeOK /\ Vec!BlockHolds

\* In a vector with constructors that nobody resizes, an element is raw only
\* after a push that left its elements to the caller, which the multipurpose
\* vector's never does, and only the pop() of vector_type_cd gives an element
\* up without its destructor.
EachBuiltOnce == Vec!EachBuiltOnce

\* Every string has a block of its own that is large enough, and the blocks of
\* the strings are the ones in use, until a cleared string is used again.  Only
\* stre() and str_pushs() write past theirs.
OneBlockEach == kind = "string" =>
  Str!StringsTypeOK /\ Str!OneBlockEach /\ Str!OnlyTwoOverrun
=============================================================================
