------------------------------ MODULE Allocator ------------------------------
(***************************************************************************)
(* What the kernel heap promises the data structures that call it          *)
(* (lib/memory/heap/heap.h: alloc, realloc, realloca, free): every owner   *)
(* has its own interval of bytes, a call changes the interval of its       *)
(* caller only, and the intervals never overlap.  `broken' is the state in *)
(* which the promise no longer holds; nothing is said beyond it.           *)
(***************************************************************************)
EXTENDS Integers

CONSTANTS Clients,   \* the owners
          Lengths    \* the lengths they ask for

NoBlock == 0

VARIABLES lo,        \* lo[c]: the first byte of c's block, or NoBlock
          len,       \* len[c]: its length
          broken     \* the promise has been given up

avars == <<lo, len, broken>>

Apart(c, d) ==
  \/ lo[c] = NoBlock
  \/ lo[d] = NoBlock
  \/ lo[c] + len[c] <= lo[d]
  \/ lo[d] + len[d] <= lo[c]

\* Two owners never share a byte: the mutual exclusion on memory that every
\* caller of alloc() and of page_alloc() relies on.
Exclusive == ~broken => \A c, d \in Clients : c # d => Apart(c, d)

AllocatorInit ==
  /\ lo = [c \in Clients |-> NoBlock]
  /\ len = [c \in Clients |-> 0]
  /\ broken = FALSE

\* Nobody but c is affected, and c's new block is apart from all others.
Replace(c) ==
  /\ lo' \in [Clients -> Nat] /\ len' \in [Clients -> Nat]
  /\ \A d \in Clients \ {c} : lo'[d] = lo[d] /\ len'[d] = len[d]
  /\ \A d \in Clients \ {c} : Apart(c, d)'
  /\ broken' = broken

\* alloc()
Acquire(c) == lo[c] = NoBlock /\ lo'[c] # NoBlock /\ len'[c] \in Lengths /\ Replace(c)

\* realloc(), realloca(): in place or elsewhere
Resize(c) == lo[c] # NoBlock /\ lo'[c] # NoBlock /\ len'[c] \in Lengths /\ Replace(c)

\* free()
Release(c) == lo[c] # NoBlock /\ lo'[c] = NoBlock /\ Replace(c)

Break == broken' = TRUE

AllocatorNext ==
  (~broken /\ \E c \in Clients : Acquire(c) \/ Resize(c) \/ Release(c)) \/ Break

AllocatorSpec == AllocatorInit /\ [][AllocatorNext]_avars

=============================================================================
