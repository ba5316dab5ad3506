---------------------------- MODULE VolatileVector ----------------------------
(***************************************************************************)
(* The locking of lib/vector/volatile-vector.h and                         *)
(* lib/src/vector/volatile-vector.c.  A function takes the spin lock of    *)
(* its vector, works, and either gives the lock back or leaves the vector  *)
(* locked for its caller ("will not unlock the vector").  vvec_take_over() *)
(* takes two locks, and vvec_insert() calls vvec_push(), which takes the   *)
(* lock once more.  Elements are not modelled, blocks are.                 *)
(***************************************************************************)
EXTENDS Naturals, FiniteSets

CONSTANTS Callers,
          Vectors,
          Blocks,      \* what the kernel heap hands out
          Functions,   \* the functions they call
          Null,
          MaxLen       \* bound: the elements of a vector

ASSUME VolatileVectorAssumption ==
  /\ Functions \subseteq {"resize", "push", "pop", "free", "take_over", "insert"}
  /\ Null \notin Blocks
  /\ Cardinality(Blocks) >= Cardinality(Vectors) + Cardinality(Callers)
  /\ MaxLen \in Nat \ {0}

VARIABLES vec,    \* data and length of each vector
          lock,   \* its lock
          place,  \* where each caller is
          job     \* job[c]: function, its vector and the other vector

vvecVars == <<vec, lock, place, job>>

-----------------------------------------------------------------------------

Empty == [data |-> Null, len |-> 0]

VvecInit ==
  /\ vec = [v \in Vectors |-> Empty]
  /\ lock = [v \in Vectors |-> FALSE]
  /\ place = [c \in Callers |-> "idle"]
  /\ job \in [Callers -> {[fun |-> "none", this |-> v, other |-> v] : v \in Vectors}]

Goto(c, label) == place' = [place EXCEPT ![c] = label]

Call(c) ==
  /\ place[c] = "idle"
  /\ \E f \in Functions, v, w \in Vectors :
       /\ (f = "take_over") = (v # w)
       /\ job' = [job EXCEPT ![c] = [fun |-> f, this |-> v, other |-> w]]
  /\ Goto(c, "first")
  /\ UNCHANGED <<vec, lock>>

\* Mutant of Acquire: the loop tests the lock and sets it afterwards.
AcquireBlind(c) ==
  /\ place[c] = "first"
  /\ lock' = [lock EXCEPT ![job[c].this] = TRUE]
  /\ Goto(c, IF job[c].fun = "take_over" THEN "second" ELSE "inside")
  /\ UNCHANGED <<vec, job>>

\* vvec_wait_and_lock() at the beginning of each function; vvec_insert() on a
\* vector without data returns with the lock, on another it calls vvec_push().
Acquire(c) ==
  LET j == job[c]
  IN /\ place[c] = "first" /\ ~lock[j.this]
     /\ lock' = [lock EXCEPT ![j.this] = TRUE]
     /\ Goto(c, IF j.fun \notin {"take_over", "insert"} THEN "inside"
                ELSE IF j.fun = "insert" /\ vec[j.this].data = Null THEN "keeping"
                ELSE "second")
     /\ UNCHANGED <<vec, job>>

\* The second lock: that of the other vector, or the one insert already has.
AcquireAgain(c) ==
  LET v == IF job[c].fun = "insert" THEN job[c].this ELSE job[c].other
  IN /\ place[c] = "second" /\ ~lock[v]
     /\ lock' = [lock EXCEPT ![v] = TRUE]
     /\ Goto(c, "inside")
     /\ UNCHANGED <<vec, job>>

FreeBlocks == Blocks \ {vec[v].data : v \in Vectors}

\* realloc() may leave the block where it is; a length of 0 has a block, too.
Resized(v, len) ==
  \E b \in FreeBlocks \cup ({vec[v].data} \ {Null}) :
    vec' = [vec EXCEPT ![v] = [data |-> b, len |-> len]]

Resize(c) ==
  /\ job[c].fun = "resize"
  /\ \E len \in 0 .. MaxLen :
       IF vec[job[c].this].data # Null /\ vec[job[c].this].len = len
       THEN UNCHANGED vec ELSE Resized(job[c].this, len)

\* vvec_push(), vvec_pushc().  Bound: up to MaxLen elements.
Push(c) ==
  /\ job[c].fun \in {"push", "insert"}
  /\ \E count \in 0 .. MaxLen - vec[job[c].this].len :
       Resized(job[c].this, vec[job[c].this].len + count)

Release(c, label) ==
  /\ lock' = [v \in Vectors |-> lock[v] /\ v \notin {job[c].this, job[c].other}]
  /\ Goto(c, label)
  /\ UNCHANGED job

\* The functions that leave their vector locked.
WorkKeeping(c) ==
  /\ place[c] = "inside" /\ (Resize(c) \/ (Push(c) /\ job[c].fun = "push"))
  /\ Goto(c, "keeping")
  /\ UNCHANGED <<lock, job>>

\* vvec_pop(), vvec_popd()
Pop(c) ==
  LET v == job[c].this
  IN /\ job[c].fun = "pop"
     /\ \E count \in 0 .. MaxLen :
          IF vec[v].len <= count THEN vec' = [vec EXCEPT ![v] = Empty]
                                 ELSE Resized(v, vec[v].len - count)

\* vvec_free()
Free(c) == job[c].fun = "free" /\ vec' = [vec EXCEPT ![job[c].this] = Empty]

\* Mutant of TakeOver: the other vector keeps its data.
TakeOverCopies(c) ==
  /\ job[c].fun = "take_over"
  /\ vec' = [vec EXCEPT ![job[c].this] = vec[job[c].other]]

\* vvec_take_over()
TakeOver(c) ==
  /\ job[c].fun = "take_over"
  /\ vec' = [vec EXCEPT ![job[c].this] = vec[job[c].other], ![job[c].other] = Empty]

\* Mutant of WorkUnlocking: the lock is kept on the way out.
WorkForgetsLock(c) ==
  /\ place[c] = "inside"
  /\ Pop(c) \/ Free(c) \/ TakeOver(c) \/ (Push(c) /\ job[c].fun = "insert")
  /\ Goto(c, "idle")
  /\ UNCHANGED <<lock, job>>

\* The functions that unlock, vvec_insert() after its vvec_push() among them.
WorkUnlocking(c) ==
  /\ place[c] = "inside"
  /\ Pop(c) \/ Free(c) \/ TakeOver(c) \/ (Push(c) /\ job[c].fun = "insert")
  /\ Release(c, "idle")

\* vvec_unlock(), vvec_at_unlock(), vvec_last_unlock() by the caller.
Unlock(c) == place[c] = "keeping" /\ Release(c, "idle") /\ UNCHANGED vec

Spin(c) == place[c] \in {"first", "second"} /\ UNCHANGED vvecVars

Work(c) == WorkKeeping(c) \/ WorkUnlocking(c) \/ Unlock(c)

Step(c) == Call(c) \/ Acquire(c) \/ AcquireAgain(c) \/ Work(c) \/ Spin(c)

VvecNext == \E c \in Callers : Step(c)

\* A caller that holds the locks it needs goes on; one that waits may starve.
VvecSpec == VvecInit /\ [][VvecNext]_vvecVars /\ \A c \in Callers : WF_vvecVars(Work(c))

\* The same, and a caller whose lock stays free gets it.
FairSpec == VvecSpec /\ \A c \in Callers : WF_vvecVars(Acquire(c) \/ AcquireAgain(c))

-----------------------------------------------------------------------------

Jobs == [fun : Functions \cup {"none"}, this : Vectors, other : Vectors]

VvecTypeOK ==
  /\ vec \in [Vectors -> [data : Blocks \cup {Null}, len : 0 .. MaxLen]]
  /\ lock \in [Vectors -> BOOLEAN]
  /\ place \in [Callers -> {"idle", "first", "second", "inside", "keeping"}]
  /\ job \in [Callers -> Jobs]

\* The vectors a caller has locked.
Holds(c) ==
  IF place[c] \in {"second", "keeping"} THEN {job[c].this}
  ELSE IF place[c] = "inside" THEN {job[c].this, job[c].other}
  ELSE {}

\* A vector is locked exactly while one caller works on it, and no two do.
Exclusive ==
  /\ \A v \in Vectors : lock[v] = \E c \in Callers : v \in Holds(c)
  /\ \A c, d \in Callers : c # d => Holds(c) \cap Holds(d) = {}

\* No two vectors share a block, and elements are in one.  (A block may be
\* there without elements: vvec_resize() to 0 allocates and keeps one.)
OwnBlocks ==
  /\ \A v, w \in Vectors : vec[v].data = vec[w].data => v = w \/ vec[v].data = Null
  /\ \A v \in Vectors : vec[v].len # 0 => vec[v].data # Null

\* A lock comes back unless its own holder waits for a second one.
LockReturned ==
  \A v \in Vectors :
    lock[v] ~> (~lock[v] \/ \E c \in Callers : place[c] = "second" /\ v \in Holds(c))

\* The comment in vvec_push(), "will not lock the vector", on which
\* vvec_insert() relies: a caller that has the lock gets through.
InsertReturns ==
  \A c \in Callers : (place[c] = "second" /\ job[c].fun = "insert") ~> place[c] = "idle"
=============================================================================
