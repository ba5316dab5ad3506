------------------------------ MODULE LibraryProofs ------------------------------
(***************************************************************************)
(* Proofs about three modules that share nothing: VolatileVector, for any  *)
(* callers, vectors and blocks; Clock, what the timer interrupt can and    *)
(* cannot take from time_update(), for every length of the second and      *)
(* every interleaving; and Output, what is on the screen, for every size   *)
(* of it and everything printed.                                           *)
(***************************************************************************)
EXTENDS VolatileVector, Clock, Output, TLAPS

-----------------------------------------------------------------------------
(* The volatile vector.                                                     *)

\* What a caller works on: only take_over has a second vector, and only
\* take_over and insert wait for a second lock.
Plan(c) ==
  /\ place[c] # "idle" => job[c].fun \in Functions
  /\ job[c].fun = "take_over" \/ job[c].other = job[c].this
  /\ place[c] = "second" => job[c].fun \in {"take_over", "insert"}
  /\ place[c] = "inside" => job[c].fun # "insert"
  /\ place[c] = "keeping" => job[c].other = job[c].this

Planned == \A c \in Callers : Plan(c)

IInv == VvecTypeOK /\ Planned /\ Exclusive /\ OwnBlocks

-----------------------------------------------------------------------------
(* Typing.                                                                  *)

LEMMA JobType ==
  ASSUME NEW c \in Callers, VvecTypeOK
  PROVE  /\ job[c].fun \in Functions \cup {"none"}
         /\ job[c].this \in Vectors
         /\ job[c].other \in Vectors
  BY DEF VvecTypeOK, Jobs

\* A resized vector has a block nobody else has, with or without elements.
LEMMA ResizedFits ==
  ASSUME VvecTypeOK, OwnBlocks, NEW v \in Vectors,
         NEW len \in 0 .. MaxLen, Resized(v, len)
  PROVE  /\ vec' \in [Vectors -> [data : Blocks \cup {Null}, len : 0 .. MaxLen]]
         /\ OwnBlocks'
  <1>1. PICK b \in FreeBlocks \cup ({vec[v].data} \ {Null}) :
          vec' = [vec EXCEPT ![v] = [data |-> b, len |-> len]]
    BY DEF Resized
  <1>2. /\ b \in Blocks
        /\ \A w \in Vectors \ {v} : vec[w].data # b
    BY DEF FreeBlocks, VvecTypeOK, OwnBlocks
  <1>3. b # Null
    BY <1>2, VolatileVectorAssumption
  <1>4. /\ vec'[v] = [data |-> b, len |-> len]
        /\ \A w \in Vectors \ {v} : vec'[w] = vec[w]
    BY <1>1 DEF VvecTypeOK
  <1>5. vec' \in [Vectors -> [data : Blocks \cup {Null}, len : 0 .. MaxLen]]
    BY <1>1, <1>2, VolatileVectorAssumption DEF VvecTypeOK
  <1>6. \A w \in Vectors : vec'[w].len # 0 => vec'[w].data # Null
    BY <1>3, <1>4 DEF OwnBlocks
  <1>7. \A w, x \in Vectors :
          vec'[w].data = vec'[x].data => w = x \/ vec'[w].data = Null
    BY <1>2, <1>4 DEF OwnBlocks
  <1> QED
    BY <1>5, <1>6, <1>7 DEF OwnBlocks

LEMMA EmptiedFits ==
  ASSUME VvecTypeOK, OwnBlocks, NEW v \in Vectors, vec' = [vec EXCEPT ![v] = Empty]
  PROVE  /\ vec' \in [Vectors -> [data : Blocks \cup {Null}, len : 0 .. MaxLen]]
         /\ OwnBlocks'
  BY VolatileVectorAssumption DEF VvecTypeOK, OwnBlocks, Empty

LEMMA TakenOverFits ==
  ASSUME VvecTypeOK, OwnBlocks, NEW v \in Vectors, NEW w \in Vectors,
         vec' = [vec EXCEPT ![v] = vec[w], ![w] = Empty]
  PROVE  /\ vec' \in [Vectors -> [data : Blocks \cup {Null}, len : 0 .. MaxLen]]
         /\ OwnBlocks'
  <1>1. /\ vec'[w] = Empty
        /\ v # w => vec'[v] = vec[w]
        /\ \A x \in Vectors \ {v, w} : vec'[x] = vec[x]
    BY DEF VvecTypeOK
  <1>2. vec' \in [Vectors -> [data : Blocks \cup {Null}, len : 0 .. MaxLen]]
    BY VolatileVectorAssumption DEF VvecTypeOK, Empty
  <1>3. ASSUME NEW x \in Vectors
        PROVE  vec'[x].len # 0 => vec'[x].data # Null
    <2>1. CASE x = w
      BY <1>1, <2>1 DEF Empty
    <2>2. CASE x # w /\ x = v
      BY <1>1, <2>2 DEF OwnBlocks
    <2>3. CASE x \notin {v, w}
      BY <1>1, <2>3 DEF OwnBlocks
    <2> QED
      BY <2>1, <2>2, <2>3
  <1>4. ASSUME NEW x \in Vectors, NEW y \in Vectors,
               vec'[x].data = vec'[y].data, vec'[x].data # Null
        PROVE  x = y
    <2> DEFINE from(z) == IF z = v THEN w ELSE z
    <2>1. x # w /\ y # w
      <3>1. vec'[w].data = Null
        BY <1>1 DEF Empty
      <3> QED
        BY <1>4, <3>1
    <2>2. vec'[x] = vec[from(x)] /\ vec'[y] = vec[from(y)]
      BY <1>1, <2>1
    <2>3. from(x) \in Vectors /\ from(y) \in Vectors
      OBVIOUS
    <2>4. from(x) = from(y)
      <3> HIDE DEF from
      <3> QED
        BY <1>4, <2>2, <2>3 DEF OwnBlocks
    <2> QED
      BY <2>1, <2>4
  <1>5. \A x, y \in Vectors : vec'[x].data = vec'[y].data => x = y \/ vec'[x].data = Null
    BY <1>4
  <1>6. \A x \in Vectors : vec'[x].len # 0 => vec'[x].data # Null
    BY <1>3
  <1> QED
    BY <1>2, <1>5, <1>6 DEF OwnBlocks

\* Every piece of work leaves vectors that fit together.
LEMMA WorkFits ==
  ASSUME IInv, NEW c \in Callers, place[c] = "inside",
         Resize(c) \/ Push(c) \/ Pop(c) \/ Free(c) \/ TakeOver(c)
  PROVE  /\ vec' \in [Vectors -> [data : Blocks \cup {Null}, len : 0 .. MaxLen]]
         /\ OwnBlocks'
  <1> USE DEF IInv
  <1>1. /\ job[c].this \in Vectors /\ job[c].other \in Vectors
        /\ vec[job[c].this].len \in 0 .. MaxLen
    <2>1. job[c].this \in Vectors /\ job[c].other \in Vectors
      BY JobType
    <2> QED
      BY <2>1 DEF VvecTypeOK
  <1>2. CASE Resize(c)
    <2>1. PICK len \in 0 .. MaxLen :
            IF vec[job[c].this].data # Null /\ vec[job[c].this].len = len
            THEN UNCHANGED vec ELSE Resized(job[c].this, len)
      BY <1>2 DEF Resize
    <2>2. CASE UNCHANGED vec
      BY <2>2 DEF VvecTypeOK, OwnBlocks
    <2>3. CASE Resized(job[c].this, len)
      BY <1>1, <2>3, ResizedFits
    <2> QED
      BY <2>1, <2>2, <2>3
  <1>3. CASE Push(c)
    <2>1. PICK count \in 0 .. MaxLen - vec[job[c].this].len :
            Resized(job[c].this, vec[job[c].this].len + count)
      BY <1>3 DEF Push
    <2>2. vec[job[c].this].len + count \in 0 .. MaxLen
      BY <1>1, VolatileVectorAssumption
    <2> QED
      BY <1>1, <2>1, <2>2, ResizedFits
  <1>4. CASE Pop(c)
    <2>1. PICK count \in 0 .. MaxLen :
            IF vec[job[c].this].len <= count
            THEN vec' = [vec EXCEPT ![job[c].this] = Empty]
            ELSE Resized(job[c].this, vec[job[c].this].len - count)
      BY <1>4 DEF Pop
    <2>2. CASE vec[job[c].this].len <= count
      BY <1>1, <2>1, <2>2, EmptiedFits
    <2>3. CASE ~(vec[job[c].this].len <= count)
      <3>1. vec[job[c].this].len - count \in 0 .. MaxLen
        BY <1>1, <2>3, VolatileVectorAssumption
      <3> QED
        BY <1>1, <2>1, <2>3, <3>1, ResizedFits
    <2> QED
      BY <2>2, <2>3
  <1>5. CASE Free(c)
    BY <1>1, <1>5, EmptiedFits DEF Free
  <1>6. CASE TakeOver(c)
    BY <1>1, <1>6, TakenOverFits DEF TakeOver
  <1> QED
    BY <1>2, <1>3, <1>4, <1>5, <1>6

-----------------------------------------------------------------------------
(* The lock.                                                                *)

\* What a step of one caller does to what the others hold.
LEMMA OthersHold ==
  ASSUME VvecTypeOK, NEW c \in Callers, NEW label,
         Goto(c, label), UNCHANGED job
  PROVE  /\ place'[c] = label
         /\ \A d \in Callers \ {c} : place'[d] = place[d] /\ Holds(d)' = Holds(d)
  BY DEF VvecTypeOK, Goto, Holds

\* A step that takes and gives back nothing.
LEMMA KeptExclusive ==
  ASSUME Exclusive, UNCHANGED lock, \A d \in Callers : Holds(d)' = Holds(d)
  PROVE  Exclusive'
  <1>1. ASSUME NEW v \in Vectors
        PROVE  lock'[v] = \E d \in Callers : v \in Holds(d)'
    <2>1. lock[v] = \E d \in Callers : v \in Holds(d)
      BY DEF Exclusive
    <2>2. (\E d \in Callers : v \in Holds(d)') <=> (\E d \in Callers : v \in Holds(d))
      OBVIOUS
    <2> QED
      BY <2>1, <2>2
  <1>2. \A d, e \in Callers : d # e => Holds(d)' \cap Holds(e)' = {}
    BY DEF Exclusive
  <1> QED
    BY <1>1, <1>2 DEF Exclusive

\* A caller that takes the lock of v, which nobody holds.
LEMMA TakenExclusive ==
  ASSUME VvecTypeOK, Exclusive, NEW c \in Callers, NEW v \in Vectors, ~lock[v],
         lock' = [lock EXCEPT ![v] = TRUE],
         \A d \in Callers \ {c} : Holds(d)' = Holds(d),
         Holds(c)' = Holds(c) \cup {v}
  PROVE  Exclusive'
  <1>1. \A d \in Callers : v \notin Holds(d)
    BY DEF Exclusive
  <1>2. ASSUME NEW w \in Vectors
        PROVE  lock'[w] <=> \E d \in Callers : w \in Holds(d)'
    <2>1. CASE w = v
      BY <2>1 DEF VvecTypeOK
    <2>2. CASE w # v
      <3>1. lock'[w] = lock[w] /\ \A d \in Callers : w \in Holds(d)' <=> w \in Holds(d)
        BY <2>2 DEF VvecTypeOK
      <3> QED
        BY <3>1 DEF Exclusive
    <2> QED
      BY <2>1, <2>2
  <1>3. ASSUME NEW d \in Callers, NEW e \in Callers, d # e
        PROVE  Holds(d)' \cap Holds(e)' = {}
    <2>1. Holds(d) \cap Holds(e) = {}
      BY <1>3 DEF Exclusive
    <2> QED
      BY <1>1, <1>3, <2>1
  <1>4. \A w \in Vectors : lock'[w] = \E d \in Callers : w \in Holds(d)'
    BY <1>2 DEF VvecTypeOK
  <1> QED
    BY <1>3, <1>4 DEF Exclusive

\* A caller that gives everything back it holds.
LEMMA ReleasedExclusive ==
  ASSUME VvecTypeOK, Exclusive, NEW c \in Callers,
         lock' = [v \in Vectors |-> lock[v] /\ v \notin Holds(c)],
         \A d \in Callers \ {c} : Holds(d)' = Holds(d),
         Holds(c)' = {}
  PROVE  Exclusive'
  <1>1. ASSUME NEW w \in Vectors
        PROVE  lock'[w] <=> \E d \in Callers : w \in Holds(d)'
    <2>1. CASE w \in Holds(c)
      <3>1. ~lock'[w]
        BY <2>1
      <3>2. \A d \in Callers \ {c} : w \notin Holds(d)
        BY <2>1 DEF Exclusive
      <3> QED
        BY <3>1, <3>2
    <2>2. CASE w \notin Holds(c)
      <3>1. lock'[w] <=> lock[w]
        BY <2>2
      <3>2. \A d \in Callers : w \in Holds(d)' <=> w \in Holds(d)
        BY <2>2
      <3>3. lock[w] <=> \E d \in Callers : w \in Holds(d)
        BY DEF Exclusive
      <3> QED
        BY <3>1, <3>2, <3>3
    <2> QED
      BY <2>1, <2>2
  <1>2. ASSUME NEW d \in Callers, NEW e \in Callers, d # e
        PROVE  Holds(d)' \cap Holds(e)' = {}
    <2>1. Holds(d) \cap Holds(e) = {}
      BY <1>2 DEF Exclusive
    <2> QED
      BY <1>2, <2>1
  <1>3. \A w \in Vectors : lock'[w] = \E d \in Callers : w \in Holds(d)'
    <2>1. \A w \in Vectors : lock'[w] \in BOOLEAN
      OBVIOUS
    <2> QED
      BY <1>1, <2>1
  <1> QED
    BY <1>2, <1>3 DEF Exclusive

-----------------------------------------------------------------------------
(* The steps.                                                               *)

\* A caller's plan stands while others go on.
LEMMA OthersPlanned ==
  ASSUME NEW d \in Callers, Plan(d), place'[d] = place[d], job'[d] = job[d]
  PROVE  Plan(d)'
  BY DEF Plan

LEMMA CallKeeps ==
  ASSUME IInv, NEW c \in Callers, Call(c)
  PROVE  IInv'
  <1> USE DEF IInv
  <1>1. PICK f \in Functions, v \in Vectors, w \in Vectors :
          /\ (f = "take_over") = (v # w)
          /\ job' = [job EXCEPT ![c] = [fun |-> f, this |-> v, other |-> w]]
    BY DEF Call
  <1>2. /\ place'[c] = "first" /\ job'[c] = [fun |-> f, this |-> v, other |-> w]
        /\ \A d \in Callers \ {c} : place'[d] = place[d] /\ job'[d] = job[d]
        /\ UNCHANGED <<vec, lock>>
    BY <1>1 DEF Call, Goto, VvecTypeOK
  <1>3. VvecTypeOK'
    <2>1. job' \in [Callers -> Jobs]
      BY <1>1 DEF VvecTypeOK, Jobs
    <2>2. place' \in [Callers -> {"idle", "first", "second", "inside", "keeping"}]
      BY DEF Call, Goto, VvecTypeOK
    <2> QED
      BY <1>2, <2>1, <2>2 DEF VvecTypeOK
  <1>4. Planned'
    <2>1. Plan(c)'
      BY <1>1, <1>2 DEF Plan
    <2>2. \A d \in Callers \ {c} : Plan(d)'
      BY <1>2, OthersPlanned DEF Planned
    <2> QED
      BY <2>1, <2>2 DEF Planned
  <1>5. \A d \in Callers : Holds(d)' = Holds(d)
    BY <1>2 DEF Holds, Call
  <1>6. Exclusive'
    BY <1>2, <1>5, KeptExclusive
  <1> QED
    BY <1>2, <1>3, <1>4, <1>6 DEF OwnBlocks

LEMMA AcquireKeeps ==
  ASSUME IInv, NEW c \in Callers, Acquire(c)
  PROVE  IInv'
  <1> USE DEF IInv
  <1> DEFINE next == IF job[c].fun \notin {"take_over", "insert"} THEN "inside"
                     ELSE IF job[c].fun = "insert" /\ vec[job[c].this].data = Null
                     THEN "keeping" ELSE "second"
  <1>1. /\ Goto(c, next) /\ UNCHANGED <<vec, job>>
        /\ job[c].this \in Vectors /\ ~lock[job[c].this]
        /\ lock' = [lock EXCEPT ![job[c].this] = TRUE]
    BY JobType DEF Acquire
  <1>2. /\ place'[c] = next
        /\ \A d \in Callers \ {c} : place'[d] = place[d] /\ Holds(d)' = Holds(d)
    BY <1>1, OthersHold
  <1>3. VvecTypeOK'
    <2>1. place' \in [Callers -> {"idle", "first", "second", "inside", "keeping"}]
      BY <1>1 DEF VvecTypeOK, Goto
    <2>2. lock' \in [Vectors -> BOOLEAN]
      BY <1>1 DEF VvecTypeOK
    <2> QED
      BY <1>1, <2>1, <2>2 DEF VvecTypeOK
  <1>4. Planned'
    <2>1. Plan(c)'
      BY <1>1, <1>2 DEF Acquire, Planned, Plan
    <2>2. \A d \in Callers \ {c} : Plan(d)'
      BY <1>1, <1>2, OthersPlanned DEF Planned
    <2> QED
      BY <2>1, <2>2 DEF Planned
  <1>5. Holds(c)' = Holds(c) \cup {job[c].this}
    <2>1. Holds(c) = {}
      BY DEF Acquire, Holds
    <2>2. place'[c] = "inside" => job[c].other = job[c].this
      BY <1>2 DEF Planned, Plan
    <2> QED
      BY <1>1, <1>2, <2>1, <2>2 DEF Holds
  <1>6. Exclusive'
    BY <1>1, <1>2, <1>5, TakenExclusive
  <1> QED
    BY <1>1, <1>3, <1>4, <1>6 DEF OwnBlocks

\* vvec_insert() never gets here: its vector is locked, by itself.
LEMMA AcquireAgainKeeps ==
  ASSUME IInv, NEW c \in Callers, AcquireAgain(c)
  PROVE  IInv'
  <1> USE DEF IInv
  <1>1. job[c].this \in Vectors /\ job[c].other \in Vectors
    BY JobType
  <1>2. lock[job[c].this]
    BY <1>1 DEF AcquireAgain, Exclusive, Holds
  <1>3. job[c].fun = "take_over"
    BY <1>2 DEF AcquireAgain, Planned, Plan
  <1>4. /\ place[c] = "second" /\ ~lock[job[c].other]
        /\ lock' = [lock EXCEPT ![job[c].other] = TRUE]
        /\ Goto(c, "inside") /\ UNCHANGED <<vec, job>>
    BY <1>3 DEF AcquireAgain
  <1>5. /\ place'[c] = "inside"
        /\ \A d \in Callers \ {c} : place'[d] = place[d] /\ Holds(d)' = Holds(d)
    BY <1>4, OthersHold
  <1>6. VvecTypeOK'
    <2>1. place' \in [Callers -> {"idle", "first", "second", "inside", "keeping"}]
      BY <1>4 DEF VvecTypeOK, Goto
    <2>2. lock' \in [Vectors -> BOOLEAN]
      BY <1>4 DEF VvecTypeOK
    <2> QED
      BY <1>4, <2>1, <2>2 DEF VvecTypeOK
  <1>7. Planned'
    <2>1. Plan(c)'
      BY <1>3, <1>4, <1>5 DEF Planned, Plan
    <2>2. \A d \in Callers \ {c} : Plan(d)'
      BY <1>4, <1>5, OthersPlanned DEF Planned
    <2> QED
      BY <2>1, <2>2 DEF Planned
  <1>8. Holds(c)' = Holds(c) \cup {job[c].other}
    BY <1>4, <1>5 DEF Holds
  <1>9. Exclusive'
    BY <1>1, <1>4, <1>5, <1>8, TakenExclusive
  <1> QED
    BY <1>4, <1>6, <1>7, <1>9 DEF OwnBlocks

\* The plans of the others stand while one caller works and moves on.
LEMMA WorkPlanned ==
  ASSUME IInv, NEW c \in Callers, NEW label, Goto(c, label), UNCHANGED job,
         Plan(c)'
  PROVE  Planned'
  <1> USE DEF IInv
  <1>1. ASSUME NEW d \in Callers, d # c
        PROVE  Plan(d)'
    <2>1. place'[d] = place[d] /\ job'[d] = job[d]
      BY <1>1 DEF Goto, VvecTypeOK
    <2> QED
      BY <2>1, OthersPlanned DEF Planned
  <1> QED
    BY <1>1 DEF Planned

LEMMA WorkKeepingKeeps ==
  ASSUME IInv, NEW c \in Callers, WorkKeeping(c)
  PROVE  IInv'
  <1> USE DEF IInv
  <1>1. /\ place[c] = "inside" /\ Goto(c, "keeping") /\ UNCHANGED <<lock, job>>
        /\ Resize(c) \/ Push(c) \/ Pop(c) \/ Free(c) \/ TakeOver(c)
    BY DEF WorkKeeping
  <1>2. job[c].other = job[c].this
    BY DEF WorkKeeping, Resize, Planned, Plan
  <1>3. /\ place'[c] = "keeping"
        /\ \A d \in Callers \ {c} : place'[d] = place[d] /\ Holds(d)' = Holds(d)
    BY <1>1, OthersHold
  <1>4. /\ vec' \in [Vectors -> [data : Blocks \cup {Null}, len : 0 .. MaxLen]]
        /\ OwnBlocks'
    BY <1>1, WorkFits
  <1>5. VvecTypeOK'
    <2>1. place' \in [Callers -> {"idle", "first", "second", "inside", "keeping"}]
      BY <1>1 DEF VvecTypeOK, Goto
    <2> QED
      BY <1>1, <1>4, <2>1 DEF VvecTypeOK
  <1>6. Planned'
    <2>1. Plan(c)'
      BY <1>1, <1>2, <1>3 DEF Planned, Plan
    <2> QED
      BY <1>1, <2>1, WorkPlanned
  <1>7. \A d \in Callers : Holds(d)' = Holds(d)
    <2>1. Holds(c)' = Holds(c)
      BY <1>1, <1>2, <1>3 DEF Holds
    <2> QED
      BY <1>3, <2>1
  <1>8. Exclusive'
    BY <1>1, <1>7, KeptExclusive
  <1> QED
    BY <1>4, <1>5, <1>6, <1>8

\* What a caller that releases its locks leaves behind.
LEMMA ReleaseKeeps ==
  ASSUME IInv, NEW c \in Callers, place[c] \in {"inside", "keeping"}, Release(c, "idle"),
         vec' \in [Vectors -> [data : Blocks \cup {Null}, len : 0 .. MaxLen]],
         OwnBlocks'
  PROVE  IInv'
  <1> USE DEF IInv
  <1>1. Goto(c, "idle") /\ UNCHANGED job
    BY DEF Release
  <1>2. /\ place'[c] = "idle"
        /\ \A d \in Callers \ {c} : place'[d] = place[d] /\ Holds(d)' = Holds(d)
    BY <1>1, OthersHold
  <1>3. Holds(c) = {job[c].this, job[c].other}
    BY DEF Holds, Planned, Plan
  <1>4. lock' = [v \in Vectors |-> lock[v] /\ v \notin Holds(c)]
    BY <1>3 DEF Release
  <1>5. VvecTypeOK'
    <2>1. place' \in [Callers -> {"idle", "first", "second", "inside", "keeping"}]
      BY <1>1 DEF VvecTypeOK, Goto
    <2>2. lock' \in [Vectors -> BOOLEAN]
      BY <1>4
    <2> QED
      BY <1>1, <2>1, <2>2 DEF VvecTypeOK
  <1>6. Planned'
    <2>1. Plan(c)'
      BY <1>1, <1>2 DEF Planned, Plan
    <2> QED
      BY <1>1, <2>1, WorkPlanned
  <1>7. Holds(c)' = {}
    BY <1>2 DEF Holds
  <1>8. Exclusive'
    BY <1>2, <1>4, <1>7, ReleasedExclusive
  <1> QED
    BY <1>5, <1>6, <1>8

LEMMA Inductive ==
  ASSUME IInv, [VvecNext]_vvecVars
  PROVE  IInv'
  <1>1. CASE UNCHANGED vvecVars
    <2>1. VvecTypeOK'
      BY <1>1 DEF vvecVars, IInv, VvecTypeOK
    <2>2. Planned'
      BY <1>1 DEF vvecVars, IInv, Planned, Plan
    <2>3. Exclusive'
      BY <1>1 DEF vvecVars, IInv, Exclusive, Holds
    <2>4. OwnBlocks'
      BY <1>1 DEF vvecVars, IInv, OwnBlocks
    <2> QED
      BY <2>1, <2>2, <2>3, <2>4 DEF IInv
  <1>2. ASSUME NEW c \in Callers, Step(c)
        PROVE  IInv'
    <2>1. CASE Call(c)
      BY <2>1, CallKeeps
    <2>2. CASE Acquire(c)
      BY <2>2, AcquireKeeps
    <2>3. CASE AcquireAgain(c)
      BY <2>3, AcquireAgainKeeps
    <2>4. CASE WorkKeeping(c)
      BY <2>4, WorkKeepingKeeps
    <2>5. CASE WorkUnlocking(c)
      <3>1. /\ place[c] = "inside" /\ Release(c, "idle")
            /\ Resize(c) \/ Push(c) \/ Pop(c) \/ Free(c) \/ TakeOver(c)
        BY <2>5 DEF WorkUnlocking
      <3>2. /\ vec' \in [Vectors -> [data : Blocks \cup {Null}, len : 0 .. MaxLen]]
            /\ OwnBlocks'
        BY <3>1, WorkFits
      <3> QED
        BY <3>1, <3>2, ReleaseKeeps
    <2>6. CASE Unlock(c)
      <3>1. place[c] = "keeping" /\ Release(c, "idle") /\ UNCHANGED vec
        BY <2>6 DEF Unlock
      <3>2. /\ vec' \in [Vectors -> [data : Blocks \cup {Null}, len : 0 .. MaxLen]]
            /\ OwnBlocks'
        BY <3>1 DEF IInv, VvecTypeOK, OwnBlocks
      <3> QED
        BY <3>1, <3>2, ReleaseKeeps
    <2>7. CASE Spin(c)
      BY <1>1, <2>7 DEF Spin
    <2> QED
      BY <1>2, <2>1, <2>2, <2>3, <2>4, <2>5, <2>6, <2>7 DEF Step, Work
  <1> QED
    BY <1>1, <1>2 DEF VvecNext

LEMMA Initial ==
  ASSUME VvecInit
  PROVE  IInv
  <1>1. \A c \in Callers : \E v \in Vectors :
          job[c] = [fun |-> "none", this |-> v, other |-> v]
    BY DEF VvecInit
  <1>2. VvecTypeOK
    BY VolatileVectorAssumption DEF VvecInit, VvecTypeOK, Empty, Jobs
  <1>3. Planned
    BY <1>1 DEF VvecInit, Planned, Plan
  <1>4. \A c \in Callers : Holds(c) = {}
    BY DEF VvecInit, Holds
  <1>5. Exclusive
    BY <1>4 DEF VvecInit, Exclusive
  <1>6. OwnBlocks
    BY DEF VvecInit, OwnBlocks, Empty
  <1> QED
    BY <1>2, <1>3, <1>5, <1>6 DEF IInv

THEOREM Invariance == VvecSpec => []IInv
  <1>1. VvecInit => IInv
    BY Initial
  <1>2. IInv /\ [VvecNext]_vvecVars => IInv'
    BY Inductive
  <1> QED
    BY <1>1, <1>2, PTL DEF VvecSpec

-----------------------------------------------------------------------------
(* What a reader should know.                                               *)

\* The variables keep their types: no vector grows beyond what its callers may
\* push, and no length is taken below 0.
THEOREM VvecTypeCorrect == VvecSpec => []VvecTypeOK
  BY Invariance, PTL DEF IInv

\* vvec_wait_and_lock() and vvec_unlock(): a vector is locked exactly while one
\* caller works on it, for any callers and vectors and whatever they call.
THEOREM LockExclusive == VvecSpec => []Exclusive
  BY Invariance, PTL DEF IInv

\* Under the locks no two vectors share a block, through all moves of
\* vvec_take_over() and realloc().
THEOREM BlocksOwned == VvecSpec => []OwnBlocks
  BY Invariance, PTL DEF IInv

-----------------------------------------------------------------------------
(* The clock: the count of the ticks.                                       *)


\* The part of the type invariant the count of the ticks rests on.
Numbers == tick \in Nat /\ reg \in Nat /\ elapsed \in Nat /\ whole \in Nat

\* What time_update() will leave in `tick', from where it is.
Rest == IF pc = "read" THEN tick % Millis
        ELSE IF pc = "write" THEN reg % Millis ELSE tick

\* The invariant: the seconds counted and the rest are no more than the
\* ticks so far, and all of them if no interrupt fell between the accesses.
Balanced ==
  /\ whole * Millis + Rest <= elapsed
  /\ ~raced => whole * Millis + Rest = elapsed

\* Seconds and rest make up the ticks.
LEMMA Division ==
  ASSUME NEW t \in Nat
  PROVE  /\ t \div Millis \in Nat /\ t % Millis \in Nat
         /\ t = ((t \div Millis) * Millis) + (t % Millis)
  BY ClockAssumption

\* One more tick adds at most one to the rest.
LEMMA OneMore ==
  ASSUME NEW t \in Nat
  PROVE  (t + 1) % Millis <= (t % Millis) + 1
  BY ClockAssumption, SMTT(30)

LEMMA NumbersNext == Numbers /\ [Next]_vars => Numbers'
  <1> SUFFICES ASSUME Numbers, [Next]_vars
               PROVE  Numbers'
    OBVIOUS
  <1> USE DEF Numbers, history, clock
  <1>1. CASE TimerInterrupt
    BY <1>1 DEF TimerInterrupt
  <1>2. CASE AddSeconds
    BY <1>2, Division DEF AddSeconds
  <1>3. CASE ReadTick
    BY <1>3 DEF ReadTick
  <1>4. CASE WriteTick
    BY <1>4, Division DEF WriteTick
  <1>5. CASE Carry \/ Months \/ Bounded \/ UNCHANGED vars
    BY <1>5 DEF Carry, Months, Bounded, vars
  <1> QED
    BY <1>1, <1>2, <1>3, <1>4, <1>5 DEF Next, time_update

LEMMA BalancedNext == Numbers /\ Balanced /\ [Next]_vars => Balanced'
  <1> SUFFICES ASSUME Numbers, Balanced, [Next]_vars
               PROVE  Balanced'
    OBVIOUS
  <1> USE DEF Numbers, history, clock
  <1>1. Millis \in Nat \ {0}
    BY ClockAssumption
  <1>7. whole * Millis \in Nat
    BY <1>1
  <1>2. CASE TimerInterrupt
    <2>1. /\ tick' = tick + 1 /\ elapsed' = elapsed + 1
          /\ pc' = pc /\ reg' = reg /\ whole' = whole
          /\ raced' = (raced \/ pc \in {"read", "write"})
      BY <1>2 DEF TimerInterrupt
    <2>2. raced' <=> raced \/ pc \in {"read", "write"}
      BY <2>1
    <2>3. /\ Rest' <= Rest + 1 /\ Rest \in Nat /\ Rest' \in Nat
          /\ pc \notin {"read", "write"} => Rest' = Rest + 1
      <3>1. CASE pc = "read"
        <4>1. Rest = tick % Millis /\ Rest' = (tick + 1) % Millis
          BY <2>1, <3>1 DEF Rest
        <4> QED
          BY <3>1, <4>1, OneMore, Division
      <3>2. CASE pc = "write"
        <4>1. Rest' = Rest /\ Rest \in Nat
          BY <2>1, <3>2, Division DEF Rest
        <4> QED
          BY <3>2, <4>1
      <3>3. CASE pc \notin {"read", "write"}
        <4>1. Rest = tick /\ Rest' = tick + 1
          BY <2>1, <3>3 DEF Rest
        <4> QED
          BY <4>1
      <3> QED
        BY <3>1, <3>2, <3>3
    <2>4. whole' * Millis + Rest' <= elapsed'
      BY <1>7, <2>1, <2>3 DEF Balanced
    <2>5. ASSUME ~raced'
          PROVE  whole' * Millis + Rest' = elapsed'
      <3>1. ~raced /\ pc \notin {"read", "write"}
        BY <2>2, <2>5
      <3>2. whole * Millis + Rest = elapsed
        BY <3>1 DEF Balanced
      <3>3. Rest' = Rest + 1
        BY <2>3, <3>1
      <3> QED
        BY <1>7, <2>1, <2>3, <3>2, <3>3
    <2> QED
      BY <2>4, <2>5 DEF Balanced
  <1>3. CASE AddSeconds
    <2> DEFINE d == tick \div Millis
    <2>1. /\ Rest = tick /\ Rest' = tick % Millis
          /\ whole' = whole + d /\ elapsed' = elapsed /\ raced' = raced
      BY <1>3 DEF AddSeconds, Rest
    <2>2. d \in Nat /\ tick % Millis \in Nat /\ tick = (d * Millis) + (tick % Millis)
      BY Division
    <2> HIDE DEF d
    <2>3. (whole + d) * Millis = whole * Millis + d * Millis
      BY <1>1, <2>2
    <2>4. d * Millis \in Nat
      BY <1>1, <2>2
    <2>5. whole' * Millis + Rest' = whole * Millis + Rest
      BY <1>7, <2>1, <2>2, <2>3, <2>4
    <2> QED
      BY <2>1, <2>5 DEF Balanced
  <1>4. CASE ReadTick
    <2>1. Rest' = Rest
      BY <1>4 DEF ReadTick, Rest
    <2>2. whole' = whole /\ elapsed' = elapsed /\ raced' = raced
      BY <1>4 DEF ReadTick
    <2> QED
      BY <2>1, <2>2 DEF Balanced
  <1>5. CASE WriteTick
    <2>1. Rest' = Rest
      BY <1>5 DEF WriteTick, Rest
    <2>2. whole' = whole /\ elapsed' = elapsed /\ raced' = raced
      BY <1>5 DEF WriteTick
    <2> QED
      BY <2>1, <2>2 DEF Balanced
  <1>6. CASE Carry \/ Months \/ Bounded \/ UNCHANGED vars
    <2>1. /\ tick' = tick /\ reg' = reg
          /\ (pc \in {"read", "write"} \/ pc' \in {"read", "write"} => pc' = pc)
      BY <1>6 DEF Carry, Months, Bounded, vars
    <2>2. Rest' = Rest
      BY <2>1 DEF Rest
    <2>3. whole' = whole /\ elapsed' = elapsed /\ raced' = raced
      BY <1>6 DEF Carry, Months, Bounded, vars
    <2> QED
      BY <2>2, <2>3 DEF Balanced
  <1> QED
    BY <1>2, <1>3, <1>4, <1>5, <1>6 DEF Next, time_update

LEMMA InitBalanced == Init => Numbers /\ Balanced
  BY ClockAssumption DEF Init, Numbers, Balanced, Rest

\* No tick is ever counted twice.
THEOREM ClockNeverAhead == Spec => []NeverAhead
  <1>1. Balanced => NeverAhead
    BY DEF Balanced, NeverAhead, TickIsLeft, Rest
  <1> QED
    BY <1>1, InitBalanced, NumbersNext, BalancedNext, PTL DEF Spec

\* A tick is lost only to an interrupt between the two accesses.
THEOREM ClockCountsAll == Spec => []CountsAll
  <1>1. Balanced => CountsAll
    BY DEF Balanced, CountsAll, TickIsLeft, Rest
  <1> QED
    BY <1>1, InitBalanced, NumbersNext, BalancedNext, PTL DEF Spec


-----------------------------------------------------------------------------
(* The pixels of a cell.                                                    *)

\* Two numbers written in base n are equal in both of their digits.
LEMMA Digits ==
  ASSUME NEW n \in Nat \ {0}, NEW x \in Nat, NEW y \in Nat,
         NEW a \in 0 .. n - 1, NEW b \in 0 .. n - 1, x * n + a = y * n + b
  PROVE  x = y /\ a = b
  <1>1. ASSUME NEW u \in Nat, NEW v \in Nat, NEW d \in 0 .. n - 1,
               NEW e \in 0 .. n - 1, u < v
        PROVE  u * n + d < v * n + e
    <2>1. u + 1 <= v /\ n \in Nat
      BY <1>1
    <2>2. (u + 1) * n <= v * n
      BY <2>1
    <2>3. u * n + d < (u + 1) * n
      OBVIOUS
    <2> QED
      BY <2>2, <2>3
  <1>2. ~(x < y) /\ ~(y < x)
    <2>1. x < y => x * n + a < y * n + b
      BY <1>1
    <2>2. y < x => y * n + b < x * n + a
      BY <1>1
    <2> QED
      BY <2>1, <2>2
  <1> QED
    BY <1>2

\* A row of cells is as wide as the screen, or its last cell crosses the edge.
LEMMA RowWidth ==
  /\ Columns \in Nat /\ Columns * FontSize >= W
  /\ W % FontSize = 0 => Columns * FontSize = W
  <1> DEFINE w == W
             f == FontSize
             k == (w + f - 1) \div f
             r == (w + f - 1) % f
             q == w \div f
  <1>1. w \in Nat \ {0} /\ f \in Nat \ {0}
    BY OutputAssumption
  <1>2. Columns = k
    BY DEF Columns
  <1>3. w + f - 1 = f * k + r /\ k \in Nat /\ r \in 0 .. f - 1
    <2> DEFINE x == w + f - 1
    <2>1. x \in Nat
      BY <1>1
    <2> HIDE DEF x, f
    <2>2. x = f * (x \div f) + (x % f) /\ x \div f \in Nat /\ x % f \in 0 .. f - 1
      BY <1>1, <2>1
    <2> QED
      BY <2>2 DEF x
  <1>4. w = f * q + (w % f) /\ q \in Nat
    <2> HIDE DEF w, f
    <2> QED
      BY <1>1
  <1>5. (w % f = 0) <=> (W % FontSize = 0)
    OBVIOUS
  <1> HIDE DEF w, f, k, r, q
  <1>6. k * f >= w
    <2>1. k * f = f * k /\ f * k \in Nat
      BY <1>1, <1>3
    <2> QED
      BY <1>1, <1>3, <2>1
  <1>7. ASSUME w % f = 0 PROVE k * f = w
    <2>1. w = q * f /\ q * f \in Nat
      BY <1>1, <1>4, <1>7
    <2>2. k * f < q * f + f /\ k * f \in Nat
      BY <1>1, <1>3, <2>1
    <2>3. k <= q
      <3>1. k >= q + 1 => k * f >= (q + 1) * f
        BY <1>1, <1>3, <1>4
      <3>2. (q + 1) * f = q * f + f
        BY <1>1, <1>4
      <3>3. ~(k >= q + 1)
        BY <2>2, <3>1, <3>2, <2>1, <1>1
      <3>4. k \in Nat /\ q \in Nat
        BY <1>3, <1>4
      <3> HIDE DEF q, k
      <3> QED
        BY <3>3, <3>4
    <2>4. k * f <= q * f
      BY <1>1, <1>3, <1>4, <2>3
    <2> QED
      BY <1>6, <2>1, <2>2, <2>4
  <1>8. Columns \in Nat /\ Columns * FontSize >= W
    BY <1>2, <1>3, <1>6 DEF w, f
  <1>9. W % FontSize = 0 => Columns * FontSize = W
    BY <1>2, <1>5, <1>7 DEF w, f
  <1> QED
    BY <1>8, <1>9

\* The numbers the screen is made of.
LEMMA ScreenNumbers ==
  /\ W \in Nat \ {0} /\ H \in Nat \ {0} /\ FontSize \in Nat \ {0}
  /\ Space \in Nat \ {0} /\ TabWidth \in Nat \ {0} /\ MaxLines \in Nat
  /\ LineHeight \in Nat /\ LineHeight = FontSize + Space
  /\ Lines \in Nat /\ Lines * LineHeight <= H
  <1>1. /\ W \in Nat \ {0} /\ H \in Nat \ {0} /\ FontSize \in Nat \ {0}
        /\ Space \in Nat \ {0} /\ TabWidth \in Nat \ {0} /\ MaxLines \in Nat
    BY OutputAssumption
  <1>2. LineHeight \in Nat \ {0} /\ LineHeight = FontSize + Space
    BY <1>1 DEF LineHeight
  <1> DEFINE n == LineHeight
             q == H \div n
  <1>3. q \in Nat /\ q * n <= H
    <2> HIDE DEF n
    <2>1. n \in Nat \ {0} /\ H \in Nat
      BY <1>1, <1>2 DEF n
    <2>2. H = n * (H \div n) + (H % n) /\ H \div n \in Nat /\ H % n \in Nat
      BY <2>1
    <2> QED
      BY <2>1, <2>2
  <1> QED
    BY <1>1, <1>2, <1>3 DEF Lines

\* Each pixel of a cell lies in a row and, in it, in a column of pixels.
LEMMA CellIs ==
  ASSUME NEW l \in Nat, NEW c \in Nat, NEW p \in Cell(l, c)
  PROVE  \E i, j \in 0 .. FontSize - 1 :
           p = (l * LineHeight + i) * W + (c * FontSize + j) + 1
  <1>1. PICK i, ii \in 0 .. FontSize - 1 :
          p = l * W * LineHeight + c * FontSize + i * W + FontSize - ii
    BY DEF Cell
  <1>2. FontSize - 1 - ii \in 0 .. FontSize - 1 /\ i \in Int /\ ii \in Int
    BY ScreenNumbers
  <1> DEFINE j == FontSize - 1 - ii
             n == LineHeight
             f == FontSize
             w == W
  <1>3. /\ p = l * w * n + c * f + i * w + f - ii /\ j = f - 1 - ii
        /\ n \in Int /\ f \in Int /\ w \in Int
    BY <1>1, ScreenNumbers
  <1>4. p = (l * n + i) * w + (c * f + j) + 1
    <2> HIDE DEF j, n, f, w
    <2>1. l \in Int /\ c \in Int /\ j \in Int
      BY <1>2, <1>3
    <2>2. (l * n + i) * w = l * w * n + i * w
      BY <1>2, <1>3, <2>1
    <2>3. /\ l * w * n \in Int /\ i * w \in Int /\ c * f \in Int
          /\ (l * n + i) * w \in Int
      BY <1>2, <1>3, <2>1
    <2> QED
      BY <1>2, <1>3, <2>1, <2>2, <2>3
  <1> QED
    BY <1>2, <1>4

\* Where the pixel columns of a cell end.
LEMMA InColumns ==
  ASSUME NEW c \in Nat, ~Crosses(c), NEW j \in 0 .. FontSize - 1
  PROVE  c * FontSize + j \in 0 .. W - 1
  <1> DEFINE f == FontSize
             w == W
  <1>1. f \in Nat /\ w \in Nat /\ ~((c + 1) * f > w) /\ j \in Nat /\ j < f
    BY ScreenNumbers DEF Crosses
  <1> HIDE DEF f, w
  <1>2. (c + 1) * f = c * f + f /\ c * f \in Nat
    BY <1>1
  <1>3. c * f + j \in 0 .. w - 1
    BY <1>1, <1>2
  <1> QED
    BY <1>3 DEF f, w

\* No pixel is in two cells, although each cell takes the pixel to the right
\* of it instead of its first.
LEMMA CellsApart ==
  ASSUME NEW l \in Nat, NEW c \in Nat, ~Crosses(c),
         NEW m \in Nat, NEW d \in Nat, ~Crosses(d),
         NEW p \in Cell(l, c), p \in Cell(m, d)
  PROVE  l = m /\ c = d
  <1>2. PICK i, j \in 0 .. FontSize - 1 :
          p = (l * LineHeight + i) * W + (c * FontSize + j) + 1
    BY CellIs
  <1>3. PICK g, h \in 0 .. FontSize - 1 :
          p = (m * LineHeight + g) * W + (d * FontSize + h) + 1
    BY CellIs
  <1> DEFINE x == l * LineHeight + i
             y == m * LineHeight + g
             a == c * FontSize + j
             b == d * FontSize + h
  <1>4. a \in 0 .. W - 1 /\ b \in 0 .. W - 1 /\ W \in Nat \ {0}
    BY InColumns, ScreenNumbers
  <1>5. x \in Nat /\ y \in Nat
    BY ScreenNumbers
  <1>6. p = x * W + a + 1 /\ p = y * W + b + 1
    BY <1>2, <1>3
  <1> HIDE DEF x, y, a, b
  <1>7. x = y /\ a = b
    <2>1. x * W \in Int /\ y * W \in Int /\ a \in Int /\ b \in Int
      BY <1>4, <1>5
    <2>2. x * W + a = y * W + b
      BY <1>6, <2>1
    <2> QED
      BY <1>4, <1>5, <2>2, Digits
  <1>8. l = m
    <2>1. /\ i \in 0 .. LineHeight - 1 /\ g \in 0 .. LineHeight - 1
          /\ LineHeight \in Nat \ {0}
      BY ScreenNumbers
    <2> QED
      BY <1>7, <2>1, Digits DEF x, y
  <1>9. c = d
    <2>1. FontSize \in Nat \ {0}
      BY ScreenNumbers
    <2> QED
      BY <1>7, <2>1, Digits DEF a, b
  <1> QED
    BY <1>8, <1>9

\* The cells of the lines of the screen are inside the frame buffer: the space
\* below the last of them takes the pixel that is one too far.
LEMMA CellInFrame ==
  ASSUME NEW l \in Nat, l < Lines, NEW c \in Nat, ~Crosses(c), NEW p \in Cell(l, c)
  PROVE  p \in Pixels /\ p < W * H
  <1>2. PICK i, j \in 0 .. FontSize - 1 :
          p = (l * LineHeight + i) * W + (c * FontSize + j) + 1
    BY CellIs
  <1> DEFINE n == LineHeight
             x == l * n + i
             a == c * FontSize + j
             t == Lines
  <1>3. /\ n \in Nat /\ i + 1 < n /\ i \in Nat /\ W \in Nat \ {0} /\ H \in Nat
        /\ t \in Nat /\ t * n <= H /\ l + 1 <= t
    BY ScreenNumbers
  <1>4. a \in 0 .. W - 1 /\ p = x * W + a + 1
    BY <1>2, InColumns
  <1>5. x \in Nat /\ x + 1 < H
    <2> HIDE DEF n, t
    <2>1. (l + 1) * n <= t * n
      BY <1>3
    <2>2. x + 1 < (l + 1) * n /\ x \in Nat
      BY <1>3
    <2>3. (l + 1) * n \in Int /\ t * n \in Int
      BY <1>3
    <2> QED
      BY <1>3, <2>1, <2>2, <2>3
  <1> HIDE DEF n, x, a, t
  <1>6. p \in Nat /\ p < W * H
    <2>1. (x + 1) * W <= H * W - W
      BY <1>3, <1>5
    <2>2. x * W \in Nat /\ (x + 1) * W = x * W + W /\ H * W = W * H /\ W * H \in Nat
      BY <1>3, <1>5
    <2>3. a \in Nat /\ a < W
      BY <1>3, <1>4
    <2> QED
      BY <1>3, <1>4, <2>1, <2>2, <2>3
  <1>7. W * H <= W * (H + MaxLines * LineHeight)
        /\ W * (H + MaxLines * LineHeight) \in Nat /\ W * H \in Nat
    <2> DEFINE y == MaxLines * LineHeight
    <2>1. y \in Nat
      BY ScreenNumbers
    <2> HIDE DEF y
    <2>2. W * (H + y) = W * H + W * y /\ W * y \in Nat /\ W * H \in Nat
      BY <1>3, <2>1
    <2> QED
      BY <2>2 DEF y
  <1> QED
    BY <1>6, <1>7 DEF Pixels
-----------------------------------------------------------------------------
(* The invariant.                                                           *)

\* The types of the variables.
ScreenTyped ==
  /\ line \in Nat /\ column \in Nat /\ glyphs \in Nat /\ kept \in Nat \cup {None}
  /\ paint \in [Pixels -> Nat] /\ shown \in [Cells -> Nat]

\* Pixels pt are those of the characters sh in their cells: no character is cut
\* by the right edge, each on a line of the screen is whole, and every pixel that
\* is painted belongs to one.
Shows(pt, sh) ==
  /\ \A c \in Cells : sh[c] # 0 =>
       /\ ~Crosses(c[2])
       /\ c[1] < Lines => \A p \in Cell(c[1], c[2]) : pt[p] = sh[c]
  /\ \A p \in Pixels : pt[p] # 0 =>
       \E c \in Cells : sh[c] = pt[p] /\ p \in Cell(c[1], c[2])

\* Until a cell across or behind the right edge is painted or erased.
Faithful == ~astray => Shows(paint, shown)

\* Until a character is printed behind the last line, every cell in use is
\* on a line of the screen.
OnScreen == ~below => \A c \in Cells : shown[c] # 0 => c[1] < Lines

\* The column a hint goes back to is one the cursor may be at.
KeptInRow == kept # None => kept < W /\ (~gaps => kept < Columns)

\* The column stays in the screen, and without blanks and tabs in the row.
ScreenInv == ScreenTyped /\ Faithful /\ OnScreen /\ KeptInRow /\ InRow

\* A cell has a line and a column.
LEMMA CellsAre ==
  ASSUME NEW c \in Cells
  PROVE  /\ c = <<c[1], c[2]>> /\ c[1] \in Nat /\ c[1] \in 0 .. MaxLines
         /\ c[2] \in 0 .. Columns - 1 /\ c[2] \in Nat
  BY ScreenNumbers, RowWidth DEF Cells

\* In a row of whole cells none of them crosses the edge.
LEMMA WholeCells ==
  ASSUME NEW c \in 0 .. Columns - 1, W % FontSize = 0
  PROVE  ~Crosses(c)
  <1> DEFINE f == FontSize
             k == Columns
             w == W
  <1>1. f \in Nat /\ k \in Nat /\ w \in Nat /\ k * f = w /\ c \in Nat /\ c + 1 <= k
    BY ScreenNumbers, RowWidth
  <1> HIDE DEF f, k, w
  <1>2. (c + 1) * f <= k * f /\ (c + 1) * f \in Nat
    BY <1>1
  <1>3. ~((c + 1) * f > w)
    BY <1>1, <1>2
  <1> QED
    BY <1>3 DEF Crosses, f, w

\* What does not cross the edge is a column of the screen.
LEMMA NotCrossing ==
  ASSUME NEW c \in Nat, ~Crosses(c)
  PROVE  c \in 0 .. Columns - 1
  <1> DEFINE f == FontSize
             k == Columns
             w == W
  <1>1. f \in Nat \ {0} /\ k \in Nat /\ w \in Nat /\ k * f >= w /\ ~((c + 1) * f > w)
    BY ScreenNumbers, RowWidth DEF Crosses
  <1> HIDE DEF f, k, w
  <1>2. ASSUME k <= c PROVE FALSE
    <2>1. (k + 1) * f <= (c + 1) * f /\ (k + 1) * f = k * f + f
      BY <1>1, <1>2
    <2>2. k * f \in Nat /\ (c + 1) * f \in Nat
      BY <1>1
    <2> QED
      BY <1>1, <2>1, <2>2
  <1>3. c \in 0 .. k - 1
    BY <1>1, <1>2
  <1> QED
    BY <1>3 DEF k

\* A character, or none, takes the place of what was in a cell.
LEMMA CellPainted ==
  ASSUME ScreenTyped, Shows(paint, shown), NEW l \in Nat, NEW k \in Nat, ~Crosses(k),
         NEW n \in Nat, n # 0 => l <= MaxLines,
         NEW pt, pt = Painted(Cell(l, k), n),
         NEW sh, sh = [shown EXCEPT ![<<l, k>>] = n]
  PROVE  /\ Shows(pt, sh)
         /\ pt \in [Pixels -> Nat] /\ sh \in [Cells -> Nat]
  <1>1. pt \in [Pixels -> Nat] /\ sh \in [Cells -> Nat]
    BY DEF ScreenTyped, Painted
  <1>2. /\ \A p \in Pixels \cap Cell(l, k) : pt[p] = n
        /\ \A p \in Pixels \ Cell(l, k) : pt[p] = paint[p]
    BY DEF Painted
  <1>3. \A c \in Cells : sh[c] = IF c = <<l, k>> THEN n ELSE shown[c]
    BY DEF ScreenTyped
  <1>4. ASSUME NEW c \in Cells, sh[c] # 0
        PROVE  /\ ~Crosses(c[2])
               /\ c[1] < Lines => \A p \in Cell(c[1], c[2]) : pt[p] = sh[c]
    <2>1. CASE c = <<l, k>>
      <3>1. c[1] = l /\ c[2] = k /\ sh[c] = n
        BY <1>3, <2>1
      <3>2. l < Lines => \A p \in Cell(l, k) : p \in Pixels
        BY CellInFrame
      <3> QED
        BY <1>2, <3>1, <3>2
    <2>2. CASE c # <<l, k>>
      <3>1. sh[c] = shown[c] /\ ~Crosses(c[2])
            /\ (c[1] < Lines => \A p \in Cell(c[1], c[2]) : paint[p] = shown[c])
        BY <1>3, <1>4, <2>2 DEF Shows
      <3>2. ASSUME c[1] < Lines, NEW p \in Cell(c[1], c[2])
            PROVE  p \in Pixels \ Cell(l, k)
        <4>1. p \in Pixels
          BY <3>1, <3>2, CellsAre, CellInFrame
        <4>2. p \notin Cell(l, k)
          BY <2>2, <3>1, CellsAre, CellsApart
        <4> QED
          BY <4>1, <4>2
      <3> QED
        BY <1>2, <3>1, <3>2
    <2> QED
      BY <2>1, <2>2
  <1>5. ASSUME NEW p \in Pixels, pt[p] # 0
        PROVE  \E c \in Cells : sh[c] = pt[p] /\ p \in Cell(c[1], c[2])
    <2>1. CASE p \in Cell(l, k)
      <3>1. pt[p] = n /\ n # 0 /\ l \in 0 .. MaxLines
        BY <1>2, <1>5, <2>1, ScreenNumbers
      <3>2. <<l, k>> \in Cells
        BY <3>1, NotCrossing DEF Cells
      <3> QED
        BY <1>3, <2>1, <3>1, <3>2
    <2>2. CASE p \notin Cell(l, k)
      <3>1. pt[p] = paint[p]
        BY <1>2, <2>2
      <3>2. PICK c \in Cells : shown[c] = paint[p] /\ p \in Cell(c[1], c[2])
        BY <1>5, <3>1 DEF Shows
      <3>3. c # <<l, k>>
        BY <2>2, <3>2
      <3> QED
        BY <1>3, <3>1, <3>2, <3>3
    <2> QED
      BY <2>1, <2>2
  <1> QED
    BY <1>1, <1>4, <1>5 DEF Shows

\* The column goes on within the screen.
LEMMA AdvanceInRow ==
  ASSUME NEW c \in Nat, NEW width \in Nat \ {0}, line \in Nat, Advance(c, width)
  PROVE  /\ line' \in Nat /\ column' \in Nat /\ column' * width < W
         /\ column' < W
  <1>1. W \in Nat \ {0} /\ c \div W \in Nat
    BY ScreenNumbers
  <1>2. CASE c * width >= W
    <2>1. line' = line + c \div W + (IF c < W THEN 1 ELSE 0) /\ column' = 0
      BY <1>2 DEF Advance, EndLine
    <2>2. (IF c < W THEN 1 ELSE 0) \in Nat
      OBVIOUS
    <2>3. 0 * width = 0
      OBVIOUS
    <2> QED
      BY <1>1, <2>1, <2>2, <2>3
  <1>3. CASE ~(c * width >= W)
    <2>1. column' = c /\ line' = line
      BY <1>3 DEF Advance
    <2>2. c * width \in Nat /\ c <= c * width
      OBVIOUS
    <2> QED
      BY <1>1, <1>3, <2>1, <2>2
  <1> QED
    BY <1>2, <1>3

\* Less than a screen is less than all of its columns.
LEMMA InScreen ==
  ASSUME NEW c \in Nat, c * FontSize < W
  PROVE  c < Columns
  <1> DEFINE f == FontSize
             k == Columns
  <1>1. f \in Nat /\ k \in Nat /\ k * f >= W /\ W \in Nat /\ c * f < W
    BY ScreenNumbers, RowWidth
  <1> HIDE DEF f, k
  <1>2. ASSUME k <= c PROVE FALSE
    <2>1. k * f <= c * f
      BY <1>1, <1>2
    <2>2. c * f < k * f
      <3>1. c * f \in Nat /\ k * f \in Nat
        BY <1>1
      <3> QED
        BY <1>1, <3>1
    <2> QED
      BY <1>1, <2>1, <2>2
  <1> QED
    BY <1>1, <1>2 DEF k
-----------------------------------------------------------------------------
(* Every step keeps the invariant.                                          *)

LEMMA GlyphKeeps == ScreenInv /\ PrintGlyph => ScreenInv'
  <1> SUFFICES ASSUME ScreenInv, PrintGlyph
               PROVE  ScreenInv'
    OBVIOUS
  <1>1. /\ line \in Nat /\ column \in Nat /\ glyphs \in Nat /\ line < MaxLines
        /\ glyphs' = glyphs + 1 /\ gaps' = gaps /\ kept' = kept
        /\ kept \in Nat \cup {None}
        /\ paint' = Painted(Cell(line, column), glyphs')
        /\ astray' = (astray \/ Crosses(column)) /\ below' = (below \/ line >= Lines)
        /\ Advance(column + 1, FontSize)
    BY DEF ScreenInv, ScreenTyped, PrintGlyph
  <1>0. glyphs' \in Nat /\ paint \in [Pixels -> Nat] /\ shown \in [Cells -> Nat]
    BY <1>1 DEF ScreenInv, ScreenTyped
  <1>2. /\ line' \in Nat /\ column' \in Nat /\ column' * FontSize < W
        /\ column' < W
    <2> DEFINE c == column + 1
    <2>1. c \in Nat /\ FontSize \in Nat \ {0} /\ Advance(c, FontSize)
      BY <1>1, ScreenNumbers
    <2> HIDE DEF c
    <2> QED
      BY <1>1, <2>1, AdvanceInRow
  <1>3. column' < Columns
    BY <1>2, InScreen
  <1>4. shown' = IF column < Columns THEN [shown EXCEPT ![<<line, column>>] = glyphs'] ELSE shown
    BY DEF PrintGlyph
  <1>5. ScreenTyped'
    BY <1>0, <1>1, <1>2, <1>4 DEF ScreenTyped, Painted
  <1>6. Faithful'
    <2> SUFFICES ASSUME ~astray, ~Crosses(column) PROVE Shows(paint', shown')
      BY <1>1 DEF Faithful
    <2>1. ScreenTyped /\ Shows(paint, shown)
      BY DEF ScreenInv, Faithful
    <2>2. column \in 0 .. Columns - 1
      BY <1>1, NotCrossing
    <2> DEFINE n == glyphs + 1
               pt == Painted(Cell(line, column), n)
               sh == [shown EXCEPT ![<<line, column>>] = n]
    <2>3. pt = paint' /\ sh = shown' /\ n \in Nat
      BY <1>1, <1>4, <2>2, RowWidth
    <2>4. line <= MaxLines
      BY <1>1, ScreenNumbers
    <2> HIDE DEF n
    <2>5. Shows(pt, sh)
      BY <1>1, <2>1, <2>3, <2>4, CellPainted
    <2> QED
      BY <2>3, <2>5
  <1>7. OnScreen'
    <2> SUFFICES ASSUME ~below, ~(line >= Lines), NEW c \in Cells, shown'[c] # 0
                 PROVE  c[1] < Lines
      BY <1>1 DEF OnScreen
    <2>1. CASE column < Columns /\ c = <<line, column>>
      BY <1>1, <2>1, ScreenNumbers
    <2>2. CASE ~(column < Columns /\ c = <<line, column>>)
      <3>1. shown'[c] = shown[c]
        BY <1>0, <1>4, <2>2
      <3> QED
        BY <3>1 DEF ScreenInv, OnScreen
    <2> QED
      BY <2>1, <2>2
  <1>8. InRow'
    <2>1. ASSUME ~gaps, W % FontSize = 0
          PROVE  ~astray'
      <3>1. ~astray /\ column \in 0 .. Columns - 1
        BY <1>1, <2>1, RowWidth DEF ScreenInv, InRow
      <3> QED
        BY <1>1, <2>1, <3>1, WholeCells
    <2> QED
      BY <1>1, <1>2, <1>3, <2>1 DEF InRow
  <1>9. KeptInRow'
    BY <1>1 DEF ScreenInv, KeptInRow
  <1> QED
    BY <1>5, <1>6, <1>7, <1>8, <1>9 DEF ScreenInv

\* What does not touch the pixels and keeps the columns in the row.
LEMMA CursorKeeps ==
  ASSUME ScreenInv, UNCHANGED pixelVars,
         line' \in Nat, column' \in Nat, column' < W,
         gaps' = gaps \/ gaps' = TRUE, ~gaps' => column' < Columns,
         kept' \in {kept, column, None}
  PROVE  ScreenInv'
  <1>1. UNCHANGED <<paint, shown, glyphs, astray, below>>
    BY DEF pixelVars
  <1>2. kept' \in Nat \cup {None}
    BY DEF ScreenInv, ScreenTyped
  <1>3. ScreenTyped' /\ Faithful' /\ OnScreen'
    BY <1>1, <1>2 DEF ScreenInv, ScreenTyped, Faithful, OnScreen
  <1>4. InRow' /\ KeptInRow'
    BY <1>1 DEF ScreenInv, InRow, KeptInRow
  <1> QED
    BY <1>3, <1>4 DEF ScreenInv

LEMMA GapKeeps == ScreenInv /\ PrintGap => ScreenInv'
  <1> SUFFICES ASSUME ScreenInv, PrintGap
               PROVE  ScreenInv'
    OBVIOUS
  <1>1. PICK c \in {column + 1, column + TabWidth - (column % TabWidth)} :
          Advance(c, 1)
    BY DEF PrintGap
  <1>2. line \in Nat /\ column \in Nat /\ gaps' = TRUE
    BY DEF ScreenInv, ScreenTyped, PrintGap
  <1>3. c \in Nat
    <2>1. TabWidth \in Nat \ {0} /\ column % TabWidth \in 0 .. TabWidth - 1
      BY <1>2, ScreenNumbers
    <2> QED
      BY <1>2, <2>1
  <1>4. line' \in Nat /\ column' \in Nat /\ column' < W
    <2>1. 1 \in Nat \ {0}
      OBVIOUS
    <2> QED
      BY <1>1, <1>2, <1>3, <2>1, AdvanceInRow
  <1>5. UNCHANGED pixelVars /\ kept' = kept
    BY DEF PrintGap
  <1> QED
    BY <1>2, <1>4, <1>5, CursorKeeps

LEMMA NewlineKeeps == ScreenInv /\ PrintNewline => ScreenInv'
  <1> SUFFICES ASSUME ScreenInv, PrintNewline
               PROVE  ScreenInv'
    OBVIOUS
  <1>1. /\ line' = line + column \div W + (IF column < W THEN 1 ELSE 0) /\ column' = 0
        /\ gaps' = gaps /\ kept' = kept /\ UNCHANGED pixelVars
    BY DEF PrintNewline, EndLine
  <1>2. line \in Nat /\ column \in Nat /\ W \in Nat \ {0}
    BY ScreenNumbers DEF ScreenInv, ScreenTyped
  <1>3. line' \in Nat
    <2>1. column \div W \in Nat /\ (IF column < W THEN 1 ELSE 0) \in Nat
      BY <1>2
    <2> QED
      BY <1>1, <1>2, <2>1
  <1>4. 0 < Columns
    <2>1. 0 * FontSize < W
      BY <1>2, ScreenNumbers
    <2> QED
      BY <2>1, InScreen
  <1> QED
    BY <1>1, <1>2, <1>3, <1>4, CursorKeeps

LEMMA EraseKeeps == ScreenInv /\ Erase => ScreenInv'
  <1> SUFFICES ASSUME ScreenInv, Erase
               PROVE  ScreenInv'
    OBVIOUS
  <1> DEFINE k == column - 1
  <1>1. /\ line \in Nat /\ k \in Nat /\ column' = k /\ k < column
        /\ FlushAt(line, k) /\ UNCHANGED <<line, kept, glyphs, gaps, below>>
        /\ column \in Nat
    BY DEF ScreenInv, ScreenTyped, Erase
  <1> HIDE DEF k
  <1>2. CASE UNCHANGED <<paint, shown, astray>>
    <2>1. UNCHANGED pixelVars
      BY <1>1, <1>2 DEF pixelVars
    <2>2. k < W /\ (~gaps => k < Columns)
      BY <1>1, ScreenNumbers, RowWidth DEF ScreenInv, InRow
    <2> QED
      BY <1>1, <2>1, <2>2, CursorKeeps
  <1>3. CASE ~UNCHANGED <<paint, shown, astray>>
    <2>1. /\ paint' = Painted(Cell(line, k), 0)
          /\ shown' = [shown EXCEPT ![<<line, k>>] = 0]
          /\ astray' = (astray \/ Crosses(k))
          /\ ~(k * FontSize >= W)
      BY <1>1, <1>3 DEF FlushAt
    <2>2. k \in 0 .. Columns - 1
      <3>1. k * FontSize < W
        BY <1>1, <2>1, ScreenNumbers
      <3> QED
        BY <1>1, <3>1, InScreen, RowWidth
    <2>3. paint' \in [Pixels -> Nat] /\ shown' \in [Cells -> Nat]
      BY <2>1 DEF ScreenInv, ScreenTyped, Painted
    <2>4. Faithful'
      <3> SUFFICES ASSUME ~astray, ~Crosses(k) PROVE Shows(paint', shown')
        BY <2>1 DEF Faithful
      <3>1. ScreenTyped /\ Shows(paint, shown)
        BY DEF ScreenInv, Faithful
      <3> DEFINE n == 0
                 pt == Painted(Cell(line, k), n)
                 sh == [shown EXCEPT ![<<line, k>>] = n]
      <3>2. pt = paint' /\ sh = shown' /\ n \in Nat /\ (n # 0 => line <= MaxLines)
        BY <2>1
      <3> HIDE DEF n
      <3>3. Shows(pt, sh)
        BY <1>1, <3>1, <3>2, CellPainted
      <3> QED
        BY <3>2, <3>3
    <2>5. ScreenTyped'
      BY <1>1, <2>3 DEF ScreenInv, ScreenTyped
    <2>6. \A c \in Cells : shown'[c] # 0 => shown[c] # 0
      BY <2>1 DEF ScreenInv, ScreenTyped
    <2>7. OnScreen' /\ KeptInRow'
      BY <1>1, <2>6 DEF ScreenInv, OnScreen, KeptInRow
    <2>8. InRow'
      <3>1. k < W /\ k < Columns
        BY <1>1, <2>2, ScreenNumbers, RowWidth DEF ScreenInv, InRow
      <3>2. W % FontSize = 0 => ~Crosses(k)
        BY <2>2, WholeCells
      <3> QED
        BY <1>1, <2>1, <3>1, <3>2 DEF ScreenInv, InRow
    <2> QED
      BY <2>4, <2>5, <2>7, <2>8 DEF ScreenInv
  <1> QED
    BY <1>2, <1>3

LEMMA FlushLineKeeps == ScreenInv /\ FlushLine => ScreenInv'
  <1> SUFFICES ASSUME ScreenInv, FlushLine
               PROVE  ScreenInv'
    OBVIOUS
  <1> DEFINE gone == UNION {Cell(line, c) : c \in column .. Columns - 1}
  <1>1. /\ line \in Nat /\ column \in Nat
        /\ paint' = Painted(gone, 0)
        /\ shown' = [c \in Cells |-> IF c[1] = line /\ c[2] >= column THEN 0 ELSE shown[c]]
        /\ astray' = (astray \/ \E c \in column .. Columns - 1 : Crosses(c))
        /\ UNCHANGED <<line, column, kept, glyphs, gaps, below>>
    BY DEF ScreenInv, ScreenTyped, FlushLine
  <1>2. \A p \in Pixels : paint'[p] = IF p \in gone THEN 0 ELSE paint[p]
    BY <1>1 DEF Painted
  <1>3. \A p : p \in gone <=> \E c \in column .. Columns - 1 : p \in Cell(line, c)
    OBVIOUS
  <1>4. paint' \in [Pixels -> Nat] /\ shown' \in [Cells -> Nat]
    <2> HIDE DEF gone
    <2>1. paint' \in [Pixels -> Nat]
      BY <1>1 DEF ScreenInv, ScreenTyped, Painted
    <2>2. shown' \in [Cells -> Nat]
      BY <1>1 DEF ScreenInv, ScreenTyped
    <2> QED
      BY <2>1, <2>2
  <1> HIDE DEF gone
  <1>5. Faithful'
    <2> SUFFICES ASSUME ~astray, \A c \in column .. Columns - 1 : ~Crosses(c)
                 PROVE  Shows(paint', shown')
      BY <1>1 DEF Faithful
    <2>1. Shows(paint, shown)
      BY DEF ScreenInv, Faithful
    <2>2. ASSUME NEW c \in Cells, shown'[c] # 0
          PROVE  /\ ~Crosses(c[2])
                 /\ c[1] < Lines => \A p \in Cell(c[1], c[2]) : paint'[p] = shown'[c]
      <3>1. shown'[c] = shown[c] /\ ~(c[1] = line /\ c[2] >= column)
        BY <1>1, <2>2
      <3>2. /\ ~Crosses(c[2])
            /\ c[1] < Lines => \A p \in Cell(c[1], c[2]) : paint[p] = shown[c]
        BY <2>1, <2>2, <3>1 DEF Shows
      <3>3. ASSUME c[1] < Lines, NEW p \in Cell(c[1], c[2])
            PROVE  p \in Pixels /\ p \notin gone
        <4>1. p \in Pixels
          BY <3>2, <3>3, CellsAre, CellInFrame
        <4>2. ASSUME NEW d \in column .. Columns - 1, p \in Cell(line, d)
              PROVE  FALSE
          <5>1. d \in Nat /\ d >= column /\ ~Crosses(d)
            BY <1>1, RowWidth
          <5>2. c[1] = line /\ c[2] = d
            BY <1>1, <3>2, <4>2, <5>1, CellsAre, CellsApart
          <5> QED
            BY <3>1, <5>1, <5>2
        <4> QED
          BY <1>3, <4>1, <4>2
      <3> QED
        BY <1>2, <3>1, <3>2, <3>3
    <2>3. ASSUME NEW p \in Pixels, paint'[p] # 0
          PROVE  \E c \in Cells : shown'[c] = paint'[p] /\ p \in Cell(c[1], c[2])
      <3>1. paint'[p] = paint[p] /\ p \notin gone
        BY <1>2, <2>3
      <3>2. PICK c \in Cells : shown[c] = paint[p] /\ p \in Cell(c[1], c[2])
        BY <2>1, <2>3, <3>1 DEF Shows
      <3>3. ~(c[1] = line /\ c[2] >= column)
        <4>1. c[2] \in 0 .. Columns - 1
          BY CellsAre
        <4>2. c[2] >= column => c[2] \in column .. Columns - 1
          BY <1>1, <4>1, RowWidth
        <4> QED
          BY <1>3, <3>1, <3>2, <4>2
      <3> QED
        BY <1>1, <3>1, <3>2, <3>3
    <2> QED
      BY <2>2, <2>3 DEF Shows
  <1>6. ScreenTyped' /\ KeptInRow'
    BY <1>1, <1>4 DEF ScreenInv, ScreenTyped, KeptInRow
  <1>7. OnScreen'
    BY <1>1 DEF ScreenInv, OnScreen
  <1>8. InRow'
    <2>1. \A c \in column .. Columns - 1 : c \in 0 .. Columns - 1
      BY <1>1, RowWidth
    <2>2. W % FontSize = 0 => \A c \in column .. Columns - 1 : ~Crosses(c)
      BY <2>1, WholeCells
    <2> QED
      BY <1>1, <2>2 DEF ScreenInv, InRow
  <1> QED
    BY <1>5, <1>6, <1>7, <1>8 DEF ScreenInv

LEMMA FlushKeeps == ScreenInv /\ Flush => ScreenInv'
  <1> SUFFICES ASSUME ScreenInv, Flush
               PROVE  ScreenInv'
    OBVIOUS
  <1>1. /\ paint' = [p \in Pixels |-> IF p < W * H THEN 0 ELSE paint[p]]
        /\ shown' = [c \in Cells |-> IF c[1] < Lines THEN 0 ELSE shown[c]]
        /\ line' = 0 /\ column' = 0
        /\ UNCHANGED <<kept, glyphs, gaps, astray, below>>
    BY DEF Flush
  <1>2. ScreenTyped' /\ KeptInRow' /\ OnScreen'
    BY <1>1 DEF ScreenInv, ScreenTyped, KeptInRow, OnScreen
  <1>3. InRow'
    <2>1. 0 < W /\ 0 * FontSize < W
      BY ScreenNumbers
    <2>2. 0 < Columns
      BY <2>1, InScreen
    <2> QED
      BY <1>1, <2>1, <2>2 DEF ScreenInv, InRow
  <1>4. Faithful'
    <2> SUFFICES ASSUME ~astray PROVE Shows(paint', shown')
      BY <1>1 DEF Faithful
    <2>1. Shows(paint, shown)
      BY DEF ScreenInv, Faithful
    <2>2. \A c \in Cells : shown'[c] # 0 => shown'[c] = shown[c] /\ ~(c[1] < Lines)
      BY <1>1
    <2>3. ASSUME NEW p \in Pixels, paint'[p] # 0
          PROVE  \E c \in Cells : shown'[c] = paint'[p] /\ p \in Cell(c[1], c[2])
      <3>1. paint'[p] = paint[p] /\ ~(p < W * H)
        BY <1>1, <2>3
      <3>2. PICK c \in Cells : shown[c] = paint[p] /\ p \in Cell(c[1], c[2])
        BY <2>1, <2>3, <3>1 DEF Shows
      <3>3. ~Crosses(c[2])
        BY <2>1, <2>3, <3>1, <3>2 DEF Shows
      <3>4. ~(c[1] < Lines)
        BY <3>1, <3>2, <3>3, CellsAre, CellInFrame
      <3> QED
        BY <1>1, <3>1, <3>2, <3>4
    <2> QED
      BY <2>1, <2>2, <2>3 DEF Shows
  <1> QED
    BY <1>2, <1>3, <1>4 DEF ScreenInv

LEMMA HintKeeps == ScreenInv /\ (BeginHint \/ EndHint) => ScreenInv'
  <1> SUFFICES ASSUME ScreenInv
               PROVE  BeginHint \/ EndHint => ScreenInv'
    OBVIOUS
  <1>1. /\ column \in Nat /\ column < W /\ (~gaps => column < Columns)
        /\ line \in Nat /\ kept \in Nat \cup {None}
    BY DEF ScreenInv, ScreenTyped, InRow
  <1>2. ASSUME BeginHint PROVE ScreenInv'
    <2>1. kept' = column /\ UNCHANGED <<line, column, pixelVars, gaps>>
      BY <1>2 DEF BeginHint
    <2> QED
      BY <1>1, <2>1, CursorKeeps
  <1>3. ASSUME EndHint PROVE ScreenInv'
    <2>1. /\ kept # None /\ column' = kept /\ kept' = None
          /\ UNCHANGED <<line, pixelVars, gaps>>
      BY <1>3 DEF EndHint
    <2>2. kept \in Nat /\ kept < W /\ (~gaps => kept < Columns)
      BY <1>1, <2>1 DEF ScreenInv, KeptInRow
    <2> QED
      BY <1>1, <2>1, <2>2, CursorKeeps
  <1> QED
    BY <1>2, <1>3

\* The invariant holds at the start.
LEMMA ScreenStarts == ScreenInit => ScreenInv
  <1> SUFFICES ASSUME ScreenInit PROVE ScreenInv
    OBVIOUS
  <1>1. /\ line = 0 /\ column = 0 /\ glyphs = 0 /\ gaps = FALSE /\ astray = FALSE
        /\ kept = None /\ paint = [p \in Pixels |-> 0] /\ shown = [c \in Cells |-> 0]
    BY DEF ScreenInit, Blank
  <1>2. 0 < W /\ 0 * FontSize < W
    BY ScreenNumbers
  <1>3. 0 < Columns
    BY <1>2, InScreen
  <1> QED
    BY <1>1, <1>2, <1>3 DEF ScreenInv, ScreenTyped, Faithful, Shows, OnScreen, KeptInRow, InRow

\* Whatever is printed, erased and flushed, in any order.
LEMMA ScreenInvariant == ScreenSpec => []ScreenInv
  <1>1. ScreenInv /\ [ScreenNext]_screenVars => ScreenInv'
    <2> SUFFICES ASSUME ScreenInv, [ScreenNext]_screenVars PROVE ScreenInv'
      OBVIOUS
    <2>1. CASE UNCHANGED screenVars
      BY <2>1 DEF screenVars, pixelVars, ScreenInv, ScreenTyped, Faithful, OnScreen,
         KeptInRow, InRow
    <2> QED
      BY <2>1, GlyphKeeps, GapKeeps, NewlineKeeps, EraseKeeps, FlushLineKeeps,
         FlushKeeps, HintKeeps DEF ScreenNext
  <1> QED
    BY <1>1, ScreenStarts, PTL DEF ScreenSpec

\* As long as no cell across or behind the right edge was painted or erased, the
\* lines of the screen show the characters printed last, each whole and in its
\* cell, and nothing is left of the others, wherever the cursor goes; and as long
\* as, besides, no character was printed behind the last line, nothing is painted
\* behind the frame buffer.
THEOREM ScreenIsRight == ScreenSpec => []ScreenShows
  <1>1. ScreenInv => ScreenShows
    <2> SUFFICES ASSUME ScreenInv, ~astray
                 PROVE  /\ \A c \in Cells : c[1] < Lines /\ shown[c] # 0 =>
                             \A p \in Cell(c[1], c[2]) : paint[p] = shown[c]
                        /\ \A p \in Pixels : paint[p] # 0 =>
                             \E c \in Cells : shown[c] = paint[p]
                        /\ ~below => \A p \in Pixels : paint[p] # 0 => p < W * H
      BY DEF ScreenShows, GlyphsWhole, NothingLeft, InFrame
    <2>1. Shows(paint, shown)
      BY DEF ScreenInv, Faithful
    <2>2. ASSUME ~below, NEW p \in Pixels, paint[p] # 0
          PROVE  p < W * H
      <3>1. PICK c \in Cells : shown[c] = paint[p] /\ p \in Cell(c[1], c[2])
        BY <2>1, <2>2 DEF Shows
      <3>2. ~Crosses(c[2]) /\ c[1] < Lines
        BY <2>1, <2>2, <3>1 DEF Shows, ScreenInv, OnScreen
      <3> QED
        BY <3>1, <3>2, CellsAre, CellInFrame
    <2> QED
      BY <2>1, <2>2 DEF Shows
  <1> QED
    BY <1>1, ScreenInvariant, PTL

\* Characters alone, and hints of them, never get the cursor to a column behind
\* the right edge, and in a row of whole cells none of them crosses it; nothing
\* gets the cursor further than the screen has pixels.
THEOREM CursorInRow == ScreenSpec => []InRow
  <1>1. ScreenInv => InRow
    BY DEF ScreenInv
  <1> QED
    BY <1>1, ScreenInvariant, PTL
=============================================================================
