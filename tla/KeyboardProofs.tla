--------------------------- MODULE KeyboardProofs ---------------------------
(***************************************************************************)
(* Proofs about Keyboard, for every table of keys and every bound.         *)
(***************************************************************************)
EXTENDS Keyboard, FiniteSetTheorems, TLAPS

-----------------------------------------------------------------------------
(* Typing.                                                                  *)

\* What a key sends is one scancode, behind a prefix or not.
LEMMA SendAppends ==
  ASSUME TypeOK, NEW k \in Keys, NEW make \in BOOLEAN,
         NEW nth \in Nat, Send(Scancode(k, make, nth))
  PROVE  /\ wire' \in Seq(Scancodes)
         /\ Len(wire') \in Len(wire) + 1 .. Len(wire) + 2
         /\ \A i \in 1 .. Len(wire) : wire'[i] = wire[i]
         /\ wire'[Len(wire')] = [entry |-> Entry[k], make |-> make, nth |-> nth]
         /\ \A i \in Len(wire) + 1 .. Len(wire') - 1 :
              wire'[i] = [entry |-> PrefixEntry, make |-> FALSE, nth |-> 0]
  <1> DEFINE p == [entry |-> PrefixEntry, make |-> FALSE, nth |-> 0]
             s == [entry |-> Entry[k], make |-> make, nth |-> nth]
  <1>1. p \in Scancodes /\ s \in Scancodes /\ wire \in Seq(Scancodes)
    BY KeyboardAssumption DEF TypeOK, Scancodes
  <1>2. wire' = wire \o Scancode(k, make, nth)
    BY DEF Send
  <1> HIDE DEF p, s
  <1>3. CASE k \in Extended
    <2>1. Prefix(k) = <<p>>
      BY <1>3 DEF Prefix, p
    <2>2. wire' = wire \o (<<p>> \o <<s>>)
      BY <1>2, <2>1 DEF Scancode, s
    <2>3. <<p>> \in Seq(Scancodes) /\ <<s>> \in Seq(Scancodes)
      BY <1>1
    <2>4. /\ <<p>> \o <<s>> \in Seq(Scancodes) /\ Len(<<p>> \o <<s>>) = 2
          /\ (<<p>> \o <<s>>)[1] = p /\ (<<p>> \o <<s>>)[2] = s
      BY <2>3
    <2>5. /\ wire' \in Seq(Scancodes) /\ Len(wire') = Len(wire) + 2
          /\ \A i \in 1 .. Len(wire) : wire'[i] = wire[i]
          /\ wire'[Len(wire) + 1] = p /\ wire'[Len(wire) + 2] = s
      BY <1>1, <2>2, <2>4
    <2>6. Len(wire) \in Nat
      BY <1>1
    <2> QED
      BY <2>5, <2>6 DEF p, s
  <1>4. CASE k \notin Extended
    <2>1. Scancode(k, make, nth) = <<s>>
      BY <1>4 DEF Scancode, Prefix, p, s
    <2> QED
      BY <1>1, <1>2, <2>1 DEF p, s
  <1> QED
    BY <1>3, <1>4

\* What a key types, and what the handler looks up, is a character.
LEMMA SymbolType ==
  ASSUME NEW e \in Entries, NEW b \in BOOLEAN
  PROVE  Symbol(e, b) \in Chars /\ Symbol(e, b) # Null
  BY KeyboardAssumption DEF Symbol, Chars

\* A press sends a scancode that counts the characters typed.
LEMMA KeyDownSends ==
  ASSUME TypeOK, NEW k \in Keys, KeyDown(k)
  PROVE  \E nth \in Nat : Send(Scancode(k, TRUE, nth))
  <1>1. Len(typed) + 1 \in Nat
    BY DEF TypeOK
  <1> QED
    BY <1>1 DEF KeyDown

\* What the handler reads from the data port.
LEMMA HeadType ==
  ASSUME TypeOK, wire # <<>>
  PROVE  /\ Head(wire).entry \in Entries \cup {Null}
         /\ Head(wire).make \in BOOLEAN
         /\ Head(wire).nth \in Nat
         /\ Tail(wire) \in Seq(Scancodes)
  <1>1. Head(wire) \in Scancodes /\ Tail(wire) \in Seq(Scancodes)
    BY DEF TypeOK
  <1> QED
    BY <1>1 DEF Scancodes

\* The mailbox holds a key from the press that sets the flag to the read.
Filled == /\ pc = "clear" => hit
          /\ hit \/ pc = "read" => last \in Chars

LEMMA TypeNext == TypeOK /\ Filled /\ [Next]_vars => TypeOK'
  <1> SUFFICES ASSUME TypeOK, Filled, [Next]_vars
               PROVE  TypeOK'
    OBVIOUS
  <1> USE DEF TypeOK, mailbox, hardware, latest
  <1>1. ASSUME NEW k \in Keys, KeyDown(k)
        PROVE  TypeOK'
    <2>1. PICK nth \in Nat : Send(Scancode(k, TRUE, nth))
      BY <1>1, KeyDownSends
    <2>2. wire' \in Seq(Scancodes)
      BY <2>1, SendAppends
    <2>3. typed' \in Seq(Chars)
      <3>1. CASE Entry[k] = Null
        BY <1>1, <3>1 DEF KeyDown
      <3>2. CASE Entry[k] # Null
        <4>1. Entry[k] \in Entries
          BY <3>2, KeyboardAssumption
        <4>2. Symbol(Entry[k], ShiftDown(down')) \in Chars
          BY <4>1, SymbolType DEF ShiftDown
        <4>3. typed' = Append(typed, Symbol(Entry[k], ShiftDown(down')))
          BY <1>1, <3>2 DEF KeyDown
        <4> HIDE DEF latest, mailbox, hardware
        <4> QED
          BY <4>2, <4>3
      <3> QED
        BY <3>1, <3>2
    <2> QED
      BY <1>1, <2>2, <2>3 DEF KeyDown
  <1>2. ASSUME NEW k \in Keys, KeyUp(k)
        PROVE  TypeOK'
    <2>1. wire' \in Seq(Scancodes)
      <3>1. Send(Scancode(k, FALSE, 0))
        BY <1>2 DEF KeyUp
      <3> QED
        BY <3>1, SendAppends
    <2> QED
      BY <1>2, <2>1 DEF KeyUp
  <1>3. CASE TimerInterrupt
    BY <1>3 DEF TimerInterrupt, Awake
  <1>4. CASE KeyboardInterrupt
    <2>1. wire' \in Seq(Scancodes)
      BY <1>4, HeadType DEF KeyboardInterrupt
    <2>2. Head(wire).entry \in Entries \cup {Null} /\ Head(wire).make \in BOOLEAN
      BY <1>4, HeadType DEF KeyboardInterrupt
    <2>3. state' \subseteq Entries /\ last' \in Chars \cup {Null} /\ hit' \in BOOLEAN
      <3>1. CASE Head(wire).entry = Null
        BY <1>4, <3>1 DEF KeyboardInterrupt
      <3>2. CASE Head(wire).entry # Null
        BY <1>4, <2>2, <3>2, SymbolType DEF KeyboardInterrupt, Accept
      <3> QED
        BY <3>1, <3>2
    <2>4. fresh' \in Nat /\ covered' \in BOOLEAN /\ raced' \in BOOLEAN
      BY <1>4, HeadType DEF KeyboardInterrupt, Remember
    <2> QED
      BY <1>4, <2>1, <2>3, <2>4 DEF KeyboardInterrupt, Awake
  <1>5. CASE Halt \/ Test
    BY <1>5 DEF Halt, Test, Goto
  <1>6. CASE Clear
    BY <1>6 DEF Clear
  <1>7. CASE Read
    <2>1. last \in Chars
      BY <1>7 DEF Read, Filled
    <2>2. taken' \in Seq(Chars)
      BY <1>7, <2>1 DEF Read
    <2> QED
      BY <1>7, <2>2 DEF Read
  <1>8. CASE UNCHANGED vars
    BY <1>8 DEF vars
  <1> QED
    BY <1>1, <1>2, <1>3, <1>4, <1>5, <1>6, <1>7, <1>8 DEF Next, Loop

LEMMA FilledNext == TypeOK /\ Filled /\ [Next]_vars => Filled'
  <1> SUFFICES ASSUME TypeOK, Filled, [Next]_vars
               PROVE  Filled'
    OBVIOUS
  <1> USE DEF Filled, mailbox, hardware
  <1>1. ASSUME NEW k \in Keys, KeyDown(k) \/ KeyUp(k)
        PROVE  Filled'
    <2>1. UNCHANGED <<mailbox, pc>>
      BY <1>1 DEF KeyDown, KeyUp
    <2> QED
      BY <2>1
  <1>2. CASE TimerInterrupt
    BY <1>2 DEF TimerInterrupt, Awake
  <1>3. CASE KeyboardInterrupt
    <2>1. CASE Head(wire).entry = Null
      BY <1>3, <2>1 DEF KeyboardInterrupt, Awake
    <2>2. CASE Head(wire).entry # Null
      <3>1. Head(wire).entry \in Entries
        BY <1>3, <2>2, HeadType DEF KeyboardInterrupt
      <3>2. last' \in Chars
        BY <1>3, <2>2, <3>1, SymbolType DEF KeyboardInterrupt, Accept
      <3>3. pc' = "clear" => hit'
        BY <1>3, <2>2 DEF KeyboardInterrupt, Accept, Awake
      <3> QED
        BY <3>2, <3>3
    <2> QED
      BY <2>1, <2>2
  <1>4. CASE Halt \/ Test
    BY <1>4 DEF Halt, Test, Goto
  <1>5. CASE Clear
    BY <1>5 DEF Clear
  <1>6. CASE Read
    BY <1>6 DEF Read
  <1>7. CASE UNCHANGED vars
    BY <1>7 DEF vars
  <1> QED
    BY <1>1, <1>2, <1>3, <1>4, <1>5, <1>6, <1>7 DEF Next, Loop

LEMMA InitTyped == Init => TypeOK /\ Filled
  <1> SUFFICES ASSUME Init
               PROVE  TypeOK /\ Filled
    OBVIOUS
  <1>1. wire \in Seq(Scancodes) /\ taken \in Seq(Chars) /\ typed \in Seq(Chars)
    BY DEF Init
  <1>2. down \subseteq Keys /\ state \subseteq Entries
    BY DEF Init
  <1> QED
    BY <1>1, <1>2 DEF Init, TypeOK, Filled

\* The variables keep their types: the loop never takes the null of a
\* mailbox that no key has reached.
THEOREM TypeCorrect == Spec => []TypeOK
  BY InitTyped, TypeNext, FilledNext, PTL DEF Spec

-----------------------------------------------------------------------------
(* The states of the keys.                                                  *)

\* Once the first n scancodes of w are handled, e's state, which is in `keys'
\* now, will be `on': the last of them that is e's says so, or the state now if
\* there is none.
At(w, keys, e, n, on) ==
  /\ (\A i \in 1 .. n : w[i].entry # e) => (e \in keys <=> on)
  /\ \A i \in 1 .. n :
       w[i].entry = e /\ (\A j \in i + 1 .. n : w[j].entry # e) =>
         (w[i].make <=> on)

\* Once the wire is empty, e's state will be that of key k.
Behind(e, k) == At(wire, state, e, Len(wire), k \in down)

Tracked ==
  \A e \in Entries \ {PrefixEntry} : \A k \in Keys :
    Own(e) = {k} => Behind(e, k)

\* A key event appends its own scancode and nothing else of entry e.
LEMMA SendTracked ==
  ASSUME TypeOK, NEW e \in Entries \ {PrefixEntry}, NEW k \in Keys,
         Own(e) = {k}, Behind(e, k),
         NEW q \in Keys, NEW make \in BOOLEAN, NEW nth \in Nat,
         Send(Scancode(q, make, nth)), state' = state,
         down' = IF make THEN down \cup {q} ELSE down \ {q}
  PROVE  Behind(e, k)'
  <1>1. /\ wire' \in Seq(Scancodes)
        /\ Len(wire') \in Len(wire) + 1 .. Len(wire) + 2
        /\ \A i \in 1 .. Len(wire) : wire'[i] = wire[i]
        /\ wire'[Len(wire')].entry = Entry[q] /\ wire'[Len(wire')].make = make
        /\ \A i \in Len(wire) + 1 .. Len(wire') - 1 : wire'[i].entry = PrefixEntry
    <2>1. /\ wire' \in Seq(Scancodes)
          /\ Len(wire') \in Len(wire) + 1 .. Len(wire) + 2
          /\ \A i \in 1 .. Len(wire) : wire'[i] = wire[i]
          /\ wire'[Len(wire')] = [entry |-> Entry[q], make |-> make, nth |-> nth]
          /\ \A i \in Len(wire) + 1 .. Len(wire') - 1 :
               wire'[i] = [entry |-> PrefixEntry, make |-> FALSE, nth |-> 0]
      BY SendAppends
    <2> QED
      BY <2>1
  <1>2. Len(wire) \in Nat /\ Len(wire') \in Nat
    BY <1>1 DEF TypeOK
  <1>3. CASE q = k
    <2>1. Entry[q] = e
      BY <1>3 DEF Own
    <2>2. make <=> k \in down'
      BY <1>3
    <2> QED
      BY <1>1, <1>2, <2>1, <2>2 DEF Behind, At
  <1>4. CASE q # k
    <2>1. Entry[q] # e
      BY <1>4 DEF Own
    <2>2. k \in down' <=> k \in down
      BY <1>4
    <2>3. \A i \in Len(wire) + 1 .. Len(wire') : wire'[i].entry # e
      BY <1>1, <1>2, <2>1
    <2>4. ASSUME \A i \in 1 .. Len(wire') : wire'[i].entry # e
          PROVE  e \in state' <=> k \in down'
      BY <1>1, <1>2, <2>2, <2>4 DEF Behind, At
    <2>5. ASSUME NEW i \in 1 .. Len(wire'), wire'[i].entry = e,
                 \A j \in i + 1 .. Len(wire') : wire'[j].entry # e
          PROVE  wire'[i].make <=> k \in down'
      <3>1. i \in 1 .. Len(wire) /\ wire[i] = wire'[i]
        BY <1>1, <1>2, <2>3, <2>5
      <3>2. \A j \in i + 1 .. Len(wire) : wire[j].entry # e
        BY <1>1, <1>2, <2>5
      <3> QED
        BY <2>2, <2>5, <3>1, <3>2 DEF Behind, At
    <2> QED
      BY <2>4, <2>5 DEF Behind, At
  <1> QED
    BY <1>3, <1>4

\* The first scancode is moved into the state.
LEMMA TailAt ==
  ASSUME NEW w \in Seq(Scancodes), w # <<>>, NEW keys, NEW after,
         NEW e, e \in after <=> IF w[1].entry = e THEN w[1].make ELSE e \in keys,
         NEW n \in 1 .. Len(w), NEW on \in BOOLEAN, At(w, keys, e, n, on)
  PROVE  At(Tail(w), after, e, n - 1, on)
  <1> DEFINE v == Tail(w)
  <1>1. \A i \in 1 .. n - 1 : v[i] = w[i + 1]
    OBVIOUS
  <1> HIDE DEF v
  <1>2. ASSUME \A i \in 1 .. n - 1 : v[i].entry # e
        PROVE  e \in after <=> on
    <2>1. \A i \in 2 .. n : w[i].entry # e
      <3> SUFFICES ASSUME NEW i \in 2 .. n
                   PROVE  w[i].entry # e
        OBVIOUS
      <3>1. i - 1 \in 1 .. n - 1 /\ v[i - 1] = w[(i - 1) + 1]
        BY <1>1
      <3> QED
        BY <1>2, <3>1
    <2>2. CASE w[1].entry = e
      <3>1. w[1].make <=> on
        BY <2>1, <2>2 DEF At
      <3> QED
        BY <2>2, <3>1
    <2>3. CASE w[1].entry # e
      <3>1. \A i \in 1 .. n : w[i].entry # e
        BY <2>1, <2>3
      <3> QED
        BY <2>3, <3>1 DEF At
    <2> QED
      BY <2>2, <2>3
  <1>3. ASSUME NEW i \in 1 .. n - 1, v[i].entry = e,
               \A j \in i + 1 .. n - 1 : v[j].entry # e
        PROVE  v[i].make <=> on
    <2>1. i + 1 \in 1 .. n /\ v[i] = w[i + 1]
      BY <1>1
    <2>2. \A j \in (i + 1) + 1 .. n : w[j].entry # e
      <3> SUFFICES ASSUME NEW j \in (i + 1) + 1 .. n
                   PROVE  w[j].entry # e
        OBVIOUS
      <3>1. j - 1 \in i + 1 .. n - 1 /\ v[j - 1] = w[(j - 1) + 1]
        BY <1>1
      <3> QED
        BY <1>3, <3>1
    <2> QED
      BY <1>3, <2>1, <2>2 DEF At
  <1>4. At(v, after, e, n - 1, on)
    BY <1>2, <1>3 DEF At
  <1> QED
    BY <1>4 DEF v

\* What is appended to the wire changes nothing before it.
LEMMA LongerAt ==
  ASSUME NEW w, NEW longer, NEW keys, NEW e, NEW n \in Nat, NEW on \in BOOLEAN,
         \A i \in 1 .. n : longer[i] = w[i], At(w, keys, e, n, on)
  PROVE  At(longer, keys, e, n, on)
  BY DEF At

\* The handler sets the state of the entry it looked up.
LEMMA HandledState ==
  ASSUME TypeOK, KeyboardInterrupt, NEW e \in Entries
  PROVE  e \in state' <=> IF wire[1].entry = e THEN wire[1].make ELSE e \in state
  <1>1. Head(wire) = wire[1]
    BY DEF TypeOK, KeyboardInterrupt
  <1>2. CASE wire[1].entry = Null
    BY <1>1, <1>2, KeyboardAssumption DEF KeyboardInterrupt, mailbox
  <1>3. CASE wire[1].entry # Null
    <2>1. state' = IF wire[1].make THEN state \cup {wire[1].entry}
                                   ELSE state \ {wire[1].entry}
      BY <1>1, <1>3 DEF KeyboardInterrupt, Accept
    <2> QED
      BY <2>1
  <1> QED
    BY <1>2, <1>3

LEMMA HandledTracked ==
  ASSUME TypeOK, NEW e \in Entries, NEW k \in Keys, Behind(e, k), KeyboardInterrupt
  PROVE  Behind(e, k)'
  <1> DEFINE n == Len(wire)
             on == k \in down
             after == state'
             w == wire
  <1>1. /\ w \in Seq(Scancodes) /\ w # <<>> /\ wire' = Tail(w) /\ down' = down
        /\ n \in 1 .. Len(w) /\ Len(wire') = n - 1
    BY DEF TypeOK, KeyboardInterrupt
  <1>2. e \in after <=> IF w[1].entry = e THEN w[1].make ELSE e \in state
    BY HandledState
  <1>3. At(w, state, e, n, on) /\ on \in BOOLEAN
    BY DEF Behind
  <1> HIDE DEF n, on, after, w
  <1>4. At(Tail(w), after, e, n - 1, on)
    BY <1>1, <1>2, <1>3, TailAt
  <1>5. on = (k \in down')
    BY <1>1 DEF on
  <1> QED
    BY <1>1, <1>4, <1>5 DEF Behind, after

LEMMA StartTracked == Init => Tracked
  <1> SUFFICES ASSUME Init, NEW e \in Entries, NEW k \in Keys
               PROVE  Behind(e, k)
    BY DEF Tracked
  <1>1. Len(wire) = 0 /\ e \notin state /\ k \notin down
    BY DEF Init
  <1> QED
    BY <1>1 DEF Behind, At

LEMMA TrackedNext == TypeOK /\ Tracked /\ [Next]_vars => Tracked'
  <1> SUFFICES ASSUME TypeOK, Tracked, [Next]_vars,
                      NEW e \in Entries \ {PrefixEntry}, NEW k \in Keys, Own(e) = {k}
               PROVE  Behind(e, k)'
    BY DEF Tracked, Own
  <1>1. Behind(e, k)
    BY DEF Tracked
  <1>2. ASSUME NEW q \in Keys, KeyDown(q)
        PROVE  Behind(e, k)'
    <2>1. PICK nth \in Nat : Send(Scancode(q, TRUE, nth))
      BY <1>2, KeyDownSends
    <2>2. state' = state /\ down' = down \cup {q}
      BY <1>2 DEF KeyDown, mailbox
    <2> QED
      BY <1>1, <2>1, <2>2, SendTracked
  <1>3. ASSUME NEW q \in Keys, KeyUp(q)
        PROVE  Behind(e, k)'
    <2>1. Send(Scancode(q, FALSE, 0)) /\ state' = state /\ down' = down \ {q}
      BY <1>3 DEF KeyUp, mailbox
    <2> QED
      BY <1>1, <2>1, SendTracked
  <1>4. CASE KeyboardInterrupt
    BY <1>1, <1>4, HandledTracked
  <1>5. CASE TimerInterrupt \/ Loop \/ UNCHANGED vars
    <2>1. wire' = wire /\ state' = state /\ down' = down
      BY <1>5 DEF TimerInterrupt, Loop, Halt, Test, Goto, Clear, Read, vars, hardware, mailbox
    <2> QED
      BY <1>1, <2>1 DEF Behind, At
  <1> QED
    BY <1>2, <1>3, <1>4, <1>5 DEF Next

\* Once the port is empty, the state of a table entry that one key leads to
\* is the state of that key, whatever was pressed, repeated and released, and
\* whatever the other keys and their prefixes did to the table meanwhile.
THEOREM StateTracked == Spec => []StateFollows
  <1>1. TypeOK /\ Tracked => StateFollows
    <2> SUFFICES ASSUME TypeOK, Tracked, wire = <<>>,
                        NEW e \in Entries \ {PrefixEntry}, NEW k \in Keys, Own(e) = {k}
                 PROVE  e \in state <=> k \in down
      BY DEF StateFollows
    <2>1. Behind(e, k)
      BY DEF Tracked
    <2>2. \A i \in 1 .. Len(wire) : wire[i].entry # e
      OBVIOUS
    <2> QED
      BY <2>1, <2>2 DEF Behind, At
  <1> QED
    BY <1>1, StartTracked, TrackedNext, TypeCorrect, PTL DEF Spec

-----------------------------------------------------------------------------
(* The number of characters.                                                *)

\* The presses on the wire that will set the flag.
Presses == {i \in 1 .. Len(wire) : wire[i].make /\ wire[i].entry # Null}

One(b) == IF b THEN 1 ELSE 0

\* Every character taken, pending or still on the wire was typed.
Counted == Len(taken) + One(hit) + One(pc = "read") + Cardinality(Presses) <= Len(typed)

LEMMA PressesFinite ==
  ASSUME TypeOK
  PROVE  IsFiniteSet(Presses) /\ Cardinality(Presses) \in Nat
  <1>1. IsFiniteSet(1 .. Len(wire))
    BY FS_Interval DEF TypeOK
  <1>2. Presses \in SUBSET (1 .. Len(wire))
    BY DEF Presses
  <1> QED
    BY <1>1, <1>2, FS_Subset, FS_CardinalityType

\* A key event puts at most one press on the wire.
LEMMA SendCounted ==
  ASSUME TypeOK, NEW q \in Keys, NEW make \in BOOLEAN, NEW nth \in Nat,
         Send(Scancode(q, make, nth))
  PROVE  Cardinality(Presses') = Cardinality(Presses) + One(make /\ Entry[q] # Null)
  <1>1. /\ Len(wire) \in Nat
        /\ Len(wire') \in Len(wire) + 1 .. Len(wire) + 2
        /\ \A i \in 1 .. Len(wire) : wire'[i] = wire[i]
        /\ wire'[Len(wire')] = [entry |-> Entry[q], make |-> make, nth |-> nth]
        /\ \A i \in Len(wire) + 1 .. Len(wire') - 1 :
             wire'[i] = [entry |-> PrefixEntry, make |-> FALSE, nth |-> 0]
    <2>1. Len(wire) \in Nat
      BY DEF TypeOK
    <2> QED
      BY <2>1, SendAppends
  <1>2. \A i \in Len(wire) + 1 .. Len(wire') - 1 : i \notin Presses'
    BY <1>1 DEF Presses
  <1>3. Len(wire') \in Presses' <=> make /\ Entry[q] # Null
    BY <1>1 DEF Presses
  <1>4. \A i \in 1 .. Len(wire) : i \in Presses' <=> i \in Presses
    BY <1>1 DEF Presses
  <1>5. Presses' \subseteq 1 .. Len(wire') /\ Presses \subseteq 1 .. Len(wire)
    BY DEF Presses
  <1> HIDE DEF Presses
  <1>6. CASE make /\ Entry[q] # Null
    <2>1. Presses' = Presses \cup {Len(wire')} /\ Len(wire') \notin Presses
      BY <1>1, <1>2, <1>3, <1>4, <1>5, <1>6
    <2> QED
      BY <1>6, <2>1, PressesFinite, FS_AddElement DEF One
  <1>7. CASE ~(make /\ Entry[q] # Null)
    <2>1. Len(wire') \notin Presses'
      BY <1>3, <1>7
    <2>2. \A i \in Presses' : i \in Presses
      BY <1>1, <1>2, <1>4, <1>5, <2>1
    <2>3. \A i \in Presses : i \in Presses'
      BY <1>4, <1>5
    <2>4. Presses' = Presses
      BY <2>2, <2>3
    <2> QED
      BY <1>7, <2>4, PressesFinite DEF One
  <1> QED
    BY <1>6, <1>7

\* The handler takes the first scancode off the wire.
LEMMA HandledCounted ==
  ASSUME TypeOK, KeyboardInterrupt
  PROVE  Cardinality(Presses') = Cardinality(Presses) - One(1 \in Presses)
  <1> DEFINE rest == Presses \ {1}
             f == [i \in rest |-> i - 1]
  <1>1. /\ Len(wire) \in Nat /\ Len(wire) > 0 /\ Len(wire') = Len(wire) - 1
        /\ \A i \in 1 .. Len(wire') : wire'[i] = wire[i + 1]
    BY DEF TypeOK, KeyboardInterrupt
  <1>2. /\ IsFiniteSet(rest)
        /\ Cardinality(rest) = Cardinality(Presses) - One(1 \in Presses)
    BY PressesFinite, FS_RemoveElement DEF One
  <1>3. \A i \in rest : i \in 2 .. Len(wire)
    BY <1>1 DEF Presses
  <1>4. \A i \in rest : i - 1 \in Presses'
    <2> SUFFICES ASSUME NEW i \in rest
                 PROVE  i - 1 \in Presses'
      OBVIOUS
    <2>1. i - 1 \in 1 .. Len(wire') /\ wire'[i - 1] = wire[(i - 1) + 1]
      BY <1>1, <1>3
    <2>2. (i - 1) + 1 = i
      BY <1>3
    <2> QED
      BY <2>1, <2>2 DEF Presses
  <1>5. \A j \in Presses' : j + 1 \in rest /\ f[j + 1] = j
    <2> SUFFICES ASSUME NEW j \in Presses'
                 PROVE  j + 1 \in rest /\ (j + 1) - 1 = j
      OBVIOUS
    <2>1. j \in 1 .. Len(wire') /\ wire'[j].make /\ wire'[j].entry # Null
      BY DEF Presses
    <2>2. j + 1 \in 1 .. Len(wire) /\ wire'[j] = wire[j + 1]
      BY <1>1, <2>1
    <2>3. j + 1 \in Presses
      BY <2>1, <2>2 DEF Presses
    <2> QED
      BY <2>1, <2>3
  <1>6. f \in [rest -> Presses'] /\ \A a, b \in rest : f[a] = f[b] => a = b
    BY <1>3, <1>4
  <1>7. f \in Bijection(rest, Presses')
    BY <1>5, <1>6 DEF Bijection, Injection, Surjection, IsInjective
  <1>8. ExistsBijection(rest, Presses')
    BY <1>7 DEF ExistsBijection
  <1>9. Cardinality(Presses') = Cardinality(rest)
    BY <1>2, <1>8, FS_Bijection
  <1> QED
    BY <1>2, <1>9

LEMMA CountedNext == TypeOK /\ TypeOK' /\ Filled /\ Counted /\ [Next]_vars => Counted'
  <1> SUFFICES ASSUME TypeOK, TypeOK', Filled, Counted, [Next]_vars
               PROVE  Counted'
    OBVIOUS
  <1> DEFINE n == Cardinality(Presses)
  <1>1. n \in Nat /\ Len(typed) \in Nat /\ Len(taken) \in Nat
    BY PressesFinite DEF TypeOK
  <1>8. One(hit) \in {0, 1} /\ One(pc = "read") \in {0, 1}
    BY DEF One
  <1>2. ASSUME NEW q \in Keys, KeyDown(q)
        PROVE  Counted'
    <2>1. PICK nth \in Nat : Send(Scancode(q, TRUE, nth))
      BY <1>2, KeyDownSends
    <2>2. Cardinality(Presses') = n + One(TRUE /\ Entry[q] # Null)
      BY <2>1, SendCounted
    <2>3. Cardinality(Presses') = n + One(Entry[q] # Null)
      BY <2>2
    <2> HIDE DEF n
    <2>5. Len(typed') = Len(typed) + One(Entry[q] # Null)
      <3>1. CASE Entry[q] = Null
        BY <1>1, <1>2, <3>1 DEF KeyDown, One
      <3>2. CASE Entry[q] # Null
        <4>1. Len(typed') = Len(typed) + 1
          BY <1>2, <3>2 DEF KeyDown, TypeOK
        <4> QED
          BY <3>2, <4>1 DEF One
      <3> QED
        BY <3>1, <3>2
    <2>6. UNCHANGED <<taken, hit, pc>>
      BY <1>2 DEF KeyDown, mailbox
    <2>7. One(Entry[q] # Null) \in {0, 1}
      BY DEF One
    <2> QED
      BY <1>1, <1>8, <2>3, <2>5, <2>6, <2>7 DEF Counted, n
  <1>3. ASSUME NEW q \in Keys, KeyUp(q)
        PROVE  Counted'
    <2>1. Send(Scancode(q, FALSE, 0)) /\ UNCHANGED <<taken, typed, hit, pc>>
      BY <1>3 DEF KeyUp, mailbox
    <2>2. Cardinality(Presses') = n
      <3>1. Cardinality(Presses') = n + One(FALSE /\ Entry[q] # Null)
        BY <2>1, SendCounted
      <3>2. One(FALSE /\ Entry[q] # Null) = 0
        BY DEF One
      <3> HIDE DEF n
      <3> QED
        BY <1>1, <3>1, <3>2
    <2> QED
      BY <2>1, <2>2 DEF Counted
  <1>4. CASE KeyboardInterrupt
    <2>1. /\ Cardinality(Presses') = n - One(1 \in Presses)
          /\ UNCHANGED <<taken, typed>> /\ (pc' = "read" <=> pc = "read")
      BY <1>4, HandledCounted DEF KeyboardInterrupt, Awake
    <2>2. 1 \in Presses <=> Head(wire).make /\ Head(wire).entry # Null
      BY <1>4 DEF Presses, KeyboardInterrupt, TypeOK
    <2>3. hit' => hit \/ 1 \in Presses
      BY <1>4, <2>2 DEF KeyboardInterrupt, Accept, mailbox
    <2> HIDE DEF n
    <2>4. One(hit') <= One(hit) + One(1 \in Presses)
      BY <2>3 DEF One
    <2>5. One(1 \in Presses) \in {0, 1} /\ One(hit') \in {0, 1}
      BY DEF One
    <2>6. One(pc' = "read") = One(pc = "read")
      BY <2>1 DEF One
    <2> QED
      BY <1>1, <1>8, <2>1, <2>4, <2>5, <2>6 DEF Counted, n
  <1>5. CASE TimerInterrupt \/ Halt \/ Test \/ UNCHANGED vars
    <2>1. UNCHANGED <<taken, typed, wire, hit>> /\ (pc' = "read" <=> pc = "read")
      BY <1>5 DEF TimerInterrupt, Awake, Halt, Test, Goto, vars, hardware, mailbox
    <2> QED
      BY <2>1 DEF Counted, Presses
  <1>6. CASE Clear
    <2>1. UNCHANGED <<taken, typed, wire>> /\ Presses' = Presses
      BY <1>6 DEF Clear, hardware, Presses
    <2>2. One(hit) = 1 /\ One(hit') = 0 /\ One(pc = "read") = 0 /\ One(pc' = "read") = 1
      BY <1>6 DEF Clear, Filled, One
    <2> HIDE DEF n
    <2> QED
      BY <1>1, <2>1, <2>2 DEF Counted, n
  <1>7. CASE Read
    <2>1. UNCHANGED <<typed, wire, hit>> /\ Presses' = Presses
      BY <1>7 DEF Read, hardware, mailbox, Presses
    <2>2. last \in Chars
      BY <1>7 DEF Read, Filled
    <2>3. Len(taken') = Len(taken) + 1
      BY <1>7, <2>2 DEF Read, TypeOK
    <2>4. One(pc = "read") = 1 /\ One(pc' = "read") = 0
      BY <1>7 DEF Read, One
    <2>5. One(hit) \in {0, 1}
      BY DEF One
    <2> HIDE DEF n
    <2> QED
      BY <1>1, <2>1, <2>3, <2>4, <2>5 DEF Counted, n
  <1> QED
    BY <1>2, <1>3, <1>4, <1>5, <1>6, <1>7 DEF Next, Loop

\* Wherever the interrupts fall between the clearing of the flag and the
\* reading of the key, the loop never gets more characters than were typed.
THEOREM NothingInvented == Spec => []NeverMoreThanTyped
  <1>1. Init => Counted
    <2> SUFFICES ASSUME Init
                 PROVE  Counted
      OBVIOUS
    <2>1. Presses = {}
      BY DEF Init, Presses
    <2>2. Len(taken) = 0 /\ Len(typed) = 0
      BY DEF Init
    <2> QED
      BY <2>1, <2>2, FS_EmptySet DEF Init, Counted, One
  <1>2. TypeOK /\ Counted => NeverMoreThanTyped
    <2> SUFFICES ASSUME TypeOK, Counted
                 PROVE  NeverMoreThanTyped
      OBVIOUS
    <2>1. Cardinality(Presses) \in Nat /\ Len(taken) \in Nat /\ Len(typed) \in Nat
      BY PressesFinite DEF TypeOK
    <2> QED
      <3> DEFINE h == One(hit)
                 r == One(pc = "read")
      <3>1. h \in {0, 1} /\ r \in {0, 1}
        BY DEF One
      <3>2. Len(taken) + h + r + Cardinality(Presses) <= Len(typed)
        BY DEF Counted
      <3>3. /\ h = IF hit THEN 1 ELSE 0
            /\ r = IF pc = "read" THEN 1 ELSE 0
        BY DEF One
      <3> HIDE DEF h, r
      <3>4. Len(taken) + h + r <= Len(typed)
        BY <2>1, <3>1, <3>2
      <3> QED
        BY <3>3, <3>4 DEF NeverMoreThanTyped
  <1>3. Init => TypeOK /\ Filled
    BY InitTyped
  <1> QED
    BY <1>1, <1>2, <1>3, CountedNext, TypeNext, FilledNext, PTL DEF Spec
-----------------------------------------------------------------------------
(* The characters themselves.                                               *)

\* Scancode i on the wire stands for a character exactly if the handler will
\* take it for a press, and the characters are on the wire in their order.
Numbered ==
  /\ \A i \in 1 .. Len(wire) :
       /\ wire[i].nth <= Len(typed)
       /\ wire[i].nth # 0 <=> wire[i].make /\ wire[i].entry # Null
  /\ \A i, j \in 1 .. Len(wire) :
       i < j /\ wire[i].nth # 0 /\ wire[j].nth # 0 => wire[i].nth < wire[j].nth

\* The shift keys held once the first i scancodes are handled: then the
\* handler makes of the entry of the i-th the character that was typed.
Meant(w, keys, chars, i) ==
  \E held \in SUBSET ShiftEntries :
    /\ \A e \in ShiftEntries : At(w, keys, e, i, e \in held)
    /\ chars[w[i].nth] = Symbol(w[i].entry, held # {})

AllMeant ==
  \A i \in 1 .. Len(wire) : wire[i].nth # 0 => Meant(wire, state, typed, i)

\* The number of characters that have left the wire.
Got == Len(taken) + One(hit \/ pc = "read")

\* Without a race the characters taken and the one in the mailbox are those
\* typed first, and the others are on the wire.
InStep == ~raced =>
  /\ ~(hit /\ pc = "read")
  /\ Got <= Len(typed)
  /\ \A n \in 1 .. Len(taken) : taken[n] = typed[n]
  /\ hit \/ pc = "read" => last = typed[Len(taken) + 1]
  /\ \A i \in 1 .. Len(wire) : wire[i].nth # 0 => wire[i].nth > Got
  /\ \A n \in Got + 1 .. Len(typed) : \E i \in 1 .. Len(wire) : wire[i].nth = n

\* A scancode appended to the wire, behind a prefix or not.
Appended(w, longer, s) ==
  /\ longer \in Seq(Scancodes)
  /\ Len(longer) > Len(w)
  /\ \A i \in 1 .. Len(w) : longer[i] = w[i]
  /\ longer[Len(longer)] = s
  /\ \A i \in Len(w) + 1 .. Len(longer) - 1 :
       longer[i] = [entry |-> PrefixEntry, make |-> FALSE, nth |-> 0]

LEMMA SendIs ==
  ASSUME TypeOK, NEW k \in Keys, NEW make \in BOOLEAN, NEW nth \in Nat,
         Send(Scancode(k, make, nth))
  PROVE  Appended(wire, wire', [entry |-> Entry[k], make |-> make, nth |-> nth])
  <1>1. /\ wire' \in Seq(Scancodes)
        /\ Len(wire') \in Len(wire) + 1 .. Len(wire) + 2
        /\ \A i \in 1 .. Len(wire) : wire'[i] = wire[i]
        /\ wire'[Len(wire')] = [entry |-> Entry[k], make |-> make, nth |-> nth]
        /\ \A i \in Len(wire) + 1 .. Len(wire') - 1 :
             wire'[i] = [entry |-> PrefixEntry, make |-> FALSE, nth |-> 0]
    BY SendAppends
  <1>2. Len(wire) \in Nat
    BY DEF TypeOK
  <1>3. Len(wire') > Len(wire)
    BY <1>1, <1>2
  <1> QED
    BY <1>1, <1>3 DEF Appended

\* A scancode of wire that stands for a character.
LEMMA WireType ==
  ASSUME TypeOK
  PROVE  /\ Len(wire) \in Nat /\ Len(typed) \in Nat /\ Len(taken) \in Nat
         /\ \A i \in 1 .. Len(wire) : /\ wire[i] \in Scancodes
                                      /\ wire[i].entry \in Entries \cup {Null}
                                      /\ wire[i].make \in BOOLEAN
                                      /\ wire[i].nth \in Nat
  <1>1. Len(wire) \in Nat /\ Len(typed) \in Nat /\ Len(taken) \in Nat
    BY DEF TypeOK
  <1>2. \A i \in 1 .. Len(wire) : wire[i] \in Scancodes
    BY DEF TypeOK
  <1> QED
    BY <1>1, <1>2 DEF Scancodes

\* What is behind a scancode says nothing about it.
LEMMA LongerMeant ==
  ASSUME NEW w, NEW longer, NEW keys, NEW chars, NEW more, NEW i \in Nat \ {0},
         \A j \in 1 .. i : longer[j] = w[j], more[w[i].nth] = chars[w[i].nth],
         Meant(w, keys, chars, i)
  PROVE  Meant(longer, keys, more, i)
  <1>1. PICK held \in SUBSET ShiftEntries :
          /\ \A e \in ShiftEntries : At(w, keys, e, i, e \in held)
          /\ chars[w[i].nth] = Symbol(w[i].entry, held # {})
    BY DEF Meant
  <1>2. ASSUME NEW e \in ShiftEntries
        PROVE  At(longer, keys, e, i, e \in held)
    <2> DEFINE on == e \in held
    <2>1. on \in BOOLEAN /\ At(w, keys, e, i, on)
      BY <1>1
    <2> HIDE DEF on
    <2>2. At(longer, keys, e, i, on)
      BY <2>1, LongerAt
    <2> QED
      BY <2>2 DEF on
  <1>3. longer[i] = w[i]
    OBVIOUS
  <1> QED
    BY <1>1, <1>2, <1>3 DEF Meant

\* Nor does what has been handled already, once the state has it.
LEMMA TailMeant ==
  ASSUME NEW w \in Seq(Scancodes), w # <<>>, NEW keys, NEW after, NEW chars,
         \A e \in ShiftEntries :
           e \in after <=> IF w[1].entry = e THEN w[1].make ELSE e \in keys,
         NEW i \in 2 .. Len(w), Meant(w, keys, chars, i)
  PROVE  Meant(Tail(w), after, chars, i - 1)
  <1>1. PICK held \in SUBSET ShiftEntries :
          /\ \A e \in ShiftEntries : At(w, keys, e, i, e \in held)
          /\ chars[w[i].nth] = Symbol(w[i].entry, held # {})
    BY DEF Meant
  <1>2. ASSUME NEW e \in ShiftEntries
        PROVE  At(Tail(w), after, e, i - 1, e \in held)
    <2> DEFINE on == e \in held
    <2>1. on \in BOOLEAN /\ At(w, keys, e, i, on) /\ i \in 1 .. Len(w)
      BY <1>1
    <2>2. e \in after <=> IF w[1].entry = e THEN w[1].make ELSE e \in keys
      OBVIOUS
    <2> HIDE DEF on
    <2>3. At(Tail(w), after, e, i - 1, on)
      BY <2>1, <2>2, TailAt
    <2> QED
      BY <2>3 DEF on
  <1>3. Tail(w)[i - 1] = w[i]
    OBVIOUS
  <1> QED
    BY <1>1, <1>2, <1>3 DEF Meant

\* What the events of the keyboard put on the wire.
Sent(s) ==
  /\ Appended(wire, wire', s) /\ s \in Scancodes
  /\ s.nth # 0 <=> s.make /\ s.entry # Null
  /\ \/ s.nth = 0 /\ typed' = typed
     \/ /\ s.nth = Len(typed) + 1 /\ s.nth = Len(typed')
        /\ typed' = Append(typed, Symbol(s.entry, ShiftDown(down')))
  /\ UNCHANGED <<mailbox, pc, taken, raced>>

LEMMA EventSends ==
  ASSUME TypeOK, NEW k \in Keys, KeyDown(k) \/ KeyUp(k)
  PROVE  \E s : Sent(s)
  <1>1. Entry[k] \in Entries \cup {Null} /\ Len(typed) \in Nat
    BY KeyboardAssumption DEF TypeOK
  <1>2. CASE KeyUp(k)
    <2> DEFINE s == [entry |-> Entry[k], make |-> FALSE, nth |-> 0]
    <2>1. Send(Scancode(k, FALSE, 0)) /\ typed' = typed /\ UNCHANGED <<mailbox, pc, taken, raced>>
      BY <1>2 DEF KeyUp
    <2>2. Appended(wire, wire', s)
      BY <2>1, SendIs
    <2>3. s \in Scancodes
      BY <1>1 DEF Scancodes
    <2> QED
      BY <2>1, <2>2, <2>3 DEF Sent
  <1>3. CASE KeyDown(k) /\ Entry[k] = Null
    <2> DEFINE s == [entry |-> Entry[k], make |-> TRUE, nth |-> 0]
    <2>1. Send(Scancode(k, TRUE, 0)) /\ typed' = typed /\ UNCHANGED <<mailbox, pc, taken, raced>>
      BY <1>3 DEF KeyDown
    <2>2. Appended(wire, wire', s)
      BY <2>1, SendIs
    <2>3. s \in Scancodes
      BY <1>1 DEF Scancodes
    <2> QED
      BY <1>3, <2>1, <2>2, <2>3 DEF Sent
  <1>4. CASE KeyDown(k) /\ Entry[k] # Null
    <2> DEFINE nth == Len(typed) + 1
               s == [entry |-> Entry[k], make |-> TRUE, nth |-> nth]
    <2>1. /\ Send(Scancode(k, TRUE, nth))
          /\ typed' = Append(typed, Symbol(Entry[k], ShiftDown(down')))
          /\ UNCHANGED <<mailbox, pc, taken, raced>>
      BY <1>4 DEF KeyDown
    <2>2. nth \in Nat /\ nth # 0
      BY <1>1
    <2>3. Symbol(Entry[k], ShiftDown(down')) \in Chars
      <3>1. Entry[k] \in Entries
        BY <1>1, <1>4
      <3> QED
        BY <3>1, SymbolType DEF ShiftDown
    <2>4. Len(typed') = nth
      BY <2>1, <2>3 DEF TypeOK
    <2> HIDE DEF nth
    <2>5. Appended(wire, wire', s)
      BY <2>1, <2>2, SendIs
    <2>6. s \in Scancodes
      BY <1>1, <2>2 DEF Scancodes
    <2> QED
      BY <1>4, <2>1, <2>2, <2>4, <2>5, <2>6 DEF Sent, nth
  <1> QED
    BY <1>2, <1>3, <1>4

\* An event's scancode is the last on the wire; those before it are the old ones
\* and prefixes.
LEMMA SentShape ==
  ASSUME TypeOK, NEW s, Sent(s)
  PROVE  /\ Len(wire) \in Nat /\ Len(wire') \in Nat /\ Len(wire') > Len(wire)
         /\ \A i \in 1 .. Len(wire) : wire'[i] = wire[i]
         /\ wire'[Len(wire')] = s
         /\ \A i \in Len(wire) + 1 .. Len(wire') - 1 :
              wire'[i].nth = 0 /\ ~wire'[i].make
         /\ Len(typed) \in Nat /\ Len(typed') \in Nat /\ Len(typed') >= Len(typed)
         /\ \A n \in 1 .. Len(typed) : typed'[n] = typed[n]
  <1>1. /\ wire' \in Seq(Scancodes) /\ Len(wire') > Len(wire)
        /\ \A i \in 1 .. Len(wire) : wire'[i] = wire[i]
        /\ wire'[Len(wire')] = s
        /\ \A i \in Len(wire) + 1 .. Len(wire') - 1 :
             wire'[i] = [entry |-> PrefixEntry, make |-> FALSE, nth |-> 0]
    BY DEF Sent, Appended
  <1>2. Len(wire) \in Nat /\ Len(wire') \in Nat /\ Len(typed) \in Nat
    BY <1>1 DEF TypeOK
  <1>3. \A i \in Len(wire) + 1 .. Len(wire') - 1 : wire'[i].nth = 0 /\ ~wire'[i].make
    BY <1>1
  <1>4. /\ Len(typed') \in Nat /\ Len(typed') >= Len(typed)
        /\ \A n \in 1 .. Len(typed) : typed'[n] = typed[n]
    <2>1. CASE typed' = typed
      BY <1>2, <2>1
    <2>2. CASE typed' = Append(typed, Symbol(s.entry, ShiftDown(down')))
      <3>1. typed \in Seq(Chars)
        BY DEF TypeOK
      <3> DEFINE c == Symbol(s.entry, ShiftDown(down'))
      <3>2. typed' = Append(typed, c)
        BY <2>2
      <3> HIDE DEF c
      <3>3. Len(Append(typed, c)) = Len(typed) + 1 /\ \A n \in 1 .. Len(typed) : Append(typed, c)[n] = typed[n]
        BY <3>1
      <3> QED
        BY <1>2, <3>2, <3>3
    <2> QED
      BY <2>1, <2>2 DEF Sent
  <1> QED
    BY <1>1, <1>2, <1>3, <1>4

LEMMA SentNumbered ==
  ASSUME TypeOK, Numbered, NEW s, Sent(s)
  PROVE  Numbered'
  <1> DEFINE n == Len(wire')
             m == Len(wire)
             t == Len(typed)
             u == Len(typed')
  <1>1. /\ m \in Nat /\ n \in Nat /\ n > m /\ t \in Nat /\ u \in Nat /\ u >= t
        /\ \A i \in 1 .. m : wire'[i] = wire[i]
        /\ wire'[n] = s
        /\ \A i \in m + 1 .. n - 1 : wire'[i].nth = 0 /\ ~wire'[i].make
    BY SentShape
  <1>2. /\ s.nth \in Nat /\ (s.nth # 0 <=> s.make /\ s.entry # Null)
        /\ s.nth = 0 \/ (s.nth = t + 1 /\ s.nth = u)
    BY DEF Sent, Scancodes
  <1>3. \A i \in 1 .. m : /\ wire[i].nth \in Nat /\ wire[i].nth <= t
                          /\ wire[i].nth # 0 <=> wire[i].make /\ wire[i].entry # Null
    BY WireType DEF Numbered
  <1>4. \A i, j \in 1 .. m :
          i < j /\ wire[i].nth # 0 /\ wire[j].nth # 0 => wire[i].nth < wire[j].nth
    BY DEF Numbered
  <1> HIDE DEF n, m, t, u
  <1>5. \A i \in 1 .. n : i \in 1 .. m \/ i \in m + 1 .. n - 1 \/ i = n
    BY <1>1
  <1>6. ASSUME NEW i \in 1 .. n
        PROVE  /\ wire'[i].nth <= u
               /\ wire'[i].nth # 0 <=> wire'[i].make /\ wire'[i].entry # Null
    <2>1. CASE i \in 1 .. m
      BY <1>1, <1>3, <2>1
    <2>2. CASE i \in m + 1 .. n - 1
      BY <1>1, <2>2
    <2>3. CASE i = n
      BY <1>1, <1>2, <2>3
    <2> QED
      BY <1>5, <2>1, <2>2, <2>3
  <1>7. ASSUME NEW i \in 1 .. n, NEW j \in 1 .. n, i < j, wire'[i].nth # 0, wire'[j].nth # 0
        PROVE  wire'[i].nth < wire'[j].nth
    <2>1. i \in 1 .. m
      BY <1>1, <1>5, <1>7
    <2>2. CASE j \in 1 .. m
      BY <1>1, <1>4, <1>7, <2>1, <2>2
    <2>3. CASE j = n
      BY <1>1, <1>2, <1>3, <1>7, <2>1, <2>3
    <2> QED
      BY <1>1, <1>5, <1>7, <2>2, <2>3
  <1> QED
    BY <1>6, <1>7 DEF Numbered, n, u

\* The character of a press is the one the shift keys held then give it.
LEMMA SentMeant ==
  ASSUME TypeOK, TypeOK', Numbered, AllMeant, Tracked', NEW s, Sent(s)
  PROVE  AllMeant'
  <1> SUFFICES ASSUME NEW i \in 1 .. Len(wire'), wire'[i].nth # 0
               PROVE  Meant(wire', state', typed', i)
    BY DEF AllMeant
  <1>1. /\ Len(wire) \in Nat /\ Len(wire') \in Nat /\ Len(wire') > Len(wire)
        /\ \A j \in 1 .. Len(wire) : wire'[j] = wire[j]
        /\ wire'[Len(wire')] = s
        /\ \A j \in Len(wire) + 1 .. Len(wire') - 1 : wire'[j].nth = 0
        /\ Len(typed) \in Nat /\ \A n \in 1 .. Len(typed) : typed'[n] = typed[n]
    BY SentShape
  <1>2. state' = state
    BY DEF Sent, mailbox
  <1>3. CASE i \in 1 .. Len(wire)
    <2>1. wire[i].nth # 0 /\ Meant(wire, state, typed, i)
      BY <1>1, <1>3 DEF AllMeant
    <2>2. wire[i].nth \in 1 .. Len(typed)
      BY <1>3, <2>1, WireType DEF Numbered
    <2>3. typed'[wire[i].nth] = typed[wire[i].nth] /\ \A j \in 1 .. i : wire'[j] = wire[j]
      BY <1>1, <1>3, <2>2
    <2>4. Meant(wire', state, typed', i)
      BY <1>3, <2>1, <2>3, LongerMeant
    <2> QED
      BY <1>2, <2>4
  <1>4. CASE i = Len(wire')
    <2> DEFINE held == {e \in ShiftEntries : \E q \in Keys : Own(e) = {q} /\ q \in down'}
    <2>1. s.nth = Len(typed) + 1 /\ typed' = Append(typed, Symbol(s.entry, ShiftDown(down')))
      BY <1>1, <1>4 DEF Sent
    <2>2. typed'[s.nth] = Symbol(s.entry, ShiftDown(down'))
      <3> DEFINE c == Symbol(s.entry, ShiftDown(down'))
      <3>1. typed \in Seq(Chars) /\ typed' = Append(typed, c)
        BY <2>1 DEF TypeOK
      <3> HIDE DEF c
      <3>2. Append(typed, c)[Len(typed) + 1] = c
        BY <3>1
      <3> QED
        BY <2>1, <3>1, <3>2 DEF c
    <2>3. ASSUME NEW e \in ShiftEntries
          PROVE  At(wire', state', e, i, e \in held)
      <3>1. PICK q \in Keys : Own(e) = {q}
        BY ShiftAssumption DEF Own
      <3>2. e \in Entries \ {PrefixEntry}
        BY KeyboardAssumption, ShiftAssumption
      <3>3. At(wire', state', e, Len(wire'), q \in down')
        BY <3>1, <3>2 DEF Tracked, Behind, Own
      <3>4. (e \in held) = (q \in down')
        BY <3>1
      <3> QED
        BY <1>4, <3>3, <3>4
    <2>4. ShiftDown(down') <=> held # {}
      <3>1. ASSUME NEW k \in Keys, Entry[k] \in ShiftEntries
            PROVE  Own(Entry[k]) = {k}
        BY <3>1, ShiftAssumption DEF Own
      <3>2. ASSUME NEW e \in ShiftEntries, NEW q \in Keys, Own(e) = {q}
            PROVE  Entry[q] = e
        BY <3>2 DEF Own
      <3>3. down' \subseteq Keys
        BY DEF TypeOK
      <3>4. ASSUME ShiftDown(down')
            PROVE  held # {}
        <4>1. PICK k \in down' : Entry[k] \in ShiftEntries
          BY <3>4 DEF ShiftDown
        <4>2. k \in Keys /\ Own(Entry[k]) = {k}
          BY <3>1, <3>3, <4>1
        <4>3. Entry[k] \in held
          BY <4>1, <4>2
        <4> QED
          BY <4>3
      <3>5. ASSUME held # {}
            PROVE  ShiftDown(down')
        <4>1. PICK e \in ShiftEntries : \E q \in Keys : Own(e) = {q} /\ q \in down'
          BY <3>5
        <4>2. PICK q \in Keys : Own(e) = {q} /\ q \in down'
          BY <4>1
        <4>3. Entry[q] \in ShiftEntries
          BY <3>2, <4>1, <4>2
        <4> QED
          BY <4>2, <4>3 DEF ShiftDown
      <3> QED
        BY <3>4, <3>5
    <2>5. held \in SUBSET ShiftEntries
      OBVIOUS
    <2> HIDE DEF held
    <2>6. typed'[wire'[i].nth] = Symbol(wire'[i].entry, held # {})
      BY <1>1, <1>4, <2>2, <2>4 DEF Symbol
    <2> QED
      BY <2>3, <2>5, <2>6 DEF Meant
  <1> QED
    BY <1>1, <1>3, <1>4

LEMMA SentInStep ==
  ASSUME TypeOK, Numbered, InStep, NEW s, Sent(s)
  PROVE  InStep'
  <1> SUFFICES ASSUME ~raced
               PROVE  InStep'
    BY DEF Sent, InStep
  <1> DEFINE g == Got
             n == Len(wire')
             m == Len(wire)
             t == Len(typed)
             u == Len(typed')
  <1>1. /\ m \in Nat /\ n \in Nat /\ n > m /\ t \in Nat /\ u \in Nat /\ u >= t
        /\ \A i \in 1 .. m : wire'[i] = wire[i]
        /\ wire'[n] = s
        /\ \A i \in m + 1 .. n - 1 : wire'[i].nth = 0
        /\ \A i \in 1 .. t : typed'[i] = typed[i]
    BY SentShape
  <1>2. s.nth \in Nat /\ ((s.nth = 0 /\ u = t) \/ (s.nth = t + 1 /\ s.nth = u))
    BY DEF Sent, Scancodes
  <1>3. /\ ~(hit /\ pc = "read") /\ g <= t
        /\ \A i \in 1 .. Len(taken) : taken[i] = typed[i]
        /\ hit \/ pc = "read" => last = typed[Len(taken) + 1]
        /\ \A i \in 1 .. m : wire[i].nth # 0 => wire[i].nth > g
        /\ \A k \in g + 1 .. t : \E i \in 1 .. m : wire[i].nth = k
    BY DEF InStep
  <1>4. /\ hit' = hit /\ pc' = pc /\ taken' = taken /\ last' = last /\ raced' = raced
        /\ Got' = g
    BY DEF Sent, mailbox, Got
  <1>5. Len(taken) \in Nat /\ g \in Nat /\ Len(taken) <= g
        /\ (hit \/ pc = "read" => g = Len(taken) + 1)
    BY WireType DEF Got, One
  <1> HIDE DEF g, n, m, t, u
  <1>6. \A i \in 1 .. Len(taken) : taken[i] = typed'[i]
    BY <1>1, <1>3, <1>5
  <1>7. hit \/ pc = "read" => last = typed'[Len(taken) + 1]
    BY <1>1, <1>3, <1>5
  <1>8. \A i \in 1 .. n : i \in 1 .. m \/ i \in m + 1 .. n - 1 \/ i = n
    BY <1>1
  <1>9. ASSUME NEW i \in 1 .. n, wire'[i].nth # 0
        PROVE  wire'[i].nth > g
    <2>1. CASE i \in 1 .. m
      BY <1>1, <1>3, <1>9, <2>1
    <2>2. CASE i = n
      BY <1>1, <1>2, <1>3, <1>5, <1>9, <2>2
    <2> QED
      BY <1>1, <1>8, <1>9, <2>1, <2>2
  <1>10. ASSUME NEW k \in g + 1 .. u
         PROVE  \E i \in 1 .. n : wire'[i].nth = k
    <2>1. CASE k <= t
      <3>1. k \in g + 1 .. t
        BY <1>1, <1>5, <2>1
      <3>2. PICK i \in 1 .. m : wire[i].nth = k
        BY <1>3, <3>1
      <3>3. i \in 1 .. n /\ wire'[i].nth = k
        BY <1>1, <3>2
      <3> QED
        BY <3>3
    <2>2. CASE k > t
      <3>1. k = s.nth /\ n \in 1 .. n
        BY <1>1, <1>2, <1>5, <2>2
      <3> QED
        BY <1>1, <3>1
    <2> QED
      BY <1>1, <1>5, <2>1, <2>2
  <1>11. g <= u
    BY <1>1, <1>3, <1>5
  <1> QED
    BY <1>3, <1>4, <1>6, <1>7, <1>9, <1>10, <1>11 DEF InStep, n, u

\* The handler takes one scancode off the wire.
LEMMA HandledShape ==
  ASSUME TypeOK, KeyboardInterrupt
  PROVE  /\ wire \in Seq(Scancodes) /\ wire # <<>> /\ wire' = Tail(wire)
         /\ Head(wire) = wire[1] /\ Len(wire) \in Nat /\ Len(wire) > 0
         /\ Len(wire') = Len(wire) - 1
         /\ \A i \in 1 .. Len(wire') : i + 1 \in 1 .. Len(wire) /\ wire'[i] = wire[i + 1]
         /\ typed' = typed /\ taken' = taken /\ (pc' = "read" <=> pc = "read")
  <1>1. wire \in Seq(Scancodes) /\ wire # <<>> /\ wire' = Tail(wire)
    BY DEF TypeOK, KeyboardInterrupt
  <1>2. typed' = typed /\ taken' = taken /\ (pc' = "read" <=> pc = "read")
    BY DEF KeyboardInterrupt, Awake
  <1> QED
    BY <1>1, <1>2

LEMMA HandledNumbered ==
  ASSUME TypeOK, Numbered, KeyboardInterrupt
  PROVE  Numbered'
  <1>1. /\ Len(wire) \in Nat /\ Len(wire) > 0 /\ Len(wire') = Len(wire) - 1
        /\ \A i \in 1 .. Len(wire') : i + 1 \in 1 .. Len(wire) /\ wire'[i] = wire[i + 1]
        /\ typed' = typed
    BY HandledShape
  <1>2. ASSUME NEW i \in 1 .. Len(wire')
        PROVE  /\ wire'[i].nth <= Len(typed')
               /\ wire'[i].nth # 0 <=> wire'[i].make /\ wire'[i].entry # Null
    <2>1. i + 1 \in 1 .. Len(wire) /\ wire'[i] = wire[i + 1]
      BY <1>1
    <2>2. /\ wire[i + 1].nth <= Len(typed)
          /\ wire[i + 1].nth # 0 <=> wire[i + 1].make /\ wire[i + 1].entry # Null
      BY <2>1 DEF Numbered
    <2> QED
      BY <1>1, <2>1, <2>2
  <1>3. ASSUME NEW i \in 1 .. Len(wire'), NEW j \in 1 .. Len(wire'), i < j,
               wire'[i].nth # 0, wire'[j].nth # 0
        PROVE  wire'[i].nth < wire'[j].nth
    <2>1. /\ i + 1 \in 1 .. Len(wire) /\ wire'[i] = wire[i + 1]
          /\ j + 1 \in 1 .. Len(wire) /\ wire'[j] = wire[j + 1]
          /\ i + 1 < j + 1
      BY <1>1, <1>3
    <2> QED
      BY <1>3, <2>1 DEF Numbered
  <1> QED
    BY <1>2, <1>3 DEF Numbered

LEMMA HandledMeant ==
  ASSUME TypeOK, AllMeant, KeyboardInterrupt
  PROVE  AllMeant'
  <1> SUFFICES ASSUME NEW i \in 1 .. Len(wire'), wire'[i].nth # 0
               PROVE  Meant(wire', state', typed', i)
    BY DEF AllMeant
  <1>1. /\ wire \in Seq(Scancodes) /\ wire # <<>> /\ wire' = Tail(wire)
        /\ i + 1 \in 1 .. Len(wire) /\ wire'[i] = wire[i + 1] /\ typed' = typed
    BY HandledShape
  <1> DEFINE after == state'
             j == i + 1
             w == wire
  <1>2. Meant(w, state, typed, j)
    BY <1>1 DEF AllMeant
  <1>3. \A e \in ShiftEntries :
          e \in after <=> IF w[1].entry = e THEN w[1].make ELSE e \in state
    BY HandledState, KeyboardAssumption
  <1>4. w \in Seq(Scancodes) /\ w # <<>> /\ j \in 2 .. Len(w) /\ i = j - 1 /\ wire' = Tail(w)
    BY <1>1
  <1> HIDE DEF after, j, w
  <1>5. Meant(Tail(w), after, typed, j - 1)
    BY <1>2, <1>3, <1>4, TailMeant
  <1> QED
    BY <1>1, <1>4, <1>5 DEF after

\* The character the handler finds is the one that was typed.
LEMMA HandledMeans ==
  ASSUME TypeOK, AllMeant, KeyboardInterrupt, wire[1].nth # 0, wire[1].entry # Null
  PROVE  last' = typed[wire[1].nth]
  <1>1. 1 \in 1 .. Len(wire) /\ Head(wire) = wire[1]
    BY HandledShape
  <1>2. Meant(wire, state, typed, 1)
    BY <1>1 DEF AllMeant
  <1>3. PICK held \in SUBSET ShiftEntries :
          /\ \A e \in ShiftEntries : At(wire, state, e, 1, e \in held)
          /\ typed[wire[1].nth] = Symbol(wire[1].entry, held # {})
    BY <1>2 DEF Meant
  <1>4. ASSUME NEW e \in ShiftEntries
        PROVE  e \in held <=> e \in state'
    <2>1. At(wire, state, e, 1, e \in held)
      BY <1>3
    <2>2. e \in state' <=> IF wire[1].entry = e THEN wire[1].make ELSE e \in state
      BY HandledState, KeyboardAssumption
    <2>3. CASE wire[1].entry = e
      <3>1. wire[1].make <=> e \in held
        BY <2>1, <2>3 DEF At
      <3> QED
        BY <2>2, <2>3, <3>1
    <2>4. CASE wire[1].entry # e
      <3>1. e \in state <=> e \in held
        BY <2>1, <2>4 DEF At
      <3> QED
        BY <2>2, <2>4, <3>1
    <2> QED
      BY <2>3, <2>4
  <1>5. held = state' \cap ShiftEntries
    BY <1>3, <1>4
  <1>6. last' = Symbol(wire[1].entry, state' \cap ShiftEntries # {})
    BY <1>1 DEF KeyboardInterrupt, Accept
  <1> QED
    BY <1>3, <1>5, <1>6

LEMMA HandledInStep ==
  ASSUME TypeOK, Numbered, AllMeant, InStep, KeyboardInterrupt
  PROVE  InStep'
  <1> SUFFICES ASSUME ~raced'
               PROVE  InStep'
    BY DEF InStep
  <1> DEFINE g == Got
             m == Len(wire)
             t == Len(typed)
             k == Len(taken)
             first == wire[1].nth
  <1>1. /\ Head(wire) = wire[1] /\ m \in Nat /\ m > 0 /\ Len(wire') = m - 1
        /\ \A i \in 1 .. m - 1 : i + 1 \in 1 .. m /\ wire'[i] = wire[i + 1]
        /\ typed' = typed /\ taken' = taken /\ (pc' = "read" <=> pc = "read")
    BY HandledShape
  <1>2. ~raced /\ (wire[1].entry # Null => ~hit /\ pc # "read")
    BY <1>1 DEF KeyboardInterrupt, TypeOK
  <1>3. /\ ~(hit /\ pc = "read") /\ g <= t
        /\ \A i \in 1 .. k : taken[i] = typed[i]
        /\ hit \/ pc = "read" => last = typed[k + 1]
        /\ \A i \in 1 .. m : wire[i].nth # 0 => wire[i].nth > g
        /\ \A n \in g + 1 .. t : \E i \in 1 .. m : wire[i].nth = n
    BY <1>2 DEF InStep
  <1>4. t \in Nat /\ k \in Nat /\ \A i \in 1 .. m : wire[i].nth \in Nat
    BY WireType
  <1>5. g \in Nat /\ g = k + One(hit \/ pc = "read")
    BY <1>4 DEF Got, One
  <1>6. 1 \in 1 .. m
    BY <1>1
  <1>7. (first # 0 <=> wire[1].make /\ wire[1].entry # Null) /\ first <= t
    BY <1>6 DEF Numbered
  <1>8. \A i \in 1 .. m : 1 < i /\ first # 0 /\ wire[i].nth # 0 => first < wire[i].nth
    BY <1>6 DEF Numbered
  <1>9. CASE first = 0
    <2>1. hit' = hit /\ (hit \/ pc = "read" => last' = last)
      BY <1>1, <1>2, <1>7, <1>9 DEF KeyboardInterrupt, Accept, mailbox, TypeOK
    <2>2. Got' = g
      BY <1>1, <2>1 DEF Got
    <2> HIDE DEF g, m, t, k, first
    <2>3. ASSUME NEW i \in 1 .. m - 1, wire'[i].nth # 0
          PROVE  wire'[i].nth > g
      BY <1>1, <1>3, <2>3
    <2>4. ASSUME NEW n \in g + 1 .. t
          PROVE  \E i \in 1 .. m - 1 : wire'[i].nth = n
      <3>1. PICK i \in 1 .. m : wire[i].nth = n
        BY <1>3
      <3>2. i # 1
        BY <1>4, <1>5, <1>9, <3>1 DEF first
      <3>3. i - 1 \in 1 .. m - 1 /\ (i - 1) + 1 = i
        BY <1>1, <3>2
      <3>4. wire'[i - 1].nth = n
        BY <1>1, <3>1, <3>3
      <3> QED
        BY <3>3, <3>4
    <2>5. /\ Len(typed') = t /\ Len(taken') = k /\ Len(wire') = m - 1
          /\ ~(hit' /\ pc' = "read") /\ (hit' \/ pc' = "read" => last' = typed'[k + 1])
      BY <1>1, <1>3, <2>1 DEF t, k
    <2> QED
      BY <1>1, <1>3, <2>2, <2>3, <2>4, <2>5 DEF InStep
  <1>10. CASE first # 0
    <2>1. ~hit /\ pc # "read" /\ g = k
      BY <1>2, <1>4, <1>5, <1>7, <1>10 DEF One
    <2>2. hit'
      BY <1>1, <1>7, <1>10 DEF KeyboardInterrupt, Accept
    <2>3. pc' # "read" /\ Got' = k + 1
      BY <1>1, <1>4, <2>1, <2>2 DEF Got, One
    <2>4. last' = typed[first]
      BY <1>7, <1>10, HandledMeans
    <2> HIDE DEF g, m, t, k, first
    <2>5. first \in Nat /\ first > k
      BY <1>3, <1>4, <1>6, <1>10, <2>1 DEF first
    <2>6. first = k + 1
      <3>1. k + 1 \in g + 1 .. t
        BY <1>4, <1>7, <2>1, <2>5
      <3>2. PICK i \in 1 .. m : wire[i].nth = k + 1
        BY <1>3, <3>1
      <3>3. CASE i = 1
        BY <3>2, <3>3 DEF first
      <3>4. CASE i # 1
        <4>1. first < k + 1
          BY <1>1, <1>4, <1>8, <1>10, <3>2, <3>4
        <4> QED
          BY <1>4, <2>5, <4>1
      <3> QED
        BY <3>3, <3>4
    <2>7. ASSUME NEW i \in 1 .. m - 1, wire'[i].nth # 0
          PROVE  wire'[i].nth > k + 1
      <3>1. i + 1 \in 1 .. m /\ wire'[i] = wire[i + 1] /\ 1 < i + 1
        BY <1>1
      <3> QED
        BY <1>8, <1>10, <2>6, <2>7, <3>1
    <2>8. ASSUME NEW n \in (k + 1) + 1 .. t
          PROVE  \E i \in 1 .. m - 1 : wire'[i].nth = n
      <3>1. n \in g + 1 .. t
        BY <1>4, <2>1
      <3>2. PICK i \in 1 .. m : wire[i].nth = n
        BY <1>3, <3>1
      <3>3. i # 1
        BY <1>4, <2>6, <3>2 DEF first
      <3>4. i - 1 \in 1 .. m - 1 /\ (i - 1) + 1 = i
        BY <1>1, <3>3
      <3>5. wire'[i - 1].nth = n
        BY <1>1, <3>2, <3>4
      <3> QED
        BY <3>4, <3>5
    <2>9. /\ Len(typed') = t /\ Len(taken') = k /\ Len(wire') = m - 1
          /\ k + 1 <= t /\ last' = typed'[k + 1]
      BY <1>1, <1>7, <2>4, <2>6 DEF t, k
    <2> QED
      BY <1>1, <1>3, <2>3, <2>7, <2>8, <2>9 DEF InStep
  <1> QED
    BY <1>9, <1>10

\* The main loop takes the character from the mailbox.
LEMMA LoopInStep ==
  ASSUME TypeOK, Filled, InStep, TimerInterrupt \/ Loop
  PROVE  InStep'
  <1> SUFFICES ASSUME ~raced
               PROVE  InStep'
    BY DEF InStep, TimerInterrupt, Loop, Halt, Test, Goto, Clear, Read, mailbox, hardware
  <1>1. /\ ~(hit /\ pc = "read") /\ Got <= Len(typed)
        /\ \A i \in 1 .. Len(taken) : taken[i] = typed[i]
        /\ hit \/ pc = "read" => last = typed[Len(taken) + 1]
        /\ \A i \in 1 .. Len(wire) : wire[i].nth # 0 => wire[i].nth > Got
        /\ \A n \in Got + 1 .. Len(typed) : \E i \in 1 .. Len(wire) : wire[i].nth = n
    BY DEF InStep
  <1>2. Len(taken) \in Nat /\ taken \in Seq(Chars)
    BY DEF TypeOK
  <1>3. CASE ~Read
    <2>1. /\ UNCHANGED <<taken, typed, wire, last>> /\ ~(hit' /\ pc' = "read")
          /\ (hit' \/ pc' = "read" <=> hit \/ pc = "read")
      BY <1>1, <1>3
         DEF TimerInterrupt, Awake, Loop, Halt, Test, Goto, Clear, mailbox, hardware, Filled, TypeOK
    <2>2. Got' = Got
      BY <2>1 DEF Got, One
    <2> QED
      BY <1>1, <2>1, <2>2 DEF InStep
  <1>4. CASE Read
    <2>1. /\ UNCHANGED <<typed, wire, hit, last>> /\ pc = "read" /\ pc' = "loop"
          /\ taken' = Append(taken, last)
      BY <1>4 DEF Read, mailbox, hardware
    <2>2. last \in Chars /\ ~hit
      BY <1>1, <2>1 DEF Filled
    <2>3. /\ Len(taken') = Len(taken) + 1 /\ taken'[Len(taken) + 1] = last
          /\ \A i \in 1 .. Len(taken) : taken'[i] = taken[i]
      BY <1>2, <2>1, <2>2
    <2>4. Got' = Got
      BY <1>2, <2>1, <2>2, <2>3 DEF Got, One
    <2>5. \A i \in 1 .. Len(taken') : taken'[i] = typed'[i]
      BY <1>1, <1>2, <2>1, <2>3
    <2> QED
      BY <1>1, <2>1, <2>2, <2>4, <2>5 DEF InStep
  <1> QED
    BY <1>3, <1>4

\* All that is needed: what is on the wire, what it means, what has been got.
Followed == Numbered /\ AllMeant /\ InStep

LEMMA FollowedNext ==
  TypeOK /\ TypeOK' /\ Filled /\ Tracked' /\ Followed /\ [Next]_vars => Followed'
  <1> SUFFICES ASSUME TypeOK, TypeOK', Filled, Tracked', Followed, [Next]_vars
               PROVE  Followed'
    OBVIOUS
  <1> USE DEF Followed
  <1>1. ASSUME NEW k \in Keys, KeyDown(k) \/ KeyUp(k)
        PROVE  Followed'
    <2>1. PICK s : Sent(s)
      BY <1>1, EventSends
    <2> QED
      BY <2>1, SentNumbered, SentMeant, SentInStep
  <1>2. CASE KeyboardInterrupt
    BY <1>2, HandledNumbered, HandledMeant, HandledInStep
  <1>3. CASE TimerInterrupt \/ Loop
    <2>1. UNCHANGED <<wire, typed, state>>
      BY <1>3 DEF TimerInterrupt, Loop, Halt, Test, Goto, Clear, Read, mailbox, hardware
    <2>2. Numbered' /\ AllMeant'
      BY <2>1 DEF Numbered, AllMeant
    <2> QED
      BY <1>3, <2>2, LoopInStep
  <1>4. CASE UNCHANGED vars
    BY <1>4 DEF vars, Numbered, AllMeant, InStep, Got
  <1> QED
    BY <1>1, <1>2, <1>3, <1>4 DEF Next

\* Handled one by one, the keys typed arrive in order, none missing and each as
\* the shift keys were held when it was pressed: for every table in which the
\* shift keys have entries of their own, and any number of keys.
THEOREM KeysArrive == Spec => []Faithful
  <1>1. Init => Followed
    <2> SUFFICES ASSUME Init
                 PROVE  Followed
      OBVIOUS
    <2>1. Len(wire) = 0 /\ Len(typed) = 0 /\ Len(taken) = 0 /\ ~hit /\ pc = "loop"
      BY DEF Init
    <2> QED
      BY <2>1 DEF Followed, Numbered, AllMeant, InStep, Got, One
  <1>2. Init => Tracked
    BY StartTracked
  <1>3. TypeOK /\ Filled /\ Followed => Faithful
    <2> SUFFICES ASSUME TypeOK, Filled, Followed, ~raced
                 PROVE  /\ IsPrefix(taken \o Pending, typed)
                        /\ {wire[i].nth : i \in DOMAIN wire} \ {0}
                             = Len(taken \o Pending) + 1 .. Len(typed)
      BY DEF Faithful
    <2> DEFINE got == taken \o Pending
               k == Len(taken)
    <2>1. /\ Got <= Len(typed)
          /\ \A i \in 1 .. k : taken[i] = typed[i]
          /\ hit \/ pc = "read" => last = typed[k + 1]
          /\ \A i \in 1 .. Len(wire) : wire[i].nth # 0 => wire[i].nth > Got
          /\ \A n \in Got + 1 .. Len(typed) : \E i \in 1 .. Len(wire) : wire[i].nth = n
      BY DEF Followed, InStep
    <2>2. /\ Len(typed) \in Nat /\ k \in Nat /\ Len(wire) \in Nat
          /\ \A i \in 1 .. Len(wire) : wire[i].nth \in Nat /\ wire[i].nth <= Len(typed)
      BY WireType DEF Followed, Numbered
    <2>3. /\ got \in Seq(Chars) /\ Len(got) = Got /\ Len(got) \in Nat
          /\ \A i \in 1 .. Len(got) : got[i] = typed[i]
      <3>1. CASE hit \/ pc = "read"
        <4>1. Pending = <<last>> /\ <<last>> \in Seq(Chars) /\ taken \in Seq(Chars)
          BY <3>1 DEF Pending, Filled, TypeOK
        <4>2. /\ got \in Seq(Chars) /\ Len(got) = k + 1 /\ got[k + 1] = last
              /\ \A i \in 1 .. k : got[i] = taken[i]
          BY <4>1
        <4>3. Got = k + 1
          BY <3>1 DEF Got, One
        <4> QED
          BY <2>1, <2>2, <3>1, <4>2, <4>3
      <3>2. CASE ~(hit \/ pc = "read")
        <4>1. Pending = << >> /\ taken \in Seq(Chars)
          BY <3>2 DEF Pending, TypeOK
        <4>2. got = taken
          BY <4>1
        <4>3. Got = k
          BY <2>2, <3>2 DEF Got, One
        <4> QED
          BY <2>1, <2>2, <4>1, <4>2, <4>3
      <3> QED
        BY <3>1, <3>2
    <2> HIDE DEF got, k
    <2>4. IsPrefix(got, typed)
      <3>1. typed \in Seq(Chars)
        BY DEF TypeOK
      <3> QED
        BY <2>1, <2>2, <2>3, <3>1 DEF IsPrefix
    <2>5. {wire[i].nth : i \in DOMAIN wire} \ {0} = Len(got) + 1 .. Len(typed)
      <3>1. DOMAIN wire = 1 .. Len(wire)
        BY DEF TypeOK
      <3>2. ASSUME NEW i \in 1 .. Len(wire), wire[i].nth # 0
            PROVE  wire[i].nth \in Len(got) + 1 .. Len(typed)
        BY <2>1, <2>2, <2>3, <3>2
      <3>3. ASSUME NEW n \in Len(got) + 1 .. Len(typed)
            PROVE  n # 0 /\ \E i \in 1 .. Len(wire) : wire[i].nth = n
        BY <2>1, <2>3
      <3> QED
        BY <3>1, <3>2, <3>3
    <2> QED
      BY <2>4, <2>5 DEF got
  <1> QED
    BY <1>1, <1>2, <1>3, FollowedNext, TrackedNext, InitTyped, TypeNext, FilledNext, PTL
       DEF Spec

-----------------------------------------------------------------------------
(* The press handled last.                                                  *)

Waiting == LatestKept /\ fresh <= Len(typed)

LEMMA WaitingNext ==
  TypeOK /\ TypeOK' /\ Filled /\ Followed /\ Waiting /\ [Next]_vars => Waiting'
  <1> SUFFICES ASSUME TypeOK, TypeOK', Filled, Followed, Waiting, [Next]_vars
               PROVE  Waiting'
    OBVIOUS
  <1>1. /\ fresh \in Nat /\ Len(typed) \in Nat /\ fresh <= Len(typed)
        /\ fresh # 0 => (hit \/ pc = "read") /\ (~covered => last = typed[fresh])
    BY DEF TypeOK, Waiting, LatestKept
  <1>2. ASSUME NEW k \in Keys, KeyDown(k) \/ KeyUp(k)
        PROVE  Waiting'
    <2>1. PICK s : Sent(s)
      BY <1>2, EventSends
    <2>2. /\ Len(typed') \in Nat /\ Len(typed') >= Len(typed)
          /\ \A n \in 1 .. Len(typed) : typed'[n] = typed[n]
      BY <2>1, SentShape
    <2>3. UNCHANGED <<last, hit, pc, fresh, covered>>
      BY <1>2 DEF KeyDown, KeyUp, mailbox, latest
    <2>4. fresh # 0 => typed'[fresh] = typed[fresh]
      BY <1>1, <2>2
    <2> QED
      BY <1>1, <2>2, <2>3, <2>4 DEF Waiting, LatestKept
  <1>3. CASE KeyboardInterrupt
    <2>1. /\ typed' = typed /\ (pc' = "read" <=> pc = "read") /\ Head(wire) = wire[1]
          /\ 1 \in 1 .. Len(wire)
      BY <1>3, HandledShape
    <2>2. wire[1].nth # 0 <=> wire[1].make /\ wire[1].entry # Null
      BY <2>1 DEF Followed, Numbered
    <2>3. wire[1].nth \in Nat /\ wire[1].nth <= Len(typed)
      BY <2>1, WireType DEF Followed, Numbered
    <2>4. CASE wire[1].entry = Null
      <3>1. UNCHANGED <<last, hit, fresh, covered>>
        BY <1>3, <2>1, <2>4 DEF KeyboardInterrupt, mailbox, latest
      <3> QED
        BY <1>1, <2>1, <3>1 DEF Waiting, LatestKept
    <2>5. CASE wire[1].entry # Null /\ wire[1].make
      <3>1. last' = typed[wire[1].nth]
        BY <1>3, <2>2, <2>5, HandledMeans DEF Followed
      <3>2. hit' /\ fresh' = wire[1].nth
        BY <1>3, <2>1, <2>5 DEF KeyboardInterrupt, Accept, Remember
      <3> QED
        BY <2>1, <2>3, <3>1, <3>2 DEF Waiting, LatestKept
    <2>6. CASE wire[1].entry # Null /\ ~wire[1].make
      <3>1. hit' = hit /\ fresh' = fresh /\ covered'
        BY <1>3, <2>1, <2>6 DEF KeyboardInterrupt, Accept, Remember, TypeOK
      <3> QED
        BY <1>1, <2>1, <3>1 DEF Waiting, LatestKept
    <2> QED
      BY <2>4, <2>5, <2>6
  <1>4. CASE TimerInterrupt \/ Halt \/ Test \/ UNCHANGED vars
    <2>1. /\ UNCHANGED <<last, hit, fresh, covered, typed>>
          /\ pc' = "read" <=> pc = "read"
      BY <1>4
         DEF TimerInterrupt, Awake, Halt, Test, Goto, vars, mailbox, hardware, latest
    <2> QED
      BY <1>1, <2>1 DEF Waiting, LatestKept
  <1>5. CASE Clear
    BY <1>1, <1>5 DEF Clear, Waiting, LatestKept, hardware, latest
  <1>6. CASE Read
    BY <1>1, <1>6 DEF Read, Waiting, LatestKept, hardware
  <1> QED
    BY <1>2, <1>3, <1>4, <1>5, <1>6 DEF Next, Loop

\* The press handled last waits, flagged, until the loop reads the mailbox, and
\* the loop will read the character the user typed, in its case, unless a
\* release or a prefix was handled behind it: for every table whose shift keys
\* have entries of their own, wherever the interrupts fall.
THEOREM NeverForgotten == Spec => []LatestKept
  <1>1. Init => Waiting /\ Followed
    <2> SUFFICES ASSUME Init
                 PROVE  Waiting /\ Followed
      OBVIOUS
    <2>1. /\ Len(wire) = 0 /\ Len(typed) = 0 /\ Len(taken) = 0 /\ ~hit /\ pc = "loop"
          /\ fresh = 0
      BY DEF Init
    <2> QED
      BY <2>1 DEF Waiting, LatestKept, Followed, Numbered, AllMeant, InStep, Got, One
  <1>2. Waiting => LatestKept
    BY DEF Waiting
  <1> QED
    BY <1>1, <1>2, WaitingNext, FollowedNext, StartTracked, TrackedNext, InitTyped, TypeNext,
       FilledNext, PTL DEF Spec
=============================================================================
