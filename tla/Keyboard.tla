------------------------------ MODULE Keyboard ------------------------------
(***************************************************************************)
(* The keyboard driver: the interrupt handler of int-handler.c writes the  *)
(* one-key mailbox keyboard.last / keyboard.hit of hw/keyboard.h, and the  *)
(* kernel's main loop (the getline loop of builtin-shell.h; the one of     *)
(* keyboard_getline() is the same) polls it each time `hlt' returns.       *)
(*                                                                         *)
(* Interrupts are enabled throughout the loop, so that the handler runs    *)
(* between any two accesses of the loop to the mailbox.  The loop never    *)
(* runs inside the handler, which is therefore one step.  The mailbox      *)
(* fields are volatile: the compiler keeps the order of the accesses.      *)
(***************************************************************************)
EXTENDS Integers, Sequences, SequencesExt

CONSTANTS Keys,         \* the physical keys
          Extended,     \* those that send the prefix 0xE0 first
          Entries,      \* the elements of keycodes[] that scancodes[] names
          Entry,        \* Entry[k]: the one k's scancode leads to, or Null
          ShiftEntries, \* keycode_lshift, keycode_rshift
          PrefixEntry,  \* keycode_super: 0xE0 without its top bit is 0x60
          Null,         \* a null pointer in scancodes[]
          Code,         \* Code[e]: keycodes[e].code
          Shifted,      \* Shifted[e]: keycodes[e].shift
          MaxPresses,   \* bound: keys pressed in a behaviour
          WireLength    \* bound: bytes the keyboard controller holds

Chars == {Code[e] : e \in Entries} \cup {Shifted[e] : e \in Entries}

ASSUME KeyboardAssumption ==
  /\ Extended \subseteq Keys
  /\ ShiftEntries \subseteq Entries
  /\ PrefixEntry \in Entries
  /\ Null \notin Entries
  /\ Entry \in [Keys -> Entries \cup {Null}]
  /\ DOMAIN Code = Entries
  /\ DOMAIN Shifted = Entries
  /\ Null \notin Chars
  /\ MaxPresses \in Nat
  /\ WireLength \in Nat

\* Each shift key has a scancode and an entry of its own.
ASSUME ShiftAssumption ==
  \A e \in ShiftEntries :
    e # PrefixEntry /\ \E k \in Keys : \A q \in Keys : Entry[q] = e <=> q = k

VARIABLES down,   \* the keys held down
          wire,   \* the scancodes not read from the data port yet
          state,  \* the entries of keycodes[] whose `state' is set
          last,   \* keyboard.last
          hit,    \* keyboard.hit
          pc,     \* where the main loop is: in front of hlt, asleep in it, ...
          taken,  \* the characters the loop got from keyboard_char()
          typed,  \* history: the characters of the keys pressed
          fresh,  \* history: which character the last press handled typed, or 0
                  \* once the loop has read the mailbox after it
          covered, \* history: a release or a prefix was handled after that press
          raced   \* history: a scancode was handled while a key was pending

hardware == <<down, wire, typed>>
mailbox == <<state, last, hit>>
latest == <<fresh, covered>>
vars == <<down, wire, state, last, hit, pc, taken, typed, fresh, covered, raced>>

-----------------------------------------------------------------------------
(* The keyboard.  A scancode names an entry and says whether bit 7 is       *)
(* clear; `nth' is a history field: which of the characters typed it stands *)
(* for, or 0.                                                               *)

ShiftDown(keys) == \E k \in keys : Entry[k] \in ShiftEntries

Symbol(e, shift) == IF shift THEN Shifted[e] ELSE Code[e]

Scancodes == [entry : Entries \cup {Null}, make : BOOLEAN, nth : Nat]

Prefix(k) ==
  IF k \in Extended
  THEN <<[entry |-> PrefixEntry, make |-> FALSE, nth |-> 0]>>
  ELSE <<>>

Scancode(k, make, nth) ==
  Prefix(k) \o <<[entry |-> Entry[k], make |-> make, nth |-> nth]>>

Send(bytes) ==
  /\ Len(wire) + Len(bytes) <= WireLength
  /\ wire' = wire \o bytes

\* A key goes down, or repeats while it is held.  What the user typed is the
\* character on the key, as the shift keys are held.
KeyDown(k) ==
  /\ Len(typed) < MaxPresses
  /\ down' = down \cup {k}
  /\ IF Entry[k] = Null
     THEN Send(Scancode(k, TRUE, 0)) /\ UNCHANGED typed
     ELSE /\ Send(Scancode(k, TRUE, Len(typed) + 1))
          /\ typed' = Append(typed, Symbol(Entry[k], ShiftDown(down')))
  /\ UNCHANGED <<mailbox, pc, taken, latest, raced>>

KeyUp(k) ==
  /\ k \in down
  /\ down' = down \ {k}
  /\ Send(Scancode(k, FALSE, 0))
  /\ UNCHANGED <<mailbox, pc, taken, typed, latest, raced>>

-----------------------------------------------------------------------------
(* The interrupt handlers.  An interrupt ends `hlt' if the loop is in it; the *)
(* timer's changes nothing the loop looks at elsewhere.                     *)

Awake == IF pc = "hlt" THEN "test" ELSE pc

\* Mutant of TimerInterrupt: the timer is masked and does not wake the loop.
TimerMasked == pc = "hlt" /\ UNCHANGED vars

\* isr_int_timer_pit
TimerInterrupt ==
  /\ pc = "hlt"
  /\ pc' = Awake
  /\ UNCHANGED <<hardware, mailbox, taken, latest, raced>>

\* Mutants of Accept: hit is set for releases too, the shift keys are not
\* looked at, a release leaves the state set.
AcceptReleases(s) ==
  /\ state' = IF s.make THEN state \cup {s.entry} ELSE state \ {s.entry}
  /\ last' = Symbol(s.entry, state' \cap ShiftEntries # {})
  /\ hit' = TRUE

AcceptNoShift(s) ==
  /\ state' = IF s.make THEN state \cup {s.entry} ELSE state \ {s.entry}
  /\ last' = Symbol(s.entry, FALSE)
  /\ hit' = (s.make \/ hit)

AcceptSticky(s) ==
  /\ state' = IF s.make THEN state \cup {s.entry} ELSE state
  /\ last' = Symbol(s.entry, state' \cap ShiftEntries # {})
  /\ hit' = (s.make \/ hit)

\* interrupt_keyboard_input() on a scancode of a known key
Accept(s) ==
  /\ state' = IF s.make THEN state \cup {s.entry} ELSE state \ {s.entry}
  /\ last' = Symbol(s.entry, state' \cap ShiftEntries # {})
  /\ hit' = (s.make \/ hit)

\* History of a scancode of a known key.
Remember(s) ==
  /\ fresh' = IF s.make THEN s.nth ELSE fresh
  /\ covered' = ~s.make

KeyboardInterrupt ==
  /\ wire # <<>>
  /\ wire' = Tail(wire)
  /\ IF Head(wire).entry = Null THEN UNCHANGED mailbox ELSE Accept(Head(wire))
  /\ pc' = Awake
  /\ IF Head(wire).entry = Null THEN UNCHANGED latest ELSE Remember(Head(wire))
  /\ raced' = (raced \/ (Head(wire).entry # Null /\ (hit \/ pc = "read")))
  /\ UNCHANGED <<down, taken, typed>>

-----------------------------------------------------------------------------
(* The main loop.                                                           *)

Goto(label) == pc' = label /\ UNCHANGED <<hardware, mailbox, taken, latest, raced>>

\* hlt: an interrupt handled before it does not end it.
Halt == pc = "loop" /\ Goto("hlt")

\* keyboard_hit()
Test == pc = "test" /\ Goto(IF hit THEN "clear" ELSE "loop")

\* keyboard_char(): its test of keyboard.hit always succeeds here
Clear ==
  /\ pc = "clear"
  /\ hit' = FALSE
  /\ pc' = "read"
  /\ UNCHANGED <<hardware, state, last, taken, latest, raced>>

\* keyboard_char(): return keyboard.last
Read ==
  /\ pc = "read"
  /\ taken' = Append(taken, last)
  /\ fresh' = 0 /\ covered' = FALSE
  /\ pc' = "loop"
  /\ UNCHANGED <<hardware, mailbox, raced>>

\* Mutant of Loop: keyboard_char() reads the key before it clears the flag.
ReadFirst ==
  /\ pc = "clear"
  /\ taken' = Append(taken, last)
  /\ fresh' = 0 /\ covered' = FALSE
  /\ pc' = "read"
  /\ UNCHANGED <<hardware, mailbox, raced>>
ClearLast ==
  /\ pc = "read"
  /\ hit' = FALSE
  /\ pc' = "loop"
  /\ UNCHANGED <<hardware, state, last, taken, latest, raced>>
LoopSwapped == Halt \/ Test \/ ReadFirst \/ ClearLast

Loop == Halt \/ Test \/ Clear \/ Read

-----------------------------------------------------------------------------
Init ==
  /\ down = {} /\ wire = <<>> /\ typed = <<>>
  /\ state = {} /\ last = Null /\ hit = FALSE
  /\ pc = "loop" /\ taken = <<>>
  /\ fresh = 0 /\ covered = FALSE /\ raced = FALSE

Next ==
  \/ \E k \in Keys : KeyDown(k) \/ KeyUp(k)
  \/ TimerInterrupt
  \/ KeyboardInterrupt
  \/ Loop

\* The timer ticks every millisecond and the processor runs the loop between
\* interrupts.  Nothing is assumed of the user or of the keyboard.
Fairness == WF_vars(TimerInterrupt) /\ WF_vars(Loop)

Spec == Init /\ [][Next]_vars /\ Fairness

-----------------------------------------------------------------------------
(* Properties.                                                              *)

TypeOK ==
  /\ down \subseteq Keys
  /\ wire \in Seq(Scancodes)
  /\ state \subseteq Entries
  /\ last \in Chars \cup {Null}
  /\ hit \in BOOLEAN
  /\ pc \in {"loop", "hlt", "test", "clear", "read"}
  /\ taken \in Seq(Chars)
  /\ typed \in Seq(Chars)
  /\ fresh \in Nat
  /\ covered \in BOOLEAN
  /\ raced \in BOOLEAN

\* The press handled last waits until the loop reads the mailbox: the flag is
\* set or the loop is about to read, and what it will read is the character
\* the user typed, in the case the shift keys gave it when it was typed.  Only
\* a release or a prefix that is handled behind it, which the handler copies
\* to `last', too, takes the character's place; the flag stays even then.
LatestKept ==
  fresh # 0 => /\ hit \/ pc = "read"
               /\ ~covered => last = typed[fresh]

\* The loop never gets more characters than were typed: an early clear of
\* the flag can deliver a key twice, but only in the place of another one.
NeverMoreThanTyped ==
  Len(taken) + (IF hit THEN 1 ELSE 0) + (IF pc = "read" THEN 1 ELSE 0)
    <= Len(typed)

Pending == IF hit \/ pc = "read" THEN <<last>> ELSE <<>>

\* As long as every scancode is handled with the mailbox empty, what the loop
\* has got and is about to get is what was typed first, in order and with the
\* right case, and the scancodes of the rest are still on the wire.
Faithful == ~raced =>
  LET got == taken \o Pending
  IN /\ IsPrefix(got, typed)
     /\ {wire[i].nth : i \in DOMAIN wire} \ {0} = Len(got) + 1 .. Len(typed)

\* No key event finds the main loop asleep for good: one that is handled
\* between the test of the flag and `hlt' does not end it, and the timer
\* interrupt makes the loop take the key.
HitIsTaken == hit ~> (pc = "read")

\* A table entry only one key leads to, other than the one the prefix byte is
\* taken for, knows whether its key is down once the port is empty.
Own(e) == {k \in Keys : Entry[k] = e}
StateFollows ==
  wire = <<>> => \A e \in Entries \ {PrefixEntry} : \A k \in Keys :
                   Own(e) = {k} => (e \in state <=> k \in down)

\* keyboard.h, keycode.state: "pressed?"
StateIsPressed ==
  wire = <<>> => \A e \in Entries : e \in state <=> Own(e) \cap down # {}
=============================================================================
