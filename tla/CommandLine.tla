------------------------------ MODULE CommandLine ------------------------------
(***************************************************************************)
(* parse_cmd() of lib/src/k_management.c: the switches the boot loader     *)
(* passes to the kernel.  The command line is a sequence of hyphens,       *)
(* blanks and words of letters; a token is a sequence of words and         *)
(* hyphens, as in "quiet-please", shorter than CMD_MAX_TOKEN_LEN.          *)
(***************************************************************************)
EXTENDS Integers, Sequences

CONSTANTS CommandLines,    \* what the boot loader may pass
          Vocalities       \* the tokens of the levels of enum vocal

CommandLineAssumption ==
  /\ <<"normal">> \in Vocalities
  /\ \A line \in CommandLines : line \in Seq(STRING)

VARIABLES cmd, i, pc,
          token,      \* the switch last read
          vocality, kaslr

vars == <<cmd, i, pc, token, vocality, kaslr>>

-----------------------------------------------------------------------------

Init == /\ cmd \in CommandLines
        /\ i = 1 /\ token = <<>>
        /\ pc = IF cmd = <<>> THEN "done" ELSE "switch"
        /\ vocality = <<"normal">> /\ kaslr = FALSE

\* Position of the '\0', the end for both loops of each function; `len' counts it.
End == Len(cmd) + 1

InToken(k) == k < End /\ cmd[k] # " "
Letter(k) == InToken(k) /\ cmd[k] # "-"

\* The first of the positions found, or the one behind the end.
First(found) == IF found = {} THEN End + 1 ELSE CHOOSE n \in found : \A m \in found : n <= m

\* The token at k, and the position behind it.
TokenEnd(k) == CHOOSE n \in k .. k + End : ~InToken(n) /\ \A m \in k .. n - 1 : InToken(m)
TokenAt(k) == SubSeq(cmd, k, TokenEnd(k) - 1)

\* Mutant of Switch: behind an unknown switch the search is not carried on.
SwitchStays ==
  /\ pc = "switch"
  /\ IF i > End THEN pc' = "done" /\ UNCHANGED <<i, token>>
     ELSE LET k == First({n \in i .. Len(cmd) : cmd[n] = "-"}) + 1
          IN /\ token' = TokenAt(k)
             /\ IF token' \in {<<"vocality">>, <<"kaslr">>}
                THEN i' = TokenEnd(k) /\ pc' = "value"
                ELSE UNCHANGED <<i, pc>>
  /\ UNCHANGED <<cmd, vocality, kaslr>>

\* __parse_cmd_next_switch(): the token behind the next hyphen, wherever that
\* is.  One that is no switch is passed over, with the character behind it.
Switch ==
  /\ pc = "switch"
  /\ IF i > End THEN pc' = "done" /\ UNCHANGED <<i, token>>
     ELSE LET k == First({n \in i .. Len(cmd) : cmd[n] = "-"}) + 1
          IN /\ token' = TokenAt(k)
             /\ IF token' \in {<<"vocality">>, <<"kaslr">>}
                THEN i' = TokenEnd(k) /\ pc' = "value"
                ELSE i' = TokenEnd(k) + 1 /\ UNCHANGED pc
  /\ UNCHANGED <<cmd, vocality, kaslr>>

\* Mutant of Value: a word that is no level sets the default.
ValueDefault ==
  /\ pc = "value"
  /\ LET k == First({n \in i .. Len(cmd) : Letter(n)})
     IN /\ i' = TokenEnd(k) + 1
        /\ IF token = <<"vocality">>
           THEN /\ vocality' = IF TokenAt(k) \in Vocalities THEN TokenAt(k) ELSE <<"normal">>
                /\ UNCHANGED kaslr
           ELSE /\ kaslr' = (kaslr \/ TokenAt(k) = <<"enable">>)
                /\ UNCHANGED vocality
  /\ pc' = "switch"
  /\ UNCHANGED <<cmd, token>>

\* __parse_cmd_next_token() and the branches of the switch; "disable" and an
\* unknown word set nothing.
Value ==
  /\ pc = "value"
  /\ LET k == First({n \in i .. Len(cmd) : Letter(n)})
     IN /\ i' = TokenEnd(k) + 1
        /\ IF token = <<"vocality">>
           THEN /\ vocality' = IF TokenAt(k) \in Vocalities THEN TokenAt(k) ELSE vocality
                /\ UNCHANGED kaslr
           ELSE /\ kaslr' = (kaslr \/ TokenAt(k) = <<"enable">>)
                /\ UNCHANGED vocality
  /\ pc' = "switch"
  /\ UNCHANGED <<cmd, token>>

Next == Switch \/ Value

Spec == Init /\ [][Next]_vars /\ WF_vars(Next)

-----------------------------------------------------------------------------

\* The positions at which a word of its own begins.
Starts == {k \in 1 .. Len(cmd) : InToken(k) /\ (k = 1 \/ ~InToken(k - 1))}

\* A line like those of limine.conf: every word with a hyphen in front is a
\* switch and has a word without one behind it, which names no switch itself.
WellFormed ==
  /\ \A k \in 1 .. Len(cmd) - 1 :
       (cmd[k] = "-" /\ cmd[k + 1] \in {"vocality", "kaslr"}) => k \in Starts
  /\ \A k \in Starts : TokenEnd(k) > k + (IF cmd[k] = "-" THEN 1 ELSE 0)
  /\ \A k \in Starts : cmd[k] = "-" =>
       \E n \in Starts : n > k /\ cmd[n] # "-" /\ \A m \in Starts : m <= k \/ m >= n

\* The values given to a switch, by their positions.
Given(name) ==
  {n \in Starts : \E k \in Starts : /\ k < n /\ TokenAt(k) = <<"-", name>>
                                    /\ \A m \in Starts : m <= k \/ m >= n}

\* Of a line like those of limine.conf, the last known level that is given
\* holds, whatever stands around it, and "normal" if there is none.
LastLevelHolds ==
  LET levels == {n \in Given("vocality") : TokenAt(n) \in Vocalities}
  IN (pc = "done" /\ WellFormed) =>
       IF levels = {} THEN vocality = <<"normal">>
       ELSE \E n \in levels : (\A m \in levels : m <= n) /\ vocality = TokenAt(n)

\* Randomization is on only if some switch of such a line enables it, and is if
\* none disables it further behind.  (What is said of a line that enables it
\* first and disables it then is LastWordHolds, which the code does not keep.)
EnabledHolds ==
  LET enables == {n \in Given("kaslr") : TokenAt(n) = <<"enable">>}
      disables == {n \in Given("kaslr") : TokenAt(n) = <<"disable">>}
  IN (pc = "done" /\ WellFormed) =>
       /\ kaslr => enables # {}
       /\ (enables # {} /\ \A n \in disables : \E m \in enables : n < m) => kaslr

\* Parsing ends, of every line.
Parsed == <>(pc = "done")

\* limine.conf:23, "-kaslr disable", and the report of k_management.c:279,
\* "disabling kernel address space randomization": the last word decides.
LastWordHolds ==
  LET words == {n \in Given("kaslr") : TokenAt(n) \in {<<"enable">>, <<"disable">>}}
  IN (pc = "done" /\ WellFormed) =>
       \A n \in words : (\A m \in words : m <= n) => kaslr = (TokenAt(n) = <<"enable">>)
=============================================================================
