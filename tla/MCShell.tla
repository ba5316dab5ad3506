------------------------------ MODULE MCShell ------------------------------
(* Lines for the shell: words of several lengths, two words, blanks, and    *)
(* the commands that differ in what they do with the heap.                  *)
EXTENDS Shell

LinesDef == {<<"a">>, <<"a", " ", "b">>, <<"a", "b", "c", "d", "e", "f">>,
             <<" ", "a">>, EchoWord, EchoWord \o <<" ", "a">>, TimeWord,
             DevicesWord, ExitWord, <<"m">>}

\* Lines for which a free block below the line's takes the first token and
\* the line's block the vector.
LongLinesDef == {DevicesWord, [i \in 1 .. 15 |-> "a"], <<"a", " ", "b">>}

\* The characters of these lines.
CharsDef == UNION {Range(l) : l \in LinesDef \cup LongLinesDef \cup {MicrofetchWord}}

\* The order of cmds in builtin-shell.h.
CmdsDef == <<TimeWord, EchoWord, ExitWord, MicrofetchWord, DevicesWord>>

\* {hour}:{min}:{sec} | {day}:{mon}:{year}
TimePartsDef == <<2, 0, 2, 0, 2, 0, 0, 0, 1, 0, 1, 0, 4, 0>>
=============================================================================
