-------------------------------- MODULE MCBoot --------------------------------
(***************************************************************************)
(* Command lines of up to three switches with their values and every       *)
(* sequence of a few hyphens, blanks and words; as the plain memory map    *)
(* one in which both heaps are noticed.                                    *)
(***************************************************************************)
EXTENDS Boot

VocalitiesDef == {<<"stfu">>, <<"quiet", "-", "please">>, <<"normal">>}

Switches == {<<"-", name, " ">> \o value :
               name \in {"vocality", "kaslr", "x"},
               value \in VocalitiesDef \cup {<<"enable">>, <<"disable">>}}

SeqUpTo(S, n) == UNION {[1 .. k -> S] : k \in 0 .. n}

CommandLinesDef ==
  Switches
    \cup {s \o <<" ">> \o t : s, t \in Switches}
    \cup {s \o <<" ", " ">> \o t \o <<" ">> \o u :
            s, t, u \in {<<"-", "vocality", " ", "stfu">>, <<"-", "kaslr", " ", "disable">>,
                         <<"-", "kaslr", " ", "enable">>, <<"-", "x", " ", "quiet", "-", "please">>}}
    \cup SeqUpTo({"-", " ", "vocality", "stfu", "x"}, 4)

PlainMapDef ==
  <<[base |-> 0, length |-> 2, type |-> "acpi_reclaimable"],
    [base |-> 2, length |-> 6, type |-> "usable"],
    [base |-> 8, length |-> 2, type |-> "bootloader_reclaimable"],
    [base |-> 10, length |-> 6, type |-> "usable"]>>

\* k_management.c:279, "disabling kernel address space randomization": the last
\* of the words enable and disable holds.
LastWordHolds == Cmd!LastWordHolds
=============================================================================
