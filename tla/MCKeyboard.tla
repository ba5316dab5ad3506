----------------------------- MODULE MCKeyboard -----------------------------
(* Five keys of the table in hw/kb-keys.c: a letter, a shift, the two       *)
(* control keys (one scancode, the right one behind the prefix), and a key  *)
(* the table has no entry for.                                              *)
EXTENDS Keyboard

CONSTANTS a, lshift, lctrl, rctrl, iso

KeysDef == {a, lshift, lctrl, rctrl, iso}
ExtendedDef == {rctrl}
EntriesDef == {"a", "lshift", "lctrl", "super"}
EntryDef == [k \in KeysDef |-> CASE k = a -> "a"
                                 [] k = lshift -> "lshift"
                                 [] k \in {lctrl, rctrl} -> "lctrl"
                                 [] OTHER -> "null"]
CodeDef == [e \in EntriesDef |-> e]
ShiftedDef == [CodeDef EXCEPT !["a"] = "A"]
=============================================================================
