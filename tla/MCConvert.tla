------------------------------- MODULE MCConvert -------------------------------
(***************************************************************************)
(* Convert with 16-bit words, their INTLEN_ constants, and the numbers     *)
(* around 0, around every power of ten and of two and at the boundaries.   *)
(***************************************************************************)
EXTENDS Convert

Around(n) == {n - 1, n, n + 1, -n - 1, -n, -n + 1}

ArgumentsDef ==
  -40 .. 40 \cup UNION {Around(10 ^ k) : k \in 1 .. 4} \cup UNION {Around(2 ^ k) : k \in 5 .. 15}
    \cup {12345, 4660, 43981, 65530, 65535, 65534, 60001, -12345}
=============================================================================
