-------------------------------- MODULE Convert --------------------------------
(***************************************************************************)
(* The conversions of lib/src/convert.c and strrev() of lib/src/utils.c,   *)
(* loop turn by loop turn, over words of Bits bits.  A character that is a *)
(* digit is its value, the others are negative; memory is the buffer of    *)
(* the caller with the bytes behind it and as many in front of it.  Text   *)
(* that to_string() and to_stringi() wrote is then read by to_int() and    *)
(* to_inti().                                                              *)
(***************************************************************************)
EXTENDS Integers, Sequences

CONSTANTS Bits,         \* bits of a word (64; INTLEN_ has the same relation to 8)
          IntLenU,      \* INTLEN_U64
          IntLenI,      \* INTLEN_I64
          Arguments     \* bound: the numbers converted

Word == 2 ^ Bits
HexLen == Bits \div 4 + 1        \* HEXLEN
HexLenPtr == Bits \div 4 + 3     \* HEXLEN_PTR

End == -1
Minus == -2
LetterX == -3
RawByte == -4
FrontByte == -5

ASSUME ConvertAssumption ==
  /\ Bits \in Nat /\ Bits % 8 = 0 /\ Bits > 0
  /\ IntLenU \in Nat \ {0} /\ IntLenI \in Nat \ {0, 1}
  /\ Arguments \subseteq Int

VARIABLES pc,
          call,      \* the function and its argument
          str,       \* memory around the beginning of the buffer
          val,       \* val, h, ptr
          i,         \* i; `end' of strrev()
          start,     \* start of strrev()
          result     \* result of to_int(), to_inti()

vars == <<pc, call, str, val, i, start, result>>

-----------------------------------------------------------------------------

Unsigned == {"to_string", "to_hex", "to_hexs"}
Values(fun) == IF fun \in Unsigned THEN 0 .. Word - 1 ELSE -(Word \div 2) .. Word \div 2 - 1

\* Bound: the bytes behind the beginning of the buffer, and those in front of it.
Reach == HexLenPtr + IntLenI
Memory == -Reach .. Reach - 1

Length(fun) == CASE fun = "to_string" -> IntLenU
                 [] fun = "to_stringi" -> IntLenI
                 [] fun = "to_hex" -> HexLenPtr
                 [] fun = "to_hexs" -> HexLen

Signed(n) == LET m == n % Word IN IF m < Word \div 2 THEN m ELSE m - Word

Init == /\ pc = "idle" /\ call = [fun |-> "none", arg |-> 0]
        /\ str = [k \in Memory |-> IF k < 0 THEN FrontByte ELSE RawByte]
        /\ val = 0 /\ i = 0 /\ start = 0 /\ result = 0

\* val = -val of a negative number; the smallest one stays as it is.
Negated(n) == IF n < 0 THEN Signed(-n) ELSE n

\* A conversion is called.
Call ==
  /\ pc = "idle"
  /\ \E fun \in Unsigned \cup {"to_stringi"} : \E n \in Values(fun) \cap Arguments :
       /\ call' = [fun |-> fun, arg |-> n]
       /\ val' = IF fun = "to_stringi" THEN Negated(n) ELSE n
       /\ IF fun \in {"to_string", "to_hexs"} /\ n = 0
          THEN /\ str' = [str EXCEPT ![0] = 0, ![1] = End]
               /\ pc' = "written" /\ UNCHANGED i
          ELSE /\ str' = IF fun # "to_hex" THEN str
                         ELSE [str EXCEPT ![0] = 0, ![1] = LetterX, ![HexLenPtr - 1] = End]
               /\ i' = IF fun \in {"to_hex", "to_hexs"} THEN Length(fun) - 2 ELSE i
               /\ pc' = fun
  /\ UNCHANGED <<start, result>>

\* Mutant of Digit: one digit more is let into the buffer.
DigitMore ==
  /\ pc \in {"to_string", "to_stringi"}
  /\ val > 0 /\ i < Length(pc)
  /\ str' = [str EXCEPT ![i] = val % 10]
  /\ val' = val \div 10 /\ i' = i + 1
  /\ UNCHANGED <<pc, call, start, result>>

\* The loop of to_string() and to_stringi(): the last digit comes first.
Digit ==
  /\ pc \in {"to_string", "to_stringi"}
  /\ val > 0 /\ i + 1 < Length(pc)
  /\ str' = [str EXCEPT ![i] = val % 10]
  /\ val' = val \div 10 /\ i' = i + 1
  /\ UNCHANGED <<pc, call, start, result>>

\* Behind the loop: the sign, the end, and the call of strrev(), whose `end' of
\* an empty string is the largest size_t.
Terminate ==
  /\ pc \in {"to_string", "to_stringi"}
  /\ ~(val > 0 /\ i + 1 < Length(pc))
  /\ LET len == IF call.arg < 0 THEN i + 1 ELSE i
     IN /\ str' = [k \in Memory |-> CASE k = len -> End
                                      [] k = i /\ len > i -> Minus
                                      [] OTHER -> str[k]]
        /\ i' = (len - 1) % Word
        /\ pc' = "strrev"
  /\ UNCHANGED <<call, val, start, result>>

\* The loop of strrev(); i is its `end', and an `end' beyond the middle of the
\* address space is a byte in front of the buffer.
Reverse ==
  /\ pc = "strrev"
  /\ IF start < i
     THEN /\ start < Reach
          /\ str' = [str EXCEPT ![start] = str[Signed(i)], ![Signed(i)] = str[start]]
          /\ start' = start + 1 /\ i' = (i - 1) % Word /\ UNCHANGED pc
     ELSE pc' = "written" /\ UNCHANGED <<str, start, i>>
  /\ UNCHANGED <<call, val, result>>

\* The loop of to_hex(): byte by byte from the end of the string.
Nibbles ==
  /\ pc = "to_hex"
  /\ IF i > 1
     THEN /\ str' = [str EXCEPT ![i] = val % 16, ![i - 1] = (val \div 16) % 16]
          /\ val' = val \div 256 /\ i' = i - 2 /\ UNCHANGED pc
     ELSE pc' = "written" /\ UNCHANGED <<str, val, i>>
  /\ UNCHANGED <<call, start, result>>

\* The first loop of to_hexs().
NibblesShort ==
  /\ pc = "to_hexs"
  /\ IF i >= 0
     THEN str' = [str EXCEPT ![i] = (val \div 16 ^ i) % 16] /\ i' = i - 1 /\ UNCHANGED pc
     ELSE pc' = "trim" /\ i' = HexLen - 2 /\ UNCHANGED str
  /\ UNCHANGED <<call, val, start, result>>

\* Its second loop: the end goes behind the last digit that is not 0.
Trim ==
  /\ pc = "trim"
  /\ IF str[i] # 0 THEN str' = [str EXCEPT ![i + 1] = End] /\ pc' = "written" /\ UNCHANGED i
                   ELSE i' = i - 1 /\ UNCHANGED <<str, pc>>
  /\ UNCHANGED <<call, val, start, result>>

IsDigit(c) == c \in 0 .. 9

\* to_int() or to_inti() is called with the text; the first loop looks for the
\* end of the digits, val is `mul' from here on.
Scan ==
  /\ pc = "written" /\ call.fun \in {"to_string", "to_stringi"}
  /\ LET first == IF call.fun = "to_stringi" /\ str[0] = Minus THEN 1 ELSE 0
     IN i' = (CHOOSE k \in Memory :
                /\ k >= first /\ ~IsDigit(str[k])
                /\ \A j \in first .. k - 1 : IsDigit(str[j])) - 1
  /\ pc' = "sum" /\ val' = 1
  /\ UNCHANGED <<call, str, start, result>>

\* Mutant of Sum: each digit has the same weight.
SumFlat ==
  /\ pc = "sum" /\ i >= 0 /\ IsDigit(str[i])
  /\ result' = (result + str[i]) % Word
  /\ i' = i - 1
  /\ UNCHANGED <<pc, call, str, val, start>>

\* The second loop.
Sum ==
  /\ pc = "sum" /\ i >= 0 /\ IsDigit(str[i])
  /\ result' = (result + str[i] * val) % Word
  /\ val' = (val * 10) % Word
  /\ i' = i - 1
  /\ UNCHANGED <<pc, call, str, start>>

\* The end of to_int(), and of to_inti(): without a sign it looks at the byte
\* in front of the text, which may hold anything.
Return ==
  /\ pc = "sum" /\ ~(i >= 0 /\ IsDigit(str[i]))
  /\ \E negative \in IF call.fun = "to_string" THEN {FALSE}
                     ELSE IF i < 0 THEN BOOLEAN ELSE {str[i] = Minus} :
       result' = IF call.fun = "to_string" THEN result
                 ELSE IF negative THEN Signed(-Signed(result)) ELSE Signed(result)
  /\ pc' = "read"
  /\ UNCHANGED <<call, str, val, i, start>>

Next == \/ Call \/ Digit \/ Terminate \/ Reverse \/ Nibbles \/ NibblesShort \/ Trim
        \/ Scan \/ Sum \/ Return

Spec == Init /\ [][Next]_vars /\ WF_vars(Next)

-----------------------------------------------------------------------------

Power(n) == 10 ^ n

\* The decimal value of the digits from position a on, up to the end.
Decimal(a) ==
  LET value[k \in Memory] ==
        IF k < a THEN 0 ELSE IF ~IsDigit(str[k]) THEN 0
        ELSE (IF k = a THEN 0 ELSE value[k - 1] * 10) + str[k]
      last == CHOOSE k \in Memory : k >= a - 1 /\ ~IsDigit(str[k + 1])
                                    /\ \A j \in a .. k : IsDigit(str[j])
  IN IF last < a THEN 0 ELSE value[last]

Absolute(n) == IF n < 0 THEN -n ELSE n

\* to_string() writes the number when it has fewer digits than the buffer, else
\* its last ones: a number with as many or more digits loses the first.
LastDigits ==
  (pc = "written" /\ call.fun = "to_string")
    => Decimal(0) = call.arg % Power(IntLenU - 1)

\* to_stringi() writes sign and number, but for the smallest number, of which
\* only the sign comes out, and for 0, which it is still reversing when strrev()
\* leaves the bytes modelled.
SignAndDigits ==
  call.fun = "to_stringi" /\ pc = "written" =>
    /\ call.arg # 0
    /\ IF call.arg < 0
       THEN str[0] = Minus /\ Decimal(1) = (IF call.arg = -(Word \div 2) THEN 0
                                          ELSE Absolute(call.arg) % Power(IntLenI - 1))
       ELSE Decimal(0) = call.arg % Power(IntLenI - 1)

RunsAway == call.fun = "to_stringi" /\ call.arg = 0

\* What is written outside the buffer: of a negative number with as many digits
\* as fit the end of the string, and of to_stringi(0) everything, each byte
\* that strrev() has come to having changed places with one in front.
InBuffer ==
  call.fun # "none" =>
    IF RunsAway
    THEN \A k \in 0 .. start - 1 :
           str[k] = FrontByte /\ str[-1 - k] = IF k = 0 THEN End ELSE RawByte
    ELSE \A k \in Memory :
           /\ k < 0 => str[k] = FrontByte
           /\ k >= Length(call.fun) /\ str[k] # RawByte =>
                /\ k = Length(call.fun) /\ str[k] = End
                /\ call.fun = "to_stringi" /\ call.arg <= -Power(IntLenI - 2)

\* to_hex() writes every digit of a pointer, the first one first; to_hexs()
\* writes those of a number, the last one first and without the leading zeros.
HexDigits ==
  pc = "written" =>
    /\ call.fun = "to_hex" =>
         LET sum[k \in 1 .. HexLenPtr - 2] == IF k = 1 THEN 0 ELSE sum[k - 1] * 16 + str[k]
         IN str[HexLenPtr - 1] = End /\ call.arg = sum[HexLenPtr - 2]
    /\ call.fun = "to_hexs" =>
         \E last \in 0 .. HexLen - 2 :
           LET sum[k \in 0 .. last] == str[k] * 16 ^ k + (IF k = 0 THEN 0 ELSE sum[k - 1])
           IN /\ str[last + 1] = End /\ call.arg = sum[last]
              /\ last > 0 => str[last] # 0

\* What the conversions leave in their buffers, and what they write outside.
Converted == LastDigits /\ SignAndDigits /\ InBuffer /\ HexDigits

\* What to_string() wrote of a number that fits, to_int() reads back; to_inti()
\* reads a negative number back, of another one it may take the sign from the
\* byte in front of the text.
ReadBack ==
  pc = "read" =>
    IF call.fun = "to_string"
    THEN call.arg < Power(IntLenU - 1) => result = call.arg
    ELSE call.arg > -(Word \div 2) =>
           /\ Absolute(result) = Absolute(call.arg)
           /\ call.arg < 0 => result < 0

=============================================================================
