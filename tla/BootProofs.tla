------------------------------ MODULE BootProofs ------------------------------
(***************************************************************************)
(* Proofs about Boot: what init() has done, for every command line, memory *)
(* map, bus and behaviour of the keyboard.                                 *)
(***************************************************************************)
EXTENDS Boot, FiniteSetTheorems, WellFoundedInduction, TLAPS

-----------------------------------------------------------------------------
(* Numbers and sums.                                                        *)

\* Every set of natural numbers with an element has a least one.
LEMMA LeastNat ==
  ASSUME NEW T, T \subseteq Nat, T # {}
  PROVE  \E s \in T : \A t \in T : s <= t
  <1> DEFINE R == OpToRel(<, Nat)
  <1>1. IsWellFoundedOn(R, Nat)
    BY ONLY NatLessThanWellFounded, Zenon
  <1>2. \A x, y \in Nat : y < x => <<y, x>> \in R
    BY Zenon DEF OpToRel
  <1> HIDE DEF R
  <1>3. PICK x \in T : \A y \in T : <<y, x>> \notin R
    BY <1>1, WFMin
  <1>4. ASSUME NEW y \in T PROVE x <= y
    <2>1. ~(y < x)
      BY <1>2, <1>3
    <2> QED
      BY <2>1
  <1> QED
    BY <1>4

\* The sum over one entry is its length.
LEMMA OneSum ==
  ASSUME NEW k, ents[k].length \in Nat
  PROVE  Map!MapThenSumSet(LAMBDA l : ents[l].length, {k}) = ents[k].length
  <1> DEFINE iter == [s \in SUBSET {k} |-> IF s = {} THEN 0 ELSE ents[k].length]
  <1> DEFINE Rec(g) == g = [s \in SUBSET {k} |->
                        IF s = {} THEN 0
                        ELSE ents[CHOOSE x \in s : TRUE].length + g[s \ {CHOOSE x \in s : TRUE}]]
  <1>1. \A s \in SUBSET {k} : s # {} => (CHOOSE x \in s : TRUE) = k /\ s \ {k} = {}
    OBVIOUS
  <1>2. Rec(iter)
    BY <1>1
  <1>3. Rec(CHOOSE g : Rec(g))
    <2> HIDE DEF iter, Rec
    <2> QED
      BY <1>2
  <1>4. ASSUME NEW g, Rec(g) PROVE g[{k}] = ents[k].length
    BY <1>1, <1>4
  <1> DEFINE G == CHOOSE g : Rec(g)
  <1>5. G[{k}] = ents[k].length
    <2> HIDE DEF Rec
    <2> QED BY <1>3, <1>4
  <1>6. Map!MapThenSumSet(LAMBDA l : ents[l].length, {k}) = G[{k}]
    BY DEF Map!MapThenSumSet, Map!MapThenFoldSet
  <1> QED
    BY <1>5, <1>6

-----------------------------------------------------------------------------
(* The keyboard.                                                            *)

\* The kernel has sent a byte and waits for its answer.
Awaited == IF pc \in {"command answer", "data answer"} THEN 1 ELSE 0

\* Before its vector is present no interrupt of the keyboard has a handler, and
\* the bytes from the keyboard are those of the keys and the answer awaited.
Answered ==
  /\ buffer \in Seq({"ack", "resend", "key"}) /\ early \in Nat
  /\ full \in BOOLEAN /\ isr \in BOOLEAN /\ present \in BOOLEAN /\ handling \in BOOLEAN
  /\ full => buffer # <<>>
  /\ pc \in {"remap", "ready"} => present
  /\ pc \notin {"remap", "ready"} =>
       ~present /\ ~handling /\ Len(buffer) = early + Awaited
  /\ pc = "ready" /\ isr => handling

\* The bytes can be counted.
LEMMA Counts == Answered => Len(buffer) \in Nat /\ early \in Nat
  <1>1. Answered => buffer \in Seq({"ack", "resend", "key"}) /\ early \in Nat
    BY Zenon DEF Answered
  <1>2. \A s \in Seq({"ack", "resend", "key"}) : Len(s) \in Nat
    OBVIOUS
  <1> QED
    BY <1>1, <1>2

\* Everything that happens to the keyboard happens in a step of its module.
LEMMA KeyboardSteps ==
  [Next]_vars => Kbd!Next \/ UNCHANGED kbdVars
  BY DEF Next, Thread, ParseCmd, MemoryInit, KeyboardInit, PciInit, Handle,
         Proceed, Enter, Hardware, PressKey, Offer, Interrupt, Ended, vars,
         Kbd!Next, Kbd!Kernel

\* What is read is the first of the bytes.
LEMMA ReadTakes ==
  ASSUME Answered, Kbd!ReadPort
  PROVE  /\ buffer' \in Seq({"ack", "resend", "key"}) /\ full' = FALSE
         /\ Len(buffer') = Len(buffer) - 1
  BY DEF Answered, Kbd!ReadPort

\* What the keyboard answers comes behind the bytes there are.
LEMMA AnswerAdds ==
  ASSUME Answered, NEW byte, Kbd!Answer(byte)
  PROVE  /\ buffer' \in Seq({"ack", "resend", "key"}) /\ buffer' # <<>>
         /\ Len(buffer') = Len(buffer) + 1
  BY DEF Answered, Kbd!Answer

LEMMA AnsweredSends ==
  ASSUME Answered, NEW byte, NEW next, Kbd!SendByte(byte, next),
         pc \notin {"remap", "ready", "command answer", "data answer"},
         next \in {"command answer", "data answer"}
  PROVE  Answered'
  <1>1. /\ buffer' \in Seq({"ack", "resend", "key"}) /\ buffer' # <<>>
        /\ Len(buffer') = Len(buffer) + 1
    BY AnswerAdds DEF Kbd!SendByte
  <1>2. /\ pc' = next /\ full' = full /\ isr' = isr /\ present' = present
        /\ handling' = handling /\ early' = early
    BY DEF Kbd!SendByte, Kbd!pic, Kbd!counts
  <1>3. Awaited = 0 /\ Awaited' = 1
    BY <1>2 DEF Awaited
  <1>4. ~present /\ ~handling /\ Len(buffer) = early + Awaited
    BY DEF Answered
  <1>5. pc' \notin {"remap", "ready"}
    BY <1>2
  <1>6. Len(buffer') = early' + Awaited'
    <2>1. early \in Nat /\ Len(buffer) \in Nat
      BY Counts
    <2>2. Len(buffer) = early
      BY ONLY <1>3, <1>4, <2>1
    <2>3. Len(buffer') = early + 1
      BY <1>1, <2>2
    <2> QED
      BY <1>2, <1>3, <2>1, <2>3
  <1> QED
    BY <1>1, <1>2, <1>4, <1>5, <1>6 DEF Answered

LEMMA AnsweredReads ==
  ASSUME Answered, Kbd!ReadPort, pc \in {"command answer", "data answer"},
         pc' \in {"send command", "send data", "set gate"},
         UNCHANGED <<isr, present, handling, early>>
  PROVE  Answered'
  <1>1. /\ buffer' \in Seq({"ack", "resend", "key"}) /\ full' = FALSE
        /\ Len(buffer') = Len(buffer) - 1
    BY ReadTakes
  <1>2. Awaited = 1 /\ Awaited' = 0
    BY DEF Awaited
  <1>3. ~present /\ ~handling /\ Len(buffer) = early + Awaited
    BY Zenon DEF Answered
  <1>4. Len(buffer') = early' + Awaited'
    <2>1. early \in Nat /\ Len(buffer) \in Nat
      BY Counts
    <2>2. early' = early
      OBVIOUS
    <2>3. Len(buffer) = early + 1
      BY <1>2, <1>3
    <2>4. Len(buffer') = early
      BY ONLY <1>1, <2>1, <2>3
    <2> QED
      BY ONLY <1>2, <2>1, <2>2, <2>4
  <1> QED
    BY <1>1, <1>3, <1>4 DEF Answered

LEMMA AnsweredKeeps == Answered /\ Kbd!Next => Answered'
  <1> SUFFICES ASSUME Answered, Kbd!Next
               PROVE  Answered'
    OBVIOUS
  <1> USE DEF Kbd!kbd, Kbd!pic, Kbd!counts
  <1>1. CASE Kbd!SendCommand
    BY <1>1, AnsweredSends DEF Kbd!SendCommand
  <1>2. CASE Kbd!SendData
    BY <1>2, AnsweredSends DEF Kbd!SendData
  <1>3. CASE Kbd!CommandAnswer
    <2>1. pc' \in {"send command", "send data", "set gate"}
      BY <1>3 DEF Kbd!CommandAnswer, Kbd!NextAttempt
    <2> QED
      BY <1>3, <2>1, AnsweredReads DEF Kbd!CommandAnswer
  <1>4. CASE Kbd!DataAnswer
    <2>1. pc' \in {"send command", "send data", "set gate"}
      BY <1>4 DEF Kbd!DataAnswer, Kbd!NextAttempt
    <2> QED
      BY <1>4, <2>1, AnsweredReads DEF Kbd!DataAnswer
  <1>5. CASE Kbd!SetGate
    BY <1>5 DEF Kbd!SetGate, Answered
  <1>6. CASE Kbd!Remap
    BY <1>6 DEF Kbd!Remap, Answered
  <1>7. CASE Kbd!PressKey
    <2>1. /\ buffer' \in Seq({"ack", "resend", "key"}) /\ buffer' # <<>>
          /\ Len(buffer') = Len(buffer) + 1
      BY <1>7 DEF Kbd!PressKey, Answered
    <2>2. /\ pc' = pc /\ full' = full /\ isr' = isr /\ present' = present
          /\ handling' = handling /\ early' \in Nat
          /\ pc # "ready" => early' = early + 1
      BY <1>7 DEF Kbd!PressKey, Answered
    <2>3. Awaited' = Awaited /\ Awaited \in Nat
      BY <2>2 DEF Awaited
    <2>4. pc \notin {"remap", "ready"} => Len(buffer') = early' + Awaited'
      BY <2>1, <2>2, <2>3 DEF Answered
    <2> QED
      BY <2>1, <2>2, <2>4 DEF Answered
  <1>8. CASE Kbd!Offer
    <2>1. /\ UNCHANGED <<pc, buffer, isr, present, handling, early>>
          /\ full' = TRUE /\ buffer # <<>>
      BY <1>8 DEF Kbd!Offer
    <2>2. Awaited' = Awaited
      BY <2>1 DEF Awaited
    <2> QED
      BY <2>1, <2>2 DEF Answered
  <1>9. CASE Kbd!Interrupt
    <2>1. /\ UNCHANGED <<pc, buffer, full, present, early>>
          /\ isr' = TRUE /\ handling' = present
      BY <1>9 DEF Kbd!Interrupt
    <2>2. Awaited' = Awaited
      BY <2>1 DEF Awaited
    <2> QED
      BY <2>1, <2>2 DEF Answered
  <1>10. CASE Kbd!Handle
    <2>1. /\ UNCHANGED <<pc, present, early>> /\ handling
          /\ handling' = FALSE /\ isr' = FALSE /\ Kbd!ReadPort
      BY <1>10 DEF Kbd!Handle
    <2>2. pc \in {"remap", "ready"}
      BY <2>1 DEF Answered
    <2>3. buffer' \in Seq({"ack", "resend", "key"}) /\ full' = FALSE
      BY <2>1, ReadTakes
    <2> QED
      BY <2>1, <2>2, <2>3 DEF Answered
  <1> QED
    BY <1>1, <1>2, <1>3, <1>4, <1>5, <1>6, <1>7, <1>8, <1>9, <1>10
       DEF Kbd!Next, Kbd!Kernel

\* No answer of the keyboard is taken for one to a later byte, and no interrupt
\* stays in service without its handler, whatever is pressed and however the
\* steps of the keyboard, its controllers and the kernel are mixed.
THEOREM KeyboardAnswered == Spec => []KeyboardReady
  <1>1. Init => Answered
    <2> SUFFICES ASSUME Init PROVE Answered
      OBVIOUS
    <2>1. /\ pc = "send command" /\ buffer = <<>> /\ full = FALSE /\ isr = FALSE
          /\ present = FALSE /\ handling = FALSE /\ early = 0
      BY DEF Init, Kbd!Init, Kbd!Present
    <2>2. Awaited = 0
      BY <2>1 DEF Awaited
    <2>3. Len(<<>>) = 0 /\ <<>> \in Seq({"ack", "resend", "key"})
      OBVIOUS
    <2>4. buffer \in Seq({"ack", "resend", "key"})
      BY <2>1, <2>3
    <2>5. Len(buffer) = early + Awaited
      <3>1. Len(buffer) = 0 /\ early = 0
        BY <2>1, <2>3
      <3> QED
        BY ONLY <2>2, <3>1
    <2> QED
      BY <2>1, <2>4, <2>5 DEF Answered
  <1>2. Answered /\ [Next]_vars => Answered'
    <2> SUFFICES ASSUME Answered, [Next]_vars
                 PROVE  Answered'
      OBVIOUS
    <2>1. CASE UNCHANGED kbdVars
      BY <2>1 DEF kbdVars, Answered, Awaited
    <2> QED
      BY <2>1, KeyboardSteps, AnsweredKeeps
  <1>3. Answered => KeyboardReady
    <2> SUFFICES ASSUME Answered PROVE KeyboardReady
      OBVIOUS
    <2>1. Kbd!LineFree
      BY Zenon DEF Answered, Kbd!LineFree
    <2>2. ASSUME pc \in {"send command", "send data", "set gate"}
          PROVE  Len(buffer) = early
      <3>1. Awaited = 0 /\ pc \notin {"remap", "ready"}
        BY <2>2 DEF Awaited
      <3>2. Len(buffer) = early + Awaited
        BY <3>1, Zenon DEF Answered
      <3> QED
        BY <3>1, <3>2, Counts
    <2> QED
      BY <2>1, <2>2 DEF KeyboardReady, Kbd!NoAnswerLeft
  <1> QED
    BY <1>1, <1>2, <1>3, PTL DEF Spec

-----------------------------------------------------------------------------
(* The reservations.                                                        *)

\* Where the entries of a map begin, for the first m of them.
Places(gap, len, m, g) ==
  g = [k \in 1 .. m |-> gap[k] + (IF k = 1 THEN 0 ELSE g[k - 1] + len[k - 1])]

\* Every loader's map has places for its entries.
LEMMA PlacesExist ==
  ASSUME NEW gap, NEW len, NEW n \in Nat
  PROVE  \E g : Places(gap, len, n, g)
  <1> DEFINE T == {m \in Nat : ~\E g : Places(gap, len, m, g)}
  <1> SUFFICES ASSUME T # {} PROVE FALSE
    OBVIOUS
  <1>1. PICK m \in T : \A t \in T : m <= t
    <2> HIDE DEF T
    <2>1. T \subseteq Nat
      BY DEF T
    <2> QED
      BY <2>1, LeastNat
  <1>2. CASE m = 0
    <2> DEFINE e == [k \in {} |-> 0]
    <2>1. Places(gap, len, 0, e)
      BY DEF Places
    <2> QED
      BY <1>1, <1>2, <2>1
  <1>3. CASE m # 0
    <2>1. m - 1 \in Nat /\ ~(m <= m - 1) /\ m \in Nat
      BY <1>1, <1>3
    <2>2. PICK g : Places(gap, len, m - 1, g)
      BY <1>1, <2>1
    <2> DEFINE f == [k \in 1 .. m |-> gap[k] + (IF k = 1 THEN 0 ELSE g[k - 1] + len[k - 1])]
    <2>3. ASSUME NEW k \in 1 .. m, k # 1 PROVE f[k - 1] = g[k - 1]
      <3>1. k - 1 \in 1 .. m - 1 /\ k - 1 \in 1 .. m
        BY <2>1, <2>3
      <3>2. g[k - 1] = gap[k - 1] + (IF k - 1 = 1 THEN 0 ELSE g[k - 1 - 1] + len[k - 1 - 1])
        BY <2>2, <3>1 DEF Places
      <3> QED
        BY <3>1, <3>2
    <2>4. Places(gap, len, m, f)
      BY <2>3 DEF Places
    <2> QED
      BY <1>1, <2>4
  <1> QED
    BY <1>2, <1>3

\* What the boot loader passes: entries one behind the other, each with a length.
Sorted(es) ==
  /\ es = [k \in 1 .. Len(es) |-> es[k]] /\ Len(es) \in Nat
  /\ \A k \in 1 .. Len(es) : es[k].base \in Nat /\ es[k].length \in Nat \ {0}
  /\ \A k, l \in 1 .. Len(es) : k < l => es[k].base + es[k].length <= es[l].base

LEMMA LoaderSorted ==
  ASSUME NEW n \in Nat, NEW gap \in [1 .. n -> Gaps], NEW len \in [1 .. n -> Lengths],
         NEW kind
  PROVE  Sorted(Map!LoaderMap(n, gap, len, kind))
  <1> DEFINE g == CHOOSE f : Places(gap, len, n, f)
             es == Map!LoaderMap(n, gap, len, kind)
  <1>1. Places(gap, len, n, g)
    BY PlacesExist
  <1>2. es = [k \in 1 .. n |-> [base |-> g[k], length |-> len[k], type |-> kind[k]]]
    BY DEF Map!LoaderMap, Places
  <1> HIDE DEF g, es
  <1>3. Len(es) = n
    BY <1>2
  <1>4. Gaps \subseteq Nat /\ Lengths \subseteq Nat \ {0}
    BY BootAssumption DEF Map!MemMapAssumption
  <1>5. \A k \in 1 .. n : gap[k] \in Nat /\ len[k] \in Nat \ {0}
    BY <1>4
  <1>6. \A k \in 1 .. n : g[k] = gap[k] + (IF k = 1 THEN 0 ELSE g[k - 1] + len[k - 1])
    BY <1>1 DEF Places
  <1>7. \A k \in 1 .. n : g[k] \in Nat
    <2> DEFINE T == {k \in 1 .. n : g[k] \notin Nat}
    <2> SUFFICES ASSUME T # {} PROVE FALSE
      OBVIOUS
    <2>1. T \subseteq Nat
      OBVIOUS
    <2> HIDE DEF T
    <2>2. PICK m \in T : \A t \in T : m <= t
      BY <2>1, LeastNat
    <2>3. m \in 1 .. n /\ g[m] \notin Nat
      BY DEF T
    <2>4. CASE m = 1
      BY <1>5, <1>6, <2>3, <2>4
    <2>5. CASE m # 1
      <3>1. m - 1 \in 1 .. n /\ ~(m <= m - 1)
        BY <2>3, <2>5
      <3>2. g[m - 1] \in Nat
        BY <2>2, <3>1 DEF T
      <3>3. g[m] = gap[m] + (g[m - 1] + len[m - 1])
        BY <1>6, <2>3, <2>5
      <3>4. gap[m] \in Nat /\ len[m - 1] \in Nat
        BY <1>5, <2>3, <3>1
      <3> QED
        BY ONLY <2>3, <3>2, <3>3, <3>4
    <2> QED
      BY <2>4, <2>5
  <1>8. ASSUME NEW k \in 1 .. n
        PROVE  \A l \in 1 .. n : k < l => g[k] + len[k] <= g[l]
    <2> DEFINE T == {l \in 1 .. n : k < l /\ ~(g[k] + len[k] <= g[l])}
    <2> SUFFICES ASSUME T # {} PROVE FALSE
      OBVIOUS
    <2>1. T \subseteq Nat
      OBVIOUS
    <2> HIDE DEF T
    <2>2. PICK m \in T : \A t \in T : m <= t
      BY <2>1, LeastNat
    <2>3. m \in 1 .. n /\ k < m /\ ~(g[k] + len[k] <= g[m])
      BY DEF T
    <2>4. /\ m - 1 \in 1 .. n /\ ~(m <= m - 1) /\ m # 1
          /\ k <= m - 1
      BY <2>3
    <2>5. g[m] = gap[m] + (g[m - 1] + len[m - 1])
      BY <1>6, <2>3, <2>4
    <2>6. /\ gap[m] \in Nat /\ g[m - 1] \in Nat /\ len[m - 1] \in Nat
          /\ g[k] \in Nat /\ len[k] \in Nat /\ g[m] \in Nat
      BY <1>5, <1>7, <2>3, <2>4
    <2>7. g[m - 1] <= g[m - 1] + len[m - 1] /\ g[m - 1] + len[m - 1] <= g[m]
      BY ONLY <2>5, <2>6
    <2>8. g[k] + len[k] <= g[m - 1] \/ k = m - 1
      <3>1. k < m - 1 \/ k = m - 1
        BY <2>3, <2>4
      <3>2. m - 1 \notin T
        BY <2>2, <2>4
      <3> QED
        BY <2>4, <3>1, <3>2 DEF T
    <2>9. CASE k = m - 1
      BY <2>3, <2>7, <2>9
    <2>10. CASE k # m - 1
      <3>1. g[k] + len[k] <= g[m]
        BY ONLY <2>6, <2>7, <2>8, <2>10
      <3> QED
        BY <2>3, <3>1
    <2> QED
      BY <2>9, <2>10
  <1>9. \A k \in 1 .. n : es[k].base = g[k] /\ es[k].length = len[k]
    BY <1>2
  <1>10. es = [k \in 1 .. n |-> es[k]]
    BY <1>2
  <1>11. Sorted(es)
    BY <1>3, <1>5, <1>7, <1>8, <1>9, <1>10 DEF Sorted
  <1> QED
    BY <1>11 DEF es

\* The sizes of the heaps are numbers.
LEMMA HeapSizes == HeapSize \in Nat /\ Map!PageHeapSize \in Nat
  <1>1. HeapSize \in Nat \ {0} /\ PageSize \in Nat \ {0} /\ PageCount \in Nat \ {0}
    BY BootAssumption DEF Map!MemMapAssumption
  <1>2. HeapSize \div PageSize \in Nat
    BY <1>1
  <1> DEFINE pages == (HeapSize \div PageSize) * (IF HeapSize % PageSize # 0 THEN 1 ELSE 0)
  <1>3. pages \in Nat
    BY <1>2
  <1> HIDE DEF pages
  <1>4. pages \div PageCount \in Nat
    BY <1>1, <1>3
  <1> DEFINE q == pages \div PageCount
  <1>5. Map!PageHeapSize = (q + 1) * PageCount * PageSize
    BY DEF Map!PageHeapSize, Map!PageHeapPages, pages
  <1>6. q \in Nat
    BY <1>4
  <1> HIDE DEF q
  <1>7. \A a, b \in Nat : a * b \in Nat
    OBVIOUS
  <1>8. (q + 1) * PageCount \in Nat
    BY <1>1, <1>6, <1>7
  <1> QED
    BY <1>1, <1>5, <1>7, <1>8

\* What the reservations took: an entry for each heap, large enough, and not the
\* same one.
Taken(h, p) ==
  \E k, l \in DOMAIN ents :
    /\ h = ents[k].base /\ ents[k].type = "usable" /\ ents[k].length >= HeapSize
    /\ p = ents[l].base /\ ents[l].type = "usable" /\ ents[l].length >= Map!PageHeapSize
    /\ ents[k].base # ents[l].base

\* A usable entry between others is a run of its own.
LEMMA RunAlone ==
  ASSUME Sorted(ents), Map!Isolated, NEW k \in DOMAIN ents, ents[k].type = "usable"
  PROVE  Map!RunStart({"usable"}, k) = k
  <1> DEFINE S == {j \in 1 .. k : \A l \in j .. k : ents[l].type \in {"usable"}}
  <1>1. DOMAIN ents = 1 .. Len(ents) /\ Len(ents) \in Nat
    BY DEF Sorted
  <1>2. k \in S
    BY <1>1
  <1>3. ASSUME NEW j \in S PROVE j = k
    <2> SUFFICES ASSUME j # k PROVE FALSE
      OBVIOUS
    <2>1. k - 1 \in j .. k /\ k \in j .. k /\ k - 1 \in 1 .. Len(ents) - 1
      BY <1>1
    <2>2. ents[k - 1].type = "usable" /\ ents[(k - 1) + 1].type = "usable"
      BY <1>1, <2>1
    <2> QED
      BY <2>1, <2>2 DEF Map!Isolated
  <1>4. S = {k}
    BY <1>2, <1>3
  <1>5. Map!Min({k}) = k
    <2>1. k <= k
      BY <1>1
    <2> QED
      BY <2>1 DEF Map!Min
  <1> QED
    BY <1>4, <1>5 DEF Map!RunStart

\* The least member is one.
LEMMA MinIn ==
  ASSUME NEW T, T \subseteq Nat, T # {}
  PROVE  Map!Min(T) \in T
  BY LeastNat DEF Map!Min

\* The kernel heap begins an entry that is large enough for it.
LEMMA HeapTaken ==
  ASSUME Sorted(ents), Map!Isolated, Map!heap_reserve_memory({"usable"}) # Map!None
  PROVE  \E k \in DOMAIN ents :
           /\ Map!heap_reserve_memory({"usable"}) = ents[k].base
           /\ ents[k].type = "usable" /\ ents[k].length >= HeapSize
  <1> DEFINE T == Map!LargeEnough({"usable"})
             k == Map!Min(T)
  <1>1. DOMAIN ents = 1 .. Len(ents) /\ Len(ents) \in Nat
    BY DEF Sorted
  <1>2. T \subseteq DOMAIN ents /\ \A l \in T : ents[l].type = "usable"
    BY DEF Map!LargeEnough
  <1>3. T # {} /\ Map!heap_reserve_memory({"usable"}) = ents[Map!RunStart({"usable"}, k)].base
    BY DEF Map!heap_reserve_memory
  <1> HIDE DEF T
  <1>4. k \in T
    BY <1>1, <1>2, <1>3, MinIn
  <1> HIDE DEF k
  <1>5. k \in DOMAIN ents /\ ents[k].type = "usable" /\ k \in 1 .. Len(ents)
    BY <1>1, <1>2, <1>4
  <1>6. Map!RunStart({"usable"}, k) = k
    BY <1>5, RunAlone
  <1>7. k .. k = {k}
    BY <1>5
  <1>8. ents[k].length \in Nat
    BY <1>5 DEF Sorted
  <1>9. Map!MapThenSumSet(LAMBDA l : ents[l].length, Map!RunStart({"usable"}, k) .. k)
          >= HeapSize
    BY <1>4 DEF T, Map!LargeEnough
  <1>10. ents[k].length >= HeapSize
    BY <1>6, <1>7, <1>8, <1>9, OneSum
  <1> QED
    BY <1>3, <1>5, <1>6, <1>10

\* The page heap begins another.
LEMMA PageHeapTaken ==
  ASSUME Sorted(ents), NEW h, Map!page_heap_reserve_memory(h) # Map!None
  PROVE  \E l \in DOMAIN ents :
           /\ Map!page_heap_reserve_memory(h) = ents[l].base /\ ents[l].base # h
           /\ ents[l].type = "usable" /\ ents[l].length >= Map!PageHeapSize
  <1> DEFINE T == Map!GoodSpots(h)
  <1>1. DOMAIN ents = 1 .. Len(ents) /\ Len(ents) \in Nat
    BY DEF Sorted
  <1>2. T \subseteq DOMAIN ents /\ T # {}
    BY DEF Map!GoodSpots, Map!page_heap_reserve_memory
  <1>3. Map!page_heap_reserve_memory(h) = ents[Map!Min(T)].base
    BY <1>2 DEF Map!page_heap_reserve_memory
  <1>4. Map!Min(T) \in T
    <2> HIDE DEF T
    <2> QED
      BY <1>1, <1>2, MinIn
  <1> QED
    BY <1>3, <1>4 DEF Map!GoodSpots

\* The memory map does not change, and behind both calls both heaps are there.
MapReserved ==
  /\ Sorted(ents)
  /\ mapPc = "first" /\ Map!Isolated => Taken(heap, pageHeap)

\* What is done with the memory map is done in a step of its module.
LEMMA MapSteps ==
  [Next]_vars => Map!Next \/ UNCHANGED mapVars
  BY DEF Next, Thread, ParseCmd, MemoryInit, KeyboardInit, PciInit, Handle,
         Proceed, Enter, Hardware, PressKey, Offer, Interrupt, Ended, vars

LEMMA MapKeeps == MapReserved /\ Map!Next => MapReserved'
  <1> SUFFICES ASSUME MapReserved, Map!Next
               PROVE  MapReserved'
    OBVIOUS
  <1>1. ents' = ents
    BY DEF Map!Next, Map!MemoryInit, Map!PageInit, Map!ParseFirst, Map!ParseGroup,
           Map!Separate, Map!Analyze, Map!Finished, Map!vars
  <1>2. Sorted(ents)'
    BY <1>1 DEF MapReserved
  <1>3. CASE Map!PageInit
    <2> SUFFICES ASSUME mapPc' = "first", Map!Isolated
                 PROVE  Taken(heap, pageHeap)'
      BY <1>1, <1>2 DEF MapReserved, Map!Isolated
    <2>1. /\ heap' = Map!heap_reserve_memory({"usable"}) /\ heap' # Map!None
          /\ pageHeap' = Map!page_heap_reserve_memory(heap') /\ pageHeap' # Map!None
      BY <1>3 DEF Map!PageInit
    <2>2. Taken(heap', pageHeap')
      BY <2>1, HeapTaken, PageHeapTaken DEF MapReserved, Taken
    <2> QED
      BY <1>1, <2>2 DEF Taken
  <1>4. CASE ~Map!PageInit
    <2>1. mapPc' # "first" \/ UNCHANGED <<mapPc, heap, pageHeap>>
      BY <1>4 DEF Map!Next, Map!MemoryInit, Map!ParseFirst, Map!ParseGroup,
                  Map!Separate, Map!Analyze, Map!Finished, Map!vars
    <2> QED
      BY <1>1, <1>2, <2>1 DEF MapReserved, Taken, Map!Isolated
  <1> QED
    BY <1>3, <1>4

\* Both heaps get memory that is usable, and not the same, in every memory map of
\* the boot loader in which usable entries are kept apart by others.
THEOREM HeapsReserved == Spec => []Reserved
  <1>1. Init => MapReserved
    <2> SUFFICES ASSUME Init PROVE MapReserved
      OBVIOUS
    <2>1. Map!Init
      BY DEF Init
    <2>2. Sorted(ents)
      <3>1. PICK n \in 2 .. MaxEntries : \E gap \in [1 .. n -> Gaps], len \in [1 .. n -> Lengths],
                   kind \in [1 .. n -> MemoryKinds] : ents = Map!LoaderMap(n, gap, len, kind)
        BY <2>1 DEF Map!Init
      <3>2. n \in Nat
        OBVIOUS
      <3> QED
        BY <3>1, <3>2, LoaderSorted
    <2>3. mapPc = "memory_init"
      BY <2>1 DEF Map!Init
    <2> QED
      BY <2>2, <2>3 DEF MapReserved
  <1>2. MapReserved /\ [Next]_vars => MapReserved'
    <2> SUFFICES ASSUME MapReserved, [Next]_vars
                 PROVE  MapReserved'
      OBVIOUS
    <2>1. CASE UNCHANGED mapVars
      BY <2>1 DEF mapVars, MapReserved, Taken, Map!Isolated
    <2> QED
      BY <2>1, MapSteps, MapKeeps
  <1>3. MapReserved => Reserved
    <2> SUFFICES ASSUME MapReserved, mapPc = "first", Map!Isolated
                 PROVE  /\ Map!HeapRange \cup Map!PageHeapRange \subseteq Map!Usable
                        /\ Map!HeapRange \cap Map!PageHeapRange = {}
      BY DEF Reserved, Map!Reserved
    <2>1. PICK k, l \in DOMAIN ents :
            /\ heap = ents[k].base /\ ents[k].type = "usable" /\ ents[k].length >= HeapSize
            /\ pageHeap = ents[l].base /\ ents[l].type = "usable"
            /\ ents[l].length >= Map!PageHeapSize
            /\ ents[k].base # ents[l].base
      BY DEF MapReserved, Taken
    <2>2. /\ k \in 1 .. Len(ents) /\ l \in 1 .. Len(ents) /\ Len(ents) \in Nat
          /\ ents[k].base \in Nat /\ ents[k].length \in Nat
          /\ ents[l].base \in Nat /\ ents[l].length \in Nat
          /\ k < l => ents[k].base + ents[k].length <= ents[l].base
          /\ l < k => ents[l].base + ents[l].length <= ents[k].base
      BY <2>1 DEF MapReserved, Sorted
    <2>3. HeapSize \in Nat /\ Map!PageHeapSize \in Nat
      BY HeapSizes
    <2>4. Map!HeapRange \subseteq Map!Bytes(ents[k].base, ents[k].length)
      BY <2>1, <2>2, <2>3 DEF Map!HeapRange, Map!Bytes
    <2>5. Map!PageHeapRange \subseteq Map!Bytes(ents[l].base, ents[l].length)
      BY <2>1, <2>2, <2>3 DEF Map!PageHeapRange, Map!Bytes
    <2>6. Map!Bytes(ents[k].base, ents[k].length) \cap Map!Bytes(ents[l].base, ents[l].length) = {}
      <3>1. k < l \/ l < k
        BY <2>1, <2>2
      <3>2. PICK a, b, c, d :
              a = ents[k].base /\ b = ents[k].length /\ c = ents[l].base /\ d = ents[l].length
        OBVIOUS
      <3>3. a \in Nat /\ b \in Nat /\ c \in Nat /\ d \in Nat /\ (a + b <= c \/ c + d <= a)
        BY ONLY <2>2, <3>1, <3>2
      <3>4. Map!Bytes(a, b) \cap Map!Bytes(c, d) = {}
        BY ONLY <3>3 DEF Map!Bytes
      <3> QED
        BY ONLY <3>2, <3>4
    <2>7. /\ Map!Bytes(ents[k].base, ents[k].length) \subseteq Map!Usable
          /\ Map!Bytes(ents[l].base, ents[l].length) \subseteq Map!Usable
      BY <2>1 DEF Map!Usable
    <2> QED
      BY <2>4, <2>5, <2>6, <2>7
  <1> QED
    BY <1>1, <1>2, <1>3, PTL DEF Spec

-----------------------------------------------------------------------------
(* The command line.                                                        *)

\* The line is a sequence of words, and stays.
LineTyped ==
  cmd \in Seq(STRING) /\ Len(cmd) \in Nat /\ Cmd!End = Len(cmd) + 1 /\ Cmd!End \in Nat \ {0}

LEMMA LinesTyped == cmd \in Seq(STRING) => LineTyped
  BY DEF LineTyped, Cmd!End

\* Every token has an end, at most that of the line, and one behind the line is empty.
LEMMA TokenEnds ==
  ASSUME LineTyped, NEW k \in Nat \ {0}
  PROVE  /\ Cmd!TokenEnd(k) \in Nat /\ Cmd!TokenEnd(k) >= k
         /\ ~Cmd!InToken(Cmd!TokenEnd(k))
         /\ \A m \in k .. Cmd!TokenEnd(k) - 1 : Cmd!InToken(m)
  <1> DEFINE P(n) == ~Cmd!InToken(n) /\ \A m \in k .. n - 1 : Cmd!InToken(m)
             T == {n \in k .. k + Cmd!End : ~Cmd!InToken(n)}
  <1>1. k + Cmd!End \in T
    <2>1. Cmd!End \in Nat /\ k + Cmd!End \in k .. k + Cmd!End /\ ~(k + Cmd!End < Cmd!End)
      BY DEF LineTyped
    <2> QED
      BY <2>1 DEF Cmd!InToken
  <1>2. T \subseteq Nat
    BY DEF LineTyped
  <1> HIDE DEF T
  <1>3. PICK n \in T : \A t \in T : n <= t
    BY <1>1, <1>2, LeastNat
  <1>4. n \in k .. k + Cmd!End /\ ~Cmd!InToken(n)
    BY DEF T
  <1>5. ASSUME NEW m \in k .. n - 1 PROVE Cmd!InToken(m)
    <2>1. m \in k .. k + Cmd!End /\ ~(n <= m)
      BY <1>4 DEF LineTyped
    <2> QED
      BY <1>3, <2>1 DEF T
  <1>6. \E x \in k .. k + Cmd!End : P(x)
    BY <1>4, <1>5
  <1>7. Cmd!TokenEnd(k) = CHOOSE x \in k .. k + Cmd!End : P(x)
    BY DEF Cmd!TokenEnd
  <1> HIDE DEF P
  <1>8. Cmd!TokenEnd(k) \in k .. k + Cmd!End /\ P(Cmd!TokenEnd(k))
    BY <1>6, <1>7
  <1> QED
    BY <1>8 DEF P, LineTyped

\* There is only one.
LEMMA TokenEndIs ==
  ASSUME LineTyped, NEW k \in Nat \ {0}, NEW n \in Nat, n >= k, ~Cmd!InToken(n),
         \A m \in k .. n - 1 : Cmd!InToken(m)
  PROVE  Cmd!TokenEnd(k) = n
  <1> DEFINE e == Cmd!TokenEnd(k)
  <1>1. e \in Nat /\ e >= k /\ ~Cmd!InToken(e) /\ \A m \in k .. e - 1 : Cmd!InToken(m)
    BY TokenEnds
  <1> HIDE DEF e
  <1>2. ~(e < n) 
    <2> SUFFICES ASSUME e < n PROVE FALSE
      OBVIOUS
    <2>1. e \in k .. n - 1
      BY <1>1
    <2> QED
      BY <1>1, <2>1
  <1>3. ~(n < e)
    <2> SUFFICES ASSUME n < e PROVE FALSE
      OBVIOUS
    <2>1. n \in k .. e - 1
      BY <1>1
    <2> QED
      BY <1>1, <2>1
  <1> QED
    BY <1>1, <1>2, <1>3 DEF e

\* The first of some positions.
LEMMA FirstIs ==
  ASSUME NEW T, T \subseteq Nat
  PROVE  /\ T = {} => Cmd!First(T) = Cmd!End + 1
         /\ T # {} => Cmd!First(T) \in T /\ \A t \in T : Cmd!First(T) <= t
  <1>1. CASE T = {}
    BY <1>1 DEF Cmd!First
  <1>2. CASE T # {}
    <2>1. \E n \in T : \A m \in T : n <= m
      BY <1>2, LeastNat
    <2>2. Cmd!First(T) = CHOOSE n \in T : \A m \in T : n <= m
      BY <1>2 DEF Cmd!First
    <2> QED
      BY <1>2, <2>1, <2>2
  <1> QED
    BY <1>1, <1>2

\* A switch is given at k and its value at n.
Pair(name, k, n) ==
  /\ k \in Cmd!Starts /\ n \in Cmd!Starts /\ k < n
  /\ Cmd!TokenAt(k) = <<"-", name>>
  /\ \A m \in Cmd!Starts : m <= k \/ m >= n

\* The switches in front of b have their values in front of it.
Closed(b) ==
  \A name \in {"vocality", "kaslr"} : \A k, n \in Cmd!Starts : Pair(name, k, n) /\ k < b => n < b

\* The levels given in front of b.
LevelsTo(b) ==
  {n \in Cmd!Given("vocality") : Cmd!TokenAt(n) \in Vocalities /\ n < b}

\* The last level in front of b is `level'.
LevelTo(b, level) ==
  IF LevelsTo(b) = {} THEN level = <<"normal">>
  ELSE \E n \in LevelsTo(b) : (\A m \in LevelsTo(b) : m <= n) /\ level = Cmd!TokenAt(n)

\* Randomization was enabled in front of b, or was not.
EnabledTo(b, enabled) ==
  enabled = \E n \in Cmd!Given("kaslr") : n < b /\ Cmd!TokenAt(n) = <<"enable">>

\* What a line says in front of b.
ReadTo(b, level, enabled) == Closed(b) /\ LevelTo(b, level) /\ EnabledTo(b, enabled)

\* A switch was read at h, and its value comes next.
AtSwitch(h) ==
  /\ h \in Cmd!Starts /\ Cmd!TokenAt(h) = <<"-", token[1]>>
  /\ token \in {<<"vocality">>, <<"kaslr">>}
  /\ cmdNext = Cmd!TokenEnd(h)

SwitchesRead ==
  /\ LineTyped /\ kaslr \in BOOLEAN
  /\ cmdPc \in {"switch", "value", "done"} /\ cmdNext \in Nat \ {0}
  /\ Cmd!WellFormed =>
       /\ cmdPc = "switch" =>
            /\ cmdNext = 1 \/ ~Cmd!InToken(cmdNext - 1)
            /\ ReadTo(cmdNext, vocality, kaslr)
       /\ cmdPc = "value" => \E h \in Cmd!Starts : AtSwitch(h) /\ ReadTo(h, vocality, kaslr)
       /\ cmdPc = "done" => \E b \in Nat : b >= Cmd!End /\ ReadTo(b, vocality, kaslr)

\* Positions of a line.
LEMMA StartsAre ==
  ASSUME LineTyped, NEW k \in Cmd!Starts
  PROVE  k \in Nat \ {0} /\ k < Cmd!End /\ Cmd!InToken(k)
  BY DEF LineTyped, Cmd!Starts, Cmd!End

\* Behind a token the next position in a token begins one.
LEMMA NextStarts ==
  ASSUME LineTyped, NEW e \in Nat \ {0}, ~Cmd!InToken(e) , NEW k \in Nat, k > e, Cmd!InToken(k)
  PROVE  \E s \in Cmd!Starts : e < s /\ s <= k /\ (\A m \in s .. k : Cmd!InToken(m))
  <1> DEFINE T == {j \in Nat : j <= k - e /\ ~Cmd!InToken(k - j)}
  <1>1. k - e \in T
    OBVIOUS
  <1>2. T \subseteq Nat
    OBVIOUS
  <1> HIDE DEF T
  <1>3. PICK j \in T : \A t \in T : j <= t
    BY <1>1, <1>2, LeastNat
  <1>4. j \in Nat /\ j <= k - e /\ ~Cmd!InToken(k - j)
    BY DEF T
  <1>5. ASSUME NEW m \in k - j + 1 .. k PROVE Cmd!InToken(m)
    <2>1. k - m \in Nat /\ k - m <= k - e /\ ~(j <= k - m) /\ k - (k - m) = m
      BY <1>4
    <2> QED
      BY <1>3, <2>1 DEF T
  <1>6. j # 0
    BY <1>4
  <1> DEFINE s == k - j + 1
  <1>7. s \in Nat /\ e < s /\ s <= k /\ s - 1 = k - j /\ s \in k - j + 1 .. k
    BY <1>4, <1>6
  <1> HIDE DEF s
  <1>8. Cmd!InToken(s) /\ ~Cmd!InToken(s - 1)
    BY <1>4, <1>5, <1>7
  <1>9. s \in 1 .. Len(cmd)
    <2>1. s < Cmd!End
      BY <1>8 DEF Cmd!InToken
    <2>2. Cmd!End = Len(cmd) + 1 /\ Len(cmd) \in Nat
      BY DEF LineTyped
    <2> QED
      BY ONLY <1>7, <2>1, <2>2
  <1>10. s \in Cmd!Starts
    BY <1>8, <1>9 DEF Cmd!Starts
  <1> QED
    BY <1>5, <1>7, <1>10 DEF s

\* Two tokens of one value.
LEMMA TokenIs ==
  ASSUME LineTyped, NEW k \in Nat \ {0}
  PROVE  /\ Cmd!TokenAt(k) \in Seq(STRING)
         /\ Len(Cmd!TokenAt(k)) = Cmd!TokenEnd(k) - k
         /\ Cmd!TokenEnd(k) = k \/ Cmd!TokenEnd(k) <= Cmd!End
         /\ \A j \in 1 .. Cmd!TokenEnd(k) - k : Cmd!TokenAt(k)[j] = cmd[k + j - 1]
  <1> DEFINE e == Cmd!TokenEnd(k)
  <1>1. e \in Nat /\ e >= k /\ \A m \in k .. e - 1 : Cmd!InToken(m)
    BY TokenEnds
  <1>2. cmd \in Seq(STRING) /\ Len(cmd) \in Nat /\ Cmd!End = Len(cmd) + 1
    BY DEF LineTyped
  <1>3. Cmd!TokenAt(k) = SubSeq(cmd, k, e - 1)
    BY DEF Cmd!TokenAt
  <1> HIDE DEF e
  <1>4. e = k \/ (e - 1 < Cmd!End)
    <2> SUFFICES ASSUME e # k PROVE e - 1 < Cmd!End
      OBVIOUS
    <2>1. e - 1 \in k .. e - 1
      BY <1>1
    <2> QED
      BY <1>1, <2>1 DEF Cmd!InToken
  <1>5. e = k \/ e - 1 \in 1 .. Len(cmd)
    BY <1>1, <1>2, <1>4
  <1>6. \A m \in k .. e - 1 : m \in 1 .. Len(cmd)
    BY <1>1, <1>2, <1>5
  <1>7. SubSeq(cmd, k, e - 1) = [j \in 1 .. e - k |-> cmd[k + j - 1]]
    BY <1>1, <1>2
  <1>8. \A j \in 1 .. e - k : cmd[k + j - 1] \in STRING
    <2> SUFFICES ASSUME NEW j \in 1 .. e - k PROVE cmd[k + j - 1] \in STRING
      OBVIOUS
    <2>1. k + j - 1 \in k .. e - 1
      BY <1>1
    <2> QED
      BY <1>2, <1>6, <2>1
  <1>9. e - k \in Nat
    BY <1>1
  <1>10. SubSeq(cmd, k, e - 1) \in Seq(STRING) /\ Len(SubSeq(cmd, k, e - 1)) = e - k
    <2>1. \A q, n : n \in Nat /\ q \in [1 .. n -> STRING] => q \in Seq(STRING) /\ Len(q) = n
      OBVIOUS
    <2>2. [j \in 1 .. e - k |-> cmd[k + j - 1]] \in [1 .. e - k -> STRING]
      BY <1>8
    <2> QED
      BY <1>7, <1>9, <2>1, <2>2, Zenon
  <1>11. e = k \/ e <= Cmd!End
    BY <1>1, <1>2, <1>4
  <1> QED
    BY <1>3, <1>7, <1>10, <1>11 DEF e

\* The line does not change, and neither does what it says.
LEMMA LineStays ==
  ASSUME cmd' = cmd
  PROVE  /\ LineTyped' = LineTyped /\ Cmd!WellFormed' = Cmd!WellFormed
         /\ Cmd!End' = Cmd!End /\ Cmd!Starts' = Cmd!Starts
         /\ \A k : /\ Cmd!InToken(k)' = Cmd!InToken(k)
                 /\ Cmd!TokenAt(k)' = Cmd!TokenAt(k) /\ Cmd!TokenEnd(k)' = Cmd!TokenEnd(k)
         /\ \A b, level, enabled : ReadTo(b, level, enabled)' = ReadTo(b, level, enabled)
  <1> USE DEF Cmd!End, Cmd!InToken, Cmd!TokenEnd, Cmd!TokenAt, Cmd!Starts
  <1>1. LineTyped' = LineTyped
    BY DEF LineTyped
  <1>2. Cmd!WellFormed' = Cmd!WellFormed
    BY DEF Cmd!WellFormed
  <1>3. Cmd!End' = Cmd!End /\ Cmd!Starts' = Cmd!Starts
    OBVIOUS
  <1>4. \A k : /\ Cmd!InToken(k)' = Cmd!InToken(k)
              /\ Cmd!TokenAt(k)' = Cmd!TokenAt(k) /\ Cmd!TokenEnd(k)' = Cmd!TokenEnd(k)
    OBVIOUS
  <1>5. \A b, level, enabled : ReadTo(b, level, enabled)' = ReadTo(b, level, enabled)
    BY DEF ReadTo, Closed, Pair, LevelTo, LevelsTo, EnabledTo, Cmd!Given
  <1> QED
    BY <1>1, <1>2, <1>3, <1>4, <1>5

\* A value belongs to one switch.
LEMMA PairsAre ==
  ASSUME LineTyped, NEW name
  PROVE  /\ \A n : n \in Cmd!Given(name) <=> \E k : Pair(name, k, n)
         /\ \A k, n : Pair(name, k, n) =>
              /\ k \in Nat \ {0} /\ n \in Nat \ {0} /\ k < n
              /\ k \in Cmd!Starts /\ n \in Cmd!Starts
              /\ cmd[k] = "-" /\ cmd[k + 1] = name /\ Cmd!TokenEnd(k) = k + 2
  <1>1. \A n : n \in Cmd!Given(name) <=> \E k : Pair(name, k, n)
    BY DEF Pair, Cmd!Given
  <1>2. ASSUME NEW k, NEW n, Pair(name, k, n)
        PROVE  /\ k \in Nat \ {0} /\ n \in Nat \ {0} /\ k < n
               /\ k \in Cmd!Starts /\ n \in Cmd!Starts
               /\ cmd[k] = "-" /\ cmd[k + 1] = name /\ Cmd!TokenEnd(k) = k + 2
    <2>1. k \in Cmd!Starts /\ n \in Cmd!Starts /\ k < n /\ Cmd!TokenAt(k) = <<"-", name>>
      BY <1>2 DEF Pair
    <2>2. k \in Nat \ {0} /\ n \in Nat \ {0}
      BY <2>1, StartsAre
    <2>3. Cmd!TokenEnd(k) - k = 2 /\ Cmd!TokenEnd(k) \in Nat
      BY <2>1, <2>2, TokenIs, TokenEnds
    <2>4. \A j \in 1 .. 2 : Cmd!TokenAt(k)[j] = cmd[k + j - 1]
      BY <2>2, <2>3, TokenIs
    <2>5. cmd[k] = "-" /\ cmd[k + 1] = name
      <3>1. k + 1 - 1 = k /\ k + 2 - 1 = k + 1
        BY <2>2
      <3> QED
        BY <2>1, <2>4, <3>1
    <2> QED
      BY <2>1, <2>2, <2>3, <2>5
  <1> QED
    BY <1>1, <1>2

\* What a line says changes only at a switch.
LEMMA ReadSame ==
  ASSUME LineTyped, NEW b \in Nat, NEW c \in Nat, b <= c, NEW level, NEW enabled,
         ReadTo(b, level, enabled),
         \A name \in {"vocality", "kaslr"} : \A k, n : Pair(name, k, n) => k < b \/ c <= k
  PROVE  ReadTo(c, level, enabled)
  <1>1. ASSUME NEW name \in {"vocality", "kaslr"}, NEW k, NEW n, Pair(name, k, n)
        PROVE  (k < c => n < b) /\ (n < b <=> n < c)
    <2>1. k \in Nat /\ n \in Nat /\ k < n /\ k \in Cmd!Starts /\ n \in Cmd!Starts
      BY <1>1, PairsAre
    <2>2. k < b \/ c <= k
      BY <1>1
    <2>3. k < b => n < b
      BY <1>1, <2>1 DEF ReadTo, Closed
    <2> QED
      BY ONLY <2>1, <2>2, <2>3, b \in Nat, c \in Nat, b <= c
  <1>2. Closed(c)
    <2>1. \A k, n \in Cmd!Starts : k \in Nat /\ n \in Nat
      BY StartsAre
    <2> QED
      BY <1>1, <2>1 DEF Closed
  <1>3. \A name \in {"vocality", "kaslr"} : \A n \in Cmd!Given(name) : n < b <=> n < c
    BY <1>1, PairsAre
  <1>4. LevelsTo(c) = LevelsTo(b)
    BY <1>3, Zenon DEF LevelsTo
  <1>5. LevelTo(c, level)
    BY <1>4 DEF LevelTo, ReadTo
  <1>6. EnabledTo(c, enabled)
    BY <1>3, Zenon DEF EnabledTo, ReadTo
  <1> QED
    BY <1>2, <1>5, <1>6 DEF ReadTo

\* The positions at which the first hyphen from i on is looked for.
LEMMA SwitchFound ==
  ASSUME LineTyped, Cmd!WellFormed, NEW i \in Nat \ {0}, NEW h,
         h = Cmd!First({n \in i .. Len(cmd) : cmd[n] = "-"}),
         NEW t, t = Cmd!TokenAt(h + 1)
  PROVE  /\ h \in Nat \ {0} /\ (i <= h \/ h = Cmd!End + 1)
         /\ \A name : \A k, n : Pair(name, k, n) => k < i \/ h <= k
         /\ h <= Cmd!End => cmd[h] = "-" /\ Cmd!InToken(h)
         /\ t \in {<<"vocality">>, <<"kaslr">>} =>
              h \in Cmd!Starts /\ Cmd!TokenEnd(h) = Cmd!TokenEnd(h + 1)
              /\ Cmd!TokenAt(h) = <<"-", t[1]>>
  <1> DEFINE T == {n \in i .. Len(cmd) : cmd[n] = "-"}
  <1>1. Len(cmd) \in Nat /\ Cmd!End = Len(cmd) + 1
    BY DEF LineTyped
  <1>2. T \subseteq Nat
    OBVIOUS
  <1>3. /\ T = {} => h = Cmd!End + 1
        /\ T # {} => h \in T /\ \A n \in T : h <= n
    <2> HIDE DEF T
    <2> QED
      BY <1>2, FirstIs DEF T
  <1>4. ASSUME NEW name, NEW k, NEW n, Pair(name, k, n), k >= i
        PROVE  k \in T /\ h <= k
    <2>1. k \in Nat /\ k \in Cmd!Starts /\ cmd[k] = "-"
      BY <1>4, PairsAre
    <2>2. k \in 1 .. Len(cmd)
      BY <2>1 DEF Cmd!Starts
    <2>3. k \in T
      BY <1>4, <2>1, <2>2
    <2> QED
      BY <1>3, <2>3
  <1>5. \A name : \A k, n : Pair(name, k, n) => k < i \/ h <= k
    <2> SUFFICES ASSUME NEW name, NEW k, NEW n, Pair(name, k, n), ~(h <= k)
                 PROVE  k < i
      OBVIOUS
    <2>1. k \in Nat
      BY PairsAre
    <2>2. ~(k >= i)
      BY <1>4
    <2> QED
      BY <2>1, <2>2
  <1>6. h \in Nat \ {0} /\ (i <= h \/ h = Cmd!End + 1)
    BY <1>1, <1>3
  <1>7. ASSUME h <= Cmd!End
        PROVE  h \in i .. Len(cmd) /\ cmd[h] = "-" /\ Cmd!InToken(h)
    <2>1. h # Cmd!End + 1
      BY <1>1, <1>7
    <2>2. h \in i .. Len(cmd) /\ cmd[h] = "-"
      BY <1>3, <2>1
    <2>3. h < Cmd!End
      BY <1>1, <2>2
    <2> QED
      BY <2>2, <2>3 DEF Cmd!InToken
  <1>8. ASSUME t \in {<<"vocality">>, <<"kaslr">>}
        PROVE  /\ h \in Cmd!Starts /\ Cmd!TokenEnd(h) = Cmd!TokenEnd(h + 1)
               /\ Cmd!TokenAt(h) = <<"-", t[1]>>
    <2>1. h + 1 \in Nat \ {0} /\ h \in Nat
      BY <1>1, <1>6
    <2>2. Len(t) = 1
      BY <1>8
    <2>3. Cmd!TokenEnd(h + 1) - (h + 1) = 1 /\ Cmd!TokenEnd(h + 1) \in Nat
      BY <2>1, <2>2, TokenIs, TokenEnds
    <2>4. Cmd!TokenEnd(h + 1) = h + 2
      BY ONLY <2>1, <2>3
    <2>5. Cmd!TokenEnd(h + 1) <= Cmd!End
      <3>1. Cmd!TokenEnd(h + 1) # h + 1
        BY <2>1, <2>4
      <3> QED
        BY <2>1, <3>1, TokenIs
    <2>6. h <= Cmd!End /\ h + 1 <= Len(cmd)
      BY <1>1, <2>1, <2>4, <2>5
    <2>7. h \in i .. Len(cmd) /\ cmd[h] = "-" /\ Cmd!InToken(h)
      BY <1>7, <2>6
    <2>8. h \in 1 .. Len(cmd) - 1
      BY <1>1, <2>1, <2>6, <2>7
    <2>9. cmd[h + 1] = t[1]
      <3>1. 1 \in 1 .. Cmd!TokenEnd(h + 1) - (h + 1) /\ h + 1 + 1 - 1 = h + 1
        BY ONLY <2>1, <2>3
      <3> QED
        BY <2>1, <3>1, TokenIs
    <2>10. t[1] \in {"vocality", "kaslr"}
      BY <1>8
    <2>11. h \in Cmd!Starts
      BY <2>7, <2>8, <2>9, <2>10 DEF Cmd!WellFormed
    <2>12. Cmd!TokenEnd(h) = h + 2
      <3>1. ~Cmd!InToken(h + 2) /\ \A m \in h + 1 .. h + 2 - 1 : Cmd!InToken(m)
        BY <2>1, <2>4, TokenEnds
      <3>2. \A m \in h .. h + 2 - 1 : m = h \/ m \in h + 1 .. h + 2 - 1
        BY <2>1
      <3>3. \A m \in h .. h + 2 - 1 : Cmd!InToken(m)
        BY <2>7, <3>1, <3>2
      <3>4. h \in Nat \ {0} /\ h + 2 \in Nat /\ h + 2 >= h
        BY <2>1, <2>8
      <3> QED
        BY <3>1, <3>3, <3>4, TokenEndIs
    <2>13. Cmd!TokenAt(h) = <<"-", t[1]>>
      <3>1. h \in Nat \ {0} /\ Cmd!TokenEnd(h) - h = 2
        BY <2>1, <2>8, <2>12
      <3>2. /\ Cmd!TokenAt(h) \in Seq(STRING) /\ Len(Cmd!TokenAt(h)) = 2
            /\ \A j \in 1 .. 2 : Cmd!TokenAt(h)[j] = cmd[h + j - 1]
        BY <3>1, TokenIs
      <3>3. h + 1 - 1 = h /\ h + 2 - 1 = h + 1
        BY <2>1
      <3>4. Cmd!TokenAt(h)[1] = "-" /\ Cmd!TokenAt(h)[2] = t[1]
        BY <2>7, <2>9, <3>2, <3>3
      <3> QED
        BY <3>2, <3>4
    <2> QED
      BY <2>4, <2>11, <2>12, <2>13
  <1> QED
    BY <1>5, <1>6, <1>7, <1>8

\* A switch that is none of the two is passed over, with its token.
LEMMA PassedOver ==
  ASSUME LineTyped, NEW h \in Nat \ {0}, h <= Cmd!End => Cmd!InToken(h),
         Cmd!TokenAt(h + 1) \notin {<<"vocality">>, <<"kaslr">>},
         NEW name \in {"vocality", "kaslr"}, NEW k, NEW n, Pair(name, k, n), h <= k
  PROVE  Cmd!TokenEnd(h + 1) + 1 <= k
  <1> DEFINE e == Cmd!TokenEnd(h + 1)
  <1>1. /\ e \in Nat /\ e >= h + 1 /\ ~Cmd!InToken(e)
        /\ \A m \in h + 1 .. e - 1 : Cmd!InToken(m)
    BY TokenEnds
  <1> HIDE DEF e
  <1>2. /\ k \in Nat \ {0} /\ k \in Cmd!Starts /\ cmd[k] = "-" /\ cmd[k + 1] = name
        /\ Cmd!TokenEnd(k) = k + 2
    BY PairsAre
  <1>3. Cmd!InToken(k) /\ k < Cmd!End /\ (k = 1 \/ ~Cmd!InToken(k - 1))
    BY <1>2, StartsAre DEF Cmd!Starts
  <1> SUFFICES ASSUME ~(e + 1 <= k) PROVE FALSE
    BY DEF e
  <1>4. k <= e /\ k # e
    BY <1>1, <1>2, <1>3
  <1>5. CASE k = h
    <2>1. /\ ~Cmd!InToken(k + 2) /\ \A m \in k .. k + 2 - 1 : Cmd!InToken(m)
      BY <1>2, TokenEnds
    <2>2. \A m \in h + 1 .. h + 2 - 1 : m \in k .. k + 2 - 1
      BY <1>2, <1>5
    <2>3. Cmd!TokenEnd(h + 1) = h + 2
      <3>1. h + 1 \in Nat \ {0} /\ h + 2 \in Nat /\ h + 2 >= h + 1
        OBVIOUS
      <3>2. ~Cmd!InToken(h + 2) /\ \A m \in h + 1 .. h + 2 - 1 : Cmd!InToken(m)
        BY <1>5, <2>1, <2>2
      <3> QED
        BY <3>1, <3>2, TokenEndIs
    <2>4. /\ Cmd!TokenAt(h + 1) \in Seq(STRING) /\ Len(Cmd!TokenAt(h + 1)) = 1
          /\ Cmd!TokenAt(h + 1)[1] = cmd[h + 1]
      <3>1. h + 1 \in Nat \ {0} /\ Cmd!TokenEnd(h + 1) - (h + 1) = 1 /\ h + 1 + 1 - 1 = h + 1
        BY <2>3
      <3>2. /\ Cmd!TokenAt(h + 1) \in Seq(STRING) /\ Len(Cmd!TokenAt(h + 1)) = 1
            /\ \A j \in 1 .. 1 : Cmd!TokenAt(h + 1)[j] = cmd[h + 1 + j - 1]
        BY <3>1, TokenIs
      <3> QED
        BY <3>1, <3>2
    <2>5. Cmd!TokenAt(h + 1) = <<name>>
      BY <1>2, <1>5, <2>4
    <2> QED
      BY <2>5
  <1>6. CASE k # h
    <2>1. k - 1 >= h /\ k - 1 \in Nat /\ k # 1
      BY <1>2, <1>6
    <2>2. Cmd!InToken(k - 1)
      <3>1. CASE k - 1 = h
        <4>1. h <= Cmd!End
          BY <1>2, <1>3, <3>1 DEF LineTyped
        <4> QED
          BY <3>1, <4>1
      <3>2. CASE k - 1 # h
        <4>1. k - 1 \in h + 1 .. e - 1
          BY ONLY <1>1, <1>2, <1>4, <2>1, <3>2, h \in Nat \ {0}
        <4> QED
          BY <1>1, <4>1
      <3> QED
        BY <3>1, <3>2
    <2> QED
      BY <1>3, <2>1, <2>2
  <1> QED
    BY <1>5, <1>6

LEMMA SwitchReads ==
  ASSUME SwitchesRead, Cmd!Switch
  PROVE  SwitchesRead'
  <1>1. /\ LineTyped /\ kaslr \in BOOLEAN /\ cmdNext \in Nat \ {0} /\ cmdPc = "switch"
        /\ Cmd!WellFormed =>
             /\ cmdNext = 1 \/ ~Cmd!InToken(cmdNext - 1)
             /\ ReadTo(cmdNext, vocality, kaslr)
    BY DEF SwitchesRead, Cmd!Switch
  <1>2. cmd' = cmd /\ vocality' = vocality /\ kaslr' = kaslr
    BY DEF Cmd!Switch
  <1>3. LineTyped' /\ kaslr' \in BOOLEAN
    BY <1>1, <1>2, LineStays
  <1>4. CASE cmdNext > Cmd!End
    <2>1. cmdPc' = "done" /\ cmdNext' = cmdNext
      BY <1>4 DEF Cmd!Switch
    <2>2. cmdNext \in Nat /\ cmdNext >= Cmd!End
      BY <1>1, <1>4 DEF LineTyped
    <2>3. Cmd!WellFormed => \E b \in Nat : b >= Cmd!End /\ ReadTo(b, vocality, kaslr)
      BY <1>1, <2>2
    <2> QED
      BY <1>1, <1>2, <1>3, <2>1, <2>3, LineStays DEF SwitchesRead
  <1>5. CASE ~(cmdNext > Cmd!End)
    <2>h. PICK h : h = Cmd!First({n \in cmdNext .. Len(cmd) : cmd[n] = "-"})
      OBVIOUS
    <2>e. PICK e : e = Cmd!TokenEnd(h + 1)
      OBVIOUS
    <2>1. /\ token' = Cmd!TokenAt(h + 1)
          /\ IF token' \in {<<"vocality">>, <<"kaslr">>}
             THEN cmdNext' = e /\ cmdPc' = "value"
             ELSE cmdNext' = e + 1 /\ cmdPc' = "switch"
      BY <1>1, <1>5, <2>h, <2>e DEF Cmd!Switch
    <2>2. Len(cmd) \in Nat /\ Cmd!End = Len(cmd) + 1 /\ cmdNext <= Cmd!End
      BY <1>1, <1>5 DEF LineTyped
    <2>3. h \in Nat \ {0} /\ cmdNext <= h
      <3> DEFINE T == {n \in cmdNext .. Len(cmd) : cmd[n] = "-"}
      <3>1. T \subseteq Nat
        BY <1>1
      <3>2. T = {} => h = Cmd!End + 1
        <4> HIDE DEF T
        <4> QED
          BY <2>h, <3>1, FirstIs DEF T
      <3>3. T # {} => h \in T
        <4> HIDE DEF T
        <4> QED
          BY <2>h, <3>1, FirstIs DEF T
      <3> QED
        BY <1>1, <2>2, <3>2, <3>3
    <2>4. h + 1 \in Nat \ {0}
      BY <2>3
    <2>5. e \in Nat \ {0} /\ e >= h + 1 /\ ~Cmd!InToken(e)
      BY <1>1, <2>e, <2>3, <2>4, TokenEnds
    <2>6. cmdNext' \in Nat \ {0} /\ cmdPc' \in {"switch", "value"}
      BY <2>1, <2>5
    <2>7. CASE ~Cmd!WellFormed
      <3>1. ~Cmd!WellFormed'
        BY <1>2, <2>7, LineStays
      <3> QED
        BY <1>3, <2>6, <3>1 DEF SwitchesRead
    <2>8. CASE Cmd!WellFormed
      <3>1. /\ \A name : \A k, n : Pair(name, k, n) => k < cmdNext \/ h <= k
            /\ h <= Cmd!End => cmd[h] = "-" /\ Cmd!InToken(h)
            /\ token' \in {<<"vocality">>, <<"kaslr">>} =>
                 h \in Cmd!Starts /\ Cmd!TokenEnd(h) = e /\ Cmd!TokenAt(h) = <<"-", token'[1]>>
        BY <1>1, <2>h, <2>e, <2>1, <2>8, SwitchFound
      <3>2. ReadTo(cmdNext, vocality, kaslr)
        BY <1>1, <2>8
      <3>3. CASE token' \in {<<"vocality">>, <<"kaslr">>}
        <4>1. ReadTo(h, vocality, kaslr)
          BY <1>1, <2>3, <3>1, <3>2, ReadSame
        <4>2. cmdPc' = "value" /\ cmdNext' = e
          BY <2>1, <3>3
        <4>3. AtSwitch(h)'
          BY <1>2, <3>1, <3>3, <4>2, LineStays DEF AtSwitch
        <4>4. ReadTo(h, vocality, kaslr)'
          BY <1>2, <4>1, LineStays
        <4>5. \E j \in Cmd!Starts' : (AtSwitch(j) /\ ReadTo(j, vocality, kaslr))'
          BY <1>2, <3>1, <3>3, <4>3, <4>4, LineStays
        <4> QED
          BY <1>3, <2>6, <4>2, <4>5 DEF SwitchesRead
      <3>4. CASE token' \notin {<<"vocality">>, <<"kaslr">>}
        <4>1. cmdPc' = "switch" /\ cmdNext' = e + 1
          BY <2>1, <3>4
        <4>2. \A name \in {"vocality", "kaslr"} : \A k, n :
                Pair(name, k, n) => k < cmdNext \/ e + 1 <= k
          <5>1. \A name \in {"vocality", "kaslr"} : \A k, n :
                  Pair(name, k, n) /\ h <= k => e + 1 <= k
            BY <1>1, <2>e, <2>1, <2>3, <3>1, <3>4, PassedOver
          <5> QED
            BY <3>1, <5>1
        <4>3. e + 1 \in Nat /\ cmdNext <= e + 1 /\ cmdNext \in Nat /\ e + 1 - 1 = e
          BY <1>1, <2>3, <2>5
        <4>4. ReadTo(e + 1, vocality, kaslr)
          BY <1>1, <3>2, <4>2, <4>3, ReadSame
        <4>5. ReadTo(cmdNext, vocality, kaslr)'
          BY <1>2, <4>1, <4>4, LineStays
        <4>6. (~Cmd!InToken(cmdNext - 1))'
          BY <1>2, <2>5, <4>1, <4>3, LineStays
        <4> QED
          BY <1>3, <2>6, <4>1, <4>5, <4>6 DEF SwitchesRead
      <3> QED
        BY <3>3, <3>4
    <2> QED
      BY <2>7, <2>8
  <1> QED
    BY <1>4, <1>5

\* Behind a switch of a well-formed line the value is the next word.
LEMMA ValueFound ==
  ASSUME LineTyped, Cmd!WellFormed, NEW h \in Cmd!Starts, NEW name,
         Cmd!TokenAt(h) = <<"-", name>>
  PROVE  \E n \in Cmd!Starts :
           /\ Pair(name, h, n) /\ cmd[n] # "-"
           /\ Cmd!First({p \in Cmd!TokenEnd(h) .. Len(cmd) : Cmd!Letter(p)}) = n
  <1>1. h \in Nat \ {0} /\ h < Cmd!End /\ Cmd!InToken(h)
    BY StartsAre
  <1>2. Len(cmd) \in Nat /\ Cmd!End = Len(cmd) + 1
    BY DEF LineTyped
  <1> DEFINE e == Cmd!TokenEnd(h)
             T == {p \in e .. Len(cmd) : Cmd!Letter(p)}
  <1>3. e \in Nat /\ e >= h /\ ~Cmd!InToken(e) /\ \A m \in h .. e - 1 : Cmd!InToken(m)
    BY <1>1, TokenEnds
  <1> HIDE DEF e
  <1>4. cmd[h] = "-"
    <2>1. Cmd!TokenEnd(h) - h = 2
      BY <1>1, TokenIs
    <2>2. Cmd!TokenAt(h)[1] = cmd[h + 1 - 1]
      <3>1. 1 \in 1 .. Cmd!TokenEnd(h) - h
        BY <2>1
      <3> QED
        BY <1>1, <3>1, TokenIs
    <2>3. h + 1 - 1 = h
      BY <1>1
    <2> QED
      BY <2>2, <2>3
  <1>5. PICK n \in Cmd!Starts : n > h /\ cmd[n] # "-" /\ \A m \in Cmd!Starts : m <= h \/ m >= n
    BY <1>4 DEF Cmd!WellFormed
  <1>6. n \in Nat \ {0} /\ n < Cmd!End /\ Cmd!InToken(n) /\ (n = 1 \/ ~Cmd!InToken(n - 1))
    BY <1>5, StartsAre DEF Cmd!Starts
  <1>7. Pair(name, h, n)
    BY <1>5, <1>6 DEF Pair
  <1>8. n >= e
    <2> SUFFICES ASSUME ~(n >= e) PROVE FALSE
      OBVIOUS
    <2>1. n - 1 \in h .. e - 1 /\ n # 1
      BY <1>1, <1>3, <1>5, <1>6
    <2> QED
      BY <1>3, <1>6, <2>1
  <1>9. n \in T
    <2>1. n \in e .. Len(cmd)
      BY <1>2, <1>3, <1>6, <1>8
    <2> QED
      BY <1>5, <1>6, <2>1 DEF Cmd!Letter
  <1>10. ASSUME NEW p \in T PROVE ~(p < n)
    <2> SUFFICES ASSUME p < n PROVE FALSE
      OBVIOUS
    <2>1. p \in Nat /\ p >= e /\ Cmd!InToken(p)
      BY <1>3 DEF Cmd!Letter
    <2>2. p > e /\ e \in Nat \ {0}
      BY <1>1, <1>3, <2>1
    <2>3. PICK s \in Cmd!Starts : e < s /\ s <= p
      BY <1>3, <2>1, <2>2, NextStarts
    <2>4. s \in Nat
      BY <2>3, StartsAre
    <2>5. s <= h \/ s >= n
      BY <1>5, <2>3
    <2> QED
      BY <1>1, <1>3, <1>6, <2>1, <2>3, <2>4, <2>5
  <1>11. T \subseteq Nat
    BY <1>3
  <1> HIDE DEF T
  <1>12. Cmd!First(T) \in T /\ Cmd!First(T) <= n
    BY <1>9, <1>11, FirstIs
  <1>13. Cmd!First(T) = n
    <2>1. ~(Cmd!First(T) < n) /\ Cmd!First(T) \in Nat
      BY <1>10, <1>11, <1>12
    <2> QED
      BY <1>6, <1>12, <2>1
  <1> QED
    BY <1>5, <1>7, <1>13 DEF T, e

\* Reading a value adds it to what the line says, and nothing else.
LEMMA ValueAdds ==
  ASSUME LineTyped, NEW name \in {"vocality", "kaslr"}, NEW h, NEW n, Pair(name, h, n),
         cmd[n] # "-", Closed(h), NEW c, c = Cmd!TokenEnd(n) + 1
  PROVE  /\ Closed(c)
         /\ \A other \in {"vocality", "kaslr"} : \A m :
              m \in Cmd!Given(other) /\ m < c
                <=> (m \in Cmd!Given(other) /\ m < h) \/ (m = n /\ other = name)
  <1>1. /\ h \in Nat \ {0} /\ n \in Nat \ {0} /\ h < n /\ h \in Cmd!Starts /\ n \in Cmd!Starts
        /\ cmd[h] = "-" /\ cmd[h + 1] = name
    BY PairsAre
  <1>2. \A m \in Cmd!Starts : m <= h \/ m >= n
    BY DEF Pair
  <1> DEFINE e == Cmd!TokenEnd(n)
  <1>3. e \in Nat /\ e >= n /\ ~Cmd!InToken(e) /\ \A m \in n .. e - 1 : Cmd!InToken(m)
    BY <1>1, TokenEnds
  <1> HIDE DEF e
  <1>4. c = e + 1
    BY DEF e
  <1>5. ASSUME NEW other \in {"vocality", "kaslr"}, NEW k, NEW m, Pair(other, k, m), k < c
        PROVE  (k < h /\ m < h) \/ (k = h /\ m = n /\ other = name)
    <2>1. /\ k \in Nat \ {0} /\ m \in Nat \ {0} /\ k < m /\ k \in Cmd!Starts /\ m \in Cmd!Starts
          /\ cmd[k] = "-" /\ cmd[k + 1] = other
      BY <1>5, PairsAre
    <2>2. CASE k < h
      <3>1. m < h
        BY <1>5, <2>1, <2>2 DEF Closed
      <3> QED
        BY <2>2, <3>1
    <2>3. CASE k = h
      <3>1. m >= n
        BY <1>1, <1>2, <2>1, <2>3
      <3>2. n <= k \/ n >= m
        BY <1>1, <1>5 DEF Pair
      <3>3. m = n
        BY <1>1, <2>1, <2>3, <3>1, <3>2
      <3> QED
        BY <1>1, <2>1, <2>3, <3>3
    <2>4. CASE ~(k < h) /\ k # h
      <3>1. k >= n
        BY <1>1, <1>2, <2>1, <2>4
      <3>2. k # n
        BY <2>1
      <3>3. k # e /\ (k = 1 \/ ~Cmd!InToken(k - 1))
        BY <1>3, <2>1, StartsAre DEF Cmd!Starts
      <3>4. k - 1 \in n .. e - 1 /\ k # 1
        BY ONLY <1>1, <1>3, <1>4, <1>5, <2>1, <3>1, <3>2, <3>3
      <3> QED
        BY <1>3, <3>3, <3>4
    <2> QED
      BY <2>2, <2>3, <2>4
  <1>6. h < c /\ n < c /\ c \in Nat
    BY <1>1, <1>3, <1>4
  <1>7. Closed(c)
    <2> SUFFICES ASSUME NEW other \in {"vocality", "kaslr"}, NEW k \in Cmd!Starts,
                        NEW m \in Cmd!Starts, Pair(other, k, m), k < c
                 PROVE  m < c
      BY DEF Closed
    <2>1. m \in Nat
      BY StartsAre
    <2> QED
      BY <1>1, <1>5, <1>6, <2>1
  <1>8. ASSUME NEW other \in {"vocality", "kaslr"}, NEW m
        PROVE  m \in Cmd!Given(other) /\ m < c
                 <=> (m \in Cmd!Given(other) /\ m < h) \/ (m = n /\ other = name)
    <2>1. ASSUME m \in Cmd!Given(other), m < c
          PROVE  m < h \/ (m = n /\ other = name)
      <3>1. PICK k : Pair(other, k, m)
        BY <2>1, PairsAre
      <3>2. k \in Nat /\ m \in Nat /\ k < m
        BY <3>1, PairsAre
      <3>3. k < c
        BY <1>6, <2>1, <3>2
      <3> QED
        BY <1>5, <3>1, <3>3
    <2>2. ASSUME m \in Cmd!Given(other), m < h
          PROVE  m < c
      <3>1. m \in Nat
        BY <2>2, PairsAre
      <3> QED
        BY <1>1, <1>6, <2>2, <3>1
    <2>3. n \in Cmd!Given(name)
      BY PairsAre
    <2> QED
      BY <1>6, <2>1, <2>2, <2>3
  <1> QED
    BY <1>7, <1>8

LEMMA ValueReads ==
  ASSUME SwitchesRead, Cmd!Value
  PROVE  SwitchesRead'
  <1>1. /\ LineTyped /\ kaslr \in BOOLEAN /\ cmdNext \in Nat \ {0} /\ cmdPc = "value"
        /\ Cmd!WellFormed => \E h \in Cmd!Starts : AtSwitch(h) /\ ReadTo(h, vocality, kaslr)
    BY DEF SwitchesRead, Cmd!Value
  <1>k. PICK k : k = Cmd!First({p \in cmdNext .. Len(cmd) : Cmd!Letter(p)})
    OBVIOUS
  <1>c. PICK c : c = Cmd!TokenEnd(k) + 1
    OBVIOUS
  <1>2. /\ cmd' = cmd /\ token' = token /\ cmdPc' = "switch" /\ cmdNext' = c
        /\ IF token = <<"vocality">>
           THEN /\ vocality' = IF Cmd!TokenAt(k) \in Vocalities THEN Cmd!TokenAt(k) ELSE vocality
                /\ kaslr' = kaslr
           ELSE /\ kaslr' = (kaslr \/ Cmd!TokenAt(k) = <<"enable">>)
                /\ vocality' = vocality
    BY <1>k, <1>c DEF Cmd!Value
  <1>3. LineTyped' /\ kaslr' \in BOOLEAN
    <2>1. LineTyped'
      BY <1>1, <1>2, LineStays
    <2>2. kaslr' \in BOOLEAN
      BY <1>1, <1>2
    <2> QED
      BY <2>1, <2>2
  <1>4. k \in Nat \ {0}
    <2> DEFINE T == {p \in cmdNext .. Len(cmd) : Cmd!Letter(p)}
    <2>1. T \subseteq Nat \ {0}
      BY <1>1 DEF LineTyped
    <2>2. T \subseteq Nat
      BY <2>1
    <2> HIDE DEF T
    <2>3. k = Cmd!First(T)
      BY <1>k DEF T
    <2>4. k = Cmd!End + 1 \/ k \in T
      BY <2>2, <2>3, FirstIs
    <2>5. Cmd!End \in Nat
      BY <1>1 DEF LineTyped
    <2>6. CASE k = Cmd!End + 1
      BY <2>5, <2>6
    <2>7. CASE k \in T
      BY <2>1, <2>7
    <2> QED
      BY <2>4, <2>6, <2>7
  <1>5. Cmd!TokenEnd(k) \in Nat /\ ~Cmd!InToken(Cmd!TokenEnd(k))
    BY <1>1, <1>4, TokenEnds
  <1>6. c \in Nat \ {0} /\ c - 1 = Cmd!TokenEnd(k)
    BY <1>c, <1>5
  <1>7. CASE ~Cmd!WellFormed
    <2>1. ~Cmd!WellFormed'
      BY <1>2, <1>7, LineStays
    <2> QED
      BY <1>2, <1>3, <1>6, <2>1 DEF SwitchesRead
  <1>8. CASE Cmd!WellFormed
    <2>1. PICK h \in Cmd!Starts : AtSwitch(h) /\ ReadTo(h, vocality, kaslr)
      BY <1>1, <1>8
    <2>n. PICK name \in {"vocality", "kaslr"} : token = <<name>>
      BY <2>1 DEF AtSwitch
    <2>2. Cmd!TokenAt(h) = <<"-", name>> /\ cmdNext = Cmd!TokenEnd(h)
      BY <2>1, <2>n DEF AtSwitch
    <2>3. Pair(name, h, k) /\ cmd[k] # "-"
      BY <1>1, <1>8, <1>k, <2>2, ValueFound
    <2>4. Closed(h) /\ LevelTo(h, vocality) /\ EnabledTo(h, kaslr)
      BY <2>1 DEF ReadTo
    <2>5. /\ Closed(c)
          /\ \A other \in {"vocality", "kaslr"} : \A m :
               m \in Cmd!Given(other) /\ m < c
                 <=> (m \in Cmd!Given(other) /\ m < h) \/ (m = k /\ other = name)
      BY <1>1, <1>c, <2>3, <2>4, ValueAdds
    <2>6. h \in Nat /\ h < k /\ k \in Cmd!Given(name)
      BY <1>1, <2>3, PairsAre
    <2>7. ASSUME name = "vocality"
          PROVE  ReadTo(c, vocality', kaslr')
      <3>1. /\ vocality' = IF Cmd!TokenAt(k) \in Vocalities THEN Cmd!TokenAt(k) ELSE vocality
            /\ kaslr' = kaslr
        BY <1>2, <2>n, <2>7
      <3>2. EnabledTo(c, kaslr)
        <4>1. \A m : m \in Cmd!Given("kaslr") /\ m < c <=> m \in Cmd!Given("kaslr") /\ m < h
          BY <2>5, <2>7
        <4> QED
          BY <2>4, <4>1, Zenon DEF EnabledTo
      <3>3. CASE Cmd!TokenAt(k) \in Vocalities
        <4>1. \A m : m \in LevelsTo(c) <=> m \in LevelsTo(h) \/ m = k
          BY <2>5, <2>6, <2>7, <3>3 DEF LevelsTo
        <4>2. \A m \in LevelsTo(c) : m <= k
          <5>1. \A m \in LevelsTo(h) : m \in Nat /\ m < h
            BY <1>1, PairsAre DEF LevelsTo
          <5> QED
            BY <1>4, <2>6, <4>1, <5>1
        <4>3. LevelTo(c, vocality')
          <5>1. k \in LevelsTo(c) /\ vocality' = Cmd!TokenAt(k)
            BY <3>1, <3>3, <4>1
          <5> QED
            BY <4>2, <5>1 DEF LevelTo
        <4> QED
          BY <2>5, <3>1, <3>2, <4>3 DEF ReadTo
      <3>4. CASE Cmd!TokenAt(k) \notin Vocalities
        <4>1. LevelsTo(c) = LevelsTo(h)
          BY <2>5, <3>4 DEF LevelsTo
        <4>2. LevelTo(c, vocality')
          BY <2>4, <3>1, <3>4, <4>1 DEF LevelTo
        <4> QED
          BY <2>5, <3>1, <3>2, <4>2 DEF ReadTo
      <3> QED
        BY <3>3, <3>4
    <2>8. ASSUME name = "kaslr"
          PROVE  ReadTo(c, vocality', kaslr')
      <3>1. kaslr' = (kaslr \/ Cmd!TokenAt(k) = <<"enable">>) /\ vocality' = vocality
        <4>1. <<"kaslr">> # <<"vocality">>
          OBVIOUS
        <4> QED
          BY <1>2, <2>n, <2>8, <4>1
      <3>2. LevelTo(c, vocality)
        <4>1. LevelsTo(c) = LevelsTo(h)
          BY <2>5, <2>8 DEF LevelsTo
        <4> QED
          BY <2>4, <4>1 DEF LevelTo
      <3>3. EnabledTo(c, kaslr')
        <4>1. \A m : m \in Cmd!Given("kaslr") /\ m < c
                       <=> (m \in Cmd!Given("kaslr") /\ m < h) \/ m = k
          BY <2>5, <2>8
        <4>2. k \in Cmd!Given("kaslr") /\ k < c
          BY <4>1
        <4> QED
          BY <2>4, <3>1, <4>1, <4>2, Zenon DEF EnabledTo
      <3> QED
        BY <2>5, <3>1, <3>2, <3>3 DEF ReadTo
    <2>9. ReadTo(c, vocality', kaslr')
      BY <2>7, <2>8
    <2>10. ReadTo(cmdNext, vocality, kaslr)'
      <3>v. PICK v : v = vocality'
        OBVIOUS
      <3>x. PICK x : x = kaslr'
        OBVIOUS
      <3>1. ReadTo(c, v, x)'
        BY <1>2, <2>9, <3>v, <3>x, LineStays
      <3> QED
        BY <1>2, <3>1, <3>v, <3>x
    <2>11. (~Cmd!InToken(cmdNext - 1))'
      <3>1. ~Cmd!InToken(c - 1)'
        BY <1>2, <1>5, <1>6, LineStays
      <3> QED
        BY <1>2, <3>1
    <2> QED
      BY <1>2, <1>3, <1>6, <2>10, <2>11 DEF SwitchesRead
  <1> QED
    BY <1>7, <1>8

\* What is done with the command line is done in a step of its module.
LEMMA CmdSteps ==
  [Next]_vars => Cmd!Next \/ UNCHANGED cmdVars
  BY DEF Next, Thread, ParseCmd, MemoryInit, KeyboardInit, PciInit, Handle,
         Proceed, Enter, Hardware, PressKey, Offer, Interrupt, Ended, vars

\* For every line like those of limine.conf: the last level given on it holds,
\* and randomization is on only if some switch enables it, and is if none
\* disables it further behind.
THEOREM SwitchesTaken == Spec => []SwitchesHold
  <1>1. Init => SwitchesRead
    <2> SUFFICES ASSUME Init PROVE SwitchesRead
      OBVIOUS
    <2>1. /\ cmd \in CommandLines /\ cmdNext = 1
          /\ cmdPc = IF cmd = <<>> THEN "done" ELSE "switch"
          /\ vocality = <<"normal">> /\ kaslr = FALSE
      BY DEF Init, Cmd!Init
    <2>2. cmd \in Seq(STRING)
      BY <2>1, BootAssumption DEF Cmd!CommandLineAssumption
    <2>3. LineTyped
      BY <2>2, LinesTyped
    <2>4. \A name : \A k, n : Pair(name, k, n) => k \in Nat \ {0} /\ n \in Nat \ {0} /\ k < n
      BY <2>3, PairsAre
    <2>5. \A name : \A n : n \in Cmd!Given(name) => n \in Nat \ {0} /\ ~(n < 1)
      BY <2>3, <2>4, PairsAre
    <2>6. ReadTo(1, vocality, kaslr)
      <3>1. Closed(1)
        BY <2>4 DEF Closed
      <3>2. LevelsTo(1) = {}
        BY <2>5 DEF LevelsTo
      <3>3. EnabledTo(1, kaslr)
        BY <2>1, <2>5 DEF EnabledTo
      <3> QED
        BY <2>1, <3>1, <3>2, <3>3 DEF ReadTo, LevelTo
    <2>7. cmdPc = "done" => Cmd!End = 1
      BY <2>1 DEF Cmd!End
    <2>8. cmdPc = "done" => \E b \in Nat : b >= Cmd!End /\ ReadTo(b, vocality, kaslr)
      BY <2>6, <2>7
    <2>9. ReadTo(cmdNext, vocality, kaslr)
      BY <2>1, <2>6
    <2>10. cmdPc \in {"switch", "value", "done"} /\ cmdPc # "value"
      BY <2>1
    <2>11. kaslr \in BOOLEAN
      BY <2>1
    <2>12. cmdNext \in Nat \ {0} /\ cmdNext = 1
      BY <2>1
    <2> QED
      BY <2>3, <2>11, <2>12, <2>8, <2>9, <2>10 DEF SwitchesRead
  <1>2. SwitchesRead /\ [Next]_vars => SwitchesRead'
    <2> SUFFICES ASSUME SwitchesRead, [Next]_vars
                 PROVE  SwitchesRead'
      OBVIOUS
    <2>1. CASE UNCHANGED cmdVars
      <3>1. /\ cmd' = cmd /\ cmdNext' = cmdNext /\ cmdPc' = cmdPc /\ token' = token
            /\ vocality' = vocality /\ kaslr' = kaslr
        BY <2>1 DEF cmdVars
      <3>2. \A h : AtSwitch(h)' = AtSwitch(h)
        BY <3>1, LineStays DEF AtSwitch
      <3>3. \A b : ReadTo(b, vocality, kaslr)' = ReadTo(b, vocality, kaslr)
        <4>v. PICK v : v = vocality
          OBVIOUS
        <4>x. PICK x : x = kaslr
          OBVIOUS
        <4>1. \A b : ReadTo(b, v, x)' = ReadTo(b, v, x)
          BY <3>1, LineStays
        <4> QED
          BY <3>1, <4>1, <4>v, <4>x
      <3>4. ReadTo(cmdNext, vocality, kaslr)' = ReadTo(cmdNext, vocality, kaslr)
        <4>i. PICK j : j = cmdNext
          OBVIOUS
        <4>1. ReadTo(j, vocality, kaslr)' = ReadTo(j, vocality, kaslr)
          BY <3>3
        <4> QED
          BY <3>1, <4>i, <4>1
      <3>5. Cmd!InToken(cmdNext - 1)' = Cmd!InToken(cmdNext - 1)
        BY <3>1 DEF Cmd!InToken, Cmd!End
      <3> QED
        BY <3>1, <3>2, <3>3, <3>4, <3>5, LineStays DEF SwitchesRead
    <2> QED
      BY <2>1, CmdSteps, SwitchReads, ValueReads DEF Cmd!Next
  <1>3. SwitchesRead => SwitchesHold
    <2> SUFFICES ASSUME SwitchesRead, cmdPc = "done", Cmd!WellFormed
                 PROVE  SwitchesHold
      BY DEF SwitchesHold, Cmd!LastLevelHolds, Cmd!EnabledHolds
    <2>1. PICK b \in Nat : b >= Cmd!End /\ ReadTo(b, vocality, kaslr)
      BY DEF SwitchesRead
    <2>2. LineTyped
      BY DEF SwitchesRead
    <2>3. \A name : \A n \in Cmd!Given(name) : n < b
      <3> SUFFICES ASSUME NEW name, NEW n \in Cmd!Given(name) PROVE n < b
        OBVIOUS
      <3>1. n \in Cmd!Starts
        BY DEF Cmd!Given
      <3>2. n \in Nat /\ n < Cmd!End
        BY <2>2, <3>1, StartsAre
      <3> QED
        BY <2>1, <2>2, <3>2 DEF LineTyped
    <2>4. LevelsTo(b) = {n \in Cmd!Given("vocality") : Cmd!TokenAt(n) \in Vocalities}
      BY <2>3 DEF LevelsTo
    <2>5. Cmd!LastLevelHolds
      BY <2>1, <2>4 DEF Cmd!LastLevelHolds, ReadTo, LevelTo
    <2>6. Cmd!EnabledHolds
      <3>1. kaslr <=> \E n \in Cmd!Given("kaslr") : Cmd!TokenAt(n) = <<"enable">>
        BY <2>1, <2>3, Zenon DEF ReadTo, EnabledTo
      <3>2. kaslr <=> {n \in Cmd!Given("kaslr") : Cmd!TokenAt(n) = <<"enable">>} # {}
        BY <3>1
      <3> QED
        BY <3>2, Zenon DEF Cmd!EnabledHolds
    <2> QED
      BY <2>5, <2>6 DEF SwitchesHold
  <1> QED
    BY <1>1, <1>2, <1>3, PTL DEF Spec

-----------------------------------------------------------------------------
(* The bus.                                                                 *)

\* The members of s among its first n that are in kinds.
CountIn(s, kinds, n) == Cardinality({k \in 1 .. n : s[k] \in kinds})

LEMMA CountInNat ==
  ASSUME NEW s, NEW kinds, NEW n \in Nat
  PROVE  /\ CountIn(s, kinds, n) \in Nat
         /\ IsFiniteSet({k \in 1 .. n : s[k] \in kinds})
  <1>1. IsFiniteSet(1 .. n)
    BY FS_Interval
  <1>2. IsFiniteSet({k \in 1 .. n : s[k] \in kinds})
    BY <1>1, FS_Subset
  <1> QED
    BY <1>2, FS_CardinalityType DEF CountIn

LEMMA CountNone ==
  ASSUME NEW s, NEW kinds
  PROVE  CountIn(s, kinds, 0) = 0
  <1>1. {k \in 1 .. 0 : s[k] \in kinds} = {}
    OBVIOUS
  <1> QED
    BY <1>1, FS_EmptySet DEF CountIn

\* One more is counted if it is of the kinds.
LEMMA CountNext ==
  ASSUME NEW s, NEW kinds, NEW n \in Nat
  PROVE  /\ s[n + 1] \in kinds => CountIn(s, kinds, n + 1) = CountIn(s, kinds, n) + 1
         /\ s[n + 1] \notin kinds => CountIn(s, kinds, n + 1) = CountIn(s, kinds, n)
  <1> DEFINE S(m) == {k \in 1 .. m : s[k] \in kinds}
  <1>1. IsFiniteSet(S(n))
    BY CountInNat
  <1>2. n + 1 \notin S(n)
    OBVIOUS
  <1>3. CASE s[n + 1] \in kinds
    <2>1. S(n + 1) = S(n) \cup {n + 1}
      BY <1>3
    <2>2. /\ CountIn(s, kinds, n + 1) = Cardinality(S(n + 1))
          /\ CountIn(s, kinds, n) = Cardinality(S(n))
      BY DEF CountIn
    <2> HIDE DEF S
    <2>3. Cardinality(S(n) \cup {n + 1}) = Cardinality(S(n)) + 1
      BY <1>1, <1>2, FS_AddElement
    <2>4. CountIn(s, kinds, n + 1) = CountIn(s, kinds, n) + 1
      BY ONLY <2>1, <2>2, <2>3
    <2> QED
      BY <1>3, <2>4
  <1>4. CASE s[n + 1] \notin kinds
    <2>1. S(n + 1) = S(n)
      BY <1>4
    <2> QED
      BY <1>4, <2>1, CountInNat DEF CountIn
  <1> QED
    BY <1>3, <1>4

\* What comes behind is not counted.
LEMMA CountSame ==
  ASSUME NEW s, NEW t, NEW kinds, NEW n \in Nat, \A k \in 1 .. n : s[k] = t[k]
  PROVE  CountIn(s, kinds, n) = CountIn(t, kinds, n)
  <1>1. {k \in 1 .. n : s[k] \in kinds} = {k \in 1 .. n : t[k] \in kinds}
    OBVIOUS
  <1> QED
    BY <1>1 DEF CountIn

\* A member that is counted has a number.
LEMMA CountedIs ==
  ASSUME NEW s, NEW kinds, NEW n \in Nat, NEW k \in 1 .. n, s[k] \in kinds
  PROVE  CountIn(s, kinds, k) \in 1 .. CountIn(s, kinds, n)
  <1> DEFINE S(m) == {j \in 1 .. m : s[j] \in kinds}
  <1>0. k \in Nat
    OBVIOUS
  <1>1. IsFiniteSet(S(n)) /\ IsFiniteSet(S(k))
    BY <1>0, CountInNat
  <1>2. S(k) \subseteq S(n) /\ S(k) # {}
    OBVIOUS
  <1>3. Cardinality(S(k)) <= Cardinality(S(n)) /\ Cardinality(S(k)) # 0
    <2> HIDE DEF S
    <2> QED
      BY <1>1, <1>2, FS_Subset, FS_EmptySet
  <1>4. CountIn(s, kinds, k) \in Nat /\ CountIn(s, kinds, n) \in Nat
    BY <1>0, CountInNat
  <1> QED
    BY <1>3, <1>4 DEF CountIn

\* A vector whose elements are in E and whose blocks have this name.
VectorOf(v, name, E) ==
  /\ v.len \in Nat /\ v.len <= Len(v.mem) /\ v.mem \in Seq(E)
  /\ v = [data |-> v.data, len |-> v.len, mem |-> v.mem]
  /\ v.data \in {name} \X (1 .. NFunctions) \cup {Null}
  /\ (v.data = Null) = (v.mem = <<>>)

LEMMA BlocksNotNull ==
  ASSUME NEW name \in {"devices", "disks"}, NEW n \in 1 .. NFunctions
  PROVE  <<name, n>> # Null
  <1>1. <<name, n>> \in {"devices", "disks"} \X (1 .. NFunctions)
    OBVIOUS
  <1> QED
    BY <1>1, BootAssumption DEF Bus!PciAssumption

\* A push adds an element and leaves the others, in the block the vector has
\* or in one it takes here.
Grown(w, v, name, E) ==
  /\ VectorOf(w, name, E) /\ w.data # Null /\ w.len = v.len + 1
  /\ w.data \in {v.data, <<name, Bus!Here>>}
  /\ \A k \in 1 .. v.len : w.mem[k] = v.mem[k]

\* A push without room takes a larger block, or makes its own larger.
Moved(w, v, name, raws, builts) ==
  \E block \in {v.data, <<name, Bus!Here>>}, mem \in Bus!Extended(v.mem, raws, builts) :
    w = [data |-> block, len |-> v.len + 1, mem |-> mem]

LEMMA PushMoves ==
  ASSUME NEW v, NEW name, NEW raws, NEW builts, NEW w \in Bus!Pushed(v, name, raws, builts),
         v.data # Null, ~(v.len < Len(v.mem))
  PROVE  Moved(w, v, name, raws, builts)
  BY DEF Moved, Bus!Pushed

\* Unwritten memory is a sequence of elements.
LEMMA UnwrittenIs ==
  ASSUME NEW E, NEW raws \in SUBSET E, NEW n \in Nat, NEW mem \in Bus!Unwritten(raws, n)
  PROVE  mem \in Seq(E) /\ Len(mem) \in Nat /\ Len(mem) >= n
  <1>1. PICK extra \in 0 .. Slack : mem \in [1 .. n + extra -> raws]
    BY DEF Bus!Unwritten
  <1>2. Slack \in Nat
    BY BootAssumption DEF Bus!PciAssumption
  <1>3. n + extra \in Nat /\ n + extra >= n
    BY <1>2
  <1>4. mem \in [1 .. n + extra -> E]
    BY <1>1
  <1> QED
    BY <1>3, <1>4

LEMMA PushGrows ==
  ASSUME NEW E, NEW name \in {"devices", "disks"}, NEW v, VectorOf(v, name, E),
         NEW raws \in SUBSET E, NEW builts \in SUBSET E,
         Len(seen) \in Nat, Len(seen) < NFunctions,
         NEW w \in Bus!Pushed(v, name, raws, builts)
  PROVE  Grown(w, v, name, E)
  <1>1. /\ v.len \in Nat /\ v.len <= Len(v.mem) /\ v.mem \in Seq(E) /\ Len(v.mem) \in Nat
        /\ v = [data |-> v.data, len |-> v.len, mem |-> v.mem]
        /\ v.data \in {name} \X (1 .. NFunctions) \cup {Null}
        /\ (v.data = Null) = (v.mem = <<>>)
    BY DEF VectorOf
  <1>2. NFunctions \in Nat
    BY BootAssumption DEF Bus!PciAssumption
  <1>3. Bus!Here \in 1 .. NFunctions
    BY <1>2 DEF Bus!Here
  <1>4. <<name, Bus!Here>> # Null /\ <<name, Bus!Here>> \in {name} \X (1 .. NFunctions)
    BY <1>3, BlocksNotNull
  <1>6. CASE v.data = Null
    <2>1. PICK mem \in Bus!Unwritten(raws, 1) :
            w = [data |-> <<name, Bus!Here>>, len |-> 1, mem |-> mem]
      BY <1>6 DEF Bus!Pushed
    <2>2. v.mem = <<>> /\ v.len = 0
      BY <1>1, <1>6
    <2>3. mem \in Seq(E) /\ Len(mem) \in Nat /\ Len(mem) >= 1
      BY UnwrittenIs
    <2>4. w.mem = mem /\ w.mem # <<>> /\ w.len = 1 /\ w.data = <<name, Bus!Here>>
      BY <2>1, <2>3
    <2> QED
      BY <1>4, <2>1, <2>2, <2>3, <2>4 DEF Grown, VectorOf
  <1>7. CASE v.data # Null /\ v.len < Len(v.mem)
    <2>1. w = [v EXCEPT !.len = @ + 1]
      BY <1>7 DEF Bus!Pushed
    <2>2. w = [data |-> v.data, len |-> v.len + 1, mem |-> v.mem]
      BY <1>1, <2>1
    <2>3. w.data = v.data /\ w.len = v.len + 1 /\ w.mem = v.mem
      BY <2>2
    <2>4. w.len \in Nat /\ w.len <= Len(w.mem)
      BY <1>1, <1>7, <2>3
    <2>5. VectorOf(w, name, E)
      BY <1>1, <2>2, <2>3, <2>4 DEF VectorOf
    <2> QED
      BY <1>1, <1>7, <2>3, <2>5 DEF Grown
  <1>8. CASE v.data # Null /\ ~(v.len < Len(v.mem))
    <2>m. PICK block \in {v.data, <<name, Bus!Here>>}, mem \in Bus!Extended(v.mem, raws, builts) :
            w = [data |-> block, len |-> v.len + 1, mem |-> mem]
      <3>1. Moved(w, v, name, raws, builts)
        BY <1>8, PushMoves
      <3> QED
        BY ONLY <3>1 DEF Moved
    <2>1. PICK built \in builts, rest \in Bus!Unwritten(raws, 0) :
            mem = Append(v.mem, built) \o rest
      BY ONLY <2>m DEF Bus!Extended
    <2>2. v.len = Len(v.mem)
      BY <1>1, <1>8
    <2> DEFINE a == Append(v.mem, built)
    <2>3. a \in Seq(E) /\ Len(a) = v.len + 1 /\ \A k \in 1 .. v.len : a[k] = v.mem[k]
      BY <1>1, <2>2
    <2>4. rest \in Seq(E) /\ Len(rest) \in Nat
      BY UnwrittenIs
    <2> HIDE DEF a
    <2>5. /\ a \o rest \in Seq(E) /\ Len(a \o rest) = v.len + 1 + Len(rest)
          /\ \A k \in 1 .. v.len + 1 : (a \o rest)[k] = a[k]
      BY <2>3, <2>4
    <2>6. w.data = block /\ w.len = v.len + 1 /\ w.mem = a \o rest
      BY <2>m, <2>1 DEF a
    <2>7. block \in {name} \X (1 .. NFunctions) /\ block # Null
      BY <1>1, <1>4, <1>8
    <2>8. w.mem # <<>> /\ w.len \in Nat /\ w.len <= Len(w.mem)
      BY <1>1, <2>4, <2>5, <2>6
    <2>9. VectorOf(w, name, E)
      BY <2>m, <2>5, <2>6, <2>7, <2>8 DEF VectorOf
    <2>10. \A k \in 1 .. v.len : w.mem[k] = v.mem[k]
      BY <1>1, <2>3, <2>5, <2>6
    <2> QED
      BY <2>6, <2>7, <2>9, <2>10 DEF Grown
  <1> QED
    BY <1>6, <1>7, <1>8

\* u is v with e as its next element, whether that was kept or taken back.
Entered(u, v, name, E, e, n) ==
  /\ VectorOf(u, name, E)
  /\ \A k \in 1 .. v.len : u.mem[k] = v.mem[k]
  /\ u.mem[v.len + 1] = e /\ u.len = n

\* The entry a push added is set; the AHCI controller's is taken back.
LEMMA EntrySet ==
  ASSUME NEW E, NEW name, NEW v, NEW w, VectorOf(v, name, E), Grown(w, v, name, E),
         NEW e \in E, NEW n \in {w.len, w.len - 1}, NEW u,
         u = [data |-> w.data, len |-> n, mem |-> [w.mem EXCEPT ![w.len] = e]]
  PROVE  Entered(u, v, name, E, e, n)
  <1>1. /\ w.len = v.len + 1 /\ v.len \in Nat /\ w.len \in Nat
        /\ w.mem \in Seq(E) /\ w.len <= Len(w.mem) /\ Len(w.mem) \in Nat
        /\ w.data \in {name} \X (1 .. NFunctions) \cup {Null} /\ w.data # Null
    BY DEF Grown, VectorOf
  <1>2. u.data = w.data /\ u.len = n /\ u.mem = [w.mem EXCEPT ![w.len] = e]
    OBVIOUS
  <1>3. /\ u.mem \in Seq(E) /\ Len(u.mem) = Len(w.mem) /\ u.mem[w.len] = e
        /\ \A k \in 1 .. Len(w.mem) : k # w.len => u.mem[k] = w.mem[k]
    BY <1>1, <1>2
  <1>4. u.mem # <<>>
    BY <1>1, <1>3
  <1>5. u.len \in Nat /\ u.len <= Len(u.mem)
    BY <1>1, <1>2, <1>3
  <1>6. VectorOf(u, name, E)
    BY <1>1, <1>2, <1>3, <1>4, <1>5 DEF VectorOf
  <1>7. \A k \in 1 .. v.len : u.mem[k] = v.mem[k]
    BY <1>1, <1>3 DEF Grown
  <1> QED
    BY <1>1, <1>2, <1>3, <1>6, <1>7 DEF Entered

\* What the vectors hold.
Names == {"raw", "undefined", "unknown", "disk"} \cup Bus!DiskKinds \cup Bus!OtherKinds
PtrSet == {"raw", Null} \cup (({"disks"} \X (1 .. NFunctions)) \X Nat)
DeviceSet == [type : Names, ptr : PtrSet, allocated : {"raw", FALSE}]
DiskSet == [connect : Names, discovery : Nat, type : Names]

\* The entries of v are those of the functions s.
ListedIn(s, v) ==
  /\ v.len = CountIn(s, Bus!Shown, Len(s))
  /\ \A k \in 1 .. Len(s) :
       s[k] \in Bus!Shown =>
         v.mem[CountIn(s, Bus!Shown, k)].type = IF s[k] \in Bus!DiskKinds THEN "disk" ELSE s[k]

\* The disks d go with the entries of v.
PairedIn(s, v, d) ==
  /\ d.len = CountIn(s, Bus!DiskKinds, Len(s))
  /\ \A k \in 1 .. Len(s) :
       s[k] \in Bus!DiskKinds =>
         /\ v.mem[CountIn(s, Bus!Shown, k)].ptr[2] = CountIn(s, Bus!DiskKinds, k)
         /\ \/ v.mem[CountIn(s, Bus!Shown, k)].ptr[1] = d.data
            \/ d.data[2] > k
         /\ d.mem[CountIn(s, Bus!DiskKinds, k)].connect = s[k]
         /\ s[k] = "vendor specific" => d.mem[CountIn(s, Bus!DiskKinds, k)].discovery = k

LEMMA ListsAre ==
  ASSUME seen \in Seq(Functions), ListedIn(seen, devices), PairedIn(seen, devices, disks)
  PROVE  Bus!Listed /\ Bus!DisksPaired
  <1>1. DOMAIN seen = 1 .. Len(seen)
    OBVIOUS
  <1>2. ASSUME NEW kinds, NEW n
        PROVE  Bus!Count(kinds, n) = CountIn(seen, kinds, n)
    BY Zenon DEF Bus!Count, CountIn, Bus!Cardinality, Cardinality
  <1>3. Bus!Listed
    BY ONLY <1>1, <1>2, ListedIn(seen, devices) DEF ListedIn, Bus!Listed
  <1>4. Bus!DisksPaired
    BY ONLY <1>1, <1>2, PairedIn(seen, devices, disks) DEF PairedIn, Bus!DisksPaired
  <1> QED
    BY <1>3, <1>4

\* What a function that was looked at adds to the count.
Counted(s, kind, kinds) ==
  /\ \A k \in 1 .. Len(s) : CountIn(Append(s, kind), kinds, k) = CountIn(s, kinds, k)
  /\ kind \in kinds => CountIn(Append(s, kind), kinds, Len(s) + 1) = CountIn(s, kinds, Len(s)) + 1
  /\ kind \notin kinds => CountIn(Append(s, kind), kinds, Len(s) + 1) = CountIn(s, kinds, Len(s))

LEMMA CountAppend ==
  ASSUME NEW s \in Seq(Functions), NEW kind \in Functions, NEW kinds
  PROVE  Counted(s, kind, kinds)
  <1> DEFINE t == Append(s, kind)
             n == Len(s)
  <1>1. n \in Nat /\ t[n + 1] = kind /\ \A k \in 1 .. n : t[k] = s[k]
    OBVIOUS
  <1> HIDE DEF t, n
  <1>2. ASSUME NEW k \in 1 .. n PROVE CountIn(t, kinds, k) = CountIn(s, kinds, k)
    <2>1. k \in Nat /\ \A j \in 1 .. k : t[j] = s[j]
      BY <1>1
    <2> QED
      BY <2>1, CountSame
  <1>3. CountIn(t, kinds, n) = CountIn(s, kinds, n)
    BY <1>1, CountSame
  <1>4. /\ kind \in kinds => CountIn(t, kinds, n + 1) = CountIn(t, kinds, n) + 1
        /\ kind \notin kinds => CountIn(t, kinds, n + 1) = CountIn(t, kinds, n)
    BY <1>1, CountNext
  <1> QED
    BY <1>2, <1>3, <1>4 DEF Counted, t, n

LEMMA AppendIs ==
  ASSUME NEW s \in Seq(Functions), NEW kind \in Functions, NEW t, t = Append(s, kind),
         NEW n, n = Len(s)
  PROVE  /\ Len(t) = n + 1 /\ t[n + 1] = kind /\ n \in Nat
         /\ \A k \in 1 .. n : t[k] = s[k]
  OBVIOUS

\* A member of the kinds is among those counted.
LEMMA CountWithin ==
  ASSUME NEW s \in Seq(Functions), NEW kinds, NEW k \in 1 .. Len(s), s[k] \in kinds
  PROVE  CountIn(s, kinds, k) \in 1 .. CountIn(s, kinds, Len(s))
  <1>1. Len(s) \in Nat
    OBVIOUS
  <1> QED
    BY <1>1, CountedIs

\* A function that is shown gets the next entry, the others none.
NewEntry(v, u, kind) ==
  /\ \A k \in 1 .. v.len : u.mem[k] = v.mem[k]
  /\ kind \in Bus!Shown =>
       /\ u.len = v.len + 1
       /\ u.mem[v.len + 1].type = IF kind \in Bus!DiskKinds THEN "disk" ELSE kind
  /\ kind \notin Bus!Shown => u.len = v.len

\* A disk, the function n, gets the next place, and its entry is given it.
NewDisk(v, u, d, e, kind, n) ==
  /\ \A k \in 1 .. d.len : e.mem[k] = d.mem[k]
  /\ e.data = d.data \/ e.data[2] = n
  /\ kind \in Bus!DiskKinds =>
       /\ e.len = d.len + 1
       /\ u.mem[v.len + 1].ptr[1] = e.data /\ u.mem[v.len + 1].ptr[2] = d.len + 1
       /\ e.mem[d.len + 1].connect = kind
       /\ kind = "vendor specific" => e.mem[d.len + 1].discovery = n
  /\ kind \notin Bus!DiskKinds => e.len = d.len

LEMMA ListedAdds ==
  ASSUME NEW s \in Seq(Functions), NEW kind \in Functions, NEW v, NEW u, ListedIn(s, v),
         NewEntry(v, u, kind)
  PROVE  ListedIn(Append(s, kind), u)
  <1> USE DEF NewEntry
  <1> DEFINE Entry(w, x, k) ==
               x[k] \in Bus!Shown =>
                 w.mem[CountIn(x, Bus!Shown, k)].type =
                   IF x[k] \in Bus!DiskKinds THEN "disk" ELSE x[k]
  <1>1. PICK t : t = Append(s, kind)
    OBVIOUS
  <1>2. PICK n : n = Len(s)
    OBVIOUS
  <1>3. /\ Len(t) = n + 1 /\ t[n + 1] = kind /\ n \in Nat /\ \A k \in 1 .. n : t[k] = s[k]
    BY ONLY <1>1, <1>2, s \in Seq(Functions), kind \in Functions, AppendIs
  <1>4. /\ \A k \in 1 .. n : CountIn(t, Bus!Shown, k) = CountIn(s, Bus!Shown, k)
        /\ kind \in Bus!Shown => CountIn(t, Bus!Shown, n + 1) = CountIn(s, Bus!Shown, n) + 1
        /\ kind \notin Bus!Shown => CountIn(t, Bus!Shown, n + 1) = CountIn(s, Bus!Shown, n)
    <2>1. Counted(s, kind, Bus!Shown)
      BY CountAppend
    <2> QED
      BY <1>1, <1>2, <2>1 DEF Counted
  <1>5. v.len = CountIn(s, Bus!Shown, n) /\ \A k \in 1 .. n : Entry(v, s, k)
    BY <1>2 DEF ListedIn
  <1>6. \A k \in 1 .. n : s[k] \in Bus!Shown => CountIn(s, Bus!Shown, k) \in 1 .. v.len
    BY <1>2, <1>5, CountWithin
  <1>7. ASSUME NEW k \in 1 .. n, t[k] \in Bus!Shown
        PROVE  u.mem[CountIn(t, Bus!Shown, k)].type =
                 IF t[k] \in Bus!DiskKinds THEN "disk" ELSE t[k]
    <2>1. t[k] = s[k] /\ CountIn(t, Bus!Shown, k) = CountIn(s, Bus!Shown, k)
      BY <1>3, <1>4
    <2>2. CountIn(s, Bus!Shown, k) \in 1 .. v.len
      BY <1>6, <1>7, <2>1
    <2>3. v.mem[CountIn(s, Bus!Shown, k)].type = IF s[k] \in Bus!DiskKinds THEN "disk" ELSE s[k]
      BY <1>5, <1>7, <2>1
    <2> QED
      BY <2>1, <2>2, <2>3
  <1>8. u.len = CountIn(t, Bus!Shown, n + 1)
    BY <1>4, <1>5
  <1>9. Entry(u, t, n + 1)
    BY <1>3, <1>4, <1>5
  <1>10. \A k \in 1 .. n + 1 : Entry(u, t, k)
    <2> SUFFICES ASSUME NEW k \in 1 .. n + 1 PROVE Entry(u, t, k)
      OBVIOUS
    <2>1. k \in 1 .. n \/ k = n + 1
      BY <1>3
    <2> QED
      BY <1>7, <1>9, <2>1
  <1>11. ListedIn(t, u)
    BY <1>3, <1>8, <1>10 DEF ListedIn
  <1> QED
    BY <1>1, <1>11

LEMMA PairedAdds ==
  ASSUME NEW s \in Seq(Functions), NEW kind \in Functions, NEW v, NEW u, NEW d, NEW e,
         ListedIn(s, v), PairedIn(s, v, d), NewEntry(v, u, kind),
         NewDisk(v, u, d, e, kind, Len(s) + 1)
  PROVE  PairedIn(Append(s, kind), u, e)
  <1> USE DEF NewDisk
  <1>1. PICK t : t = Append(s, kind)
    OBVIOUS
  <1>2. PICK n : n = Len(s)
    OBVIOUS
  <1> DEFINE S(k) == CountIn(s, Bus!Shown, k)
             D(k) == CountIn(s, Bus!DiskKinds, k)
             ST(k) == CountIn(t, Bus!Shown, k)
             DT(k) == CountIn(t, Bus!DiskKinds, k)
             Goes(x, w, f, i, j, k) ==
               /\ w.mem[i].ptr[2] = j
               /\ w.mem[i].ptr[1] = f.data \/ f.data[2] > k
               /\ f.mem[j].connect = x[k]
               /\ x[k] = "vendor specific" => f.mem[j].discovery = k
  <1>3. /\ Len(t) = n + 1 /\ t[n + 1] = kind /\ n \in Nat /\ \A k \in 1 .. n : t[k] = s[k]
    BY ONLY <1>1, <1>2, s \in Seq(Functions), kind \in Functions, AppendIs
  <1>4. /\ \A k \in 1 .. n : ST(k) = S(k)
        /\ kind \in Bus!Shown => ST(n + 1) = S(n) + 1
    <2>1. Counted(s, kind, Bus!Shown)
      BY CountAppend
    <2> QED
      BY <1>1, <1>2, <2>1 DEF Counted
  <1>5. /\ \A k \in 1 .. n : DT(k) = D(k)
        /\ kind \in Bus!DiskKinds => DT(n + 1) = D(n) + 1
        /\ kind \notin Bus!DiskKinds => DT(n + 1) = D(n)
    <2>1. Counted(s, kind, Bus!DiskKinds)
      BY CountAppend
    <2> QED
      BY <1>1, <1>2, <2>1 DEF Counted
  <1>6. Bus!DiskKinds \subseteq Bus!Shown
    BY DEF Bus!Shown
  <1>7. /\ \A k \in 1 .. n : s[k] \in Bus!Shown => S(k) \in 1 .. S(n)
        /\ \A k \in 1 .. n : s[k] \in Bus!DiskKinds => D(k) \in 1 .. D(n)
    BY <1>2, CountWithin
  <1>8. v.len = S(n)
    BY <1>2 DEF ListedIn
  <1>9. /\ d.len = D(n)
        /\ \A k \in 1 .. n : s[k] \in Bus!DiskKinds => Goes(s, v, d, S(k), D(k), k)
    BY <1>2 DEF PairedIn
  <1>10. ASSUME e.len = DT(n + 1),
                \A k \in 1 .. n + 1 : t[k] \in Bus!DiskKinds => Goes(t, u, e, ST(k), DT(k), k)
         PROVE  PairedIn(t, u, e)
    BY <1>3, <1>10 DEF PairedIn
  <1>11. ASSUME NEW k \in 1 .. n, t[k] \in Bus!DiskKinds
         PROVE  Goes(t, u, e, ST(k), DT(k), k)
    <2> HIDE DEF S, D, ST, DT
    <2>1. t[k] = s[k] /\ ST(k) = S(k) /\ DT(k) = D(k)
      BY <1>3, <1>4, <1>5
    <2>2. s[k] \in Bus!DiskKinds /\ s[k] \in Bus!Shown
      BY <1>6, <1>11, <2>1
    <2>3. S(k) \in 1 .. v.len /\ D(k) \in 1 .. d.len
      BY <1>7, <1>8, <1>9, <2>2
    <2>4. u.mem[S(k)] = v.mem[S(k)] /\ e.mem[D(k)] = d.mem[D(k)]
      BY <2>3 DEF NewEntry
    <2>5. Goes(s, v, d, S(k), D(k), k)
      BY <1>9, <2>2
    <2>6. e.data = d.data \/ e.data[2] > k
      <3>1. e.data = d.data \/ e.data[2] = n + 1
        BY <1>2
      <3>2. n + 1 > k
        BY ONLY <1>3, k \in 1 .. n
      <3> QED
        BY ONLY <3>1, <3>2
    <2> QED
      BY <2>1, <2>4, <2>5, <2>6
  <1>12. ASSUME t[n + 1] \in Bus!DiskKinds
         PROVE  Goes(t, u, e, ST(n + 1), DT(n + 1), n + 1)
    <2> HIDE DEF S, D, ST, DT
    <2>1. kind \in Bus!DiskKinds /\ kind \in Bus!Shown
      BY <1>3, <1>6, <1>12
    <2>2. ST(n + 1) = v.len + 1 /\ DT(n + 1) = d.len + 1
      BY <1>4, <1>5, <1>8, <1>9, <2>1
    <2>3. /\ u.mem[v.len + 1].ptr[2] = d.len + 1 /\ e.mem[d.len + 1].connect = kind
          /\ u.mem[v.len + 1].ptr[1] = e.data
      BY <2>1
    <2>4. kind = "vendor specific" => e.mem[d.len + 1].discovery = n + 1
      BY <1>2, <2>1
    <2> QED
      BY <1>3, <2>2, <2>3, <2>4
  <1>13. e.len = DT(n + 1)
    <2> HIDE DEF S, D, ST, DT
    <2> QED
      BY <1>5, <1>9
  <1>14. ASSUME NEW k \in 1 .. n + 1, t[k] \in Bus!DiskKinds
         PROVE  Goes(t, u, e, ST(k), DT(k), k)
    <2>1. k \in 1 .. n \/ k = n + 1
      BY ONLY <1>3, k \in 1 .. n + 1
    <2> HIDE DEF Goes, S, D, ST, DT
    <2> QED
      BY <1>11, <1>12, <1>14, <2>1
  <1>15. PairedIn(t, u, e)
    <2> HIDE DEF Goes, S, D, ST, DT
    <2> QED
      BY <1>10, <1>13, <1>14
  <1> QED
    BY <1>1, <1>15

\* What is pushed is a device, or a disk.
LEMMA ElementsAre ==
  ASSUME seen \in Seq(Functions)
  PROVE  /\ Bus!RawDevices \in SUBSET DeviceSet /\ Bus!BuiltDevices \in SUBSET DeviceSet
         /\ Bus!RawDisks \in SUBSET DiskSet /\ Bus!BuiltDisks \in SUBSET DiskSet
  <1>1. Bus!RawDevices \in SUBSET DeviceSet
    <2>1. [type |-> "raw", ptr |-> "raw", allocated |-> "raw"] \in DeviceSet
      BY DEF DeviceSet, Names, PtrSet
    <2> QED
      BY <2>1 DEF Bus!RawDevices
  <1>2. Bus!BuiltDevices \in SUBSET DeviceSet
    <2>1. [type |-> "undefined", ptr |-> Null, allocated |-> FALSE] \in DeviceSet
      BY DEF DeviceSet, Names, PtrSet
    <2> QED
      BY <2>1 DEF Bus!BuiltDevices
  <1>3. Bus!Stale \subseteq Nat
    <2>1. DOMAIN seen = 1 .. Len(seen) /\ Len(seen) \in Nat
      OBVIOUS
    <2>2. DOMAIN seen \subseteq Nat /\ 0 \in Nat
      BY <2>1
    <2> QED
      BY ONLY <2>2 DEF Bus!Stale, Bus!NotFound
  <1>4. Bus!RawDisks \in SUBSET DiskSet
    BY <1>3 DEF Bus!RawDisks, DiskSet, Names
  <1>5. Bus!BuiltDisks \in SUBSET DiskSet
    BY <1>3 DEF Bus!BuiltDisks, DiskSet, Names
  <1> QED
    BY <1>1, <1>2, <1>4, <1>5

\* Setting the last element of a vector is setting it in its memory.
LastIs(w, e, n) ==
  /\ [w EXCEPT !.mem[w.len] = e]
       = [data |-> w.data, len |-> w.len, mem |-> [w.mem EXCEPT ![w.len] = e]]
  /\ [[w EXCEPT !.mem[w.len] = e] EXCEPT !.len = n]
       = [data |-> w.data, len |-> n, mem |-> [w.mem EXCEPT ![w.len] = e]]

LEMMA LastSet ==
  ASSUME NEW E, NEW name, NEW w, VectorOf(w, name, E), w.len \in 1 .. Len(w.mem), NEW e, NEW n
  PROVE  LastIs(w, e, n)
  <1>1. PICK d, l, m : d = w.data /\ l = w.len /\ m = w.mem
    OBVIOUS
  <1>2. w = [data |-> d, len |-> l, mem |-> m]
    BY <1>1 DEF VectorOf
  <1>3. [w EXCEPT !.mem[w.len] = e] = [data |-> d, len |-> l, mem |-> [m EXCEPT ![l] = e]]
    BY ONLY <1>1, <1>2
  <1>4. [[w EXCEPT !.mem[w.len] = e] EXCEPT !.len = n]
          = [data |-> d, len |-> n, mem |-> [m EXCEPT ![l] = e]]
    <2>1. PICK x : x = [m EXCEPT ![l] = e]
      OBVIOUS
    <2>2. PICK y : y = [w EXCEPT !.mem[w.len] = e]
      OBVIOUS
    <2>3. y = [data |-> d, len |-> l, mem |-> x]
      BY ONLY <1>3, <2>1, <2>2
    <2>4. [y EXCEPT !.len = n] = [data |-> d, len |-> n, mem |-> x]
      BY ONLY <2>3
    <2> QED
      BY ONLY <2>1, <2>2, <2>4
  <1> QED
    BY <1>1, <1>3, <1>4 DEF LastIs

\* The type of the new device is set, and that of a disk points to it.
TypeIsSet(w, type) ==
  \E e \in DeviceSet :
    /\ e.type = type
    /\ [w EXCEPT !.mem[w.len].type = type]
         = [data |-> w.data, len |-> w.len, mem |-> [w.mem EXCEPT ![w.len] = e]]
    /\ [w EXCEPT !.mem[w.len].type = type, !.len = @ - 1]
         = [data |-> w.data, len |-> w.len - 1, mem |-> [w.mem EXCEPT ![w.len] = e]]

LEMMA TypeSet ==
  ASSUME NEW w, VectorOf(w, "devices", DeviceSet), w.len \in 1 .. Len(w.mem),
         NEW type \in Names
  PROVE  TypeIsSet(w, type)
  <1> DEFINE e == [w.mem[w.len] EXCEPT !.type = type]
  <1>1. w.mem \in Seq(DeviceSet) /\ w.mem[w.len] \in DeviceSet
    BY DEF VectorOf
  <1>2. e \in DeviceSet /\ e.type = type
    BY <1>1 DEF DeviceSet
  <1>3. PICK n : n = w.len - 1
    OBVIOUS
  <1>4. /\ [w EXCEPT !.mem[w.len].type = type] = [w EXCEPT !.mem[w.len] = e]
        /\ [w EXCEPT !.mem[w.len].type = type, !.len = n]
             = [[w EXCEPT !.mem[w.len] = e] EXCEPT !.len = n]
    BY ONLY TRUE
  <1> HIDE DEF e
  <1>5. LastIs(w, e, n)
    BY LastSet
  <1> QED
    BY <1>2, <1>3, <1>4, <1>5 DEF LastIs, TypeIsSet

PtrHeld(w, type, ptr) ==
  \E e \in DeviceSet :
    /\ e.type = type /\ e.ptr = ptr
    /\ [w EXCEPT !.mem[w.len] = [@ EXCEPT !.type = type, !.ptr = ptr]]
         = [data |-> w.data, len |-> w.len, mem |-> [w.mem EXCEPT ![w.len] = e]]

LEMMA PtrIsSet ==
  ASSUME NEW w, VectorOf(w, "devices", DeviceSet), w.len \in 1 .. Len(w.mem),
         NEW type \in Names, NEW ptr \in PtrSet
  PROVE  PtrHeld(w, type, ptr)
  <1> DEFINE e == [w.mem[w.len] EXCEPT !.type = type, !.ptr = ptr]
  <1>1. w.mem \in Seq(DeviceSet) /\ w.mem[w.len] \in DeviceSet
    BY DEF VectorOf
  <1>2. e \in DeviceSet /\ e.type = type /\ e.ptr = ptr
    BY <1>1 DEF DeviceSet, PtrSet
  <1> HIDE DEF e
  <1>3. LastIs(w, e, w.len)
    BY LastSet
  <1> QED
    BY <1>2, <1>3 DEF e, LastIs, PtrHeld

\* So are the connection of the new disk and what its discovery found.
LEMMA DiskIsSet ==
  ASSUME NEW w, VectorOf(w, "disks", DiskSet), w.len \in 1 .. Len(w.mem),
         NEW kind \in Names, Len(seen) \in Nat
  PROVE  \E e \in DiskSet :
           /\ e.connect = kind /\ e.discovery = Bus!Found(kind, w.mem[w.len].discovery)
           /\ [w EXCEPT !.mem[w.len] =
                 [@ EXCEPT !.connect = kind,
                           !.discovery = Bus!Found(kind, w.mem[w.len].discovery)]]
                = [data |-> w.data, len |-> w.len, mem |-> [w.mem EXCEPT ![w.len] = e]]
  <1> DEFINE f == Bus!Found(kind, w.mem[w.len].discovery)
             e == [w.mem[w.len] EXCEPT !.connect = kind,
                                       !.discovery = Bus!Found(kind, w.mem[w.len].discovery)]
  <1>1. w.mem \in Seq(DiskSet) /\ w.mem[w.len] \in DiskSet
    BY DEF VectorOf
  <1>2. f \in Nat
    <2>1. w.mem[w.len].discovery \in Nat /\ Bus!Here \in Nat
      BY <1>1 DEF DiskSet, Bus!Here
    <2>2. \A x, y : x \in Nat /\ y \in Nat => (IF kind = "vendor specific" THEN x ELSE y) \in Nat
      BY ONLY TRUE
    <2> QED
      BY ONLY <2>1, <2>2 DEF Bus!Found
  <1>3. e \in DiskSet /\ e.connect = kind /\ e.discovery = f
    <2>1. PICK g : g = f
      OBVIOUS
    <2>2. e = [w.mem[w.len] EXCEPT !.connect = kind, !.discovery = g]
      BY <2>1
    <2>3. g \in Nat
      BY <1>2, <2>1
    <2> HIDE DEF e, f
    <2>4. e \in DiskSet /\ e.connect = kind /\ e.discovery = g
      BY <1>1, <2>2, <2>3 DEF DiskSet
    <2> QED
      BY <2>1, <2>4
  <1>4. LastIs(w, e, w.len)
    <2> HIDE DEF e
    <2> QED
      BY LastSet
  <1>5. [w EXCEPT !.mem[w.len] = e]
          = [data |-> w.data, len |-> w.len, mem |-> [w.mem EXCEPT ![w.len] = e]]
    BY <1>4 DEF LastIs
  <1>6. [w EXCEPT !.mem[w.len] =
           [@ EXCEPT !.connect = kind,
                     !.discovery = Bus!Found(kind, w.mem[w.len].discovery)]]
          = [data |-> w.data, len |-> w.len, mem |-> [w.mem EXCEPT ![w.len] = e]]
    BY <1>5
  <1>7. e.discovery = Bus!Found(kind, w.mem[w.len].discovery)
    BY <1>3
  <1> HIDE DEF e
  <1> QED
    BY <1>3, <1>6, <1>7

\* What holds of the bus after any number of functions, and at the end.
BusInv ==
  /\ seen \in Seq(Functions) /\ Len(seen) <= NFunctions
  /\ VectorOf(devices, "devices", DeviceSet) /\ VectorOf(disks, "disks", DiskSet)
  /\ ListedIn(seen, devices) /\ PairedIn(seen, devices, disks)

Controller ==
  /\ bar \in Bus!Bars \cup {Null}
  /\ ahci = [used |-> ahci.used, initialized |-> ahci.initialized,
             address |-> ahci.address, base |-> ahci.base]
  /\ ahci.base \in 0 .. (Half * Half - 1)
  /\ ahci.initialized => ahci.base = Bus!AhciFind(bar) /\ ahci.base # 0

\* A function that was looked at, and what was pushed for it.
LEMMA DevicePushed ==
  ASSUME BusInv, Len(seen) < NFunctions, NEW w \in Bus!PushedDevices
  PROVE  /\ Grown(w, devices, "devices", DeviceSet)
         /\ w.len \in 1 .. Len(w.mem) /\ VectorOf(w, "devices", DeviceSet)
         /\ w.len = devices.len + 1 /\ VectorOf(devices, "devices", DeviceSet)
  <1>1. VectorOf(devices, "devices", DeviceSet) /\ Len(seen) \in Nat
    BY DEF BusInv
  <1>2. Grown(w, devices, "devices", DeviceSet)
    BY <1>1, ElementsAre, PushGrows DEF Bus!PushedDevices, BusInv
  <1>3. w.len \in 1 .. Len(w.mem)
    BY <1>1, <1>2 DEF Grown, VectorOf
  <1> QED
    BY <1>1, <1>2, <1>3 DEF Grown

LEMMA DiskPushed ==
  ASSUME BusInv, Len(seen) < NFunctions, NEW w \in Bus!PushedDisks
  PROVE  /\ Grown(w, disks, "disks", DiskSet)
         /\ w.len \in 1 .. Len(w.mem) /\ VectorOf(w, "disks", DiskSet)
         /\ w.len = disks.len + 1 /\ VectorOf(disks, "disks", DiskSet)
         /\ w.data \in {"disks"} \X (1 .. NFunctions)
  <1>1. VectorOf(disks, "disks", DiskSet) /\ Len(seen) \in Nat
    BY DEF BusInv
  <1>2. Grown(w, disks, "disks", DiskSet)
    BY <1>1, ElementsAre, PushGrows DEF Bus!PushedDisks, BusInv
  <1>3. w.len \in 1 .. Len(w.mem)
    BY <1>1, <1>2 DEF Grown, VectorOf
  <1>4. w.data \in {"disks"} \X (1 .. NFunctions)
    BY <1>2 DEF Grown, VectorOf
  <1> QED
    BY <1>1, <1>2, <1>3, <1>4 DEF Grown

\* The kinds of functions and what is entered for them.
LEMMA KindsAre ==
  /\ Functions \subseteq {"none", "ahci"} \cup Bus!DiskKinds \cup Bus!OtherKinds
  /\ Bus!DiskKinds \subseteq Names /\ Bus!OtherKinds \subseteq Names /\ "disk" \in Names
  /\ Bus!DiskKinds \subseteq Bus!Shown /\ Bus!OtherKinds \subseteq Bus!Shown
  /\ "none" \notin Bus!Shown /\ "ahci" \notin Bus!Shown
  /\ \A kind \in Bus!OtherKinds : kind \notin Bus!DiskKinds
  <1>1. Functions \subseteq {"none", "ahci"} \cup Bus!DiskKinds \cup Bus!OtherKinds
    BY BootAssumption DEF Bus!PciAssumption
  <1> QED
    BY <1>1 DEF Names, Bus!Shown, Bus!DiskKinds, Bus!OtherKinds

\* What was pushed for a function extends the lists.
LEMMA BusAdds ==
  ASSUME BusInv, NEW kind \in Functions, Len(seen) < NFunctions, seen' = Append(seen, kind),
         VectorOf(devices', "devices", DeviceSet), VectorOf(disks', "disks", DiskSet),
         NewEntry(devices, devices', kind),
         NewDisk(devices, devices', disks, disks', kind, Len(seen) + 1)
  PROVE  BusInv'
  <1>1. seen \in Seq(Functions) /\ ListedIn(seen, devices) /\ PairedIn(seen, devices, disks)
    BY DEF BusInv
  <1>2. PICK d, e, v, u, s : d = disks /\ e = disks' /\ v = devices /\ u = devices' /\ s = seen
    OBVIOUS
  <1>3. /\ s \in Seq(Functions) /\ ListedIn(s, v) /\ PairedIn(s, v, d)
        /\ NewEntry(v, u, kind) /\ NewDisk(v, u, d, e, kind, Len(s) + 1)
    BY <1>1, <1>2
  <1>4. ListedIn(Append(s, kind), u) /\ PairedIn(Append(s, kind), u, e)
    BY ONLY <1>3, kind \in Functions, ListedAdds, PairedAdds
  <1>5. seen' \in Seq(Functions) /\ Len(seen') <= NFunctions
    <2>1. /\ Append(s, kind) \in Seq(Functions) /\ Len(Append(s, kind)) = Len(s) + 1
          /\ Len(s) \in Nat
      BY ONLY <1>3, kind \in Functions
    <2>2. NFunctions \in Nat /\ Len(s) < NFunctions
      BY <1>2, BootAssumption DEF Bus!PciAssumption
    <2>3. Len(s) + 1 <= NFunctions
      BY ONLY <2>1, <2>2
    <2> QED
      BY ONLY <1>2, <2>1, <2>3, seen' = Append(seen, kind)
  <1>7. ListedIn(seen', devices') /\ PairedIn(seen', devices', disks')
    BY <1>2, <1>4
  <1> QED
    BY <1>5, <1>7 DEF BusInv

LEMMA NothingKeeps ==
  ASSUME BusInv, NEW kind \in Functions, Len(seen) < NFunctions, seen' = Append(seen, kind),
         Bus!Nothing(kind)
  PROVE  BusInv'
  <1>1. kind = "none" /\ devices' = devices /\ disks' = disks
    BY DEF Bus!Nothing
  <1>2. kind \notin Bus!Shown /\ kind \notin Bus!DiskKinds
    BY <1>1, KindsAre
  <1>3. /\ VectorOf(devices, "devices", DeviceSet) /\ VectorOf(disks, "disks", DiskSet)
    BY DEF BusInv
  <1>5. /\ NewEntry(devices, devices', kind)
        /\ NewDisk(devices, devices', disks, disks', kind, Len(seen) + 1)
    BY <1>1, <1>2 DEF NewEntry, NewDisk
  <1> QED
    BY <1>1, <1>3, <1>5, BusAdds

LEMMA OtherKeeps ==
  ASSUME BusInv, NEW kind \in Functions, Len(seen) < NFunctions, seen' = Append(seen, kind),
         Bus!Other(kind)
  PROVE  BusInv'
  <1>1. PICK v \in Bus!PushedDevices : devices' = [v EXCEPT !.mem[v.len].type = kind]
    BY DEF Bus!Other
  <1>2. kind \in Bus!OtherKinds /\ disks' = disks
    BY DEF Bus!Other
  <1>3. kind \in Bus!Shown /\ kind \notin Bus!DiskKinds /\ kind \in Names
    BY <1>2, KindsAre
  <1>4. /\ Grown(v, devices, "devices", DeviceSet)
        /\ v.len \in 1 .. Len(v.mem) /\ VectorOf(v, "devices", DeviceSet)
        /\ v.len = devices.len + 1 /\ VectorOf(devices, "devices", DeviceSet)
    BY DevicePushed
  <1>5. PICK e \in DeviceSet :
          /\ e.type = kind
          /\ [v EXCEPT !.mem[v.len].type = kind]
               = [data |-> v.data, len |-> v.len, mem |-> [v.mem EXCEPT ![v.len] = e]]
    <2>1. TypeIsSet(v, kind)
      BY <1>3, <1>4, TypeSet
    <2> QED
      BY ONLY <2>1 DEF TypeIsSet
  <1>6. Entered(devices', devices, "devices", DeviceSet, e, v.len)
    BY <1>1, <1>4, <1>5, EntrySet
  <1>7. /\ VectorOf(devices', "devices", DeviceSet)
        /\ \A k \in 1 .. devices.len : devices'.mem[k] = devices.mem[k]
        /\ devices'.len = devices.len + 1 /\ devices'.mem[devices.len + 1].type = kind
    BY <1>4, <1>5, <1>6 DEF Entered
  <1>8. /\ VectorOf(disks, "disks", DiskSet) /\ disks.len \in Nat
    BY DEF BusInv, VectorOf
  <1>9. /\ NewEntry(devices, devices', kind)
        /\ NewDisk(devices, devices', disks, disks', kind, Len(seen) + 1)
    BY <1>2, <1>3, <1>7 DEF NewEntry, NewDisk
  <1> QED
    BY <1>2, <1>7, <1>8, <1>9, BusAdds

LEMMA AhciKeeps ==
  ASSUME BusInv, NEW kind \in Functions, Len(seen) < NFunctions, seen' = Append(seen, kind),
         Bus!Ahci(kind)
  PROVE  BusInv'
  <1>1. PICK v \in Bus!PushedDevices :
          devices' = [v EXCEPT !.mem[v.len].type = "disk", !.len = @ - 1]
    BY DEF Bus!Ahci
  <1>2. kind = "ahci" /\ disks' = disks
    BY DEF Bus!Ahci
  <1>3. kind \notin Bus!Shown /\ kind \notin Bus!DiskKinds
    BY <1>2, KindsAre
  <1>4. /\ Grown(v, devices, "devices", DeviceSet)
        /\ v.len \in 1 .. Len(v.mem) /\ VectorOf(v, "devices", DeviceSet)
        /\ v.len = devices.len + 1 /\ VectorOf(devices, "devices", DeviceSet)
    BY DevicePushed
  <1>5. PICK e \in DeviceSet :
          /\ e.type = "disk"
          /\ [v EXCEPT !.mem[v.len].type = "disk", !.len = @ - 1]
               = [data |-> v.data, len |-> v.len - 1, mem |-> [v.mem EXCEPT ![v.len] = e]]
    <2>1. TypeIsSet(v, "disk")
      BY <1>4, KindsAre, TypeSet
    <2> QED
      BY ONLY <2>1 DEF TypeIsSet
  <1>6. Entered(devices', devices, "devices", DeviceSet, e, v.len - 1)
    BY <1>1, <1>4, <1>5, EntrySet
  <1>7. /\ VectorOf(devices', "devices", DeviceSet)
        /\ \A k \in 1 .. devices.len : devices'.mem[k] = devices.mem[k]
        /\ devices'.len = devices.len
    BY <1>4, <1>6 DEF Entered, VectorOf
  <1>8. /\ VectorOf(disks, "disks", DiskSet) /\ disks.len \in Nat
    BY DEF BusInv, VectorOf
  <1>9. /\ NewEntry(devices, devices', kind)
        /\ NewDisk(devices, devices', disks, disks', kind, Len(seen) + 1)
    BY <1>2, <1>3, <1>7 DEF NewEntry, NewDisk
  <1> QED
    BY <1>2, <1>7, <1>8, <1>9, BusAdds

LEMMA DiskKeeps ==
  ASSUME BusInv, NEW kind \in Functions, Len(seen) < NFunctions, seen' = Append(seen, kind),
         Bus!Disk(kind)
  PROVE  BusInv'
  <1>1. PICK v \in Bus!PushedDevices, d \in Bus!PushedDisks :
          /\ disks' = [d EXCEPT !.mem[d.len] =
                         [@ EXCEPT !.connect = kind,
                                   !.discovery = Bus!Found(kind, d.mem[d.len].discovery)]]
          /\ devices' = [v EXCEPT !.mem[v.len] =
                           [@ EXCEPT !.type = "disk", !.ptr = <<d.data, d.len>>]]
    BY DEF Bus!Disk
  <1>2. kind \in Bus!DiskKinds /\ kind \in Bus!Shown /\ kind \in Names
    BY KindsAre DEF Bus!Disk
  <1>3. /\ Grown(v, devices, "devices", DeviceSet)
        /\ v.len \in 1 .. Len(v.mem) /\ VectorOf(v, "devices", DeviceSet)
        /\ v.len = devices.len + 1 /\ VectorOf(devices, "devices", DeviceSet)
    BY DevicePushed
  <1>4. /\ Grown(d, disks, "disks", DiskSet)
        /\ d.len \in 1 .. Len(d.mem) /\ VectorOf(d, "disks", DiskSet)
        /\ d.len = disks.len + 1 /\ VectorOf(disks, "disks", DiskSet)
        /\ d.data \in {"disks"} \X (1 .. NFunctions)
    BY DiskPushed
  <1>5. disks.len \in Nat /\ d.len \in Nat /\ Len(seen) \in Nat
    BY <1>4 DEF BusInv, VectorOf
  <1>6. PICK p : p = <<d.data, d.len>>
    OBVIOUS
  <1>7. p \in PtrSet /\ p[2] = d.len
    BY <1>4, <1>5, <1>6 DEF PtrSet
  <1>8. PICK e \in DeviceSet :
          /\ e.type = "disk" /\ e.ptr = p
          /\ [v EXCEPT !.mem[v.len] = [@ EXCEPT !.type = "disk", !.ptr = p]]
               = [data |-> v.data, len |-> v.len, mem |-> [v.mem EXCEPT ![v.len] = e]]
    <2>1. PtrHeld(v, "disk", p)
      BY <1>3, <1>7, KindsAre, PtrIsSet
    <2> QED
      BY ONLY <2>1 DEF PtrHeld
  <1>9. PICK f \in DiskSet :
          /\ f.connect = kind /\ f.discovery = Bus!Found(kind, d.mem[d.len].discovery)
          /\ [d EXCEPT !.mem[d.len] =
                [@ EXCEPT !.connect = kind,
                          !.discovery = Bus!Found(kind, d.mem[d.len].discovery)]]
               = [data |-> d.data, len |-> d.len, mem |-> [d.mem EXCEPT ![d.len] = f]]
    BY <1>2, <1>4, <1>5, DiskIsSet
  <1>10. Entered(devices', devices, "devices", DeviceSet, e, v.len)
    <2>1. devices' = [data |-> v.data, len |-> v.len, mem |-> [v.mem EXCEPT ![v.len] = e]]
      BY <1>1, <1>6, <1>8
    <2> QED
      BY <1>3, <2>1, EntrySet
  <1>11. Entered(disks', disks, "disks", DiskSet, f, d.len)
    <2>1. disks' = [data |-> d.data, len |-> d.len, mem |-> [d.mem EXCEPT ![d.len] = f]]
      BY <1>1, <1>9
    <2> QED
      BY <1>4, <2>1, EntrySet
  <1>12. /\ VectorOf(devices', "devices", DeviceSet)
         /\ \A k \in 1 .. devices.len : devices'.mem[k] = devices.mem[k]
         /\ devices'.len = devices.len + 1 /\ devices'.mem[devices.len + 1].type = "disk"
         /\ devices'.mem[devices.len + 1].ptr[2] = disks.len + 1
    BY <1>3, <1>4, <1>7, <1>8, <1>10 DEF Entered
  <1>13. /\ VectorOf(disks', "disks", DiskSet)
         /\ \A k \in 1 .. disks.len : disks'.mem[k] = disks.mem[k]
         /\ disks'.len = disks.len + 1 /\ disks'.mem[disks.len + 1].connect = kind
    BY <1>4, <1>9, <1>11 DEF Entered
  <1>14. kind = "vendor specific" => disks'.mem[disks.len + 1].discovery = Len(seen) + 1
    BY <1>4, <1>9, <1>11 DEF Entered, Bus!Found, Bus!Here
  <1>15. /\ disks'.data = disks.data \/ disks'.data[2] = Len(seen) + 1
         /\ devices'.mem[devices.len + 1].ptr[1] = disks'.data
    <2>1. disks'.data = d.data
      BY <1>1, <1>9
    <2>2. d.data = disks.data \/ d.data[2] = Len(seen) + 1
      <3>1. d.data = disks.data \/ d.data = <<"disks", Bus!Here>>
        BY <1>4 DEF Grown
      <3> QED
        BY <3>1 DEF Bus!Here
    <2>3. devices'.mem[devices.len + 1].ptr = p
      BY <1>3, <1>8, <1>10 DEF Entered
    <2> QED
      BY <1>6, <2>1, <2>2, <2>3
  <1>17. NewEntry(devices, devices', kind)
    BY <1>2, <1>12 DEF NewEntry
  <1>18. NewDisk(devices, devices', disks, disks', kind, Len(seen) + 1)
    BY <1>2, <1>12, <1>13, <1>14, <1>15 DEF NewDisk
  <1> QED
    BY <1>12, <1>13, <1>17, <1>18, BusAdds

LEMMA ScanKeeps ==
  ASSUME BusInv, NEW kind \in Functions, Bus!Scan(kind)
  PROVE  BusInv'
  <1>1. Len(seen) < NFunctions /\ seen' = Append(seen, kind)
    BY DEF Bus!Scan
  <1> QED
    BY <1>1, NothingKeeps, DiskKeeps, AhciKeeps, OtherKeeps DEF Bus!Scan

\* The digits of a | b, from those of their halves.
Ored(g, m) ==
  g = [x \in 0 .. m |->
         [y \in Nat |-> IF x = 0 THEN y
                        ELSE 2 * g[x \div 2][y \div 2]
                             + (IF x % 2 = 1 \/ y % 2 = 1 THEN 1 ELSE 0)]]

LEMMA OredExists ==
  ASSUME NEW n \in Nat
  PROVE  \E g : Ored(g, n)
  <1> DEFINE T == {m \in Nat : ~\E g : Ored(g, m)}
  <1> SUFFICES ASSUME T # {} PROVE FALSE
    OBVIOUS
  <1>1. PICK m \in T : \A t \in T : m <= t
    <2> HIDE DEF T
    <2>1. T \subseteq Nat
      BY DEF T
    <2> QED
      BY <2>1, LeastNat
  <1>2. CASE m = 0
    <2> DEFINE f == [x \in 0 .. 0 |-> [y \in Nat |-> y]]
    <2>1. \A x \in 0 .. 0 : x = 0
      OBVIOUS
    <2>2. Ored(f, 0)
      BY <2>1 DEF Ored
    <2> QED
      BY <1>1, <1>2, <2>2
  <1>3. CASE m # 0
    <2>1. m - 1 \in Nat /\ ~(m <= m - 1) /\ m \in Nat
      BY <1>1, <1>3
    <2>2. PICK g : Ored(g, m - 1)
      BY <1>1, <2>1
    <2> DEFINE V(h, x) == [y \in Nat |-> IF x = 0 THEN y
                                        ELSE 2 * h[x \div 2][y \div 2]
                                             + (IF x % 2 = 1 \/ y % 2 = 1 THEN 1 ELSE 0)]
               f == [x \in 0 .. m |-> V(g, x)]
    <2>3. \A x \in 0 .. m : x # 0 => x \div 2 \in 0 .. m - 1 /\ x \div 2 \in 0 .. m
      BY <2>1
    <2>4. g = [x \in 0 .. m - 1 |-> V(g, x)]
      BY <2>2 DEF Ored
    <2>5. ASSUME NEW x \in 0 .. m, x # 0 PROVE f[x \div 2] = g[x \div 2]
      <3>1. x \div 2 \in 0 .. m - 1 /\ x \div 2 \in 0 .. m
        BY <2>3, <2>5
      <3> HIDE DEF V
      <3> QED
        BY <2>4, <3>1
    <2>6. ASSUME NEW x \in 0 .. m PROVE V(f, x) = V(g, x)
      <3> HIDE DEF f
      <3>1. CASE x = 0
        BY <3>1
      <3>2. CASE x # 0
        BY <2>5, <3>2
      <3> QED
        BY <3>1, <3>2
    <2>7. Ored(f, m) <=> f = [x \in 0 .. m |-> V(f, x)]
      BY DEF Ored
    <2>8. f = [x \in 0 .. m |-> V(f, x)]
      <3> HIDE DEF V
      <3> QED
        BY <2>6
    <2> QED
      BY <1>1, <2>7, <2>8
  <1> QED
    BY <1>2, <1>3

LEMMA OrTyped ==
  ASSUME NEW a \in Nat, NEW b \in Nat
  PROVE  Bus!Or(a, b) \in Nat
  <1> DEFINE g == CHOOSE f : Ored(f, a)
  <1>1. Ored(g, a)
    BY OredExists
  <1>2. Bus!Or(a, b) = g[a][b]
    BY DEF Bus!Or, Ored
  <1> HIDE DEF g
  <1>3. \A x \in 0 .. a, y \in Nat :
          g[x][y] = IF x = 0 THEN y
                    ELSE 2 * g[x \div 2][y \div 2]
                         + (IF x % 2 = 1 \/ y % 2 = 1 THEN 1 ELSE 0)
    <2> SUFFICES ASSUME NEW x \in 0 .. a, NEW y \in Nat
                 PROVE  g[x][y] = IF x = 0 THEN y
                                  ELSE 2 * g[x \div 2][y \div 2]
                                       + (IF x % 2 = 1 \/ y % 2 = 1 THEN 1 ELSE 0)
      OBVIOUS
    <2> DEFINE V == [z \in Nat |-> IF x = 0 THEN z
                                   ELSE 2 * g[x \div 2][z \div 2]
                                        + (IF x % 2 = 1 \/ z % 2 = 1 THEN 1 ELSE 0)]
    <2>1. g[x] = V
      BY <1>1, Zenon DEF Ored
    <2> QED
      BY ONLY <2>1, y \in Nat
  <1> DEFINE T == {x \in 0 .. a : ~\A y \in Nat : g[x][y] \in Nat}
  <1>4. T = {}
    <2> SUFFICES ASSUME T # {} PROVE FALSE
      OBVIOUS
    <2>1. T \subseteq Nat
      OBVIOUS
    <2>2. PICK m \in T : \A t \in T : m <= t
      <3> HIDE DEF T
      <3> QED
        BY <2>1, LeastNat
    <2>3. m \in 0 .. a /\ m \in Nat /\ ~\A y \in Nat : g[m][y] \in Nat
      OBVIOUS
    <2>4. m # 0
      BY <1>3, <2>3
    <2>5. m \div 2 \in 0 .. a /\ ~(m <= m \div 2)
      BY <2>3, <2>4
    <2>6. \A y \in Nat : g[m \div 2][y] \in Nat
      BY <2>2, <2>5
    <2>7. ASSUME NEW y \in Nat PROVE g[m][y] \in Nat
      <3>1. y \div 2 \in Nat
        OBVIOUS
      <3>2. PICK z : z = g[m \div 2][y \div 2]
        OBVIOUS
      <3>3. z \in Nat
        BY <2>6, <3>1, <3>2
      <3>4. g[m][y] = 2 * z + (IF m % 2 = 1 \/ y % 2 = 1 THEN 1 ELSE 0)
        BY <1>3, <2>3, <2>4, <3>2
      <3> QED
        BY <3>3, <3>4
    <2> QED
      BY <2>3, <2>7
  <1> QED
    BY <1>2, <1>4

\* The base address fits a register of twice the width.
LEMMA AhciFindTyped ==
  ASSUME NEW r \in Bus!Bars
  PROVE  Bus!AhciFind(r) \in 0 .. (Half * Half - 1)
  <1>1. /\ r.io \in BOOLEAN /\ r.low \in 0 .. Half - 1 /\ r.high \in 0 .. Half - 1
        /\ Half \in Nat \ {0} /\ Hhdm \in Nat
    BY BootAssumption DEF Bus!PciAssumption, Bus!Bars
  <1>2. PICK h : h = Half * (Half - 1)
    OBVIOUS
  <1>3. PICK w : w = Half * Half
    OBVIOUS
  <1>4. h \in Nat /\ w \in Nat \ {0}
    <2>1. \A x, y \in Nat : x * y \in Nat
      OBVIOUS
    <2>2. \A x, y \in Nat \ {0} : x * y \in Nat \ {0}
      OBVIOUS
    <2>3. Half - 1 \in Nat
      BY <1>1
    <2> QED
      BY ONLY <1>1, <1>2, <1>3, <2>1, <2>2, <2>3
  <1>5. r.low \in Nat /\ r.high \in Nat
    BY <1>1
  <1>6. Bus!SignExtended(r.low) \in Nat
    <2>1. Bus!SignExtended(r.low) \in {r.low, r.low + h}
      BY <1>2 DEF Bus!SignExtended
    <2>2. r.low + h \in Nat
      BY <1>4, <1>5
    <2> QED
      BY <1>5, <2>1, <2>2
  <1>7. Bus!Or(Bus!SignExtended(r.low), r.high) \in Nat
    BY <1>5, <1>6, OrTyped
  <1>8. \/ Bus!AhciFind(r) = 0
        \/ \E a \in Nat : Bus!AhciFind(r) = (a + Hhdm) % w
    BY <1>3, <1>5, <1>7 DEF Bus!AhciFind
  <1>9. \A a \in Nat : (a + Hhdm) % w \in 0 .. w - 1
    BY ONLY <1>1, <1>4
  <1> QED
    BY <1>3, <1>4, <1>8, <1>9

\* Everything that happens to the bus happens in a step of its module.
LEMMA BusSteps ==
  [Next]_vars => Bus!Next \/ UNCHANGED busVars
  BY DEF Next, Thread, ParseCmd, MemoryInit, KeyboardInit, PciInit, Handle,
         Proceed, Enter, Hardware, PressKey, Offer, Interrupt, Ended, vars

LEMMA ControllerKeeps ==
  ASSUME Controller, Bus!Next
  PROVE  Controller'
  <1>0. /\ bar \in Bus!Bars \cup {Null} /\ ahci.base \in 0 .. (Half * Half - 1)
        /\ ahci = [used |-> ahci.used, initialized |-> ahci.initialized,
                   address |-> ahci.address, base |-> ahci.base]
        /\ ahci.initialized => ahci.base = Bus!AhciFind(bar) /\ ahci.base # 0
    BY DEF Controller
  <1>1. ASSUME NEW kind, Bus!Scan(kind)
        PROVE  Controller'
    <2>1. bar' = bar
      BY <1>1 DEF Bus!Scan
    <2>2. \/ ahci' = ahci
          \/ ahci' = [ahci EXCEPT !.used = TRUE, !.address = Bus!Here]
      BY <1>1 DEF Bus!Scan, Bus!Nothing, Bus!Disk, Bus!Ahci, Bus!Other
    <2>3. /\ ahci'.initialized = ahci.initialized /\ ahci'.base = ahci.base
          /\ ahci' = [used |-> ahci'.used, initialized |-> ahci'.initialized,
                      address |-> ahci'.address, base |-> ahci'.base]
      BY <1>0, <2>2
    <2>4. Bus!AhciFind(bar)' = Bus!AhciFind(bar)
      BY <2>1 DEF Bus!AhciFind
    <2> QED
      BY <1>0, <2>1, <2>3, <2>4 DEF Controller
  <1>2. CASE Bus!AhciInit
    <2>1. PICK r \in Bus!Bars :
            /\ bar' = r
            /\ ahci' = [ahci EXCEPT !.base = Bus!AhciFind(r),
                                    !.initialized = Bus!AhciFind(r) # 0]
      BY <1>2 DEF Bus!AhciInit
    <2>2. PICK f : f = Bus!AhciFind(r)
      OBVIOUS
    <2>3. f \in 0 .. (Half * Half - 1)
      BY <2>2, AhciFindTyped
    <2>4. ahci' = [ahci EXCEPT !.base = f, !.initialized = f # 0]
      BY <2>1, <2>2
    <2>5. /\ ahci'.base = f /\ (ahci'.initialized <=> f # 0)
          /\ ahci' = [used |-> ahci'.used, initialized |-> ahci'.initialized,
                      address |-> ahci'.address, base |-> ahci'.base]
      BY <1>0, <2>4
    <2>6. Bus!AhciFind(bar)' = f
      BY <2>1, <2>2 DEF Bus!AhciFind
    <2> QED
      BY <2>1, <2>3, <2>5, <2>6 DEF Controller
  <1> QED
    BY <1>1, <1>2 DEF Bus!Next

\* The lists of devices and disks are those of the bus, for every sequence of
\* functions and however the vectors grew, and a controller with a 32-bit
\* address is found where its register says.
THEOREM DevicesFound == Spec => []DevicesListed
  <1>1. Init => BusInv /\ Controller
    <2> SUFFICES ASSUME Init PROVE BusInv /\ Controller
      OBVIOUS
    <2>1. /\ seen = <<>> /\ devices = Bus!EmptyVector /\ disks = Bus!EmptyVector
          /\ ahci = [used |-> FALSE, initialized |-> FALSE, address |-> Null, base |-> 0]
          /\ bar = Null
      BY DEF Init, Bus!Init
    <2>2. NFunctions \in Nat /\ Half \in Nat \ {0}
      BY BootAssumption DEF Bus!PciAssumption
    <2>3. \A E, name : VectorOf(Bus!EmptyVector, name, E)
      BY DEF VectorOf, Bus!EmptyVector
    <2>4. \A kinds : CountIn(seen, kinds, Len(seen)) = 0
      BY <2>1, CountNone
    <2>5. ListedIn(seen, devices) /\ PairedIn(seen, devices, disks)
      BY <2>1, <2>4 DEF ListedIn, PairedIn, Bus!EmptyVector
    <2>6. BusInv
      BY <2>1, <2>2, <2>3, <2>5 DEF BusInv, Bus!EmptyVector
    <2>7. 0 \in 0 .. Half * Half - 1
      <3>1. \A x, y \in Nat \ {0} : x * y \in Nat \ {0}
        OBVIOUS
      <3>2. PICK w : w = Half * Half
        OBVIOUS
      <3>3. w \in Nat \ {0}
        BY <2>2, <3>1, <3>2
      <3> QED
        BY <3>2, <3>3
    <2>8. Controller
      BY <2>1, <2>7 DEF Controller
    <2> QED
      BY <2>6, <2>8
  <1>2. BusInv /\ Controller /\ [Next]_vars => BusInv' /\ Controller'
    <2> SUFFICES ASSUME BusInv, Controller, [Next]_vars
                 PROVE  BusInv' /\ Controller'
      OBVIOUS
    <2>1. CASE UNCHANGED busVars
      <3>1. UNCHANGED <<seen, devices, disks>> /\ UNCHANGED <<ahci, bar>>
        BY <2>1, Zenon DEF busVars
      <3>2. BusInv'
        BY <3>1 DEF BusInv, ListedIn, PairedIn, VectorOf
      <3>3. Bus!AhciFind(bar)' = Bus!AhciFind(bar)
        BY <3>1 DEF Bus!AhciFind
      <3>4. Controller'
        BY <3>1, <3>3 DEF Controller
      <3> QED
        BY ONLY <3>2, <3>4
    <2>2. CASE Bus!Next
      <3>1. Controller'
        BY <2>2, ControllerKeeps
      <3>2. ASSUME NEW kind \in Functions, Bus!Scan(kind) PROVE BusInv'
        BY <3>2, ScanKeeps
      <3>3. ASSUME Bus!AhciInit PROVE BusInv'
        <4>1. UNCHANGED <<seen, devices, disks>>
          BY <3>3 DEF Bus!AhciInit
        <4> QED
          BY <4>1 DEF BusInv, ListedIn, PairedIn, VectorOf
      <3>4. (\E kind \in Functions : Bus!Scan(kind)) \/ Bus!AhciInit
        BY <2>2, Zenon DEF Bus!Next
      <3>5. BusInv'
        BY ONLY <3>2, <3>3, <3>4
      <3> QED
        BY <3>1, <3>5
    <2> QED
      BY <2>1, <2>2, BusSteps
  <1>3. BusInv /\ Controller => DevicesListed
    <2> SUFFICES ASSUME BusInv, Controller PROVE DevicesListed
      OBVIOUS
    <2>1. Bus!Listed /\ Bus!DisksPaired
      BY ListsAre DEF BusInv
    <2>2. Bus!PciTypeOK
      BY DEF BusInv, Controller, VectorOf, Bus!PciTypeOK
    <2>3. Bus!BaseIsRegister
      <3> SUFFICES ASSUME ahci.initialized, bar.type = 0
                   PROVE  ahci.base = (bar.low + Hhdm) % (Half * Half)
        BY DEF Bus!BaseIsRegister
      <3>1. ahci.base = Bus!AhciFind(bar) /\ ahci.base # 0
        BY DEF Controller
      <3> QED
        BY <3>1 DEF Bus!AhciFind
    <2> QED
      BY <2>1, <2>2, <2>3 DEF DevicesListed
  <1> QED
    BY <1>1, <1>2, <1>3, PTL DEF Spec
=============================================================================
