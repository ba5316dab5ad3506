------------------------------ MODULE KeyboardInit ------------------------------
(***************************************************************************)
(* keyboard_init() of lib/src/hw/keyboard.c, which runs with interrupts    *)
(* enabled since interrupts_init(): the command that sets the leds is sent *)
(* and its answers are polled before vector 33 is present, so that the     *)
(* first byte of the keyboard raises segment-not-present and its interrupt *)
(* is never ended; pic_remap() starts the interrupt controller afresh.     *)
(* The keyboard answers a byte at once, and keys are pressed meanwhile.    *)
(***************************************************************************)
EXTENDS Naturals, Sequences

CONSTANTS Attempts,    \* the turns of keyboard_send_cmd_data() (8)
          MaxKeys      \* bound: the keys pressed

KeyboardInitAssumption == {Attempts, MaxKeys} \subseteq Nat

VARIABLES pc, attempt,
          result,      \* what keyboard_send_cmd_data() returned
          device,      \* what the keyboard waits for: "command" or "data"
          leds,        \* history: the keyboard has acknowledged the data
          buffer,      \* the bytes from the keyboard, the oldest first
          full,        \* the oldest is at the data port
          irr, isr,    \* IRQ 1 is requested, is in service
          present,     \* idt[33]
          handling,    \* interrupt_keyboard_input() runs
          keys, early  \* history: keys pressed, and how many of them too early

kbd == <<device, leds>>
pic == <<irr, isr>>
counts == <<keys, early>>
vars == <<pc, attempt, result, kbd, buffer, full, pic, present, handling, counts>>

-----------------------------------------------------------------------------

\* idt[33] as interrupts_init() leaves it.
Present == FALSE

Init == /\ pc = "send command" /\ attempt = 1 /\ result = FALSE
        /\ device = "command" /\ leds = FALSE
        /\ buffer = <<>> /\ full = FALSE
        /\ irr = FALSE /\ isr = FALSE
        /\ present = Present /\ handling = FALSE
        /\ keys = 0 /\ early = 0

\* A byte reaches the keyboard: it acknowledges what it waits for, or asks for
\* it once more; data where it waits for a command is none.
Answer(byte) ==
  \/ /\ buffer' = Append(buffer, "resend")
     /\ device' = IF byte = "command" THEN "command" ELSE device
     /\ UNCHANGED leds
  \/ /\ byte = "command" \/ device = "data"
     /\ buffer' = Append(buffer, "ack")
     /\ device' = IF byte = "command" THEN "data" ELSE "command"
     /\ leds' = (byte = "data")

\* keyboard_send_byte()
SendByte(byte, next) ==
  /\ ~handling
  /\ Answer(byte)
  /\ pc' = next
  /\ UNCHANGED <<attempt, result, full, pic, present, handling, counts>>

SendCommand == pc = "send command" /\ SendByte("command", "command answer")
SendData == pc = "send data" /\ SendByte("data", "data answer")

\* The byte at the data port is read; a request not served yet falls.
ReadPort == full /\ full' = FALSE /\ buffer' = Tail(buffer) /\ irr' = FALSE

NextAttempt ==
  IF attempt < Attempts THEN pc' = "send command" /\ attempt' = attempt + 1
                        ELSE pc' = "set gate" /\ UNCHANGED attempt

\* Mutant of CommandAnswer: the answer to the command is not waited for.
CommandAnswerUnread ==
  /\ pc = "command answer" /\ ~handling
  /\ pc' = "send data"
  /\ UNCHANGED <<attempt, result, kbd, buffer, full, pic, present, handling, counts>>

\* The rest of a turn of keyboard_send_cmd_data(): keyboard_receive_byte() has
\* waited for the byte.
CommandAnswer ==
  /\ pc = "command answer" /\ ~handling
  /\ ReadPort
  /\ IF Head(buffer) = "resend" THEN NextAttempt ELSE pc' = "send data" /\ UNCHANGED attempt
  /\ UNCHANGED <<result, kbd, isr, present, handling, counts>>

DataAnswer ==
  /\ pc = "data answer" /\ ~handling
  /\ ReadPort
  /\ IF Head(buffer) = "ack" THEN pc' = "set gate" /\ result' = TRUE /\ UNCHANGED attempt
                             ELSE NextAttempt /\ UNCHANGED result
  /\ UNCHANGED <<kbd, isr, present, handling, counts>>

\* The rest of keyboard_init(): the gate, then pic_remap().
SetGate ==
  /\ pc = "set gate" /\ ~handling
  /\ present' = TRUE /\ pc' = "remap"
  /\ UNCHANGED <<attempt, result, kbd, buffer, full, pic, handling, counts>>

Remap ==
  /\ pc = "remap" /\ ~handling
  /\ irr' = FALSE /\ isr' = FALSE /\ pc' = "ready"
  /\ UNCHANGED <<attempt, result, kbd, buffer, full, present, handling, counts>>

\* Bound: MaxKeys.
PressKey ==
  /\ keys < MaxKeys
  /\ buffer' = Append(buffer, "key")
  /\ keys' = keys + 1
  /\ early' = IF pc = "ready" THEN early ELSE early + 1
  /\ UNCHANGED <<pc, attempt, result, kbd, full, pic, present, handling>>

\* The controller puts the next byte at the data port and requests IRQ 1.
Offer ==
  /\ ~full /\ buffer # <<>>
  /\ full' = TRUE /\ irr' = TRUE
  /\ UNCHANGED <<pc, attempt, result, kbd, buffer, isr, present, handling, counts>>

\* IRQ 1 is delivered.  Without a gate the handler of segment-not-present
\* returns and nobody ends the interrupt.
Interrupt ==
  /\ irr /\ ~isr
  /\ irr' = FALSE /\ isr' = TRUE /\ handling' = present
  /\ UNCHANGED <<pc, attempt, result, kbd, buffer, full, present, counts>>

\* Mutant of Handle: the handler leaves without ending the interrupt.
HandleNoEnd ==
  /\ handling
  /\ ReadPort
  /\ handling' = FALSE
  /\ UNCHANGED <<pc, attempt, result, kbd, isr, present, counts>>

\* interrupt_keyboard_input(), which waits for its byte, too, and the end of
\* the interrupt in isr_int_keyboard_input.
Handle ==
  /\ handling
  /\ ReadPort
  /\ handling' = FALSE /\ isr' = FALSE
  /\ UNCHANGED <<pc, attempt, result, kbd, present, counts>>

Kernel == SendCommand \/ SendData \/ CommandAnswer \/ DataAnswer \/ SetGate \/ Remap \/ Handle

Next == Kernel \/ PressKey \/ Offer \/ Interrupt

\* The processor runs on, and keyboard and controllers do their work; nobody
\* has to press a key.
Spec == Init /\ [][Next]_vars /\ WF_vars(Kernel) /\ WF_vars(Offer) /\ WF_vars(Interrupt)

-----------------------------------------------------------------------------

\* Once the keyboard is initialized no interrupt is in service without its
\* handler: those nobody ended before do not keep later keys from the kernel.
LineFree == (pc = "ready" /\ isr) => handling

\* The answers are the ones to the bytes sent: when none is awaited, the bytes
\* left are keys' in number, so that none is left if no key was pressed.
NoAnswerLeft ==
  (pc \in {"send command", "send data", "set gate"} /\ ~handling)
    => Len(buffer) = early

\* Initialization ends whatever keys are pressed: no interrupt handler takes an
\* answer away from the loop that waits for it.
InitEnds == <>(pc = "ready")

\* If no key was pressed before, every later one reaches its handler.
KeysHandled == (pc = "ready" /\ early = 0 /\ buffer # <<>>) ~> buffer = <<>>

\* keyboard.c:48, "sends command with data and returns true if the keyboard
\* answers with ACK": when it returns true, the data has been acknowledged.
DataAcknowledged == result => leds
=============================================================================
