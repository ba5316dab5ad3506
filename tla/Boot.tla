---------------------------------- MODULE Boot ----------------------------------
(***************************************************************************)
(* init() of lib/src/k_management.c as one thread: parse_cmd(),            *)
(* memory_init(), and of hardware_init() keyboard_init() and pci_init(),   *)
(* each from its own module, in this order.  The keyboard and its          *)
(* interrupt controller work beside the thread from interrupts_init() on;  *)
(* an interrupt handler keeps the thread from running.                     *)
(*                                                                         *)
(* Bound: of the command line, the memory map, the keyboard and the bus    *)
(* one at a time, `unusual', takes all its values, the others are plain.   *)
(***************************************************************************)
EXTENDS Integers, Sequences

CONSTANTS CommandLines, Vocalities,
          MemoryKinds, Lengths, Gaps, MaxEntries,
          HeapSize, PageSize, PageCount, HeaderLen, Word,
          PlainMap,    \* the memory map when something else is unusual
          Attempts, MaxKeys,
          Functions, NFunctions, Slack, Half, Halves, Hhdm, Null

VARIABLES stage, unusual,
          cmd, cmdNext, cmdPc, token, vocality, kaslr,
          ents, mapPc, heap, pageHeap, memmap, mapNext, heapIndex, pageHeapIndex, meminfo,
          pc, attempt, result, device, leds, buffer, full, irr, isr, present, handling,
          keys, early,
          seen, devices, disks, ahci, bar

Cmd == INSTANCE CommandLine WITH i <- cmdNext, pc <- cmdPc
Map == INSTANCE MemMap WITH Kinds <- MemoryKinds, i <- mapNext, pc <- mapPc
Kbd == INSTANCE KeyboardInit
Bus == INSTANCE Pci WITH Kinds <- Functions

cmdVars == <<cmd, cmdNext, cmdPc, token, vocality, kaslr>>
mapVars == <<ents, mapPc, heap, pageHeap, memmap, mapNext, heapIndex, pageHeapIndex, meminfo>>
kbdVars == <<pc, attempt, result, device, leds, buffer, full, irr, isr, present, handling,
             keys, early>>
busVars == <<seen, devices, disks, ahci, bar>>
vars == <<stage, unusual, cmdVars, mapVars, kbdVars, busVars>>

ASSUME BootAssumption ==
  /\ Cmd!CommandLineAssumption /\ Map!MemMapAssumption
  /\ Kbd!KeyboardInitAssumption /\ Bus!PciAssumption
  /\ <<>> \in CommandLines /\ "none" \in Functions

-----------------------------------------------------------------------------

Init ==
  /\ stage = "parse_cmd"
  /\ unusual \in {"command line", "memory map", "keyboard", "bus"}
  /\ \/ unusual = "memory map"
     \/ unusual # "memory map" /\ ents = PlainMap
  /\ \/ unusual = "command line"
     \/ unusual # "command line" /\ cmd = <<>>
  /\ Map!Init /\ Cmd!Init /\ Kbd!Init /\ Bus!Init

Enter(next) ==
  /\ stage' = next
  /\ UNCHANGED <<unusual, cmdVars, mapVars, kbdVars, busVars>>

ParseCmd ==
  /\ stage = "parse_cmd"
  /\ Cmd!Next
  /\ UNCHANGED <<stage, unusual, mapVars, kbdVars, busVars>>

MemoryInit ==
  /\ stage = "memory_init"
  /\ mapPc \notin {"done", "panic"} /\ Map!Next
  /\ UNCHANGED <<stage, unusual, cmdVars, kbdVars, busVars>>

\* Bound: a keyboard that is not unusual acknowledges every byte.
KeyboardInit ==
  /\ stage = "keyboard_init"
  /\ pc # "ready" /\ Kbd!Kernel
  /\ unusual = "keyboard" \/ \A k \in DOMAIN buffer' : buffer'[k] = "ack"
  /\ UNCHANGED <<stage, unusual, cmdVars, mapVars, busVars>>

\* Bound: a bus that is not unusual is empty.
PciInit ==
  /\ stage = "pci_init" /\ ~handling
  /\ Bus!Next
  /\ unusual = "bus" \/ \A k \in DOMAIN seen' : seen'[k] = "none"
  /\ UNCHANGED <<stage, unusual, cmdVars, mapVars, kbdVars>>

\* The interrupt handler of the keyboard, once it is there.
Handle ==
  /\ pc = "ready" /\ Kbd!Handle
  /\ UNCHANGED <<stage, unusual, cmdVars, mapVars, busVars>>

\* The next call, or the end in panic().
Proceed ==
  \/ stage = "parse_cmd" /\ cmdPc = "done" /\ Enter("memory_init")
  \/ stage = "memory_init" /\ mapPc = "panic" /\ Enter("panic")
  \/ stage = "memory_init" /\ mapPc = "done" /\ Enter("keyboard_init")
  \/ stage = "keyboard_init" /\ pc = "ready" /\ Enter("pci_init")
  \/ /\ stage = "pci_init" /\ ~handling
     /\ Len(seen) = NFunctions /\ (ahci.used => bar # Null)
     /\ Enter("shell")

Thread == ParseCmd \/ MemoryInit \/ KeyboardInit \/ PciInit \/ Handle \/ Proceed

\* The user, the keyboard and the controllers, with interrupts enabled.
Hardware(Step) ==
  /\ stage \in {"keyboard_init", "pci_init", "shell"}
  /\ Step
  /\ UNCHANGED <<stage, unusual, cmdVars, mapVars, busVars>>

PressKey == unusual = "keyboard" /\ Hardware(Kbd!PressKey)
Offer == Hardware(Kbd!Offer)
Interrupt == Hardware(Kbd!Interrupt)

Ended == stage \in {"shell", "panic"} /\ UNCHANGED vars

Next == Thread \/ PressKey \/ Offer \/ Interrupt \/ Ended

\* The processor runs on, and keyboard and controllers do their work; nobody
\* has to press a key.
Spec == Init /\ [][Next]_vars /\ WF_vars(Thread) /\ WF_vars(Offer) /\ WF_vars(Interrupt)

-----------------------------------------------------------------------------

\* The kernel gets to its shell, or reports that it cannot: init() ends for
\* every command line, memory map and bus, and whatever keys are pressed.
BootEnds == <>(stage \in {"shell", "panic"})

\* Both heaps get usable memory, and not the same.
Reserved == Map!Reserved

\* The kernel's map says of each byte what the boot loader's does, in order and
\* with the right totals, whatever was joined, inserted and corrected in it, and
\* a heap the parser notices has one entry, of its length, to itself.
MapIsTrue == Map!TypeOK /\ Map!Truthful /\ Map!Ordered /\ Map!HeapListed /\ Map!Accounted

\* The last level given on the command line holds, and randomization is on when
\* some switch enables it, also behind unknown switches and levels.
SwitchesHold == Cmd!LastLevelHolds /\ Cmd!EnabledHolds

\* No answer of the keyboard to a byte of its initialization is taken for one to
\* a later byte, unless keys are pressed meanwhile, and afterwards no interrupt
\* stays in service without its handler.
KeyboardReady == Kbd!NoAnswerLeft /\ Kbd!LineFree

\* If no key was pressed before, every key pressed from the end of keyboard_init()
\* on reaches its handler, also during the enumeration of the bus.
KeysHandled == Kbd!KeysHandled

\* The lists of devices and disks are those of the bus, in its order, although
\* controllers are entered and taken back, and go with each other; a controller
\* with a 32-bit address is found where its register says.
DevicesListed == Bus!PciTypeOK /\ Bus!Listed /\ Bus!DisksPaired /\ Bus!BaseIsRegister
=============================================================================
