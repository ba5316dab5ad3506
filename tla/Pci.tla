---------------------------------- MODULE Pci ----------------------------------
(***************************************************************************)
(* The enumeration of lib/src/hw/pci/pci.c: pci_scan_bus() looks at one    *)
(* function of the bus after another and enters what it finds in the       *)
(* vectors `devices' and `disks'; pci_init() then calls ahci_init() of     *)
(* lib/src/hw/ahci.c.  Both vectors come from vector_instance_cd: the      *)
(* first push and a push within the capacity leave the element as the      *)
(* memory is, a push that reallocates constructs it.  A block is named by  *)
(* its vector and the position of the function that made it grow.          *)
(***************************************************************************)
EXTENDS Integers, Sequences, FiniteSets

CONSTANTS Kinds,        \* what a function of the bus can be
          NFunctions,   \* bound: the functions scanned (256 * 8 * 8)
          Slack,        \* bound: elements a block holds beyond those asked for
          Half,         \* 2^32: a base address register holds less
          Halves,       \* bound: the values of a base address register
          Hhdm,         \* pages.hhdm
          Null

DiskKinds == {"vendor specific", "ata bus", "nvm", "unknown"}
OtherKinds == {"display controller", "processor", "base peripheral"}

PciAssumption ==
  /\ Kinds \subseteq {"none", "ahci"} \cup DiskKinds \cup OtherKinds
  /\ {NFunctions, Slack, Hhdm} \subseteq Nat /\ Half \in Nat \ {0}
  /\ Halves \subseteq 0 .. Half - 1
  /\ Null \notin {"devices", "disks"} \X (1 .. NFunctions)

VARIABLES seen,      \* history: the functions looked at so far
          devices, disks, ahci,
          bar        \* the base address register ahci_find() read, or Null

vars == <<seen, devices, disks, ahci, bar>>

-----------------------------------------------------------------------------

EmptyVector == [data |-> Null, len |-> 0, mem |-> <<>>]

Here == Len(seen) + 1

\* A disk's discovery is named by the function it was read from.  Memory that
\* is not written may hold a copy of any that was found, or something else.
NotFound == 0
Stale == {NotFound} \cup {k \in DOMAIN seen : seen[k] = "vendor specific"}

RawDevices == {[type |-> "raw", ptr |-> "raw", allocated |-> "raw"]}
RawDisks == [connect : {"raw"}, discovery : Stale, type : {"raw"}]

\* dev_construct(); disk_construct() leaves the discovery as the memory is.
BuiltDevices == {[type |-> "undefined", ptr |-> Null, allocated |-> FALSE]}
BuiltDisks == [connect : {"unknown"}, discovery : Stale, type : {"undefined"}]

Bars == [io : BOOLEAN, type : 0 .. 2, low : Halves, high : Halves]

Init == /\ seen = <<>>
        /\ devices = EmptyVector /\ disks = EmptyVector
        /\ ahci = [used |-> FALSE, initialized |-> FALSE, address |-> Null, base |-> 0]
        /\ bar = Null

\* Memory of n elements, or up to Slack more, that nobody has written.
Unwritten(raws, n) == UNION {[1 .. n + extra -> raws] : extra \in 0 .. Slack}

\* Full memory made larger, with its next element constructed.
Extended(mem, raws, builts) ==
  {Append(mem, built) \o rest : built \in builts, rest \in Unwritten(raws, 0)}

\* devices_push(1), disks_push(1): what can have become of the vector.
Pushed(v, name, raws, builts) ==
  IF v.data = Null
  THEN {[data |-> <<name, Here>>, len |-> 1, mem |-> mem] : mem \in Unwritten(raws, 1)}
  ELSE IF v.len < Len(v.mem)
  THEN {[v EXCEPT !.len = @ + 1]}
  ELSE {[data |-> block, len |-> v.len + 1, mem |-> mem] :
          block \in {v.data, <<name, Here>>}, mem \in Extended(v.mem, raws, builts)}

PushedDevices == Pushed(devices, "devices", RawDevices, BuiltDevices)
PushedDisks == Pushed(disks, "disks", RawDisks, BuiltDisks)

Nothing(kind) == kind = "none" /\ UNCHANGED <<devices, disks, ahci>>

\* Mutant of Disk: the pointer is that of the vector before its push.
DiskBefore(kind) ==
  /\ kind \in DiskKinds
  /\ \E v \in PushedDevices, k \in PushedDisks :
       /\ disks' = [k EXCEPT !.mem[k.len].connect = kind]
       /\ devices' = [v EXCEPT !.mem[v.len] =
                         [@ EXCEPT !.type = "disk", !.ptr = <<disks.data, disks.len>>]]
  /\ UNCHANGED ahci

\* Only for a vendor specific disk its discovery is written.
Found(kind, before) == IF kind = "vendor specific" THEN Here ELSE before

\* The disks behind mass storage controllers.
Disk(kind) ==
  /\ kind \in DiskKinds
  /\ \E v \in PushedDevices, k \in PushedDisks :
       /\ disks' = [k EXCEPT !.mem[k.len] =
                       [@ EXCEPT !.connect = kind,
                                 !.discovery = Found(kind, k.mem[k.len].discovery)]]
       /\ devices' = [v EXCEPT !.mem[v.len] =
                         [@ EXCEPT !.type = "disk", !.ptr = <<k.data, k.len>>]]
  /\ UNCHANGED ahci

\* An AHCI controller: the entry is taken back by devices.len--.
Ahci(kind) ==
  /\ kind = "ahci"
  /\ \E v \in PushedDevices :
       devices' = [v EXCEPT !.mem[v.len].type = "disk", !.len = @ - 1]
  /\ ahci' = [ahci EXCEPT !.used = TRUE, !.address = Here]
  /\ UNCHANGED disks

Other(kind) ==
  /\ kind \in OtherKinds
  /\ \E v \in PushedDevices : devices' = [v EXCEPT !.mem[v.len].type = kind]
  /\ UNCHANGED <<disks, ahci>>

\* One turn of the loops of pci_scan_bus().
Scan(kind) ==
  /\ Len(seen) < NFunctions
  /\ Nothing(kind) \/ Disk(kind) \/ Ahci(kind) \/ Other(kind)
  /\ seen' = Append(seen, kind)
  /\ UNCHANGED bar

\* a | b
Or(a, b) ==
  LET or[x \in 0 .. a] ==
        [y \in Nat |-> IF x = 0 THEN y
                      ELSE 2 * or[x \div 2][y \div 2]
                           + (IF x % 2 = 1 \/ y % 2 = 1 THEN 1 ELSE 0)]
  IN or[a][b]

\* A register shifted as an int: its highest bit fills the upper half.
SignExtended(low) == IF low >= Half \div 2 THEN low + Half * (Half - 1) ELSE low

\* ahci_find(): the base address of the controller's registers.
AhciFind(r) ==
  IF r.io \/ r.type = 1 THEN 0
  ELSE LET a == IF r.type = 0 THEN r.low ELSE Or(SignExtended(r.low), r.high)
       IN (a + Hhdm) % (Half * Half)

\* ahci_init(), of a controller that was found.
AhciInit ==
  /\ Len(seen) = NFunctions
  /\ ahci.used /\ bar = Null
  /\ \E r \in Bars :
       /\ bar' = r
       /\ ahci' = [ahci EXCEPT !.base = AhciFind(r), !.initialized = AhciFind(r) # 0]
  /\ UNCHANGED <<seen, devices, disks>>

Next == (\E kind \in Kinds : Scan(kind)) \/ AhciInit

Spec == Init /\ [][Next]_vars

-----------------------------------------------------------------------------

PciTypeOK ==
  /\ seen \in Seq(Kinds) /\ bar \in Bars \cup {Null}
  /\ \A v \in {devices, disks} :
       /\ v.len <= Len(v.mem)
       /\ (v.data = Null) = (v.mem = <<>>)
  /\ ahci.base \in 0 .. (Half * Half - 1)

\* The functions of these kinds among the first n.
Count(kinds, n) == Cardinality({k \in 1 .. n : seen[k] \in kinds})

Shown == DiskKinds \cup OtherKinds

\* The list the `devices' command shows: every function with an entry of its
\* own, in the order of the bus, whatever was taken back in between.
Listed ==
  /\ devices.len = Count(Shown, Len(seen))
  /\ \A k \in DOMAIN seen :
       seen[k] \in Shown =>
         devices.mem[Count(Shown, k)].type = IF seen[k] \in DiskKinds THEN "disk" ELSE seen[k]

\* The disks are those of the bus in its order, and the entry of a disk in the
\* list of devices was given that disk, in the block the vector of disks had
\* then: its pointer is good until a later function makes that vector move.
\* The discovery of a vendor specific disk is its own, whatever was left in the
\* memory it was pushed to; that of the others is not written.
DisksPaired ==
  /\ disks.len = Count(DiskKinds, Len(seen))
  /\ \A k \in DOMAIN seen :
       LET disk == disks.mem[Count(DiskKinds, k)]
       IN seen[k] \in DiskKinds =>
            /\ LET ptr == devices.mem[Count(Shown, k)].ptr
               IN ptr[2] = Count(DiskKinds, k) /\ (ptr[1] = disks.data \/ disks.data[2] > k)
            /\ disk.connect = seen[k]
            /\ seen[k] = "vendor specific" => disk.discovery = k

\* A controller with a 32-bit base address is found where the register says.
BaseIsRegister ==
  (ahci.initialized /\ bar.type = 0) => ahci.base = (bar.low + Hhdm) % (Half * Half)

\* device.h:61, "all devices are have the same header": the pointer of a disk
\* is that of an entry of the vector of disks, for the shell to read.
PointersLive ==
  \A i \in 1 .. devices.len :
    devices.mem[i].type = "disk" => devices.mem[i].ptr[1] = disks.data

\* ahci.c:71, "64-bit address": the address is that of both registers.
BaseIs64Bit ==
  (ahci.initialized /\ bar.type = 2)
    => ahci.base = (bar.high * Half + bar.low + Hhdm) % (Half * Half)
=============================================================================
