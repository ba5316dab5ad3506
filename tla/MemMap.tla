------------------------------- MODULE MemMap -------------------------------
(***************************************************************************)
(* How memory_init() (lib/src/memory.c) turns the boot loader's memory map *)
(* into the kernel's own: heap_reserve_memory() and                        *)
(* page_heap_reserve_memory() choose the memory of the two heaps,          *)
(* memmap_parse() joins entries, gives the heaps entries of their own and  *)
(* memmap_analyze() adds up what there is.                                 *)
(*                                                                         *)
(* Everything runs once, on the only thread, with interrupts off; a step   *)
(* is one call or one iteration of the loop of memmap_parse().             *)
(***************************************************************************)
EXTENDS Integers, Sequences, FiniteSets, FiniteSetsExt

CONSTANTS Kinds,       \* bound: the types of the boot loader's entries
          Lengths,     \* bound: their lengths
          Gaps,        \* bound: the unlisted memory before an entry
          MaxEntries,  \* bound: how many there are
          HeapSize,    \* HEAP_MINIMAL_ENTRY_SIZE * KB
          PageSize,    \* PAGE_SIZE
          PageCount,   \* PAGE_COUNT
          HeaderLen,   \* heap_segment_t.size in front of memmap.data
          Word         \* 2^64

MemMapAssumption ==
  /\ Lengths \subseteq Nat \ {0} /\ Gaps \subseteq Nat
  /\ {HeapSize, PageSize, PageCount, HeaderLen, Word} \subseteq Nat \ {0}

VARIABLES ents,       \* the boot loader's map: base, length, type
          pc,         \* the next call
          heap,       \* heap.physical.start, or None
          pageHeap,   \* page_heap.physical.start, or None
          memmap,     \* the kernel's map: base, len, type
          i,          \* memmap_parse(): the next entry of ents
          heapIndex, pageHeapIndex,  \* memmap_parse(): zero-based, or -1
          meminfo     \* memmap_analyze(): the totals

heaps == <<heap, pageHeap>>
vars == <<ents, pc, heap, pageHeap, memmap, i, heapIndex, pageHeapIndex,
          meminfo>>

None == -1

\* memmap_entry_type()
memmap_entry_type ==
  [usable |-> "usable", reserved |-> "reserved", framebuffer |-> "other",
   bad_memory |-> "bad", acpi_nvs |-> "acpi", kernel |-> "kernel",
   bootloader_reclaimable |-> "reclaimable",
   acpi_reclaimable |-> "reclaimable"]

Type(k) == memmap_entry_type[ents[k].type]

EntryEnd(e) == e.base + e.length

-----------------------------------------------------------------------------
(* The reservations.                                                        *)

\* Mutant of RunStart: other entries do not end a run.
RunStartAny(accept, k) == Min({j \in 1 .. k : ents[j].type \in accept})

\* The first entry of the run of accepted entries that ends with entry k.
RunStart(accept, k) ==
  Min({j \in 1 .. k : \A l \in j .. k : ents[l].type \in accept})

\* The entries at which the sum of such a run is large enough.
LargeEnough(accept) ==
  {k \in DOMAIN ents :
     /\ ents[k].type \in accept
     /\ MapThenSumSet(LAMBDA l : ents[l].length, RunStart(accept, k) .. k)
          >= HeapSize}

\* heap_reserve_memory()
heap_reserve_memory(accept) ==
  IF LargeEnough(accept) = {}
  THEN None
  ELSE ents[RunStart(accept, Min(LargeEnough(accept)))].base

\* page_heap.size, in pages
PageHeapPages ==
  LET pages == (HeapSize \div PageSize)
               * (IF HeapSize % PageSize # 0 THEN 1 ELSE 0)
  IN ((pages \div PageCount) + 1) * PageCount

PageHeapSize == PageHeapPages * PageSize

GoodSpots(start) ==
  {k \in DOMAIN ents : /\ ents[k].type = "usable"
                       /\ ents[k].base # start
                       /\ ents[k].length >= PageHeapSize}

\* page_heap_reserve_memory(): the first usable entry that is large enough
\* and does not begin with the heap.
page_heap_reserve_memory(start) ==
  IF GoodSpots(start) = {} THEN None ELSE ents[Min(GoodSpots(start))].base

\* The calls in memory_init() and page_init(), which panic if they fail.
MemoryInit ==
  /\ pc = "memory_init"
  /\ heap' = heap_reserve_memory({"usable"})
  /\ pc' = IF heap' = None THEN "panic" ELSE "page_init"
  /\ UNCHANGED <<ents, pageHeap, memmap, i, heapIndex, pageHeapIndex, meminfo>>

PageInit ==
  /\ pc = "page_init"
  /\ heap' = heap_reserve_memory({"usable"})
  /\ pageHeap' = page_heap_reserve_memory(heap')
  /\ pc' = IF heap' = None \/ pageHeap' = None THEN "panic" ELSE "first"
  /\ UNCHANGED <<ents, memmap, i, heapIndex, pageHeapIndex, meminfo>>

-----------------------------------------------------------------------------
(* memmap_parse()                                                           *)

\* The last entry of the run of entries of type t behind entry k.
RunEnd(k, t) ==
  Max({k} \cup {j \in k + 1 .. Len(ents) : \A l \in k + 1 .. j : Type(l) = t})

\* The first entry.  The loop compares with `tmp', which is still undefined.
ParseFirst ==
  /\ pc = "first"
  /\ LET last == RunEnd(1, "undefined")
     IN /\ memmap' = <<[base |-> ents[1].base,
                        len |-> EntryEnd(ents[last]) - ents[1].base,
                        type |-> Type(1)]>>
        /\ i' = last + 1
  /\ pc' = "groups"
  /\ UNCHANGED <<ents, heaps, heapIndex, pageHeapIndex, meminfo>>

\* The entry pushed in front of a group that begins with one of the heaps.
HeapEntry(k) ==
  IF ents[k].base = heap
  THEN <<[base |-> heap, len |-> HeapSize, type |-> "heap"]>>
  ELSE IF ents[k].base = pageHeap
  THEN <<[base |-> pageHeap, len |-> PageHeapSize, type |-> "heap"]>>
  ELSE <<>>

\* Mutant of Group: the entry behind the group still belongs to it.
GroupLate(k, last) ==
  [base |-> ents[k].base, type |-> Type(k),
   len |-> (IF last + 1 < Len(ents) THEN ents[last + 2].base
            ELSE EntryEnd(ents[Len(ents)])) - ents[k].base]

\* The entry for the loader's entries k to last: it reaches to the next one.
Group(k, last) ==
  [base |-> ents[k].base, type |-> Type(k),
   len |-> (IF last < Len(ents) THEN ents[last + 1].base
                                ELSE EntryEnd(ents[last])) - ents[k].base]

\* memmap.len - 1
LastIndex(es) == Len(es) - 1

\* One iteration of the loop over the groups.
ParseGroup ==
  /\ pc = "groups" /\ i <= Len(ents)
  /\ LET last == RunEnd(i, Type(i))
         pushed == memmap \o HeapEntry(i)
     IN /\ memmap' = Append(pushed, Group(i, last))
        /\ heapIndex' =
             IF ents[i].base = heap THEN LastIndex(pushed) ELSE heapIndex
        /\ pageHeapIndex' =
             IF ents[i].base # heap /\ ents[i].base = pageHeap
             THEN LastIndex(pushed) ELSE pageHeapIndex
        /\ i' = last + 1
  /\ UNCHANGED <<ents, pc, heaps, meminfo>>

\* es[index + 1] gives up the bytes of es[index].  In front of es[0] lies the
\* header of the vector's heap block, whose size is where a `len' would be.
CutOff(es, index) ==
  LET len == IF index = -1 THEN HeaderLen ELSE es[index + 1].len
  IN [es EXCEPT ![index + 2].base = (@ + len) % Word,
                ![index + 2].len = (@ - len) % Word]

Separate ==
  /\ pc = "groups" /\ i > Len(ents)
  /\ memmap' = CutOff(CutOff(memmap, heapIndex), pageHeapIndex)
  /\ pc' = "analyze"
  /\ UNCHANGED <<ents, heaps, i, heapIndex, pageHeapIndex, meminfo>>

\* The lengths of the entries of the given types.
TotalOf(types) ==
  MapThenSumSet(LAMBDA k : memmap[k].len,
                {k \in DOMAIN memmap : memmap[k].type \in types}) % Word

\* memmap_analyze()
memmap_analyze ==
  [usable |-> TotalOf({"usable"}),
   used |-> TotalOf({"heap", "stack"}),
   ring0 |-> TotalOf({"heap", "stack", "kernel", "acpi", "other"}),
   reserved |-> TotalOf({"reserved"}),
   unmapped |-> TotalOf({"bad"}),
   total |-> (memmap[Len(memmap)].base + memmap[Len(memmap)].len) % Word]

Analyze ==
  /\ pc = "analyze"
  /\ meminfo' = memmap_analyze
  /\ pc' = "done"
  /\ UNCHANGED <<ents, heaps, memmap, i, heapIndex, pageHeapIndex>>

Finished == pc \in {"done", "panic"} /\ UNCHANGED vars

-----------------------------------------------------------------------------

\* The boot loader's maps: sorted entries that do not overlap.
LoaderMap(n, gap, len, kind) ==
  LET base[k \in 1 .. n] ==
        gap[k] + (IF k = 1 THEN 0 ELSE base[k - 1] + len[k - 1])
  IN [k \in 1 .. n |-> [base |-> base[k], length |-> len[k], type |-> kind[k]]]

NoTotals == [usable |-> 0, used |-> 0, ring0 |-> 0, reserved |-> 0,
             unmapped |-> 0, total |-> 0]

Init ==
  /\ \E n \in 2 .. MaxEntries :
       \E gap \in [1 .. n -> Gaps], len \in [1 .. n -> Lengths],
          kind \in [1 .. n -> Kinds] : ents = LoaderMap(n, gap, len, kind)
  /\ pc = "memory_init"
  /\ heap = None /\ pageHeap = None
  /\ memmap = <<>> /\ i = 1 /\ heapIndex = -1 /\ pageHeapIndex = -1
  /\ meminfo = NoTotals

Next == \/ MemoryInit \/ PageInit \/ ParseFirst \/ ParseGroup
        \/ Separate \/ Analyze \/ Finished

Spec == Init /\ [][Next]_vars

-----------------------------------------------------------------------------
(* Properties.                                                              *)

Bytes(base, len) == base .. base + len - 1

\* The bytes the loader lists as usable.
Usable == UNION {Bytes(e.base, e.length) :
                   e \in {ents[k] : k \in {k \in DOMAIN ents :
                                             ents[k].type = "usable"}}}

HeapRange == Bytes(heap, HeapSize)
PageHeapRange == Bytes(pageHeap, PageHeapSize)

\* No memory between two entries of the loader is left out.
Gapless == \A k \in 1 .. Len(ents) - 1 : EntryEnd(ents[k]) = ents[k + 1].base

\* No usable entry follows another one.
Isolated == \A k \in 1 .. Len(ents) - 1 :
              ~(ents[k].type = "usable" /\ ents[k + 1].type = "usable")

\* memmap_parse() looks for a heap at the first entry of each group but the
\* first.
Noticed(start) ==
  \E k \in 2 .. Len(ents) :
    ents[k].base = start /\ (k = 2 \/ Type(k - 1) # Type(k))

Parsed == pc = "done"

\* The map and the totals have their types, and the map at least one entry
\* for each the parser has begun.
TypeOK ==
  /\ pc \in {"memory_init", "page_init", "first", "groups", "analyze", "done",
             "panic"}
  /\ \A k \in DOMAIN memmap :
       /\ memmap[k].base \in 0 .. Word - 1 /\ memmap[k].len \in 0 .. Word - 1
       /\ memmap[k].type \in {"heap"} \cup {memmap_entry_type[t] : t \in Kinds}
  /\ i \in 1 .. Len(ents) + 1
  /\ {heapIndex, pageHeapIndex} \subseteq {-1} \cup 1 .. Len(memmap) - 2
  /\ {heap, pageHeap} \subseteq {None} \cup {ents[k].base : k \in DOMAIN ents}

\* Both heaps get usable memory, and not the same, in every map in which
\* usable entries are kept apart by others, whatever the gaps.
Reserved ==
  pc = "first" /\ Isolated =>
    HeapRange \cup PageHeapRange \subseteq Usable
    /\ HeapRange \cap PageHeapRange = {}

\* Whatever the joining, the heaps and the corrections at the end did to it,
\* the kernel's map tells no lies about a map without gaps: each entry lies
\* in memory of its type, heaps in usable memory.
Truthful ==
  Parsed /\ Gapless =>
    \A m \in DOMAIN memmap :
      \A b \in Bytes(memmap[m].base, memmap[m].len) :
        \E k \in DOMAIN ents :
          /\ b \in Bytes(ents[k].base, ents[k].length)
          /\ \/ memmap[m].type = Type(k)
             \/ memmap[m].type = "heap" /\ ents[k].type = "usable"

\* If the parser notices both heaps, the entries are in order, do not overlap
\* and leave out nothing between them.
Ordered ==
  Parsed /\ Gapless /\ Isolated /\ Noticed(heap) /\ Noticed(pageHeap) =>
    \A m \in 1 .. Len(memmap) - 1 :
      memmap[m].base + memmap[m].len = memmap[m + 1].base

\* A heap the parser notices has one entry, of its length, and no byte of it
\* is in another one.
HeapListed ==
  Parsed /\ Noticed(heap) /\ Isolated =>
    \E m \in DOMAIN memmap :
      /\ memmap[m] = [base |-> heap, len |-> HeapSize, type |-> "heap"]
      /\ \A o \in DOMAIN memmap \ {m} :
           Bytes(memmap[o].base, memmap[o].len) \cap HeapRange = {}

\* With both heaps noticed and no gaps the totals are those of the loader's
\* map: the heaps are used, and the usable memory is the loader's less them.
Accounted ==
  Parsed /\ Gapless /\ Isolated /\ Noticed(heap) /\ Noticed(pageHeap) =>
    /\ meminfo.used = HeapSize + PageHeapSize
    /\ meminfo.usable + meminfo.used = Cardinality(Usable)
    /\ meminfo.total = EntryEnd(ents[Len(ents)])

\* memmap_parse(): "make heap entry not overlap other entries".
HeapSeparate ==
  Parsed /\ Gapless /\ Isolated =>
    \A m \in DOMAIN memmap :
      Bytes(memmap[m].base, memmap[m].len) \cap HeapRange # {} =>
        memmap[m].type = "heap"

\* memmap_parse(): "join entries of same type".
Joined ==
  Parsed => \A m \in 1 .. Len(memmap) - 1 :
              memmap[m].type = memmap[m + 1].type => memmap[m].type = "heap"

\* page_heap_reserve_memory(): "find usable memmap entry big enough"; memory
\* that is the kernel heap already is not usable for the page heap.
HeapsApart == pc = "first" => HeapRange \cap PageHeapRange = {}
=============================================================================
