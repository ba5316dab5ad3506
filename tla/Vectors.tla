------------------------------- MODULE Vectors -------------------------------
(***************************************************************************)
(* The vectors of lib/vector/vector.h and lib/src/vector/vector.c over the *)
(* kernel heap: the four families of functions the macros generate         *)
(* ("type", "instance", "type_cd", "instance_cd") and multipurpose_vector, *)
(* used by callers that let it construct and destruct its elements         *)
(* ("multi_cd") or not ("multi").  One vector is in use; an element is raw *)
(* memory or holds what its constructor, or its owner, put there.          *)
(***************************************************************************)
EXTENDS HeapOps, Sequences

CONSTANTS Kinds,          \* the families that are looked at
          Marks,          \* the contents of constructed elements
          ElementSize,    \* sizeof(type), bsize
          ReallocAdd,     \* VECTOR_REALLOC_ADD
          Slack,          \* VECTOR_MAX_CAPACITY_DIFFERENCE
          MaxLen,         \* bound: the elements of the vector
          MaxExtent       \* bound: bytes of heap explored beyond HeapStart

VectorsAssumption ==
  /\ Kinds \subseteq {"string", "type", "instance", "type_cd", "instance_cd", "multi", "multi_cd"}
  /\ ElementSize \in Nat \ {0}
  /\ {ReallocAdd, Slack, MaxLen, MaxExtent} \subseteq Nat
  /\ "raw" \notin Marks

VARIABLES heap, kind, vec,
          elems,     \* the contents of the vector's len elements
          resized,   \* history: resize was called on a vector with data
          wild,      \* history: a destructor ran on raw or foreign memory
          dropped,   \* history: constructed elements were given up as they are
          skipped,   \* history: a push left its elements as the memory is
          expected   \* history: what an insertion should have left, or <<>>

vars == <<heap, kind, vec, elems, resized, wild, dropped, skipped, expected>>

Constructs == kind \in {"type_cd", "instance_cd", "multi_cd"}
Multi == kind \in {"multi", "multi_cd"}

-----------------------------------------------------------------------------

Empty == [data |-> Null, len |-> 0, capacity |-> 0]

Block == vec.data - HeaderSize

Raw(n) == [i \in 1 .. n |-> "raw"]

InBounds(h) == \A s \in Segs(h) : SegEnd(h, s) <= HeapStart + MaxExtent

\* The segment of result r becomes the vector's block for len elements.
Moved(r, len) ==
  /\ InBounds(r.heap)
  /\ heap' = r.heap
  /\ vec' = [data |-> r.seg + HeaderSize, len |-> len,
             capacity |-> IF Multi THEN 0 ELSE r.heap.size[r.seg] \div ElementSize]

\* New elements behind the first n of the vector: raw, or constructed.
Extended(n, count, built) ==
  IF built
  THEN \E m \in Marks : elems' = SubSeq(elems, 1, n) \o [i \in 1 .. count |-> m]
  ELSE elems' = SubSeq(elems, 1, n) \o Raw(count)

Init == /\ heap = InitialHeap
        /\ kind \in Kinds
        /\ vec = Empty
        /\ elems = <<>>
        /\ resized = FALSE /\ wild = FALSE /\ dropped = FALSE /\ skipped = FALSE
        /\ expected = <<>>

\* A destructor has run on something else, or the heap is no longer a list of
\* the blocks handed out: anything may follow.
Broken == wild \/ heap.misused # {}

\* construct(), vecsa(), vecsac(), and resize() without data.
Construct(len) ==
  /\ vec.data = Null /\ len > 0
  /\ \E r \in Alloc(heap, len * ElementSize) : Moved(r, len)
  /\ Extended(0, len, Constructs)
  /\ UNCHANGED <<kind, resized, wild, dropped, skipped, expected>>

\* Mutant of Push: the length is compared before it is raised.
PushOneMore(count) ==
  LET len == vec.len + count
      fits == vec.len <= vec.capacity
  IN /\ vec.data # Null /\ len <= MaxLen /\ ~Multi
     /\ IF fits
        THEN heap' = heap /\ vec' = [vec EXCEPT !.len = len]
        ELSE \E r \in Realloca(heap, Block, len * ElementSize, ReallocAdd) : Moved(r, len)
     /\ Extended(vec.len, count, Constructs /\ ~fits)
     /\ skipped' = (skipped \/ (Constructs /\ fits))
     /\ UNCHANGED <<kind, resized, wild, dropped, expected>>

\* push() on a vector with data: an element that fits the capacity is not
\* constructed.
Push(count) ==
  LET len == vec.len + count
      fits == len <= vec.capacity
  IN /\ vec.data # Null /\ len <= MaxLen /\ ~Multi
     /\ IF fits
        THEN heap' = heap /\ vec' = [vec EXCEPT !.len = len]
        ELSE \E r \in Realloca(heap, Block, len * ElementSize, ReallocAdd) : Moved(r, len)
     /\ Extended(vec.len, count, Constructs /\ ~fits)
     /\ skipped' = (skipped \/ (Constructs /\ fits))
     /\ UNCHANGED <<kind, resized, wild, dropped, expected>>

\* vec_push() and vec_pushc(), which keep no capacity.
PushMulti(count) ==
  LET len == vec.len + count
  IN /\ vec.data # Null /\ len <= MaxLen /\ Multi
     /\ \E r \in Realloca(heap, Block, len * ElementSize, ReallocAdd) : Moved(r, len)
     /\ Extended(vec.len, count, Constructs)
     /\ UNCHANGED <<kind, resized, wild, dropped, skipped, expected>>

\* Mutant of PushFirst: vec_pushc() does not construct either.
PushFirstRaw(count) ==
  /\ vec.data = Null
  /\ \E r \in Alloc(heap, count * ElementSize) : Moved(r, count)
  /\ Extended(0, count, kind = "type_cd")
  /\ skipped' = (skipped \/ kind = "instance_cd")
  /\ UNCHANGED <<kind, resized, wild, dropped, expected>>

\* The first push(): vector_instance_cd does not construct.
PushFirst(count) ==
  /\ vec.data = Null
  /\ \E r \in Alloc(heap, count * ElementSize) : Moved(r, count)
  /\ Extended(0, count, kind \in {"type_cd", "multi_cd"})
  /\ skipped' = (skipped \/ kind = "instance_cd")
  /\ UNCHANGED <<kind, resized, wild, dropped, expected>>

\* The owner of an element writes it, which callers do without construction.
Fill(i) ==
  /\ i <= vec.len /\ elems[i] = "raw"
  /\ \E m \in Marks : elems' = [elems EXCEPT ![i] = m]
  /\ UNCHANGED <<heap, kind, vec, resized, wild, dropped, skipped, expected>>

\* The elements from index n + 1 on leave the vector, destructed or not.
Removed(n, destructed) ==
  /\ elems' = SubSeq(elems, 1, n)
  /\ wild' = (wild \/ (destructed /\ \E i \in n + 1 .. vec.len : elems[i] = "raw"))
  /\ dropped' = (dropped \/ (~destructed /\ n < vec.len))

\* pop(), vec_pop() and vec_popd(); vector_type_cd has its own.
Pop(count) ==
  LET len == vec.len - count
  IN /\ vec.data # Null /\ kind # "type_cd"
     /\ IF vec.len <= count
        THEN heap' = Free(heap, Block) /\ vec' = Empty
        ELSE \E r \in Realloc(heap, Block, len * ElementSize) : Moved(r, len)
     /\ Removed(IF vec.len <= count THEN 0 ELSE len, Constructs)
     /\ UNCHANGED <<kind, resized, skipped, expected>>

\* pop() of vector_type_cd destructs nothing, gives memory back for many
\* elements only, and does not reset the capacity of an emptied vector.
PopTypeCD(count) ==
  LET len == vec.len - count
  IN /\ vec.data # Null /\ kind = "type_cd"
     /\ CASE vec.len <= count ->
               /\ heap' = Free(heap, Block)
               /\ vec' = [Empty EXCEPT !.capacity = vec.capacity]
          [] vec.len > count /\ count < Slack ->
               heap' = heap /\ vec' = [vec EXCEPT !.len = len]
          [] OTHER ->
               \E r \in Realloc(heap, Block, len * ElementSize) : Moved(r, len)
     /\ Removed(IF vec.len <= count THEN 0 ELSE len, FALSE)
     /\ UNCHANGED <<kind, resized, skipped, expected>>

\* resize() and vec_resize() without constructors, on a vector with data.
ResizePlain(len) ==
  /\ vec.data # Null /\ ~Constructs /\ len # vec.len
  /\ \E r \in Realloc(heap, Block, len * ElementSize) : Moved(r, len)
  /\ IF len < vec.len THEN elems' = SubSeq(elems, 1, len)
                      ELSE Extended(vec.len, len - vec.len, FALSE)
  /\ dropped' = (dropped \/ len < vec.len)
  /\ UNCHANGED <<kind, resized, wild, skipped, expected>>

\* The same with constructors (vec_resizecd()): the branches are swapped, so
\* that a longer vector's new elements stay raw, a shorter one's old elements
\* are dropped and its capacity is left.  From length 0 the unsigned index of
\* the destructing loop wraps.
ResizeCD(len) ==
  /\ vec.data # Null /\ Constructs /\ len # vec.len
  /\ \E r \in Realloc(heap, Block, len * ElementSize) :
       /\ InBounds(r.heap)
       /\ heap' = r.heap
       /\ vec' = [data |-> r.seg + HeaderSize, len |-> len,
                  capacity |-> IF Multi THEN 0
                               ELSE IF vec.len < len
                               THEN r.heap.size[r.seg] \div ElementSize
                               ELSE vec.capacity]
  /\ IF len < vec.len THEN elems' = SubSeq(elems, 1, len)
                      ELSE Extended(vec.len, len - vec.len, FALSE)
  /\ resized' = TRUE
  /\ wild' = (wild \/ vec.len = 0)
  /\ dropped' = (dropped \/ len < vec.len)
  /\ UNCHANGED <<kind, skipped, expected>>

\* destruct(), vec_free() and vec_clear() followed by vec().
Destruct ==
  /\ vec.data # Null
  /\ heap' = Free(heap, Block)
  /\ vec' = Empty
  /\ Removed(0, Constructs)
  /\ UNCHANGED <<kind, resized, skipped, expected>>

\* vec_insert() of one element at a 0-based index.  The loop moves the element in
\* front of the place, too, and the entry returned is the one behind it.
Insert(index) ==
  LET len == vec.len + 1
      shifted == [i \in 1 .. len |-> IF i > index /\ i > 1 THEN elems[i - 1]
                                     ELSE IF i <= vec.len THEN elems[i] ELSE "raw"]
  IN /\ kind = "multi" /\ vec.data # Null /\ index < vec.len /\ len <= MaxLen
     /\ \E r \in Realloca(heap, Block, len * ElementSize, ReallocAdd) : Moved(r, len)
     /\ \E m \in Marks :
          /\ elems' = [shifted EXCEPT ![index + 2] = m]
          /\ expected' = SubSeq(elems, 1, index) \o <<m>>
                         \o SubSeq(elems, index + 1, vec.len)
     /\ UNCHANGED <<kind, resized, wild, dropped, skipped>>

Stopped == Broken /\ UNCHANGED vars

Use == \/ Destruct
       \/ \E n \in 1 .. MaxLen : \/ Construct(n) \/ Fill(n)
                                 \/ Push(n) \/ PushMulti(n) \/ PushFirst(n)
                                 \/ Pop(n) \/ PopTypeCD(n)
       \/ \E n \in 0 .. MaxLen : ResizePlain(n) \/ ResizeCD(n) \/ Insert(n)

Next == (~Broken /\ Use) \/ Stopped

Spec == Init /\ [][Next]_vars

-----------------------------------------------------------------------------

VectorTypeOK ==
  /\ HeapType(heap)
  /\ vec.data # Null => Block \in Segs(heap)
  /\ Len(elems) = vec.len
  /\ \A i \in DOMAIN elems : elems[i] \in Marks \cup {"raw"}

\* The vector's block is the only one in use and has room for its elements,
\* and so it has for the capacity unless a vector with constructors was
\* resized: then the next push may be served behind the end of the block.
BlockHolds ==
  ~Broken =>
    /\ heap.used = IF vec.data = Null THEN {} ELSE {Block}
    /\ vec.data # Null /\ ~resized =>
         heap.size[Block] >= ElementSize * (IF vec.len > vec.capacity THEN vec.len ELSE vec.capacity)

\* Of the families that construct and destruct, as long as nobody resizes: an
\* element is raw, and a destructor run on raw memory, only after a push that
\* left its elements as the memory was.  That is one within the capacity or the
\* first of vector_instance_cd, and none of the multipurpose vector's.  Only
\* the pop() of vector_type_cd gives an element up without its destructor.
EachBuiltOnce ==
  Constructs /\ ~resized =>
    /\ ~skipped => ~wild /\ \A i \in DOMAIN elems : elems[i] # "raw"
    /\ kind = "multi_cd" => ~skipped
    /\ kind # "type_cd" => ~dropped

\* vector.h:446 of vec_resizecd(), "resize vector, constructs pushed elements
\* or destructs popped elements".
ResizeConstructs ==
  kind = "multi_cd" => \A i \in DOMAIN elems : elems[i] # "raw"

\* vector.c:133, in vec_insert(), "returns pointer to the inserted entry": after
\* the caller has filled the entry returned, the others are as they were.
InsertedAt == [][expected' # expected => elems' = expected']_vars
=============================================================================
