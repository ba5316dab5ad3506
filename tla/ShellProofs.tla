------------------------------ MODULE ShellProofs ------------------------------
(***************************************************************************)
(* Proofs about the shell, for any lines, commands, sizes and heap.        *)
(***************************************************************************)
EXTENDS Shell, HeapOpsProofs, SequenceTheorems


K == KernelHeap.seg

\* The block a pointer names, if it names one.
Held(p) == IF p = 0 THEN {} ELSE {Block(p)}

StringType == [data : Nat, size : Nat]

ElementType == [data : Nat \ {0}, text : Seq(Chars)]

\* The vector of tokens and its strings.
TokenData(i) == IF i = 0 THEN tokens.data ELSE elems[i].data

Pieces == IF tokens.data = 0 THEN {} ELSE 0 .. Len(elems)

Typed ==
  /\ HeapType(heap)
  /\ input \in StringType /\ ret \in StringType
  /\ input.data = 0 => input.size = 0
  /\ tokens \in [data : Nat, len : Nat, capacity : Nat]
  /\ elems \in Seq(ElementType)
  /\ line \in Seq(Chars) /\ offer \in Seq(Chars) \cup {NoOffer}
  /\ start \in 0 .. Width - 1 /\ column \in 0 .. Width - 1
  /\ scan \in [at : Nat, start : Nat, len : Nat]
  /\ parts \in 0 .. Len(TimeParts)
  /\ pc \in {"getline", "tokenize", "execute", "fault", "exit"}

\* Pointers that are set name headers.
Pointed ==
  /\ input.data # 0 => Block(input.data) \in Segs(heap)
  /\ ret.data # 0 => Block(ret.data) \in Segs(heap)
  /\ \A i \in Pieces : Block(TokenData(i)) \in Segs(heap)

\* What the phases of the shell leave behind.
Phases ==
  /\ tokens.len = Len(elems) /\ tokens.len <= tokens.capacity
  /\ tokens.data = 0 <=> elems = <<>>
  /\ pc \in {"getline", "exit", "fault"} => elems = <<>>
  /\ pc = "execute" => elems # <<>>
  /\ pc \in {"execute", "exit", "fault"} => input.size = 0
  /\ parts = 0 => ret = Unset
  /\ parts > 0 => pc = "execute" /\ Word(1) \in TimeWords

\* The editor: column and completion go with the line.
Edited ==
  pc = "getline" =>
    /\ input.size = Len(line)
    /\ column = (start + Len(line)) % Width
    /\ OfferCompletes

\* The words of line l that end before index b are the strings es.
Found(es, l, w, b) ==
  /\ \A i, k \in DOMAIN es : i < k => w[i][2] < w[k][1]
  /\ \A i \in DOMAIN es : es[i].text = SubSeq(l, w[i][1], w[i][2])
  /\ \A i \in DOMAIN es : w[i][2] < b
  /\ \A r \in Words(l) : r[2] < b => \E i \in DOMAIN es : w[i] = r

WordsFound(es, l, b) == \E w \in [DOMAIN es -> Words(l)] : Found(es, l, w, b)

\* str_tokenize() between two characters.
Scanned ==
  /\ scan.at \in 1 .. Len(line) + 1 /\ scan.len < scan.at
  /\ scan.len > 0 =>
       /\ scan.start >= 1 /\ scan.start + scan.len = scan.at
       /\ \A i \in scan.start .. scan.at - 1 : line[i] \notin Blanks
       /\ scan.start > 1 => line[scan.start - 1] \in Blanks
  /\ scan.len = 0 /\ scan.at <= Len(line) =>
       /\ scan.start = 0
       /\ scan.at > 1 => line[scan.at - 1] \in Blanks
  /\ WordsFound(elems, line, scan.at - scan.len)

Read ==
  /\ pc = "tokenize" => Scanned
  /\ pc \in {"execute", "fault"} => WordsFound(elems, line, Len(line) + 1)

\* Who owns what while the heap is in order.
Owned ==
  /\ Tiled(heap) /\ K \in heap.used
  /\ \A i, k \in Pieces : TokenData(i) = TokenData(k) => i = k
  /\ \A i \in Pieces : Block(TokenData(i)) # K
  /\ pc = "tokenize" => \A i \in Pieces : Block(TokenData(i)) \in heap.used
  /\ pc = "tokenize" \/ (pc = "execute" /\ parts = 0) =>
       \A i \in DOMAIN elems : Len(elems[i].text) <= heap.size[Block(elems[i].data)]
  /\ input.data # 0 => Block(input.data) # K
  /\ ret.data # 0 => Block(ret.data) \in heap.used \ {K}
  /\ heap.used \subseteq {K} \cup left \cup Held(input.data) \cup Held(ret.data)
                         \cup {Block(TokenData(i)) : i \in Pieces}

\* Of a line that has a block of its own no token and no vector takes it, and
\* only a line without may share one: when str_clear() has freed that, the
\* others are still in use.
Apart ==
  /\ pc = "tokenize" /\ owned => Block(input.data) \in heap.used
  /\ pc \in {"tokenize", "execute"} /\ owned => \A i \in Pieces : TokenData(i) # input.data
  /\ pc = "execute" /\ parts = 0 =>
       \A i \in Pieces : TokenData(i) # input.data => Block(TokenData(i)) \in heap.used

ShellInv ==
  /\ Typed /\ Pointed /\ Phases /\ Edited /\ Read
  /\ heap.misused = {} => Owned /\ Apart

-----------------------------------------------------------------------------
(* What the shell's calls do to the heap.                                   *)

\* The heap goes from h to g and a pointer from p to q: the block of p may be
\* given up, q's is nobody else's, and the others stay as they are.  p may be
\* the pointer of a line whose block was freed when it was last executed.
Kept(h, p, g, q) ==
  /\ HeapType(g) /\ Segs(h) \subseteq Segs(g)
  /\ h.misused \subseteq g.misused
  /\ q \in Nat /\ (q # 0 => Block(q) \in Segs(g))
  /\ Tiled(h) /\ g.misused = {} =>
       /\ Tiled(g)
       /\ Held(q) \cap (h.used \ Held(p)) = {}
       /\ h.used \ Held(p) \subseteq g.used
       /\ g.used \subseteq (h.used \ Held(p)) \cup Held(q)
       /\ Held(p) \subseteq h.used => Held(q) \subseteq g.used
       /\ \A t \in h.used \ Held(p) : g.size[t] = h.size[t]

\* A pointer behind a header.
LEMMA Behind ==
  ASSUME NEW s \in Nat, NEW p, p = s + HeaderSize
  PROVE  p \in Nat /\ p # 0 /\ Block(p) = s /\ Held(p) = {s}
  <1>1. p \in Nat /\ p # 0 /\ Block(p) = s
    BY HeapOpsAssumption DEF Block
  <1> QED
    BY <1>1 DEF Held

\* alloc()
LEMMA AllocKept ==
  ASSUME NEW h, HeapType(h), NEW b \in Nat, NEW r \in Alloc(h, b),
         NEW q, q = r.seg + HeaderSize
  PROVE  Kept(h, 0, r.heap, q) /\ q # 0 /\ Block(q) = r.seg
         /\ r.heap.size[r.seg] >= b
  <1>1. Obtained(h, {}, r, b) /\ h.misused \subseteq r.heap.misused
    BY AllocObtains, AllocType
  <1>2. r.seg \in Nat /\ HeapType(r.heap)
    BY <1>1, HeapElim DEF Obtained
  <1>3. q \in Nat /\ q # 0 /\ Block(q) = r.seg /\ Held(q) = {r.seg}
    BY <1>2, Behind
  <1>4. Held(0) = {}
    BY DEF Held
  <1>5. Tiled(h) /\ r.heap.misused = {} => Served(h, {}, r, b)
    BY <1>1 DEF Obtained
  <1> QED
    BY <1>1, <1>2, <1>3, <1>4, <1>5 DEF Kept, Obtained, Served

\* The last statement of realloca() for a segment that has been given back.
LEMMA StaleMove ==
  ASSUME NEW h, HeapType(h), NEW s \in Segs(h), s \notin h.used, NEW b \in Nat,
         NEW add \in Nat, NEW r \in Realloca(h, s, b, add),
         Tiled(h), r.heap.misused = {}
  PROVE  /\ Tiled(r.heap) /\ r.seg \notin h.used
         /\ h.used \subseteq r.heap.used
         /\ r.heap.used \subseteq h.used \cup {r.seg}
         /\ \A t \in h.used : r.heap.size[t] = h.size[t]
  <1>1. CASE h.size[s] >= b
    BY <1>1 DEF Realloca
  <1>2. CASE ~(h.size[s] >= b) /\ s = h.end
    <2>1. r.heap = GrowEnd(h, b) /\ r.seg = s
      BY <1>2 DEF Realloca, Move
    <2> DEFINE g == r.heap
    <2>2. /\ HeapType(g) /\ Segs(g) = Segs(h) /\ g.next = h.next
          /\ g.size = Write(h.size, h.end, b) /\ g.used = h.used
          /\ g.misused = h.misused \cup Stale(h)
      BY <2>1, GrowEndFields
    <2>3. Stale(h) = {}
      BY <2>2
    <2> HIDE DEF g
    <2>4. Tiled(g)
      BY <2>2, <2>3, ResizeTopTiled
    <2>5. \A t \in h.used : g.size[t] = h.size[t]
      <3>1. h.used \subseteq Segs(h) /\ h.size \in [Segs(h) -> Nat]
        BY HeapElim
      <3> QED
        BY <1>2, <2>2, <3>1 DEF Write
    <2> QED
      BY <2>1, <2>2, <2>4, <2>5 DEF g
  <1>3. CASE ~(h.size[s] >= b) /\ s # h.end
    <2>1. PICK q \in Alloc(h, b + add) :
            r = [heap |-> Abandon(q.heap, s), seg |-> q.seg]
      BY <1>3 DEF Realloca, Move
    <2>2. b + add \in Nat
      OBVIOUS
    <2>3. HeapType(q.heap)
      BY <2>2, AllocType
    <2>4. r.heap = Abandon(q.heap, s) /\ r.seg = q.seg
      BY <2>1
    <2>5. /\ Segs(r.heap) = Segs(q.heap)
          /\ r.heap.next = q.heap.next /\ r.heap.size = q.heap.size
          /\ r.heap.used = q.heap.used \ {s}
          /\ r.heap.misused = q.heap.misused
      BY <2>3, <2>4, AbandonFields
    <2>6. Served(h, {}, q, b + add)
      BY <2>2, <2>5, AllocServed
    <2>7. Tiled(r.heap)
      BY <2>5, <2>6 DEF Served, Tiled, SegEnd
    <2> QED
      BY <2>4, <2>5, <2>6, <2>7 DEF Served
  <1> QED
    BY <1>1, <1>2, <1>3

\* realloca() of a block that is in use, or of the cleared line's.
LEMMA ReallocaKept ==
  ASSUME NEW h, HeapType(h), NEW p \in Nat \ {0}, Block(p) \in Segs(h),
         NEW b \in Nat, NEW add \in Nat, NEW r \in Realloca(h, Block(p), b, add),
         NEW q, q = r.seg + HeaderSize
  PROVE  Kept(h, p, r.heap, q) /\ q # 0 /\ Block(q) = r.seg
         /\ r.heap.size[r.seg] >= b
  <1> DEFINE s == Block(p)
  <1>0. s \in Segs(h) /\ r \in Realloca(h, s, b, add) /\ Held(p) = {s}
    BY DEF Held
  <1> HIDE DEF s
  <1>1. Obtained(h, {s}, r, b) /\ h.misused \subseteq r.heap.misused
    BY <1>0, ReallocaObtains, ReallocaType
  <1>2. r.seg \in Nat /\ HeapType(r.heap)
    BY <1>1, HeapElim DEF Obtained
  <1>3. q \in Nat /\ q # 0 /\ Block(q) = r.seg /\ Held(q) = {r.seg}
    BY <1>2, Behind
  <1>4. ASSUME Tiled(h), r.heap.misused = {}
        PROVE  /\ Tiled(r.heap)
               /\ r.seg \notin h.used \ {s}
               /\ h.used \ {s} \subseteq r.heap.used
               /\ r.heap.used \subseteq (h.used \ {s}) \cup {r.seg}
               /\ {s} \subseteq h.used => {r.seg} \subseteq r.heap.used
               /\ \A t \in h.used \ {s} : r.heap.size[t] = h.size[t]
    <2>1. CASE s \in h.used
      <3>1. Served(h, {s}, r, b)
        BY <1>1, <1>4, <2>1 DEF Obtained
      <3> QED
        BY <3>1 DEF Served
    <2>2. CASE s \notin h.used
      <3>1. h.used \ {s} = h.used
        BY <2>2
      <3>2. /\ Tiled(r.heap) /\ r.seg \notin h.used
            /\ h.used \subseteq r.heap.used
            /\ r.heap.used \subseteq h.used \cup {r.seg}
            /\ \A t \in h.used : r.heap.size[t] = h.size[t]
        BY <1>0, <1>4, <2>2, StaleMove
      <3> QED
        BY <2>2, <3>1, <3>2
    <2> QED
      BY <2>1, <2>2
  <1> QED
    BY <1>0, <1>1, <1>2, <1>3, <1>4 DEF Kept, Obtained

\* free()
LEMMA FreeKept ==
  ASSUME NEW h, HeapType(h), NEW p \in Nat, p # 0 => Block(p) \in Segs(h),
         NEW g, g = IF p = 0 THEN h ELSE Free(h, Block(p))
  PROVE  /\ Kept(h, p, g, 0) /\ Segs(g) = Segs(h) /\ g.size = h.size
         /\ g.used = h.used \ Held(p) /\ g.misused = h.misused
  <1>1. /\ HeapType(g) /\ Segs(g) = Segs(h) /\ g.next = h.next /\ g.size = h.size
        /\ g.used = h.used \ Held(p) /\ g.misused = h.misused
    BY FreeFields DEF Held
  <1>2. Tiled(h) => Tiled(g)
    BY <1>1 DEF Tiled, SegEnd
  <1>3. Held(0) = {}
    BY DEF Held
  <1> QED
    BY <1>1, <1>2, <1>3 DEF Kept

\* Nothing happens.
LEMMA SameKept ==
  ASSUME NEW h, HeapType(h), NEW p \in Nat, p # 0 => Block(p) \in Segs(h)
  PROVE  Kept(h, p, h, p)
  BY DEF Kept

\* One call after another.
LEMMA KeptTwice ==
  ASSUME NEW h, NEW p, NEW g, NEW q, NEW f, NEW o,
         Kept(h, p, g, q), Kept(g, q, f, o)
  PROVE  Kept(h, p, f, o)
  <1>1. /\ HeapType(f) /\ Segs(h) \subseteq Segs(f)
        /\ h.misused \subseteq f.misused
        /\ o \in Nat /\ (o # 0 => Block(o) \in Segs(f))
        /\ f.misused = {} => g.misused = {}
    BY DEF Kept
  <1>2. ASSUME Tiled(h), f.misused = {}
        PROVE  /\ Tiled(f)
               /\ Held(o) \cap (h.used \ Held(p)) = {}
               /\ h.used \ Held(p) \subseteq f.used
               /\ f.used \subseteq (h.used \ Held(p)) \cup Held(o)
               /\ Held(p) \subseteq h.used => Held(o) \subseteq f.used
               /\ \A t \in h.used \ Held(p) : f.size[t] = h.size[t]
    <2>1. /\ Tiled(g)
          /\ Held(q) \cap (h.used \ Held(p)) = {}
          /\ h.used \ Held(p) \subseteq g.used
          /\ g.used \subseteq (h.used \ Held(p)) \cup Held(q)
          /\ Held(p) \subseteq h.used => Held(q) \subseteq g.used
          /\ \A t \in h.used \ Held(p) : g.size[t] = h.size[t]
      BY <1>1, <1>2 DEF Kept
    <2>2. /\ Tiled(f)
          /\ Held(o) \cap (g.used \ Held(q)) = {}
          /\ g.used \ Held(q) \subseteq f.used
          /\ f.used \subseteq (g.used \ Held(q)) \cup Held(o)
          /\ Held(q) \subseteq g.used => Held(o) \subseteq f.used
          /\ \A t \in g.used \ Held(q) : f.size[t] = g.size[t]
      BY <1>2, <2>1 DEF Kept
    <2>3. h.used \ Held(p) \subseteq g.used \ Held(q)
      BY <2>1
    <2> QED
      BY <2>1, <2>2, <2>3
  <1> QED
    BY <1>1, <1>2 DEF Kept

\* The functions that append to a string.
LEMMA AppendKept ==
  ASSUME NEW h, HeapType(h), NEW s \in StringType,
         s.data # 0 => Block(s.data) \in Segs(h),
         NEW first \in Nat, NEW size \in Nat, NEW to,
         NEW r \in AppendBytes(h, s, first, size, to)
  PROVE  /\ Kept(h, s.data, r.heap, r.str.data)
         /\ r.str \in StringType /\ r.str.data # 0 /\ r.str.size = size
  <1>0. s.data \in Nat /\ StringReallocAdd \in Nat
    BY ShellAssumption DEF StringType
  <1>1. CASE s.data = 0
    <2>1. PICK q \in Alloc(h, first) : r = Placed(q, size, 0, to)
      BY <1>1 DEF AppendBytes, Null
    <2>2. r.heap = q.heap /\ r.str = [data |-> q.seg + HeaderSize, size |-> size]
      BY <2>1 DEF Placed
    <2> DEFINE d == q.seg + HeaderSize
    <2>3. Kept(h, 0, q.heap, d) /\ d # 0
      BY AllocKept
    <2>4. d \in Nat
      BY <2>3 DEF Kept
    <2> QED
      BY <1>1, <2>2, <2>3, <2>4 DEF StringType
  <1>2. CASE s.data # 0
    <2>1. PICK q \in Realloca(h, Block(s.data), size, StringReallocAdd) :
            r = Placed(q, size, s.size, to)
      BY <1>2 DEF AppendBytes, Null
    <2>2. r.heap = q.heap /\ r.str = [data |-> q.seg + HeaderSize, size |-> size]
      BY <2>1 DEF Placed
    <2> DEFINE d == q.seg + HeaderSize
               p == s.data
    <2>3. p \in Nat \ {0} /\ Block(p) \in Segs(h)
          /\ q \in Realloca(h, Block(p), size, StringReallocAdd)
      BY <1>0, <1>2, <2>1
    <2> HIDE DEF p
    <2>4. Kept(h, p, q.heap, d) /\ d # 0
      BY <1>0, <2>3, ReallocaKept
    <2>5. d \in Nat
      BY <2>4 DEF Kept
    <2> QED
      BY <2>2, <2>4, <2>5 DEF StringType, p
  <1> QED
    BY <1>1, <1>2

\* str_push() and str_pushc()
LEMMA PushesKept ==
  ASSUME NEW h, HeapType(h), NEW s \in StringType,
         s.data # 0 => Block(s.data) \in Segs(h), NEW n \in Nat, NEW r
  PROVE  /\ r \in StrPush(h, s, n) =>
              /\ Kept(h, s.data, r.heap, r.str.data)
              /\ r.str \in StringType /\ r.str.data # 0 /\ r.str.size = s.size + n
         /\ r \in StrPushc(h, s) =>
              /\ Kept(h, s.data, r.heap, r.str.data)
              /\ r.str \in StringType /\ r.str.data # 0 /\ r.str.size = s.size + 1
  <1>1. s.size + n \in Nat /\ s.size + 1 \in Nat /\ 4 \in Nat
    BY DEF StringType
  <1>2. ASSUME r \in StrPush(h, s, n)
        PROVE  /\ Kept(h, s.data, r.heap, r.str.data)
               /\ r.str \in StringType /\ r.str.data # 0 /\ r.str.size = s.size + n
    <2>1. r \in AppendBytes(h, s, n, s.size + n, s.size + n)
      BY <1>2 DEF StrPush
    <2> DEFINE m == s.size + n
    <2>2. m \in Nat /\ r \in AppendBytes(h, s, n, m, m)
      BY <1>1, <2>1
    <2> HIDE DEF m
    <2>3. /\ Kept(h, s.data, r.heap, r.str.data)
          /\ r.str \in StringType /\ r.str.data # 0 /\ r.str.size = m
      BY <2>2, AppendKept
    <2> QED
      BY <2>3 DEF m
  <1>3. ASSUME r \in StrPushc(h, s)
        PROVE  /\ Kept(h, s.data, r.heap, r.str.data)
               /\ r.str \in StringType /\ r.str.data # 0 /\ r.str.size = s.size + 1
    <2> DEFINE m == s.size + 1
    <2>2. m \in Nat /\ r \in AppendBytes(h, s, 4, m, m)
      BY <1>1, <1>3 DEF StrPushc
    <2> HIDE DEF m
    <2>3. /\ Kept(h, s.data, r.heap, r.str.data)
          /\ r.str \in StringType /\ r.str.data # 0 /\ r.str.size = m
      BY <1>1, <2>2, AppendKept
    <2> QED
      BY <2>3 DEF m
  <1> QED
    BY <1>2, <1>3

\* str_pop() of one character
LEMMA PopKept ==
  ASSUME NEW h, HeapType(h), NEW s \in StringType,
         s.data # 0 => Block(s.data) \in Segs(h), s.data = 0 => s.size = 0,
         s.size > 0, NEW r, r = StrPop(h, s, 1)
  PROVE  /\ Kept(h, s.data, r.heap, r.str.data)
         /\ r.str \in StringType /\ r.str.size = s.size - 1
         /\ r.str.data = 0 => r.str.size = 0
  <1>1. /\ s = [data |-> s.data, size |-> s.size]
        /\ s.data \in Nat /\ s.size \in Nat /\ s.data # 0
    BY DEF StringType
  <1>2. CASE s.size <= 1
    <2>1. r = [heap |-> Free(h, Block(s.data)), str |-> Unset]
      BY <1>1, <1>2 DEF StrPop, Null
    <2>2. r.heap = Free(h, Block(s.data)) /\ r.str = [data |-> 0, size |-> 0]
      BY <2>1 DEF Unset, Null
    <2> DEFINE p == s.data
               g == r.heap
    <2>3. /\ p \in Nat /\ (p # 0 => Block(p) \in Segs(h))
          /\ g = IF p = 0 THEN h ELSE Free(h, Block(p))
      BY <1>1, <2>2
    <2> HIDE DEF p, g
    <2>4. Kept(h, p, g, 0)
      BY <2>3, FreeKept
    <2> QED
      BY <1>1, <1>2, <2>2, <2>4 DEF StringType, p, g
  <1>3. CASE ~(s.size <= 1)
    <2>1. r = [heap |-> h, str |-> [s EXCEPT !.size = @ - 1]]
      BY <1>1, <1>3 DEF StrPop, Null
    <2>2. r.heap = h /\ r.str = [data |-> s.data, size |-> s.size - 1]
      BY <1>1, <2>1
    <2>3. Kept(h, s.data, h, s.data)
      BY <1>1, SameKept
    <2> QED
      BY <1>1, <1>3, <2>2, <2>3 DEF StringType
  <1> QED
    BY <1>2, <1>3

\* A block of n elements has room for n elements.
LEMMA EnoughElements ==
  ASSUME NEW n \in Nat, NEW k \in Nat, NEW a \in Nat \ {0}, n >= k * a
  PROVE  n \div a \in Nat /\ n \div a >= k
  <1> DEFINE d == n \div a
  <1>1. n = (a * d) + (n % a) /\ d \in Int /\ n % a \in Nat /\ n % a < a
    BY DivMod
  <1> HIDE DEF d
  <1>2. ASSUME d < k PROVE FALSE
    <2>1. d + 1 <= k
      BY <1>1, <1>2
    <2>2. a * (d + 1) <= a * k
      BY <1>1, <2>1
    <2>3. a * (d + 1) = (a * d) + a
      BY <1>1
    <2> QED
      BY <1>1, <2>2, <2>3
  <1> QED
    BY <1>1, <1>2 DEF d

\* strvec_push(): the vector may move; it has room for one element more.
LEMMA PushElementKept ==
  ASSUME NEW h, HeapType(h), Typed, Phases,
         tokens.data # 0 => Block(tokens.data) \in Segs(h),
         NEW v \in PushElement(h)
  PROVE  /\ Kept(h, tokens.data, v.heap, v.vec.data)
         /\ v.vec \in [data : Nat, len : Nat, capacity : Nat]
         /\ v.vec.data # 0
         /\ v.vec.len = tokens.len + 1 /\ v.vec.len <= v.vec.capacity
  <1> DEFINE len == tokens.len + 1
             p == tokens.data
  <1>1. /\ tokens = [data |-> p, len |-> tokens.len, capacity |-> tokens.capacity]
        /\ p \in Nat /\ tokens.len \in Nat /\ tokens.capacity \in Nat
        /\ len \in Nat \ {0}
    BY DEF Typed
  <1>2. ASSUME NEW r, NEW d, d = r.seg + HeaderSize, NEW b \in Nat,
               Kept(h, p, r.heap, d), d # 0, Block(d) = r.seg,
               r.heap.size[r.seg] >= b, b = len * ElementSize,
               v = [heap |-> r.heap,
                    vec |-> [data |-> r.seg + HeaderSize, len |-> len,
                             capacity |-> r.heap.size[r.seg] \div ElementSize]]
        PROVE  /\ Kept(h, p, v.heap, v.vec.data)
               /\ v.vec \in [data : Nat, len : Nat, capacity : Nat]
               /\ v.vec.data # 0
               /\ v.vec.len = len /\ v.vec.len <= v.vec.capacity
    <2> DEFINE n == r.heap.size[r.seg]
    <2>1. d \in Nat /\ n \in Nat
      <3>1. d \in Nat /\ HeapType(r.heap) /\ r.seg \in Segs(r.heap)
        BY <1>2 DEF Kept
      <3> QED
        BY <3>1, HeapElim
    <2>2. n >= len * ElementSize
      BY <1>2
    <2>3. ElementSize \in Nat \ {0}
      BY ShellAssumption
    <2> HIDE DEF n, len
    <2>4. n \div ElementSize \in Nat /\ n \div ElementSize >= len
      BY <1>1, <2>1, <2>2, <2>3, EnoughElements
    <2> QED
      BY <1>1, <1>2, <2>1, <2>4 DEF n
  <1>3. ElementSize \in Nat \ {0} /\ ReallocAdd \in Nat
    BY ShellAssumption
  <1> HIDE DEF p
  <1>4. CASE p = 0
    <2>1. PICK r \in Alloc(h, ElementSize) :
            v = [heap |-> r.heap,
                 vec |-> [data |-> r.seg + HeaderSize, len |-> len,
                          capacity |-> r.heap.size[r.seg] \div ElementSize]]
      BY <1>4 DEF PushElement, Null, p
    <2>2. tokens.len = 0
      BY <1>4 DEF Phases, p
    <2>3. ElementSize \in Nat /\ ElementSize = len * ElementSize
      BY <1>3, <2>2
    <2> DEFINE d == r.seg + HeaderSize
               b == ElementSize
    <2>4. Kept(h, 0, r.heap, d) /\ d # 0 /\ Block(d) = r.seg
          /\ r.heap.size[r.seg] >= b
      BY <2>3, AllocKept
    <2>5. b \in Nat /\ b = len * ElementSize /\ d = r.seg + HeaderSize
      BY <2>3
    <2> HIDE DEF b, d, len
    <2> QED
      BY <1>2, <1>4, <2>1, <2>4, <2>5 DEF p, len
  <1>5. CASE p # 0 /\ len <= tokens.capacity
    <2>1. v = [heap |-> h, vec |-> [tokens EXCEPT !.len = len]]
      BY <1>5 DEF PushElement, Null, p
    <2>2. v.heap = h
          /\ v.vec = [data |-> p, len |-> len, capacity |-> tokens.capacity]
      BY <1>1, <2>1 DEF p
    <2>3. Kept(h, p, h, p)
      BY <1>1, <1>5, SameKept DEF p
    <2> QED
      BY <1>1, <1>5, <2>2, <2>3 DEF p
  <1>6. CASE p # 0 /\ ~(len <= tokens.capacity)
    <2> DEFINE b == len * ElementSize
    <2>1. PICK r \in Realloca(h, Block(p), b, ReallocAdd) :
            v = [heap |-> r.heap,
                 vec |-> [data |-> r.seg + HeaderSize, len |-> len,
                          capacity |-> r.heap.size[r.seg] \div ElementSize]]
      BY <1>6 DEF PushElement, Null, p
    <2> DEFINE d == r.seg + HeaderSize
    <2>2. b \in Nat /\ b = len * ElementSize /\ d = r.seg + HeaderSize
      BY <1>1, <1>3
    <2>3. p \in Nat \ {0} /\ Block(p) \in Segs(h)
      BY <1>1, <1>6 DEF p
    <2> HIDE DEF b, d, len
    <2>4. Kept(h, p, r.heap, d) /\ d # 0 /\ Block(d) = r.seg
          /\ r.heap.size[r.seg] >= b
      BY <1>3, <2>1, <2>2, <2>3, ReallocaKept
    <2> QED
      BY <1>2, <2>1, <2>2, <2>4 DEF p, len
  <1> QED
    BY <1>4, <1>5, <1>6 DEF p

\* strvec_destruct(): the strings and the vector are free, nothing else is.
LEMMA DestructedIs ==
  ASSUME NEW h, HeapType(h), Typed,
         \A i \in Pieces : Block(TokenData(i)) \in Segs(h),
         tokens.data = 0 => elems = <<>>,
         NEW g, g = Destructed(h)
  PROVE  /\ HeapType(g) /\ Segs(g) = Segs(h) /\ g.misused = h.misused
         /\ g.used = h.used \ {Block(TokenData(i)) : i \in Pieces}
         /\ Tiled(h) => Tiled(g)
  <1> DEFINE freed == {Block(elems[i].data) : i \in DOMAIN elems}
                      \cup (IF tokens.data = Null THEN {} ELSE {Block(tokens.data)})
             lowest == freed \cup {h.usedUntil}
             u == CHOOSE s \in lowest : \A t \in lowest : s <= t
  <1>1. freed = {Block(TokenData(i)) : i \in Pieces}
    <2>1. DOMAIN elems = 1 .. Len(elems) /\ Len(elems) \in Nat
      BY DEF Typed
    <2>2. CASE tokens.data = 0
      BY <2>1, <2>2 DEF Pieces, Null
    <2>3. CASE tokens.data # 0
      <3>1. Pieces = {0} \cup DOMAIN elems /\ 0 \notin DOMAIN elems
        BY <2>1, <2>3 DEF Pieces
      <3>2. ASSUME NEW x \in freed PROVE \E i \in Pieces : x = Block(TokenData(i))
        <4>1. CASE x = Block(tokens.data)
          BY <3>1, <4>1 DEF TokenData
        <4>2. CASE \E i \in DOMAIN elems : x = Block(elems[i].data)
          BY <3>1, <4>2 DEF TokenData
        <4> QED
          BY <3>2, <4>1, <4>2
      <3>3. ASSUME NEW i \in Pieces PROVE Block(TokenData(i)) \in freed
        <4>1. CASE i = 0
          BY <2>3, <4>1 DEF TokenData, Null
        <4>2. CASE i # 0
          BY <3>1, <4>2 DEF TokenData
        <4> QED
          BY <4>1, <4>2
      <3> QED
        BY <3>2, <3>3
    <2> QED
      BY <2>2, <2>3
  <1>2. freed \subseteq Segs(h)
    BY <1>1
  <1>3. /\ h = [next |-> h.next, size |-> h.size, used |-> h.used, end |-> h.end,
                usedUntil |-> h.usedUntil, misused |-> h.misused]
        /\ Segs(h) \subseteq Nat \ {0} /\ h.usedUntil \in Segs(h)
        /\ h.used \subseteq Segs(h) /\ h.next \in [Segs(h) -> Nat]
        /\ h.size \in [Segs(h) -> Nat] /\ h.end \in Segs(h)
        /\ h.misused \subseteq Nat
    BY HeapElim
  <1>4. u \in Segs(h)
    <2> HIDE DEF freed
    <2>1. lowest \subseteq Nat /\ lowest # {} /\ lowest \subseteq Segs(h)
      BY <1>2, <1>3
    <2> HIDE DEF lowest
    <2>2. \E s \in lowest : \A t \in lowest : s <= t
      BY <2>1, LeastNat
    <2>3. u \in lowest
      BY <2>2
    <2> QED
      BY <2>1, <2>3
  <1>5. g = [h EXCEPT !.used = @ \ freed, !.usedUntil = u]
    BY DEF Destructed
  <1> HIDE DEF u, freed
  <1>6. g = [next |-> h.next, size |-> h.size, used |-> h.used \ freed,
             end |-> h.end, usedUntil |-> u, misused |-> h.misused]
    BY <1>3, <1>5
  <1>7. /\ g.next = h.next /\ g.size = h.size /\ g.used = h.used \ freed
        /\ g.end = h.end /\ g.usedUntil = u /\ g.misused = h.misused
        /\ g = [next |-> g.next, size |-> g.size, used |-> g.used, end |-> g.end,
                usedUntil |-> g.usedUntil, misused |-> g.misused]
    BY <1>6
  <1>8. HeapType(g) /\ Segs(g) = Segs(h)
    <2> DEFINE D == Segs(h)
    <2>1. /\ D \subseteq Nat \ {0} /\ g.next \in [D -> Nat] /\ g.size \in [D -> Nat]
          /\ g.used \subseteq D /\ g.end \in D /\ g.usedUntil \in D
          /\ g.misused \subseteq Nat
      BY <1>3, <1>4, <1>7
    <2> HIDE DEF D
    <2>2. HeapType(g) /\ Segs(g) = D
      BY <1>7, <2>1, HeapIs
    <2> QED
      BY <2>2 DEF D
  <1> QED
    BY <1>1, <1>7, <1>8 DEF Tiled, SegEnd

\* The block the kernel owns when the shell starts.
LEMMA KernelHeapIs ==
  /\ HeapType(KernelHeap.heap)
  /\ KernelHeap.heap.misused = {} => Tiled(KernelHeap.heap)
  /\ KernelHeap.heap.used \subseteq {K}
  /\ K \in KernelHeap.heap.used
  <1> DEFINE h == InitialHeap
             r == KernelHeap
  <1>1. HeapType(h) /\ Tiled(h) /\ h.used = {} /\ h.misused = {}
        /\ Segs(h) = {HeapStart} /\ h.next = [s \in {HeapStart} |-> 0]
        /\ h.end = HeapStart
    <2>1. Segs(h) = {HeapStart} /\ h.next = [s \in {HeapStart} |-> 0]
          /\ h.end = HeapStart
      BY DEF InitialHeap, Segs, Null
    <2> QED
      BY <2>1, InitialInOrder
  <1>2. Foreign \in Nat
    BY ShellAssumption
  <1> HIDE DEF h
  <1>3. Alloc(h, Foreign) # {}
    <2>1. CASE Fits(h, Foreign) = {}
      BY <2>1 DEF Alloc
    <2>2. CASE Fits(h, Foreign) # {}
      <3>1. HeapStart \in Fits(h, Foreign) /\ Fits(h, Foreign) \subseteq {HeapStart}
        BY <1>1, <2>2 DEF Fits
      <3>2. HeapStart \in Lowest(Fits(h, Foreign))
        BY <3>1, HeapOpsAssumption DEF Lowest
      <3> QED
        BY <2>2, <3>2 DEF Alloc
    <2> QED
      BY <2>1, <2>2
  <1>4. r \in Alloc(h, Foreign)
    BY <1>3 DEF KernelHeap, h
  <1> HIDE DEF r
  <1>5. r.heap.misused = {}
    <2>1. CASE Fits(h, Foreign) = {}
      <3>1. r.heap = Enlarge(h, Foreign)
        BY <1>4, <2>1 DEF Alloc
      <3>2. r.heap.misused = h.misused \cup Stale(h)
        BY <1>1, <1>2, <3>1, EnlargeType
      <3>3. Stale(h) = {}
        BY <1>1 DEF Stale, Null
      <3> QED
        BY <1>1, <3>2, <3>3
    <2>2. CASE Fits(h, Foreign) # {}
      <3>1. PICK s \in Fits(h, Foreign) : r = [heap |-> Take(h, s, Foreign), seg |-> s]
        BY <1>4, <2>2 DEF Alloc, Lowest
      <3>2. s \in Segs(h)
        BY DEF Fits
      <3>3. Take(h, s, Foreign).misused = h.misused
        BY <1>1, <1>2, <3>2, TakeType
      <3> QED
        BY <1>1, <3>1, <3>3
    <2> QED
      BY <2>1, <2>2
  <1>6. Obtained(h, {}, r, Foreign)
    BY <1>1, <1>2, <1>4, AllocObtains
  <1>7. Served(h, {}, r, Foreign)
    BY <1>1, <1>5, <1>6 DEF Obtained
  <1> QED
    BY <1>1, <1>7 DEF Served, K, r


-----------------------------------------------------------------------------
(* The line editor.                                                         *)

\* The remainder is determined by its range.
LEMMA Remainder ==
  ASSUME NEW x \in Int, NEW a \in Nat \ {0}, NEW d \in Int, NEW m \in 0 .. a - 1,
         x = (a * d) + m
  PROVE  x % a = m
  <1> DEFINE e == x \div a
             n == x % a
  <1>1. x = (a * e) + n /\ e \in Int /\ n \in Nat /\ n < a
    BY DivMod
  <1> HIDE DEF e, n
  <1>2. ASSUME d < e PROVE FALSE
    <2>1. d + 1 <= e /\ a * (d + 1) <= a * e
      BY <1>1, <1>2
    <2>2. a * (d + 1) = (a * d) + a
      BY <1>1
    <2> QED
      BY <1>1, <2>1, <2>2
  <1>3. ASSUME e < d PROVE FALSE
    <2>1. e + 1 <= d /\ a * (e + 1) <= a * d
      BY <1>1, <1>3
    <2>2. a * (e + 1) = (a * e) + a
      BY <1>1
    <2> QED
      BY <1>1, <2>1, <2>2
  <1>4. d = e
    BY <1>1, <1>2, <1>3
  <1> QED
    BY <1>1, <1>4 DEF n

\* Columns of a screen of a columns.
LEMMA Columns ==
  ASSUME NEW x \in Nat, NEW a \in Nat \ {0}, NEW n \in Nat
  PROVE  /\ x < a => x % a = x
         /\ ((x % a) + n) % a = (x + n) % a
         /\ (x % a) + 1 < a => (x + 1) % a = (x % a) + 1
         /\ x % a > 0 => (x - 1) % a = (x % a) - 1
         /\ x % a \in 0 .. a - 1
  <1> DEFINE d == x \div a
             m == x % a
  <1>1. x = (a * d) + m /\ d \in Int /\ m \in Nat /\ m < a
    BY DivMod
  <1> HIDE DEF d, m
  <1>2. ASSUME x < a PROVE x % a = x
    <2>1. x = (a * 0) + x /\ x \in 0 .. a - 1
      BY <1>2
    <2> QED
      BY <2>1, Remainder
  <1>3. (m + n) % a = (x + n) % a
    <2> DEFINE e == (m + n) \div a
               k == (m + n) % a
    <2>1. m + n = (a * e) + k /\ e \in Int /\ k \in Nat /\ k < a
      BY <1>1, DivMod
    <2> HIDE DEF e, k
    <2>2. x + n = (a * (d + e)) + k
      <3>1. a * (d + e) = (a * d) + (a * e)
        BY <1>1, <2>1
      <3> QED
        BY <1>1, <2>1, <3>1
    <2> DEFINE y == x + n
               f == d + e
    <2>3. y \in Int /\ f \in Int /\ k \in 0 .. a - 1 /\ y = (a * f) + k
      BY <1>1, <2>1, <2>2
    <2> HIDE DEF y, f
    <2>4. y % a = k
      BY <2>3, Remainder
    <2> QED
      BY <2>4 DEF y, k
  <1>4. ASSUME m + 1 < a PROVE (x + 1) % a = m + 1
    <2> DEFINE y == x + 1
               k == m + 1
    <2>1. y \in Int /\ k \in 0 .. a - 1 /\ y = (a * d) + k
      BY <1>1, <1>4
    <2> HIDE DEF y, k
    <2>2. y % a = k
      BY <1>1, <2>1, Remainder
    <2> QED
      BY <2>2 DEF y, k
  <1>5. ASSUME m > 0 PROVE (x - 1) % a = m - 1
    <2> DEFINE y == x - 1
               k == m - 1
    <2>1. y \in Int /\ k \in 0 .. a - 1 /\ y = (a * d) + k
      BY <1>1, <1>5
    <2> HIDE DEF y, k
    <2>2. y % a = k
      BY <1>1, <2>1, Remainder
    <2> QED
      BY <2>2 DEF y, k
  <1>6. m \in 0 .. a - 1
    BY <1>1
  <1> QED
    BY <1>2, <1>3, <1>4, <1>5, <1>6 DEF m

\* What is offered is the rest of a command that the line begins.
Completes(l, o) ==
  /\ o \in Seq(Chars) \cup {NoOffer}
  /\ o # NoOffer => \E i \in DOMAIN Cmds : l \o o = Cmds[i]

LEMMA CompletionIs ==
  ASSUME NEW l \in Seq(Chars), NEW c, NEW sp
  PROVE  Completes(l, Completion(l, c, sp))
  <1> DEFINE o == Completion(l, c, sp)
  <1> DEFINE matches == {i \in DOMAIN Cmds : IsPrefix(l, Cmds[i])}
             first == CHOOSE i \in matches : \A k \in matches : i <= k
             rest == SubSeq(Cmds[first], Len(l) + 1, Len(Cmds[first]))
  <1>2. o = NoOffer \/ (matches # {} /\ o = rest)
    BY DEF Completion
  <1>3. ASSUME matches # {}
        PROVE  rest \in Seq(Chars) /\ \E i \in DOMAIN Cmds : l \o rest = Cmds[i]
    <2>1. Cmds \in Seq(Seq(Chars)) /\ DOMAIN Cmds = 1 .. Len(Cmds)
      BY ShellAssumption
    <2>2. matches \subseteq Nat /\ matches \subseteq DOMAIN Cmds
      BY <2>1
    <2>3. first \in matches
      <3> HIDE DEF matches
      <3>1. \E i \in matches : \A k \in matches : i <= k
        BY <1>3, <2>2, LeastNat
      <3> QED
        BY <3>1
    <2> DEFINE w == Cmds[first]
    <2>4. first \in DOMAIN Cmds /\ IsPrefix(l, w) /\ w \in Seq(Chars)
      BY <2>1, <2>3
    <2> HIDE DEF first
    <2>5. Len(l) \in 0 .. Len(w) /\ SubSeq(w, 1, Len(l)) = l
      BY <2>4, SubSeqFull DEF IsPrefix
    <2> HIDE DEF w
    <2>6. SubSeq(w, 1, Len(l)) \o SubSeq(w, Len(l) + 1, Len(w)) = w
      <3> DEFINE m == 1
                 k == Len(l)
                 n == Len(w)
      <3>1. m \in 1 .. Len(w) + 1 /\ k \in m - 1 .. Len(w) /\ n \in k .. Len(w)
        BY <2>4, <2>5
      <3> HIDE DEF m, k, n
      <3>2. SubSeq(w, m, k) \o SubSeq(w, k + 1, n) = SubSeq(w, m, n)
        BY <2>4, <3>1, ConcatAdjacentSubSeq
      <3>3. SubSeq(w, 1, Len(w)) = w
        BY <2>4, SubSeqFull
      <3> QED
        BY <3>2, <3>3 DEF m, k, n
    <2>7. rest \in Seq(Chars)
      <3>1. SubSeq(w, Len(l) + 1, Len(w)) \in Seq(Chars)
        BY <2>4, <2>5
      <3> QED
        BY <3>1 DEF w
    <2>8. l \o rest = Cmds[first]
      BY <2>5, <2>6 DEF w
    <2> QED
      BY <2>4, <2>7, <2>8
  <1> QED
    BY <1>2, <1>3 DEF Completes

-----------------------------------------------------------------------------
(* The words of a line.                                                     *)

\* The only number below a that is not below a - 1.
LEMMA JustBelow ==
  ASSUME NEW a \in Int, NEW q \in Int, q <= a, q # a, ~(q < a - 1)
  PROVE  q = a - 1
  OBVIOUS

\* A run of characters between blanks is a word, and no other word ends in it.
LEMMA NewWord ==
  ASSUME NEW l \in Seq(Chars), NEW s \in 1 .. Len(l), NEW a \in s + 1 .. Len(l) + 1,
         \A i \in s .. a - 1 : l[i] \notin Blanks,
         s > 1 => l[s - 1] \in Blanks, a <= Len(l) => l[a] \in Blanks
  PROVE  /\ <<s, a - 1>> \in Words(l)
         /\ \A r \in Words(l) : s <= r[2] /\ r[2] <= a => r = <<s, a - 1>>
  <1>1. DOMAIN l = 1 .. Len(l) /\ Len(l) \in Nat
    OBVIOUS
  <1>2. <<s, a - 1>> \in Words(l)
    <2>1. <<s, a - 1>> \in (DOMAIN l) \X (DOMAIN l)
      BY <1>1
    <2>2. a - 1 < Len(l) => l[(a - 1) + 1] \in Blanks
      <3>1. (a - 1) + 1 = a
        OBVIOUS
      <3> QED
        BY <1>1, <3>1
    <2>3. s <= a - 1
      OBVIOUS
    <2> QED
      BY <2>1, <2>2, <2>3 DEF Words
  <1>3. ASSUME NEW r \in Words(l), s <= r[2], r[2] <= a
        PROVE  r = <<s, a - 1>>
    <2>1. /\ r = <<r[1], r[2]>> /\ r[1] \in 1 .. Len(l) /\ r[2] \in 1 .. Len(l)
          /\ r[1] <= r[2] /\ \A i \in r[1] .. r[2] : l[i] \notin Blanks
          /\ r[1] > 1 => l[r[1] - 1] \in Blanks
          /\ r[2] < Len(l) => l[r[2] + 1] \in Blanks
      BY <1>1 DEF Words
    <2>2. r[2] # a
      BY <1>1, <2>1
    <2>3. ASSUME r[2] < a - 1 PROVE FALSE
      <3>1. r[2] + 1 \in s .. a - 1 /\ r[2] < Len(l)
        BY <1>1, <1>3, <2>1, <2>3
      <3> QED
        BY <2>1, <3>1
    <2>4. r[2] = a - 1
      <3> DEFINE q == r[2]
      <3>1. q \in Int /\ q <= a /\ q # a
        BY <1>1, <1>3, <2>1, <2>2
      <3>2. ~(q < a - 1)
        BY <2>3
      <3>3. a \in Int
        BY <1>1
      <3> HIDE DEF q
      <3>4. q = a - 1
        BY ONLY <3>1, <3>2, <3>3, JustBelow
      <3> QED
        BY <3>4 DEF q
    <2>5. ASSUME r[1] < s PROVE FALSE
      <3>1. s - 1 \in r[1] .. r[2] /\ s > 1
        BY <1>1, <1>3, <2>1, <2>5
      <3> QED
        BY <2>1, <3>1
    <2>6. ASSUME r[1] > s PROVE FALSE
      <3>1. r[1] - 1 \in s .. a - 1 /\ r[1] > 1
        BY <1>1, <2>1, <2>4, <2>6
      <3> QED
        BY <2>1, <3>1
    <2> QED
      BY <1>1, <2>1, <2>4, <2>5, <2>6
  <1> QED
    BY <1>2, <1>3

\* No word ends at a blank.
LEMMA BlankEndsNone ==
  ASSUME NEW l \in Seq(Chars), NEW a \in 1 .. Len(l), l[a] \in Blanks,
         NEW es, WordsFound(es, l, a)
  PROVE  WordsFound(es, l, a + 1)
  <1>1. PICK w \in [DOMAIN es -> Words(l)] : Found(es, l, w, a)
    BY DEF WordsFound
  <1>2. \A r \in Words(l) : r[1] \in Nat /\ r[2] \in Nat /\ r[2] # a
    BY DEF Words
  <1>3. Found(es, l, w, a + 1)
    <2>1. \A i \in DOMAIN es : w[i][2] < a + 1
      BY <1>1, <1>2 DEF Found
    <2>2. \A r \in Words(l) : r[2] < a + 1 => r[2] < a
      BY <1>2
    <2> QED
      BY <1>1, <2>1, <2>2 DEF Found
  <1> QED
    BY <1>3 DEF WordsFound

\* A string is pushed for the word that was just read.
LEMMA WordPushed ==
  ASSUME NEW l \in Seq(Chars), NEW s \in 1 .. Len(l), NEW a \in s + 1 .. Len(l) + 1,
         \A i \in s .. a - 1 : l[i] \notin Blanks,
         s > 1 => l[s - 1] \in Blanks, a <= Len(l) => l[a] \in Blanks,
         NEW es \in Seq(ElementType), WordsFound(es, l, s),
         NEW e, e.text = SubSeq(l, s, a - 1), NEW fs, fs = Append(es, e),
         NEW b \in {a, a + 1}
  PROVE  WordsFound(fs, l, b)
  <1>1. PICK w \in [DOMAIN es -> Words(l)] : Found(es, l, w, s)
    BY DEF WordsFound
  <1> DEFINE n == Len(es)
             new == <<s, a - 1>>
             v == [i \in DOMAIN fs |-> IF i = n + 1 THEN new ELSE w[i]]
  <1>2. /\ DOMAIN es = 1 .. n /\ n \in Nat
        /\ DOMAIN fs = 1 .. n + 1
        /\ fs[n + 1] = e /\ \A i \in 1 .. n : fs[i] = es[i]
    OBVIOUS
  <1>3. /\ new \in Words(l)
        /\ \A r \in Words(l) : s <= r[2] /\ r[2] <= a => r = new
    BY NewWord
  <1>4. v \in [DOMAIN fs -> Words(l)]
    <2>1. \A i \in DOMAIN fs : i # n + 1 => i \in DOMAIN es
      BY <1>2
    <2> HIDE DEF new, n
    <2> QED
      BY <1>1, <1>3, <2>1
  <1>5. /\ v[n + 1] = new /\ new[1] = s /\ new[2] = a - 1
        /\ \A i \in 1 .. n : v[i] = w[i]
    BY <1>2
  <1>6. \A r \in Words(l) : r[1] \in Nat /\ r[2] \in Nat
    BY DEF Words
  <1>7. /\ \A i, k \in 1 .. n : i < k => w[i][2] < w[k][1]
        /\ \A i \in 1 .. n : es[i].text = SubSeq(l, w[i][1], w[i][2])
        /\ \A i \in 1 .. n : w[i][2] < s
        /\ \A r \in Words(l) : r[2] < s => \E i \in 1 .. n : w[i] = r
    BY <1>1, <1>2 DEF Found
  <1>8. \A i \in 1 .. n : w[i] \in Words(l)
    BY <1>1, <1>2
  <1> HIDE DEF v, new, n
  <1>9. \A i, k \in DOMAIN fs : i < k => v[i][2] < v[k][1]
    <2> SUFFICES ASSUME NEW i \in 1 .. n + 1, NEW k \in 1 .. n + 1, i < k
                 PROVE  v[i][2] < v[k][1]
      BY <1>2
    <2>1. CASE k = n + 1
      <3>1. i \in 1 .. n
        BY <1>2, <2>1
      <3> QED
        BY <1>5, <1>7, <2>1, <3>1
    <2>2. CASE k # n + 1
      <3>1. i \in 1 .. n /\ k \in 1 .. n
        BY <1>2, <2>2
      <3> QED
        BY <1>5, <1>7, <3>1
    <2> QED
      BY <2>1, <2>2
  <1>10. \A i \in DOMAIN fs : fs[i].text = SubSeq(l, v[i][1], v[i][2])
    <2> SUFFICES ASSUME NEW i \in 1 .. n + 1
                 PROVE  fs[i].text = SubSeq(l, v[i][1], v[i][2])
      BY <1>2
    <2>1. CASE i = n + 1
      BY <1>2, <1>5, <2>1
    <2>2. CASE i # n + 1
      <3>1. i \in 1 .. n
        BY <1>2, <2>2
      <3> QED
        BY <1>2, <1>5, <1>7, <3>1
    <2> QED
      BY <2>1, <2>2
  <1>11. \A i \in DOMAIN fs : v[i][2] < b
    <2> SUFFICES ASSUME NEW i \in 1 .. n + 1 PROVE v[i][2] < b
      BY <1>2
    <2>1. CASE i = n + 1
      BY <1>5, <2>1
    <2>2. CASE i # n + 1
      <3>1. i \in 1 .. n
        BY <1>2, <2>2
      <3>2. v[i] = w[i] /\ w[i][2] \in Nat /\ w[i][2] < s
        BY <1>5, <1>6, <1>7, <1>8, <3>1
      <3> QED
        BY <3>2
    <2> QED
      BY <2>1, <2>2
  <1>12. ASSUME NEW r \in Words(l), r[2] < b
         PROVE  \E i \in DOMAIN fs : v[i] = r
    <2>1. CASE r[2] < s
      <3>1. PICK i \in 1 .. n : w[i] = r
        BY <1>7, <2>1
      <3>2. i \in DOMAIN fs /\ v[i] = r
        BY <1>2, <1>5, <3>1
      <3> QED
        BY <3>2
    <2>2. CASE ~(r[2] < s)
      <3>1. r[2] \in Nat /\ s <= r[2] /\ r[2] <= a
        BY <1>6, <1>12, <2>2
      <3>2. r = new
        BY <1>3, <3>1
      <3>3. n + 1 \in DOMAIN fs /\ v[n + 1] = r
        BY <1>2, <1>5, <3>2
      <3> QED
        BY <3>3
    <2> QED
      BY <2>1, <2>2
  <1>13. Found(fs, l, v, b)
    BY <1>9, <1>10, <1>11, <1>12 DEF Found
  <1> QED
    BY <1>4, <1>13 DEF WordsFound


-----------------------------------------------------------------------------
(* The invariant.                                                           *)

\* What the invariant says of a shell that waits for keys.
LEMMA Waiting ==
  ASSUME ShellInv, pc \in {"getline", "fault", "exit"}
  PROVE  /\ elems = <<>> /\ tokens.data = 0 /\ Pieces = {}
         /\ parts = 0 /\ ret = Unset /\ ret.data = 0
  <1>1. elems = <<>> /\ tokens.data = 0 /\ parts = 0 /\ ret = Unset
    BY DEF ShellInv, Phases, Typed
  <1> QED
    BY <1>1 DEF Pieces, Unset, Null

LEMMA ShellStarts == Init => ShellInv
  <1> SUFFICES ASSUME Init PROVE ShellInv
    OBVIOUS
  <1>1. /\ input = [data |-> 0, size |-> 0] /\ ret = [data |-> 0, size |-> 0]
        /\ line = <<>> /\ elems = <<>> /\ start = Start /\ column = Start
        /\ offer = NoOffer /\ tokens = [data |-> 0, len |-> 0, capacity |-> 0]
        /\ scan = [at |-> 1, start |-> 0, len |-> 0] /\ pc = "getline"
        /\ parts = 0 /\ left = {} /\ heap = KernelHeap.heap
    BY DEF Init, Unset, NoVector, Null
  <1>2. /\ Start \in 1 .. Width - 2 /\ Width \in Nat /\ TimeParts \in Seq(Nat)
    BY ShellAssumption
  <1>3. Typed
    <2>1. HeapType(heap)
      BY <1>1, KernelHeapIs
    <2>2. start \in 0 .. Width - 1 /\ parts \in 0 .. Len(TimeParts)
      BY <1>1, <1>2
    <2>3. line \in Seq(Chars) /\ elems \in Seq(ElementType)
      BY <1>1
    <2> QED
      BY <1>1, <2>1, <2>2, <2>3 DEF Typed, StringType
  <1>4. Pieces = {} /\ Pointed
    BY <1>1 DEF Pieces, Pointed
  <1>5. Phases
    BY <1>1 DEF Phases, Unset, Null
  <1>6. Edited
    <2>1. Start % Width = Start
      BY <1>2, Columns
    <2> QED
      BY <1>1, <1>2, <2>1 DEF Edited, OfferCompletes
  <1>7. Read
    BY <1>1 DEF Read
  <1>8. ASSUME heap.misused = {} PROVE Owned
    <2>1. Tiled(heap) /\ heap.used \subseteq {K} /\ K \in heap.used
      BY <1>1, <1>8, KernelHeapIs
    <2> QED
      BY <1>1, <1>4, <2>1 DEF Owned, Held
  <1>9. Apart
    BY <1>1 DEF Apart
  <1> QED
    BY <1>3, <1>4, <1>5, <1>6, <1>7, <1>8, <1>9 DEF ShellInv

\* A call on the line while no tokens exist.
LEMMA LineOwned ==
  ASSUME ShellInv, heap.misused = {}, pc = "getline",
         Kept(heap, input.data, heap', input'.data), heap'.misused = {},
         tokens'.data = 0, elems' = <<>>, ret' = ret, left' = left
  PROVE  Owned'
  <1>1. /\ elems = <<>> /\ Pieces = {} /\ ret.data = 0
    BY Waiting
  <1>2. Pieces' = {} /\ ret'.data = 0 /\ Held(ret.data) = {} /\ Held(ret'.data) = {}
    BY <1>1 DEF Pieces, Held
  <1>3. /\ Tiled(heap) /\ K \in heap.used
        /\ heap.used \subseteq {K} \cup left \cup Held(input.data)
        /\ input.data # 0 => Block(input.data) # K
    BY <1>1, <1>2 DEF ShellInv, Owned
  <1>4. /\ Tiled(heap')
        /\ Held(input'.data) \cap (heap.used \ Held(input.data)) = {}
        /\ heap.used \ Held(input.data) \subseteq heap'.used
        /\ heap'.used \subseteq (heap.used \ Held(input.data)) \cup Held(input'.data)
    BY <1>3 DEF Kept
  <1>5. K \notin Held(input.data)
    BY <1>3 DEF Held
  <1>6. K \in heap'.used /\ K \notin Held(input'.data)
    BY <1>3, <1>4, <1>5
  <1>7. input'.data # 0 => Block(input'.data) # K
    BY <1>6 DEF Held
  <1>8. heap'.used \subseteq {K} \cup left' \cup Held(input'.data)
    BY <1>3, <1>4
  <1>9. DOMAIN elems' = {}
    OBVIOUS
  <1> QED
    BY <1>2, <1>4, <1>6, <1>7, <1>8, <1>9 DEF Owned

\* A key that changes the line.
LEMMA EditKeeps ==
  ASSUME ShellInv, heap.misused = {}, pc = "getline",
         Kept(heap, input.data, heap', input'.data),
         input' \in StringType, input'.data = 0 => input'.size = 0,
         UNCHANGED <<start, tokens, elems, scan, time, pc, left>>,
         line' \in Seq(Chars), column' \in 0 .. Width - 1,
         input'.size = Len(line'), column' = (start + Len(line')) % Width,
         Updated(line', column')
  PROVE  ShellInv'
  <1>1. /\ elems = <<>> /\ tokens.data = 0 /\ Pieces = {}
        /\ parts = 0 /\ ret = Unset /\ ret.data = 0
    BY Waiting
  <1>2. offer' = Completion(line', column', spaced')
    BY DEF Updated
  <1>3. /\ offer' \in Seq(Chars) \cup {NoOffer}
        /\ offer' # NoOffer => \E i \in DOMAIN Cmds : line' \o offer' = Cmds[i]
    <2> DEFINE l == line'
               c == column'
               sp == spaced'
    <2>1. l \in Seq(Chars)
      OBVIOUS
    <2> HIDE DEF l, c, sp
    <2>2. Completes(l, Completion(l, c, sp))
      BY <2>1, CompletionIs
    <2>3. Completes(line', offer')
      BY <1>2, <2>2 DEF l, c, sp
    <2> QED
      BY <2>3 DEF Completes
  <1>4. HeapType(heap') /\ (input'.data # 0 => Block(input'.data) \in Segs(heap'))
    BY DEF Kept
  <1>5. Typed'
    BY <1>3, <1>4 DEF ShellInv, Typed, time
  <1>6. Pieces' = {} /\ Pointed'
    BY <1>1, <1>4 DEF Pieces, Pointed, time
  <1>7. Phases'
    BY <1>1 DEF ShellInv, Phases, time
  <1>8. Edited'
    BY <1>3 DEF Edited, OfferCompletes
  <1>9. Read'
    BY DEF Read
  <1>10. heap'.misused = {} => Owned'
    BY <1>1, LineOwned DEF time
  <1>11. Apart'
    BY DEF Apart
  <1> QED
    BY <1>5, <1>6, <1>7, <1>8, <1>9, <1>10, <1>11 DEF ShellInv

\* The line is terminated and handed to str_tokenize().
LEMMA SubmitKeeps ==
  ASSUME ShellInv, heap.misused = {}, pc = "getline",
         NEW h, NEW s \in StringType, Kept(heap, input.data, h, s.data),
         NEW l \in Seq(Chars), Submit(h, s, l),
         start' \in 0 .. Width - 1, column' \in 0 .. Width - 1, offer' = NoOffer
  PROVE  ShellInv'
  <1>1. /\ elems = <<>> /\ tokens.data = 0 /\ Pieces = {}
        /\ parts = 0 /\ ret = Unset /\ ret.data = 0
    BY Waiting
  <1>2. PICK r \in StrPushc(h, s) : heap' = r.heap /\ input' = r.str
    BY DEF Submit
  <1>3. /\ line' = l /\ tokens' = [data |-> 0, len |-> 0, capacity |-> 0]
        /\ elems' = <<>> /\ scan' = [at |-> 1, start |-> 0, len |-> 0]
        /\ pc' = "tokenize" /\ ret' = ret /\ parts' = parts /\ left' = left
    BY DEF Submit, NoVector, Null, time
  <1>4. /\ Kept(h, s.data, r.heap, r.str.data) /\ r.str \in StringType
        /\ r.str.data # 0
    BY PushesKept DEF Kept
  <1>5. Kept(heap, input.data, heap', input'.data)
    <2> DEFINE p == input.data
               q == s.data
               o == r.str.data
               f == r.heap
    <2>1. Kept(heap, p, h, q) /\ Kept(h, q, f, o)
      BY <1>4
    <2> HIDE DEF p, q, o, f
    <2>2. Kept(heap, p, f, o)
      BY <2>1, KeptTwice
    <2> QED
      BY <1>2, <2>2 DEF p, o, f
  <1>6. HeapType(heap') /\ (input'.data # 0 => Block(input'.data) \in Segs(heap'))
    BY <1>5 DEF Kept
  <1>7. Typed'
    <2>1. elems' \in Seq(ElementType) /\ ret' \in StringType
          /\ parts' \in 0 .. Len(TimeParts)
      BY <1>3 DEF ShellInv, Typed
    <2> QED
      BY <1>2, <1>3, <1>4, <1>6, <2>1 DEF Typed
  <1>8. Pieces' = {} /\ Pointed'
    BY <1>1, <1>3, <1>6 DEF Pieces, Pointed
  <1>9. Phases'
    BY <1>1, <1>3 DEF Phases
  <1>10. Edited'
    BY <1>3 DEF Edited
  <1>11. Read'
    <2>1. WordsFound(elems', line', 1)
      <3>1. \A r2 \in Words(l) : r2[2] \in Nat \ {0}
        BY DEF Words
      <3>2. <<>> \in [DOMAIN elems' -> Words(l)] /\ DOMAIN elems' = {}
        BY <1>3
      <3>3. Found(elems', line', <<>>, 1)
        BY <1>3, <3>1, <3>2 DEF Found
      <3> QED
        BY <1>3, <3>2, <3>3 DEF WordsFound
    <2>2. scan'.at - scan'.len = 1 /\ scan'.at \in 1 .. Len(line') + 1
          /\ scan'.len < scan'.at
      BY <1>3
    <2>3. Scanned'
      BY <1>3, <2>1, <2>2 DEF Scanned
    <2> QED
      BY <1>3, <2>3 DEF Read
  <1>12. heap'.misused = {} => Owned'
    BY <1>3, <1>5, LineOwned
  <1>13. Apart'
    <2>1. owned' = (Block(input'.data) \in heap'.used)
      BY DEF Submit
    <2> QED
      BY <1>3, <1>8, <2>1 DEF Apart
  <1> QED
    BY <1>7, <1>8, <1>9, <1>10, <1>11, <1>12, <1>13 DEF ShellInv

LEMMA TypeKeeps ==
  ASSUME ShellInv, heap.misused = {}, NEW c \in Chars, Type(c)
  PROVE  ShellInv'
  <1> DEFINE l == Append(line, c)
             full == column + 1 >= Width
  <1>1. pc = "getline"
    BY DEF Type
  <1>2. PICK r \in StrPushc(heap, input) :
          IF full
          THEN /\ Submit(r.heap, r.str, l)
               /\ BeginLine(column)
          ELSE /\ heap' = r.heap
               /\ input' = r.str
               /\ line' = l
               /\ column' = column + 1
               /\ Updated(l, column + 1)
               /\ UNCHANGED <<start, tokens, elems, scan, time, pc, spoiled, left, owned, ran>>
    BY DEF Type
  <1>3. /\ line \in Seq(Chars) /\ input \in StringType /\ HeapType(heap)
        /\ input.data # 0 => Block(input.data) \in Segs(heap)
        /\ input.size = Len(line) /\ column = (start + Len(line)) % Width
        /\ start \in 0 .. Width - 1 /\ column \in 0 .. Width - 1 /\ Width \in Nat
    BY <1>1, ShellAssumption DEF ShellInv, Typed, Pointed, Edited
  <1>4. /\ Kept(heap, input.data, r.heap, r.str.data) /\ r.str \in StringType
        /\ r.str.data # 0 /\ r.str.size = input.size + 1
    BY <1>3, PushesKept
  <1>5. l \in Seq(Chars) /\ Len(l) = Len(line) + 1
    BY <1>3
  <1> HIDE DEF l
  <1>6. CASE full
    <2>1. Submit(r.heap, r.str, l) /\ start' = column /\ column' = column
          /\ offer' = NoOffer
      BY <1>2, <1>6 DEF BeginLine
    <2> DEFINE h == r.heap
               s == r.str
    <2>2. s \in StringType /\ Kept(heap, input.data, h, s.data) /\ Submit(h, s, l)
      BY <1>4, <2>1
    <2> HIDE DEF h, s
    <2> QED
      BY <1>1, <1>3, <1>5, <2>1, <2>2, SubmitKeeps
  <1>7. CASE ~full
    <2>1. /\ heap' = r.heap /\ input' = r.str /\ line' = l /\ column' = column + 1
          /\ Updated(line', column')
          /\ UNCHANGED <<start, tokens, elems, scan, time, pc, left>>
      BY <1>2, <1>7
    <2>2. column + 1 < Width /\ column' \in 0 .. Width - 1
      BY <1>3, <1>7, <2>1
    <2>3. column' = (start + Len(line')) % Width
      <3> DEFINE x == start + Len(line)
      <3>1. x \in Nat /\ Width \in Nat \ {0} /\ x % Width = column
        BY <1>3, <2>2
      <3>2. start + Len(line') = x + 1
        BY <1>3, <1>5, <2>1
      <3> HIDE DEF x
      <3>3. (x % Width) + 1 < Width => (x + 1) % Width = (x % Width) + 1
        BY <3>1, Columns
      <3> QED
        BY <2>1, <2>2, <3>1, <3>2, <3>3
    <2>4. input'.size = Len(line') /\ input'.data # 0
      BY <1>3, <1>4, <1>5, <2>1
    <2>5. Kept(heap, input.data, heap', input'.data) /\ input' \in StringType
          /\ line' \in Seq(Chars)
      BY <1>4, <1>5, <2>1
    <2> QED
      BY <1>1, <2>1, <2>2, <2>3, <2>4, <2>5, EditKeeps
  <1> QED
    BY <1>6, <1>7

LEMMA BackspaceKeeps ==
  ASSUME ShellInv, heap.misused = {}, Backspace
  PROVE  ShellInv'
  <1> DEFINE r == StrPop(heap, input, 1)
             l == SubSeq(line, 1, Len(line) - 1)
  <1>1. /\ pc = "getline" /\ column > start
        /\ heap' = r.heap /\ input' = r.str /\ line' = l /\ column' = column - 1
        /\ Updated(line', column')
        /\ UNCHANGED <<start, tokens, elems, scan, time, pc, left>>
    BY DEF Backspace
  <1>2. /\ line \in Seq(Chars) /\ input \in StringType /\ HeapType(heap)
        /\ input.data # 0 => Block(input.data) \in Segs(heap)
        /\ input.data = 0 => input.size = 0
        /\ input.size = Len(line) /\ column = (start + Len(line)) % Width
        /\ start \in 0 .. Width - 1 /\ column \in 0 .. Width - 1 /\ Width \in Nat
    BY <1>1, ShellAssumption DEF ShellInv, Typed, Pointed, Edited
  <1> DEFINE x == start + Len(line)
  <1>3. x \in Nat /\ Width \in Nat \ {0} /\ x % Width = column
    BY <1>2
  <1>4. Len(line) > 0
    <2>1. Len(line) \in Nat
      BY <1>2
    <2>2. ASSUME Len(line) = 0 PROVE FALSE
      <3>1. x = start /\ x < Width
        BY <1>2, <2>2
      <3> HIDE DEF x
      <3>2. x % Width = x
        BY <1>3, <3>1, Columns
      <3> QED
        BY <1>1, <1>2, <1>3, <3>1, <3>2
    <2> QED
      BY <2>1, <2>2
  <1>5. l \in Seq(Chars) /\ Len(l) = Len(line) - 1
    <2> DEFINE n == Len(line) - 1
    <2>1. line \in Seq(Chars) /\ Len(line) \in Nat /\ n \in Nat
          /\ 1 \in 1 .. Len(line) + 1 /\ n \in 0 .. Len(line) /\ n - 1 + 1 = n
      BY <1>2, <1>4
    <2>2. \A i \in 1 .. n : line[i] \in Chars
      BY <2>1
    <2>3. l = [i \in 1 .. n |-> line[i]]
      BY <2>1
    <2> HIDE DEF n, l
    <2>4. l \in Seq(Chars) /\ Len(l) = n
      BY <2>1, <2>2, <2>3
    <2> QED
      BY <2>4 DEF n
  <1>6. /\ Kept(heap, input.data, r.heap, r.str.data)
        /\ r.str \in StringType /\ r.str.size = input.size - 1
        /\ r.str.data = 0 => r.str.size = 0
    <2>1. input.size > 0
      BY <1>2, <1>4
    <2> HIDE DEF r
    <2>2. r = StrPop(heap, input, 1)
      BY DEF r
    <2> QED
      BY <1>2, <2>1, <2>2, PopKept
  <1> HIDE DEF r, l, x
  <1>7. column' = (start + Len(line')) % Width /\ column' \in 0 .. Width - 1
    <2>1. start + Len(line') = x - 1
      BY <1>1, <1>2, <1>5 DEF x
    <2>2. x % Width > 0
      BY <1>1, <1>2, <1>3
    <2>3. x % Width > 0 => (x - 1) % Width = (x % Width) - 1
      BY <1>3, Columns
    <2>4. column' = (x - 1) % Width
      BY <1>1, <1>3, <2>2, <2>3
    <2>5. column' = (start + Len(line')) % Width
      BY <2>1, <2>4
    <2>6. column' \in 0 .. Width - 1
      BY <1>1, <1>2
    <2> QED
      BY <2>5, <2>6
  <1>8. input'.size = Len(line') /\ (input'.data = 0 => input'.size = 0)
    BY <1>1, <1>2, <1>5, <1>6
  <1>9. Kept(heap, input.data, heap', input'.data) /\ input' \in StringType
        /\ line' \in Seq(Chars)
    BY <1>1, <1>5, <1>6
  <1> QED
    BY <1>1, <1>7, <1>8, <1>9, EditKeeps

LEMMA TabKeeps ==
  ASSUME ShellInv, heap.misused = {}, Tab
  PROVE  ShellInv'
  <1> DEFINE l == line \o offer
             c == (column + Len(offer)) % Width
  <1>1. /\ pc = "getline" /\ offer # NoOffer
        /\ line' = l /\ column' = c /\ Updated(line', column')
        /\ UNCHANGED <<start, tokens, elems, scan, time, pc, left>>
    BY DEF Tab
  <1>2. PICK r \in StrPush(heap, input, Len(offer)) : heap' = r.heap /\ input' = r.str
    BY DEF Tab
  <1>3. /\ line \in Seq(Chars) /\ input \in StringType /\ HeapType(heap)
        /\ input.data # 0 => Block(input.data) \in Segs(heap)
        /\ input.size = Len(line) /\ column = (start + Len(line)) % Width
        /\ start \in 0 .. Width - 1 /\ column \in 0 .. Width - 1 /\ Width \in Nat
        /\ offer \in Seq(Chars)
    BY <1>1, ShellAssumption DEF ShellInv, Typed, Pointed, Edited
  <1>4. l \in Seq(Chars) /\ Len(l) = Len(line) + Len(offer) /\ Len(offer) \in Nat
        /\ Len(line) \in Nat
    BY <1>3
  <1> DEFINE n == Len(offer)
             x == start + Len(line)
  <1>5. n \in Nat /\ x \in Nat /\ Width \in Nat \ {0} /\ x % Width = column
        /\ r \in StrPush(heap, input, n)
    <2>1. x % Width = column
      BY <1>3
    <2>2. Width # 0
      BY <1>3
    <2>3. n \in Nat /\ x \in Nat
      BY <1>3, <1>4
    <2> HIDE DEF n, x
    <2>4. r \in StrPush(heap, input, n)
      BY <1>2 DEF n
    <2> QED
      BY <1>3, <2>1, <2>2, <2>3, <2>4
  <1>6. start + Len(line') = x + n /\ column' = (column + n) % Width
    <2>1. line' = l /\ column' = c
      BY <1>1
    <2>2. Len(line') = Len(line) + n /\ start \in Int /\ Len(line) \in Int
      BY <1>3, <1>4, <2>1
    <2> QED
      BY <1>5, <2>1, <2>2
  <1> HIDE DEF l, n, x, c
  <1>7. /\ Kept(heap, input.data, r.heap, r.str.data) /\ r.str \in StringType
        /\ r.str.data # 0 /\ r.str.size = input.size + n
    <2> DEFINE s == input
               f == r
    <2>1. /\ HeapType(heap) /\ s \in StringType /\ n \in Nat
          /\ s.data # 0 => Block(s.data) \in Segs(heap)
          /\ f \in StrPush(heap, s, n)
      BY <1>3, <1>5
    <2> HIDE DEF s, f
    <2>2. /\ Kept(heap, s.data, f.heap, f.str.data)
          /\ f.str \in StringType /\ f.str.data # 0 /\ f.str.size = s.size + n
      BY <2>1, PushesKept
    <2> QED
      BY <2>2 DEF s, f
  <1>8. column' = (start + Len(line')) % Width /\ column' \in 0 .. Width - 1
    <2>1. ((x % Width) + n) % Width = (x + n) % Width
      BY <1>5, Columns
    <2>2. x + n \in Nat
      BY <1>5
    <2>4. column' = (x + n) % Width
      BY <1>5, <1>6, <2>1
    <2>3. (x + n) % Width \in 0 .. Width - 1
      <3> DEFINE y == x + n
      <3>1. y \in Nat
        BY <2>2
      <3> HIDE DEF y
      <3>2. y % Width \in 0 .. Width - 1
        BY <1>5, <3>1, Columns
      <3> QED
        BY <3>2 DEF y
    <2> QED
      BY <1>6, <2>3, <2>4
  <1>9. input'.size = Len(line') /\ input'.data # 0
    BY <1>1, <1>2, <1>3, <1>4, <1>7 DEF n
  <1>10. Kept(heap, input.data, heap', input'.data) /\ input' \in StringType
         /\ line' \in Seq(Chars)
    BY <1>1, <1>2, <1>4, <1>7
  <1> QED
    BY <1>1, <1>8, <1>9, <1>10, EditKeeps

LEMMA EnterKeeps ==
  ASSUME ShellInv, heap.misused = {}, Enter
  PROVE  ShellInv'
  <1>1. pc = "getline" /\ start' = 0 /\ column' = 0 /\ offer' = NoOffer
    BY DEF Enter, BeginLine
  <1>2. 0 \in 0 .. Width - 1 /\ Width \in Nat \ {0}
    BY ShellAssumption
  <1>3. CASE input.data = Null
    <2>1. UNCHANGED <<heap, input, line, tokens, elems, scan, time, pc, left>>
      BY <1>3 DEF Enter
    <2>2. Len(line) = 0
      BY <1>1, <1>3 DEF ShellInv, Typed, Edited, Null
    <2>3. 0 % Width = 0
      BY <1>2, Columns
    <2>4. Typed'
      BY <1>1, <1>2, <2>1 DEF ShellInv, Typed, time
    <2>5. Pieces' = Pieces /\ Pointed'
      BY <2>1 DEF ShellInv, Pointed, Pieces, TokenData, time
    <2>6. Phases'
      BY <2>1 DEF ShellInv, Phases, time, Word
    <2>7. Edited'
      BY <1>1, <2>1, <2>2, <2>3 DEF ShellInv, Edited, OfferCompletes
    <2>8. Read'
      BY <1>1, <2>1 DEF Read
    <2>9. heap'.misused = {} => Owned'
      BY <2>1, <2>5 DEF ShellInv, Owned, TokenData, time
    <2>10. Apart'
      BY <1>1, <2>1 DEF Apart
    <2> QED
      BY <2>4, <2>5, <2>6, <2>7, <2>8, <2>9, <2>10 DEF ShellInv
  <1>4. CASE input.data # Null
    <2>1. Submit(heap, input, line)
      BY <1>4 DEF Enter
    <2>2. /\ line \in Seq(Chars) /\ input \in StringType /\ HeapType(heap)
          /\ input.data \in Nat /\ (input.data # 0 => Block(input.data) \in Segs(heap))
      BY DEF ShellInv, Typed, Pointed, StringType
    <2>3. Kept(heap, input.data, heap, input.data)
      BY <2>2, SameKept
    <2> QED
      BY <1>1, <1>2, <2>1, <2>2, <2>3, SubmitKeeps
  <1> QED
    BY <1>3, <1>4


-----------------------------------------------------------------------------
(* str_tokenize().                                                          *)

\* The blocks of pointers differ if the pointers do.
LEMMA BlocksDiffer ==
  ASSUME NEW p \in Nat, NEW q \in Nat
  PROVE  Block(p) = Block(q) => p = q
  BY HeapOpsAssumption DEF Block

\* Two calls on the heap from h over g to f: a string is copied behind
\* pointer d, then the vector moves from p to q.
LEMMA CopyAndPush ==
  ASSUME NEW h, NEW g, NEW f, NEW d, NEW p, NEW q,
         Kept(h, 0, g, d), Kept(g, p, f, q), d # 0, q # 0,
         Tiled(h), f.misused = {}, Held(p) \subseteq h.used
  PROVE  /\ Tiled(f)
         /\ Block(d) \in f.used /\ Block(d) \notin h.used
         /\ Block(q) \in f.used /\ Block(q) # Block(d)
         /\ Block(q) \notin h.used \ Held(p)
         /\ h.used \ Held(p) \subseteq f.used
         /\ f.used \subseteq (h.used \ Held(p)) \cup {Block(d), Block(q)}
         /\ \A t \in h.used \ Held(p) : f.size[t] = h.size[t]
         /\ f.size[Block(d)] = g.size[Block(d)]
  <1>1. Held(0) = {} /\ Held(d) = {Block(d)} /\ Held(q) = {Block(q)}
    BY DEF Held
  <1>2. g.misused = {}
    BY DEF Kept
  <1>3. /\ Tiled(g) /\ Block(d) \notin h.used /\ h.used \subseteq g.used
        /\ g.used \subseteq h.used \cup {Block(d)} /\ Block(d) \in g.used
        /\ \A t \in h.used : g.size[t] = h.size[t]
    <2>1. /\ Tiled(g) /\ Held(d) \cap (h.used \ Held(0)) = {}
          /\ h.used \ Held(0) \subseteq g.used
          /\ g.used \subseteq (h.used \ Held(0)) \cup Held(d)
          /\ Held(0) \subseteq h.used => Held(d) \subseteq g.used
          /\ \A t \in h.used \ Held(0) : g.size[t] = h.size[t]
      BY <1>2 DEF Kept
    <2> QED
      BY <1>1, <2>1
  <1>4. /\ Tiled(f) /\ Block(q) \notin g.used \ Held(p)
        /\ g.used \ Held(p) \subseteq f.used
        /\ f.used \subseteq (g.used \ Held(p)) \cup {Block(q)}
        /\ Block(q) \in f.used
        /\ \A t \in g.used \ Held(p) : f.size[t] = g.size[t]
    <2>1. /\ Tiled(f) /\ Held(q) \cap (g.used \ Held(p)) = {}
          /\ g.used \ Held(p) \subseteq f.used
          /\ f.used \subseteq (g.used \ Held(p)) \cup Held(q)
          /\ Held(p) \subseteq g.used => Held(q) \subseteq f.used
          /\ \A t \in g.used \ Held(p) : f.size[t] = g.size[t]
      BY <1>3 DEF Kept
    <2> QED
      BY <1>1, <1>3, <2>1
  <1>5. Block(d) \in g.used \ Held(p)
    BY <1>3
  <1> QED
    BY <1>3, <1>4, <1>5

\* A word is pushed: the tokens stay apart and nothing else changes hands.
LEMMA PushTokenKeeps ==
  ASSUME ShellInv, heap.misused = {}, pc = "tokenize", PushToken,
         scan.start >= 1, scan.start + scan.len = scan.at, scan.at <= Len(line) + 1,
         scan.len > 0,
         UNCHANGED <<input, line, editor, time, pc, left, owned>>
  PROVE  /\ HeapType(heap') /\ tokens' \in [data : Nat, len : Nat, capacity : Nat]
         /\ elems' \in Seq(ElementType) /\ tokens'.data # 0 /\ elems' # <<>>
         /\ tokens'.len = Len(elems') /\ tokens'.len <= tokens'.capacity
         /\ \E e : /\ e.text = SubSeq(line, scan.start, scan.at - 1)
                   /\ elems' = Append(elems, e)
         /\ Pointed' /\ (heap'.misused = {} => Owned' /\ Apart')
  <1>1. /\ HeapType(heap) /\ elems \in Seq(ElementType) /\ line \in Seq(Chars)
        /\ tokens.data \in Nat /\ tokens.len = Len(elems)
        /\ scan.at \in Nat /\ scan.start \in Nat /\ scan.len \in Nat
        /\ tokens.data = 0 <=> elems = <<>>
    BY DEF ShellInv, Typed, Phases
  <1> DEFINE c == scan.len
  <1>2.  PICK t, v :
          /\ t \in StrSet(heap, Unset, c) /\ v \in PushElement(t.heap)
          /\ heap' = v.heap /\ tokens' = v.vec
          /\ elems' = Append(elems,
               [data |-> t.str.data,
                text |-> SubSeq(line, scan.start, scan.start + scan.len - 1)])
    BY DEF PushToken
  <1> DEFINE d == t.str.data
             p == tokens.data
             q == v.vec.data
             g == t.heap
             text == SubSeq(line, scan.start, scan.start + scan.len - 1)
             e == [data |-> d, text |-> text]
  <1>0. PICK n \in Nat : n = Len(elems)
    BY <1>1
  <1>3. Kept(heap, 0, g, d) /\ d # 0 /\ d \in Nat /\ g.size[Block(d)] >= c
    <2>1. PICK r \in Alloc(heap, c) : t = Placed(r, c, 0, c)
      BY <1>2 DEF StrSet, Replace, Unset, Null
    <2> DEFINE b == c
               o == r.seg + HeaderSize
    <2>2. t.heap = r.heap /\ t.str.data = o
      BY <2>1 DEF Placed
    <2>3. b \in Nat /\ r \in Alloc(heap, b)
      BY <1>1, <2>1
    <2> HIDE DEF b, o
    <2>4. /\ Kept(heap, 0, r.heap, o) /\ o # 0 /\ Block(o) = r.seg
          /\ r.heap.size[r.seg] >= b
      BY <1>1, <2>3, AllocKept DEF o
    <2>5. o \in Nat
      BY <2>4 DEF Kept
    <2> QED
      BY <2>2, <2>4, <2>5 DEF b
  <1>4. /\ Kept(g, p, v.heap, q) /\ tokens' \in [data : Nat, len : Nat, capacity : Nat]
        /\ q # 0 /\ tokens'.len = n + 1 /\ tokens'.len <= tokens'.capacity
    <2>1. HeapType(g) /\ (p # 0 => Block(p) \in Segs(g))
      <3>1. p # 0 => Block(p) \in Segs(heap)
        <4>1. p # 0 => 0 \in Pieces /\ TokenData(0) = p
          BY <1>1 DEF Pieces, TokenData
        <4> QED
          BY <4>1 DEF ShellInv, Pointed
      <3> QED
        BY <1>3, <3>1 DEF Kept
    <2> DEFINE k == g
    <2>2. HeapType(k) /\ (p # 0 => Block(p) \in Segs(k)) /\ v \in PushElement(k)
      BY <1>2, <2>1
    <2> HIDE DEF k
    <2>3. /\ Kept(k, p, v.heap, v.vec.data)
          /\ v.vec \in [data : Nat, len : Nat, capacity : Nat] /\ v.vec.data # 0
          /\ v.vec.len = tokens.len + 1 /\ v.vec.len <= v.vec.capacity
      BY <2>2, PushElementKept DEF ShellInv
    <2> QED
      BY <1>0, <1>1, <1>2, <2>3 DEF k
  <1>5. text \in Seq(Chars) /\ Len(text) = c /\ text = SubSeq(line, scan.start, scan.at - 1)
    <2> DEFINE a == scan.start
               b == scan.at - 1
    <2>3. PICK x \in Nat, y \in Nat, z \in Nat, m \in Nat :
            x = scan.start /\ y = scan.len /\ z = scan.at /\ m = Len(line)
      BY <1>1
    <2>1. a \in 1 .. Len(line) + 1 /\ b \in a - 1 .. Len(line) /\ b - a + 1 = c
          /\ scan.start + scan.len - 1 = b
      <3>1. x >= 1 /\ x + y = z /\ z <= m + 1
        BY <2>3
      <3>2. x \in 1 .. m + 1 /\ z - 1 \in x - 1 .. m /\ z - 1 - x + 1 = y
            /\ x + y - 1 = z - 1
        BY <3>1
      <3> QED
        BY <2>3, <3>2
    <2> HIDE DEF a, b, c
    <2>2. SubSeq(line, a, b) \in Seq(Chars) /\ Len(SubSeq(line, a, b)) = b - a + 1
      BY <1>1, <2>1, SubSeqProperties
    <2> QED
      BY <2>1, <2>2 DEF a, b
  <1>6. elems' = Append(elems, e) /\ e.text = text /\ e.data = d
    BY <1>2
  <1>7. e \in ElementType
    BY <1>3, <1>5 DEF ElementType
  <1>8. heap' = v.heap /\ tokens'.data = q
    BY <1>2
  <1> HIDE DEF e, d, p, q, g, text, c
  <1>9. /\ elems' \in Seq(ElementType) /\ Len(elems') = n + 1 /\ n \in Nat
        /\ elems'[n + 1] = e /\ \A i \in 1 .. n : elems'[i] = elems[i]
        /\ DOMAIN elems = 1 .. n /\ DOMAIN elems' = 1 .. n + 1 /\ elems' # <<>>
    BY <1>0, <1>1, <1>6, <1>7
  <1>10. /\ Pieces' = 0 .. n + 1
         /\ TokenData(0)' = q /\ TokenData(n + 1)' = d
         /\ \A i \in 1 .. n : /\ i \in Pieces /\ TokenData(i)' = TokenData(i)
                              /\ TokenData(i) = elems[i].data
         /\ p # 0 => 0 \in Pieces /\ TokenData(0) = p
    <2>1. Pieces' = 0 .. n + 1
      BY <1>4, <1>8, <1>9 DEF Pieces
    <2>2. TokenData(0)' = q /\ TokenData(n + 1)' = d
      BY <1>6, <1>8, <1>9 DEF TokenData
    <2>3. ASSUME NEW i \in 1 .. n
          PROVE  i \in Pieces /\ TokenData(i)' = TokenData(i) /\ TokenData(i) = elems[i].data
      <3>1. i # 0 /\ i \in 0 .. n /\ elems # <<>> /\ tokens.data # 0
        BY <1>1, <1>9
      <3> QED
        BY <1>9, <2>3, <3>1 DEF Pieces, TokenData
    <2>4. p # 0 => 0 \in Pieces /\ TokenData(0) = p
      BY <1>9 DEF Pieces, TokenData, p
    <2> QED
      BY <2>1, <2>2, <2>3, <2>4
  <1>11. HeapType(heap') /\ Segs(heap) \subseteq Segs(g) /\ Segs(g) \subseteq Segs(heap')
    BY <1>3, <1>4, <1>8 DEF Kept
  <1>12. Pointed'
    <2>1. ASSUME NEW i \in 0 .. n + 1 PROVE Block(TokenData(i)') \in Segs(heap')
      <3>1. CASE i = 0
        BY <1>4, <1>8, <1>10, <3>1 DEF Kept
      <3>2. CASE i = n + 1
        BY <1>3, <1>10, <1>11, <3>2 DEF Kept
      <3>3. CASE i # 0 /\ i # n + 1
        <4>1. i \in 1 .. n
          BY <1>9, <3>3
        <4>2. Block(TokenData(i)) \in Segs(heap)
          BY <1>10, <4>1 DEF ShellInv, Pointed
        <4> QED
          BY <1>10, <1>11, <4>1, <4>2
      <3> QED
        BY <3>1, <3>2, <3>3
    <2>2. /\ input'.data # 0 => Block(input'.data) \in Segs(heap')
          /\ ret'.data # 0 => Block(ret'.data) \in Segs(heap')
      BY <1>11 DEF ShellInv, Pointed, time
    <2> QED
      BY <1>10, <2>1, <2>2 DEF Pointed
  <1>13. ASSUME heap'.misused = {} PROVE Owned' /\ Apart'
    <2>1. Owned /\ Tiled(heap) /\ K \in heap.used
      BY DEF ShellInv, Owned
    <2>2. ASSUME NEW i \in Pieces PROVE Block(TokenData(i)) \in heap.used \ {K}
      BY <2>1, <2>2 DEF Owned
    <2>3. Held(p) \subseteq heap.used \ {K}
      <3>1. p # 0 => Block(p) \in heap.used \ {K}
        BY <1>10, <2>2
      <3> QED
        BY <3>1 DEF Held
    <2>4. /\ Tiled(heap')
          /\ Block(d) \in heap'.used /\ Block(d) \notin heap.used
          /\ Block(q) \in heap'.used /\ Block(q) # Block(d)
          /\ Block(q) \notin heap.used \ Held(p)
          /\ heap.used \ Held(p) \subseteq heap'.used
          /\ heap'.used \subseteq (heap.used \ Held(p)) \cup {Block(d), Block(q)}
          /\ \A x \in heap.used \ Held(p) : heap'.size[x] = heap.size[x]
          /\ heap'.size[Block(d)] = g.size[Block(d)]
      <3> DEFINE f == heap'
      <3>1. Kept(heap, 0, g, d) /\ Kept(g, p, f, q) /\ d # 0 /\ q # 0
            /\ f.misused = {} /\ Held(p) \subseteq heap.used
        BY <1>3, <1>4, <1>8, <1>13, <2>3
      <3> HIDE DEF f
      <3>2. /\ Tiled(f)
            /\ Block(d) \in f.used /\ Block(d) \notin heap.used
            /\ Block(q) \in f.used /\ Block(q) # Block(d)
            /\ Block(q) \notin heap.used \ Held(p)
            /\ heap.used \ Held(p) \subseteq f.used
            /\ f.used \subseteq (heap.used \ Held(p)) \cup {Block(d), Block(q)}
            /\ \A x \in heap.used \ Held(p) : f.size[x] = heap.size[x]
            /\ f.size[Block(d)] = g.size[Block(d)]
        BY <2>1, <3>1, CopyAndPush
      <3> QED
        BY <3>2 DEF f
    <2>5. ASSUME NEW i \in 1 .. n
          PROVE  /\ Block(TokenData(i)) \in heap.used \ Held(p)
                 /\ Block(TokenData(i)) # K /\ i \in Pieces
      <3>1. i \in Pieces /\ Block(TokenData(i)) \in heap.used \ {K}
        BY <1>10, <2>2, <2>5
      <3>2. ASSUME p # 0 PROVE Block(TokenData(i)) # Block(p)
        <4>1. 0 \in Pieces /\ TokenData(0) = p /\ i # 0
          BY <1>10, <2>5, <3>2
        <4>2. TokenData(i) # p
          BY <2>1, <3>1, <4>1 DEF Owned
        <4>3. TokenData(i) \in Nat /\ p \in Nat
          <5>1. elems[i] \in ElementType
            BY <1>1, <1>9, <2>5
          <5>2. TokenData(i) = elems[i].data
            BY <1>10, <2>5
          <5>3. elems[i].data \in Nat
            BY <5>1 DEF ElementType
          <5> QED
            BY <1>1, <5>2, <5>3 DEF p
        <4> QED
          BY <4>2, <4>3, BlocksDiffer
      <3> QED
        BY <3>1, <3>2 DEF Held
    <2>6. ASSUME NEW i \in 0 .. n + 1, NEW k \in 0 .. n + 1, i < k
          PROVE  TokenData(i)' # TokenData(k)'
      <3>1. CASE k = n + 1
        <4>1. CASE i = 0
          BY <1>10, <2>4, <3>1, <4>1
        <4>2. CASE i # 0
          <5>1. i \in 1 .. n
            BY <1>9, <2>6, <3>1, <4>2
          <5> QED
            BY <1>10, <2>4, <2>5, <3>1, <5>1
        <4> QED
          BY <4>1, <4>2
      <3>2. CASE k # n + 1
        <4>1. k \in 1 .. n
          BY <1>9, <2>6, <3>2
        <4>2. CASE i = 0
          BY <1>10, <2>4, <2>5, <4>1, <4>2
        <4>3. CASE i # 0
          <5>1. i \in 1 .. n /\ i # k
            BY <1>9, <2>6, <4>1, <4>3
          <5>2. TokenData(i) # TokenData(k)
            BY <2>1, <2>5, <4>1, <5>1 DEF Owned
          <5> QED
            BY <1>10, <4>1, <5>1, <5>2
        <4> QED
          BY <4>2, <4>3
      <3> QED
        BY <3>1, <3>2
    <2>7. \A i, k \in 0 .. n + 1 : TokenData(i)' = TokenData(k)' => i = k
      <3> SUFFICES ASSUME NEW i \in 0 .. n + 1, NEW k \in 0 .. n + 1, i # k
                   PROVE  TokenData(i)' # TokenData(k)'
        OBVIOUS
      <3>1. CASE i < k
        BY <2>6, <3>1
      <3>2. CASE k < i
        BY <2>6, <3>2
      <3> QED
        BY <1>9, <3>1, <3>2
    <2>8. ASSUME NEW i \in 0 .. n + 1
          PROVE  Block(TokenData(i)') # K /\ Block(TokenData(i)') \in heap'.used
      <3>1. CASE i = 0
        BY <1>10, <2>1, <2>3, <2>4, <3>1
      <3>2. CASE i = n + 1
        BY <1>10, <2>1, <2>4, <3>2
      <3>3. CASE i # 0 /\ i # n + 1
        <4>1. i \in 1 .. n
          BY <1>9, <3>3
        <4> QED
          BY <1>10, <2>4, <2>5, <4>1
      <3> QED
        BY <3>1, <3>2, <3>3
    <2>9. ASSUME NEW i \in 1 .. n + 1
          PROVE  Len(elems'[i].text) <= heap'.size[Block(elems'[i].data)]
      <3>1. CASE i = n + 1
        <4>1. Len(elems'[i].text) = c /\ elems'[i].data = d
          BY <1>5, <1>6, <1>9, <3>1
        <4>2. heap'.size[Block(d)] >= c
          BY <1>3, <2>4
        <4>3. c \in Nat /\ heap'.size[Block(d)] \in Nat
          <5>1. Block(d) \in Segs(heap')
            BY <1>3, <1>11 DEF Kept
          <5> QED
            BY <1>1, <1>11, <5>1, HeapElim DEF c
        <4> QED
          BY <4>1, <4>2, <4>3
      <3>2. CASE i # n + 1
        <4>1. i \in 1 .. n /\ i \in DOMAIN elems
          BY <1>9, <3>2
        <4>2. Len(elems[i].text) <= heap.size[Block(elems[i].data)]
          BY <2>1, <4>1 DEF Owned
        <4>3. heap'.size[Block(elems[i].data)] = heap.size[Block(elems[i].data)]
          BY <1>10, <2>4, <2>5, <4>1
        <4> QED
          BY <1>9, <4>1, <4>2, <4>3
      <3> QED
        BY <3>1, <3>2
    <2>10. K \in heap'.used
      BY <2>1, <2>3, <2>4
    <2>11. /\ input'.data # 0 => Block(input'.data) # K
           /\ ret'.data # 0 => Block(ret'.data) \in heap'.used \ {K}
      <3>1. ret.data = 0
        <4>1. parts \in Nat /\ ~(parts > 0)
          BY ShellAssumption DEF ShellInv, Typed, Phases
        <4>2. parts = 0
          BY <4>1
        <4> QED
          BY <4>2 DEF ShellInv, Phases, Unset, Null
      <3> QED
        BY <2>1, <3>1 DEF Owned, time
    <2>12. heap'.used \subseteq {K} \cup left' \cup Held(input'.data) \cup Held(ret'.data)
                                \cup {Block(TokenData(i)') : i \in 0 .. n + 1}
      <3> SUFFICES ASSUME NEW s \in heap'.used
                   PROVE  s \in {K} \cup left' \cup Held(input'.data) \cup Held(ret'.data)
                                \cup {Block(TokenData(i)') : i \in 0 .. n + 1}
        OBVIOUS
      <3>1. CASE s = Block(d) \/ s = Block(q)
        <4>1. 0 \in 0 .. n + 1 /\ n + 1 \in 0 .. n + 1
          BY <1>9
        <4> QED
          BY <1>10, <3>1, <4>1
      <3>2. CASE s \in heap.used \ Held(p)
        <4>1. s \in {K} \cup left \cup Held(input.data) \cup Held(ret.data)
                    \cup {Block(TokenData(i)) : i \in Pieces}
          BY <2>1, <3>2 DEF Owned
        <4>2. ASSUME NEW i \in Pieces, s = Block(TokenData(i))
              PROVE  \E k \in 0 .. n + 1 : s = Block(TokenData(k)')
          <5>1. i \in 0 .. n /\ tokens.data # 0
            BY <1>0, <4>2 DEF Pieces
          <5>2. i # 0
            <6>1. TokenData(0) = p /\ p # 0
              BY <5>1 DEF TokenData, p
            <6> QED
              BY <3>2, <4>2, <6>1 DEF Held
          <5>3. i \in 1 .. n /\ i \in 0 .. n + 1
            BY <1>9, <5>1, <5>2
          <5> QED
            BY <1>10, <4>2, <5>3
        <4> QED
          BY <4>1, <4>2 DEF time
      <3> QED
        BY <2>4, <3>1, <3>2
    <2>13. ASSUME owned
           PROVE  /\ Block(input.data) \in heap'.used
                  /\ \A i \in 0 .. n + 1 : TokenData(i)' # input.data
      <3>1. /\ Block(input.data) \in heap.used
            /\ \A i \in Pieces : TokenData(i) # input.data
        BY <2>13 DEF ShellInv, Apart
      <3>2. Block(input.data) \notin Held(p)
        <4>1. ASSUME p # 0 PROVE Block(p) # Block(input.data)
          <5>1. p # input.data
            BY <1>10, <3>1, <4>1
          <5>2. input.data \in Nat /\ p \in Nat
            BY <1>1 DEF ShellInv, Typed, StringType, p
          <5> QED
            BY <5>1, <5>2, BlocksDiffer
        <4> QED
          BY <4>1 DEF Held
      <3>3. ASSUME NEW i \in 0 .. n + 1 PROVE TokenData(i)' # input.data
        <4>1. CASE i = 0
          BY <1>10, <2>4, <3>1, <3>2, <4>1
        <4>2. CASE i = n + 1
          BY <1>10, <2>4, <3>1, <4>2
        <4>3. CASE i # 0 /\ i # n + 1
          <5>1. i \in 1 .. n
            BY <1>9, <4>3
          <5> QED
            BY <1>10, <3>1, <5>1
        <4> QED
          BY <4>1, <4>2, <4>3
      <3> QED
        BY <2>4, <3>1, <3>2, <3>3
    <2>14. Apart'
      BY <1>10, <2>13 DEF Apart
    <2>15. Owned'
      BY <1>9, <1>10, <2>4, <2>7, <2>8, <2>9, <2>10, <2>11, <2>12 DEF Owned
    <2> QED
      BY <2>14, <2>15
  <1> QED
    BY <1>4, <1>5, <1>6, <1>8, <1>9, <1>11, <1>12, <1>13

\* A character of the line is looked at.
LEMMA ScanKeeps ==
  ASSUME ShellInv, heap.misused = {}, Scan
  PROVE  ShellInv'
  <1>1. /\ pc = "tokenize" /\ scan.at <= Len(line)
        /\ UNCHANGED <<input, line, editor, time, pc, left, owned>>
    BY DEF Scan
  <1>2. /\ Typed /\ Pointed /\ Phases /\ Scanned /\ Owned /\ Apart
    BY <1>1 DEF ShellInv, Read
  <1>3. PICK a \in Nat, s \in Nat, n \in Nat :
          a = scan.at /\ s = scan.start /\ n = scan.len
    BY <1>2 DEF Typed
  <1>4. /\ line \in Seq(Chars) /\ Len(line) \in Nat /\ a \in 1 .. Len(line) /\ n < a
        /\ n > 0 => /\ s >= 1 /\ s + n = a
                    /\ \A i \in s .. a - 1 : line[i] \notin Blanks
                    /\ s > 1 => line[s - 1] \in Blanks
        /\ n = 0 => s = 0 /\ (a > 1 => line[a - 1] \in Blanks)
        /\ WordsFound(elems, line, a - n)
    BY <1>1, <1>2, <1>3 DEF Scanned, Typed
  <1>5. Phases /\ ret = Unset /\ parts = 0
    <2>1. parts \in Nat /\ ~(parts > 0)
      BY <1>1, <1>2, ShellAssumption DEF Typed, Phases
    <2>2. parts = 0
      BY <2>1
    <2> QED
      BY <1>2, <2>2 DEF Phases
  <1>6. CASE line[a] \notin Blanks
    <2>1. /\ UNCHANGED <<heap, tokens, elems>>
          /\ scan' = [at |-> a + 1, len |-> n + 1, start |-> IF s = 0 THEN a ELSE s]
      BY <1>3, <1>6 DEF Scan
    <2> DEFINE b == IF s = 0 THEN a ELSE s
    <2>2. b \in Nat /\ b >= 1 /\ b + (n + 1) = a + 1 /\ (n > 0 => b = s)
          /\ (n = 0 => b = a)
      BY <1>3, <1>4
    <2>3. \A i \in b .. a : line[i] \notin Blanks
      BY <1>4, <1>6, <2>2
    <2>4. b > 1 => line[b - 1] \in Blanks
      BY <1>4, <2>2
    <2>5. a + 1 - (n + 1) = a - n /\ a + 1 - 1 = a /\ a + 1 \in 1 .. Len(line) + 1
          /\ n + 1 < a + 1 /\ n + 1 > 0 /\ a + 1 \in Nat /\ n + 1 \in Nat
      BY <1>4
    <2>6. scan'.at = a + 1 /\ scan'.len = n + 1 /\ scan'.start = b
      BY <2>1
    <2> HIDE DEF b
    <2>7. Scanned'
      BY <1>1, <1>4, <2>1, <2>2, <2>3, <2>4, <2>5, <2>6 DEF Scanned
    <2>8. Typed'
      <3>1. scan' \in [at : Nat, start : Nat, len : Nat]
        BY <2>1, <2>2, <2>5 DEF b
      <3> QED
        BY <1>1, <1>2, <2>1, <3>1 DEF Typed, editor, time
    <2>9. Pieces' = Pieces /\ Pointed'
      BY <1>1, <1>2, <2>1 DEF Pointed, Pieces, TokenData, time
    <2>10. Phases'
      BY <1>1, <1>2, <2>1 DEF Phases, Word, time
    <2>11. Owned' /\ Apart'
      BY <1>1, <1>2, <2>1, <2>9 DEF Owned, Apart, TokenData, time
    <2>12. Edited' /\ Read'
      BY <1>1, <2>7 DEF Edited, Read
    <2> QED
      BY <2>8, <2>9, <2>10, <2>11, <2>12 DEF ShellInv
  <1>7. ASSUME line[a] \in Blanks, n = 0
        PROVE  ShellInv'
    <2>1. /\ UNCHANGED <<heap, tokens, elems>>
          /\ scan' = [at |-> a + 1, start |-> 0, len |-> 0]
      BY <1>3, <1>7 DEF Scan
    <2>2. scan'.at = a + 1 /\ scan'.len = 0 /\ scan'.start = 0
      BY <2>1
    <2>3. WordsFound(elems, line, a + 1)
      <3>1. a - n = a
        BY <1>4, <1>7
      <3> QED
        BY <1>4, <1>7, <3>1, BlankEndsNone
    <2>4. a + 1 - 0 = a + 1 /\ a + 1 - 1 = a /\ a + 1 \in 1 .. Len(line) + 1
          /\ 0 < a + 1 /\ a + 1 \in Nat
      BY <1>4
    <2>5. Scanned'
      BY <1>1, <1>7, <2>1, <2>2, <2>3, <2>4 DEF Scanned
    <2>8. Typed'
      <3>1. scan' \in [at : Nat, start : Nat, len : Nat]
        BY <2>1, <2>4
      <3> QED
        BY <1>1, <1>2, <2>1, <3>1 DEF Typed, editor, time
    <2>9. Pieces' = Pieces /\ Pointed'
      BY <1>1, <1>2, <2>1 DEF Pointed, Pieces, TokenData, time
    <2>10. Phases'
      BY <1>1, <1>2, <2>1 DEF Phases, Word, time
    <2>11. Owned' /\ Apart'
      BY <1>1, <1>2, <2>1, <2>9 DEF Owned, Apart, TokenData, time
    <2>12. Edited' /\ Read'
      BY <1>1, <2>5 DEF Edited, Read
    <2> QED
      BY <2>8, <2>9, <2>10, <2>11, <2>12 DEF ShellInv
  <1>8. ASSUME line[a] \in Blanks, n # 0
        PROVE  ShellInv'
    <2>1. PushToken /\ scan' = [at |-> a + 1, start |-> 0, len |-> 0]
      <3>1. n > 0
        BY <1>8
      <3> QED
        BY <1>3, <1>8, <3>1 DEF Scan
    <2>2. scan'.at = a + 1 /\ scan'.len = 0 /\ scan'.start = 0
      BY <2>1
    <2>3. n > 0 /\ s >= 1 /\ s + n = a /\ s <= Len(line) /\ a <= Len(line) + 1
          /\ s \in 1 .. Len(line) /\ a \in s + 1 .. Len(line) + 1 /\ a - n = s
      <3>1. PICK m \in Nat : m = Len(line)
        BY <1>4
      <3>2. n > 0
        BY <1>8
      <3>3. s >= 1 /\ s + n = a /\ a \in 1 .. m
        BY <1>4, <3>1, <3>2
      <3>4. s <= m /\ a <= m + 1 /\ s \in 1 .. m /\ a \in s + 1 .. m + 1 /\ a - n = s
        BY <3>2, <3>3
      <3> QED
        BY <3>1, <3>2, <3>3, <3>4
    <2>4. /\ HeapType(heap') /\ tokens' \in [data : Nat, len : Nat, capacity : Nat]
          /\ elems' \in Seq(ElementType) /\ tokens'.data # 0 /\ elems' # <<>>
          /\ tokens'.len = Len(elems') /\ tokens'.len <= tokens'.capacity
          /\ \E e : /\ e.text = SubSeq(line, scan.start, scan.at - 1)
                    /\ elems' = Append(elems, e)
          /\ Pointed' /\ (heap'.misused = {} => Owned' /\ Apart')
      BY <1>1, <1>3, <2>1, <2>3, PushTokenKeeps
    <2>5. PICK e : /\ e.text = SubSeq(line, s, a - 1)
                   /\ elems' = Append(elems, e)
      BY <1>3, <2>4
    <2>6. WordsFound(elems', line, a + 1)
      <3> DEFINE fs == Append(elems, e)
                 b == a + 1
                 l == line
                 es == elems
      <3>1. /\ b \in {a, a + 1} /\ l \in Seq(Chars) /\ es \in Seq(ElementType)
            /\ WordsFound(es, l, s)
            /\ \A i \in s .. a - 1 : l[i] \notin Blanks
            /\ s > 1 => l[s - 1] \in Blanks
            /\ a <= Len(l) => l[a] \in Blanks
            /\ s \in 1 .. Len(l) /\ a \in s + 1 .. Len(l) + 1
            /\ e.text = SubSeq(l, s, a - 1) /\ fs = Append(es, e)
        BY <1>2, <1>4, <1>8, <2>3, <2>5 DEF Typed
      <3> HIDE DEF fs, b, l, es
      <3>2. WordsFound(fs, l, b)
        BY <3>1, WordPushed
      <3> QED
        BY <2>5, <3>2 DEF fs, b, l
    <2>7. a + 1 - 0 = a + 1 /\ a + 1 - 1 = a /\ a + 1 \in 1 .. Len(line) + 1
          /\ 0 < a + 1 /\ a + 1 \in Nat
      BY <1>4
    <2>8. Scanned'
      BY <1>1, <1>8, <2>2, <2>6, <2>7 DEF Scanned
    <2>9. Typed'
      <3>1. scan' \in [at : Nat, start : Nat, len : Nat]
        BY <2>1, <2>7
      <3> QED
        BY <1>1, <1>2, <2>4, <3>1 DEF Typed, editor, time
    <2>10. Phases'
      BY <1>1, <1>5, <2>4 DEF Phases, time
    <2>12. Edited' /\ Read'
      BY <1>1, <2>8 DEF Edited, Read
    <2> QED
      BY <2>4, <2>9, <2>10, <2>12 DEF ShellInv
  <1> QED
    BY <1>6, <1>7, <1>8

\* The last word of the line.
LEMMA LastTokenKeeps ==
  ASSUME ShellInv, heap.misused = {}, LastToken
  PROVE  ShellInv'
  <1>1. /\ pc = "tokenize" /\ scan.at > Len(line) /\ scan.len > 0 /\ PushToken
        /\ UNCHANGED <<input, line, editor, time, pc, left, owned>>
        /\ scan' = [scan EXCEPT !.len = 0]
    BY DEF LastToken
  <1>2. /\ Typed /\ Pointed /\ Phases /\ Scanned /\ Owned
    BY <1>1 DEF ShellInv, Read
  <1>3. PICK a \in Nat, s \in Nat, n \in Nat :
          a = scan.at /\ s = scan.start /\ n = scan.len
    BY <1>2 DEF Typed
  <1>4. /\ line \in Seq(Chars) /\ Len(line) \in Nat /\ a = Len(line) + 1 /\ n < a
        /\ n > 0 /\ s >= 1 /\ s + n = a
        /\ \A i \in s .. a - 1 : line[i] \notin Blanks
        /\ s > 1 => line[s - 1] \in Blanks
        /\ WordsFound(elems, line, a - n)
    BY <1>1, <1>2, <1>3 DEF Scanned, Typed
  <1>5. ret = Unset /\ parts = 0
    <2>1. parts \in Nat /\ ~(parts > 0)
      BY <1>1, <1>2, ShellAssumption DEF Typed, Phases
    <2>2. parts = 0
      BY <2>1
    <2> QED
      BY <1>2, <2>2 DEF Phases
  <1>6. scan' = [at |-> a, start |-> s, len |-> 0]
    BY <1>1, <1>2, <1>3 DEF Typed
  <1>7. scan'.at = a /\ scan'.len = 0 /\ scan'.start = s
    BY <1>6
  <1>8. s <= Len(line) /\ a <= Len(line) + 1
        /\ s \in 1 .. Len(line) /\ a \in s + 1 .. Len(line) + 1 /\ a - n = s
    BY <1>4
  <1>9. /\ HeapType(heap') /\ tokens' \in [data : Nat, len : Nat, capacity : Nat]
        /\ elems' \in Seq(ElementType) /\ tokens'.data # 0 /\ elems' # <<>>
        /\ tokens'.len = Len(elems') /\ tokens'.len <= tokens'.capacity
        /\ \E e : /\ e.text = SubSeq(line, scan.start, scan.at - 1)
                  /\ elems' = Append(elems, e)
        /\ Pointed' /\ (heap'.misused = {} => Owned' /\ Apart')
    BY <1>1, <1>3, <1>4, <1>8, PushTokenKeeps
  <1>10. PICK e : /\ e.text = SubSeq(line, s, a - 1)
                  /\ elems' = Append(elems, e)
    BY <1>3, <1>9
  <1>11. WordsFound(elems', line, a)
    <2> DEFINE fs == Append(elems, e)
               l == line
               es == elems
    <2>0. a \in {a, a + 1} /\ ~(a <= Len(line))
      BY <1>4
    <2>1. /\ a \in {a, a + 1} /\ l \in Seq(Chars) /\ es \in Seq(ElementType)
          /\ WordsFound(es, l, s)
          /\ \A i \in s .. a - 1 : l[i] \notin Blanks
          /\ s > 1 => l[s - 1] \in Blanks
          /\ a <= Len(l) => l[a] \in Blanks
          /\ s \in 1 .. Len(l) /\ a \in s + 1 .. Len(l) + 1
          /\ e.text = SubSeq(l, s, a - 1) /\ fs = Append(es, e)
      BY <1>2, <1>4, <1>8, <1>10, <2>0 DEF Typed
    <2> HIDE DEF fs, l, es
    <2>2. WordsFound(fs, l, a)
      BY <2>1, WordPushed
    <2> QED
      BY <1>10, <2>2 DEF fs, l
  <1>12. a - 0 = a /\ a \in 1 .. Len(line) + 1 /\ 0 < a /\ ~(a <= Len(line))
    BY <1>4
  <1>13. Scanned'
    BY <1>1, <1>7, <1>11, <1>12 DEF Scanned
  <1>14. Typed'
    <2>1. scan' \in [at : Nat, start : Nat, len : Nat]
      BY <1>6
    <2> QED
      BY <1>1, <1>2, <1>9, <2>1 DEF Typed, editor, time
  <1>15. Phases'
    BY <1>1, <1>5, <1>9 DEF Phases, time
  <1>16. Edited' /\ Read'
    BY <1>1, <1>13 DEF Edited, Read
  <1> QED
    BY <1>9, <1>14, <1>15, <1>16 DEF ShellInv

\* The line has been read.
LEMMA TokenizedKeeps ==
  ASSUME ShellInv, heap.misused = {}, Tokenized
  PROVE  ShellInv'
  <1>1. /\ pc = "tokenize" /\ scan.at > Len(line) /\ scan.len = 0
        /\ heap' = StrClear(heap, input).heap /\ input' = StrClear(heap, input).str
        /\ pc' = IF tokens.data = Null THEN "fault" ELSE "execute"
        /\ UNCHANGED <<line, editor, tokens, elems, scan, time, left, owned>>
    BY DEF Tokenized
  <1>2. /\ Typed /\ Pointed /\ Phases /\ Scanned /\ Owned
    BY <1>1 DEF ShellInv, Read
  <1> DEFINE p == input.data
             g == IF p = 0 THEN heap ELSE Free(heap, Block(p))
  <1>3. heap' = g /\ input' = [data |-> p, size |-> 0]
    BY <1>1, <1>2 DEF StrClear, Typed, StringType, Null
  <1>4. /\ Kept(heap, p, g, 0) /\ Segs(g) = Segs(heap) /\ g.size = heap.size
        /\ g.used = heap.used \ Held(p) /\ g.misused = heap.misused
    <2>1. HeapType(heap) /\ p \in Nat /\ (p # 0 => Block(p) \in Segs(heap))
      BY <1>2 DEF Typed, Pointed, StringType
    <2> HIDE DEF p
    <2>2. g = IF p = 0 THEN heap ELSE Free(heap, Block(p))
      OBVIOUS
    <2> HIDE DEF g
    <2> QED
      BY <2>1, <2>2, FreeKept
  <1> HIDE DEF g
  <1>5. parts = 0 /\ ret = Unset /\ ret.data = 0
    <2>1. parts \in Nat /\ ~(parts > 0)
      BY <1>1, <1>2, ShellAssumption DEF Typed, Phases
    <2>2. parts = 0
      BY <2>1
    <2> QED
      BY <1>2, <2>2 DEF Phases, Unset, Null
  <1>6. HeapType(heap') /\ Segs(heap') = Segs(heap) /\ (Tiled(heap) => Tiled(heap'))
    BY <1>2, <1>3, <1>4 DEF Kept, Typed
  <1>7. Typed'
    BY <1>1, <1>2, <1>3, <1>6 DEF Typed, StringType, editor, time
  <1>8. Pieces' = Pieces /\ Pointed'
    BY <1>1, <1>2, <1>3, <1>6 DEF Pointed, Pieces, TokenData, time
  <1>9. Phases'
    BY <1>1, <1>2, <1>3, <1>5 DEF Phases, time, Null
  <1>10. Edited'
    BY <1>1 DEF Edited
  <1>11. Read'
    <2>1. scan.at - scan.len = Len(line) + 1
      <3>1. PICK a \in Nat, m \in Nat : a = scan.at /\ m = Len(line)
        BY <1>2 DEF Typed
      <3>2. a \in 1 .. m + 1 /\ a > m
        BY <1>1, <1>2, <3>1 DEF Scanned
      <3>3. a - 0 = m + 1
        BY <3>2
      <3> QED
        BY <1>1, <3>1, <3>3
    <2>2. WordsFound(elems, line, Len(line) + 1)
      BY <1>2, <2>1 DEF Scanned
    <2> QED
      BY <1>1, <2>2 DEF Read
  <1>12. Owned'
    <2>1. K \notin Held(p)
      BY <1>2 DEF Owned, Held
    <2>2. Held(input'.data) = Held(p) /\ Held(ret'.data) = Held(ret.data) /\ ret'.data = 0
      BY <1>1, <1>3, <1>5 DEF time
    <2>3. heap'.used = heap.used \ Held(p) /\ heap'.size = heap.size
      BY <1>3, <1>4
    <2>4. \A i \in Pieces : TokenData(i)' = TokenData(i)
      BY <1>1 DEF TokenData
    <2>5. pc' # "tokenize"
      BY <1>1
    <2>6. K \in heap'.used /\ Tiled(heap')
      BY <1>2, <1>6, <2>1, <2>3 DEF Owned
    <2>7. input'.data # 0 => Block(input'.data) # K
      BY <1>2, <1>3 DEF Owned
    <2>8. \A i \in DOMAIN elems : Len(elems[i].text) <= heap.size[Block(elems[i].data)]
      BY <1>1, <1>2 DEF Owned
    <2>9. heap'.used \subseteq {K} \cup left' \cup Held(input'.data) \cup Held(ret'.data)
                               \cup {Block(TokenData(i)) : i \in Pieces}
      BY <1>1, <1>2, <2>2, <2>3 DEF Owned
    <2>10. \A i, k \in Pieces : TokenData(i) = TokenData(k) => i = k
      BY <1>2 DEF Owned
    <2>11. \A i \in Pieces : Block(TokenData(i)) # K
      BY <1>2 DEF Owned
    <2>12. elems' = elems
      BY <1>1
    <2> HIDE DEF p
    <2> QED
      BY <1>8, <2>2, <2>3, <2>4, <2>5, <2>6, <2>7, <2>8, <2>9, <2>10, <2>11, <2>12 DEF Owned
  <1>13. Apart'
    <2>1. /\ heap'.used = heap.used \ Held(p) /\ input'.data = p /\ input.data = p
          /\ owned' = owned /\ pc' # "tokenize"
          /\ \A i \in Pieces : TokenData(i)' = TokenData(i)
      BY <1>1, <1>3, <1>4 DEF TokenData
    <2>2. owned => \A i \in Pieces : TokenData(i) # p
      BY <1>1, <2>1 DEF ShellInv, Apart
    <2>3. ASSUME NEW i \in Pieces, TokenData(i) # p
          PROVE  Block(TokenData(i)) \in heap.used \ Held(p)
      <3>1. Block(TokenData(i)) \in heap.used
        BY <1>1, <1>2 DEF Owned
      <3>2. p \in Nat /\ TokenData(i) \in Nat
        <4>1. input \in StringType /\ tokens.data \in Nat /\ elems \in Seq(ElementType)
          BY <1>2 DEF Typed
        <4>2. p \in Nat
          BY <4>1 DEF StringType
        <4>3. i # 0 => elems[i] \in ElementType
          BY <4>1 DEF Pieces
        <4>4. i # 0 => elems[i].data \in Nat
          BY <4>3 DEF ElementType
        <4> QED
          BY <4>1, <4>2, <4>4 DEF TokenData
      <3>3. Block(TokenData(i)) # Block(p)
        BY <2>3, <3>2, BlocksDiffer
      <3> QED
        BY <3>1, <3>3 DEF Held
    <2> HIDE DEF p
    <2> QED
      BY <1>8, <2>1, <2>2, <2>3 DEF Apart
  <1> QED
    BY <1>7, <1>8, <1>9, <1>10, <1>11, <1>12, <1>13 DEF ShellInv

-----------------------------------------------------------------------------
(* The commands.                                                            *)

\* format_time() appends to the string it will return.
LEMMA FormatTimeKeeps ==
  ASSUME ShellInv, heap.misused = {}, FormatTime
  PROVE  ShellInv'
  <1>1. /\ Typed /\ Pointed /\ Phases /\ Read /\ Owned
    BY DEF ShellInv
  <1> DEFINE n == TimeParts[parts + 1]
  <1>2. /\ pc = "execute" /\ Word(1) \in TimeWords /\ parts < Len(TimeParts)
        /\ parts' = parts + 1
        /\ UNCHANGED <<input, line, editor, tokens, elems, scan, pc, left, owned>>
    BY DEF FormatTime
  <1>3. PICK r : /\ r \in StrPush(heap, ret, n) \/ r \in StrPushc(heap, ret)
                 /\ heap' = r.heap /\ ret' = r.str
    BY DEF FormatTime
  <1>4. parts \in Nat /\ parts' \in 1 .. Len(TimeParts) /\ n \in Nat
        /\ parts' \in 0 .. Len(TimeParts)
    <2>1. TimeParts \in Seq(Nat) /\ Len(TimeParts) \in Nat
      BY ShellAssumption
    <2>2. parts \in Nat /\ parts + 1 \in 1 .. Len(TimeParts)
      BY <1>1, <1>2, <2>1 DEF Typed
    <2>3. n \in Nat
      BY <2>1, <2>2
    <2> QED
      BY <1>2, <2>1, <2>2, <2>3
  <1>5. /\ Kept(heap, ret.data, heap', ret'.data) /\ ret' \in StringType
        /\ ret'.data # 0
    <2> DEFINE s == ret
               k == n
    <2>1. /\ HeapType(heap) /\ s \in StringType /\ k \in Nat
          /\ s.data # 0 => Block(s.data) \in Segs(heap)
          /\ r \in StrPush(heap, s, k) \/ r \in StrPushc(heap, s)
      BY <1>1, <1>3, <1>4 DEF Typed, Pointed
    <2> HIDE DEF s, k
    <2>2. /\ Kept(heap, s.data, r.heap, r.str.data)
          /\ r.str \in StringType /\ r.str.data # 0
      BY <2>1, PushesKept
    <2> QED
      BY <1>3, <2>2 DEF s
  <1>6. /\ HeapType(heap') /\ Segs(heap) \subseteq Segs(heap')
        /\ Block(ret'.data) \in Segs(heap')
    BY <1>5 DEF Kept
  <1>7. Typed'
    BY <1>1, <1>2, <1>4, <1>5, <1>6 DEF Typed, editor
  <1>8. Pieces' = Pieces /\ \A i \in Pieces : TokenData(i)' = TokenData(i)
    BY <1>2 DEF Pieces, TokenData
  <1>9. Pointed'
    BY <1>1, <1>2, <1>6, <1>8 DEF Pointed
  <1>10. Phases'
    BY <1>1, <1>2, <1>4 DEF Phases, Word
  <1>11. Edited' /\ Read'
    BY <1>1, <1>2 DEF Edited, Read
  <1>12. ASSUME heap'.misused = {} PROVE Owned'
    <2>1. Held(ret.data) \subseteq heap.used \ {K} /\ Held(ret'.data) = {Block(ret'.data)}
      BY <1>1, <1>5 DEF Owned, Held
    <2>2. /\ Tiled(heap')
          /\ Held(ret'.data) \cap (heap.used \ Held(ret.data)) = {}
          /\ heap.used \ Held(ret.data) \subseteq heap'.used
          /\ heap'.used \subseteq (heap.used \ Held(ret.data)) \cup Held(ret'.data)
          /\ Held(ret.data) \subseteq heap.used => Held(ret'.data) \subseteq heap'.used
      BY <1>1, <1>5, <1>12 DEF Kept, Owned
    <2>3. K \in heap'.used /\ Block(ret'.data) \in heap'.used /\ Block(ret'.data) # K
      BY <1>1, <2>1, <2>2 DEF Owned
    <2>4. /\ heap.used \ Held(ret.data) \subseteq
               {K} \cup left \cup Held(input.data) \cup {Block(TokenData(i)) : i \in Pieces}
          /\ \A i, k \in Pieces : TokenData(i) = TokenData(k) => i = k
          /\ \A i \in Pieces : Block(TokenData(i)) # K
          /\ input.data # 0 => Block(input.data) # K
      BY <1>1 DEF Owned
    <2>5. {Block(TokenData(i)) : i \in Pieces} = {Block(TokenData(i)') : i \in Pieces}
      BY <1>8
    <2>6. heap'.used \subseteq {K} \cup left' \cup Held(input'.data) \cup Held(ret'.data)
                               \cup {Block(TokenData(i)') : i \in Pieces}
      BY <1>2, <2>2, <2>4, <2>5
    <2>7. pc' = "execute" /\ parts' # 0
      BY <1>2, <1>4
    <2> QED
      BY <1>2, <1>8, <2>2, <2>3, <2>4, <2>6, <2>7 DEF Owned
  <1>13. Apart'
    <2>1. pc' = "execute" /\ parts' # 0 /\ owned' = owned /\ input' = input
      BY <1>2, <1>4
    <2>2. owned => \A i \in Pieces : TokenData(i) # input.data
      BY <1>2 DEF ShellInv, Apart
    <2> QED
      BY <1>8, <2>1, <2>2 DEF Apart
  <1> QED
    BY <1>7, <1>9, <1>10, <1>11, <1>12, <1>13 DEF ShellInv

\* The next prompt over a heap that has no tokens.
LEMMA PromptKeeps ==
  ASSUME ShellInv, heap.misused = {}, pc = "execute",
         NEW h, NEW s \in 0 .. Width - 1, Prompt(h, s),
         HeapType(h), Segs(h) = Segs(heap), Tiled(h), K \in h.used,
         h.used \subseteq {K} \cup left' \cup Held(input.data)
  PROVE  ShellInv'
  <1>1. /\ Typed /\ Pointed /\ Phases /\ Owned
    BY DEF ShellInv
  <1>2. /\ heap' = h /\ tokens' = [data |-> 0, len |-> 0, capacity |-> 0]
        /\ elems' = <<>> /\ line' = <<>> /\ pc' = "getline"
        /\ start' = s /\ column' = s /\ offer' = NoOffer
        /\ ret' = [data |-> 0, size |-> 0] /\ ret' = Unset /\ parts' = 0
        /\ input' = input /\ scan' = scan
    BY DEF Prompt, BeginLine, NoVector, Unset, Null
  <1>3. Typed'
    <2>1. elems' \in Seq(ElementType) /\ ret' \in StringType /\ line' \in Seq(Chars)
          /\ parts' \in 0 .. Len(TimeParts)
      BY <1>2, ShellAssumption DEF StringType
    <2> QED
      BY <1>1, <1>2, <2>1 DEF Typed
  <1>4. Pieces' = {} /\ Pointed' /\ ret'.data = 0
    BY <1>1, <1>2 DEF Pointed, Pieces
  <1>5. Phases'
    BY <1>2 DEF Phases
  <1>6. Edited'
    <2>1. s % Width = s /\ s \in Nat
      <3>1. s \in Nat /\ Width \in Nat \ {0} /\ s < Width
        BY ShellAssumption
      <3> QED
        BY <3>1, Columns
    <2>2. input.size = 0
      BY <1>1 DEF Phases
    <2> QED
      BY <1>2, <2>1, <2>2 DEF Edited, OfferCompletes
  <1>7. Read'
    BY <1>2 DEF Read
  <1>8. Owned'
    <2>1. Held(ret'.data) = {} /\ DOMAIN elems' = {}
      BY <1>2, <1>4 DEF Held
    <2>2. input'.data # 0 => Block(input'.data) # K
      BY <1>1, <1>2 DEF Owned
    <2> QED
      BY <1>2, <1>4, <2>1, <2>2 DEF Owned
  <1>9. Apart'
    BY <1>2 DEF Apart
  <1> QED
    BY <1>3, <1>4, <1>5, <1>6, <1>7, <1>8, <1>9 DEF ShellInv

\* The heap when the tokens and the string of format_time() are free.
LEMMA AllFreed ==
  ASSUME ShellInv, heap.misused = {}, pc = "execute",
         NEW g, g = Destructed(Shown)
  PROVE  /\ HeapType(g) /\ Segs(g) = Segs(heap) /\ Tiled(g) /\ K \in g.used
         /\ g.misused = {}
         /\ g.used \subseteq {K} \cup left \cup Held(input.data)
  <1>1. /\ Typed /\ Pointed /\ Phases /\ Owned
    BY DEF ShellInv
  <1> DEFINE p == ret.data
             f == IF p = 0 THEN heap ELSE Free(heap, Block(p))
  <1>2. f = Shown
    BY DEF Shown, Null
  <1>3. /\ Kept(heap, p, f, 0) /\ Segs(f) = Segs(heap)
        /\ f.used = heap.used \ Held(p) /\ f.misused = heap.misused
    <2>1. HeapType(heap) /\ p \in Nat /\ (p # 0 => Block(p) \in Segs(heap))
      BY <1>1 DEF Typed, Pointed, StringType
    <2> HIDE DEF p
    <2>2. f = IF p = 0 THEN heap ELSE Free(heap, Block(p))
      OBVIOUS
    <2> HIDE DEF f
    <2> QED
      BY <2>1, <2>2, FreeKept
  <1> HIDE DEF f, p
  <1>4. HeapType(f) /\ Tiled(f)
    BY <1>1, <1>3 DEF Kept, Owned
  <1>5. \A i \in Pieces : Block(TokenData(i)) \in Segs(f)
    BY <1>1, <1>3 DEF Pointed
  <1>6. tokens.data = 0 => elems = <<>>
    BY <1>1 DEF Phases
  <1>7. /\ HeapType(g) /\ Segs(g) = Segs(f) /\ g.misused = f.misused
        /\ g.used = f.used \ {Block(TokenData(i)) : i \in Pieces}
        /\ Tiled(f) => Tiled(g)
    <2>1. g = Destructed(f)
      BY <1>2
    <2> QED
      BY <1>1, <1>4, <1>5, <1>6, <2>1, DestructedIs
  <1>8. K \notin Held(p) /\ K \in heap.used
    BY <1>1 DEF Owned, Held, p
  <1>9. K \notin {Block(TokenData(i)) : i \in Pieces}
    BY <1>1 DEF Owned
  <1>10. heap.used \subseteq {K} \cup left \cup Held(input.data) \cup Held(p)
                             \cup {Block(TokenData(i)) : i \in Pieces}
    BY <1>1 DEF Owned, p
  <1> QED
    BY <1>3, <1>4, <1>7, <1>8, <1>9, <1>10

\* Only while the time is shown does format_time() hold a block.
LEMMA NoTimeHeld ==
  ASSUME ShellInv, Word(1) \notin TimeWords
  PROVE  parts = 0 /\ ret = Unset /\ ret.data = 0 /\ Shown = heap
  <1>1. parts \in Nat /\ ~(parts > 0)
    BY ShellAssumption DEF ShellInv, Typed, Phases
  <1>2. parts = 0
    BY <1>1
  <1>3. ret = Unset /\ ret.data = 0
    BY <1>2 DEF ShellInv, Phases, Unset, Null
  <1> QED
    BY <1>2, <1>3 DEF Shown, Null

LEMMA WordsDiffer ==
  EchoWord \notin TimeWords /\ DevicesWord \notin TimeWords /\ ExitWord \notin TimeWords
  <1>1. /\ TimeWord[1] = "t" /\ MicrofetchWord[1] = "m"
        /\ EchoWord[1] = "e" /\ DevicesWord[1] = "d" /\ ExitWord[1] = "e"
    BY DEF TimeWord, MicrofetchWord, EchoWord, DevicesWord, ExitWord
  <1> QED
    BY <1>1 DEF TimeWords

LEMMA ExecuteKeeps ==
  ASSUME ShellInv, heap.misused = {}, Execute \/ EchoNothing \/ DevicesNothing
  PROVE  ShellInv'
  <1>1. Typed /\ Owned /\ Phases /\ Start \in 0 .. Width - 1
    BY ShellAssumption DEF ShellInv
  <1>2. CASE Execute
    <2> DEFINE g == Destructed(Shown)
    <2>1. pc = "execute" /\ Prompt(g, Start) /\ left' = left
      BY <1>2 DEF Execute
    <2> HIDE DEF g
    <2>2. /\ HeapType(g) /\ Segs(g) = Segs(heap) /\ Tiled(g) /\ K \in g.used
          /\ g.used \subseteq {K} \cup left \cup Held(input.data)
      BY <2>1, AllFreed DEF g
    <2> QED
      BY <1>1, <2>1, <2>2, PromptKeeps
  <1>3. CASE EchoNothing
    <2> DEFINE g == Destructed(heap)
    <2>1. pc = "execute" /\ Prompt(g, column) /\ left' = left /\ Word(1) = EchoWord
      BY <1>3 DEF EchoNothing
    <2>2. g = Destructed(Shown)
      BY <2>1, NoTimeHeld, WordsDiffer
    <2> HIDE DEF g
    <2>3. /\ HeapType(g) /\ Segs(g) = Segs(heap) /\ Tiled(g) /\ K \in g.used
          /\ g.used \subseteq {K} \cup left \cup Held(input.data)
      BY <2>1, <2>2, AllFreed
    <2>4. column \in 0 .. Width - 1
      BY <1>1 DEF Typed
    <2> QED
      BY <2>1, <2>3, <2>4, PromptKeeps
  <1>4. CASE DevicesNothing
    <2>1. /\ pc = "execute" /\ Prompt(heap, 0) /\ Word(1) = DevicesWord
          /\ left' = left \cup {Block(tokens.data)}
                          \cup {Block(elems[i].data) : i \in DOMAIN elems}
      BY <1>4 DEF DevicesNothing
    <2>2. ret.data = 0 /\ Held(ret.data) = {}
      BY <2>1, NoTimeHeld, WordsDiffer DEF Held
    <2>3. {Block(TokenData(i)) : i \in Pieces} \subseteq left'
      <3> SUFFICES ASSUME NEW i \in Pieces PROVE Block(TokenData(i)) \in left'
        OBVIOUS
      <3>1. CASE i = 0
        BY <2>1, <3>1 DEF TokenData
      <3>2. CASE i # 0
        <4>1. i \in 0 .. Len(elems) /\ Len(elems) \in Nat /\ DOMAIN elems = 1 .. Len(elems)
          BY <1>1 DEF Pieces, Typed
        <4>2. i \in DOMAIN elems
          BY <3>2, <4>1
        <4> QED
          BY <2>1, <3>2, <4>2 DEF TokenData
      <3> QED
        BY <3>1, <3>2
    <2>4. heap.used \subseteq {K} \cup left' \cup Held(input.data)
      BY <1>1, <2>1, <2>2, <2>3 DEF Owned
    <2>5. HeapType(heap) /\ Tiled(heap) /\ K \in heap.used /\ 0 \in 0 .. Width - 1
      <3>1. 0 \in 0 .. Width - 1
        BY ShellAssumption
      <3> QED
        BY <1>1, <3>1 DEF Typed, Owned
    <2> QED
      BY <2>1, <2>4, <2>5, PromptKeeps
  <1> QED
    BY <1>2, <1>3, <1>4

LEMMA ExitKeeps ==
  ASSUME ShellInv, heap.misused = {}, Exit
  PROVE  ShellInv'
  <1>1. /\ pc = "execute" /\ Word(1) = ExitWord /\ heap' = Destructed(heap)
        /\ tokens' = [data |-> 0, len |-> 0, capacity |-> 0] /\ elems' = <<>>
        /\ pc' = "exit"
        /\ UNCHANGED <<input, line, editor, scan, time, left>>
    BY DEF Exit, NoVector, Null
  <1>2. parts = 0 /\ ret = Unset /\ ret.data = 0 /\ Shown = heap
    BY <1>1, NoTimeHeld, WordsDiffer
  <1>3. /\ HeapType(heap') /\ Segs(heap') = Segs(heap) /\ Tiled(heap') /\ K \in heap'.used
        /\ heap'.used \subseteq {K} \cup left \cup Held(input.data)
    <2> DEFINE g == heap'
    <2>1. g = Destructed(Shown)
      BY <1>1, <1>2
    <2> HIDE DEF g
    <2>2. /\ HeapType(g) /\ Segs(g) = Segs(heap) /\ Tiled(g) /\ K \in g.used
          /\ g.used \subseteq {K} \cup left \cup Held(input.data)
      BY <1>1, <2>1, AllFreed
    <2> QED
      BY <2>2 DEF g
  <1>4. Typed /\ Pointed /\ Phases /\ Owned
    BY DEF ShellInv
  <1>5. Typed'
    <2>1. elems' \in Seq(ElementType)
      BY <1>1
    <2> QED
      BY <1>1, <1>3, <1>4, <2>1 DEF Typed, editor, time
  <1>6. Pieces' = {} /\ Pointed'
    BY <1>1, <1>3, <1>4 DEF Pointed, Pieces, time
  <1>7. Phases'
    BY <1>1, <1>2, <1>4 DEF Phases, time
  <1>8. Edited' /\ Read'
    BY <1>1 DEF Edited, Read
  <1>9. Owned'
    <2>1. ret'.data = 0 /\ Held(ret'.data) = {} /\ DOMAIN elems' = {}
      BY <1>1, <1>2 DEF Held, time
    <2>2. input'.data # 0 => Block(input'.data) # K
      BY <1>1, <1>4 DEF Owned
    <2> QED
      BY <1>1, <1>3, <1>6, <2>1, <2>2 DEF Owned
  <1>10. Apart'
    BY <1>1 DEF Apart
  <1> QED
    BY <1>5, <1>6, <1>7, <1>8, <1>9, <1>10 DEF ShellInv

-----------------------------------------------------------------------------
(* The theorems.                                                            *)

LEMMA NothingMoves ==
  ASSUME ShellInv, UNCHANGED vars
  PROVE  ShellInv'
  <1>1. UNCHANGED <<heap, input, line, start, column, spaced, offer, tokens, elems,
                    scan, ret, parts, pc, left, owned>>
    BY DEF vars, editor, time
  <1>2. Pieces' = Pieces /\ Typed' /\ Pointed'
    BY <1>1 DEF ShellInv, Typed, Pointed, Pieces, TokenData
  <1>3. Phases' /\ Edited' /\ Read'
    <2>1. Phases'
      BY <1>1 DEF ShellInv, Phases, Word
    <2>2. Edited'
      BY <1>1 DEF ShellInv, Edited, OfferCompletes
    <2>3. Read'
      BY <1>1 DEF ShellInv, Read, Scanned
    <2> QED
      BY <2>1, <2>2, <2>3
  <1>4. heap'.misused = {} => Owned' /\ Apart'
    BY <1>1, <1>2 DEF ShellInv, Owned, Apart, TokenData
  <1> QED
    BY <1>2, <1>3, <1>4 DEF ShellInv

LEMMA ShellSteps == ShellInv /\ [Next]_vars => ShellInv'
  <1> SUFFICES ASSUME ShellInv, [Next]_vars PROVE ShellInv'
    OBVIOUS
  <1>1. CASE ~Broken /\ Step
    <2>1. heap.misused = {}
      BY <1>1 DEF Broken
    <2>2. CASE \E c \in Chars : Type(c)
      BY <2>1, <2>2, TypeKeeps
    <2>3. CASE Backspace
      BY <2>1, <2>3, BackspaceKeeps
    <2>4. CASE Tab
      BY <2>1, <2>4, TabKeeps
    <2>5. CASE Enter
      BY <2>1, <2>5, EnterKeeps
    <2>6. CASE Scan
      BY <2>1, <2>6, ScanKeeps
    <2>7. CASE LastToken
      BY <2>1, <2>7, LastTokenKeeps
    <2>8. CASE Tokenized
      BY <2>1, <2>8, TokenizedKeeps
    <2>9. CASE FormatTime
      BY <2>1, <2>9, FormatTimeKeeps
    <2>10. CASE Execute \/ EchoNothing \/ DevicesNothing
      BY <2>1, <2>10, ExecuteKeeps
    <2>11. CASE Exit
      BY <2>1, <2>11, ExitKeeps
    <2> QED
      BY <1>1, <2>2, <2>3, <2>4, <2>5, <2>6, <2>7, <2>8, <2>9, <2>10, <2>11 DEF Step, Key
  <1>2. CASE UNCHANGED vars
    BY <1>2, NothingMoves
  <1> QED
    BY <1>1, <1>2 DEF Next, Stopped

\* The invariant: who owns which block, how far the line has been read, and
\* where the cursor stands, in every state of the shell.
THEOREM ShellInvariant == Spec => []ShellInv
  BY ShellStarts, ShellSteps, PTL DEF Spec

\* Whatever the user types, str_tokenize() hands over the words of the line, in
\* their order and without a gap, unless the heap has taken the line's block.
THEOREM ShellTokensAreWords == Spec => []TokensAreWords
  <1>1. ShellInv => TokensAreWords
    <2> SUFFICES ASSUME ShellInv, pc \in {"execute", "fault"}
                 PROVE  \E w \in [DOMAIN elems -> Words(line)] :
                          /\ \A i, k \in DOMAIN elems : i < k => w[i][2] < w[k][1]
                          /\ \A i \in DOMAIN elems :
                               elems[i].text = SubSeq(line, w[i][1], w[i][2])
                          /\ \A r \in Words(line) : \E i \in DOMAIN elems : w[i] = r
      BY DEF TokensAreWords
    <2>1. WordsFound(elems, line, Len(line) + 1)
      BY DEF ShellInv, Read
    <2>2. PICK w \in [DOMAIN elems -> Words(line)] : Found(elems, line, w, Len(line) + 1)
      BY <2>1 DEF WordsFound
    <2>3. \A r \in Words(line) : r[2] < Len(line) + 1
      <3>1. line \in Seq(Chars) /\ Len(line) \in Nat /\ DOMAIN line = 1 .. Len(line)
        BY DEF ShellInv, Typed
      <3>2. \A r \in Words(line) : r[2] \in DOMAIN line
        BY DEF Words
      <3> QED
        BY <3>1, <3>2
    <2> QED
      BY <2>2, <2>3 DEF Found
  <1> QED
    BY <1>1, ShellInvariant, PTL

\* The pointers of the line, the vector and its strings name headers of the
\* heap.  A line that has a block of its own keeps it until it is read, and when
\* a command starts no two pointers share a block: tokens and vector are still
\* in use, and only the token or the vector of a line that had been typed into
\* a freed block may have been freed with the line.
THEOREM ShellBlocksSound == Spec => []BlocksSound
  <1>1. ShellInv => ShellTypeOK
    <2> SUFFICES ASSUME ShellInv PROVE ShellTypeOK
      OBVIOUS
    <2>1. Typed /\ Pointed /\ Phases
      BY DEF ShellInv
    <2>2. input.data # Null => Block(input.data) \in Segs(heap)
      BY <2>1 DEF Pointed, Null
    <2>3. Len(elems) \in Nat /\ DOMAIN elems = 1 .. Len(elems)
      BY <2>1 DEF Typed
    <2>4. tokens.data # Null => Block(tokens.data) \in Segs(heap)
      <3>1. tokens.data # 0 => 0 \in Pieces /\ TokenData(0) = tokens.data
        BY <2>3 DEF Pieces, TokenData
      <3> QED
        BY <2>1, <3>1 DEF Pointed, Null
    <2>5. ASSUME NEW i \in DOMAIN elems PROVE Block(elems[i].data) \in Segs(heap)
      <3>1. i # 0 /\ i \in 0 .. Len(elems) /\ elems # <<>>
        BY <2>3
      <3>2. i \in Pieces /\ TokenData(i) = elems[i].data
        BY <2>1, <3>1 DEF Pieces, TokenData, Phases
      <3> QED
        BY <2>1, <3>2 DEF Pointed
    <2>6. input.size \in Nat
      BY <2>1 DEF Typed, StringType
    <2> QED
      BY <2>1, <2>2, <2>4, <2>5, <2>6 DEF ShellTypeOK, Typed
  <1>2. ShellInv => TokensApart
    <2> SUFFICES ASSUME ShellInv, pc = "execute", parts = 0, ~Broken PROVE TokensApart
      BY DEF TokensApart
    <2>1. Typed /\ Phases /\ Owned /\ Apart
      BY DEF ShellInv, Broken
    <2> DEFINE n == Len(elems)
               datas == [i \in DOMAIN elems |-> elems[i].data]
               front == <<K + HeaderSize, tokens.data>>
               blocks == front \o datas
    <2>2. n \in Nat /\ DOMAIN elems = 1 .. n /\ elems # <<>> /\ tokens.data # 0
      BY <2>1 DEF Typed, Phases
    <2>3. \A i \in 1 .. n : elems[i].data \in Nat /\ elems[i].data # 0
      <3>1. ASSUME NEW i \in 1 .. n PROVE elems[i] \in ElementType
        BY <2>1, <2>2 DEF Typed
      <3> QED
        BY <3>1 DEF ElementType
    <2>4. K \in Nat /\ tokens.data \in Nat
      <3>1. K \in Segs(heap)
        BY <2>1, HeapElim DEF Owned, Typed
      <3> QED
        BY <2>1, <3>1, HeapElim DEF Typed
    <2>5. datas \in Seq(Nat) /\ Len(datas) = n /\ \A i \in 1 .. n : datas[i] = elems[i].data
      BY <2>2, <2>3
    <2>6. front \in Seq(Nat) /\ Len(front) = 2
          /\ front[1] = K + HeaderSize /\ front[2] = tokens.data
      BY <2>4, HeapOpsAssumption
    <2> HIDE DEF datas, front
    <2>7. /\ DOMAIN blocks = 1 .. n + 2
          /\ blocks[1] = K + HeaderSize /\ blocks[2] = tokens.data
          /\ \A i \in 3 .. n + 2 : blocks[i] = elems[i - 2].data
      <3>1. /\ Len(blocks) = n + 2 /\ DOMAIN blocks = 1 .. n + 2
            /\ \A i \in 1 .. n + 2 :
                 blocks[i] = IF i <= 2 THEN front[i] ELSE datas[i - 2]
        <4>0. /\ front \o datas \in Seq(Nat)
              /\ Len(front \o datas) = Len(front) + Len(datas)
              /\ \A i \in 1 .. Len(front) + Len(datas) :
                   (front \o datas)[i]
                     = IF i <= Len(front) THEN front[i] ELSE datas[i - Len(front)]
          <5> HIDE DEF blocks
          <5>1. front \in Seq(Nat) /\ datas \in Seq(Nat)
            BY <2>5, <2>6
          <5> QED
            BY <5>1, ConcatProperties, Zenon
        <4>1. /\ Len(blocks) = Len(front) + Len(datas)
              /\ \A i \in 1 .. Len(front) + Len(datas) :
                   blocks[i] = IF i <= Len(front) THEN front[i] ELSE datas[i - Len(front)]
              /\ blocks \in Seq(Nat)
          BY <4>0
        <4>2. Len(front) + Len(datas) = n + 2
          BY <2>2, <2>5, <2>6
        <4>3. DOMAIN blocks = 1 .. Len(blocks)
          BY <4>1
        <4> QED
          BY <2>6, <4>1, <4>2, <4>3
      <3> HIDE DEF blocks
      <3>2. blocks[1] = front[1] /\ blocks[2] = front[2]
        BY <2>2, <3>1
      <3>3. ASSUME NEW i \in 3 .. n + 2 PROVE blocks[i] = elems[i - 2].data
        <4>1. i \in 1 .. n + 2 /\ ~(i <= 2) /\ i - 2 \in 1 .. n
          BY <2>2
        <4> QED
          BY <2>5, <3>1, <4>1
      <3> QED
        BY <2>6, <3>1, <3>2, <3>3
    <2> HIDE DEF blocks
    <2> DEFINE Piece(i) == i - 2
    <2>8. ASSUME NEW i \in 2 .. n + 2
          PROVE  /\ i - 2 \in Pieces /\ blocks[i] = TokenData(i - 2)
                 /\ blocks[i] # K + HeaderSize
      <3>1. i - 2 \in Pieces
        BY <2>2 DEF Pieces
      <3>2. blocks[i] = TokenData(i - 2) /\ blocks[i] \in Nat
        <4>1. CASE i = 2
          BY <2>4, <2>7, <4>1 DEF TokenData
        <4>2. CASE i # 2
          <5>1. i \in 3 .. n + 2 /\ i - 2 # 0 /\ i - 2 \in 1 .. n
            BY <2>2, <4>2
          <5> QED
            BY <2>3, <2>7, <5>1 DEF TokenData
        <4> QED
          BY <4>1, <4>2
      <3>3. Block(TokenData(i - 2)) # K
        BY <2>1, <3>1 DEF Owned
      <3>4. Block(K + HeaderSize) = K
        BY <2>4, HeapOpsAssumption DEF Block
      <3> QED
        BY <3>1, <3>2, <3>3, <3>4
    <2>9. \A i, k \in DOMAIN blocks : blocks[i] = blocks[k] => i = k
      <3> SUFFICES ASSUME NEW i \in 1 .. n + 2, NEW k \in 1 .. n + 2, blocks[i] = blocks[k]
                   PROVE  i = k
        BY <2>7
      <3>1. CASE i = 1
        <4>1. ~(k \in 2 .. n + 2)
          BY <2>7, <2>8, <3>1
        <4> QED
          BY <2>2, <3>1, <4>1
      <3>2. CASE k = 1
        <4>1. ~(i \in 2 .. n + 2)
          BY <2>7, <2>8, <3>2
        <4> QED
          BY <2>2, <3>2, <4>1
      <3>3. CASE i # 1 /\ k # 1
        <4>1. i \in 2 .. n + 2 /\ k \in 2 .. n + 2
          BY <2>2, <3>3
        <4>2. /\ i - 2 \in Pieces /\ k - 2 \in Pieces
              /\ TokenData(i - 2) = TokenData(k - 2)
          BY <2>8, <4>1
        <4>3. i - 2 = k - 2
          BY <2>1, <4>2 DEF Owned
        <4> QED
          BY <4>1, <4>3
      <3> QED
        BY <3>1, <3>2, <3>3
    <2>10. /\ tokens.len = Len(elems) /\ tokens.len <= tokens.capacity
           /\ \A i \in DOMAIN elems : Len(elems[i].text) <= heap.size[Block(elems[i].data)]
      BY <2>1 DEF Phases, Owned
    <2>11. ASSUME NEW i \in DOMAIN blocks
           PROVE  IF blocks[i] = input.data THEN ~owned ELSE Block(blocks[i]) \in heap.used
      <3>1. CASE i = 1
        <4>1. Block(blocks[i]) = K /\ blocks[i] # 0
          BY <2>4, <2>7, <3>1, HeapOpsAssumption DEF Block
        <4> QED
          BY <2>1, <4>1 DEF Owned
      <3>2. CASE i # 1
        <4>1. i \in 2 .. n + 2
          BY <2>2, <2>7, <3>2
        <4>2. i - 2 \in Pieces /\ blocks[i] = TokenData(i - 2)
          BY <2>8, <4>1
        <4> QED
          BY <2>1, <4>2 DEF Apart
      <3> QED
        BY <3>1, <3>2
    <2> QED
      BY <2>9, <2>10, <2>11 DEF TokensApart, blocks, front, datas, K
  <1>3. ShellInv => LineApart
    <2> SUFFICES ASSUME ShellInv, pc = "tokenize", owned, ~Broken
                 PROVE  /\ Block(input.data) \in heap.used
                        /\ input.data \notin {tokens.data} \cup {elems[i].data : i \in DOMAIN elems}
      BY DEF LineApart
    <2>1. Typed /\ Phases /\ Owned /\ Apart
      BY DEF ShellInv, Broken
    <2>2. DOMAIN elems = 1 .. Len(elems) /\ Len(elems) \in Nat
      BY <2>1 DEF Typed
    <2>3. input.data # 0
      <3>1. Block(input.data) \in Nat /\ Block(input.data) # 0
        BY <2>1, HeapElim DEF Apart, Typed
      <3> QED
        BY <3>1, HeapOpsAssumption DEF Block
    <2>4. ASSUME input.data = tokens.data PROVE FALSE
      <3>1. 0 \in Pieces /\ TokenData(0) = tokens.data
        BY <2>2, <2>3, <2>4 DEF Pieces, TokenData
      <3> QED
        BY <2>1, <2>4, <3>1 DEF Apart
    <2>5. ASSUME NEW i \in DOMAIN elems, input.data = elems[i].data PROVE FALSE
      <3>1. elems # <<>> /\ i # 0 /\ i \in 0 .. Len(elems)
        BY <2>2
      <3>2. i \in Pieces /\ TokenData(i) = elems[i].data
        BY <2>1, <3>1 DEF Pieces, TokenData, Phases
      <3> QED
        BY <2>1, <2>5, <3>2 DEF Apart
    <2> QED
      BY <2>1, <2>4, <2>5 DEF Apart
  <1> QED
    BY <1>1, <1>2, <1>3, ShellInvariant, PTL DEF BlocksSound

\* However many lines were executed, at the prompt the heap holds no block but
\* the kernel's, the line's and what `devices' has left behind.
THEOREM ShellNothingLeaks == Spec => []NothingLeaks
  <1>1. ShellInv => NothingLeaks
    <2> SUFFICES ASSUME ShellInv, pc \in {"getline", "exit"}, ~Broken
                 PROVE  heap.used \subseteq {K} \cup left \cup {Block(input.data)}
      BY DEF NothingLeaks, K
    <2>1. Pieces = {} /\ ret.data = 0
      BY Waiting
    <2>2. Held(ret.data) = {} /\ Held(input.data) \subseteq {Block(input.data)}
      BY <2>1 DEF Held
    <2>3. Owned
      BY DEF ShellInv, Broken
    <2> QED
      BY <2>1, <2>2, <2>3 DEF Owned
  <1> QED
    BY <1>1, ShellInvariant, PTL

\* The cursor stands behind a line that fits its row, and what Tab offers
\* completes the line, of any length, to a command.
THEOREM ShellEditorFollows == Spec => []EditorFollows
  <1>1. ShellInv => EditorFollows
    <2> SUFFICES ASSUME ShellInv, pc = "getline" PROVE EditorFollows
      BY DEF EditorFollows, CursorFollows, OfferCompletes
    <2>1. /\ input.size = Len(line) /\ column = (start + Len(line)) % Width
          /\ OfferCompletes
      BY DEF ShellInv, Edited
    <2> DEFINE x == start + Len(line)
    <2>2. x \in Nat /\ Width \in Nat \ {0} /\ Width \in Nat
      <3>1. Width \in Nat \ {0}
        BY ShellAssumption
      <3>2. line \in Seq(Chars) /\ start \in 0..Width - 1
        BY DEF ShellInv, Typed
      <3>3. Len(line) \in Nat
        BY <3>2
      <3> QED
        BY <3>1, <3>2, <3>3
    <2>3. x < Width => x % Width = x
      <3> HIDE DEF x
      <3> QED
        BY <2>2, Columns
    <2>4. column = start + input.size \/ start + input.size >= Width
      BY <2>1, <2>2, <2>3
    <2> QED
      BY <2>1, <2>4 DEF EditorFollows, CursorFollows
  <1> QED
    BY <1>1, ShellInvariant, PTL
=============================================================================
