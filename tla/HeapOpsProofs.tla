---------------------------- MODULE HeapOpsProofs ----------------------------
(***************************************************************************)
(* What the functions of the kernel heap return, for any heap state and    *)
(* all values of the constants: the lemmas every proof about a user of the *)
(* heap rests on.                                                          *)
(***************************************************************************)
EXTENDS HeapOps, FiniteSetTheorems, TLAPS

-----------------------------------------------------------------------------
(* Typing: what each operation of heap.c returns is a heap again, with at   *)
(* least the headers it had.                                                *)

\* Writing a field of one header leaves a field function.
LEMMA WriteNew ==
  ASSUME NEW D, NEW f \in [D -> Nat], NEW a, NEW v \in Nat
  PROVE  /\ Write(f, a, v) \in [D \cup {a} -> Nat]
         /\ Write(f, a, v)[a] = v
         /\ \A x \in D \ {a} : Write(f, a, v)[x] = f[x]
  BY DEF Write

\* Writing a header that exists leaves the set of headers alone.
LEMMA WriteOld ==
  ASSUME NEW D, NEW f \in [D -> Nat], NEW a \in D, NEW v \in Nat
  PROVE  /\ Write(f, a, v) \in [D -> Nat]
         /\ Write(f, a, v)[a] = v
         /\ \A x \in D \ {a} : Write(f, a, v)[x] = f[x]
  <1>1. D \cup {a} = D
    OBVIOUS
  <1>2. Write(f, a, v) \in [D \cup {a} -> Nat]
    BY WriteNew
  <1>3. Write(f, a, v) \in [D -> Nat]
    BY <1>1, <1>2
  <1>4. /\ Write(f, a, v)[a] = v
        /\ \A x \in D \ {a} : Write(f, a, v)[x] = f[x]
    BY DEF Write
  <1> QED
    BY <1>3, <1>4

\* What a typed heap consists of.
LEMMA HeapElim ==
  ASSUME NEW h, HeapType(h)
  PROVE  /\ h = [next |-> h.next, size |-> h.size, used |-> h.used,
                 end |-> h.end, usedUntil |-> h.usedUntil,
                 misused |-> h.misused]
         /\ Segs(h) \subseteq Nat \ {0}
         /\ h.next \in [Segs(h) -> Nat] /\ h.size \in [Segs(h) -> Nat]
         /\ h.used \subseteq Segs(h)
         /\ h.end \in Segs(h) /\ h.usedUntil \in Segs(h)
         /\ h.misused \subseteq Nat
  BY DEF HeapType

\* A record of well-typed fields is a heap.
LEMMA HeapIs ==
  ASSUME NEW g, NEW D,
         g = [next |-> g.next, size |-> g.size, used |-> g.used,
              end |-> g.end, usedUntil |-> g.usedUntil, misused |-> g.misused],
         D \subseteq Nat \ {0}, g.next \in [D -> Nat], g.size \in [D -> Nat],
         g.used \subseteq D, g.end \in D, g.usedUntil \in D,
         g.misused \subseteq Nat
  PROVE  HeapType(g) /\ Segs(g) = D
  <1>1. Segs(g) = D
    BY DEF Segs
  <1> QED
    BY <1>1 DEF HeapType

\* heap_divide() on a segment that is large enough: the fields it writes.
LEMMA DivideFields ==
  ASSUME NEW h, HeapType(h), NEW s \in Segs(h), NEW b \in Nat,
         h.size[s] > b + HeaderSize + SplitSlack,
         NEW g, g = Divide(h, s, b),
         NEW nw, nw = s + HeaderSize + b
  PROVE  /\ HeapType(g)
         /\ nw \in Nat \ {0} /\ Segs(g) = Segs(h) \cup {nw}
         /\ g.next = Write(Write(h.next, s, nw), nw, h.next[s])
         /\ g.size = Write(Write(h.size, s, b), nw, h.size[s] - HeaderSize - b)
         /\ g.used = h.used \ {nw}
         /\ g.end = h.end /\ g.usedUntil = h.usedUntil
         /\ g.misused = h.misused
  <1> DEFINE D == Segs(h) \cup {nw}
             nxt == Write(Write(h.next, s, nw), nw, h.next[s])
             siz == Write(Write(h.size, s, b), nw, h.size[s] - HeaderSize - b)
  <1>1. /\ Segs(h) \subseteq Nat \ {0}
        /\ h.next \in [Segs(h) -> Nat] /\ h.size \in [Segs(h) -> Nat]
        /\ h.used \subseteq Segs(h)
        /\ h.end \in Segs(h) /\ h.usedUntil \in Segs(h)
        /\ h.misused \subseteq Nat
    BY HeapElim
  <1>2. nw \in Nat \ {0}
    BY <1>1, HeapOpsAssumption
  <1>3. h.next[s] \in Nat /\ h.size[s] - HeaderSize - b \in Nat
    BY <1>1, HeapOpsAssumption
  <1>4. Write(h.next, s, nw) \in [Segs(h) -> Nat]
    BY <1>1, <1>2, WriteOld
  <1>5. Write(h.size, s, b) \in [Segs(h) -> Nat]
    BY <1>1, WriteOld
  <1>6. nxt \in [D -> Nat]
    BY <1>3, <1>4, WriteNew
  <1>7. siz \in [D -> Nat]
    BY <1>3, <1>5, WriteNew
  <1>8. g = [h EXCEPT !.next = nxt, !.size = siz, !.used = @ \ {nw}]
    BY DEF Divide
  <1> HIDE DEF nxt, siz
  <1>9. g = [next |-> nxt, size |-> siz, used |-> h.used \ {nw}, end |-> h.end,
             usedUntil |-> h.usedUntil, misused |-> h.misused]
    BY <1>8 DEF HeapType
  <1>10. /\ HeapType(g) /\ Segs(g) = D /\ g.next = nxt /\ g.size = siz
         /\ g.used = h.used \ {nw} /\ g.end = h.end
         /\ g.usedUntil = h.usedUntil /\ g.misused = h.misused
    <2>1. /\ g.next = nxt /\ g.size = siz
          /\ g.used = h.used \ {nw} /\ g.end = h.end
          /\ g.usedUntil = h.usedUntil /\ g.misused = h.misused
      BY <1>9
    <2>2. Segs(g) = D
      BY <1>6, <2>1 DEF Segs
    <2>3. /\ D \subseteq Nat \ {0} /\ h.used \ {nw} \subseteq D
          /\ h.end \in D /\ h.usedUntil \in D
      BY <1>1, <1>2
    <2>4. g = [next |-> g.next, size |-> g.size, used |-> g.used,
               end |-> g.end, usedUntil |-> g.usedUntil,
               misused |-> g.misused]
      BY <1>9
    <2> HIDE DEF D
    <2> QED
      BY <1>1, <1>6, <1>7, <2>1, <2>2, <2>3, <2>4 DEF HeapType
  <1> QED
    BY <1>2, <1>10 DEF nxt, siz

\* heap_divide() turns heaps into heaps.
LEMMA DivideType ==
  ASSUME NEW h, HeapType(h), NEW s \in Segs(h), NEW b \in Nat
  PROVE  /\ HeapType(Divide(h, s, b))
         /\ Segs(h) \subseteq Segs(Divide(h, s, b))
         /\ Divide(h, s, b).misused = h.misused
  <1>1. CASE h.size[s] > b + HeaderSize + SplitSlack
    BY <1>1, DivideFields
  <1>2. CASE ~(h.size[s] > b + HeaderSize + SplitSlack)
    BY <1>2 DEF Divide
  <1> QED
    BY <1>1, <1>2

\* heap_enlarge() on a free heap.end: the fields it writes.
LEMMA ReuseEndFields ==
  ASSUME NEW h, HeapType(h), NEW b \in Nat, NEW g, g = ReuseEnd(h, b)
  PROVE  /\ HeapType(g)
         /\ Segs(g) = Segs(h)
         /\ g.next = Write(h.next, h.end, Null)
         /\ g.size = Write(h.size, h.end, b)
         /\ g.used = h.used \cup {h.end}
         /\ g.end = h.end /\ g.usedUntil = h.usedUntil
         /\ g.misused = h.misused \cup Stale(h)
  <1> DEFINE nxt == Write(h.next, h.end, Null)
             siz == Write(h.size, h.end, b)
             mis == h.misused \cup Stale(h)
  <1>1. /\ Segs(h) \subseteq Nat \ {0}
        /\ h.next \in [Segs(h) -> Nat] /\ h.size \in [Segs(h) -> Nat]
        /\ h.used \subseteq Segs(h)
        /\ h.end \in Segs(h) /\ h.usedUntil \in Segs(h)
    BY HeapElim
  <1>2. nxt \in [Segs(h) -> Nat]
    <2>1. Null \in Nat
      BY DEF Null
    <2> QED
      BY <1>1, <2>1, WriteOld
  <1>3. siz \in [Segs(h) -> Nat]
    BY <1>1, WriteOld
  <1>4. mis \subseteq Nat
    BY <1>1, HeapElim DEF Stale
  <1>5. g = [h EXCEPT !.next = nxt, !.size = siz, !.used = @ \cup {h.end},
                      !.misused = mis]
    BY DEF ReuseEnd
  <1> HIDE DEF nxt, siz, mis
  <1>6. g = [next |-> nxt, size |-> siz, used |-> h.used \cup {h.end},
             end |-> h.end, usedUntil |-> h.usedUntil, misused |-> mis]
    BY <1>5 DEF HeapType
  <1>7. /\ g.next = nxt /\ g.size = siz /\ g.used = h.used \cup {h.end}
        /\ g.end = h.end /\ g.usedUntil = h.usedUntil /\ g.misused = mis
    BY <1>6
  <1>8. Segs(g) = Segs(h)
    BY <1>2, <1>7 DEF Segs
  <1>9. HeapType(g)
    <2>1. g = [next |-> g.next, size |-> g.size, used |-> g.used,
               end |-> g.end, usedUntil |-> g.usedUntil,
               misused |-> g.misused]
      BY <1>6
    <2> QED
      BY <1>1, <1>2, <1>3, <1>4, <1>7, <1>8, <2>1 DEF HeapType
  <1> QED
    BY <1>7, <1>8, <1>9 DEF nxt, siz, mis

\* heap_expand(): the fields it writes.
LEMMA ExpandFields ==
  ASSUME NEW h, HeapType(h), NEW b \in Nat
  PROVE  /\ HeapType(Expand(h, b))
         /\ SegEnd(h, h.end) \in Nat \ {0}
         /\ Segs(Expand(h, b)) = Segs(h) \cup {SegEnd(h, h.end)}
         /\ Expand(h, b).next
              = Write(Write(h.next, h.end, SegEnd(h, h.end)),
                      SegEnd(h, h.end), Null)
         /\ Expand(h, b).size = Write(h.size, SegEnd(h, h.end), b)
         /\ Expand(h, b).used = h.used \cup {SegEnd(h, h.end)}
         /\ Expand(h, b).end = SegEnd(h, h.end)
         /\ Expand(h, b).misused = h.misused \cup Stale(h)
  <1> DEFINE new == SegEnd(h, h.end)
             g == Expand(h, b)
             D == Segs(h) \cup {new}
             nxt == Write(Write(h.next, h.end, new), new, Null)
             siz == Write(h.size, new, b)
             mis == h.misused \cup Stale(h)
  <1>1. /\ Segs(h) \subseteq Nat \ {0}
        /\ h.next \in [Segs(h) -> Nat] /\ h.size \in [Segs(h) -> Nat]
        /\ h.used \subseteq Segs(h)
        /\ h.end \in Segs(h) /\ h.usedUntil \in Segs(h)
    BY HeapElim
  <1>2. new \in Nat \ {0}
    BY <1>1, HeapOpsAssumption DEF SegEnd
  <1>3. nxt \in [D -> Nat]
    <2>1. Write(h.next, h.end, new) \in [Segs(h) -> Nat]
      BY <1>1, <1>2, WriteOld
    <2>2. Null \in Nat
      BY DEF Null
    <2> QED
      BY <2>1, <2>2, WriteNew
  <1>4. siz \in [D -> Nat]
    BY <1>1, WriteNew
  <1>5. mis \subseteq Nat
    BY <1>1, HeapElim DEF Stale
  <1>6. g = [h EXCEPT !.end = new, !.next = nxt, !.size = siz,
                      !.used = @ \cup {new}, !.misused = mis]
    BY DEF Expand
  <1> HIDE DEF g, new, nxt, siz, mis
  <1>7. g = [next |-> nxt, size |-> siz, used |-> h.used \cup {new},
             end |-> new, usedUntil |-> h.usedUntil, misused |-> mis]
    BY <1>6 DEF HeapType
  <1>8. /\ g.next = nxt /\ g.size = siz /\ g.used = h.used \cup {new}
        /\ g.end = new /\ g.usedUntil = h.usedUntil /\ g.misused = mis
    BY <1>7
  <1>9. Segs(g) = D
    BY <1>3, <1>8 DEF Segs
  <1>10. HeapType(g)
    <2>1. g = [next |-> g.next, size |-> g.size, used |-> g.used,
               end |-> g.end, usedUntil |-> g.usedUntil,
               misused |-> g.misused]
      BY <1>7
    <2>2. /\ D \subseteq Nat \ {0} /\ h.used \cup {new} \subseteq D
          /\ new \in D /\ h.usedUntil \in D
      BY <1>1, <1>2
    <2> HIDE DEF D
    <2> QED
      BY <1>3, <1>4, <1>5, <1>8, <1>9, <2>1, <2>2 DEF HeapType
  <1> QED
    BY <1>2, <1>8, <1>9, <1>10 DEF g, new, nxt, siz, mis

\* What heap_enlarge() returns is a heap.
LEMMA EnlargeType ==
  ASSUME NEW h, HeapType(h), NEW b \in Nat, NEW g, g = Enlarge(h, b)
  PROVE  /\ HeapType(g)
         /\ Segs(h) \subseteq Segs(g)
         /\ g.misused = h.misused \cup Stale(h)
  <1>1. CASE h.end \notin h.used
    <2>1. g = ReuseEnd(h, b)
      BY <1>1 DEF Enlarge
    <2> QED
      BY <2>1, ReuseEndFields
  <1>2. CASE h.end \in h.used
    <2>1. g = Expand(h, b)
      BY <1>2 DEF Enlarge
    <2>2. /\ HeapType(Expand(h, b))
          /\ Segs(Expand(h, b)) = Segs(h) \cup {SegEnd(h, h.end)}
          /\ Expand(h, b).misused = h.misused \cup Stale(h)
      BY ExpandFields
    <2> QED
      BY <2>1, <2>2
  <1> QED
    BY <1>1, <1>2

\* alloc() before it calls heap_divide(): the segment is marked and used_until
\* advanced.
Mark(h, s) == [h EXCEPT !.used = @ \cup {s},
                        !.usedUntil = IF @ < s THEN s ELSE @]

\* The fields alloc() writes before it calls heap_divide().
LEMMA MarkFields ==
  ASSUME NEW h, HeapType(h), NEW s \in Segs(h), NEW g, g = Mark(h, s)
  PROVE  /\ HeapType(g)
         /\ Segs(g) = Segs(h)
         /\ g.next = h.next /\ g.size = h.size
         /\ g.used = h.used \cup {s}
         /\ g.end = h.end /\ g.misused = h.misused
  <1> DEFINE u == IF h.usedUntil < s THEN s ELSE h.usedUntil
  <1>1. u \in Segs(h)
    BY HeapElim
  <1>2. g = [h EXCEPT !.used = @ \cup {s}, !.usedUntil = u]
    BY DEF Mark
  <1> HIDE DEF u
  <1>3. g = [next |-> h.next, size |-> h.size, used |-> h.used \cup {s},
             end |-> h.end, usedUntil |-> u, misused |-> h.misused]
    BY <1>2 DEF HeapType
  <1>4. /\ g.next = h.next /\ g.size = h.size /\ g.used = h.used \cup {s}
        /\ g.end = h.end /\ g.usedUntil = u /\ g.misused = h.misused
    BY <1>3
  <1>5. Segs(g) = Segs(h)
    BY <1>4 DEF Segs
  <1>6. HeapType(g)
    <2>1. g = [next |-> g.next, size |-> g.size, used |-> g.used,
               end |-> g.end, usedUntil |-> g.usedUntil,
               misused |-> g.misused]
      BY <1>3
    <2> QED
      BY <1>1, <1>4, <1>5, <2>1 DEF HeapType
  <1> QED
    BY <1>4, <1>5, <1>6

\* alloc() on a segment that fits returns a heap.
LEMMA TakeType ==
  ASSUME NEW h, HeapType(h), NEW s \in Segs(h), NEW b \in Nat
  PROVE  /\ Take(h, s, b) = Divide(Mark(h, s), s, b)
         /\ HeapType(Take(h, s, b))
         /\ Segs(h) \subseteq Segs(Take(h, s, b))
         /\ Take(h, s, b).misused = h.misused
  <1>1. Take(h, s, b) = Divide(Mark(h, s), s, b)
    BY DEF Take, Mark
  <1>2. /\ HeapType(Mark(h, s)) /\ Segs(Mark(h, s)) = Segs(h)
        /\ Mark(h, s).misused = h.misused
    BY MarkFields
  <1> QED
    BY <1>1, <1>2, DivideType

\* alloc() returns a heap and one of its segments.
LEMMA AllocType ==
  ASSUME NEW h, HeapType(h), NEW b \in Nat, NEW r \in Alloc(h, b)
  PROVE  /\ HeapType(r.heap)
         /\ Segs(h) \subseteq Segs(r.heap)
         /\ r.seg \in Segs(r.heap)
         /\ h.misused \subseteq r.heap.misused
  <1>1. CASE Fits(h, b) = {}
    <2>1. r.heap = Enlarge(h, b) /\ r.seg = r.heap.end
      BY <1>1 DEF Alloc
    <2>2. HeapType(r.heap) /\ Segs(h) \subseteq Segs(r.heap)
          /\ r.heap.misused = h.misused \cup Stale(h)
      BY <2>1, EnlargeType
    <2>3. r.heap.end \in Segs(r.heap)
      BY <2>2, HeapElim
    <2> QED
      BY <2>1, <2>2, <2>3
  <1>2. CASE Fits(h, b) # {}
    <2>1. PICK s \in Fits(h, b) : r = [heap |-> Take(h, s, b), seg |-> s]
      BY <1>2 DEF Alloc, Lowest
    <2>2. s \in Segs(h)
      BY DEF Fits
    <2> QED
      BY <2>1, <2>2, TakeType
  <1> QED
    BY <1>1, <1>2

\* free(): the fields it writes.
LEMMA FreeFields ==
  ASSUME NEW h, HeapType(h), NEW s \in Segs(h), NEW g, g = Free(h, s)
  PROVE  /\ HeapType(g)
         /\ Segs(g) = Segs(h)
         /\ g.next = h.next /\ g.size = h.size
         /\ g.used = h.used \ {s}
         /\ g.end = h.end /\ g.misused = h.misused
  <1> DEFINE u == IF h.usedUntil > s THEN s ELSE h.usedUntil
  <1>1. u \in Segs(h)
    BY HeapElim
  <1>2. g = [h EXCEPT !.used = @ \ {s}, !.usedUntil = u]
    BY DEF Free
  <1> HIDE DEF u
  <1>3. g = [next |-> h.next, size |-> h.size, used |-> h.used \ {s},
             end |-> h.end, usedUntil |-> u, misused |-> h.misused]
    BY <1>2 DEF HeapType
  <1>4. /\ g.next = h.next /\ g.size = h.size /\ g.used = h.used \ {s}
        /\ g.end = h.end /\ g.usedUntil = u /\ g.misused = h.misused
    BY <1>3
  <1>5. Segs(g) = Segs(h)
    BY <1>4 DEF Segs
  <1>6. HeapType(g)
    <2>1. g = [next |-> g.next, size |-> g.size, used |-> g.used,
               end |-> g.end, usedUntil |-> g.usedUntil,
               misused |-> g.misused]
      BY <1>3
    <2> QED
      BY <1>1, <1>4, <1>5, <2>1 DEF HeapType
  <1> QED
    BY <1>4, <1>5, <1>6

\* The statement that gives up the old block in realloc(): the field it writes.
LEMMA AbandonFields ==
  ASSUME NEW h, HeapType(h), NEW s, NEW g, g = Abandon(h, s)
  PROVE  /\ HeapType(g)
         /\ Segs(g) = Segs(h)
         /\ g.next = h.next /\ g.size = h.size
         /\ g.used = h.used \ {s}
         /\ g.end = h.end /\ g.misused = h.misused
  <1>1. g = [next |-> h.next, size |-> h.size, used |-> h.used \ {s},
             end |-> h.end, usedUntil |-> h.usedUntil, misused |-> h.misused]
    BY DEF Abandon, HeapType
  <1>2. /\ g.next = h.next /\ g.size = h.size /\ g.used = h.used \ {s}
        /\ g.end = h.end /\ g.usedUntil = h.usedUntil
        /\ g.misused = h.misused
    BY <1>1
  <1>3. Segs(g) = Segs(h)
    BY <1>2 DEF Segs
  <1>4. HeapType(g)
    <2>1. g = [next |-> g.next, size |-> g.size, used |-> g.used,
               end |-> g.end, usedUntil |-> g.usedUntil,
               misused |-> g.misused]
      BY <1>1
    <2> QED
      BY <1>2, <1>3, <2>1 DEF HeapType
  <1> QED
    BY <1>2, <1>3, <1>4

\* The growth in place of realloc() and realloca(): the fields it writes.
LEMMA GrowEndFields ==
  ASSUME NEW h, HeapType(h), NEW b \in Nat, NEW g, g = GrowEnd(h, b)
  PROVE  /\ HeapType(g)
         /\ Segs(g) = Segs(h)
         /\ g.next = h.next
         /\ g.size = Write(h.size, h.end, b)
         /\ g.used = h.used
         /\ g.end = h.end
         /\ g.misused = h.misused \cup Stale(h)
  <1> DEFINE siz == Write(h.size, h.end, b)
             mis == h.misused \cup Stale(h)
  <1>1. siz \in [Segs(h) -> Nat]
    <2>1. h.end \in Segs(h) /\ h.size \in [Segs(h) -> Nat]
      BY HeapElim
    <2> QED
      BY <2>1, WriteOld
  <1>2. mis \subseteq Nat
    BY HeapElim DEF Stale
  <1>3. g = [h EXCEPT !.size = siz, !.misused = mis]
    BY DEF GrowEnd
  <1> HIDE DEF siz, mis
  <1>4. g = [next |-> h.next, size |-> siz, used |-> h.used, end |-> h.end,
             usedUntil |-> h.usedUntil, misused |-> mis]
    BY <1>3 DEF HeapType
  <1>5. /\ g.next = h.next /\ g.size = siz /\ g.used = h.used
        /\ g.end = h.end /\ g.usedUntil = h.usedUntil /\ g.misused = mis
    BY <1>4
  <1>6. Segs(g) = Segs(h)
    BY <1>5 DEF Segs
  <1>7. HeapType(g)
    <2>1. g = [next |-> g.next, size |-> g.size, used |-> g.used,
               end |-> g.end, usedUntil |-> g.usedUntil,
               misused |-> g.misused]
      BY <1>4
    <2> QED
      BY <1>1, <1>2, <1>5, <1>6, <2>1 DEF HeapType
  <1> QED
    BY <1>5, <1>6, <1>7 DEF siz, mis

\* realloc() and realloca() on a segment that is too small return a heap and
\* one of its segments.
LEMMA MoveType ==
  ASSUME NEW h, HeapType(h), NEW s \in Segs(h), NEW b \in Nat,
         NEW reserve \in Nat, NEW r \in Move(h, s, b, reserve)
  PROVE  /\ HeapType(r.heap)
         /\ Segs(h) \subseteq Segs(r.heap)
         /\ r.seg \in Segs(r.heap)
         /\ h.misused \subseteq r.heap.misused
  <1>1. CASE s = h.end
    <2>1. r.heap = GrowEnd(h, b) /\ r.seg = s
      BY <1>1 DEF Move
    <2> QED
      BY <2>1, GrowEndFields
  <1>2. CASE s # h.end
    <2>1. PICK q \in Alloc(h, b + reserve) :
            r = [heap |-> Abandon(q.heap, s), seg |-> q.seg]
      BY <1>2 DEF Move
    <2>2. b + reserve \in Nat
      OBVIOUS
    <2>3. /\ HeapType(q.heap) /\ Segs(h) \subseteq Segs(q.heap)
          /\ q.seg \in Segs(q.heap) /\ h.misused \subseteq q.heap.misused
      BY <2>2, AllocType
    <2>4. r.heap = Abandon(q.heap, s) /\ r.seg = q.seg
      BY <2>1
    <2> QED
      BY <2>3, <2>4, AbandonFields
  <1> QED
    BY <1>1, <1>2

\* realloc() returns a heap and one of its segments.
LEMMA ReallocType ==
  ASSUME NEW h, HeapType(h), NEW s \in Segs(h), NEW b \in Nat,
         NEW r \in Realloc(h, s, b)
  PROVE  /\ HeapType(r.heap)
         /\ Segs(h) \subseteq Segs(r.heap)
         /\ r.seg \in Segs(r.heap)
         /\ h.misused \subseteq r.heap.misused
  <1>1. CASE h.size[s] >= b
    <2>1. r.heap = Divide(h, s, b) /\ r.seg = s
      BY <1>1 DEF Realloc
    <2> QED
      BY <2>1, DivideType
  <1>2. CASE ~(h.size[s] >= b)
    BY <1>2, MoveType DEF Realloc
  <1> QED
    BY <1>1, <1>2

\* realloca() returns a heap and one of its segments.
LEMMA ReallocaType ==
  ASSUME NEW h, HeapType(h), NEW s \in Segs(h), NEW b \in Nat,
         NEW add \in Nat, NEW r \in Realloca(h, s, b, add)
  PROVE  /\ HeapType(r.heap)
         /\ Segs(h) \subseteq Segs(r.heap)
         /\ r.seg \in Segs(r.heap)
         /\ h.misused \subseteq r.heap.misused
  <1>1. CASE h.size[s] >= b
    BY <1>1 DEF Realloca
  <1>2. CASE ~(h.size[s] >= b)
    BY <1>2, MoveType DEF Realloca
  <1> QED
    BY <1>1, <1>2

-----------------------------------------------------------------------------
(* The tiling: what each operation does to a heap whose segments tile it.   *)

\* Segment s is cut in two at n.
LEMMA CutTiled ==
  ASSUME NEW h, HeapType(h), Tiled(h), NEW s \in Segs(h), NEW n \in Nat,
         s + HeaderSize <= n, n + HeaderSize <= SegEnd(h, s),
         NEW g, HeapType(g), Segs(g) = Segs(h) \cup {n},
         g.next[s] = n, g.next[n] = h.next[s],
         \A t \in Segs(h) \ {s, n} : g.next[t] = h.next[t],
         SegEnd(g, s) = n, SegEnd(g, n) = SegEnd(h, s),
         \A t \in Segs(h) \ {s, n} : SegEnd(g, t) = SegEnd(h, t)
  PROVE  Tiled(g) /\ n \notin Segs(h)
  <1>1. /\ Segs(h) \subseteq Nat \ {0}
        /\ h.next \in [Segs(h) -> Nat] /\ h.size \in [Segs(h) -> Nat]
    BY HeapElim
  <1>2. \A t \in Segs(h) : SegEnd(h, t) \in Nat /\ t + HeaderSize <= SegEnd(h, t)
    BY <1>1, HeapOpsAssumption DEF SegEnd
  <1>3. /\ \A t \in Segs(h) : t < s => SegEnd(h, t) <= s
        /\ \A t \in Segs(h) : s < t => SegEnd(h, s) <= t
    BY DEF Tiled
  <1>4. s < n /\ n < SegEnd(h, s)
    BY <1>1, <1>2, HeapOpsAssumption
  <1>5. n \notin Segs(h)
    BY <1>1, <1>2, <1>3, <1>4
  <1>6. \A t \in Segs(h) \ {s} : g.next[t] = h.next[t] /\ SegEnd(g, t) = SegEnd(h, t)
    BY <1>5
  <1>7. \A t \in Segs(g) : t >= HeapStart
    BY <1>1, <1>4, HeapOpsAssumption DEF Tiled
  <1>8. ASSUME NEW t \in Segs(g), g.next[t] # Null
        PROVE  g.next[t] \in Segs(g) /\ g.next[t] = SegEnd(g, t)
    <2>1. CASE t = s
      BY <2>1
    <2>2. CASE t = n
      BY <1>8, <2>2 DEF Tiled
    <2>3. CASE t \in Segs(h) \ {s}
      BY <1>6, <1>8, <2>3 DEF Tiled
    <2> QED
      BY <2>1, <2>2, <2>3
  <1>9. ASSUME NEW t \in Segs(g), NEW v \in Segs(g), t < v
        PROVE  SegEnd(g, t) <= v
    <2>1. CASE t \in Segs(h) \ {s} /\ v \in Segs(h)
      BY <1>6, <1>9, <2>1 DEF Tiled
    <2>2. CASE t = s /\ v \in Segs(h)
      <3>1. SegEnd(h, s) <= v /\ v \in Nat
        BY <1>1, <1>3, <1>9, <2>2
      <3> QED
        BY <1>2, <1>4, <2>2, <3>1
    <2>3. CASE t \in Segs(h) \ {s} /\ v = n
      <3>1. ~(s < t)
        <4>1. t \in Nat /\ s \in Nat /\ SegEnd(h, s) \in Nat
          BY <1>1, <1>2, <2>3
        <4>2. s < t => SegEnd(h, s) <= t
          BY <1>3, <2>3
        <4> QED
          BY <1>4, <1>9, <2>3, <4>1, <4>2
      <3>2. SegEnd(h, t) <= s /\ SegEnd(h, t) \in Nat /\ s \in Nat
        BY <1>1, <1>2, <1>3, <2>3, <3>1
      <3> QED
        BY <1>4, <1>6, <2>3, <3>2
    <2>4. CASE t = s /\ v = n
      BY <2>4
    <2>5. CASE t = n /\ v \in Segs(h)
      <3>1. s < v
        BY <1>1, <1>4, <1>9, <2>5
      <3> QED
        BY <1>3, <2>5, <3>1
    <2>6. CASE t = n /\ v = n
      BY <1>9, <2>6
    <2> QED
      BY <2>1, <2>2, <2>3, <2>4, <2>5, <2>6
  <1>10. ASSUME NEW t \in Segs(g), NEW v \in Segs(g), g.next[t] = Null
         PROVE  v <= t
    <2>1. t # s
      BY <1>1, <1>4, <1>10 DEF Null
    <2>2. CASE t = n
      <3>1. \A x \in Segs(h) : x <= s
        BY <1>10, <2>2 DEF Tiled
      <3> QED
        BY <1>1, <1>4, <2>2, <3>1
    <2>3. CASE t \in Segs(h) \ {s}
      <3>1. \A x \in Segs(h) : x <= t
        BY <1>6, <1>10, <2>3 DEF Tiled
      <3>2. SegEnd(h, s) <= t
        BY <1>1, <1>3, <2>3, <3>1
      <3> QED
        BY <1>1, <1>2, <1>4, <2>3, <3>1, <3>2
    <2> QED
      BY <2>1, <2>2, <2>3
  <1> QED
    BY <1>5, <1>7, <1>8, <1>9, <1>10 DEF Tiled

\* Segment n follows the last segment e, which now ends there.
LEMMA AppendTiled ==
  ASSUME NEW h, HeapType(h), Tiled(h), NEW e \in Segs(h), h.next[e] = Null,
         NEW n \in Nat, e < n,
         NEW g, HeapType(g), Segs(g) = Segs(h) \cup {n},
         g.next[e] = n, g.next[n] = Null,
         \A t \in Segs(h) \ {e, n} : g.next[t] = h.next[t],
         SegEnd(g, e) = n,
         \A t \in Segs(h) \ {e, n} : SegEnd(g, t) = SegEnd(h, t)
  PROVE  Tiled(g) /\ n \notin Segs(h)
  <1>1. /\ Segs(h) \subseteq Nat \ {0}
        /\ h.next \in [Segs(h) -> Nat] /\ h.size \in [Segs(h) -> Nat]
    BY HeapElim
  <1>2. \A t \in Segs(h) : t <= e
    BY DEF Tiled
  <1>3. \A t \in Segs(h) : t < n
    BY <1>1, <1>2
  <1>4. n \notin Segs(h)
    BY <1>3
  <1>5. \A t \in Segs(h) \ {e} : g.next[t] = h.next[t] /\ SegEnd(g, t) = SegEnd(h, t)
    BY <1>4
  <1>6. \A t \in Segs(g) : t >= HeapStart
    BY <1>1, HeapOpsAssumption DEF Tiled
  <1>7. ASSUME NEW t \in Segs(g), g.next[t] # Null
        PROVE  g.next[t] \in Segs(g) /\ g.next[t] = SegEnd(g, t)
    <2>1. CASE t = e
      BY <2>1
    <2>2. CASE t = n
      BY <1>7, <2>2
    <2>3. CASE t \in Segs(h) \ {e}
      BY <1>5, <1>7, <2>3 DEF Tiled
    <2> QED
      BY <2>1, <2>2, <2>3
  <1>8. ASSUME NEW t \in Segs(g), NEW v \in Segs(g), t < v
        PROVE  SegEnd(g, t) <= v
    <2>1. CASE t \in Segs(h) \ {e} /\ v \in Segs(h)
      BY <1>5, <1>8, <2>1 DEF Tiled
    <2>2. CASE t \in Segs(h) \ {e} /\ v = n
      <3>1. t < e
        BY <1>1, <1>2, <2>2
      <3>2. SegEnd(h, t) <= e /\ SegEnd(h, t) \in Nat
        BY <1>1, <2>2, <3>1, HeapOpsAssumption DEF Tiled, SegEnd
      <3> QED
        BY <1>1, <1>5, <2>2, <3>2
    <2>3. CASE t = e
      <3>1. v = n
        BY <1>1, <1>2, <1>8, <2>3
      <3> QED
        BY <2>3, <3>1
    <2>4. CASE t = n
      BY <1>1, <1>3, <1>8, <2>4
    <2> QED
      BY <2>1, <2>2, <2>3, <2>4
  <1>9. ASSUME NEW t \in Segs(g), NEW v \in Segs(g), g.next[t] = Null
        PROVE  v <= t
    <2>1. CASE t = n
      BY <1>1, <1>3, <2>1
    <2>2. CASE t \in Segs(h)
      <3>1. t # e
        BY <1>1, <1>9 DEF Null
      <3>2. e <= t
        BY <1>5, <1>9, <2>2, <3>1 DEF Tiled
      <3> QED
        BY <1>1, <1>2, <2>2, <3>1, <3>2
    <2> QED
      BY <2>1, <2>2
  <1> QED
    BY <1>4, <1>6, <1>7, <1>8, <1>9 DEF Tiled

\* heap_divide() cuts one segment in two and leaves the others alone.  The
\* new header is inside the old segment, so that it overwrites no other.
LEMMA DivideTiled ==
  ASSUME NEW h, HeapType(h), Tiled(h), NEW s \in Segs(h), NEW b \in Nat
  PROVE  /\ Tiled(Divide(h, s, b))
         /\ Divide(h, s, b).used = h.used
         /\ h.size[s] >= b => Divide(h, s, b).size[s] >= b
         /\ \A t \in Segs(h) \ {s} : Divide(h, s, b).size[t] = h.size[t]
  <1>1. CASE h.size[s] > b + HeaderSize + SplitSlack
    <2> DEFINE g == Divide(h, s, b)
               nw == s + HeaderSize + b
    <2>1. /\ HeapType(g) /\ Segs(g) = Segs(h) \cup {nw}
          /\ nw \in Nat \ {0}
          /\ g.next = Write(Write(h.next, s, nw), nw, h.next[s])
          /\ g.size = Write(Write(h.size, s, b), nw,
                            h.size[s] - HeaderSize - b)
          /\ g.used = h.used \ {nw}
      BY <1>1, DivideFields
    <2>2. /\ Segs(h) \subseteq Nat \ {0} /\ h.used \subseteq Segs(h)
          /\ h.next \in [Segs(h) -> Nat] /\ h.size \in [Segs(h) -> Nat]
      BY HeapElim
    <2>3. \A t \in Segs(h) : t < s => t + HeaderSize + h.size[t] <= s
      BY DEF Tiled, SegEnd
    <2>4. \A t \in Segs(h) : s < t => s + HeaderSize + h.size[s] <= t
      BY DEF Tiled, SegEnd
    <2>5. nw \notin Segs(h) /\ s < nw
          /\ nw + HeaderSize <= s + HeaderSize + h.size[s]
      BY <1>1, <2>2, <2>4, HeapOpsAssumption
    <2>6. /\ g.next[s] = nw /\ g.next[nw] = h.next[s]
          /\ \A t \in Segs(h) \ {s} : g.next[t] = h.next[t]
      BY <2>1, <2>2, <2>5 DEF Write
    <2>7. /\ g.size[s] = b /\ g.size[nw] = h.size[s] - HeaderSize - b
          /\ \A t \in Segs(h) \ {s} : g.size[t] = h.size[t]
      BY <2>1, <2>2, <2>5 DEF Write
    <2>8. /\ SegEnd(g, s) = nw /\ SegEnd(g, nw) = SegEnd(h, s)
          /\ \A t \in Segs(h) \ {s} : SegEnd(g, t) = SegEnd(h, t)
      BY <2>2, <2>7, HeapOpsAssumption DEF SegEnd
    <2> HIDE DEF g, nw
    <2>9. /\ s + HeaderSize <= nw /\ nw + HeaderSize <= SegEnd(h, s)
          /\ nw \in Nat
      <3>1. s \in Nat /\ s + HeaderSize <= s + HeaderSize + b
        BY <2>2, HeapOpsAssumption
      <3> QED
        BY <2>1, <2>5, <3>1 DEF nw, SegEnd
    <2>13. Tiled(g)
      BY <2>1, <2>6, <2>8, <2>9, CutTiled
    <2>14. g.used = h.used
      BY <2>1, <2>2, <2>5
    <2> QED
      BY <2>7, <2>13, <2>14 DEF g
  <1>2. CASE ~(h.size[s] > b + HeaderSize + SplitSlack)
    BY <1>2 DEF Divide
  <1> QED
    BY <1>1, <1>2

\* A heap.end that was not misused is the last segment, and the highest.
LEMMA EndIsTop ==
  ASSUME NEW h, HeapType(h), Tiled(h), Stale(h) = {}
  PROVE  h.next[h.end] = Null /\ \A t \in Segs(h) : t <= h.end
  <1>1. h.next[h.end] = Null /\ h.end \in Segs(h)
    BY HeapElim DEF Stale
  <1> QED
    BY <1>1 DEF Tiled

\* The size of the last segment may be overwritten with any number.
LEMMA ResizeTopTiled ==
  ASSUME NEW h, HeapType(h), Tiled(h), Stale(h) = {}, NEW b \in Nat,
         NEW g, HeapType(g), Segs(g) = Segs(h),
         g.size = Write(h.size, h.end, b),
         \A t \in Segs(h) : g.next[t] = h.next[t]
  PROVE  Tiled(g)
  <1>1. h.next[h.end] = Null /\ \A t \in Segs(h) : t <= h.end
    BY EndIsTop
  <1>2. /\ Segs(h) \subseteq Nat \ {0} /\ h.end \in Segs(h)
        /\ h.size \in [Segs(h) -> Nat]
    BY HeapElim
  <1>3. \A t \in Segs(h) \ {h.end} : g.size[t] = h.size[t]
    BY <1>2, WriteOld
  <1>4. \A t \in Segs(h) \ {h.end} : SegEnd(g, t) = SegEnd(h, t)
    BY <1>3 DEF SegEnd
  <1>5. ASSUME NEW t \in Segs(g), g.next[t] # Null
        PROVE  g.next[t] \in Segs(g) /\ g.next[t] = SegEnd(g, t)
    BY <1>1, <1>4, <1>5 DEF Tiled
  <1>6. ASSUME NEW t \in Segs(g), NEW v \in Segs(g), t < v
        PROVE  SegEnd(g, t) <= v
    <2>1. t # h.end
      BY <1>1, <1>2, <1>6
    <2> QED
      BY <1>4, <1>6, <2>1 DEF Tiled
  <1> QED
    BY <1>5, <1>6 DEF Tiled

\* heap_expand() puts the new segment right behind the highest one.
LEMMA ExpandTiled ==
  ASSUME NEW h, HeapType(h), Tiled(h), Stale(h) = {}, NEW b \in Nat
  PROVE  /\ Tiled(Expand(h, b))
         /\ SegEnd(h, h.end) \notin Segs(h)
         /\ Expand(h, b).size[SegEnd(h, h.end)] = b
         /\ \A t \in Segs(h) : Expand(h, b).size[t] = h.size[t]
  <1> DEFINE g == Expand(h, b)
             new == SegEnd(h, h.end)
  <1>1. /\ HeapType(g) /\ new \in Nat \ {0}
        /\ Segs(g) = Segs(h) \cup {new}
        /\ g.next = Write(Write(h.next, h.end, new), new, Null)
        /\ g.size = Write(h.size, new, b)
    BY ExpandFields
  <1>2. h.next[h.end] = Null /\ \A t \in Segs(h) : t <= h.end
    BY EndIsTop
  <1>3. /\ Segs(h) \subseteq Nat \ {0} /\ h.end \in Segs(h)
        /\ h.next \in [Segs(h) -> Nat] /\ h.size \in [Segs(h) -> Nat]
    BY HeapElim
  <1>4. new = h.end + HeaderSize + h.size[h.end]
    BY DEF SegEnd
  <1>5. h.end < new
    BY <1>3, <1>4, HeapOpsAssumption
  <1>6. \A t \in Segs(h) : t < new
    BY <1>1, <1>2, <1>3, <1>5
  <1>7. new \notin Segs(h)
    BY <1>1, <1>6
  <1> HIDE DEF g, new
  <1>8. /\ g.next[new] = Null /\ g.next[h.end] = new
        /\ \A t \in Segs(h) \ {h.end} : g.next[t] = h.next[t]
    BY <1>1, <1>3, <1>7 DEF Write
  <1>9. g.size[new] = b /\ \A t \in Segs(h) : g.size[t] = h.size[t]
    BY <1>1, <1>3, <1>7 DEF Write
  <1>10. \A t \in Segs(h) : SegEnd(g, t) = SegEnd(h, t)
    BY <1>9 DEF SegEnd
  <1>11. SegEnd(g, h.end) = new
    BY <1>3, <1>10 DEF new
  <1>12. Tiled(g)
    BY <1>1, <1>2, <1>3, <1>5, <1>8, <1>10, <1>11, AppendTiled
  <1> QED
    BY <1>7, <1>9, <1>12 DEF g, new

\* What a caller is owed: a tiled heap in which its segment is marked used, is
\* large enough and belongs to nobody else; the segments `old' are given up
\* and all others keep their size.
Served(h, old, r, b) ==
  /\ HeapType(r.heap) /\ Tiled(r.heap)
  /\ r.seg \in Segs(r.heap)
  /\ r.seg \notin h.used \ old
  /\ r.heap.used = (h.used \ old) \cup {r.seg}
  /\ r.heap.size[r.seg] >= b
  /\ \A t \in h.used \ old : r.heap.size[t] = h.size[t]

\* heap_enlarge() serves its caller if heap.end is the last segment.
LEMMA EnlargeServed ==
  ASSUME NEW h, HeapType(h), Tiled(h), Stale(h) = {}, NEW b \in Nat,
         NEW r, r.heap = Enlarge(h, b), r.seg = r.heap.end
  PROVE  Served(h, {}, r, b)
  <1>1. h.used \subseteq Segs(h) /\ h.end \in Segs(h)
        /\ h.next \in [Segs(h) -> Nat] /\ h.size \in [Segs(h) -> Nat]
    BY HeapElim
  <1>2. CASE h.end \notin h.used
    <2>1. r.heap = ReuseEnd(h, b)
      BY <1>2 DEF Enlarge
    <2>2. /\ HeapType(r.heap) /\ Segs(r.heap) = Segs(h)
          /\ r.heap.next = Write(h.next, h.end, Null)
          /\ r.heap.size = Write(h.size, h.end, b)
          /\ r.heap.used = h.used \cup {h.end} /\ r.heap.end = h.end
      BY <2>1, ReuseEndFields
    <2>3. h.next[h.end] = Null
      BY EndIsTop
    <2>4. \A t \in Segs(h) : r.heap.next[t] = h.next[t]
      BY <1>1, <2>2, <2>3 DEF Write
    <2>5. Tiled(r.heap)
      BY <2>2, <2>4, ResizeTopTiled
    <2>6. /\ r.heap.size[h.end] = b
          /\ \A t \in h.used : r.heap.size[t] = h.size[t]
      BY <1>1, <1>2, <2>2 DEF Write
    <2> QED
      BY <1>1, <1>2, <2>2, <2>5, <2>6 DEF Served
  <1>3. CASE h.end \in h.used
    <2>1. r.heap = Expand(h, b)
      BY <1>3 DEF Enlarge
    <2>2. /\ HeapType(Expand(h, b))
          /\ Segs(Expand(h, b)) = Segs(h) \cup {SegEnd(h, h.end)}
          /\ Expand(h, b).used = h.used \cup {SegEnd(h, h.end)}
          /\ Expand(h, b).end = SegEnd(h, h.end)
      BY ExpandFields
    <2>3. /\ Tiled(Expand(h, b))
          /\ SegEnd(h, h.end) \notin Segs(h)
          /\ Expand(h, b).size[SegEnd(h, h.end)] = b
          /\ \A t \in Segs(h) : Expand(h, b).size[t] = h.size[t]
      BY ExpandTiled
    <2>4. r.seg = SegEnd(h, h.end)
      BY <2>1, <2>2
    <2> QED
      BY <1>1, <2>1, <2>2, <2>3, <2>4 DEF Served
  <1> QED
    BY <1>2, <1>3

\* alloc() serves its caller with a free segment that fits.
LEMMA TakeServed ==
  ASSUME NEW h, HeapType(h), Tiled(h), NEW b \in Nat, NEW s \in Segs(h) \ h.used,
         h.size[s] >= b, NEW r, r.heap = Take(h, s, b), r.seg = s
  PROVE  Served(h, {}, r, b)
  <1> DEFINE m == Mark(h, s)
  <1>1. /\ HeapType(m) /\ Segs(m) = Segs(h)
        /\ m.next = h.next /\ m.size = h.size /\ m.used = h.used \cup {s}
    BY MarkFields
  <1>2. Tiled(m)
    BY <1>1 DEF Tiled, SegEnd
  <1>3. Take(h, s, b) = Divide(m, s, b)
    BY TakeType
  <1> HIDE DEF m
  <1>4. HeapType(Divide(m, s, b)) /\ Segs(m) \subseteq Segs(Divide(m, s, b))
    BY <1>1, DivideType
  <1>5. /\ Tiled(Divide(m, s, b)) /\ Divide(m, s, b).used = m.used
        /\ m.size[s] >= b => Divide(m, s, b).size[s] >= b
        /\ \A t \in Segs(m) \ {s} : Divide(m, s, b).size[t] = m.size[t]
    BY <1>1, <1>2, DivideTiled
  <1>6. h.used \subseteq Segs(h)
    BY HeapElim
  <1> QED
    BY <1>1, <1>3, <1>4, <1>5, <1>6 DEF Served

\* alloc() serves its caller if it did not misuse heap.end.
LEMMA AllocServed ==
  ASSUME NEW h, HeapType(h), Tiled(h), NEW b \in Nat, NEW r \in Alloc(h, b),
         r.heap.misused = {}
  PROVE  Served(h, {}, r, b)
  <1>1. CASE Fits(h, b) = {}
    <2>1. r.heap = Enlarge(h, b) /\ r.seg = r.heap.end
      BY <1>1 DEF Alloc
    <2>2. Stale(h) = {}
      <3>1. r.heap.misused = h.misused \cup Stale(h)
        BY <2>1, EnlargeType
      <3> QED
        BY <3>1
    <2> QED
      BY <2>1, <2>2, EnlargeServed
  <1>2. CASE Fits(h, b) # {}
    <2>1. PICK s \in Fits(h, b) : r = [heap |-> Take(h, s, b), seg |-> s]
      BY <1>2 DEF Alloc, Lowest
    <2>2. s \in Segs(h) /\ s \notin h.used /\ h.size[s] >= b
      BY DEF Fits
    <2> QED
      BY <2>1, <2>2, TakeServed
  <1> QED
    BY <1>1, <1>2

\* realloc() and realloca() serve the owner of a segment that is too small.
LEMMA MoveServed ==
  ASSUME NEW h, HeapType(h), Tiled(h), NEW s \in h.used, NEW b \in Nat,
         NEW reserve \in Nat, NEW r \in Move(h, s, b, reserve),
         r.heap.misused = {}
  PROVE  Served(h, {s}, r, b)
  <1>1. s \in Segs(h) /\ h.used \subseteq Segs(h)
        /\ h.size \in [Segs(h) -> Nat]
    BY HeapElim
  <1>2. CASE s = h.end
    <2>1. r.heap = GrowEnd(h, b) /\ r.seg = s
      BY <1>2 DEF Move
    <2>2. /\ HeapType(GrowEnd(h, b)) /\ Segs(GrowEnd(h, b)) = Segs(h)
          /\ GrowEnd(h, b).next = h.next
          /\ GrowEnd(h, b).size = Write(h.size, h.end, b)
          /\ GrowEnd(h, b).used = h.used
          /\ GrowEnd(h, b).misused = h.misused \cup Stale(h)
      BY GrowEndFields
    <2>3. Stale(h) = {}
      BY <2>1, <2>2
    <2>4. Tiled(GrowEnd(h, b))
      BY <2>2, <2>3, ResizeTopTiled
    <2>5. /\ GrowEnd(h, b).size[s] = b
          /\ \A t \in h.used \ {s} : GrowEnd(h, b).size[t] = h.size[t]
      BY <1>1, <1>2, <2>2 DEF Write
    <2>6. h.used = (h.used \ {s}) \cup {s}
      OBVIOUS
    <2> QED
      BY <1>1, <2>1, <2>2, <2>4, <2>5, <2>6 DEF Served
  <1>3. CASE s # h.end
    <2>1. PICK q \in Alloc(h, b + reserve) :
            r = [heap |-> Abandon(q.heap, s), seg |-> q.seg]
      BY <1>3 DEF Move
    <2>2. b + reserve \in Nat
      OBVIOUS
    <2>3. HeapType(q.heap)
      BY <2>2, AllocType
    <2>4. /\ HeapType(r.heap) /\ Segs(r.heap) = Segs(q.heap)
          /\ r.heap.next = q.heap.next /\ r.heap.size = q.heap.size
          /\ r.heap.used = q.heap.used \ {s}
          /\ r.heap.misused = q.heap.misused /\ r.seg = q.seg
      <3>1. r.heap = Abandon(q.heap, s) /\ r.seg = q.seg
        BY <2>1
      <3> QED
        BY <2>3, <3>1, AbandonFields
    <2>5. Served(h, {}, q, b + reserve)
      BY <2>2, <2>4, AllocServed
    <2>6. Tiled(r.heap)
      BY <2>4, <2>5 DEF Served, Tiled, SegEnd
    <2>7. q.seg \notin h.used /\ q.heap.used = h.used \cup {q.seg}
      BY <2>5 DEF Served
    <2>8. r.heap.used = (h.used \ {s}) \cup {r.seg} /\ r.seg \notin h.used \ {s}
      BY <2>4, <2>7
    <2>9. r.heap.size[r.seg] >= b
      <3>1. q.heap.size[q.seg] >= b + reserve /\ q.heap.size[q.seg] \in Nat
        BY <2>3, <2>5, HeapElim DEF Served
      <3> QED
        BY <2>4, <3>1
    <2> QED
      BY <2>4, <2>5, <2>6, <2>8, <2>9 DEF Served
  <1> QED
    BY <1>2, <1>3

\* realloc() serves the owner of any segment.
LEMMA ReallocServed ==
  ASSUME NEW h, HeapType(h), Tiled(h), NEW s \in h.used, NEW b \in Nat,
         NEW r \in Realloc(h, s, b), r.heap.misused = {}
  PROVE  Served(h, {s}, r, b)
  <1>1. s \in Segs(h) /\ h.used \subseteq Segs(h)
    BY HeapElim
  <1>2. CASE h.size[s] >= b
    <2>1. r.heap = Divide(h, s, b) /\ r.seg = s
      BY <1>2 DEF Realloc
    <2>2. /\ HeapType(Divide(h, s, b)) /\ Segs(h) \subseteq Segs(Divide(h, s, b))
      BY <1>1, DivideType
    <2>3. /\ Tiled(Divide(h, s, b)) /\ Divide(h, s, b).used = h.used
          /\ h.size[s] >= b => Divide(h, s, b).size[s] >= b
          /\ \A t \in Segs(h) \ {s} : Divide(h, s, b).size[t] = h.size[t]
      BY <1>1, DivideTiled
    <2>4. h.used = (h.used \ {s}) \cup {s}
      OBVIOUS
    <2> QED
      BY <1>1, <1>2, <2>1, <2>2, <2>3, <2>4 DEF Served
  <1>3. CASE ~(h.size[s] >= b)
    BY <1>3, MoveServed DEF Realloc
  <1> QED
    BY <1>2, <1>3

\* realloca() serves the owner of any segment.
LEMMA ReallocaServed ==
  ASSUME NEW h, HeapType(h), Tiled(h), NEW s \in h.used, NEW b \in Nat,
         NEW add \in Nat, NEW r \in Realloca(h, s, b, add),
         r.heap.misused = {}
  PROVE  Served(h, {s}, r, b)
  <1>1. CASE h.size[s] >= b
    <2>1. r.heap = h /\ r.seg = s
      BY <1>1 DEF Realloca
    <2>2. h.used = (h.used \ {s}) \cup {s} /\ h.used \subseteq Segs(h)
      BY HeapElim
    <2> QED
      BY <1>1, <2>1, <2>2 DEF Served
  <1>2. CASE ~(h.size[s] >= b)
    BY <1>2, MoveServed DEF Realloca
  <1> QED
    BY <1>1, <1>2

\* heap_init(): one free segment.
LEMMA InitialInOrder ==
  ASSUME NEW h, h = InitialHeap
  PROVE  HeapType(h) /\ Tiled(h) /\ h.used = {} /\ h.misused = {}
  <1>1. /\ h.next = [s \in {HeapStart} |-> 0]
        /\ h.size = [s \in {HeapStart} |-> InitialBlock]
        /\ h.used = {} /\ h.end = HeapStart
        /\ h.usedUntil = HeapStart /\ h.misused = {}
        /\ h = [next |-> h.next, size |-> h.size, used |-> h.used,
                end |-> h.end, usedUntil |-> h.usedUntil, misused |-> h.misused]
    BY DEF InitialHeap, Null
  <1>2. Segs(h) = {HeapStart}
    BY <1>1 DEF Segs
  <1>3. HeapType(h)
    BY <1>1, <1>2, HeapOpsAssumption DEF HeapType
  <1>4. Tiled(h)
    BY <1>1, <1>2, HeapOpsAssumption DEF Tiled, Null
  <1> QED
    BY <1>1, <1>3, <1>4

-----------------------------------------------------------------------------
(* What every call gets from the heap, also while a last segment is misused. *)

\* A divided segment keeps the bytes asked for.
LEMMA DivideRoom ==
  ASSUME NEW h, HeapType(h), NEW s \in Segs(h), NEW b \in Nat, h.size[s] >= b
  PROVE  Divide(h, s, b).size[s] >= b
  <1>1. CASE h.size[s] > b + HeaderSize + SplitSlack
    <2> DEFINE nw == s + HeaderSize + b
    <2>1. Divide(h, s, b).size
            = Write(Write(h.size, s, b), nw, h.size[s] - HeaderSize - b)
      BY <1>1 DEF Divide, HeapType
    <2>2. s \in Nat /\ s # nw
      BY HeapElim, HeapOpsAssumption
    <2>3. Write(Write(h.size, s, b), nw, h.size[s] - HeaderSize - b)[s] = b
      <3>1. s \in DOMAIN h.size
        BY HeapElim
      <3> HIDE DEF nw
      <3> QED
        BY <2>2, <3>1 DEF Write
    <2> QED
      BY <2>1, <2>3
  <1>2. CASE ~(h.size[s] > b + HeaderSize + SplitSlack)
    BY <1>2 DEF Divide
  <1> QED
    BY <1>1, <1>2

\* alloc() returns a segment of the size asked for.
LEMMA AllocRoom ==
  ASSUME NEW h, HeapType(h), NEW b \in Nat, NEW r \in Alloc(h, b)
  PROVE  r.heap.size[r.seg] >= b
  <1>1. CASE Fits(h, b) = {}
    <2>1. r.heap = Enlarge(h, b) /\ r.seg = r.heap.end
      BY <1>1 DEF Alloc
    <2>2. CASE h.end \notin h.used
      <3>1. /\ r.heap.size = Write(h.size, h.end, b) /\ r.heap.end = h.end
        BY <2>1, <2>2, ReuseEndFields DEF Enlarge
      <3> QED
        BY <2>1, <3>1 DEF Write
    <2>3. CASE h.end \in h.used
      <3>1. r.heap = Expand(h, b)
        BY <2>1, <2>3 DEF Enlarge
      <3>2. /\ r.heap.size = Write(h.size, SegEnd(h, h.end), b)
            /\ r.heap.end = SegEnd(h, h.end)
        BY <3>1, ExpandFields
      <3> QED
        BY <2>1, <3>2 DEF Write
    <2> QED
      BY <2>2, <2>3
  <1>2. CASE Fits(h, b) # {}
    <2>1. PICK s \in Lowest(Fits(h, b)) : r = [heap |-> Take(h, s, b), seg |-> s]
      BY <1>2 DEF Alloc
    <2>2. s \in Segs(h) /\ h.size[s] >= b
      BY <2>1 DEF Lowest, Fits
    <2>3. Take(h, s, b) = Divide(Mark(h, s), s, b)
      BY <2>2, TakeType
    <2>4. /\ HeapType(Mark(h, s)) /\ s \in Segs(Mark(h, s))
          /\ Mark(h, s).size[s] >= b
      BY <2>2, MarkFields
    <2>5. Divide(Mark(h, s), s, b).size[s] >= b
      BY <2>4, DivideRoom
    <2>6. r.heap = Take(h, s, b) /\ r.seg = s
      BY <2>1
    <2> QED
      BY <2>3, <2>5, <2>6
  <1> QED
    BY <1>1, <1>2

\* realloc() and realloca() move a block to a segment that is large enough.
LEMMA MoveRoom ==
  ASSUME NEW h, HeapType(h), NEW s \in Segs(h), NEW b \in Nat,
         NEW reserve \in Nat, NEW r \in Move(h, s, b, reserve)
  PROVE  r.heap.size[r.seg] >= b
  <1>1. CASE s = h.end
    <2>1. r.heap = GrowEnd(h, b) /\ r.seg = h.end
      BY <1>1 DEF Move
    <2>2. r.heap.size = Write(h.size, h.end, b)
      BY <2>1, GrowEndFields
    <2> QED
      BY <2>1, <2>2 DEF Write
  <1>2. CASE s # h.end
    <2>1. PICK q \in Alloc(h, b + reserve) :
            r = [heap |-> Abandon(q.heap, s), seg |-> q.seg]
      BY <1>2 DEF Move
    <2>2. /\ HeapType(q.heap) /\ q.seg \in Segs(q.heap)
          /\ q.heap.size[q.seg] >= b + reserve
      BY <2>1, AllocType, AllocRoom
    <2>3. q.heap.size[q.seg] \in Nat
      BY <2>2, HeapElim
    <2>4. Abandon(q.heap, s).size = q.heap.size
      BY <2>2, AbandonFields
    <2> QED
      BY <2>1, <2>2, <2>3, <2>4
  <1> QED
    BY <1>1, <1>2

\* A caller of the heap that gave up the segments `old' gets segment r.seg of
\* b bytes, and is served if the heap is in order before and after.
Obtained(h, old, r, b) ==
  /\ HeapType(r.heap) /\ Segs(h) \subseteq Segs(r.heap)
  /\ r.seg \in Segs(r.heap) /\ r.heap.size[r.seg] >= b
  /\ Tiled(h) /\ old \subseteq h.used /\ r.heap.misused = {} =>
       Served(h, old, r, b)

\* alloc()
LEMMA AllocObtains ==
  ASSUME NEW h, HeapType(h), NEW b \in Nat, NEW r \in Alloc(h, b)
  PROVE  Obtained(h, {}, r, b)
  <1>1. /\ HeapType(r.heap) /\ Segs(h) \subseteq Segs(r.heap)
        /\ r.seg \in Segs(r.heap)
    BY AllocType
  <1>2. r.heap.size[r.seg] >= b
    BY AllocRoom
  <1>3. Tiled(h) /\ r.heap.misused = {} => Served(h, {}, r, b)
    BY AllocServed
  <1> QED
    BY <1>1, <1>2, <1>3 DEF Obtained

\* realloc()
LEMMA ReallocObtains ==
  ASSUME NEW h, HeapType(h), NEW s \in Segs(h), NEW b \in Nat,
         NEW r \in Realloc(h, s, b)
  PROVE  Obtained(h, {s}, r, b)
  <1>1. /\ HeapType(r.heap) /\ Segs(h) \subseteq Segs(r.heap)
        /\ r.seg \in Segs(r.heap)
    BY ReallocType
  <1>2. r.heap.size[r.seg] >= b
    <2>1. CASE h.size[s] >= b
      <3>1. r.heap = Divide(h, s, b) /\ r.seg = s
        BY <2>1 DEF Realloc
      <3> QED
        BY <2>1, <3>1, DivideRoom
    <2>2. CASE ~(h.size[s] >= b)
      BY <2>2, MoveRoom DEF Realloc
    <2> QED
      BY <2>1, <2>2
  <1>3. Tiled(h) /\ s \in h.used /\ r.heap.misused = {} => Served(h, {s}, r, b)
    BY ReallocServed
  <1> QED
    BY <1>1, <1>2, <1>3 DEF Obtained

\* realloca()
LEMMA ReallocaObtains ==
  ASSUME NEW h, HeapType(h), NEW s \in Segs(h), NEW b \in Nat, NEW add \in Nat,
         NEW r \in Realloca(h, s, b, add)
  PROVE  Obtained(h, {s}, r, b)
  <1>1. /\ HeapType(r.heap) /\ Segs(h) \subseteq Segs(r.heap)
        /\ r.seg \in Segs(r.heap)
    BY ReallocaType
  <1>2. r.heap.size[r.seg] >= b
    <2>1. CASE h.size[s] >= b
      BY <2>1 DEF Realloca
    <2>2. CASE ~(h.size[s] >= b)
      BY <2>2, MoveRoom DEF Realloca
    <2> QED
      BY <2>1, <2>2
  <1>3. Tiled(h) /\ s \in h.used /\ r.heap.misused = {} => Served(h, {s}, r, b)
    BY ReallocaServed
  <1> QED
    BY <1>1, <1>2, <1>3 DEF Obtained

-----------------------------------------------------------------------------
(* Arithmetic.                                                              *)

\* The quotient and the remainder of a division by a.
LEMMA DivMod ==
  ASSUME NEW x \in Int, NEW a \in Nat \ {0}
  PROVE  /\ x = (a * (x \div a)) + (x % a)
         /\ x \div a \in Int /\ x % a \in Nat /\ x % a < a
  OBVIOUS

-----------------------------------------------------------------------------
(* How many headers there are: a call adds one at most.                     *)

\* One header more is still a finite number of them.
LEMMA OneMore ==
  ASSUME NEW D, IsFiniteSet(D), NEW x, NEW T, T \subseteq D \cup {x}
  PROVE  IsFiniteSet(T)
  BY FS_AddElement, FS_Subset

\* heap_divide() writes one header.
LEMMA DivideFinite ==
  ASSUME NEW h, HeapType(h), IsFiniteSet(Segs(h)), NEW s \in Segs(h),
         NEW b \in Nat
  PROVE  IsFiniteSet(Segs(Divide(h, s, b)))
  <1>1. CASE h.size[s] > b + HeaderSize + SplitSlack
    <2>1. Segs(Divide(h, s, b)) = Segs(h) \cup {s + HeaderSize + b}
      BY <1>1, DivideFields
    <2> QED
      BY <2>1, OneMore
  <1>2. CASE ~(h.size[s] > b + HeaderSize + SplitSlack)
    BY <1>2 DEF Divide
  <1> QED
    BY <1>1, <1>2

\* heap_enlarge() writes one header.
LEMMA EnlargeFinite ==
  ASSUME NEW h, HeapType(h), IsFiniteSet(Segs(h)), NEW b \in Nat
  PROVE  IsFiniteSet(Segs(Enlarge(h, b)))
  <1>1. CASE h.end \notin h.used
    <2>1. Enlarge(h, b) = ReuseEnd(h, b)
      BY <1>1 DEF Enlarge
    <2>2. Segs(ReuseEnd(h, b)) = Segs(h)
      BY ReuseEndFields
    <2> QED
      BY <2>1, <2>2
  <1>2. CASE h.end \in h.used
    <2>1. Enlarge(h, b) = Expand(h, b)
      BY <1>2 DEF Enlarge
    <2>2. Segs(Expand(h, b)) = Segs(h) \cup {SegEnd(h, h.end)}
      BY ExpandFields
    <2> QED
      BY <2>1, <2>2, OneMore
  <1> QED
    BY <1>1, <1>2

\* alloc() writes one header at most.
LEMMA AllocFinite ==
  ASSUME NEW h, HeapType(h), IsFiniteSet(Segs(h)), NEW b \in Nat,
         NEW r \in Alloc(h, b)
  PROVE  IsFiniteSet(Segs(r.heap))
  <1>1. CASE Fits(h, b) = {}
    <2>1. r.heap = Enlarge(h, b)
      BY <1>1 DEF Alloc
    <2> QED
      BY <2>1, EnlargeFinite
  <1>2. CASE Fits(h, b) # {}
    <2>1. PICK s \in Fits(h, b) : r = [heap |-> Take(h, s, b), seg |-> s]
      BY <1>2 DEF Alloc, Lowest
    <2>2. s \in Segs(h)
      BY DEF Fits
    <2>3. HeapType(Mark(h, s)) /\ Segs(Mark(h, s)) = Segs(h)
      BY <2>2, MarkFields
    <2>4. Take(h, s, b) = Divide(Mark(h, s), s, b)
      BY <2>2, TakeType
    <2>5. r.heap = Divide(Mark(h, s), s, b)
      BY <2>1, <2>4
    <2> QED
      BY <2>2, <2>3, <2>5, DivideFinite
  <1> QED
    BY <1>1, <1>2

\* So do realloc() and realloca() for a segment that is too small.
LEMMA MoveFinite ==
  ASSUME NEW h, HeapType(h), IsFiniteSet(Segs(h)), NEW s \in Segs(h),
         NEW b \in Nat, NEW reserve \in Nat, NEW r \in Move(h, s, b, reserve)
  PROVE  IsFiniteSet(Segs(r.heap))
  <1>1. CASE s = h.end
    <2>1. r.heap = GrowEnd(h, b)
      BY <1>1 DEF Move
    <2>2. Segs(GrowEnd(h, b)) = Segs(h)
      BY GrowEndFields
    <2> QED
      BY <2>1, <2>2
  <1>2. CASE s # h.end
    <2>1. PICK q \in Alloc(h, b + reserve) :
            r = [heap |-> Abandon(q.heap, s), seg |-> q.seg]
      BY <1>2 DEF Move
    <2>2. b + reserve \in Nat
      OBVIOUS
    <2>3. HeapType(q.heap)
      BY <2>2, AllocType
    <2>4. IsFiniteSet(Segs(q.heap))
      BY <2>2, AllocFinite
    <2>5. Segs(Abandon(q.heap, s)) = Segs(q.heap)
      BY <2>3, AbandonFields
    <2> QED
      BY <2>1, <2>4, <2>5
  <1> QED
    BY <1>1, <1>2

\* realloc() writes one header at most.
LEMMA ReallocFinite ==
  ASSUME NEW h, HeapType(h), IsFiniteSet(Segs(h)), NEW s \in Segs(h),
         NEW b \in Nat, NEW r \in Realloc(h, s, b)
  PROVE  IsFiniteSet(Segs(r.heap))
  <1>1. CASE h.size[s] >= b
    <2>1. r.heap = Divide(h, s, b)
      BY <1>1 DEF Realloc
    <2> QED
      BY <2>1, DivideFinite
  <1>2. CASE ~(h.size[s] >= b)
    BY <1>2, MoveFinite DEF Realloc
  <1> QED
    BY <1>1, <1>2

\* realloca() writes one header at most.
LEMMA ReallocaFinite ==
  ASSUME NEW h, HeapType(h), IsFiniteSet(Segs(h)), NEW s \in Segs(h),
         NEW b \in Nat, NEW add \in Nat, NEW r \in Realloca(h, s, b, add)
  PROVE  IsFiniteSet(Segs(r.heap))
  <1>1. CASE h.size[s] >= b
    BY <1>1 DEF Realloca
  <1>2. CASE ~(h.size[s] >= b)
    BY <1>2, MoveFinite DEF Realloca
  <1> QED
    BY <1>1, <1>2

-----------------------------------------------------------------------------
(* The walk along `next'.                                                   *)

\* Every set of natural numbers with an element has a least one.
LEMMA LeastNat ==
  ASSUME NEW T, T \subseteq Nat, T # {}
  PROVE  \E s \in T : \A t \in T : s <= t
  <1> DEFINE R == OpToRel(<, Nat)
  <1>1. IsWellFoundedOn(R, Nat)
    BY ONLY NatLessThanWellFounded, Zenon
  <1>2. \A x, y \in Nat : y < x => <<y, x>> \in R
    BY Zenon DEF OpToRel
  <1> HIDE DEF R
  <1>3. PICK x \in T : \A y \in T : <<y, x>> \notin R
    BY <1>1, WFMin
  <1>4. ASSUME NEW y \in T PROVE x <= y
    <2>1. ~(y < x)
      BY <1>2, <1>3
    <2> QED
      BY <2>1
  <1> QED
    BY <1>4

\* The header behind x, as the loops of heap.c go on.
Following(h, x) == IF x = Null THEN Null ELSE h.next[x]

\* g holds the first n + 1 headers of a walk from a.
Steps(h, a, n, g) ==
  /\ g[0] = a
  /\ \A k \in 1 .. n : g[k] = Following(h, g[k - 1])

\* There are walks of every length.
LEMMA StepsExist ==
  ASSUME NEW h, NEW a, NEW n \in Nat
  PROVE  \E g : Steps(h, a, n, g)
  <1> DEFINE T == {m \in Nat : ~\E g : Steps(h, a, m, g)}
  <1> SUFFICES ASSUME T # {} PROVE FALSE
    OBVIOUS
  <1>1. PICK m \in T : \A t \in T : m <= t
    <2> HIDE DEF T
    <2>1. T \subseteq Nat
      BY DEF T
    <2> QED
      BY <2>1, LeastNat
  <1>2. CASE m = 0
    <2>1. Steps(h, a, 0, [k \in {0} |-> a])
      BY DEF Steps
    <2> QED
      BY <1>1, <1>2, <2>1
  <1>3. CASE m # 0
    <2>1. m - 1 \in Nat /\ ~(m <= m - 1) /\ m \in Nat
      BY <1>1, <1>3
    <2>2. PICK g : Steps(h, a, m - 1, g)
      BY <1>1, <2>1
    <2> DEFINE f == [k \in 0 .. m |-> IF k = m THEN Following(h, g[m - 1]) ELSE g[k]]
    <2>3. f[0] = a
      BY <1>3, <2>1, <2>2 DEF Steps
    <2>4. ASSUME NEW k \in 1 .. m PROVE f[k] = Following(h, f[k - 1])
      <3>1. k - 1 \in 0 .. m /\ k \in 0 .. m /\ k - 1 # m
        BY <2>1
      <3>2. f[k - 1] = g[k - 1]
        BY <3>1
      <3>3. CASE k = m
        BY <3>1, <3>2, <3>3
      <3>4. CASE k # m
        <4>1. k \in 1 .. m - 1
          BY <2>1, <3>4
        <4>2. f[k] = g[k]
          BY <3>1, <3>4
        <4> QED
          BY <2>2, <3>2, <4>1, <4>2 DEF Steps
      <3> QED
        BY <3>3, <3>4
    <2> HIDE DEF f
    <2>5. Steps(h, a, m, f)
      BY <2>3, <2>4 DEF Steps
    <2> QED
      BY <1>1, <2>5
  <1> QED
    BY <1>2, <1>3

\* Two walks from one header go the same way.
LEMMA StepsAgree ==
  ASSUME NEW h, NEW a, NEW n \in Nat, NEW m \in Nat, NEW f, NEW g,
         Steps(h, a, n, f), Steps(h, a, m, g), NEW k \in Nat, k <= n, k <= m
  PROVE  f[k] = g[k]
  <1> DEFINE T == {i \in Nat : i <= n /\ i <= m /\ f[i] # g[i]}
  <1> SUFFICES ASSUME T # {} PROVE FALSE
    OBVIOUS
  <1>1. PICK i \in T : \A t \in T : i <= t
    <2> HIDE DEF T
    <2>1. T \subseteq Nat
      BY DEF T
    <2> QED
      BY <2>1, LeastNat
  <1>2. i \in Nat /\ i <= n /\ i <= m /\ f[i] # g[i]
    BY <1>1
  <1>3. i # 0
    BY <1>2 DEF Steps
  <1>4. i - 1 \in Nat /\ i - 1 <= n /\ i - 1 <= m /\ ~(i <= i - 1)
        /\ i \in 1 .. n /\ i \in 1 .. m
    BY <1>2, <1>3
  <1>5. f[i - 1] = g[i - 1]
    BY <1>1, <1>4
  <1> QED
    BY <1>2, <1>4, <1>5 DEF Steps

\* The recursive definition in Walk: the headers by their place in the walk.
LEMMA WalkIs ==
  ASSUME NEW h, NEW a
  PROVE  \E at : /\ \A n \in Nat : Steps(h, a, n, at)
                 /\ Walk(h, a) = {at[k] : k \in 0 .. Cardinality(Segs(h))} \cap Segs(h)
  <1> DEFINE G(n) == CHOOSE g : Steps(h, a, n, g)
             f == [n \in Nat |-> G(n)[n]]
             Eq(e) == e = [k \in Nat |-> IF k = 0 THEN a
                                         ELSE IF e[k - 1] = Null THEN Null
                                         ELSE h.next[e[k - 1]]]
             at == CHOOSE e : Eq(e)
  <1>1. \A n \in Nat : Steps(h, a, n, G(n))
    <2> TAKE n \in Nat
    <2>1. \E g : Steps(h, a, n, g)
      BY StepsExist
    <2> QED
      BY <2>1
  <1>2. ASSUME NEW k \in Nat
        PROVE  f[k] = IF k = 0 THEN a
                      ELSE IF f[k - 1] = Null THEN Null ELSE h.next[f[k - 1]]
    <2> HIDE DEF G
    <2>1. f[k] = G(k)[k] /\ Steps(h, a, k, G(k))
      BY <1>1
    <2>2. CASE k = 0
      BY <2>1, <2>2 DEF Steps
    <2>3. CASE k # 0
      <3>1. k - 1 \in Nat /\ k - 1 <= k /\ k - 1 <= k - 1 /\ k \in 1 .. k
        BY <2>3
      <3>2. f[k - 1] = G(k - 1)[k - 1] /\ Steps(h, a, k - 1, G(k - 1))
        BY <1>1, <3>1
      <3>3. G(k)[k - 1] = G(k - 1)[k - 1]
        <4> DEFINE x == G(k)
                   y == G(k - 1)
                   j == k - 1
        <4>1. Steps(h, a, k, x) /\ Steps(h, a, j, y) /\ j \in Nat /\ j <= k /\ j <= j
          BY <2>1, <3>1, <3>2
        <4> HIDE DEF x, y, j
        <4>2. x[j] = y[j]
          BY <4>1, StepsAgree
        <4> QED
          BY <4>2 DEF x, y, j
      <3>4. f[k] = Following(h, f[k - 1])
        BY <2>1, <3>1, <3>2, <3>3 DEF Steps
      <3> QED
        BY <2>3, <3>4 DEF Following
    <2> QED
      BY <2>2, <2>3
  <1> HIDE DEF G
  <1>3. Eq(f)
    <2>1. f = [k \in Nat |-> f[k]]
      OBVIOUS
    <2> HIDE DEF f
    <2>2. [k \in Nat |-> f[k]] = [k \in Nat |-> IF k = 0 THEN a
                                         ELSE IF f[k - 1] = Null THEN Null
                                         ELSE h.next[f[k - 1]]]
      BY <1>2
    <2> QED
      BY <2>1, <2>2
  <1>4. Eq(at)
    <2> HIDE DEF f, Eq
    <2> QED
      BY <1>3
  <1>5. Walk(h, a) = {at[k] : k \in 0 .. Cardinality(Segs(h))} \cap Segs(h)
    BY DEF Walk
  <1> HIDE DEF at, f
  <1>6. ASSUME NEW n \in Nat PROVE Steps(h, a, n, at)
    <2>1. \A k \in Nat : at[k] = IF k = 0 THEN a
                                 ELSE IF at[k - 1] = Null THEN Null
                                 ELSE h.next[at[k - 1]]
      BY <1>4
    <2>2. at[0] = a
      BY <2>1
    <2>3. ASSUME NEW k \in 1 .. n PROVE at[k] = Following(h, at[k - 1])
      <3>1. k \in Nat /\ k # 0
        OBVIOUS
      <3> QED
        BY <2>1, <3>1 DEF Following
    <2> QED
      BY <2>2, <2>3 DEF Steps
  <1> QED
    BY <1>5, <1>6

\* In a heap whose segments tile it, a walk visits every segment from its
\* start on.
LEMMA WalkReaches ==
  ASSUME NEW h, HeapType(h), Tiled(h), IsFiniteSet(Segs(h)),
         NEW a \in Segs(h), NEW s \in Segs(h), a <= s
  PROVE  s \in Walk(h, a)
  <1>1. PICK at : /\ \A n \in Nat : Steps(h, a, n, at)
                  /\ Walk(h, a) = {at[k] : k \in 0 .. Cardinality(Segs(h))} \cap Segs(h)
    BY WalkIs
  <1>2. /\ Segs(h) \subseteq Nat \ {0} /\ h.next \in [Segs(h) -> Nat]
        /\ h.size \in [Segs(h) -> Nat] /\ HeaderSize \in Nat \ {0}
    BY HeapElim, HeapOpsAssumption
  <1>3. at[0] = a /\ \A k \in Nat \ {0} : at[k] = Following(h, at[k - 1])
    <2>1. at[0] = a
      <3>1. Steps(h, a, 0, at)
        BY <1>1
      <3> QED
        BY <3>1 DEF Steps
    <2>2. ASSUME NEW k \in Nat \ {0} PROVE at[k] = Following(h, at[k - 1])
      <3>1. Steps(h, a, k, at) /\ k \in 1 .. k
        BY <1>1
      <3> QED
        BY <3>1 DEF Steps
    <2> QED
      BY <2>1, <2>2
  \* While it has not reached s, a walk goes on below it, and climbs.
  <1>4. ASSUME NEW m \in Nat, \A k \in 0 .. m - 1 : at[k] # s
        PROVE  \A k \in 0 .. m : /\ at[k] \in Segs(h) /\ at[k] <= s
                                 /\ at[k] >= a + k
                                 /\ \A j \in 0 .. k - 1 : at[j] < at[k]
    <2> DEFINE Good(k) == /\ at[k] \in Segs(h) /\ at[k] <= s
                          /\ at[k] >= a + k
                          /\ \A j \in 0 .. k - 1 : at[j] < at[k]
               T == {k \in Nat : k <= m /\ ~Good(k)}
    <2> SUFFICES ASSUME T # {} PROVE FALSE
      OBVIOUS
    <2>1. PICK k \in T : \A t \in T : k <= t
      <3> HIDE DEF T
      <3>1. T \subseteq Nat
        BY DEF T
      <3> QED
        BY <3>1, LeastNat
    <2>2. k \in Nat /\ k <= m /\ ~Good(k)
      BY <2>1
    <2>3. k # 0
      <3>1. Good(0)
        BY <1>2, <1>3
      <3> QED
        BY <2>2, <3>1
    <2>4. k - 1 \in Nat /\ k - 1 <= m /\ ~(k <= k - 1) /\ k - 1 \in 0 .. m - 1
          /\ k \in Nat \ {0}
      BY <2>2, <2>3
    <2>5. Good(k - 1)
      BY <2>1, <2>4
    <2> DEFINE x == at[k - 1]
    <2>6. /\ x \in Segs(h) /\ x <= s /\ x # s /\ x >= a + (k - 1)
          /\ x \in Nat /\ s \in Nat /\ a \in Nat /\ x # 0
          /\ \A j \in 0 .. k - 1 - 1 : at[j] < x
      BY <1>2, <1>4, <2>4, <2>5
    <2>7. at[k] = h.next[x]
      BY <1>3, <2>4, <2>6 DEF Following, Null
    <2> HIDE DEF x
    <2>8. h.next[x] # Null
      BY <2>6 DEF Tiled
    <2>9. at[k] \in Segs(h) /\ at[k] = SegEnd(h, x) /\ at[k] <= s /\ at[k] \in Nat
      <3>1. h.next[x] \in Segs(h) /\ h.next[x] = SegEnd(h, x)
        BY <2>6, <2>8 DEF Tiled
      <3>2. x < s
        BY <2>6
      <3>3. SegEnd(h, x) <= s
        BY <2>6, <3>2 DEF Tiled
      <3> QED
        BY <1>2, <2>7, <3>1, <3>3
    <2>10. at[k] > x /\ at[k] >= x + 1
      <3>1. h.size[x] \in Nat
        BY <1>2, <2>6
      <3>2. at[k] = x + HeaderSize + h.size[x]
        BY <2>9 DEF SegEnd
      <3> QED
        BY <1>2, <2>6, <3>1, <3>2
    <2>11. at[k] >= a + k
      BY <2>2, <2>6, <2>9, <2>10
    <2>12. ASSUME NEW j \in 0 .. k - 1 PROVE at[j] < at[k]
      <3>1. CASE j = k - 1
        BY <2>10, <3>1 DEF x
      <3>2. CASE j # k - 1
        <4>1. j \in 0 .. k - 1 - 1
          BY <2>4, <3>2
        <4>2. at[j] < x
          BY <2>6, <4>1
        <4>3. at[j] \in Nat
          <5>1. j \in Nat /\ j <= m /\ ~(k <= j)
            BY <2>2, <4>1
          <5>2. Good(j)
            BY <2>1, <5>1
          <5> QED
            BY <1>2, <5>2
        <4> QED
          BY <2>6, <2>9, <2>10, <4>2, <4>3
      <3> QED
        BY <3>1, <3>2
    <2> QED
      BY <2>2, <2>9, <2>11, <2>12
  <1> DEFINE R == {k \in Nat : at[k] = s}
  <1>5. R # {}
    <2> SUFFICES ASSUME R = {} PROVE FALSE
      OBVIOUS
    <2>1. s \in Nat /\ a \in Nat /\ a # 0
      BY <1>2
    <2>2. \A k \in 0 .. s - 1 : at[k] # s
      BY <2>1
    <2>3. at[s] <= s /\ at[s] >= a + s /\ at[s] \in Nat
      <3>1. s \in 0 .. s
        BY <2>1
      <3>2. at[s] <= s /\ at[s] >= a + s /\ at[s] \in Segs(h)
        BY <1>4, <2>1, <2>2, <3>1
      <3> QED
        BY <1>2, <3>2
    <2> QED
      BY <2>1, <2>3
  <1>6. PICK n \in R : \A t \in R : n <= t
    <2> HIDE DEF R
    <2>1. R \subseteq Nat
      BY DEF R
    <2> QED
      BY <1>5, <2>1, LeastNat
  <1>7. n \in Nat /\ at[n] = s /\ \A k \in 0 .. n - 1 : at[k] # s
    <2>1. n \in Nat /\ at[n] = s
      BY <1>6
    <2>2. ASSUME NEW k \in 0 .. n - 1 PROVE at[k] # s
      <3>1. k \in Nat /\ ~(n <= k)
        BY <2>1
      <3> QED
        BY <1>6, <3>1
    <2> QED
      BY <2>1, <2>2
  <1>8. \A k \in 0 .. n : at[k] \in Segs(h) /\ \A j \in 0 .. k - 1 : at[j] < at[k]
    BY <1>4, <1>7
  <1>9. n + 1 <= Cardinality(Segs(h)) /\ Cardinality(Segs(h)) \in Nat
    <2> DEFINE g == [k \in 0 .. n |-> at[k]]
    <2>1. g \in [0 .. n -> Segs(h)]
      BY <1>8
    <2>2. ASSUME NEW j \in 0 .. n, NEW k \in 0 .. n, j < k PROVE at[j] # at[k]
      <3>1. j \in 0 .. k - 1
        BY <1>7, <2>2
      <3>2. at[j] < at[k] /\ at[j] \in Nat /\ at[k] \in Nat
        BY <1>2, <1>8, <3>1
      <3> QED
        BY <3>2
    <2>3. \A j, k \in 0 .. n : g[j] = g[k] => j = k
      <3> SUFFICES ASSUME NEW j \in 0 .. n, NEW k \in 0 .. n, j # k
                   PROVE  at[j] # at[k]
        OBVIOUS
      <3>1. j < k \/ k < j
        BY <1>7
      <3> QED
        BY <2>2, <3>1
    <2>4. g \in Injection(0 .. n, Segs(h))
      <3> HIDE DEF g
      <3> QED
        BY <2>1, <2>3 DEF Injection, IsInjective
    <2>5. Cardinality(0 .. n) <= Cardinality(Segs(h))
      BY <2>4, FS_Injection
    <2>6. Cardinality(0 .. n) = n + 1
      <3>1. 0 \in Int /\ n \in Int /\ ~(0 > n) /\ n - 0 + 1 = n + 1
        BY <1>7
      <3>2. Cardinality(0 .. n) = IF 0 > n THEN 0 ELSE n - 0 + 1
        BY <3>1, FS_Interval
      <3> QED
        BY <3>1, <3>2
    <2>7. Cardinality(Segs(h)) \in Nat
      BY FS_CardinalityType
    <2> QED
      BY <2>5, <2>6, <2>7
  <1>10. n \in 0 .. Cardinality(Segs(h))
    BY <1>7, <1>9
  <1> QED
    BY <1>1, <1>7, <1>10
=============================================================================
