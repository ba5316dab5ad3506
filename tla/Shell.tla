-------------------------------- MODULE Shell --------------------------------
(***************************************************************************)
(* The shell of lib/builtin-shell.h: its line editor with completion, the  *)
(* tokenizer of lib/src/string.c and the commands, over the kernel heap.   *)
(* Keys arrive as keyboard_char() delivers them (see Keyboard).            *)
(*                                                                         *)
(* The line and the vector of tokens are blocks of the heap.  str_clear()  *)
(* frees the line's block and keeps the pointer, and the next line is      *)
(* typed into that block: the heap may hand it out while the line is read. *)
(***************************************************************************)
EXTENDS StringOps, Sequences, SequencesExt

CONSTANTS Chars,         \* the characters a key can deliver
          Lines,         \* bound: the lines the user is about to type
          Cmds,          \* cmds, the words completion knows
          HasDevices,    \* devices.len is not zero
          TimeParts,     \* what format_time() appends: the digits of a number,
                         \* or 0 for one character of the format
          Foreign,       \* bytes of the block the kernel owns before
          ElementSize,   \* sizeof(string)
          ReallocAdd,    \* VECTOR_REALLOC_ADD
          Start,         \* columns of the prompt
          Width,         \* columns of the screen
          MaxCommands    \* bound: the lines executed

ASSUME ShellAssumption ==
  /\ HasDevices \in BOOLEAN
  /\ Lines \subseteq Seq(Chars) /\ Cmds \in Seq(Seq(Chars))
  /\ TimeParts \in Seq(Nat)
  /\ Foreign \in Nat
  /\ ElementSize \in Nat \ {0}
  /\ StringReallocAdd \in Nat /\ ReallocAdd \in Nat
  /\ Width \in Nat /\ Start \in 1 .. Width - 2
  /\ MaxCommands \in Nat

VARIABLES heap,
          input,     \* the string `input': pointer and size
          line,      \* the characters of input
          start, column,   \* of the line editor and of the cursor
          spaced,    \* wrd: the line has, or had, a second word
          offer,     \* completion: the characters Tab would append
          tokens,    \* the vector: data, len, capacity
          elems,     \* its strings: pointer and characters
          scan,      \* str_tokenize(): index, tstart, tlen
          ret,       \* format_time(): the string it returns
          parts,     \* format_time(): how much it has appended
          pc,
          spoiled,   \* history: unread characters of the line are lost
          left,      \* history: blocks of tokens never destructed
          owned,     \* history: the line that is read had a block in use
          ran        \* the number of lines executed

editor == <<start, column, spaced, offer>>
time == <<ret, parts>>
vars == <<heap, input, line, editor, tokens, elems, scan, time, pc, spoiled, left, owned, ran>>

NoVector == [data |-> Null, len |-> 0, capacity |-> 0]
NoOffer == <<"none">>
Blanks == {" ", "\t", "\n"}

KernelHeap == CHOOSE r \in Alloc(InitialHeap, Foreign) : TRUE

Init == /\ heap = KernelHeap.heap
        /\ input = Unset
        /\ line = <<>>
        /\ start = Start /\ column = Start
        /\ spaced = FALSE
        /\ offer = NoOffer
        /\ tokens = NoVector
        /\ elems = <<>>
        /\ scan = [at |-> 1, start |-> 0, len |-> 0]
        /\ ret = Unset /\ parts = 0
        /\ pc = "getline"
        /\ spoiled = FALSE
        /\ left = {} /\ owned = FALSE
        /\ ran = 0

\* The heap is no longer a list of the blocks handed out, or the line is not
\* what was typed: what follows depends on what was written where.
Broken == heap.misused # {} \/ spoiled

-----------------------------------------------------------------------------
(* The line editor.                                                         *)

\* The branch `if (updated)' after a key: the completion for the line l with
\* the cursor at column c.  `sp' is wrd, which is never set back.
Completion(l, c, sp) ==
  LET matches == {i \in DOMAIN Cmds : IsPrefix(l, Cmds[i])}
      first == CHOOSE i \in matches : \A k \in matches : i <= k
  IN IF c <= start \/ sp \/ matches = {} THEN NoOffer
     ELSE SubSeq(Cmds[first], Len(l) + 1, Len(Cmds[first]))

\* A space at the very beginning of the line is not looked at.
SecondWord(l) == \E i \in 2 .. Len(l) : l[i] = " "

Updated(l, c) ==
  LET sp == spaced \/ (c > start /\ SecondWord(l))
  IN /\ spaced' = sp
     /\ offer' = Completion(l, c, sp)

BeginLine(s) == start' = s /\ column' = s /\ spaced' = FALSE /\ offer' = NoOffer

\* After the editor: a line without data is read again, on a line of its own
\* and without a prompt; any other is terminated and handed to str_tokenize().
Submit(h, str, l) ==
  /\ ran < MaxCommands
  /\ \E r \in StrPushc(h, str) :
       /\ heap' = r.heap
       /\ input' = r.str
       /\ owned' = (Block(r.str.data) \in r.heap.used)
  /\ line' = l
  /\ tokens' = NoVector
  /\ elems' = <<>>
  /\ scan' = [at |-> 1, start |-> 0, len |-> 0]
  /\ pc' = "tokenize"
  /\ ran' = ran + 1
  /\ UNCHANGED <<time, spoiled, left>>

\* A character: the one that would reach the right edge ends the line.
Type(c) ==
  LET l == Append(line, c)
      full == column + 1 >= Width
  IN /\ pc = "getline"
     /\ \E goal \in Lines : IsPrefix(l, goal)
     /\ \E r \in StrPushc(heap, input) :
          IF full
          THEN /\ Submit(r.heap, r.str, l)
               /\ BeginLine(column)
          ELSE /\ heap' = r.heap
               /\ input' = r.str
               /\ line' = l
               /\ column' = column + 1
               /\ Updated(l, column + 1)
               /\ UNCHANGED <<start, tokens, elems, scan, time, pc, spoiled, left, owned, ran>>

\* Mutant of Backspace: the character goes from the screen only.
BackspaceScreen ==
  /\ pc = "getline" /\ column > start
  /\ column' = column - 1
  /\ Updated(line, column - 1)
  /\ UNCHANGED <<heap, input, line, start, tokens, elems, scan, time, pc, spoiled, left, owned, ran>>

Backspace ==
  LET r == StrPop(heap, input, 1)
      l == SubSeq(line, 1, Len(line) - 1)
  IN /\ pc = "getline" /\ column > start
     /\ heap' = r.heap
     /\ input' = r.str
     /\ line' = l
     /\ column' = column - 1
     /\ Updated(l, column - 1)
     /\ UNCHANGED <<start, tokens, elems, scan, time, pc, spoiled, left, owned, ran>>

\* Tab: print() of the completion goes on in the next line of the screen.
Tab ==
  LET l == line \o offer
      c == (column + Len(offer)) % Width
  IN /\ pc = "getline" /\ offer # NoOffer
     /\ \E r \in StrPush(heap, input, Len(offer)) :
          heap' = r.heap /\ input' = r.str
     /\ line' = l
     /\ column' = c
     /\ Updated(l, c)
     /\ UNCHANGED <<start, tokens, elems, scan, time, pc, spoiled, left, owned, ran>>

Enter ==
  /\ pc = "getline"
  /\ BeginLine(0)
  /\ IF input.data = Null
     THEN UNCHANGED <<heap, input, line, tokens, elems, scan, time, pc, spoiled, left, owned, ran>>
     ELSE Submit(heap, input, line)

-----------------------------------------------------------------------------
(* str_tokenize().                                                          *)

Overlap(r, q) == r[1] < q[2] /\ q[1] < r[2]

\* Going from heap g to h and writing the given ranges destroys bytes of the
\* line from index `from' on, its terminator included.
Spoils(g, h, ranges, from) ==
  /\ from < input.size
  /\ \E r \in ranges \cup {<<s, s + HeaderSize>> : s \in Segs(h) \ Segs(g)} :
       Overlap(r, <<input.data + from, input.data + input.size>>)

\* Mutant of PushElement: the vector is resized to its old length.
PushElementShort(h) ==
  LET len == tokens.len + 1
      On(r) == [heap |-> r.heap,
                vec |-> [data |-> r.seg + HeaderSize, len |-> len,
                         capacity |-> r.heap.size[r.seg] \div ElementSize]]
  IN IF tokens.data = Null THEN {On(r) : r \in Alloc(h, ElementSize)}
     ELSE {On(r) : r \in Realloca(h, Block(tokens.data), tokens.len * ElementSize, ReallocAdd)}

\* strvec_push() of one element: the vector on top of heap h.
PushElement(h) ==
  LET len == tokens.len + 1
      On(r) == [heap |-> r.heap,
                vec |-> [data |-> r.seg + HeaderSize, len |-> len,
                         capacity |-> r.heap.size[r.seg] \div ElementSize]]
  IN IF tokens.data = Null THEN {On(r) : r \in Alloc(h, ElementSize)}
     ELSE IF len <= tokens.capacity
     THEN {[heap |-> h, vec |-> [tokens EXCEPT !.len = len]]}
     ELSE {On(r) : r \in Realloca(h, Block(tokens.data), len * ElementSize, ReallocAdd)}

\* The bytes push and construction write: all of a vector that moved.
Written(v) ==
  <<v.data + (IF v.data = tokens.data THEN ElementSize * (v.len - 1) ELSE 0),
    v.data + ElementSize * v.len>>

\* A token is complete: it is copied, the copy is pushed and taken over.
PushToken ==
  \E t \in StrSet(heap, Unset, scan.len) :
    \E v \in PushElement(t.heap) :
      /\ heap' = v.heap
      /\ tokens' = v.vec
      /\ elems' = Append(elems,
           [data |-> t.str.data,
            text |-> SubSeq(line, scan.start, scan.start + scan.len - 1)])
      /\ spoiled' = \/ Spoils(heap, t.heap, {}, scan.start - 1)
                    \/ Spoils(t.heap, v.heap, {t.wrote, Written(v.vec)}, scan.at)

\* Mutant of Scan: the start of a token is not set back behind it.
ScanKeepsStart ==
  /\ pc = "tokenize" /\ scan.at <= Len(line)
  /\ IF line[scan.at] \notin Blanks
     THEN /\ scan' = [at |-> scan.at + 1, len |-> scan.len + 1,
                      start |-> IF scan.start = 0 THEN scan.at ELSE scan.start]
          /\ UNCHANGED <<heap, tokens, elems, spoiled>>
     ELSE /\ scan' = [at |-> scan.at + 1, start |-> scan.start, len |-> 0]
          /\ IF scan.len > 0 THEN PushToken
             ELSE UNCHANGED <<heap, tokens, elems, spoiled>>
  /\ UNCHANGED <<input, line, editor, time, pc, left, owned, ran>>

\* One character of the line.
Scan ==
  /\ pc = "tokenize" /\ scan.at <= Len(line)
  /\ IF line[scan.at] \notin Blanks
     THEN /\ scan' = [at |-> scan.at + 1, len |-> scan.len + 1,
                      start |-> IF scan.start = 0 THEN scan.at ELSE scan.start]
          /\ UNCHANGED <<heap, tokens, elems, spoiled>>
     ELSE /\ scan' = [at |-> scan.at + 1, start |-> 0, len |-> 0]
          /\ IF scan.len > 0 THEN PushToken
             ELSE UNCHANGED <<heap, tokens, elems, spoiled>>
  /\ UNCHANGED <<input, line, editor, time, pc, left, owned, ran>>

\* The end of the line: the last word, and the shell clears the line.
LastToken ==
  /\ pc = "tokenize" /\ scan.at > Len(line) /\ scan.len > 0
  /\ PushToken
  /\ scan' = [scan EXCEPT !.len = 0]
  /\ UNCHANGED <<input, line, editor, time, pc, left, owned, ran>>

\* The shell clears the line and looks at the first token; for a line of
\* blanks that is an element of a vector without data.
Tokenized ==
  /\ pc = "tokenize" /\ scan.at > Len(line) /\ scan.len = 0
  /\ heap' = StrClear(heap, input).heap
  /\ input' = StrClear(heap, input).str
  /\ pc' = IF tokens.data = Null THEN "fault" ELSE "execute"
  /\ UNCHANGED <<line, editor, tokens, elems, scan, time, spoiled, left, owned, ran>>

-----------------------------------------------------------------------------
(* The commands.                                                            *)

Word(i) == elems[i].text

TimeWord == <<"t", "i", "m", "e">>
EchoWord == <<"e", "c", "h", "o">>
ExitWord == <<"e", "x", "i", "t">>
DevicesWord == <<"d", "e", "v", "i", "c", "e", "s">>
MicrofetchWord == <<"m", "i", "c", "r", "o", "f", "e", "t", "c", "h">>

\* The commands that show the time.
TimeWords == {TimeWord, MicrofetchWord}

\* format_time(): one str_push() of a number, or one str_pushc().
FormatTime ==
  LET n == TimeParts[parts + 1]
  IN /\ pc = "execute" /\ Word(1) \in TimeWords /\ parts < Len(TimeParts)
     /\ \E r \in IF n = 0 THEN StrPushc(heap, ret) ELSE StrPush(heap, ret, n) :
          heap' = r.heap /\ ret' = r.str
     /\ parts' = parts + 1
     /\ UNCHANGED <<input, line, editor, tokens, elems, scan, pc, spoiled, left, owned, ran>>

\* The string format_time() returned is shown and freed.
Shown == IF ret.data = Null THEN heap ELSE Free(heap, Block(ret.data))

\* Mutant of Destructed: only the vector is freed.
DestructedShallow(h) ==
  IF tokens.data = Null THEN h ELSE Free(h, Block(tokens.data))

\* strvec_destruct(): str_clear() for each string, then the vector itself.
\* free() of several blocks marks all of them.
Destructed(h) ==
  LET freed == {Block(elems[i].data) : i \in DOMAIN elems}
               \cup (IF tokens.data = Null THEN {} ELSE {Block(tokens.data)})
      lowest == freed \cup {h.usedUntil}
  IN [h EXCEPT !.used = @ \ freed,
               !.usedUntil = CHOOSE s \in lowest : \A t \in lowest : s <= t]

\* The next prompt; the line's characters are gone.
Prompt(h, s) ==
  /\ heap' = h
  /\ tokens' = NoVector
  /\ elems' = <<>>
  /\ line' = <<>>
  /\ pc' = "getline"
  /\ BeginLine(s)
  /\ ret' = Unset /\ parts' = 0
  /\ UNCHANGED <<input, scan, spoiled, owned, ran>>

\* A command that reaches the end of the loop.
Execute ==
  /\ pc = "execute"
  /\ Word(1) \notin {ExitWord}
  /\ Word(1) = EchoWord => tokens.len >= 2
  /\ Word(1) = DevicesWord => HasDevices
  /\ Word(1) \in TimeWords => parts = Len(TimeParts)
  /\ Prompt(Destructed(Shown), Start)
  /\ UNCHANGED left

\* echo without words: `continue' behind strvec_destruct(), without a prompt.
EchoNothing ==
  /\ pc = "execute" /\ Word(1) = EchoWord /\ tokens.len < 2
  /\ Prompt(Destructed(heap), column)
  /\ UNCHANGED left

\* devices without devices: `continue' without strvec_destruct().
DevicesNothing ==
  /\ pc = "execute" /\ Word(1) = DevicesWord /\ ~HasDevices
  /\ Prompt(heap, 0)
  /\ left' = left \cup {Block(tokens.data)} \cup {Block(elems[i].data) : i \in DOMAIN elems}

Exit ==
  /\ pc = "execute" /\ Word(1) = ExitWord
  /\ heap' = Destructed(heap)
  /\ tokens' = NoVector /\ elems' = <<>>
  /\ pc' = "exit"
  /\ UNCHANGED <<input, line, editor, scan, time, spoiled, left, owned, ran>>

\* The machine has stopped, or the bound on the commands is reached.
Stopped ==
  /\ Broken \/ pc \in {"fault", "exit"} \/ (pc = "getline" /\ ran = MaxCommands)
  /\ UNCHANGED vars

Key == (\E c \in Chars : Type(c)) \/ Backspace \/ Tab \/ Enter

Step == Key \/ Scan \/ LastToken \/ Tokenized
        \/ FormatTime \/ Execute \/ EchoNothing \/ DevicesNothing \/ Exit

Next == (~Broken /\ Step) \/ Stopped

Spec == Init /\ [][Next]_vars

-----------------------------------------------------------------------------
(* Properties.                                                              *)

\* Types; the pointers of line, vector and strings name headers.
ShellTypeOK ==
  /\ HeapType(heap)
  /\ \A p \in {input.data, tokens.data} \cup {elems[i].data : i \in DOMAIN elems} :
       p # Null => Block(p) \in Segs(heap)
  /\ input.size \in Nat /\ column \in 0 .. Width - 1
  /\ pc \in {"getline", "tokenize", "execute", "fault", "exit"}

\* The words of a line: its longest runs without blanks, as their bounds.
Words(l) ==
  {r \in (DOMAIN l) \X (DOMAIN l) :
     /\ r[1] <= r[2] /\ \A i \in r[1] .. r[2] : l[i] \notin Blanks
     /\ r[1] > 1 => l[r[1] - 1] \in Blanks
     /\ r[2] < Len(l) => l[r[2] + 1] \in Blanks}

\* What is executed are the words that were typed, in their order, as long as
\* the heap has not handed out the line's block while the line was read.
TokensAreWords ==
  pc \in {"execute", "fault"} /\ ~Broken =>
    \E w \in [DOMAIN elems -> Words(line)] :
      /\ \A i, k \in DOMAIN elems : i < k => w[i][2] < w[k][1]
      /\ \A i \in DOMAIN elems : elems[i].text = SubSeq(line, w[i][1], w[i][2])
      /\ \A r \in Words(line) : \E i \in DOMAIN elems : w[i] = r

\* When a command starts, the tokens and their vector have blocks of their
\* own, each as large as what is in it and still in use, and none is the
\* kernel's or the line's.  Only a line that was typed into the block str_clear()
\* had freed may find a token there, which is then freed with it.
TokensApart ==
  pc = "execute" /\ parts = 0 /\ ~Broken =>
    LET blocks == <<KernelHeap.seg + HeaderSize, tokens.data>>
                  \o [i \in DOMAIN elems |-> elems[i].data]
    IN /\ \A i, k \in DOMAIN blocks : blocks[i] = blocks[k] => i = k
       /\ tokens.len = Len(elems) /\ tokens.len <= tokens.capacity
       /\ \A i \in DOMAIN elems :
            Len(elems[i].text) <= heap.size[Block(elems[i].data)]
       /\ \A i \in DOMAIN blocks :
            IF blocks[i] = input.data THEN ~owned ELSE Block(blocks[i]) \in heap.used

\* While str_tokenize() reads a line that has a block of its own, no token and
\* no vector is put there.
LineApart ==
  pc = "tokenize" /\ owned /\ ~Broken =>
    /\ Block(input.data) \in heap.used
    /\ input.data \notin {tokens.data} \cup {elems[i].data : i \in DOMAIN elems}

\* Tokens and line have blocks of their own, unless the line was typed into a
\* block freed before, and the pointers to them, those of strings emptied before
\* included, name headers.
BlocksSound == ShellTypeOK /\ TokensApart /\ LineApart

\* Whatever was executed, at the next prompt no block is in use but the
\* kernel's, the line's and the tokens that `devices' left behind.
NothingLeaks ==
  pc \in {"getline", "exit"} /\ ~Broken =>
    heap.used \subseteq {KernelHeap.seg} \cup left \cup {Block(input.data)}

\* The cursor stands behind the line, which is how backspace knows what to
\* erase, unless a completion has crossed the edge of the screen: of lines that
\* long nothing is said.
CursorFollows ==
  pc = "getline" =>
    column = start + input.size \/ start + input.size >= Width

\* Tab completes to a command: what it appends is never the rest of a word
\* the line no longer starts.
OfferCompletes ==
  pc = "getline" /\ offer # NoOffer =>
    \E i \in DOMAIN Cmds : line \o offer = Cmds[i]

\* What the editor shows goes with the line: the cursor, which tells backspace
\* what to erase, of a line that fits its row, and the completion offered.
EditorFollows == CursorFollows /\ OfferCompletes

\* The comment on the copies str_tokenize() makes, "copy data from cmdline":
\* the line is there until its last word is copied.
LineIsRead == ~spoiled
=============================================================================
