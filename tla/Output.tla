--------------------------------- MODULE Output ---------------------------------
(***************************************************************************)
(* The text output of lib/output.h and lib/src/output.c: where the cursor  *)
(* goes and which pixels of the frame buffer a character paints.  A pixel  *)
(* holds the number of the character that painted it, or 0.  The line      *)
(* editor of the shell erases characters, and hints put the column back.   *)
(* Nothing stops the cursor at the bottom of the screen, and the last      *)
(* column crosses the right edge when the width is no multiple of the font *)
(* size.                                                                   *)
(***************************************************************************)
EXTENDS Integers, FiniteSets

CONSTANTS W, H,          \* screen.w, screen.h
          FontSize,      \* font.size
          Space,         \* SPACE_BETWEEN_LINES_DEFAULT
          TabWidth,      \* OUT_TAB_SPACE_COUNT
          MaxGlyphs,     \* bound: the characters printed
          MaxLines       \* bound: the lines printed on

\* The columns that begin before the right edge.
Columns == (W + FontSize - 1) \div FontSize
LineHeight == FontSize + Space

\* The lines that are in the frame buffer, with the space below them.
Lines == H \div LineHeight

ASSUME OutputAssumption ==
  {W, H, FontSize, Space, TabWidth, MaxGlyphs, MaxLines} \subseteq Nat \ {0}

VARIABLES line, column,
          kept,       \* a hint: the column to go back to, or None
          paint,      \* the character each pixel shows
          shown,      \* history: the character in each cell
          glyphs,     \* history: the characters printed
          gaps,       \* history: blanks or tabs were printed
          astray,     \* history: a cell across or behind the right edge was
                      \* painted or erased
          below       \* history: a character was printed behind the last line

pixelVars == <<paint, shown, glyphs, astray, below>>
screenVars == <<line, column, kept, pixelVars, gaps>>

None == -1

Cells == (0 .. MaxLines) \X (0 .. Columns - 1)

\* Pixels of the frame buffer and of the memory behind it.
Pixels == 0 .. W * (H + MaxLines * LineHeight)

-----------------------------------------------------------------------------

Blank == [p \in Pixels |-> 0]

ScreenInit ==
  /\ line = 0 /\ column = 0 /\ kept = None
  /\ paint = Blank
  /\ shown = [c \in Cells |-> 0]
  /\ glyphs = 0 /\ gaps = FALSE /\ astray = FALSE /\ below = FALSE

\* The pixels of the character at a line and column; the first is at 1.
Cell(l, c) ==
  {l * W * LineHeight + c * FontSize + i * W + FontSize - ii :
     i, ii \in 0 .. FontSize - 1}

\* The right edge cuts a cell of column c, or is in front of it.
Crosses(c) == (c + 1) * FontSize > W

Painted(pixels, n) == [p \in Pixels |-> IF p \in pixels THEN n ELSE paint[p]]

\* endl(), with the column the caller has reached.
EndLine(c) == line' = line + c \div W + (IF c < W THEN 1 ELSE 0) /\ column' = 0

\* Mutant of Advance: the end of the row is noticed one character late.
AdvanceLate(c, width) ==
  IF c * width > W THEN EndLine(c) ELSE column' = c /\ UNCHANGED line

\* The column goes on, in pixels of the given width.
Advance(c, width) ==
  IF c * width >= W THEN EndLine(c) ELSE column' = c /\ UNCHANGED line

\* printc() of a character that is painted, wherever the cursor is.
PrintGlyph ==
  /\ glyphs < MaxGlyphs /\ line < MaxLines
  /\ glyphs' = glyphs + 1
  /\ paint' = Painted(Cell(line, column), glyphs')
  /\ shown' = IF column < Columns THEN [shown EXCEPT ![<<line, column>>] = glyphs'] ELSE shown
  /\ astray' = (astray \/ Crosses(column))
  /\ below' = (below \/ line >= Lines)
  /\ Advance(column + 1, FontSize)
  /\ UNCHANGED <<kept, gaps>>

\* printc() of ' ' and '\t', which compare the column with the width in pixels.
PrintGap ==
  /\ line < MaxLines
  /\ Advance(column + 1, 1) \/ Advance(column + TabWidth - (column % TabWidth), 1)
  /\ gaps' = TRUE
  /\ UNCHANGED <<kept, pixelVars>>

PrintNewline ==
  /\ kept = None /\ line < MaxLines
  /\ EndLine(column)
  /\ UNCHANGED <<kept, pixelVars, gaps>>

\* Mutant of FlushAt: the pixels are counted from 0.
FlushAtShifted(l, c) ==
  IF c * FontSize >= W \/ l * FontSize >= H THEN UNCHANGED <<paint, shown, astray>>
  ELSE /\ paint' = Painted({p - 1 : p \in Cell(l, c)} \cap Pixels, 0)
       /\ shown' = [shown EXCEPT ![<<l, c>>] = 0]
       /\ astray' = (astray \/ Crosses(c))

\* screen_flush_at()
FlushAt(l, c) ==
  IF c * FontSize >= W \/ l * FontSize >= H THEN UNCHANGED <<paint, shown, astray>>
  ELSE /\ paint' = Painted(Cell(l, c), 0)
       /\ shown' = [shown EXCEPT ![<<l, c>>] = 0]
       /\ astray' = (astray \/ Crosses(c))

\* Backspace in the shell's line editor.
Erase ==
  /\ kept = None /\ column > 0
  /\ column' = column - 1
  /\ FlushAt(line, column - 1)
  /\ UNCHANGED <<line, kept, glyphs, gaps, below>>

\* __shell_flush_line_from() behind the cursor
FlushLine ==
  /\ kept = None
  /\ paint' = Painted(UNION {Cell(line, c) : c \in column .. Columns - 1}, 0)
  /\ shown' = [c \in Cells |-> IF c[1] = line /\ c[2] >= column THEN 0 ELSE shown[c]]
  /\ astray' = (astray \/ \E c \in column .. Columns - 1 : Crosses(c))
  /\ UNCHANGED <<line, column, kept, glyphs, gaps, below>>

\* screen_flush(): what is behind the frame buffer stays.
Flush ==
  /\ kept = None
  /\ paint' = [p \in Pixels |-> IF p < W * H THEN 0 ELSE paint[p]]
  /\ shown' = [c \in Cells |-> IF c[1] < Lines THEN 0 ELSE shown[c]]
  /\ line' = 0 /\ column' = 0
  /\ UNCHANGED <<kept, glyphs, gaps, astray, below>>

\* A hint begins; characters and blanks are printed.
BeginHint ==
  /\ kept = None
  /\ kept' = column
  /\ UNCHANGED <<line, column, pixelVars, gaps>>

\* Its end: the column is put back, the line is not.
EndHint ==
  /\ kept # None
  /\ column' = kept /\ kept' = None
  /\ UNCHANGED <<line, pixelVars, gaps>>

ScreenNext == PrintGlyph \/ PrintGap \/ PrintNewline \/ Erase \/ FlushLine \/ Flush
              \/ BeginHint \/ EndHint

ScreenSpec == ScreenInit /\ [][ScreenNext]_screenVars

-----------------------------------------------------------------------------

\* Every character in a cell of the frame buffer is whole, whatever was printed
\* or erased around it, and however far below it printing went on: the pixel
\* each of them paints to the right of its cell is nobody's.
GlyphsWhole ==
  ~astray => \A c \in Cells : c[1] < Lines /\ shown[c] # 0 =>
               \A p \in Cell(c[1], c[2]) : paint[p] = shown[c]

\* Nothing is left of what was erased, flushed or overprinted.
NothingLeft ==
  ~astray => \A p \in Pixels : paint[p] # 0 => \E c \in Cells : shown[c] = paint[p]

\* Until a character is printed on a line behind the last, only the frame
\* buffer is painted: the space below the last line takes the pixel to the right
\* of its last cell.
InFrame == ~astray /\ ~below => \A p \in Pixels : paint[p] # 0 => p < W * H

\* What is on the screen as long as no cell across or behind the right edge was
\* painted or erased: the characters printed last, whole, each in its cell, and
\* nothing else; and nothing behind the frame buffer before the cursor is there.
ScreenShows == GlyphsWhole /\ NothingLeft /\ InFrame

\* Without blanks and tabs every character begins in the row and, if the width
\* is a multiple of the font size, is within it; with them the cursor gets up to
\* as many columns as the screen has pixels.
InRow ==
  /\ column < W
  /\ ~gaps => column < Columns /\ (W % FontSize = 0 => ~astray)

=============================================================================
