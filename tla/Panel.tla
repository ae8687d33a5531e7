-------------------------------- MODULE Panel --------------------------------
(***************************************************************************)
(* The panel and the two that draw on it.  main() attaches the device to   *)
(* the bus and only then clears the screen and writes the start-up text    *)
(* (main.cpp, lcdiface.h, lcdtext.h, lcdiface_ssd1963.h): from that moment *)
(* the USB interrupt may open a window for a bitblt and the USB            *)
(* controller's DMA may write its pixels, on the same bus, at any point of *)
(* main's own sequence of commands and data.                               *)
(*                                                                         *)
(* One step is one write on the bus, except that an interrupt handler      *)
(* writes all it has to write before main goes on.  LcdStream shows that   *)
(* the pixels of a bitblt are what the DMA writes; here they have colours  *)
(* and places.  The behaviour begins where lcd.Init() has returned.        *)
(***************************************************************************)
EXTENDS Integers, Sequences, FiniteSets, FiniteSetsExt

CONSTANTS
  ScreenWidth, ScreenHeight,  \* SCREEN_WIDTH and SCREEN_HEIGHT
  CharWidth, CharHeight,      \* nCharWidth and nCharHeight of the font
  Font,       \* for each character of the font, the bytes of its rows
  Message,    \* what DisplayStartupMsg writes
  NewLine,    \* the character "\n"
  Byte,       \* 2^8: a parameter of a panel command has two halves
  Windows,    \* the bitblts the host may ask for: x, y, w and h
  EarlyBlts,  \* BOUND: bitblts that begin while main still draws
  BltBound    \* BOUND: bitblts in all

Columns == 0 .. ScreenWidth - 1
Rows == 0 .. ScreenHeight - 1
Cells == Columns \X Rows

CharsPerLine == ScreenWidth \div CharWidth
Lines == ScreenHeight \div CharHeight

ASSUME PanelAssumption ==
  /\ {ScreenWidth, ScreenHeight, CharHeight, Byte} \subseteq Nat \ {0}
  \* A row of a character is one byte (from 8 pixels on the table has two).
  /\ CharWidth \in 1 .. 7
  /\ CharWidth <= ScreenWidth /\ CharHeight <= ScreenHeight
  \* DrawChar's y has 8 bits: every line of text begins in the first 256 rows.
  /\ (Lines - 1) * CharHeight < 256
  /\ Message \in Seq(STRING)
  /\ "?" \in DOMAIN Font /\ NewLine \notin DOMAIN Font
  /\ \A c \in DOMAIN Font : /\ DOMAIN Font[c] = 1 .. CharHeight
                            /\ \A r \in 1 .. CharHeight : Font[c][r] \in 0 .. 255
  /\ ScreenWidth <= Byte * Byte /\ ScreenHeight <= Byte * Byte
  \* A bitblt may be empty; one that is not lies on the screen.
  /\ \A b \in Windows : /\ b.x \in Columns /\ b.y \in Rows
                        /\ b.w \in Nat /\ b.h \in Nat
                        /\ b.x + b.w <= ScreenWidth /\ b.y + b.h <= ScreenHeight
  /\ EarlyBlts \in Nat /\ BltBound \in Nat

VARIABLES
  panel,   \* the controller: command, parameters got, window, pointer, memory
  done,    \* how many of its writes main has done
  blt,     \* the bitblt under way: its window, pixels moved and still to move
  blts,    \* bitblts begun
  expect   \* ghost: what a user may rely on seeing in a cell, if anything

vars == <<panel, done, blt, blts, expect>>

Background == 0
Foreground == 1
Colour(k) == 2 + k  \* the k-th pixel of a bitblt, counted from 0
Unknown == -1

-----------------------------------------------------------------------------
(* What the firmware writes                                                *)

Cmd(name) == [rs |-> "command", value |-> name]
Data(v) == [rs |-> "data", value |-> v]

\* A 16-bit parameter is written twice: its high half, then the value, of which
\* the panel takes the low half.
High(v) == Data(v \div Byte)
Low(v) == Data(v)

\* An end before column or row 0 wraps around, as uint16_t does.
Word16(v) == v % (Byte * Byte)

Address(name, first, last) ==
  <<Cmd(name), High(first), Low(first), High(last), Low(last)>>

SetWindow(x1, y1, x2, y2) ==
  Address("page", y1, Word16(y2)) \o Address("column", x1, Word16(x2))

GraphicsRamMode == <<Cmd("write")>>

\* Mutant of BltStart: a bitblt opens its window and relies on the last write command.
BltStartNoRamMode(b) == SetWindow(b.x, b.y, b.x + b.w - 1, b.y + b.h - 1)

BltStart(b) ==
  SetWindow(b.x, b.y, b.x + b.w - 1, b.y + b.h - 1) \o GraphicsRamMode

ClearScreen(colour) ==
  SetWindow(0, 0, ScreenWidth - 1, ScreenHeight - 1) \o GraphicsRamMode
    \o [i \in 1 .. ScreenWidth * ScreenHeight |-> Data(colour)]

\* The rows of a character; one the font lacks is drawn as a question mark.
Glyph(c) == Font[IF c \in DOMAIN Font THEN c ELSE "?"]

GlyphColour(c, col, row) ==
  IF (Glyph(c)[row + 1] \div 2 ^ (7 - col)) % 2 = 1 THEN Foreground ELSE Background

DrawChar(x, y, c) ==
  SetWindow(x, y, x + CharWidth - 1, y + CharHeight - 1) \o GraphicsRamMode
    \o [i \in 1 .. CharWidth * CharHeight |->
          Data(GlyphColour(c, (i - 1) % CharWidth, (i - 1) \div CharWidth))]

\* m_TextX and m_TextY after the first k characters, in text mode and without
\* automatic scrolling.
TextCursor[k \in 0 .. Len(Message)] ==
  IF k = 0 THEN [x |-> 0, y |-> 0]
  ELSE LET c == TextCursor[k - 1]
       IN  IF Message[k] # NewLine /\ c.x + 1 < CharsPerLine
           THEN [c EXCEPT !.x = @ + 1]
           ELSE [x |-> 0, y |-> IF c.y + 1 >= Lines THEN 0 ELSE c.y + 1]

\* What WriteString has written after the first k characters.
Text[k \in 0 .. Len(Message)] ==
  IF k = 0 THEN <<>>
  ELSE IF Message[k] = NewLine THEN Text[k - 1]
  ELSE Text[k - 1] \o DrawChar(TextCursor[k - 1].x * CharWidth,
                              TextCursor[k - 1].y * CharHeight, Message[k])

WriteString == Text[Len(Message)]

\* main() after udc_attach(), as far as the panel sees it.
StartUp == ClearScreen(Background) \o WriteString

-----------------------------------------------------------------------------
(* The panel controller                                                    *)

Word == 0 .. Byte * Byte - 1
Ends == [first : Word, last : Word]
Controller == [cmd : {"page", "column", "write"}, params : 0 .. 4, at : Nat \X Nat,
               column : Ends, page : Ends, mem : [Cells -> Int]]

\* The pointer runs along the columns of the window, then along its rows, and
\* comes back to the beginning.
Advanced(p) ==
  IF p.at[1] # p.column.last THEN <<p.at[1] + 1, p.at[2]>>
  ELSE IF p.at[2] # p.page.last THEN <<p.column.first, p.at[2] + 1>>
  ELSE <<p.column.first, p.page.first>>

\* The n-th parameter of a command that sets the ends of a window.
WithParam(ends, n, v) ==
  CASE n = 1 -> [ends EXCEPT !.first = ((v % Byte) * Byte) + (@ % Byte)]
    [] n = 2 -> [ends EXCEPT !.first = ((@ \div Byte) * Byte) + (v % Byte)]
    [] n = 3 -> [ends EXCEPT !.last = ((v % Byte) * Byte) + (@ % Byte)]
    [] n = 4 -> [ends EXCEPT !.last = ((@ \div Byte) * Byte) + (v % Byte)]
    [] OTHER -> ends

\* The write command brings the pointer to the window's first cell.
Command(p, name) ==
  [p EXCEPT !.cmd = name, !.params = 0,
            !.at = IF name = "write" THEN <<p.column.first, p.page.first>> ELSE @]

Pixel(p, v) ==
  [p EXCEPT !.mem = [c \in Cells |-> IF c = p.at THEN v ELSE @[c]],
            !.at = Advanced(p)]

Parameter(p, v) ==
  [p EXCEPT !.column = IF p.cmd = "column" THEN WithParam(@, p.params + 1, v) ELSE @,
            !.page = IF p.cmd = "page" THEN WithParam(@, p.params + 1, v) ELSE @,
            !.params = IF @ < 4 THEN @ + 1 ELSE @]

Take(p, w) ==
  IF w.rs = "command" THEN Command(p, w.value)
  ELSE IF p.cmd = "write" THEN Pixel(p, w.value)
  ELSE Parameter(p, w.value)

\* The controller after one write after the other.
Received(p, writes) ==
  LET after[n \in 0 .. Len(writes)] ==
        IF n = 0 THEN p ELSE Take(after[n - 1], writes[n])
  IN  after[Len(writes)]

PowerOn == [cmd |-> "write", params |-> 0, at |-> <<0, 0>>,
            column |-> [first |-> 0, last |-> 0],
            page |-> [first |-> 0, last |-> 0],
            mem |-> [c \in Cells |-> Unknown]]

-----------------------------------------------------------------------------
NoBlt == [x |-> 0, y |-> 0, w |-> 0, h |-> 0, moved |-> 0, left |-> 0, late |-> FALSE]

DrawnUp == done = Len(StartUp)

\* One write of main's.
MainWrites ==
  /\ ~DrawnUp
  /\ panel' = Take(panel, StartUp[done + 1])
  /\ done' = done + 1
  /\ UNCHANGED <<blt, blts, expect>>

\* The callback of a bitblt command.  What main is still drawing, and all that
\* is drawn until this bitblt is over, may land anywhere.
BltBegins(b) ==
  /\ blt.left = 0
  /\ blts < IF DrawnUp THEN BltBound ELSE EarlyBlts \* BOUND
  /\ panel' = Received(panel, BltStart(b))
  /\ blt' = [x |-> b.x, y |-> b.y, w |-> b.w, h |-> b.h, moved |-> 0,
             left |-> b.w * b.h, late |-> DrawnUp]
  /\ expect' = IF DrawnUp THEN expect ELSE [c \in Cells |-> Unknown]
  /\ blts' = blts + 1
  /\ UNCHANGED done

\* The cell the host means the next pixel for.
NextCell == <<blt.x + (blt.moved % blt.w), blt.y + (blt.moved \div blt.w)>>

\* Mutant of PixelMoved: pixels go to LCD_DATA without a look at the count.
PixelMovedAnyway ==
  /\ blts > 0
  /\ panel' = Take(panel, Data(Colour(blt.moved)))
  /\ blt' = [blt EXCEPT !.moved = @ + 1, !.left = @ - 1]
  /\ UNCHANGED <<done, blts, expect>>

\* The DMA writes a pixel.
PixelMoved ==
  /\ blt.left > 0
  /\ panel' = Take(panel, Data(Colour(blt.moved)))
  /\ blt' = [blt EXCEPT !.moved = @ + 1, !.left = @ - 1]
  /\ expect' = IF blt.late THEN [expect EXCEPT ![NextCell] = Colour(blt.moved)]
               ELSE expect
  /\ UNCHANGED <<done, blts>>

\* A bus reset: the interface starts again with no pixels to receive.
BltAbandoned ==
  /\ blt.left > 0
  /\ blt' = [blt EXCEPT !.left = 0]
  /\ UNCHANGED <<panel, done, blts, expect>>

-----------------------------------------------------------------------------
(* What the screen should show                                             *)

\* Where the text belongs, said without a cursor: the k-th character is the
\* j-th after the last line break, a line of the screen ends at a line break or
\* at a character that fills it, and the lines wrap around.
Breaks(k) == {i \in 1 .. k - 1 : Message[i] = NewLine}
LineStart(k) == Max({0} \cup Breaks(k))
InLine(k) == k - 1 - LineStart(k)
LineEnds(k) ==
  Breaks(k) \cup {i \in 1 .. k - 1 : (InLine(i) + 1) % CharsPerLine = 0}
LineOf(k) == Cardinality(LineEnds(k))
PlaceOf(k) == <<InLine(k) % CharsPerLine, LineOf(k) % Lines>>

\* The start-up picture: in each character cell the last character of the
\* message that belongs there, and background elsewhere.
StartUpPicture == [c \in Cells |->
  LET here == {k \in 1 .. Len(Message) :
                 /\ Message[k] # NewLine
                 /\ PlaceOf(k) = <<c[1] \div CharWidth, c[2] \div CharHeight>>}
  IN  IF here = {} THEN Background
      ELSE GlyphColour(Message[Max(here)], c[1] % CharWidth, c[2] % CharHeight)]

Init ==
  /\ panel = Received(PowerOn, ClearScreen(Background))
  /\ done = 0
  /\ blt = NoBlt
  /\ blts = 0
  /\ expect = StartUpPicture

Next ==
  \/ MainWrites
  \/ \E b \in Windows : BltBegins(b)
  \/ PixelMoved
  \/ BltAbandoned

Spec == Init /\ [][Next]_vars

-----------------------------------------------------------------------------
(* Properties                                                              *)

\* The variables have the types their comments say; in particular the DMA
\* never moves more pixels than the bitblt announced (udi_vendor.c:178-200).
TypeOK ==
  /\ panel \in Controller
  /\ done \in 0 .. Len(StartUp)
  /\ blt \in [x : Columns, y : Rows, w : Nat, h : Nat, moved : Nat, left : Nat,
             late : BOOLEAN]
  /\ blts \in Nat
  /\ expect \in [Cells -> Int]

\* Once main has drawn, every cell a user can rely on shows what it should:
\* a start-up no bitblt came into ends with the text laid out line by line,
\* and each bitblt begun later puts its pixels in order in its own window and
\* changes no other cell, even if the start-up was disturbed, a bitblt was
\* empty or an earlier one was cut short by a bus reset: SetWindow and the
\* write command set everything the disturbance may have left behind
\* (lcdiface.h:85-90, lcdtext.h:91-123 and 161-233).
ScreenAsExpected ==
  DrawnUp => \A c \in Cells : expect[c] \in {Unknown, panel.mem[c]}
==============================================================================
