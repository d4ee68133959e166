---------------------------- MODULE DisplayProofs ----------------------------
(***************************************************************************)
(* Proofs about Display, for every number of terminals and every size of   *)
(* the screen.                                                             *)
(***************************************************************************)
EXTENDS Display, SequenceTheorems, TLAPS

Pages == [Cells -> Chars \cup {blank}]

-----------------------------------------------------------------------------
(* Cells and positions *)

\* Rows do not overlap: a cell belongs to one position.
LEMMA CellsAreDisjoint ==
  ASSUME NEW p \in Positions, NEW q \in Positions, Cell(p) = Cell(q)
  PROVE  p.x = q.x /\ p.y = q.y
<1>0. /\ NumCols \in Nat
      /\ p.x \in 0 .. NumCols - 1 /\ p.y \in Nat
      /\ q.x \in 0 .. NumCols - 1 /\ q.y \in Nat
  BY DisplayAssumption DEF Positions
<1>1. ASSUME NEW a \in Nat, NEW b \in Nat, a < b, NEW x \in 0 .. NumCols - 1
      PROVE  NumCols * a + x < NumCols * b
  <2>1. PICK d \in Nat : b = a + 1 + d
    <3>1. b - a - 1 \in Nat /\ b = a + 1 + (b - a - 1)
      BY <1>1
    <3>2. QED
      BY <3>1
  <2>2. NumCols * b = NumCols * a + NumCols + NumCols * d
    BY <2>1, <1>0
  <2>3. NumCols * d \in Nat /\ NumCols * a \in Nat
    BY <1>0
  <2>4. QED
    BY <2>2, <2>3, <1>0
<1>2. NumCols * p.y \in Nat /\ NumCols * q.y \in Nat
  BY <1>0
<1>3. NumCols * p.y + p.x = NumCols * q.y + q.x
  BY DEF Cell
<1>4. CASE p.y < q.y
  BY <1>0, <1>1, <1>2, <1>3, <1>4
<1>5. CASE q.y < p.y
  BY <1>0, <1>1, <1>2, <1>3, <1>5
<1>6. CASE p.y = q.y
  <2> DEFINE start == NumCols * p.y
  <2>1. start \in Nat /\ start + p.x = start + q.x
    BY <1>2, <1>3, <1>6
  <2> HIDE DEF start
  <2>2. p.x \in Int /\ q.x \in Int
    BY <1>0
  <2>3. \A m \in Nat : \A j, k \in Int : m + j = m + k => j = k
    OBVIOUS
  <2>4. p.x = q.x
    BY <2>1, <2>2, <2>3
  <2>5. QED
    BY <2>4, <1>6
<1>7. QED
  BY <1>0, <1>4, <1>5, <1>6

\* A position on the screen has a cell of the page.
LEMMA CellOnPage ==
  ASSUME NEW at \in Positions
  PROVE  Cell(at) \in Cells
<1>0. /\ NumCols \in Nat \ {0} /\ NumRows \in Nat \ {0}
      /\ at.x \in 0 .. NumCols - 1 /\ at.y \in 0 .. NumRows - 1
  BY DisplayAssumption DEF Positions
<1>1. PICK d \in Nat : NumRows = at.y + 1 + d
  <2>1. NumRows - at.y - 1 \in Nat /\ NumRows = at.y + 1 + (NumRows - at.y - 1)
    BY <1>0
  <2>2. QED
    BY <2>1
<1>2. NumRows * NumCols = NumCols * at.y + NumCols + NumCols * d
  BY <1>0, <1>1
<1>3. NumCols * at.y \in Nat /\ NumCols * d \in Nat
  BY <1>0
<1>4. QED
  BY <1>0, <1>2, <1>3 DEF Cell, Cells

LEMMA ScrollIsAPage ==
  ASSUME NEW page \in Pages
  PROVE  Scroll(page) \in Pages
<1>0. NumCols \in Nat \ {0} /\ NumRows \in Nat \ {0}
  BY DisplayAssumption
<1>1. NumRows * NumCols = NumCols * (NumRows - 1) + NumCols
  BY <1>0
<1>2. NumCols * (NumRows - 1) \in Nat
  BY <1>0
<1>3. \A i \in Cells : i < NumCols * (NumRows - 1) => i + NumCols \in Cells
  BY <1>0, <1>1, <1>2 DEF Cells
<1>4. QED
  BY <1>3 DEF Scroll, Pages

\* Fit takes a cursor that may have left the last row by one back to the screen.
LEMMA FitOnScreen ==
  ASSUME NEW page \in Pages, NEW at \in [x : 0 .. NumCols - 1, y : 0 .. NumRows]
  PROVE  Fit(page, at).page \in Pages /\ Fit(page, at).at \in Positions
<1>1. CASE at.y = NumRows
  <2>1. [at EXCEPT !.y = NumRows - 1] \in Positions
    BY DisplayAssumption DEF Positions
  <2>2. QED
    BY <1>1, <2>1, ScrollIsAPage DEF Fit
<1>2. CASE at.y # NumRows
  <2>1. at \in Positions
    BY <1>2, DisplayAssumption DEF Positions
  <2>2. QED
    BY <1>2, <2>1 DEF Fit
<1>3. QED
  BY <1>1, <1>2

LEMMA ForwardInReach ==
  ASSUME NEW at \in Positions
  PROVE  Forward(at) \in [x : 0 .. NumCols - 1, y : 0 .. NumRows]
BY DisplayAssumption DEF Forward, Positions

\* A step back from anywhere but the origin stays on the screen.
LEMMA BackOnScreen ==
  ASSUME NEW at \in Positions, at # Origin
  PROVE  Back(at) \in Positions
<1>1. /\ at = [x |-> at.x, y |-> at.y]
      /\ at.x \in 0 .. NumCols - 1 /\ at.y \in 0 .. NumRows - 1
  BY DEF Positions
<1>2. at.x = 0 => at.y # 0
  BY <1>1 DEF Origin
<1>3. QED
  BY <1>1, <1>2, DisplayAssumption DEF Back, Positions

\* A character that putc accepts leaves a page and a cursor on it.
LEMMA PutOnScreen ==
  ASSUME NEW page \in Pages, NEW at \in Positions,
         NEW c \in Chars \cup {newline, backspace}, ~AtOrigin(at, c)
  PROVE  Put(page, at, c).page \in Pages /\ Put(page, at, c).at \in Positions
<1>1. CASE c = newline
  <2>1. [x |-> 0, y |-> at.y + 1] \in [x : 0 .. NumCols - 1, y : 0 .. NumRows]
    BY DisplayAssumption DEF Positions
  <2>2. QED
    BY <1>1, <2>1, FitOnScreen DEF Put
<1>2. CASE c = backspace
  <2>1. c # newline
    BY <1>2, DisplayAssumption
  <2>2. Back(at) \in Positions
    BY <1>2, BackOnScreen DEF AtOrigin
  <2>3. [page EXCEPT ![Cell(Back(at))] = blank] \in Pages
    BY <2>2, CellOnPage DEF Pages
  <2>4. QED
    BY <1>2, <2>1, <2>2, <2>3 DEF Put
<1>3. CASE c # newline /\ c # backspace
  <2>1. [page EXCEPT ![Cell(at)] = c] \in Pages
    BY <1>3, CellOnPage DEF Pages
  <2>2. QED
    BY <1>3, <2>1, FitOnScreen, ForwardInReach DEF Put
<1>4. QED
  BY <1>1, <1>2, <1>3

-----------------------------------------------------------------------------
(* The invariants *)

LEMMA PagesAndPositions ==
  ASSUME TypeOK
  PROVE  /\ memory[vidmem_page] \in Pages /\ memory[scheduled_terminal] \in Pages
         /\ screen \in Positions /\ cursor[scheduled_terminal] \in Positions
         /\ cursor[visible_terminal] \in Positions
BY DEF TypeOK, Pages

\* What the visible terminal shows and where it blinks does not depend on what
\* processes write: no assumption about backspaces.
IInv == TypeOK /\ BlinksAtVisible

LEMMA InitIInv == Init => IInv /\ PageRestored
<1> SUFFICES ASSUME Init PROVE IInv /\ PageRestored
  OBVIOUS
<1>1. Origin \in Positions /\ BlankPage \in [Cells -> Chars \cup {blank}]
  BY DisplayAssumption DEF Origin, Positions, BlankPage
<1>2. 0 \in Terminals
  BY DisplayAssumption DEF Terminals
<1>3. QED
  BY <1>1, <1>2 DEF Init, IInv, TypeOK, BlinksAtVisible, PageRestored

LEMMA PutVisibleStep ==
  ASSUME IInv, NEW c \in Chars \cup {newline, backspace}, PutVisible(c)
  PROVE  IInv' /\ (PageRestored => PageRestored')
<1> DEFINE new == Put(memory[vidmem_page], screen, c)
<1>1. new.page \in Pages /\ new.at \in Positions
  BY PagesAndPositions, PutOnScreen DEF IInv, PutVisible
<1>2. /\ memory' = [memory EXCEPT ![vidmem_page] = new.page]
      /\ screen' = new.at
      /\ cursor' = [cursor EXCEPT ![visible_terminal] = new.at]
      /\ vga_cursor' = new.at
      /\ UNCHANGED <<scheduled_terminal, visible_terminal, vidmem_page>>
  BY DEF PutVisible
<1> HIDE DEF new
<1>3. TypeOK'
  BY <1>1, <1>2 DEF IInv, TypeOK, Pages
<1>4. QED
  BY <1>2, <1>3 DEF IInv, TypeOK, BlinksAtVisible, PageRestored

LEMMA PutBackgroundStep ==
  ASSUME IInv, NEW c \in Chars \cup {newline, backspace}, PutBackground(c),
         scheduled_terminal # visible_terminal
  PROVE  IInv' /\ PageRestored'
<1> DEFINE t   == scheduled_terminal
           new == Put(memory[t], cursor[t], c)
<1>1. new.page \in Pages /\ new.at \in Positions
  BY PagesAndPositions, PutOnScreen DEF IInv, PutBackground
<1>2. /\ memory' = [memory EXCEPT ![t] = new.page]
      /\ cursor' = [cursor EXCEPT ![t] = new.at]
      /\ screen' = cursor[visible_terminal]
      /\ vidmem_page' = Vga
      /\ UNCHANGED <<scheduled_terminal, visible_terminal, vga_cursor>>
  BY DEF PutBackground
<1> HIDE DEF new
<1>3. TypeOK'
  BY <1>1, <1>2 DEF IInv, TypeOK, Pages
<1>4. QED
  BY <1>2, <1>3 DEF IInv, TypeOK, BlinksAtVisible, PageRestored

LEMMA ClearStep ==
  ASSUME IInv, Clear
  PROVE  IInv' /\ (PageRestored => PageRestored')
<1>1. Origin \in Positions /\ BlankPage \in [Cells -> Chars \cup {blank}]
  BY DisplayAssumption DEF Origin, Positions, BlankPage
<1>2. TypeOK'
  BY <1>1 DEF IInv, TypeOK, Clear
<1>3. QED
  BY <1>2 DEF IInv, TypeOK, Clear, BlinksAtVisible, PageRestored

LEMMA SwitchVisibleStep ==
  ASSUME IInv, NEW t \in Terminals, SwitchVisible(t)
  PROVE  IInv' /\ (PageRestored => PageRestored')
<1>1. /\ memory' \in [Terminals \cup {Vga} -> Pages]
      /\ cursor' \in [Terminals -> Positions]
  BY DEF IInv, TypeOK, Pages, SwitchVisible, ChangePage
<1>2. cursor'[t] = cursor[t] /\ cursor[t] \in Positions
  BY DEF IInv, TypeOK, SwitchVisible
<1>3. TypeOK'
  BY <1>1, <1>2 DEF IInv, TypeOK, Pages, SwitchVisible, LoadCursor
<1>4. QED
  BY <1>2, <1>3 DEF IInv, SwitchVisible, LoadCursor, BlinksAtVisible, PageRestored

LEMMA TickStep ==
  ASSUME IInv, Tick
  PROVE  IInv' /\ (PageRestored => PageRestored')
<1>1. scheduled_terminal' \in Terminals
  BY DisplayAssumption DEF IInv, TypeOK, Tick, Terminals
<1>2. QED
  BY <1>1 DEF IInv, TypeOK, Tick, BlinksAtVisible, PageRestored

\* The step of PageLostAtOrigin.
LossesAtOrigin ==
  /\ PageRestored /\ ~PageRestored' =>
       AtBackgroundOrigin /\ UNCHANGED <<visible_terminal, memory, cursor>>
  /\ scheduled_terminal # visible_terminal
       /\ cursor'[scheduled_terminal] # cursor[scheduled_terminal] => PageRestored'

\* A step that keeps the page, and moves no cursor but the visible terminal's.
LEMMA KeepsPage ==
  ASSUME PageRestored => PageRestored',
         scheduled_terminal # visible_terminal =>
           cursor'[scheduled_terminal] = cursor[scheduled_terminal]
  PROVE  LossesAtOrigin
BY DEF LossesAtOrigin

LEMMA EchoLosesNothing ==
  ASSUME IInv, NEW c \in Chars \cup {newline, backspace}, PutVisible(c)
  PROVE  IInv' /\ LossesAtOrigin
<1>1. IInv' /\ (PageRestored => PageRestored')
  BY PutVisibleStep
<1>2. scheduled_terminal # visible_terminal =>
        cursor'[scheduled_terminal] = cursor[scheduled_terminal]
  BY DEF IInv, TypeOK, PutVisible
<1>3. QED
  BY <1>1, <1>2, KeepsPage

\* Only PutBackgroundAtOrigin, a backspace that a process writes at the origin of a
\* background terminal, leaves the page and the screen's cursor to another terminal.
LEMMA NextPreserves ==
  ASSUME IInv, [Next]_vars
  PROVE  IInv' /\ LossesAtOrigin /\ (backspace \notin Controls /\ PageRestored => PageRestored')
<1>0. Controls \subseteq {newline, backspace}
  BY DisplayAssumption
<1>1. ASSUME NEW c \in Chars \cup Controls, Write(c)
      PROVE  IInv' /\ LossesAtOrigin
             /\ (backspace \notin Controls /\ PageRestored => PageRestored')
  <2>0. c \in Chars \cup {newline, backspace}
    BY <1>0
  <2>1. CASE PutVisible(c)
    BY <2>0, <2>1, PutVisibleStep, EchoLosesNothing
  <2>2. CASE scheduled_terminal # visible_terminal /\ PutBackground(c)
    BY <2>0, <2>2, PutBackgroundStep DEF LossesAtOrigin
  <2>3. CASE scheduled_terminal # visible_terminal /\ PutBackgroundAtOrigin(c)
    <3>1. c = backspace /\ c \in Controls
      BY <1>1, <2>3, DisplayAssumption DEF PutBackgroundAtOrigin, AtOrigin
    <3>2. TypeOK'
      BY <2>3 DEF IInv, TypeOK, PutBackgroundAtOrigin
    <3>3. BlinksAtVisible'
      BY <2>3 DEF IInv, BlinksAtVisible, PutBackgroundAtOrigin
    <3>4. LossesAtOrigin
      BY <2>3 DEF LossesAtOrigin, AtBackgroundOrigin, PutBackgroundAtOrigin, AtOrigin
    <3>5. QED
      BY <3>1, <3>2, <3>3, <3>4 DEF IInv
  <2>4. QED
    BY <1>1, <2>1, <2>2, <2>3 DEF Write
<1>2. ASSUME NEW c \in Chars \cup {newline, backspace}, Echo(c)
      PROVE  IInv' /\ LossesAtOrigin /\ (PageRestored => PageRestored')
  BY <1>2, PutVisibleStep, EchoLosesNothing DEF Echo
<1>3. CASE Clear
  <2>1. scheduled_terminal # visible_terminal =>
          cursor'[scheduled_terminal] = cursor[scheduled_terminal]
    BY <1>3 DEF IInv, TypeOK, Clear
  <2>2. QED
    BY <1>3, <2>1, ClearStep, KeepsPage
<1>4. ASSUME NEW t \in Terminals, SwitchVisible(t)
      PROVE  IInv' /\ LossesAtOrigin /\ (PageRestored => PageRestored')
  <2>1. scheduled_terminal # visible_terminal =>
          cursor'[scheduled_terminal] = cursor[scheduled_terminal]
    BY <1>4 DEF IInv, TypeOK, SwitchVisible
  <2>2. QED
    BY <1>4, <2>1, SwitchVisibleStep, KeepsPage
<1>5. CASE Tick
  <2>1. cursor' = cursor
    BY <1>5 DEF Tick
  <2>2. QED
    BY <1>5, <2>1, TickStep, KeepsPage
<1>6. CASE UNCHANGED vars
  BY <1>6 DEF vars, IInv, TypeOK, BlinksAtVisible, PageRestored, LossesAtOrigin
<1>7. QED
  BY <1>1, <1>2, <1>3, <1>4, <1>5, <1>6 DEF Next

LEMMA Invariance == Spec => []IInv
<1>1. Init => IInv
  BY InitIInv
<1>2. IInv /\ [Next]_vars => IInv'
  BY NextPreserves
<1>3. QED
  BY <1>1, <1>2, PTL DEF Spec

\* No cursor leaves the screen and putc writes no cell outside its page, for every
\* size of the screen and whatever is written, backspaces included.
THEOREM CursorsOnScreen == Spec => []TypeOK
<1>1. IInv => TypeOK
  BY DEF IInv
<1>2. QED
  BY <1>1, Invariance, PTL

\* The blinking cursor stays the visible terminal's, whatever is written (putc,
\* update_cursor, switch_visible_terminal).
THEOREM BlinkingIsVisible == Spec => []BlinksAtVisible
<1>1. IInv => BlinksAtVisible
  BY DEF IInv
<1>2. QED
  BY <1>1, Invariance, PTL

\* Whatever is written, backspaces included, the video page and the screen's cursor
\* are lost to the visible terminal at the origin of a background terminal only, and
\* every character that reaches a background terminal gives them back (putc,
\* redirect_vidmem_page).
THEOREM OnlyOriginLosesPage == Spec => PageLostAtOrigin
<1>1. IInv /\ [Next]_vars => LossesAtOrigin
  BY NextPreserves
<1>2. [][LossesAtOrigin]_vars => PageLostAtOrigin
  BY PTL DEF LossesAtOrigin, PageLostAtOrigin
<1>3. QED
  BY <1>1, <1>2, Invariance, PTL DEF Spec

LEMMA PageKept ==
  ASSUME backspace \notin Controls
  PROVE  Spec => []PageRestored
<1>1. Init => PageRestored
  BY InitIInv
<1>2. IInv /\ PageRestored /\ [Next]_vars => PageRestored'
  BY NextPreserves
<1>3. QED
  BY <1>1, <1>2, Invariance, PTL DEF Spec

-----------------------------------------------------------------------------
(* The refinement: cells of a page and characters of a line *)

Rows  == [1 .. NumCols -> Chars \cup {blank}]
Texts == [1 .. NumRows -> Rows]

LEMMA TextsEqual ==
  ASSUME NEW txt1 \in Texts, NEW txt2 \in Texts,
         \A row \in 1 .. NumRows, col \in 1 .. NumCols : txt1[row][col] = txt2[row][col]
  PROVE  txt1 = txt2
<1>1. ASSUME NEW row \in 1 .. NumRows
      PROVE  txt1[row] = txt2[row]
  <2>1. /\ txt1[row] = [col \in 1 .. NumCols |-> txt1[row][col]]
        /\ txt2[row] = [col \in 1 .. NumCols |-> txt2[row][col]]
    BY DEF Texts, Rows
  <2>2. [col \in 1 .. NumCols |-> txt1[row][col]] = [col \in 1 .. NumCols |-> txt2[row][col]]
    BY Zenon
  <2>3. QED
    BY <2>1, <2>2, Zenon
<1>2. /\ txt1 = [row \in 1 .. NumRows |-> txt1[row]]
      /\ txt2 = [row \in 1 .. NumRows |-> txt2[row]]
  BY DEF Texts
<1>3. [row \in 1 .. NumRows |-> txt1[row]] = [row \in 1 .. NumRows |-> txt2[row]]
  BY <1>1, Zenon
<1>4. QED
  BY <1>2, <1>3, Zenon

LEMMA LinesOfPage ==
  ASSUME NEW page \in Pages
  PROVE  /\ Lines(page) \in Texts
         /\ \A row \in 1 .. NumRows, col \in 1 .. NumCols :
              Lines(page)[row][col] = page[NumCols * (row - 1) + col - 1]
<1>1. ASSUME NEW row \in 1 .. NumRows, NEW col \in 1 .. NumCols
      PROVE  NumCols * (row - 1) + col - 1 \in Cells
  <2>1. [x |-> col - 1, y |-> row - 1] \in Positions
    BY DisplayAssumption DEF Positions
  <2>2. NumCols * (row - 1) + (col - 1) \in Cells
    BY <2>1, CellOnPage DEF Cell
  <2>3. NumCols * (row - 1) \in Int
    BY DisplayAssumption
  <2>4. QED
    BY <2>2, <2>3, DisplayAssumption
<1>2. QED
  BY <1>1 DEF Lines, Texts, Rows, Pages

\* A character in a cell is that character in its line and column, and no other.
LEMMA LinesOfChange ==
  ASSUME NEW page \in Pages, NEW at \in Positions, NEW c \in Chars \cup {blank}
  PROVE  Lines([page EXCEPT ![Cell(at)] = c])
           = [Lines(page) EXCEPT ![at.y + 1][at.x + 1] = c]
<1> DEFINE new == [page EXCEPT ![Cell(at)] = c]
           txt == [Lines(page) EXCEPT ![at.y + 1][at.x + 1] = c]
<1>0. /\ at.y \in 0 .. NumRows - 1 /\ at.x \in 0 .. NumCols - 1
      /\ NumCols \in Nat /\ NumRows \in Nat /\ Cell(at) \in Cells
  BY CellOnPage, DisplayAssumption DEF Positions
<1>1. new \in Pages
  BY <1>0 DEF Pages
<1>2. /\ Lines(page) \in Texts
      /\ \A row \in 1 .. NumRows, col \in 1 .. NumCols :
           Lines(page)[row][col] = page[NumCols * (row - 1) + col - 1]
  BY LinesOfPage
<1>3. /\ Lines(new) \in Texts
      /\ \A row \in 1 .. NumRows, col \in 1 .. NumCols :
           Lines(new)[row][col] = new[NumCols * (row - 1) + col - 1]
  BY <1>1, LinesOfPage
<1>4. txt \in Texts
  BY <1>0, <1>2 DEF Texts, Rows
<1>5. ASSUME NEW row \in 1 .. NumRows, NEW col \in 1 .. NumCols
      PROVE  Lines(new)[row][col] = txt[row][col]
  <2> DEFINE i == NumCols * (row - 1) + (col - 1)
  <2>1. i = NumCols * (row - 1) + col - 1 /\ i \in Cells
    <3>1. [x |-> col - 1, y |-> row - 1] \in Positions
      BY <1>0 DEF Positions
    <3>2. i \in Cells
      BY <3>1, CellOnPage DEF Cell
    <3>3. NumCols * (row - 1) \in Int
      BY <1>0
    <3>4. QED
      BY <3>2, <3>3, <1>0
  <2>2. i = Cell(at) <=> row = at.y + 1 /\ col = at.x + 1
    <3> DEFINE p == [x |-> col - 1, y |-> row - 1]
    <3>1. p \in Positions /\ i = Cell(p)
      BY <1>0 DEF Positions, Cell
    <3>2. i = Cell(at) => p.x = at.x /\ p.y = at.y
      BY <3>1, CellsAreDisjoint
    <3>3. row = at.y + 1 /\ col = at.x + 1 => i = Cell(at)
      BY <1>0 DEF Cell
    <3>4. QED
      BY <3>2, <3>3, <1>0
  <2>3. Lines(new)[row][col] = new[i] /\ Lines(page)[row][col] = page[i]
    BY <1>2, <1>3, <2>1
  <2> HIDE DEF i
  <2>4. new[i] = IF i = Cell(at) THEN c ELSE page[i]
    BY <2>1 DEF Pages
  <2>5. txt[row][col] = IF row = at.y + 1 /\ col = at.x + 1 THEN c ELSE Lines(page)[row][col]
    BY <1>0, <1>2 DEF Texts, Rows
  <2>6. QED
    BY <2>2, <2>3, <2>4, <2>5
<1>6. Lines(new) = txt
  <2> HIDE DEF new, txt
  <2>1. QED
    BY <1>3, <1>4, <1>5, TextsEqual
<1>7. QED
  BY <1>6

LEMMA LinesOfBlank == Lines(BlankPage) = Abstract!BlankPage
<1>1. \A row \in 1 .. NumRows, col \in 1 .. NumCols :
        Lines(BlankPage)[row][col] = blank
  <2>1. BlankPage \in Pages
    BY DEF BlankPage, Pages
  <2>2. TAKE row \in 1 .. NumRows, col \in 1 .. NumCols
  <2>3. [x |-> col - 1, y |-> row - 1] \in Positions
    BY DisplayAssumption DEF Positions
  <2>4. NumCols * (row - 1) + (col - 1) \in Cells
    BY <2>3, CellOnPage DEF Cell
  <2>5. NumCols * (row - 1) + col - 1 = NumCols * (row - 1) + (col - 1)
    <3>1. NumCols * (row - 1) \in Int
      BY DisplayAssumption
    <3>2. QED
      BY <3>1, DisplayAssumption
  <2>6. QED
    BY <2>1, <2>4, <2>5, LinesOfPage DEF BlankPage
<1>2. QED
  BY <1>1 DEF Lines, Abstract!BlankPage, Abstract!BlankLine

\* A text is a sequence of lines.
LEMMA TextIsASeq ==
  ASSUME NEW txt \in Texts
  PROVE  txt \in Seq(Rows) /\ Len(txt) = NumRows /\ txt # << >>
BY DisplayAssumption DEF Texts

\* scroll is the loss of the first line and a blank line at the end.
LEMMA LinesOfScroll ==
  ASSUME NEW page \in Pages
  PROVE  Lines(Scroll(page)) = Append(Tail(Lines(page)), Abstract!BlankLine)
<1> DEFINE txt == Lines(page)
           rolled == Append(Tail(txt), Abstract!BlankLine)
<1>0. NumCols \in Nat \ {0} /\ NumRows \in Nat \ {0}
  BY DisplayAssumption
<1>1. /\ txt \in Texts /\ Lines(Scroll(page)) \in Texts
  BY LinesOfPage, ScrollIsAPage
<1>2. txt \in Seq(Rows) /\ Len(txt) = NumRows /\ txt # << >>
  BY <1>1, TextIsASeq
<1>3. /\ Tail(txt) \in Seq(Rows) /\ Len(Tail(txt)) = NumRows - 1
      /\ \A row \in 1 .. NumRows - 1 : Tail(txt)[row] = txt[row + 1]
  BY <1>2, HeadTailProperties
<1>4. Abstract!BlankLine \in Rows
  BY DEF Rows, Abstract!BlankLine
<1>5. /\ rolled \in Seq(Rows) /\ Len(rolled) = NumRows
      /\ \A row \in 1 .. NumRows - 1 : rolled[row] = txt[row + 1]
      /\ rolled[NumRows] = Abstract!BlankLine
  <2>1. /\ rolled \in Seq(Rows) /\ Len(rolled) = Len(Tail(txt)) + 1
        /\ \A row \in 1 .. Len(Tail(txt)) : rolled[row] = Tail(txt)[row]
        /\ rolled[Len(Tail(txt)) + 1] = Abstract!BlankLine
    BY <1>3, <1>4, AppendProperties
  <2>2. QED
    BY <2>1, <1>3, <1>0
<1>6. ASSUME NEW row \in 1 .. NumRows, NEW col \in 1 .. NumCols
      PROVE  Lines(Scroll(page))[row][col] = rolled[row][col]
  <2> HIDE DEF txt, rolled
  <2> DEFINE i == NumCols * (row - 1) + (col - 1)
  <2>1. i = NumCols * (row - 1) + col - 1 /\ i \in Cells
    <3>1. [x |-> col - 1, y |-> row - 1] \in Positions
      BY <1>0 DEF Positions
    <3>2. i \in Cells
      BY <3>1, CellOnPage DEF Cell
    <3>3. NumCols * (row - 1) \in Int
      BY <1>0
    <3>4. QED
      BY <3>2, <3>3, <1>0
  <2>2. Lines(Scroll(page))[row][col] = Scroll(page)[i]
    BY <2>1, LinesOfPage, ScrollIsAPage
  <2>3. CASE row < NumRows
    <3>1. i < NumCols * (NumRows - 1)
      <4>1. PICK d \in Nat : NumRows - 1 = row + d
        <5>1. NumRows - 1 - row \in Nat /\ NumRows - 1 = row + (NumRows - 1 - row)
          BY <2>3, <1>0
        <5>2. QED
          BY <5>1
      <4>2. NumCols * (NumRows - 1) = NumCols * (row - 1) + NumCols + NumCols * d
        BY <4>1, <1>0
      <4>3. NumCols * (row - 1) \in Nat /\ NumCols * d \in Nat
        BY <1>0
      <4>4. QED
        BY <4>2, <4>3, <1>0
    <3>2. Scroll(page)[i] = page[i + NumCols]
      BY <2>1, <3>1 DEF Scroll
    <3>3. i + NumCols = NumCols * ((row + 1) - 1) + col - 1
      BY <1>0
    <3>4. txt[row + 1][col] = page[NumCols * ((row + 1) - 1) + col - 1]
      <4>1. row + 1 \in 1 .. NumRows
        BY <2>3, <1>0
      <4>2. QED
        BY <4>1, LinesOfPage DEF txt
    <3>5. rolled[row] = txt[row + 1]
      BY <1>5, <2>3, <1>0
    <3>6. QED
      BY <2>2, <3>2, <3>3, <3>4, <3>5
  <2>4. CASE row = NumRows
    <3>1. ~ (i < NumCols * (NumRows - 1))
      <4>1. NumCols * (NumRows - 1) \in Nat
        BY <1>0
      <4>2. QED
        BY <2>4, <4>1, <1>0
    <3>2. Scroll(page)[i] = blank
      BY <2>1, <3>1 DEF Scroll
    <3>3. QED
      BY <2>2, <2>4, <3>2, <1>5 DEF Abstract!BlankLine
  <2>5. QED
    BY <2>3, <2>4, <1>0
<1>7. Lines(Scroll(page)) = rolled
  <2> HIDE DEF txt, rolled
  <2>1. rolled \in Texts
    BY <1>5, <1>0, LenProperties DEF Texts
  <2>2. QED
    BY <1>1, <1>6, <2>1, TextsEqual
<1>8. QED
  BY <1>7

-----------------------------------------------------------------------------
(* The refinement: putc and printing on a console *)

\* A page and a cursor as the abstract specification has them.
Console(new) == [page |-> Lines(new.page), at |-> Place(new.at)]

LEMMA FitIsRoll ==
  ASSUME NEW page \in Pages, NEW at \in [x : 0 .. NumCols - 1, y : 0 .. NumRows]
  PROVE  Abstract!Roll(Lines(page), at.y + 1, at.x + 1) = Console(Fit(page, at))
<1>0. at.y \in 0 .. NumRows /\ at.x \in 0 .. NumCols - 1 /\ NumRows \in Nat
  BY DisplayAssumption
<1>1. CASE at.y = NumRows
  <2>1. at.y + 1 > NumRows
    BY <1>0, <1>1
  <2>2. /\ Fit(page, at).page = Scroll(page)
        /\ Fit(page, at).at.x = at.x /\ Fit(page, at).at.y = NumRows - 1
    BY <1>1 DEF Fit
  <2>3. Place(Fit(page, at).at) = <<NumRows, at.x + 1>>
    <3>1. (NumRows - 1) + 1 = NumRows
      BY <1>0
    <3>2. QED
      BY <2>2, <3>1 DEF Place
  <2>4. QED
    BY <2>1, <2>2, <2>3, LinesOfScroll DEF Abstract!Roll, Console
<1>2. CASE at.y # NumRows
  <2>1. ~ (at.y + 1 > NumRows)
    BY <1>0, <1>2
  <2>2. QED
    BY <1>2, <2>1 DEF Fit, Abstract!Roll, Console, Place
<1>3. QED
  BY <1>1, <1>2

\* putc does to page and cursor what printing does to a console.
LEMMA PutIsAfter ==
  ASSUME NEW page \in Pages, NEW at \in Positions,
         NEW c \in Chars \cup {newline, backspace}, ~AtOrigin(at, c)
  PROVE  Abstract!After(Lines(page), Place(at), c) = Console(Put(page, at, c))
<1>0. /\ at.y \in 0 .. NumRows - 1 /\ at.x \in 0 .. NumCols - 1
      /\ NumRows \in Nat \ {0} /\ NumCols \in Nat \ {0} /\ newline # backspace
      /\ at = [x |-> at.x, y |-> at.y]
      /\ Place(at)[1] = at.y + 1 /\ Place(at)[2] = at.x + 1
  BY DisplayAssumption DEF Positions, Place
<1>1. CASE c = newline
  <2> DEFINE next == [x |-> 0, y |-> at.y + 1]
  <2>1. next \in [x : 0 .. NumCols - 1, y : 0 .. NumRows]
    BY <1>0
  <2>2. Abstract!Roll(Lines(page), next.y + 1, next.x + 1) = Console(Fit(page, next))
    BY <2>1, FitIsRoll
  <2>3. next.y + 1 = Place(at)[1] + 1 /\ next.x + 1 = 1
    BY <1>0
  <2>4. Abstract!Roll(Lines(page), Place(at)[1] + 1, 1) = Console(Fit(page, next))
    BY <2>2, <2>3
  <2>5. QED
    BY <1>1, <2>4 DEF Put, Abstract!After
<1>2. CASE c = backspace
  <2> DEFINE new == [page EXCEPT ![Cell(Back(at))] = blank]
             before == IF Place(at)[2] > 1 THEN <<Place(at)[1], Place(at)[2] - 1>>
                       ELSE <<Place(at)[1] - 1, NumCols>>
             erased == [Lines(page) EXCEPT ![before[1]][before[2]] = blank]
  <2>1. at # Origin /\ c # newline
    BY <1>0, <1>2 DEF AtOrigin
  <2>2. Back(at) \in Positions
    BY <2>1, BackOnScreen
  <2>3. Place(at) # Abstract!Home
    BY <1>0, <2>1 DEF Place, Abstract!Home, Origin
  <2>4. before = Place(Back(at)) /\ before[1] = Back(at).y + 1 /\ before[2] = Back(at).x + 1
    <3>1. CASE at.x = 0
      <4>1. Back(at).x = NumCols - 1 /\ Back(at).y = at.y - 1
        BY <3>1 DEF Back
      <4>2. before = <<at.y, NumCols>>
        BY <3>1, <1>0
      <4>3. (NumCols - 1) + 1 = NumCols /\ (at.y - 1) + 1 = at.y
        BY <1>0
      <4>4. QED
        BY <4>1, <4>2, <4>3 DEF Place
    <3>2. CASE at.x # 0
      <4>1. Back(at).x = at.x - 1 /\ Back(at).y = at.y
        BY <1>0, <3>2 DEF Back
      <4>2. before = <<at.y + 1, at.x>>
        BY <3>2, <1>0
      <4>3. (at.x - 1) + 1 = at.x
        BY <1>0
      <4>4. QED
        BY <4>1, <4>2, <4>3 DEF Place
    <3>3. QED
      BY <3>1, <3>2
  <2> HIDE DEF before
  <2>5. Lines(new) = erased
    BY <2>2, <2>4, LinesOfChange
  <2>6. Put(page, at, c) = [page |-> new, at |-> Back(at)]
    BY <1>2, <2>1 DEF Put
  <2>7. Abstract!After(Lines(page), Place(at), c) = [page |-> erased, at |-> before]
    BY <1>2, <2>1, <2>3 DEF Abstract!After, Abstract!Erased, before
  <2> HIDE DEF new, erased
  <2>8. QED
    BY <2>4, <2>5, <2>6, <2>7 DEF Console
<1>3. CASE c # newline /\ c # backspace
  <2> DEFINE new == [page EXCEPT ![Cell(at)] = c]
             printed == [Lines(page) EXCEPT ![Place(at)[1]][Place(at)[2]] = c]
  <2>1. Lines(new) = printed
    <3>1. c \in Chars \cup {blank}
      BY <1>3
    <3>2. QED
      BY <3>1, <1>0, LinesOfChange
  <2>2. new \in Pages
    BY <1>3, CellOnPage DEF Pages
  <2>3. Abstract!Roll(Lines(new), Forward(at).y + 1, Forward(at).x + 1)
          = Console(Fit(new, Forward(at)))
    BY <2>2, ForwardInReach, FitIsRoll
  <2>4. Abstract!Printed(Lines(page), Place(at), c)
          = Abstract!Roll(printed, Forward(at).y + 1, Forward(at).x + 1)
    <3>1. CASE at.x + 1 = NumCols
      <4>1. Forward(at).y + 1 = Place(at)[1] + 1 /\ Forward(at).x + 1 = 1
        BY <1>0, <3>1 DEF Forward
      <4>2. QED
        BY <1>0, <3>1, <4>1 DEF Abstract!Printed
    <3>2. CASE at.x + 1 # NumCols
      <4>1. Forward(at).y + 1 = Place(at)[1] /\ Forward(at).x + 1 = Place(at)[2] + 1
        BY <1>0, <3>2 DEF Forward
      <4>2. QED
        BY <1>0, <3>2, <4>1 DEF Abstract!Printed
    <3>3. QED
      BY <3>1, <3>2
  <2> HIDE DEF new, printed
  <2>5. Put(page, at, c) = Fit(new, Forward(at))
    BY <1>3 DEF Put, new
  <2>6. Abstract!After(Lines(page), Place(at), c) = Abstract!Printed(Lines(page), Place(at), c)
    BY <1>3 DEF Abstract!After
  <2>7. QED
    BY <2>1, <2>3, <2>4, <2>5, <2>6
<1>4. QED
  BY <1>1, <1>2, <1>3

-----------------------------------------------------------------------------
(* The refinement: every step *)

\* The variables of the abstract specification.
Text     == [t \in Terminals |-> Lines(memory[IF t = visible_terminal THEN Vga ELSE t])]
Position == [t \in Terminals |-> Place(cursor[t])]

AbstractShows == Abstract!ShowsVisible

RInv == IInv /\ PageRestored

\* The screen and the blinking cursor are the visible console's in every state the
\* invariant allows.
LEMMA ShowsVisible == IInv => AbstractShows
BY DEF IInv, TypeOK, BlinksAtVisible, AbstractShows, Abstract!ShowsVisible

LEMMA RefinesInit == Init => Abstract!Init
<1> SUFFICES ASSUME Init PROVE Abstract!Init
  OBVIOUS
<1>1. Abstract!ShowsVisible
  BY InitIInv, ShowsVisible DEF AbstractShows
<1>2. \A t \in Terminals : memory[IF t = visible_terminal THEN Vga ELSE t] = BlankPage
  BY DEF Init
<1>3. Place(Origin) = Abstract!Home
  BY DEF Place, Origin, Abstract!Home
<1>4. QED
  BY <1>1, <1>2, <1>3, LinesOfBlank DEF Init, Abstract!Init

\* The abstract steps, by the names of the mapping.
LEMMA PutOnConsole ==
  ASSUME NEW t \in Terminals, NEW c, NEW new,
         Abstract!After(Text[t], Position[t], c) = new,
         Text' = [Text EXCEPT ![t] = new.page],
         Position' = [Position EXCEPT ![t] = new.at],
         UNCHANGED visible_terminal
  PROVE  Abstract!Put(t, c)
BY Zenon DEF Abstract!Put, Text, Position

LEMMA PutVisibleRefines ==
  ASSUME RInv, NEW c \in Chars \cup {newline, backspace}, PutVisible(c)
  PROVE  Abstract!Put(visible_terminal, c)
<1> DEFINE t   == visible_terminal
           new == Put(memory[Vga], cursor[t], c)
<1>1. /\ memory[Vga] \in Pages /\ cursor[t] \in Positions /\ ~AtOrigin(cursor[t], c)
      /\ t \in Terminals /\ t # Vga
  BY DisplayAssumption DEF RInv, IInv, TypeOK, PageRestored, PutVisible, Pages, Terminals, Vga
<1>2. Abstract!After(Lines(memory[Vga]), Place(cursor[t]), c) = Console(new)
  BY <1>1, PutIsAfter
<1>3. /\ memory' = [memory EXCEPT ![Vga] = new.page]
      /\ cursor' = [cursor EXCEPT ![t] = new.at]
      /\ visible_terminal' = t
  BY DEF RInv, PageRestored, PutVisible
<1> HIDE DEF new
<1>4. Text' = [Text EXCEPT ![t] = Lines(new.page)]
  <2>1. \A u \in Terminals : u # Vga
    BY DisplayAssumption DEF Terminals, Vga
  <2>2. ASSUME NEW u \in Terminals
        PROVE  memory'[IF u = visible_terminal' THEN Vga ELSE u]
                 = IF u = t THEN new.page ELSE memory[IF u = t THEN Vga ELSE u]
    BY <1>1, <1>3, <2>1 DEF RInv, IInv, TypeOK
  <2>3. QED
    BY <2>2 DEF Text
<1>5. Position' = [Position EXCEPT ![t] = Place(new.at)]
  BY <1>1, <1>3 DEF RInv, IInv, TypeOK, Position
<1>6. Text[t] = Lines(memory[Vga]) /\ Position[t] = Place(cursor[t])
  BY <1>1 DEF Text, Position
<1>7. QED
  <2>1. Abstract!After(Text[t], Position[t], c) = Console(new)
    BY <1>2, <1>6
  <2>2. Console(new).page = Lines(new.page) /\ Console(new).at = Place(new.at)
    BY DEF Console
  <2>3. QED
    BY <1>1, <1>3, <1>4, <1>5, <2>1, <2>2, PutOnConsole

LEMMA PutBackgroundRefines ==
  ASSUME RInv, NEW c \in Chars \cup {newline, backspace}, PutBackground(c),
         scheduled_terminal # visible_terminal
  PROVE  Abstract!Put(scheduled_terminal, c)
<1> DEFINE t   == scheduled_terminal
           new == Put(memory[t], cursor[t], c)
<1>1. /\ memory[t] \in Pages /\ cursor[t] \in Positions /\ ~AtOrigin(cursor[t], c)
      /\ t \in Terminals /\ t # Vga /\ t # visible_terminal
  BY DisplayAssumption DEF RInv, IInv, TypeOK, PutBackground, Pages, Terminals, Vga
<1>2. Abstract!After(Lines(memory[t]), Place(cursor[t]), c) = Console(new)
  BY <1>1, PutIsAfter
<1>3. /\ memory' = [memory EXCEPT ![t] = new.page]
      /\ cursor' = [cursor EXCEPT ![t] = new.at]
      /\ visible_terminal' = visible_terminal
  BY DEF PutBackground
<1> HIDE DEF new
<1>4. Text' = [Text EXCEPT ![t] = Lines(new.page)]
  <2>1. ASSUME NEW u \in Terminals
        PROVE  memory'[IF u = visible_terminal' THEN Vga ELSE u]
                 = IF u = t THEN new.page
                   ELSE memory[IF u = visible_terminal THEN Vga ELSE u]
    BY <1>1, <1>3 DEF RInv, IInv, TypeOK
  <2>2. QED
    BY <2>1 DEF Text
<1>5. Position' = [Position EXCEPT ![t] = Place(new.at)]
  BY <1>1, <1>3 DEF RInv, IInv, TypeOK, Position
<1>6. Text[t] = Lines(memory[t]) /\ Position[t] = Place(cursor[t])
  BY <1>1 DEF Text, Position
<1>7. QED
  <2>1. Abstract!After(Text[t], Position[t], c) = Console(new)
    BY <1>2, <1>6
  <2>2. Console(new).page = Lines(new.page) /\ Console(new).at = Place(new.at)
    BY DEF Console
  <2>3. QED
    BY <1>1, <1>3, <1>4, <1>5, <2>1, <2>2, PutOnConsole

LEMMA ClearRefines ==
  ASSUME RInv, Clear
  PROVE  Abstract!Clear
<1>1. \A u \in Terminals : u # Vga
  BY DisplayAssumption DEF Terminals, Vga
<1>2. Lines(BlankPage) = Abstract!BlankPage /\ Place(Origin) = Abstract!Home
  BY LinesOfBlank DEF Place, Origin, Abstract!Home
<1>3. Text' = [Text EXCEPT ![visible_terminal] = Abstract!BlankPage]
  <2>1. ASSUME NEW u \in Terminals
        PROVE  memory'[IF u = visible_terminal' THEN Vga ELSE u]
                 = IF u = visible_terminal THEN BlankPage
                   ELSE memory[IF u = visible_terminal THEN Vga ELSE u]
    BY <1>1 DEF RInv, IInv, TypeOK, PageRestored, Clear
  <2>2. QED
    BY <1>2, <2>1 DEF Text
<1>4. Position' = [Position EXCEPT ![visible_terminal] = Abstract!Home]
  BY <1>2 DEF RInv, IInv, TypeOK, Position, Clear
<1>5. UNCHANGED visible_terminal
  BY DEF Clear
<1>6. QED
  BY <1>3, <1>4, <1>5, Zenon DEF Abstract!Clear, Text, Position

\* The text that is hidden is saved before the other is shown, and with it the
\* cursor the screen has.
LEMMA SwitchRefines ==
  ASSUME RInv, NEW t \in Terminals, SwitchVisible(t)
  PROVE  Abstract!Switch(t)
<1> DEFINE from == visible_terminal
<1>1. \A u \in Terminals : u # Vga
  BY DisplayAssumption DEF Terminals, Vga
<1>2. t # from /\ from \in Terminals /\ vidmem_page = Vga /\ screen = cursor[from]
  BY DEF RInv, IInv, TypeOK, PageRestored, SwitchVisible
<1>3. /\ memory' = [[memory EXCEPT ![from] = memory[Vga]] EXCEPT ![Vga] = memory[t]]
      /\ cursor' = [cursor EXCEPT ![from] = cursor[from]]
      /\ visible_terminal' = t
  BY <1>1, <1>2 DEF SwitchVisible, ChangePage, RInv, IInv, TypeOK
<1>4. Text' = Text
  <2>1. ASSUME NEW u \in Terminals
        PROVE  memory'[IF u = visible_terminal' THEN Vga ELSE u]
                 = memory[IF u = visible_terminal THEN Vga ELSE u]
    BY <1>1, <1>2, <1>3 DEF RInv, IInv, TypeOK
  <2>2. QED
    BY <2>1 DEF Text
<1>5. Position' = Position
  BY <1>3 DEF RInv, IInv, TypeOK, Position
<1>6. QED
  BY <1>3, <1>4, <1>5, Zenon DEF Abstract!Switch, Text, Position

\* A tick changes nothing that the consoles show.
LEMMA TickStutters ==
  ASSUME \/ Tick
         \/ UNCHANGED vars
  PROVE  UNCHANGED Abstract!vars
BY DEF Tick, vars, Abstract!vars

\* A backspace at the origin of a background terminal loses the page and stutters
\* for the consoles.
LEMMA OriginStutters ==
  ASSUME NEW c, PutBackgroundAtOrigin(c)
  PROVE  UNCHANGED Abstract!vars
BY DEF PutBackgroundAtOrigin, Abstract!vars

\* The step of ImplementsConsoles.
StepsAsConsoles == PageRestored => Abstract!Next \/ UNCHANGED Abstract!vars

LEMMA NextRefines ==
  ASSUME IInv, IInv', [Next]_vars
  PROVE  StepsAsConsoles
<1> SUFFICES ASSUME PageRestored
             PROVE  Abstract!Next \/ UNCHANGED Abstract!vars
  BY DEF StepsAsConsoles
<1>0. Controls \subseteq {newline, backspace} /\ RInv
  BY DisplayAssumption DEF RInv
<1>1. AbstractShows'
  BY DEF IInv, TypeOK, BlinksAtVisible, AbstractShows, Abstract!ShowsVisible
<1>2. ASSUME NEW c \in Chars \cup Controls, Write(c)
      PROVE  (\E t \in Terminals : Abstract!Put(t, c)) \/ UNCHANGED Abstract!vars
  <2>0. /\ c \in Chars \cup {newline, backspace}
        /\ visible_terminal \in Terminals /\ scheduled_terminal \in Terminals
    BY <1>0, DisplayAssumption DEF IInv, TypeOK
  <2>1. CASE PutVisible(c)
    BY <1>0, <2>0, <2>1, PutVisibleRefines
  <2>2. CASE scheduled_terminal # visible_terminal /\ PutBackground(c)
    BY <1>0, <2>0, <2>2, PutBackgroundRefines
  <2>3. CASE PutBackgroundAtOrigin(c)
    BY <2>3, OriginStutters
  <2>4. QED
    BY <1>2, <2>1, <2>2, <2>3 DEF Write
<1>3. ASSUME NEW c \in Chars \cup {newline, backspace}, Echo(c)
      PROVE  \E t \in Terminals : Abstract!Put(t, c)
  BY <1>0, <1>3, PutVisibleRefines DEF Echo, IInv, TypeOK
<1>4. ASSUME NEW c \in Chars \cup {newline, backspace},
             \E t \in Terminals : Abstract!Put(t, c)
      PROVE  Abstract!Next
  BY <1>1, <1>4 DEF Abstract!Next, AbstractShows
<1>5. CASE \E c \in Chars \cup Controls : Write(c)
  BY <1>0, <1>2, <1>4, <1>5
<1>6. CASE \E c \in Chars \cup {newline, backspace} : Echo(c)
  BY <1>3, <1>4, <1>6
<1>7. CASE Clear
  <2>1. Abstract!Clear
    BY <1>0, <1>7, ClearRefines
  <2>2. QED
    BY <1>1, <2>1 DEF Abstract!Next, AbstractShows
<1>8. CASE \E t \in Terminals : SwitchVisible(t)
  <2>1. \E t \in Terminals : Abstract!Switch(t)
    BY <1>0, <1>8, SwitchRefines
  <2>2. QED
    BY <1>1, <2>1 DEF Abstract!Next, AbstractShows
<1>9. CASE Tick \/ UNCHANGED vars
  BY <1>9, TickStutters
<1>10. QED
  BY <1>5, <1>6, <1>7, <1>8, <1>9 DEF Next

\* Whatever is written, the display gives every terminal a console of its own, whatever
\* the size of the screen and the number of terminals: the arithmetic on cells,
\* scrolling, the redirected page and the order of save and load in
\* change_terminal_video_page implement lines and cursors.  Only while a backspace has
\* lost the page to a background terminal it does not.
THEOREM DisplayImplementsConsoles == Spec => ImplementsConsoles
<1>1. Init => Abstract!Init
  BY RefinesInit
<1>2. IInv /\ IInv' /\ [Next]_vars => StepsAsConsoles
  BY NextRefines
<1>3. [][StepsAsConsoles]_vars =>
        [][PageRestored => Abstract!Next \/ UNCHANGED Abstract!vars]_vars
  BY PTL DEF StepsAsConsoles
<1>4. QED
  BY <1>1, <1>2, <1>3, Invariance, PTL DEF Spec, ImplementsConsoles

\* If no process writes a backspace, the page is never lost, and Display implements
\* Consoles (putc, clear, scroll, switch_visible_terminal).
THEOREM ConsolesWithoutBackspace ==
  ASSUME backspace \notin Controls
  PROVE  Spec => Abstract!Spec
<1>1. Init => Abstract!Init
  BY RefinesInit
<1>2. IInv /\ IInv' /\ PageRestored /\ [Next]_vars => [Abstract!Next]_(Abstract!vars)
  BY NextRefines DEF StepsAsConsoles
<1>3. QED
  BY <1>1, <1>2, Invariance, PageKept, PTL DEF Spec, Abstract!Spec

==============================================================================
