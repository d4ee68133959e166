-------------------------------- MODULE Display --------------------------------
(***************************************************************************)
(* The screen and the background buffers: putc, clear and scroll of lib.c, *)
(* switch_visible_terminal of terminal.c, and the two paging functions     *)
(* they use.                                                               *)
(*                                                                         *)
(* putc is called with interrupts off, by the write system call of the     *)
(* process on the scheduled terminal or by the keyboard handler, and is    *)
(* one step.  The loops that call it for several characters (write, the    *)
(* echo of a tab, the echo of the line after Ctrl+L) are several steps     *)
(* here, which allows more interleavings than there are.                   *)
(***************************************************************************)
EXTENDS Integers, Sequences

CONSTANTS
  MaxTerminals,       \* MAX_TERMINALS in terminal.h
  NumRows, NumCols,   \* 25 and 80 in lib.c
  Chars,              \* printing characters
  Controls,           \* the control characters that processes write
  blank, newline, backspace

ASSUME DisplayAssumption ==
  /\ MaxTerminals \in Nat \ {0}
  /\ NumRows \in Nat \ {0} /\ NumCols \in Nat \ {0}
  /\ Controls \subseteq {newline, backspace}
  /\ blank \notin {newline, backspace} /\ newline # backspace
  /\ Chars \cap {newline, backspace} = {}

Terminals == 0 .. MaxTerminals - 1
Vga       == -1                         \* the page VGA displays
Cells     == 0 .. NumRows * NumCols - 1

VARIABLES
  scheduled_terminal, visible_terminal,
  memory,       \* the video page and the background buffer of each terminal
  vidmem_page,  \* which of them virtual address 0xB8000 maps
  screen,       \* screen_x and screen_y
  cursor,       \* terminals[t].cursor_x and cursor_y
  vga_cursor    \* where update_cursor put the blinking cursor

vars == <<scheduled_terminal, visible_terminal, memory, vidmem_page, screen, cursor, vga_cursor>>

BlankPage == [i \in Cells |-> blank]
Origin    == [x |-> 0, y |-> 0]

\* All terminals are booted and have been cleared with Ctrl+L.
Init ==
  /\ scheduled_terminal = 0
  /\ visible_terminal \in Terminals
  /\ memory = [p \in Terminals \cup {Vga} |-> BlankPage]
  /\ vidmem_page = Vga
  /\ screen = Origin
  /\ cursor = [t \in Terminals |-> Origin]
  /\ vga_cursor = Origin

-----------------------------------------------------------------------------
(* A character on a page *)

Cell(at) == NumCols * at.y + at.x

Scroll(page) == [i \in Cells |-> IF i < NumCols * (NumRows - 1) THEN page[i + NumCols] ELSE blank]

\* Scroll when the cursor has left the last row.
Fit(page, at) ==
  IF at.y = NumRows THEN [page |-> Scroll(page), at |-> [at EXCEPT !.y = NumRows - 1]]
  ELSE [page |-> page, at |-> at]

\* Mutant of Forward: a full row is noticed one character late.
ForwardLate(at) == IF at.x = NumCols THEN [x |-> 0, y |-> at.y + 1] ELSE [at EXCEPT !.x = @ + 1]

Forward(at) == IF at.x + 1 = NumCols THEN [x |-> 0, y |-> at.y + 1] ELSE [at EXCEPT !.x = @ + 1]

\* Mutant of Back: the previous row is not gone back to.
BackInRow(at) == [at EXCEPT !.x = @ - 1]

Back(at) == IF at.x = 0 THEN [x |-> NumCols - 1, y |-> at.y - 1] ELSE [at EXCEPT !.x = @ - 1]

\* putc's three cases; a backspace at the origin returns before them.
Put(page, at, c) ==
  IF c = newline THEN Fit(page, [x |-> 0, y |-> at.y + 1])
  ELSE IF c = backspace THEN [page |-> [page EXCEPT ![Cell(Back(at))] = blank], at |-> Back(at)]
  ELSE Fit([page EXCEPT ![Cell(at)] = c], Forward(at))

AtOrigin(at, c) == c = backspace /\ at = Origin

-----------------------------------------------------------------------------
(* putc *)

\* To the visible terminal, by its process or by the keyboard.
PutVisible(c) ==
  LET new == Put(memory[vidmem_page], screen, c)
  IN  /\ ~AtOrigin(screen, c)
      /\ memory' = [memory EXCEPT ![vidmem_page] = new.page]
      /\ screen' = new.at
      /\ cursor' = [cursor EXCEPT ![visible_terminal] = new.at]
      /\ vga_cursor' = new.at
      /\ UNCHANGED <<scheduled_terminal, visible_terminal, vidmem_page>>

\* Mutant of PutBackground: the page is not mapped back.
PutBackgroundUnrestored(c) ==
  LET t   == scheduled_terminal
      new == Put(memory[t], cursor[t], c)
  IN  /\ ~AtOrigin(cursor[t], c)
      /\ memory' = [memory EXCEPT ![t] = new.page]
      /\ cursor' = [cursor EXCEPT ![t] = new.at]
      /\ screen' = cursor[visible_terminal]
      /\ vidmem_page' = t
      /\ UNCHANGED <<scheduled_terminal, visible_terminal, vga_cursor>>

\* To a background terminal: the page is mapped to its buffer and back, and the
\* screen's cursor is taken from it and restored.
PutBackground(c) ==
  LET t   == scheduled_terminal
      new == Put(memory[t], cursor[t], c)
  IN  /\ ~AtOrigin(cursor[t], c)
      /\ memory' = [memory EXCEPT ![t] = new.page]
      /\ cursor' = [cursor EXCEPT ![t] = new.at]
      /\ screen' = cursor[visible_terminal]
      /\ vidmem_page' = Vga
      /\ UNCHANGED <<scheduled_terminal, visible_terminal, vga_cursor>>

\* A backspace at the origin of a background terminal returns with the page still
\* mapped to the buffer and the screen's cursor still the terminal's.
PutBackgroundAtOrigin(c) ==
  LET t == scheduled_terminal
  IN  /\ AtOrigin(cursor[t], c)
      /\ vidmem_page' = t
      /\ screen' = cursor[t]
      /\ UNCHANGED <<scheduled_terminal, visible_terminal, memory, cursor, vga_cursor>>

\* write by the process on the scheduled terminal.
Write(c) ==
  IF scheduled_terminal = visible_terminal THEN PutVisible(c)
  ELSE PutBackground(c) \/ PutBackgroundAtOrigin(c)

\* keyboard_handler, while the visible terminal is in terminal_read.
Echo(c) == PutVisible(c)

-----------------------------------------------------------------------------
(* Ctrl+L, Alt+F1..F3, and the timer *)

Clear ==
  /\ memory' = [memory EXCEPT ![vidmem_page] = BlankPage]
  /\ screen' = Origin
  /\ cursor' = [cursor EXCEPT ![visible_terminal] = Origin]
  /\ vga_cursor' = Origin
  /\ UNCHANGED <<scheduled_terminal, visible_terminal, vidmem_page>>

\* Mutant of ChangePage: the new screen is loaded over the old one before that is
\* saved.
ChangePageLoadFirst(from, to) ==
  LET loaded == [memory EXCEPT ![vidmem_page] = memory[to]]
  IN  memory' = [loaded EXCEPT ![from] = loaded[vidmem_page]]

\* change_terminal_video_page: save the screen, then load the other.
ChangePage(from, to) ==
  LET saved == [memory EXCEPT ![from] = memory[vidmem_page]]
  IN  memory' = [saved EXCEPT ![vidmem_page] = saved[to]]

\* Mutant of LoadCursor: only the text is switched.
LoadCursorNot(t) == UNCHANGED vga_cursor /\ screen' = cursor[t]

LoadCursor(t) == vga_cursor' = cursor[t] /\ screen' = cursor[t]

SwitchVisible(t) ==
  /\ t # visible_terminal
  /\ ChangePage(visible_terminal, t)
  /\ cursor' = [cursor EXCEPT ![visible_terminal] = screen]
  /\ LoadCursor(t)
  /\ visible_terminal' = t
  /\ UNCHANGED <<scheduled_terminal, vidmem_page>>

Tick ==
  /\ scheduled_terminal' = (scheduled_terminal + 1) % MaxTerminals
  /\ UNCHANGED <<visible_terminal, memory, vidmem_page, screen, cursor, vga_cursor>>

-----------------------------------------------------------------------------

Next ==
  \/ \E c \in Chars \cup Controls : Write(c)
  \/ \E c \in Chars \cup {newline, backspace} : Echo(c)
  \/ Clear
  \/ \E t \in Terminals : SwitchVisible(t)
  \/ Tick

Spec == Init /\ [][Next]_vars

-----------------------------------------------------------------------------
(* Properties *)

Positions == [x : 0 .. NumCols - 1, y : 0 .. NumRows - 1]

\* The type invariant: every cursor is on the screen, so that putc writes no cell
\* outside its page.
TypeOK ==
  /\ scheduled_terminal \in Terminals
  /\ visible_terminal \in Terminals
  /\ memory \in [Terminals \cup {Vga} -> [Cells -> Chars \cup {blank}]]
  /\ vidmem_page \in Terminals \cup {Vga}
  /\ screen \in Positions
  /\ cursor \in [Terminals -> Positions]
  /\ vga_cursor \in Positions

\* Between two calls the video page is mapped to the screen and the screen's cursor
\* is the visible terminal's: the next character of anybody starts from there.
\* putc says it will "restore the visible terminal's cursor and return", having
\* "redirect virt_addr 0xB8000 to point back" (lib.c:308, 311).
PageRestored == vidmem_page = Vga /\ screen = cursor[visible_terminal]

AtBackgroundOrigin ==
  scheduled_terminal # visible_terminal /\ cursor[scheduled_terminal] = Origin

\* Whatever is written, the video page and the screen's cursor are lost to the visible
\* terminal by a character that changes nothing at the origin of a background
\* terminal and by nothing else, and every character that does reach a background
\* terminal gives them back (the redirections of putc, clear,
\* switch_visible_terminal).
PageLostAtOrigin ==
  [][/\ PageRestored /\ ~PageRestored' =>
          AtBackgroundOrigin /\ UNCHANGED <<visible_terminal, memory, cursor>>
     /\ scheduled_terminal # visible_terminal
          /\ cursor'[scheduled_terminal] # cursor[scheduled_terminal] => PageRestored']_vars

\* The blinking cursor is the visible terminal's, although background terminals move
\* screen_x and screen_y (update_cursor, putc, switch_visible_terminal).
BlinksAtVisible == vga_cursor = cursor[visible_terminal]

Lines(page) ==
  [row \in 1 .. NumRows |-> [col \in 1 .. NumCols |-> page[NumCols * (row - 1) + col - 1]]]

Place(at) == <<at.y + 1, at.x + 1>>

Abstract == INSTANCE Consoles WITH
  text     <- [t \in Terminals |-> Lines(memory[IF t = visible_terminal THEN Vga ELSE t])],
  position <- [t \in Terminals |-> Place(cursor[t])],
  visible  <- visible_terminal,
  shown    <- Lines(memory[Vga]),
  blinking <- Place(vga_cursor)

\* putc, clear, scroll and switch_visible_terminal give every terminal a console of
\* its own: from wherever the video page and the cursor are the visible terminal's,
\* every call is a step of the consoles, also after the page was lost and came back.
ImplementsConsoles ==
  Abstract!Init /\ [][PageRestored => Abstract!Next \/ UNCHANGED Abstract!vars]_vars

================================================================================
