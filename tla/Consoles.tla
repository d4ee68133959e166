------------------------------- MODULE Consoles -------------------------------
(***************************************************************************)
(* What the display promises.  Every terminal has a console of its own, a  *)
(* page of lines with a cursor; its processes print on it whether or not   *)
(* it is visible; keys are echoed on the visible one.  The screen always   *)
(* shows the visible console, and the blinking cursor is its cursor.       *)
(***************************************************************************)
EXTENDS Integers, Sequences

CONSTANTS
  Terminals,
  NumRows, NumCols,
  Chars,              \* the characters that can be printed
  blank,
  newline, backspace

VARIABLES
  text,      \* text[t]: the lines of t's console
  position,  \* position[t]: line and column of its cursor, from 1
  visible,
  shown,     \* what is on the screen
  blinking   \* where the cursor blinks

vars == <<text, position, visible, shown, blinking>>

BlankLine == [col \in 1 .. NumCols |-> blank]
BlankPage == [row \in 1 .. NumRows |-> BlankLine]
Home      == <<1, 1>>

ShowsVisible == shown = text[visible] /\ blinking = position[visible]

Init ==
  /\ text = [t \in Terminals |-> BlankPage]
  /\ position = [t \in Terminals |-> Home]
  /\ visible \in Terminals
  /\ ShowsVisible

\* A page and a cursor on line row become new ones when the line after the last
\* one is needed.
Roll(page, row, col) ==
  IF row > NumRows
  THEN [page |-> Append(Tail(page), BlankLine), at |-> <<NumRows, col>>]
  ELSE [page |-> page, at |-> <<row, col>>]

Printed(page, at, c) ==
  LET row == at[1]
      col == at[2]
      new == [page EXCEPT ![row][col] = c]
  IN  IF col = NumCols THEN Roll(new, row + 1, 1) ELSE Roll(new, row, col + 1)

Erased(page, at) ==
  LET before == IF at[2] > 1 THEN <<at[1], at[2] - 1>> ELSE <<at[1] - 1, NumCols>>
  IN  IF at = Home THEN [page |-> page, at |-> at]
      ELSE [page |-> [page EXCEPT ![before[1]][before[2]] = blank], at |-> before]

After(page, at, c) ==
  IF c = newline THEN Roll(page, at[1] + 1, 1)
  ELSE IF c = backspace THEN Erased(page, at)
  ELSE Printed(page, at, c)

Put(t, c) ==
  LET new == After(text[t], position[t], c)
  IN  /\ text' = [text EXCEPT ![t] = new.page]
      /\ position' = [position EXCEPT ![t] = new.at]
      /\ UNCHANGED visible

Clear ==
  /\ text' = [text EXCEPT ![visible] = BlankPage]
  /\ position' = [position EXCEPT ![visible] = Home]
  /\ UNCHANGED visible

Switch(t) == visible' = t /\ UNCHANGED <<text, position>>

Next ==
  /\ \/ \E t \in Terminals, c \in Chars \cup {newline, backspace} : Put(t, c)
     \/ Clear
     \/ \E t \in Terminals : Switch(t)
  /\ ShowsVisible'

Spec == Init /\ [][Next]_vars

===============================================================================
