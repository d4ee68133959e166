----------------------------- MODULE LineTerminals -----------------------------
(***************************************************************************)
(* What terminal input promises.  Each terminal collects one line from the *)
(* keys typed while it is visible; Enter, pressed while a process waits    *)
(* for the line, completes it; the process gets exactly the characters     *)
(* that were typed and not erased, with the newline after them, and the    *)
(* next line starts empty.                                                 *)
(***************************************************************************)
EXTENDS Integers, Sequences, FiniteSetsExt

CONSTANTS
  Terminals,
  Keys,       \* the characters that can be typed
  Capacity,   \* how many characters a line can hold before its newline
  TabWidth,
  space,
  newline

VARIABLES
  visible,    \* the terminal on the screen
  line,       \* line[t]: what has been typed
  waiting,    \* a process waits for the line
  complete,   \* Enter was pressed
  delivered   \* the line the last read returned, until the next one waits

vars == <<visible, line, waiting, complete, delivered>>

Init ==
  /\ visible \in Terminals
  /\ line = [t \in Terminals |-> <<>>]
  /\ waiting \in [Terminals -> BOOLEAN]
  /\ complete = [t \in Terminals |-> FALSE]
  /\ delivered = [t \in Terminals |-> <<>>]

Type(t, c) ==
  /\ visible = t /\ ~complete[t]
  /\ Len(line[t]) < Capacity
  /\ line' = [line EXCEPT ![t] = Append(@, c)]
  /\ UNCHANGED <<visible, waiting, complete, delivered>>

\* A tab is as many spaces as there is room for.
Tab(t) ==
  LET width == Min({TabWidth, Capacity - Len(line[t])})
  IN  /\ visible = t /\ ~complete[t]
      /\ line' = [line EXCEPT ![t] = @ \o [i \in 1 .. width |-> space]]
      /\ UNCHANGED <<visible, waiting, complete, delivered>>

Erase(t) ==
  /\ visible = t /\ ~complete[t]
  /\ line[t] # <<>>
  /\ line' = [line EXCEPT ![t] = SubSeq(@, 1, Len(@) - 1)]
  /\ UNCHANGED <<visible, waiting, complete, delivered>>

Enter(t) ==
  /\ visible = t /\ waiting[t] /\ ~complete[t]
  /\ complete' = [complete EXCEPT ![t] = TRUE]
  /\ UNCHANGED <<visible, line, waiting, delivered>>

BeginRead(t) ==
  /\ ~waiting[t]
  /\ waiting' = [waiting EXCEPT ![t] = TRUE]
  /\ delivered' = [delivered EXCEPT ![t] = <<>>]
  /\ UNCHANGED <<visible, line, complete>>

EndRead(t) ==
  /\ complete[t]
  /\ delivered' = [delivered EXCEPT ![t] = Append(line[t], newline)]
  /\ line' = [line EXCEPT ![t] = <<>>]
  /\ waiting' = [waiting EXCEPT ![t] = FALSE]
  /\ complete' = [complete EXCEPT ![t] = FALSE]
  /\ UNCHANGED visible

Switch(t) ==
  /\ visible' = t
  /\ UNCHANGED <<line, waiting, complete, delivered>>

Next ==
  \E t \in Terminals :
    \/ \E c \in Keys : Type(t, c)
    \/ Tab(t)
    \/ Erase(t)
    \/ Enter(t)
    \/ BeginRead(t)
    \/ EndRead(t)
    \/ Switch(t)

Spec == Init /\ [][Next]_vars

================================================================================
