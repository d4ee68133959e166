----------------------------- MODULE TerminalInput -----------------------------
(***************************************************************************)
(* The line discipline of the terminals: keyboard_handler, which writes    *)
(* the keyboard buffer of the visible terminal, and terminal_read, in      *)
(* which the process on the scheduled terminal waits for a line and takes  *)
(* it out of that terminal's buffer.                                       *)
(*                                                                         *)
(* keyboard_handler runs with interrupts off and is one step.  read turns  *)
(* interrupts on, so a key or a tick can arrive between any two statements *)
(* of terminal_read: each of its accesses to shared state is a step.       *)
(* The module starts when the last terminal has just been booted, which is *)
(* when the keyboard is enabled; its processes never end.                  *)
(***************************************************************************)
EXTENDS Integers, Sequences, FiniteSets

CONSTANTS
  MaxTerminals,  \* MAX_TERMINALS in terminal.h
  BufSize,       \* KEYBOARD_BUF_SIZE in keyboard.h, 128 in the code
  TabWidth,      \* spaces for a tab, 8 in the code
  Keys,          \* the printing characters of the keyboard
  ReadSizes,     \* the n_bytes processes pass to read
  Patient        \* TRUE: nobody types on a terminal from its Enter until
                 \* the read it ends has returned

CONSTANTS
  space, newline,
  nul,           \* '\0', and a flag that is 0
  one            \* a flag that is 1

ASSUME TerminalInputAssumption ==
  /\ MaxTerminals \in Nat \ {0}
  /\ BufSize \in Nat \ {0}
  /\ TabWidth \in Nat
  /\ ReadSizes \subseteq Nat \ {0}
  /\ Patient \in BOOLEAN
  /\ nul \notin Keys \cup {space, newline, one}
  /\ newline \notin Keys \cup {space}

Chars     == Keys \cup {space, newline, nul, one}
Terminals == 0 .. MaxTerminals - 1

\* terminal_t has kb_enter_flag right below kb_buf and in_terminal_read right
\* above it, and all three are chars: they are one array here.
EnterFlag      == -1
InTerminalRead == BufSize
Slots          == 0 .. BufSize - 1
Memory         == EnterFlag .. InTerminalRead

VARIABLES
  kb,                    \* kb[t]: kb_enter_flag, kb_buf and in_terminal_read of terminal t
  kb_buf_i,
  terminal_buf_n_bytes,  \* shared by all terminals
  scheduled_terminal,
  visible_terminal,
  reader                 \* reader[t]: where the process on t is in terminal_read, its n_bytes,
                         \* the buffer it passed and bytes_written; after the read, what it got

vars == <<kb, kb_buf_i, terminal_buf_n_bytes, scheduled_terminal, visible_terminal,
          reader>>

Idle == [at |-> "user", n |-> 0, buf |-> <<>>, bytes_written |-> 0]

\* The terminals booted first have reached their first read, the last one has not.
Init ==
  /\ \E n \in ReadSizes :
       /\ terminal_buf_n_bytes = n
       /\ reader = [t \in Terminals |->
                      IF t < MaxTerminals - 1 THEN [Idle EXCEPT !.at = "wait", !.n = n] ELSE Idle]
  /\ kb = [t \in Terminals |->
             [m \in Memory |-> IF m = InTerminalRead /\ reader[t].at = "wait" THEN one ELSE nul]]
  /\ kb_buf_i = [t \in Terminals |-> 0]
  /\ scheduled_terminal = MaxTerminals - 1
  /\ visible_terminal = MaxTerminals - 1

-----------------------------------------------------------------------------
(* keyboard_handler *)

\* Mutant of KbTerminal: keys go to the terminal that runs.
KbTerminalScheduled == scheduled_terminal

\* The keyboard types to the visible terminal.
KbTerminal == visible_terminal

\* A key press.  Patient users do not type into a line that is being taken; and
\* past the buffer and its two neighbours the module does not follow the index
\* (OverrunBound).
KeyPress ==
  LET t == KbTerminal
  IN  /\ Patient => kb[t][EnterFlag] = nul /\ reader[t].at # "zero"
      /\ kb_buf_i[t] \in Memory

\* Mutant of Full: the slot kept for the newline is given away.
FullAtEnd(i) == i = BufSize \/ i = terminal_buf_n_bytes

\* A character at i would overflow the keyboard buffer or the reader's.
Full(i) == i = BufSize - 1 \/ i = terminal_buf_n_bytes - 1

TypeKey(c) ==
  LET t == KbTerminal
      i == kb_buf_i[t]
  IN  /\ KeyPress
      /\ ~Full(i)
      /\ kb' = [kb EXCEPT ![t][i] = c]
      /\ kb_buf_i' = [kb_buf_i EXCEPT ![t] = i + 1]
      /\ UNCHANGED <<terminal_buf_n_bytes, scheduled_terminal, visible_terminal, reader>>

\* The slots a tab fills.
TabStops(i) == {j \in i .. i + TabWidth - 1 : j < BufSize - 1 /\ j < terminal_buf_n_bytes - 1}

TypeTab ==
  LET t == KbTerminal
      i == kb_buf_i[t]
  IN  /\ KeyPress
      /\ ~Full(i)
      /\ kb' = [kb EXCEPT ![t] = [m \in Memory |-> IF m \in TabStops(i) THEN space ELSE @[m]]]
      /\ kb_buf_i' = [kb_buf_i EXCEPT ![t] = i + Cardinality(TabStops(i))]
      /\ UNCHANGED <<terminal_buf_n_bytes, scheduled_terminal, visible_terminal, reader>>

\* Mutant of CanErase: an empty buffer is not noticed.
CanEraseAlways(i) == TRUE

CanErase(i) == i > 0

\* The erased character stays in the buffer, above the index.
Backspace ==
  LET t == KbTerminal
  IN  /\ KeyPress
      /\ CanErase(kb_buf_i[t])
      /\ kb_buf_i' = [kb_buf_i EXCEPT ![t] = @ - 1]
      /\ UNCHANGED <<kb, terminal_buf_n_bytes, scheduled_terminal, visible_terminal, reader>>

\* Mutant of EnterAllowed: Enter counts whether or not anybody reads.
EnterAlwaysAllowed(t) == TRUE

EnterAllowed(t) == kb[t][InTerminalRead] # nul

\* Enter does not look at the limits.
PressEnter ==
  LET t == KbTerminal
      i == kb_buf_i[t]
  IN  /\ KeyPress
      /\ EnterAllowed(t)
      /\ kb' = [kb EXCEPT ![t] = [@ EXCEPT ![i] = newline, ![EnterFlag] = one]]
      /\ kb_buf_i' = [kb_buf_i EXCEPT ![t] = i + 1]
      /\ UNCHANGED <<terminal_buf_n_bytes, scheduled_terminal, visible_terminal, reader>>

\* Alt+F1..F3.
SwitchVisible(t) ==
  /\ t # visible_terminal
  /\ visible_terminal' = t
  /\ UNCHANGED <<kb, kb_buf_i, terminal_buf_n_bytes, scheduled_terminal, reader>>

-----------------------------------------------------------------------------
(* The scheduler, all terminals booted *)

Tick ==
  /\ scheduled_terminal' = (scheduled_terminal + 1) % MaxTerminals
  /\ UNCHANGED <<kb, kb_buf_i, terminal_buf_n_bytes, visible_terminal, reader>>

-----------------------------------------------------------------------------
(* terminal_read, by the process on terminal t *)

\* The process runs, and the next statement it executes is the one at.
At(t, at) == scheduled_terminal = t /\ reader[t].at = at

GoTo(t, at) == reader' = [reader EXCEPT ![t].at = at]

CallRead(t, n) ==
  /\ At(t, "user")
  /\ terminal_buf_n_bytes' = n
  /\ reader' = [reader EXCEPT ![t].at = "allow", ![t].n = n]
  /\ UNCHANGED <<kb, kb_buf_i, scheduled_terminal, visible_terminal>>

AllowEcho(t) ==
  /\ At(t, "allow")
  /\ kb' = [kb EXCEPT ![t][InTerminalRead] = one]
  /\ reader' = [reader EXCEPT ![t] = [Idle EXCEPT !.at = "wait", !.n = reader[t].n]]
  /\ UNCHANGED <<kb_buf_i, terminal_buf_n_bytes, scheduled_terminal, visible_terminal>>

\* Mutant of EnterSeen: the wait looks at the terminal on the screen.
EnterSeenOnScreen(t) == kb[visible_terminal][EnterFlag] # nul

EnterSeen(t) == kb[t][EnterFlag] # nul

SeeEnter(t) ==
  /\ At(t, "wait")
  /\ EnterSeen(t)
  /\ GoTo(t, "stop")
  /\ UNCHANGED <<kb, kb_buf_i, terminal_buf_n_bytes, scheduled_terminal, visible_terminal>>

StopEcho(t) ==
  /\ At(t, "stop")
  /\ kb' = [kb EXCEPT ![t][InTerminalRead] = nul]
  /\ GoTo(t, "strip")
  /\ UNCHANGED <<kb_buf_i, terminal_buf_n_bytes, scheduled_terminal, visible_terminal>>

\* The test kb_buf_i > 0 is on the address of the index, so it always succeeds.
Strip(t) ==
  /\ At(t, "strip")
  /\ GoTo(t, IF kb[t][kb_buf_i[t] - 1] = newline THEN "copy" ELSE "erase")
  /\ UNCHANGED <<kb, kb_buf_i, terminal_buf_n_bytes, scheduled_terminal, visible_terminal>>

EraseLast(t) ==
  /\ At(t, "erase")
  /\ kb' = [kb EXCEPT ![t][kb_buf_i[t] - 1] = nul]
  /\ GoTo(t, "shorten")
  /\ UNCHANGED <<kb_buf_i, terminal_buf_n_bytes, scheduled_terminal, visible_terminal>>

Shorten(t) ==
  /\ At(t, "shorten")
  /\ kb_buf_i' = [kb_buf_i EXCEPT ![t] = @ - 1]
  /\ GoTo(t, "copy")
  /\ UNCHANGED <<kb, terminal_buf_n_bytes, scheduled_terminal, visible_terminal>>

\* strncpy: the characters up to the first nul, then nuls.  What lies above
\* in_terminal_read is rtc_active, 0 in a process that does not use the RTC.
Copied(t, n) ==
  [j \in 1 .. n |->
     IF \A m \in 0 .. j - 1 : m \in Memory /\ kb[t][m] # nul THEN kb[t][j - 1] ELSE nul]

CopyLine(t) ==
  /\ At(t, "copy")
  /\ reader' = [reader EXCEPT ![t].at = "count", ![t].buf = Copied(t, reader[t].n)]
  /\ UNCHANGED <<kb, kb_buf_i, terminal_buf_n_bytes, scheduled_terminal, visible_terminal>>

Count(t) ==
  /\ At(t, "count")
  /\ reader' = [reader EXCEPT ![t].at = "clear", ![t].bytes_written = kb_buf_i[t]]
  /\ terminal_buf_n_bytes' = BufSize
  /\ UNCHANGED <<kb, kb_buf_i, scheduled_terminal, visible_terminal>>

\* clear_keyboard_vars: index and flag, then the buffer.
ClearIndex(t) ==
  /\ At(t, "clear")
  /\ kb_buf_i' = [kb_buf_i EXCEPT ![t] = 0]
  /\ kb' = [kb EXCEPT ![t][EnterFlag] = nul]
  /\ GoTo(t, "zero")
  /\ UNCHANGED <<terminal_buf_n_bytes, scheduled_terminal, visible_terminal>>

ZeroBuffer(t) ==
  /\ At(t, "zero")
  /\ kb' = [kb EXCEPT ![t] = [m \in Memory |-> IF m \in Slots THEN nul ELSE @[m]]]
  /\ GoTo(t, "user")
  /\ UNCHANGED <<kb_buf_i, terminal_buf_n_bytes, scheduled_terminal, visible_terminal>>

\* What terminal_read does once it is called.
ReadStep(t) ==
  \/ AllowEcho(t)
  \/ SeeEnter(t)
  \/ StopEcho(t)
  \/ Strip(t)
  \/ EraseLast(t)
  \/ Shorten(t)
  \/ CopyLine(t)
  \/ Count(t)
  \/ ClearIndex(t)
  \/ ZeroBuffer(t)

-----------------------------------------------------------------------------

Keyboard ==
  \/ \E c \in Keys \cup {space} : TypeKey(c)
  \/ TypeTab
  \/ Backspace
  \/ PressEnter
  \/ \E t \in Terminals : SwitchVisible(t)

Next ==
  \/ Keyboard
  \/ Tick
  \/ \E t \in Terminals :
       \/ \E n \in ReadSizes : CallRead(t, n)
       \/ ReadStep(t)

Spec == Init /\ [][Next]_vars

\* Ticks go on for ever, and a process executes instructions between two ticks.
FairSpec == Spec /\ WF_vars(Tick) /\ \A t \in Terminals : SF_vars(ReadStep(t))

-----------------------------------------------------------------------------
(* Properties *)

ReadPoints == {"user", "allow", "wait", "stop", "strip", "erase", "shorten", "copy",
               "count", "clear", "zero"}

Readers == [at : ReadPoints, n : ReadSizes \cup {0}, buf : Seq(Chars),
            bytes_written : EnterFlag .. InTerminalRead + 1]

\* The type invariant.  A key between Enter and the end of the read takes the index
\* out of the buffer on either side; the module follows it for one slot.
TypeOK ==
  /\ kb \in [Terminals -> [Memory -> Chars]]
  /\ kb_buf_i \in [Terminals -> EnterFlag .. InTerminalRead + 1]
  /\ terminal_buf_n_bytes \in ReadSizes \cup {BufSize}
  /\ scheduled_terminal \in Terminals
  /\ visible_terminal \in Terminals
  /\ reader \in [Terminals -> Readers]
  /\ \A t \in Terminals : Len(reader[t].buf) \in ReadSizes \cup {0}

\* Whatever is typed and whenever: a line that no Enter has completed lies in the
\* buffer and leaves a slot for its newline, also after a read that keys came into,
\* wherever they took the index (keyboard_handler, terminal_read,
\* clear_keyboard_vars).
LineBound ==
  \A t \in Terminals :
    kb[t][EnterFlag] = nul /\ reader[t].at \notin {"erase", "shorten", "copy", "count", "clear"}
      => kb_buf_i[t] \in 0 .. BufSize - 1

\* A pending Enter belongs to a read that has not ended, and the echo is on only
\* while a read waits: no later read is ended by an Enter that was not meant for
\* it (keyboard_handler, terminal_read).
FlagHasReader ==
  \A t \in Terminals :
    /\ kb[t][EnterFlag] # nul => reader[t].at \notin {"user", "allow", "zero"}
    /\ kb[t][InTerminalRead] # nul <=> reader[t].at \in {"wait", "stop"}

\* Whatever is typed around it, an Enter that a read waits for ends that read
\* (keyboard_handler, terminal_read, scheduler).
EnterEndsRead ==
  \A t \in Terminals :
    (reader[t].at = "wait" /\ kb[t][EnterFlag] # nul) ~> reader[t].at = "user"

\* The line of a terminal: in its buffer, or in the reader's once that is copied.
LineOf(t) ==
  IF reader[t].at = "zero"
  THEN SubSeq(reader[t].buf, 1, reader[t].bytes_written - 1)
  ELSE LET typed == kb_buf_i[t] - IF kb[t][EnterFlag] = nul THEN 0 ELSE 1
       IN  [j \in 1 .. typed |-> kb[t][j - 1]]

Abstract == INSTANCE LineTerminals WITH
  Capacity  <- BufSize - 1,
  Keys      <- Keys \cup {space},
  visible   <- visible_terminal,
  line      <- [t \in Terminals |-> LineOf(t)],
  waiting   <- [t \in Terminals |-> reader[t].at \notin {"user", "allow"}],
  complete  <- [t \in Terminals |-> kb[t][EnterFlag] # nul \/ reader[t].at = "zero"],
  delivered <- [t \in Terminals |->
                  IF reader[t].at \in {"user", "allow"}
                  THEN SubSeq(reader[t].buf, 1, reader[t].bytes_written) ELSE <<>>]

\* keyboard_handler and terminal_read deliver the lines that were typed.
DeliversLines == Abstract!Spec

================================================================================
