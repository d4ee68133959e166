------------------------- MODULE TerminalInputProofs -------------------------
(***************************************************************************)
(* Proofs about TerminalInput, for every number of terminals, every size   *)
(* of the keyboard buffer and every width of a tab.                        *)
(***************************************************************************)
EXTENDS TerminalInput, FiniteSetTheorems, SequenceTheorems, TLAPS

-----------------------------------------------------------------------------
(* Types, whatever the users type and when *)

\* The index is below the buffer only between the erasing of a character that was
\* not there and clear_keyboard_vars.
IndexInv ==
  \A t \in Terminals : kb_buf_i[t] >= 0 \/ reader[t].at \in {"copy", "count", "clear"}

TypeInv == TypeOK /\ IndexInv

\* How many slots a tab fills.
LEMMA TabStopsCount ==
  ASSUME NEW i \in Int, NEW n \in Nat, terminal_buf_n_bytes = n
  PROVE  /\ IsFiniteSet(TabStops(i)) /\ Cardinality(TabStops(i)) \in Nat
         /\ TabStops(i) = {} => Cardinality(TabStops(i)) = 0
         /\ \A m \in Int : (\A j \in TabStops(i) : j < m) /\ i <= m
                              => i + Cardinality(TabStops(i)) <= m
         /\ BufSize <= n /\ i < BufSize =>
              /\ TabStops(i) = i .. i + Cardinality(TabStops(i)) - 1
              /\ Cardinality(TabStops(i)) =
                   IF TabWidth <= BufSize - 1 - i THEN TabWidth ELSE BufSize - 1 - i
<1>0. TabWidth \in Nat /\ BufSize \in Nat \ {0}
  BY TerminalInputAssumption
<1>1. PICK last \in Int :
        /\ last <= i + TabWidth - 1 /\ last <= BufSize - 2 /\ last <= n - 2
        /\ last \in {i + TabWidth - 1, BufSize - 2, n - 2}
  BY <1>0
<1>2. TabStops(i) = i .. last
  BY <1>0, <1>1 DEF TabStops
<1>3. /\ IsFiniteSet(i .. last)
      /\ Cardinality(i .. last) = IF i > last THEN 0 ELSE last - i + 1
  BY <1>1, FS_Interval
<1>4. Cardinality(i .. last) \in Nat /\ i + Cardinality(i .. last) = IF i > last THEN i ELSE last + 1
  BY <1>1, <1>3
<1>5. i > last <=> i .. last = {}
  BY <1>1
<1>6. ASSUME NEW m \in Int, \A j \in i .. last : j < m, i <= m
      PROVE  i + Cardinality(i .. last) <= m
  BY <1>1, <1>4, <1>6
<1>7. ASSUME BufSize <= n, i < BufSize
      PROVE  /\ i .. last = i .. i + Cardinality(i .. last) - 1
             /\ Cardinality(i .. last) =
                  IF TabWidth <= BufSize - 1 - i THEN TabWidth ELSE BufSize - 1 - i
  BY <1>0, <1>1, <1>3, <1>4, <1>7
<1>8. QED
  BY <1>2, <1>3, <1>4, <1>5, <1>6, <1>7

\* They are the slots from the index on, when the index and the limits allow any.
LEMMA TabStopsInterval ==
  ASSUME NEW i \in Int, NEW n \in Nat, terminal_buf_n_bytes = n
  PROVE  TabStops(i) = i .. i + Cardinality(TabStops(i)) - 1
<1>0. TabWidth \in Nat /\ BufSize \in Nat \ {0}
  BY TerminalInputAssumption
<1>1. PICK last \in Int :
        /\ last <= i + TabWidth - 1 /\ last <= BufSize - 2 /\ last <= n - 2
        /\ last \in {i + TabWidth - 1, BufSize - 2, n - 2}
  BY <1>0
<1>2. TabStops(i) = i .. last
  BY <1>0, <1>1 DEF TabStops
<1>3. i + Cardinality(i .. last) - 1 = IF i > last THEN i - 1 ELSE last
  BY <1>1, FS_Interval
<1>4. i .. last = i .. (IF i > last THEN i - 1 ELSE last)
  BY <1>1
<1>5. QED
  BY <1>2, <1>3, <1>4

LEMMA ReadSizesAreNat == ReadSizes \cup {0} \subseteq Nat /\ BufSize \in Nat /\ BufSize > 0
BY TerminalInputAssumption

LEMMA CopiedIsASeq ==
  ASSUME TypeOK, NEW t \in Terminals, NEW n \in Nat
  PROVE  Copied(t, n) \in Seq(Chars) /\ Len(Copied(t, n)) = n
<1>1. \A j \in 1 .. n :
        (IF \A m \in 0 .. j - 1 : m \in Memory /\ kb[t][m] # nul THEN kb[t][j - 1] ELSE nul) \in Chars
  <2>1. SUFFICES ASSUME NEW j \in 1 .. n, \A m \in 0 .. j - 1 : m \in Memory /\ kb[t][m] # nul
                 PROVE  kb[t][j - 1] \in Chars
    BY DEF Chars
  <2>2. j - 1 \in Memory
    BY <2>1
  <2>3. QED
    BY <2>2 DEF TypeOK
<1>2. Copied(t, n) \in [1 .. n -> Chars]
  BY <1>1 DEF Copied
<1>3. QED
  BY <1>2

LEMMA IdleIsAReader ==
  /\ Idle \in Readers
  /\ \A at \in ReadPoints, n \in ReadSizes \cup {0} :
       [Idle EXCEPT !.at = at, !.n = n] \in Readers
<1>1. <<>> \in Seq(Chars)
  BY EmptySeq
<1>2. 0 \in EnterFlag .. InTerminalRead + 1 /\ "user" \in ReadPoints
  BY ReadSizesAreNat DEF EnterFlag, InTerminalRead, ReadPoints
<1>3. QED
  BY <1>1, <1>2 DEF Idle, Readers

LEMMA InitTypes == Init => TypeInv
<1> SUFFICES ASSUME Init PROVE TypeInv
  OBVIOUS
<1> USE ReadSizesAreNat DEF Init
<1>1. PICK n \in ReadSizes :
        /\ terminal_buf_n_bytes = n
        /\ reader = [t \in Terminals |->
                       IF t < MaxTerminals - 1 THEN [Idle EXCEPT !.at = "wait", !.n = n] ELSE Idle]
  OBVIOUS
<1>2. reader \in [Terminals -> Readers] /\ \A t \in Terminals : Len(reader[t].buf) = 0
  <2>1. [Idle EXCEPT !.at = "wait", !.n = n] \in Readers /\ Idle \in Readers
    BY IdleIsAReader DEF ReadPoints
  <2>2. Len([Idle EXCEPT !.at = "wait", !.n = n].buf) = 0 /\ Len(Idle.buf) = 0
    BY EmptySeq DEF Idle
  <2>3. QED
    BY <1>1, <2>1, <2>2, SMTT(30)
<1>3. kb \in [Terminals -> [Memory -> Chars]]
  BY DEF Chars
<1>4. MaxTerminals - 1 \in Terminals
  BY TerminalInputAssumption DEF Terminals
<1>5. kb_buf_i \in [Terminals -> EnterFlag .. InTerminalRead + 1]
  BY DEF EnterFlag, InTerminalRead
<1>6. QED
  BY <1>1, <1>2, <1>3, <1>4, <1>5 DEF TypeInv, TypeOK, IndexInv

LEMMA KeyboardTypes ==
  ASSUME TypeInv, Keyboard
  PROVE  TypeInv'
<1> DEFINE t == visible_terminal
           i == kb_buf_i[t]
<1> USE ReadSizesAreNat
<1>0. /\ t \in Terminals /\ i \in EnterFlag .. InTerminalRead + 1
      /\ kb \in [Terminals -> [Memory -> Chars]]
      /\ terminal_buf_n_bytes \in Nat
  BY DEF TypeInv, TypeOK
<1>1. ASSUME NEW c \in Keys \cup {space}, TypeKey(c)
      PROVE  TypeInv'
  <2>1. /\ i \in Memory /\ c \in Chars
        /\ kb' = [kb EXCEPT ![t][i] = c]
        /\ kb_buf_i' = [kb_buf_i EXCEPT ![t] = i + 1]
        /\ UNCHANGED <<terminal_buf_n_bytes, scheduled_terminal, visible_terminal, reader>>
    BY <1>1 DEF TypeKey, KbTerminal, KeyPress, Chars
  <2>2. kb' \in [Terminals -> [Memory -> Chars]]
    BY <1>0, <2>1
  <2>3. i + 1 \in EnterFlag .. InTerminalRead + 1 /\ i + 1 >= 0
    BY <2>1 DEF Memory, EnterFlag, InTerminalRead
  <2>4. QED
    BY <2>1, <2>2, <2>3 DEF TypeInv, TypeOK, IndexInv
<1>2. CASE TypeTab
  <2> DEFINE stops == TabStops(i)
  <2>1. /\ i \in Memory
        /\ kb' = [kb EXCEPT ![t] = [m \in Memory |-> IF m \in stops THEN space ELSE @[m]]]
        /\ kb_buf_i' = [kb_buf_i EXCEPT ![t] = i + Cardinality(stops)]
        /\ UNCHANGED <<terminal_buf_n_bytes, scheduled_terminal, visible_terminal, reader>>
    BY <1>2 DEF TypeTab, KbTerminal, KeyPress
  <2>2. kb' \in [Terminals -> [Memory -> Chars]]
    <3>1. [m \in Memory |-> IF m \in stops THEN space ELSE kb[t][m]] \in [Memory -> Chars]
      BY <1>0 DEF Chars
    <3>2. QED
      BY <1>0, <2>1, <3>1
  <2>3. i + Cardinality(stops) \in EnterFlag .. InTerminalRead + 1 /\ i + Cardinality(stops) >= i
    <3>1. i \in Int /\ i <= BufSize + 1 /\ \A j \in stops : j < BufSize + 1
      BY <1>0 DEF TabStops, EnterFlag, InTerminalRead
    <3>2. /\ Cardinality(stops) \in Nat
          /\ i + Cardinality(stops) <= BufSize + 1
      <4>1. terminal_buf_n_bytes \in Nat /\ BufSize + 1 \in Int
        BY <1>0, TerminalInputAssumption
      <4>2. /\ Cardinality(stops) \in Nat
            /\ \A m \in Int : (\A j \in stops : j < m) /\ i <= m => i + Cardinality(stops) <= m
        BY ONLY <3>1, <4>1, TabStopsCount
      <4>3. QED
        BY ONLY <3>1, <4>1, <4>2
    <3>3. QED
      BY <1>0, <3>1, <3>2 DEF EnterFlag, InTerminalRead
  <2> HIDE DEF stops
  <2>4. IndexInv'
    BY <1>0, <2>1, <2>3 DEF TypeInv, TypeOK, IndexInv, EnterFlag, InTerminalRead
  <2>5. QED
    BY <2>1, <2>2, <2>3, <2>4 DEF TypeInv, TypeOK
<1>3. CASE Backspace
  <2>1. i > 0 /\ kb_buf_i' = [kb_buf_i EXCEPT ![t] = i - 1]
    BY <1>3 DEF Backspace, KbTerminal, CanErase, TypeInv, TypeOK
  <2>2. i - 1 \in EnterFlag .. InTerminalRead + 1 /\ i - 1 >= 0
    BY <1>0, <2>1 DEF EnterFlag, InTerminalRead
  <2>3. QED
    BY <1>3, <2>1, <2>2 DEF Backspace, TypeInv, TypeOK, IndexInv
<1>4. CASE PressEnter
  <2>1. /\ i \in Memory
        /\ kb' = [kb EXCEPT ![t] = [@ EXCEPT ![i] = newline, ![EnterFlag] = one]]
        /\ kb_buf_i' = [kb_buf_i EXCEPT ![t] = i + 1]
        /\ UNCHANGED <<terminal_buf_n_bytes, scheduled_terminal, visible_terminal, reader>>
    BY <1>4 DEF PressEnter, KbTerminal, KeyPress
  <2>2. kb' \in [Terminals -> [Memory -> Chars]]
    <3>1. [kb[t] EXCEPT ![i] = newline, ![EnterFlag] = one] \in [Memory -> Chars]
      BY <1>0, <2>1 DEF Chars
    <3>2. QED
      BY <1>0, <2>1, <3>1
  <2>3. i + 1 \in EnterFlag .. InTerminalRead + 1 /\ i + 1 >= 0
    BY <2>1 DEF Memory, EnterFlag, InTerminalRead
  <2>4. QED
    BY <2>1, <2>2, <2>3 DEF TypeInv, TypeOK, IndexInv
<1>5. ASSUME NEW u \in Terminals, SwitchVisible(u)
      PROVE  TypeInv'
  BY <1>5 DEF SwitchVisible, TypeInv, TypeOK, IndexInv
<1>6. QED
  BY <1>1, <1>2, <1>3, <1>4, <1>5 DEF Keyboard

LEMMA ReadTypes ==
  ASSUME TypeInv, NEW t \in Terminals,
         \/ \E n \in ReadSizes : CallRead(t, n)
         \/ ReadStep(t)
  PROVE  TypeInv'
<1> USE ReadSizesAreNat DEF EnterFlag, InTerminalRead
<1>0. /\ reader[t] \in Readers /\ reader[t].n \in ReadSizes \cup {0}
      /\ kb_buf_i[t] \in -1 .. BufSize + 1
      /\ kb_buf_i[t] >= 0 \/ reader[t].at \in {"copy", "count", "clear"}
  BY DEF TypeInv, TypeOK, Readers, IndexInv
<1> USE DEF TypeInv, TypeOK, IndexInv
<1>1. ASSUME NEW n \in ReadSizes, CallRead(t, n)
      PROVE  TypeInv'
  <2>1. [reader[t] EXCEPT !.at = "allow", !.n = n] \in Readers
    BY <1>0 DEF Readers, ReadPoints
  <2>2. reader' = [reader EXCEPT ![t] = [reader[t] EXCEPT !.at = "allow", !.n = n]]
    BY <1>0, <1>1 DEF CallRead, Readers
  <2>3. kb_buf_i[t] >= 0
    BY <1>0, <1>1 DEF CallRead, At
  <2> DEFINE called == [reader[t] EXCEPT !.at = "allow", !.n = n]
  <2>4. called.buf = reader[t].buf
    BY <1>0 DEF Readers
  <2> HIDE DEF called
  <2>5. QED
    BY <1>1, <2>1, <2>2, <2>3, <2>4, ZenonT(60) DEF CallRead, called
<1>2. CASE AllowEcho(t)
  <2>1. [Idle EXCEPT !.at = "wait", !.n = reader[t].n] \in Readers
    BY <1>0, IdleIsAReader DEF ReadPoints
  <2>2. kb' \in [Terminals -> [Memory -> Chars]]
    BY <1>2 DEF AllowEcho, Chars
  <2>3. QED
    BY <1>0, <1>2, <2>1, <2>2 DEF AllowEcho, At, Idle
<1>3. ASSUME NEW at \in ReadPoints, GoTo(t, at), UNCHANGED <<kb, kb_buf_i>>,
             UNCHANGED <<terminal_buf_n_bytes, scheduled_terminal, visible_terminal>>,
             reader[t].at \notin {"copy", "count", "clear"}
      PROVE  TypeInv'
  <2>1. [reader[t] EXCEPT !.at = at] \in Readers
    BY <1>0 DEF Readers
  <2>2. QED
    BY <1>0, <1>3, <2>1 DEF GoTo
<1>4. CASE SeeEnter(t)
  BY <1>3, <1>4 DEF SeeEnter, At, ReadPoints
<1>5. CASE StopEcho(t)
  <2>1. kb' \in [Terminals -> [Memory -> Chars]]
    BY <1>5 DEF StopEcho, Chars
  <2>2. [reader[t] EXCEPT !.at = "strip"] \in Readers
    BY <1>0 DEF Readers, ReadPoints
  <2>3. QED
    BY <1>0, <1>5, <2>1, <2>2 DEF StopEcho, At, GoTo
<1>6. CASE Strip(t)
  BY <1>3, <1>6 DEF Strip, At, ReadPoints
<1>7. CASE EraseLast(t)
  <2>1. kb' \in [Terminals -> [Memory -> Chars]]
    BY <1>7 DEF EraseLast, Chars
  <2>2. [reader[t] EXCEPT !.at = "shorten"] \in Readers
    BY <1>0 DEF Readers, ReadPoints
  <2>3. QED
    BY <1>0, <1>7, <2>1, <2>2 DEF EraseLast, At, GoTo
<1>8. CASE Shorten(t)
  <2>1. [reader[t] EXCEPT !.at = "copy"] \in Readers
    BY <1>0 DEF Readers, ReadPoints
  <2>2. kb_buf_i[t] - 1 \in -1 .. BufSize + 1
    BY <1>0, <1>8 DEF Shorten, At
  <2>3. QED
    BY <1>0, <1>8, <2>1, <2>2 DEF Shorten, At, GoTo
<1>9. CASE CopyLine(t)
  <2>1. /\ Copied(t, reader[t].n) \in Seq(Chars)
        /\ Len(Copied(t, reader[t].n)) = reader[t].n
    BY <1>0, CopiedIsASeq
  <2>2. [reader[t] EXCEPT !.at = "count", !.buf = Copied(t, reader[t].n)] \in Readers
    BY <1>0, <2>1 DEF Readers, ReadPoints
  <2>3. QED
    BY <1>0, <1>9, <2>1, <2>2 DEF CopyLine, At
<1>10. CASE Count(t)
  <2>1. [reader[t] EXCEPT !.at = "clear", !.bytes_written = kb_buf_i[t]] \in Readers
    BY <1>0 DEF Readers, ReadPoints
  <2>2. QED
    BY <1>0, <1>10, <2>1 DEF Count, At
<1>11. CASE ClearIndex(t)
  <2>1. kb' \in [Terminals -> [Memory -> Chars]]
    BY <1>11 DEF ClearIndex, Chars
  <2>2. [reader[t] EXCEPT !.at = "zero"] \in Readers
    BY <1>0 DEF Readers, ReadPoints
  <2>3. QED
    BY <1>0, <1>11, <2>1, <2>2 DEF ClearIndex, At, GoTo
<1>12. CASE ZeroBuffer(t)
  <2>1. kb' \in [Terminals -> [Memory -> Chars]]
    <3>1. [m \in Memory |-> IF m \in Slots THEN nul ELSE kb[t][m]] \in [Memory -> Chars]
      BY DEF Chars
    <3>2. QED
      BY <1>12, <3>1 DEF ZeroBuffer
  <2>2. [reader[t] EXCEPT !.at = "user"] \in Readers
    BY <1>0 DEF Readers, ReadPoints
  <2>3. QED
    BY <1>0, <1>12, <2>1, <2>2 DEF ZeroBuffer, At, GoTo
<1>13. QED
  BY <1>1, <1>2, <1>4, <1>5, <1>6, <1>7, <1>8, <1>9, <1>10, <1>11, <1>12 DEF ReadStep

LEMMA NextTypes == TypeInv /\ [Next]_vars => TypeInv'
<1> SUFFICES ASSUME TypeInv, [Next]_vars PROVE TypeInv'
  OBVIOUS
<1>1. CASE Keyboard
  BY <1>1, KeyboardTypes
<1>2. CASE Tick
  <2>1. scheduled_terminal' \in Terminals
    BY <1>2, TerminalInputAssumption DEF Tick, TypeInv, TypeOK, Terminals
  <2>2. QED
    BY <1>2, <2>1 DEF Tick, TypeInv, TypeOK, IndexInv
<1>3. ASSUME NEW t \in Terminals,
             (\E n \in ReadSizes : CallRead(t, n)) \/ ReadStep(t)
      PROVE  TypeInv'
  BY <1>3, ReadTypes
<1>4. CASE UNCHANGED vars
  BY <1>4 DEF vars, TypeInv, TypeOK, IndexInv
<1>5. QED
  BY <1>1, <1>2, <1>3, <1>4 DEF Next

LEMMA TypeInvariance == Spec => []TypeInv
<1>1. QED
  BY InitTypes, NextTypes, PTL DEF Spec

\* As far as the module follows the index, whatever is typed while terminal_read
\* takes a line apart, the index leaves the buffer by one slot at most, and a
\* reader's buffer has the size it asked for.
THEOREM IndexNearBuffer == Spec => []TypeOK
<1>1. TypeInv => TypeOK
  BY DEF TypeInv
<1>2. QED
  BY <1>1, TypeInvariance, PTL

-----------------------------------------------------------------------------
(* The room in a line, whatever the users type and when *)

Pending(t) == kb[t][EnterFlag] # nul

\* Nothing but clear_keyboard_vars, and the erasing of a character that was not
\* there, takes an Enter back; until then the index may be anywhere.
RoomInv(t) ==
  /\ reader[t].at \in {"stop", "strip"} => Pending(t)
  /\ ~Pending(t) /\ reader[t].at \notin {"erase", "shorten", "copy", "count", "clear"}
       => kb_buf_i[t] \in 0 .. BufSize - 1

LEMMA RoomUntouched ==
  ASSUME NEW u \in Terminals, RoomInv(u),
         kb'[u] = kb[u], kb_buf_i'[u] = kb_buf_i[u], reader'[u] = reader[u]
  PROVE  RoomInv(u)'
BY DEF RoomInv, Pending

LEMMA InitRoom == Init => \A t \in Terminals : RoomInv(t)
<1> SUFFICES ASSUME Init, NEW t \in Terminals PROVE RoomInv(t)
  OBVIOUS
<1>1. kb_buf_i[t] = 0 /\ reader[t].at \in {"wait", "user"}
  BY DEF Init, Idle
<1>2. QED
  BY <1>1, TerminalInputAssumption DEF RoomInv

\* A key: a character or a tab leaves the newline's slot, Enter is pending after it.
LEMMA KeyboardRoom ==
  ASSUME TypeInv, Keyboard, NEW t \in Terminals, RoomInv(t)
  PROVE  RoomInv(t)'
<1> USE ReadSizesAreNat
<1>1. PICK i \in Int : i = kb_buf_i[t]
  BY DEF TypeInv, TypeOK, EnterFlag, InTerminalRead
<1>2. /\ kb \in [Terminals -> [Memory -> Chars]]
      /\ kb_buf_i \in [Terminals -> EnterFlag .. InTerminalRead + 1]
      /\ terminal_buf_n_bytes \in Nat
      /\ EnterFlag \in Memory
      /\ i >= 0 \/ reader[t].at \in {"copy", "count", "clear"}
      /\ i >= -1
  BY <1>1 DEF TypeInv, TypeOK, IndexInv, Memory, EnterFlag, InTerminalRead
<1>3. CASE t # visible_terminal \/ \E v \in Terminals : SwitchVisible(v)
  <2>1. kb'[t] = kb[t] /\ kb_buf_i'[t] = kb_buf_i[t] /\ reader'[t] = reader[t]
    BY <1>2, <1>3 DEF Keyboard, TypeKey, TypeTab, Backspace, PressEnter, SwitchVisible, KbTerminal
  <2>2. QED
    BY <2>1, RoomUntouched
\* A key that does not take the Enter flag away, and keeps the room there was.
<1>4. ASSUME reader'[t] = reader[t], Pending(t) => Pending(t)',
             ~Pending(t) /\ i \in 0 .. BufSize - 1 => kb_buf_i'[t] \in 0 .. BufSize - 1
      PROVE  RoomInv(t)'
  <2>1. reader'[t].at = reader[t].at
    BY <1>4
  <2>2. QED
    BY <1>1, <1>4, <2>1 DEF RoomInv
<1>5. ASSUME t = visible_terminal, NEW c \in Keys \cup {space}, TypeKey(c)
      PROVE  RoomInv(t)'
  <2>1. /\ kb'[t] = [kb[t] EXCEPT ![i] = c] /\ kb_buf_i'[t] = i + 1
        /\ reader'[t] = reader[t] /\ i # BufSize - 1
    BY <1>1, <1>2, <1>5 DEF TypeKey, KbTerminal, Full
  <2>2. c # nul /\ kb[t] \in [Memory -> Chars]
    BY <1>2, <1>5, TerminalInputAssumption
  <2>3. kb'[t][EnterFlag] \in {c, kb[t][EnterFlag]}
    BY <1>2, <2>1, <2>2
  <2>4. Pending(t) => Pending(t)'
    BY <2>2, <2>3 DEF Pending
  <2>5. i \in 0 .. BufSize - 1 => i + 1 \in 0 .. BufSize - 1
    BY <2>1
  <2>6. QED
    BY <1>4, <2>1, <2>4, <2>5
<1>6. CASE t = visible_terminal /\ TypeTab
  <2>1. PICK last \in Int :
          /\ last = i + Cardinality(TabStops(i))
          /\ i \in 0 .. BufSize - 1 => last \in 0 .. BufSize - 1
    <3>1. \A j \in TabStops(i) : j < BufSize - 1
      BY <1>1 DEF TabStops
    <3>2. /\ Cardinality(TabStops(i)) \in Nat
          /\ i <= BufSize - 1 => i + Cardinality(TabStops(i)) <= BufSize - 1
      BY <1>1, <1>2, <3>1, TabStopsCount
    <3>3. QED
      BY <1>1, <3>2
  <2>2. /\ kb'[t] = [m \in Memory |-> IF m \in TabStops(i) THEN space ELSE kb[t][m]]
        /\ kb_buf_i'[t] = last /\ reader'[t] = reader[t]
    BY <1>1, <1>2, <1>6, <2>1 DEF TypeTab, KbTerminal
  <2>3. kb'[t][EnterFlag] \in {space, kb[t][EnterFlag]} /\ space # nul
    BY <1>2, <2>2, TerminalInputAssumption
  <2>4. Pending(t) => Pending(t)'
    BY <2>3 DEF Pending
  <2>5. QED
    BY <1>4, <2>1, <2>2, <2>4
<1>7. CASE t = visible_terminal /\ Backspace
  <2>1. /\ kb'[t] = kb[t] /\ kb_buf_i'[t] = i - 1 /\ i > 0 /\ reader'[t] = reader[t]
    BY <1>1, <1>2, <1>7 DEF Backspace, KbTerminal, CanErase
  <2>2. Pending(t) => Pending(t)'
    BY <2>1 DEF Pending
  <2>3. QED
    BY <1>4, <2>1, <2>2
<1>8. CASE t = visible_terminal /\ PressEnter
  <2>1. /\ kb'[t] = [[kb[t] EXCEPT ![i] = newline] EXCEPT ![EnterFlag] = one]
        /\ reader'[t] = reader[t]
    BY <1>1, <1>2, <1>8 DEF PressEnter, KbTerminal
  <2>2. kb'[t][EnterFlag] = one /\ one # nul
    BY <1>2, <2>1, TerminalInputAssumption
  <2>3. Pending(t)'
    BY <2>2 DEF Pending
  <2>4. QED
    BY <2>1, <2>3 DEF RoomInv
<1>9. QED
  BY <1>3, <1>5, <1>6, <1>7, <1>8 DEF Keyboard

LEMMA ReadRoom ==
  ASSUME TypeInv, NEW u \in Terminals, NEW t \in Terminals, RoomInv(t),
         \/ \E n \in ReadSizes : CallRead(u, n)
         \/ ReadStep(u)
  PROVE  RoomInv(t)'
<1>1. /\ kb \in [Terminals -> [Memory -> Chars]] /\ kb[t] \in [Memory -> Chars]
      /\ kb_buf_i \in [Terminals -> EnterFlag .. InTerminalRead + 1]
      /\ reader \in [Terminals -> Readers] /\ reader[t] \in Readers
      /\ EnterFlag \in Memory /\ EnterFlag # InTerminalRead /\ EnterFlag \notin Slots
  BY ReadSizesAreNat DEF TypeInv, TypeOK, Memory, Slots, EnterFlag, InTerminalRead
<1>2. CASE t # u
  <2>1. kb'[t] = kb[t] /\ kb_buf_i'[t] = kb_buf_i[t] /\ reader'[t] = reader[t]
    BY <1>1, <1>2 DEF CallRead, ReadStep, AllowEcho, SeeEnter, StopEcho, Strip, EraseLast, Shorten,
                      CopyLine, Count, ClearIndex, ZeroBuffer, GoTo
  <2>2. QED
    BY <2>1, RoomUntouched
\* Statements that leave the flag and the index alone, and do not end the taking.
<1>3. ASSUME t = u, kb'[t][EnterFlag] = kb[t][EnterFlag], kb_buf_i'[t] = kb_buf_i[t],
             reader'[t].at \in {"stop", "strip"} => Pending(t),
             reader[t].at \in {"erase", "shorten", "copy", "count", "clear"} =>
               reader'[t].at \in {"erase", "shorten", "copy", "count", "clear"}
      PROVE  RoomInv(t)'
  <2>1. Pending(t)' <=> Pending(t)
    BY <1>3 DEF Pending
  <2>2. QED
    BY <1>3, <2>1 DEF RoomInv
<1>4. CASE t = u /\ \E n \in ReadSizes : CallRead(u, n)
  <2>1. PICK n \in ReadSizes : CallRead(t, n)
    BY <1>4
  <2>2. reader' = [reader EXCEPT ![t] = [reader[t] EXCEPT !.at = "allow", !.n = n]]
    BY <1>1, <2>1 DEF CallRead
  <2>3. kb' = kb /\ kb_buf_i' = kb_buf_i /\ reader[t].at = "user" /\ reader'[t].at = "allow"
    BY <1>1, <2>1, <2>2, ZenonT(60) DEF CallRead, At, Readers
  <2>4. QED
    BY <1>3, <1>4, <2>3
<1>5. CASE t = u /\ AllowEcho(u)
  <2>1. /\ kb'[t] = [kb[t] EXCEPT ![InTerminalRead] = one] /\ kb_buf_i' = kb_buf_i
        /\ reader[t].at = "allow" /\ reader'[t].at = "wait"
    BY <1>1, <1>5 DEF AllowEcho, At, Idle
  <2>2. kb'[t][EnterFlag] = kb[t][EnterFlag]
    BY <1>1, <2>1
  <2>3. QED
    BY <1>3, <1>5, <2>1, <2>2
<1>6. CASE t = u /\ SeeEnter(u)
  <2>1. kb' = kb /\ kb_buf_i' = kb_buf_i /\ reader[t].at = "wait" /\ Pending(t)
    BY <1>6 DEF SeeEnter, EnterSeen, At, Pending
  <2>2. QED
    BY <1>3, <1>6, <2>1
<1>7. CASE t = u /\ StopEcho(u)
  <2>1. /\ kb'[t] = [kb[t] EXCEPT ![InTerminalRead] = nul] /\ kb_buf_i' = kb_buf_i
        /\ reader[t].at = "stop"
    BY <1>1, <1>7 DEF StopEcho, At
  <2>2. kb'[t][EnterFlag] = kb[t][EnterFlag] /\ Pending(t)
    BY <1>1, <2>1 DEF RoomInv
  <2>3. QED
    BY <1>3, <1>7, <2>1, <2>2
<1>8. CASE t = u /\ Strip(u)
  <2>1. /\ kb' = kb /\ kb_buf_i' = kb_buf_i /\ reader[t].at = "strip"
        /\ reader'[t].at \in {"copy", "erase"}
    BY <1>1, <1>8 DEF Strip, At, GoTo, Readers
  <2>2. QED
    BY <1>3, <1>8, <2>1
<1>9. CASE t = u /\ (EraseLast(u) \/ Shorten(u) \/ CopyLine(u) \/ Count(u))
  <2>1. reader'[t].at \in {"shorten", "copy", "count", "clear"}
    BY <1>1, <1>9 DEF EraseLast, Shorten, CopyLine, Count, GoTo, Readers
  <2>2. QED
    BY <2>1 DEF RoomInv
<1>10. CASE t = u /\ ClearIndex(u)
  <2>1. kb_buf_i'[t] = 0 /\ reader'[t].at = "zero"
    BY <1>1, <1>10 DEF ClearIndex, GoTo, Readers
  <2>2. QED
    BY <2>1, ReadSizesAreNat DEF RoomInv
<1>11. CASE t = u /\ ZeroBuffer(u)
  <2>1. /\ kb'[t] = [m \in Memory |-> IF m \in Slots THEN nul ELSE kb[t][m]]
        /\ kb_buf_i' = kb_buf_i /\ reader[t].at = "zero" /\ reader'[t].at = "user"
    BY <1>1, <1>11 DEF ZeroBuffer, At, GoTo, Readers
  <2>2. kb'[t][EnterFlag] = kb[t][EnterFlag]
    BY <1>1, <2>1
  <2>3. QED
    BY <1>3, <1>11, <2>1, <2>2
<1>12. QED
  BY <1>2, <1>4, <1>5, <1>6, <1>7, <1>8, <1>9, <1>10, <1>11 DEF ReadStep

\* A line that no Enter has completed lies in the buffer and leaves a slot for its
\* newline, whatever is typed and when, and whatever keys have done to the reads
\* before it (keyboard_handler, terminal_read, clear_keyboard_vars).
THEOREM LinesFit == Spec => []LineBound
<1> DEFINE Inv == TypeInv /\ \A t \in Terminals : RoomInv(t)
<1>1. Init => Inv
  BY InitTypes, InitRoom
<1>2. Inv /\ [Next]_vars => Inv'
  <2>1. SUFFICES ASSUME Inv, [Next]_vars PROVE \A t \in Terminals : RoomInv(t)'
    BY NextTypes
  <2>2. CASE Keyboard
    BY <2>1, <2>2, KeyboardRoom
  <2>3. ASSUME NEW u \in Terminals, (\E n \in ReadSizes : CallRead(u, n)) \/ ReadStep(u)
        PROVE  \A t \in Terminals : RoomInv(t)'
    BY <2>1, <2>3, ReadRoom
  <2>4. CASE Tick \/ UNCHANGED vars
    <3>1. UNCHANGED <<kb, kb_buf_i, reader>>
      BY <2>4 DEF Tick, vars
    <3>2. QED
      BY <2>1, <3>1, RoomUntouched
  <2>5. QED
    BY <2>1, <2>2, <2>3, <2>4 DEF Next
<1>3. Inv => LineBound
  BY DEF RoomInv, Pending, LineBound
<1>4. QED
  BY <1>1, <1>2, <1>3, PTL DEF Spec

-----------------------------------------------------------------------------
(* Users who wait for their prompt *)

\* The line of one terminal while it is typed and taken: an Enter is the newline
\* below the index, it is there as long as its read has not cleared it, and so
\* terminal_read never finds a character to erase.
LineInv(t) ==
  /\ Pending(t) => /\ reader[t].at \notin {"user", "allow", "zero"}
                   /\ kb_buf_i[t] \in 1 .. BufSize
                   /\ kb[t][kb_buf_i[t] - 1] = newline
  /\ ~Pending(t) => kb_buf_i[t] \in 0 .. BufSize - 1
  /\ kb[t][InTerminalRead] # nul <=> reader[t].at \in {"wait", "stop"}
  /\ reader[t].at \in {"stop", "strip", "copy", "count", "clear"} => Pending(t)
  /\ reader[t].at \notin {"erase", "shorten"}
  /\ reader[t].at = "zero" => kb_buf_i[t] = 0
  /\ \A m \in 0 .. kb_buf_i[t] - 1 : kb[t][m] # nul

PatientInv == TypeOK /\ \A t \in Terminals : LineInv(t)

LEMMA LineUntouched ==
  ASSUME NEW u \in Terminals, LineInv(u),
         kb'[u] = kb[u], kb_buf_i'[u] = kb_buf_i[u], reader'[u] = reader[u]
  PROVE  LineInv(u)'
BY DEF LineInv, Pending

LEMMA InitLines == Init => PatientInv
<1> SUFFICES ASSUME Init PROVE PatientInv
  OBVIOUS
<1> USE ReadSizesAreNat
<1>1. TypeOK
  BY InitTypes DEF TypeInv
<1>2. ASSUME NEW t \in Terminals
      PROVE  /\ kb_buf_i[t] = 0 /\ kb[t][EnterFlag] = nul
             /\ kb[t][InTerminalRead] = IF reader[t].at = "wait" THEN one ELSE nul
             /\ reader[t].at \in {"wait", "user"}
  <2>1. EnterFlag \in Memory /\ InTerminalRead \in Memory /\ EnterFlag # InTerminalRead
    BY DEF Memory, EnterFlag, InTerminalRead
  <2>2. QED
    BY <2>1 DEF Init, Idle
<1>3. ASSUME NEW t \in Terminals
      PROVE  LineInv(t)
  BY <1>2, TerminalInputAssumption DEF LineInv, Pending
<1>4. QED
  BY <1>1, <1>3 DEF PatientInv

\* A step that leaves the flags alone and a line without a nul.
LEMMA TypedLine ==
  ASSUME NEW t \in Terminals, LineInv(t), ~Pending(t), reader[t].at # "zero",
         reader'[t] = reader[t],
         kb'[t][EnterFlag] = kb[t][EnterFlag],
         kb'[t][InTerminalRead] = kb[t][InTerminalRead],
         kb_buf_i'[t] \in 0 .. BufSize - 1,
         \A m \in 0 .. kb_buf_i'[t] - 1 : kb'[t][m] # nul
  PROVE  LineInv(t)'
<1>1. ~Pending(t)'
  BY DEF Pending
<1>2. reader'[t].at = reader[t].at
  OBVIOUS
<1>3. QED
  BY <1>1, <1>2 DEF LineInv

\* A key on the visible terminal, whose line is not being taken.
LEMMA KeyboardLines ==
  ASSUME Patient, PatientInv, TypeOK', Keyboard
  PROVE  PatientInv'
<1> USE ReadSizesAreNat, TerminalInputAssumption
<1>1. SUFFICES ASSUME NEW t \in Terminals PROVE LineInv(t)'
  BY DEF PatientInv
<1>2. PICK i \in Int : i = kb_buf_i[t]
  BY DEF PatientInv, TypeOK, EnterFlag, InTerminalRead
<1>3. /\ t \in Terminals /\ LineInv(t) /\ i = kb_buf_i[t]
      /\ kb \in [Terminals -> [Memory -> Chars]]
      /\ kb_buf_i \in [Terminals -> EnterFlag .. InTerminalRead + 1]
      /\ terminal_buf_n_bytes \in Nat
  BY <1>2 DEF PatientInv, TypeOK
<1>4. CASE t # visible_terminal \/ \E v \in Terminals : SwitchVisible(v)
  <2>1. kb'[t] = kb[t] /\ kb_buf_i'[t] = kb_buf_i[t] /\ reader'[t] = reader[t]
    BY <1>3, <1>4 DEF Keyboard, TypeKey, TypeTab, Backspace, PressEnter, SwitchVisible, KbTerminal
  <2>2. QED
    BY <2>1, LineUntouched DEF PatientInv
<1>5. ASSUME t = visible_terminal, KeyPress
      PROVE  /\ ~Pending(t) /\ reader[t].at # "zero"
             /\ i \in 0 .. BufSize - 1
             /\ i \in Memory /\ EnterFlag \in Memory /\ InTerminalRead \in Memory
             /\ \A m \in 0 .. i : m \in Memory /\ m # EnterFlag /\ m # InTerminalRead
             /\ \A m \in 0 .. i - 1 : kb[t][m] # nul
  <2>1. EnterFlag = -1 /\ InTerminalRead = BufSize /\ BufSize \in Nat
    BY DEF EnterFlag, InTerminalRead
  <2>2. kb[t][EnterFlag] = nul /\ visible_terminal = t
    BY <1>5 DEF KeyPress, KbTerminal
  <2>3. ~Pending(t) /\ reader[t].at # "zero"
    BY <1>5 DEF KeyPress, KbTerminal, Pending
  <2>4. i \in 0 .. BufSize - 1 /\ \A m \in 0 .. i - 1 : kb[t][m] # nul
    BY <1>3, <2>1, <2>3 DEF LineInv
  <2>5. Memory = -1 .. BufSize
    BY <2>1 DEF Memory
  <2>6. QED
    BY ONLY <2>1, <2>3, <2>4, <2>5
<1>6. ASSUME t = visible_terminal, NEW c \in Keys \cup {space}, TypeKey(c)
      PROVE  LineInv(t)'
  <2>1. /\ kb'[t] = [kb[t] EXCEPT ![i] = c] /\ kb_buf_i'[t] = i + 1
        /\ reader'[t] = reader[t] /\ KeyPress /\ i # BufSize - 1
    BY <1>3, <1>6 DEF TypeKey, KbTerminal, Full
  <2>2. i + 1 \in 0 .. BufSize - 1 /\ c # nul
    BY <1>5, <1>6, <2>1
  <2>3. kb[t] \in [Memory -> Chars]
    BY <1>3
  <2>4. /\ kb'[t][EnterFlag] = kb[t][EnterFlag]
        /\ kb'[t][InTerminalRead] = kb[t][InTerminalRead]
        /\ \A m \in 0 .. i : kb'[t][m] = IF m = i THEN c ELSE kb[t][m]
    <3>1. i # EnterFlag /\ i # InTerminalRead
      BY <1>5, <1>6, <2>1
    <3>2. QED
      BY <1>5, <1>6, <2>1, <2>3, <3>1
  <2>5. \A m \in 0 .. (i + 1) - 1 : kb'[t][m] # nul
    BY <1>5, <1>6, <2>1, <2>2, <2>4
  <2>6. QED
    BY <1>3, <1>5, <1>6, <2>1, <2>2, <2>4, <2>5, TypedLine
<1>7. CASE t = visible_terminal /\ TypeTab
  <2> DEFINE stops == TabStops(i)
             last  == i + Cardinality(stops)
  <2>1. /\ kb'[t] = [m \in Memory |-> IF m \in stops THEN space ELSE kb[t][m]]
        /\ kb_buf_i'[t] = last
        /\ reader'[t] = reader[t] /\ KeyPress /\ i # BufSize - 1
    BY <1>3, <1>7 DEF TypeTab, KbTerminal, Full
  <2>2. i \in 0 .. BufSize - 1 /\ \A j \in stops : j \in i .. BufSize - 2
    BY <1>5, <1>7, <2>1 DEF TabStops
  <2>3. last \in 0 .. BufSize - 1
    <3>1. \A j \in stops : j < BufSize - 1
      BY <2>2
    <3>2. Cardinality(stops) \in Nat /\ last <= BufSize - 1
      BY <1>3, <2>2, <3>1, TabStopsCount
    <3>3. QED
      BY <2>2, <3>2
  <2>4. \A m \in 0 .. last - 1 : m \in 0 .. i - 1 \/ m \in stops
    <3>1. TabStops(i) = i .. i + Cardinality(TabStops(i)) - 1
      BY <1>3, TabStopsInterval
    <3>2. last - 1 = i + (Cardinality(stops) - 1)
      BY <1>3, TabStopsCount
    <3>3. stops = i .. last - 1
      BY <3>1, <3>2, Zenon
    <3> HIDE DEF stops, last
    <3>4. QED
      BY <2>2, <2>3, <3>3
  <2> HIDE DEF stops, last
  <2>5. EnterFlag \notin stops /\ InTerminalRead \notin stops
    BY <2>2 DEF EnterFlag, InTerminalRead
  <2>6. /\ kb'[t][EnterFlag] = kb[t][EnterFlag]
        /\ kb'[t][InTerminalRead] = kb[t][InTerminalRead]
    BY <1>5, <1>7, <2>1, <2>5
  <2>7. ASSUME NEW m \in 0 .. last - 1
        PROVE  kb'[t][m] # nul
    <3>1. m \in Memory
      BY <2>3 DEF Memory, EnterFlag, InTerminalRead
    <3>2. kb'[t][m] = IF m \in stops THEN space ELSE kb[t][m]
      BY <2>1, <3>1
    <3>3. QED
      BY <1>5, <1>7, <2>1, <2>4, <3>2
  <2>8. QED
    BY <1>3, <1>5, <1>7, <2>1, <2>3, <2>6, <2>7, TypedLine
<1>8. CASE t = visible_terminal /\ Backspace
  <2>1. /\ kb'[t] = kb[t] /\ kb_buf_i'[t] = i - 1 /\ i > 0
        /\ reader'[t] = reader[t] /\ KeyPress
    BY <1>3, <1>8 DEF Backspace, KbTerminal, CanErase
  <2>2. i - 1 \in 0 .. BufSize - 1 /\ \A m \in 0 .. (i - 1) - 1 : kb'[t][m] # nul
    BY <1>5, <1>8, <2>1
  <2>3. QED
    BY <1>3, <1>5, <1>8, <2>1, <2>2, TypedLine
<1>9. CASE t = visible_terminal /\ PressEnter
  <2>1. /\ kb'[t] = [kb[t] EXCEPT ![i] = newline, ![EnterFlag] = one]
        /\ kb_buf_i'[t] = i + 1 /\ reader'[t] = reader[t] /\ KeyPress
        /\ kb[t][InTerminalRead] # nul
    BY <1>3, <1>9 DEF PressEnter, KbTerminal, EnterAllowed
  <2>2. kb[t] \in [Memory -> Chars]
    BY <1>3
  <2>3. /\ kb'[t][EnterFlag] = one
        /\ kb'[t][InTerminalRead] = kb[t][InTerminalRead]
        /\ \A m \in 0 .. i : kb'[t][m] = IF m = i THEN newline ELSE kb[t][m]
    <3>1. i # EnterFlag /\ i # InTerminalRead /\ EnterFlag # InTerminalRead
      BY <1>5, <1>9, <2>1 DEF EnterFlag, InTerminalRead
    <3>2. QED
      BY <1>5, <1>9, <2>1, <2>2, <3>1
  <2>4. reader'[t].at \in {"wait", "stop"}
    BY <1>3, <2>1 DEF LineInv
  <2>5. /\ i + 1 \in 1 .. BufSize /\ (i + 1) - 1 = i /\ i \in 0 .. i
        /\ \A m \in 0 .. i : m = i \/ m \in 0 .. i - 1
    BY <1>5, <1>9, <2>1
  <2>6. Pending(t)'
    BY <2>3 DEF Pending
  <2>7. kb'[t][i] = newline /\ \A m \in 0 .. i : kb'[t][m] # nul
    BY <1>5, <1>9, <2>1, <2>3, <2>5
  <2>8. /\ kb_buf_i'[t] \in 1 .. BufSize
        /\ kb'[t][kb_buf_i'[t] - 1] = newline
        /\ \A m \in 0 .. kb_buf_i'[t] - 1 : kb'[t][m] # nul
    BY <2>1, <2>5, <2>7
  <2>9. QED
    BY <1>3, <2>1, <2>3, <2>4, <2>6, <2>8 DEF LineInv
<1>10. QED
  BY <1>4, <1>6, <1>7, <1>8, <1>9 DEF Keyboard

\* A statement of terminal_read, which touches the line of its own terminal only.
LEMMA ReadLines ==
  ASSUME PatientInv, TypeOK', NEW u \in Terminals,
         \/ \E n \in ReadSizes : CallRead(u, n)
         \/ ReadStep(u)
  PROVE  PatientInv'
<1> USE ReadSizesAreNat, TerminalInputAssumption
<1>1. SUFFICES ASSUME NEW t \in Terminals PROVE LineInv(t)'
  BY DEF PatientInv
<1>2. /\ LineInv(t) /\ reader[t] \in Readers /\ kb[t] \in [Memory -> Chars]
      /\ kb \in [Terminals -> [Memory -> Chars]]
      /\ reader \in [Terminals -> Readers]
      /\ kb_buf_i \in [Terminals -> EnterFlag .. InTerminalRead + 1]
      /\ EnterFlag \in Memory /\ InTerminalRead \in Memory /\ EnterFlag # InTerminalRead
      /\ one # nul /\ newline # nul
  BY SMTT(30) DEF PatientInv, TypeOK, Memory, EnterFlag, InTerminalRead
<1>3. CASE t # u
  <2>1. kb'[t] = kb[t] /\ kb_buf_i'[t] = kb_buf_i[t] /\ reader'[t] = reader[t]
    BY <1>2, <1>3 DEF CallRead, ReadStep, AllowEcho, SeeEnter, StopEcho, Strip, EraseLast, Shorten,
                      CopyLine, Count, ClearIndex, ZeroBuffer, GoTo
  <2>2. QED
    BY <1>2, <2>1, LineUntouched
\* Statements that neither write the buffer nor begin or end the wait.
<1>4. ASSUME t = u, kb' = kb, kb_buf_i' = kb_buf_i,
             reader[t].at \in {"user", "allow"} <=> reader'[t].at \in {"user", "allow"},
             reader[t].at \in {"wait", "stop"} <=> reader'[t].at \in {"wait", "stop"},
             reader'[t].at \notin {"zero", "erase", "shorten"},
             reader'[t].at \in {"stop", "strip", "copy", "count", "clear"} => Pending(t)
      PROVE  LineInv(t)'
  <2>1. kb'[t] = kb[t] /\ kb_buf_i'[t] = kb_buf_i[t] /\ (Pending(t) <=> Pending(t)')
    BY <1>4 DEF Pending
  <2>2. QED
    BY <1>2, <1>4, <2>1 DEF LineInv
<1>5. CASE t = u /\ \E n \in ReadSizes : CallRead(t, n)
  <2>1. PICK n \in ReadSizes : CallRead(t, n)
    BY <1>5
  <2>2. reader' = [reader EXCEPT ![t] = [reader[t] EXCEPT !.at = "allow", !.n = n]]
    BY <1>2, <2>1 DEF CallRead
  <2>3. kb' = kb /\ kb_buf_i' = kb_buf_i /\ reader[t].at = "user" /\ reader'[t].at = "allow"
    BY <1>2, <2>1, <2>2, ZenonT(60) DEF CallRead, At, Readers
  <2>4. QED
    BY <1>4, <1>5, <2>3
<1>6. CASE t = u /\ AllowEcho(t)
  <2>1. /\ kb'[t] = [kb[t] EXCEPT ![InTerminalRead] = one] /\ kb_buf_i'[t] = kb_buf_i[t]
        /\ reader[t].at = "allow" /\ reader'[t].at = "wait"
    BY <1>2, <1>6 DEF AllowEcho, At, Idle
  <2>2. ~Pending(t) /\ kb_buf_i[t] \in 0 .. BufSize - 1
    BY <1>2, <2>1 DEF LineInv
  <2>3. /\ kb'[t][InTerminalRead] = one /\ kb'[t][EnterFlag] = kb[t][EnterFlag]
        /\ \A m \in 0 .. kb_buf_i[t] - 1 : kb'[t][m] = kb[t][m]
    BY <1>2, <2>1, <2>2 DEF Memory, InTerminalRead, EnterFlag
  <2>4. ~Pending(t)'
    BY <2>2, <2>3 DEF Pending
  <2>5. QED
    BY <1>2, <2>1, <2>2, <2>3, <2>4 DEF LineInv
<1>7. CASE t = u /\ SeeEnter(t)
  <2>1. /\ kb' = kb /\ kb_buf_i' = kb_buf_i /\ reader[t].at = "wait" /\ reader'[t].at = "stop"
        /\ Pending(t)
    BY <1>2, <1>7 DEF SeeEnter, EnterSeen, At, GoTo, Pending, Readers
  <2>2. QED
    BY <1>4, <1>7, <2>1
<1>8. CASE t = u /\ StopEcho(t)
  <2>1. /\ kb'[t] = [kb[t] EXCEPT ![InTerminalRead] = nul] /\ kb_buf_i'[t] = kb_buf_i[t]
        /\ reader[t].at = "stop" /\ reader'[t].at = "strip"
    BY <1>2, <1>8 DEF StopEcho, At, GoTo, Readers
  <2>2. Pending(t) /\ kb_buf_i[t] \in 1 .. BufSize /\ kb[t][kb_buf_i[t] - 1] = newline
    BY <1>2, <2>1 DEF LineInv
  <2>3. /\ kb'[t][InTerminalRead] = nul /\ kb'[t][EnterFlag] = kb[t][EnterFlag]
        /\ \A m \in 0 .. kb_buf_i[t] - 1 : kb'[t][m] = kb[t][m]
    BY <1>2, <2>1, <2>2 DEF Memory, InTerminalRead, EnterFlag
  <2>4. Pending(t)'
    BY <2>2, <2>3 DEF Pending
  <2>5. kb_buf_i[t] - 1 \in 0 .. kb_buf_i[t] - 1
    BY <2>2
  <2>6. QED
    BY <1>2, <2>1, <2>2, <2>3, <2>4, <2>5 DEF LineInv
<1>9. CASE t = u /\ Strip(t)
  <2>1. reader[t].at = "strip" /\ Pending(t) /\ kb[t][kb_buf_i[t] - 1] = newline
    BY <1>2, <1>9 DEF Strip, At, LineInv
  <2>2. kb' = kb /\ kb_buf_i' = kb_buf_i /\ reader'[t].at = "copy"
    BY <1>2, <1>9, <2>1 DEF Strip, GoTo, Readers
  <2>3. QED
    BY <1>4, <1>9, <2>1, <2>2
<1>10. CASE t = u /\ (EraseLast(t) \/ Shorten(t))
  BY <1>2, <1>10 DEF EraseLast, Shorten, At, LineInv
<1>11. CASE t = u /\ CopyLine(t)
  <2>1. kb' = kb /\ kb_buf_i' = kb_buf_i /\ reader[t].at = "copy" /\ reader'[t].at = "count"
    BY <1>2, <1>11 DEF CopyLine, At, Readers
  <2>2. Pending(t)
    BY <1>2, <2>1 DEF LineInv
  <2>3. QED
    BY <1>4, <1>11, <2>1, <2>2
<1>12. CASE t = u /\ Count(t)
  <2>1. kb' = kb /\ kb_buf_i' = kb_buf_i /\ reader[t].at = "count" /\ reader'[t].at = "clear"
    BY <1>2, <1>12 DEF Count, At, Readers
  <2>2. Pending(t)
    BY <1>2, <2>1 DEF LineInv
  <2>3. QED
    BY <1>4, <1>12, <2>1, <2>2
<1>13. CASE t = u /\ ClearIndex(t)
  <2>1. /\ kb'[t] = [kb[t] EXCEPT ![EnterFlag] = nul] /\ kb_buf_i'[t] = 0
        /\ reader[t].at = "clear" /\ reader'[t].at = "zero"
    BY <1>2, <1>13 DEF ClearIndex, At, GoTo, Readers
  <2>2. kb'[t][InTerminalRead] = kb[t][InTerminalRead] /\ kb'[t][EnterFlag] = nul
    BY <1>2, <2>1
  <2>3. ~Pending(t)'
    BY <2>2 DEF Pending
  <2>4. QED
    BY <1>2, <2>1, <2>2, <2>3 DEF LineInv
<1>14. CASE t = u /\ ZeroBuffer(t)
  <2>1. /\ kb'[t] = [m \in Memory |-> IF m \in Slots THEN nul ELSE kb[t][m]]
        /\ kb_buf_i'[t] = kb_buf_i[t] /\ reader[t].at = "zero" /\ reader'[t].at = "user"
    BY <1>2, <1>14 DEF ZeroBuffer, At, GoTo, Readers
  <2>2. kb_buf_i[t] = 0 /\ ~Pending(t)
    BY <1>2, <2>1 DEF LineInv
  <2>3. kb'[t][InTerminalRead] = kb[t][InTerminalRead] /\ kb'[t][EnterFlag] = kb[t][EnterFlag]
    BY <1>2, <2>1 DEF Slots, InTerminalRead, EnterFlag
  <2>4. ~Pending(t)'
    BY <2>2, <2>3 DEF Pending
  <2>5. QED
    BY <1>2, <2>1, <2>2, <2>3, <2>4 DEF LineInv
<1>15. QED
  BY <1>3, <1>5, <1>6, <1>7, <1>8, <1>9, <1>10, <1>11, <1>12, <1>13, <1>14 DEF ReadStep

LEMMA NextLines ==
  ASSUME Patient, PatientInv, IndexInv, [Next]_vars
  PROVE  PatientInv' /\ IndexInv'
<1>1. TypeOK' /\ IndexInv'
  BY NextTypes DEF TypeInv, PatientInv
<1>2. CASE Keyboard
  BY <1>1, <1>2, KeyboardLines
<1>3. ASSUME NEW t \in Terminals,
             (\E n \in ReadSizes : CallRead(t, n)) \/ ReadStep(t)
      PROVE  PatientInv'
  BY <1>1, <1>3, ReadLines
<1>4. CASE Tick \/ UNCHANGED vars
  <2>1. UNCHANGED <<kb, kb_buf_i, reader>>
    BY <1>4 DEF Tick, vars
  <2>2. QED
    BY <1>1, <2>1, LineUntouched DEF PatientInv
<1>5. QED
  BY <1>1, <1>2, <1>3, <1>4 DEF Next

LEMMA LineInvariance ==
  ASSUME Patient
  PROVE  Spec => [](PatientInv /\ IndexInv)
<1>1. Init => PatientInv /\ IndexInv
  BY InitLines, InitTypes DEF TypeInv
<1>2. PatientInv /\ IndexInv /\ [Next]_vars => PatientInv' /\ IndexInv'
  BY NextLines
<1>3. QED
  BY <1>1, <1>2, PTL DEF Spec

\* With users who wait for their prompt no Enter outlives the read it ends, and the echo is on
\* exactly while a read waits.
THEOREM EnterHasReader ==
  ASSUME Patient
  PROVE  Spec => []FlagHasReader
<1>1. PatientInv => FlagHasReader
  BY DEF PatientInv, LineInv, Pending, FlagHasReader
<1>2. QED
  BY <1>1, LineInvariance, PTL

-----------------------------------------------------------------------------
(* The refinement: the invariant of a line that is taken *)

RoomyReads == \A n \in ReadSizes : n >= BufSize

\* What terminal_read has done to the line so far: copied it, counted it, and
\* given it back to the keyboard.
TakeInv(t) ==
  LET r == reader[t]
  IN  /\ r.at # "user" => r.n \in ReadSizes
      /\ r.at \in {"count", "clear"} =>
           /\ Len(r.buf) = r.n
           /\ \A j \in 1 .. kb_buf_i[t] : r.buf[j] = kb[t][j - 1]
      /\ r.at = "clear" => r.bytes_written = kb_buf_i[t]
      /\ r.at = "zero" =>
           /\ Len(r.buf) = r.n
           /\ r.bytes_written \in 1 .. BufSize
           /\ r.buf[r.bytes_written] = newline

TakesInv == PatientInv /\ \A t \in Terminals : TakeInv(t)

LEMMA InitTakes == Init => \A t \in Terminals : TakeInv(t)
<1> SUFFICES ASSUME Init, NEW t \in Terminals PROVE TakeInv(t)
  OBVIOUS
<1>1. PICK n \in ReadSizes :
        reader = [u \in Terminals |->
                    IF u < MaxTerminals - 1 THEN [Idle EXCEPT !.at = "wait", !.n = n] ELSE Idle]
  BY DEF Init
<1>2. reader[t].at = "user" \/ (reader[t].at = "wait" /\ reader[t].n = n)
  BY <1>1 DEF Idle
<1>3. QED
  BY <1>2 DEF TakeInv

\* A step that neither reaches nor leaves the copying of the line, nor changes what
\* the read has got.
LEMMA TakeUntouched ==
  ASSUME NEW t \in Terminals, TakeInv(t), reader'[t] = reader[t],
         reader[t].at \in {"count", "clear"} => kb'[t] = kb[t] /\ kb_buf_i'[t] = kb_buf_i[t]
  PROVE  TakeInv(t)'
BY DEF TakeInv

LEMMA KeyboardTakes ==
  ASSUME Patient, TakesInv, Keyboard, NEW t \in Terminals
  PROVE  TakeInv(t)'
<1>1. reader' = reader
  BY DEF Keyboard, TypeKey, TypeTab, Backspace, PressEnter, SwitchVisible
<1>2. CASE t # visible_terminal \/ \E u \in Terminals : SwitchVisible(u)
  <2>1. kb'[t] = kb[t] /\ kb_buf_i'[t] = kb_buf_i[t]
    BY <1>2 DEF Keyboard, TypeKey, TypeTab, Backspace, PressEnter, SwitchVisible, KbTerminal,
                TakesInv, PatientInv, TypeOK
  <2>2. QED
    BY <1>1, <2>1, TakeUntouched DEF TakesInv
<1>3. CASE t = visible_terminal /\ KeyPress
  <2>1. reader[t].at \notin {"count", "clear"}
    BY <1>3 DEF KeyPress, KbTerminal, TakesInv, PatientInv, LineInv, Pending
  <2>2. QED
    BY <1>1, <2>1, TakeUntouched DEF TakesInv
<1>4. QED
  BY <1>2, <1>3 DEF Keyboard, TypeKey, TypeTab, Backspace, PressEnter

\* strncpy copies the whole line, which has no nul and fits.
LEMMA CopiedIsTheLine ==
  ASSUME RoomyReads, TakesInv, NEW t \in Terminals, reader[t].at = "copy"
  PROVE  /\ Len(Copied(t, reader[t].n)) = reader[t].n
         /\ \A j \in 1 .. kb_buf_i[t] : Copied(t, reader[t].n)[j] = kb[t][j - 1]
<1> DEFINE n == reader[t].n
<1>1. n \in ReadSizes /\ n \in Nat /\ n >= BufSize
  BY ReadSizesAreNat DEF TakesInv, TakeInv, RoomyReads
<1>2. kb_buf_i[t] \in 1 .. BufSize /\ \A m \in 0 .. kb_buf_i[t] - 1 : kb[t][m] # nul
  BY DEF TakesInv, PatientInv, LineInv
<1>3. Len(Copied(t, n)) = n
  BY <1>1, CopiedIsASeq DEF TakesInv, PatientInv
<1>4. ASSUME NEW j \in 1 .. kb_buf_i[t]
      PROVE  Copied(t, n)[j] = kb[t][j - 1]
  <2>1. j \in 1 .. n
    BY <1>1, <1>2, ReadSizesAreNat
  <2>2. \A m \in 0 .. j - 1 : m \in Memory /\ kb[t][m] # nul
    BY <1>2, ReadSizesAreNat DEF Memory, EnterFlag, InTerminalRead
  <2>3. QED
    BY <2>1, <2>2 DEF Copied
<1>5. QED
  BY <1>3, <1>4

LEMMA ReadTakes ==
  ASSUME RoomyReads, TakesInv, NEW u \in Terminals, NEW t \in Terminals,
         \/ \E n \in ReadSizes : CallRead(u, n)
         \/ ReadStep(u)
  PROVE  TakeInv(t)'
<1> USE ReadSizesAreNat
<1>1. /\ LineInv(t) /\ TakeInv(t) /\ reader[t] \in Readers
      /\ reader \in [Terminals -> Readers]
      /\ kb \in [Terminals -> [Memory -> Chars]]
      /\ kb_buf_i \in [Terminals -> EnterFlag .. InTerminalRead + 1]
  BY DEF TakesInv, PatientInv, TypeOK
<1>2. CASE t # u
  <2>1. kb'[t] = kb[t] /\ kb_buf_i'[t] = kb_buf_i[t] /\ reader'[t] = reader[t]
    BY <1>1, <1>2 DEF CallRead, ReadStep, AllowEcho, SeeEnter, StopEcho, Strip, EraseLast, Shorten,
                      CopyLine, Count, ClearIndex, ZeroBuffer, GoTo
  <2>2. QED
    BY <1>1, <2>1, TakeUntouched
\* Statements before the copy, and the last one.
<1>3. ASSUME reader'[t].at \in {"allow", "wait", "stop", "strip", "copy"},
             reader'[t].n \in ReadSizes
      PROVE  TakeInv(t)'
  BY <1>3 DEF TakeInv
<1>4. CASE t = u /\ \E n \in ReadSizes : CallRead(t, n)
  <2>1. PICK n \in ReadSizes : CallRead(t, n)
    BY <1>4
  <2>2. reader' = [reader EXCEPT ![t] = [reader[t] EXCEPT !.at = "allow", !.n = n]]
    BY <1>1, <2>1 DEF CallRead
  <2>3. reader'[t].at = "allow" /\ reader'[t].n = n
    BY <1>1, <2>2 DEF Readers
  <2>4. QED
    BY <1>3, <2>3
<1>5. CASE t = u /\ AllowEcho(t)
  <2>1. reader'[t].at = "wait" /\ reader'[t].n = reader[t].n /\ reader[t].n \in ReadSizes
    BY <1>1, <1>5 DEF AllowEcho, At, Idle, TakeInv
  <2>2. QED
    BY <1>3, <2>1
<1>6. CASE t = u /\ (SeeEnter(t) \/ StopEcho(t) \/ Strip(t))
  <2>1. reader'[t].at \in {"stop", "strip", "copy", "erase"}
    BY <1>1, <1>6 DEF SeeEnter, StopEcho, Strip, At, GoTo, Readers
  <2>2. reader'[t].at # "erase"
    BY <1>1, <1>6 DEF SeeEnter, StopEcho, Strip, At, GoTo, LineInv, Readers
  <2>3. reader'[t].n = reader[t].n /\ reader[t].n \in ReadSizes
    BY <1>1, <1>6 DEF SeeEnter, StopEcho, Strip, At, GoTo, TakeInv, Readers
  <2>4. QED
    BY <1>3, <2>1, <2>2, <2>3
<1>7. CASE t = u /\ (EraseLast(t) \/ Shorten(t))
  BY <1>1, <1>7 DEF EraseLast, Shorten, At, LineInv
<1>8. CASE t = u /\ CopyLine(t)
  <2> DEFINE copied == Copied(t, reader[t].n)
  <2>1. /\ Len(copied) = reader[t].n
        /\ \A j \in 1 .. kb_buf_i[t] : copied[j] = kb[t][j - 1]
    BY <1>8, CopiedIsTheLine DEF CopyLine, At
  <2> HIDE DEF copied
  <2>2. reader' = [reader EXCEPT ![t] = [reader[t] EXCEPT !.at = "count", !.buf = copied]]
    BY <1>1, <1>8 DEF CopyLine, copied
  <2>3. /\ reader'[t].at = "count" /\ reader'[t].n = reader[t].n /\ reader'[t].buf = copied
    BY <1>1, <2>2 DEF Readers
  <2>4. kb' = kb /\ kb_buf_i' = kb_buf_i /\ reader[t].at = "copy"
    BY <1>8, Zenon DEF CopyLine, At
  <2>5. QED
    BY <1>1, <2>1, <2>3, <2>4 DEF TakeInv
<1>9. CASE t = u /\ Count(t)
  <2>1. reader' = [reader EXCEPT ![t] =
                     [reader[t] EXCEPT !.at = "clear", !.bytes_written = kb_buf_i[t]]]
    BY <1>1, <1>9 DEF Count
  <2>2. /\ reader'[t].at = "clear" /\ reader'[t].n = reader[t].n
        /\ reader'[t].buf = reader[t].buf /\ reader'[t].bytes_written = kb_buf_i[t]
        /\ kb' = kb /\ kb_buf_i' = kb_buf_i /\ reader[t].at = "count"
    BY <1>1, <1>9, <2>1 DEF Count, At, Readers
  <2>3. QED
    BY <1>1, <2>2 DEF TakeInv
<1>10. CASE t = u /\ ClearIndex(t)
  <2>1. /\ reader'[t].at = "zero" /\ reader'[t].n = reader[t].n
        /\ reader'[t].buf = reader[t].buf /\ reader'[t].bytes_written = reader[t].bytes_written
        /\ reader[t].at = "clear"
    BY <1>1, <1>10 DEF ClearIndex, At, GoTo, Readers
  <2>2. /\ kb_buf_i[t] \in 1 .. BufSize /\ kb[t][kb_buf_i[t] - 1] = newline
        /\ reader[t].bytes_written = kb_buf_i[t]
    BY <1>1, <2>1 DEF LineInv, TakeInv
  <2>3. reader[t].buf[kb_buf_i[t]] = kb[t][kb_buf_i[t] - 1] /\ Len(reader[t].buf) = reader[t].n
    BY <1>1, <2>1, <2>2 DEF TakeInv
  <2>4. reader'[t].buf[reader'[t].bytes_written] = newline /\ reader[t].n \in ReadSizes
    BY <1>1, <2>1, <2>2, <2>3 DEF TakeInv
  <2>5. reader'[t].bytes_written \in 1 .. BufSize /\ Len(reader'[t].buf) = reader'[t].n
    BY <2>1, <2>2, <2>3
  <2>6. QED
    BY <2>1, <2>4, <2>5 DEF TakeInv
<1>11. CASE t = u /\ ZeroBuffer(t)
  <2>1. reader'[t].at = "user"
    BY <1>1, <1>11 DEF ZeroBuffer, At, GoTo, Readers
  <2>2. QED
    BY <2>1 DEF TakeInv
<1>12. QED
  BY <1>2, <1>4, <1>5, <1>6, <1>7, <1>8, <1>9, <1>10, <1>11 DEF ReadStep

LEMMA NextTakes ==
  ASSUME Patient, RoomyReads, TakesInv, IndexInv, [Next]_vars
  PROVE  TakesInv' /\ IndexInv'
<1>1. PatientInv' /\ IndexInv'
  BY NextLines DEF TakesInv
<1>2. ASSUME NEW t \in Terminals
      PROVE  TakeInv(t)'
  <2>1. CASE Keyboard
    BY <2>1, KeyboardTakes
  <2>2. ASSUME NEW u \in Terminals,
               (\E n \in ReadSizes : CallRead(u, n)) \/ ReadStep(u)
        PROVE  TakeInv(t)'
    BY <2>2, ReadTakes
  <2>3. CASE Tick \/ UNCHANGED vars
    <3>1. UNCHANGED <<kb, kb_buf_i, reader>>
      BY <2>3 DEF Tick, vars
    <3>2. QED
      BY <3>1, TakeUntouched DEF TakesInv
  <2>4. QED
    BY <2>1, <2>2, <2>3 DEF Next
<1>3. QED
  BY <1>1, <1>2 DEF TakesInv

-----------------------------------------------------------------------------
(* The refinement: lines *)

\* The first k characters of a keyboard buffer.
Typed(f, k) == [j \in 1 .. k |-> f[j - 1]]

LEMMA TypedIsASeq ==
  ASSUME NEW f \in [Memory -> Chars], NEW k \in 0 .. BufSize
  PROVE  /\ Typed(f, k) \in Seq(Chars) /\ Len(Typed(f, k)) = k
         /\ \A j \in 1 .. k : Typed(f, k)[j] = f[j - 1]
<1>1. \A j \in 1 .. k : f[j - 1] \in Chars
  BY ReadSizesAreNat DEF Memory, EnterFlag, InTerminalRead
<1>2. Typed(f, k) \in [1 .. k -> Chars]
  BY <1>1 DEF Typed
<1>3. QED
  BY <1>2 DEF Typed

LEMMA TypedEqual ==
  ASSUME NEW f, NEW g, NEW k \in Nat, \A m \in 0 .. k - 1 : f[m] = g[m]
  PROVE  Typed(f, k) = Typed(g, k)
BY DEF Typed

\* A sequence is known by its length and its elements.
LEMMA TypedIs ==
  ASSUME NEW f \in [Memory -> Chars], NEW k \in 0 .. BufSize,
         NEW line \in Seq(Chars), Len(line) = k, \A j \in 1 .. k : line[j] = f[j - 1]
  PROVE  Typed(f, k) = line
<1> DEFINE typed == Typed(f, k)
<1>1. typed \in Seq(Chars) /\ Len(typed) = k /\ \A j \in 1 .. k : typed[j] = f[j - 1]
  BY TypedIsASeq
<1> HIDE DEF typed
<1>2. typed = line
  BY <1>1, SeqEqual
<1>3. QED
  BY <1>2 DEF typed

\* A key at the end of the line.
LEMMA TypedKey ==
  ASSUME NEW f \in [Memory -> Chars], NEW g \in [Memory -> Chars],
         NEW k \in 0 .. BufSize - 1, NEW c \in Chars,
         g[k] = c, \A m \in 0 .. k - 1 : g[m] = f[m]
  PROVE  Typed(g, k + 1) = Append(Typed(f, k), c)
<1>1. Typed(f, k) \in Seq(Chars) /\ Len(Typed(f, k)) = k
      /\ \A j \in 1 .. k : Typed(f, k)[j] = f[j - 1]
  BY TypedIsASeq, ReadSizesAreNat, SMTT(30)
<1>2. /\ Append(Typed(f, k), c) \in Seq(Chars)
      /\ Len(Append(Typed(f, k), c)) = k + 1
      /\ \A j \in 1 .. k : Append(Typed(f, k), c)[j] = Typed(f, k)[j]
      /\ Append(Typed(f, k), c)[k + 1] = c
  BY <1>1, AppendProperties
<1>3. \A j \in 1 .. k + 1 : Append(Typed(f, k), c)[j] = g[j - 1]
  BY <1>1, <1>2
<1>4. k + 1 \in 0 .. BufSize
  BY ReadSizesAreNat
<1>5. QED
  BY <1>2, <1>3, <1>4, TypedIs

\* The spaces of a tab.
LEMMA TypedTab ==
  ASSUME NEW f \in [Memory -> Chars], NEW g \in [Memory -> Chars],
         NEW k \in 0 .. BufSize - 1, NEW w \in Nat, k + w <= BufSize,
         \A m \in 0 .. k + w - 1 : g[m] = IF m < k THEN f[m] ELSE space
  PROVE  Typed(g, k + w) = Typed(f, k) \o [j \in 1 .. w |-> space]
<1> DEFINE spaces == [j \in 1 .. w |-> space]
<1>1. Typed(f, k) \in Seq(Chars) /\ Len(Typed(f, k)) = k
      /\ \A j \in 1 .. k : Typed(f, k)[j] = f[j - 1]
  BY TypedIsASeq, ReadSizesAreNat
<1>2. spaces \in Seq(Chars) /\ Len(spaces) = w /\ \A j \in 1 .. w : spaces[j] = space
  <2>1. spaces \in [1 .. w -> Chars]
    BY DEF Chars
  <2>2. QED
    BY <2>1
<1> HIDE DEF spaces
<1> DEFINE line == Typed(f, k) \o spaces
<1>3. /\ line \in Seq(Chars) /\ Len(line) = k + w
      /\ \A j \in 1 .. k + w : line[j] = IF j <= k THEN Typed(f, k)[j] ELSE spaces[j - k]
  BY <1>1, <1>2, ConcatProperties, SMTT(30)
<1> HIDE DEF line
<1>4. ASSUME NEW j \in 1 .. k + w
      PROVE  line[j] = g[j - 1]
  <2>1. CASE j <= k
    BY <1>1, <1>3, <1>4, <2>1
  <2>2. CASE j > k
    <3>1. j - k \in 1 .. w /\ ~ (j <= k) /\ j - 1 \in 0 .. k + w - 1 /\ ~ (j - 1 < k)
      BY <2>2
    <3>2. QED
      BY <1>2, <1>3, <3>1
  <2>3. QED
    BY <2>1, <2>2
<1>5. k + w \in 0 .. BufSize
  BY ReadSizesAreNat
<1>6. QED
  BY <1>3, <1>4, <1>5, TypedIs DEF line, spaces

\* A backspace.
LEMMA TypedErased ==
  ASSUME NEW f \in [Memory -> Chars], NEW k \in 1 .. BufSize
  PROVE  Typed(f, k - 1) = SubSeq(Typed(f, k), 1, Len(Typed(f, k)) - 1)
<1> DEFINE line == SubSeq(Typed(f, k), 1, k - 1)
<1>1. Typed(f, k) \in Seq(Chars) /\ Len(Typed(f, k)) = k
      /\ \A j \in 1 .. k : Typed(f, k)[j] = f[j - 1] /\ Typed(f, k)[j] \in Chars
  BY TypedIsASeq, ElementOfSeq, ReadSizesAreNat
<1>2. /\ line \in Seq(Chars) /\ Len(line) = k - 1
      /\ \A j \in 1 .. k - 1 : line[j] = Typed(f, k)[j]
  <2>1. \A j \in 1 .. k - 1 : Typed(f, k)[j] \in Chars
    BY <1>1
  <2>2. /\ line \in Seq(Chars) /\ Len(line) = IF 1 <= k - 1 THEN (k - 1) - 1 + 1 ELSE 0
        /\ \A j \in 1 .. (k - 1) - 1 + 1 : line[j] = Typed(f, k)[1 + j - 1]
    BY <2>1, SubSeqProperties
  <2> HIDE DEF line
  <2>3. \A j \in 1 .. k - 1 : 1 + j - 1 = j
    OBVIOUS
  <2>4. QED
    BY <2>2, <2>3
<1> HIDE DEF line
<1>3. \A j \in 1 .. k - 1 : line[j] = f[j - 1]
  BY <1>1, <1>2
<1>4. k - 1 \in 0 .. BufSize
  BY ReadSizesAreNat
<1>5. QED
  BY <1>1, <1>2, <1>3, <1>4, TypedIs DEF line

\* What is left of a copied line without its newline.
LEMMA TypedCopied ==
  ASSUME NEW f \in [Memory -> Chars], NEW k \in 1 .. BufSize,
         NEW buf \in Seq(Chars), k <= Len(buf), \A j \in 1 .. k : buf[j] = f[j - 1]
  PROVE  Typed(f, k - 1) = SubSeq(buf, 1, k - 1)
<1> DEFINE line == SubSeq(buf, 1, k - 1)
<1>1. \A j \in 1 .. k - 1 : buf[j] \in Chars
  <2>1. Len(buf) \in Nat
    BY LenProperties
  <2>2. \A j \in 1 .. k - 1 : j \in 1 .. Len(buf)
    BY <2>1
  <2>3. QED
    BY <2>2, ElementOfSeq
<1>2. /\ line \in Seq(Chars) /\ Len(line) = IF 1 <= k - 1 THEN (k - 1) - 1 + 1 ELSE 0
      /\ \A j \in 1 .. (k - 1) - 1 + 1 : line[j] = buf[1 + j - 1]
  BY <1>1, SubSeqProperties
<1> HIDE DEF line
<1>3. \A j \in 1 .. k - 1 : 1 + j - 1 = j
  OBVIOUS
<1>4. Len(line) = k - 1 /\ \A j \in 1 .. k - 1 : line[j] = f[j - 1]
  BY <1>2, <1>3
<1>5. k - 1 \in 0 .. BufSize
  BY ReadSizesAreNat
<1>6. QED
  BY <1>2, <1>4, <1>5, TypedIs DEF line

-----------------------------------------------------------------------------
(* The refinement: every step *)

\* The variables of the abstract specification.
Line      == [t \in Terminals |-> LineOf(t)]
Waiting   == [t \in Terminals |-> reader[t].at \notin {"user", "allow"}]
Complete  == [t \in Terminals |-> kb[t][EnterFlag] # nul \/ reader[t].at = "zero"]
Delivered == [t \in Terminals |->
                IF reader[t].at \in {"user", "allow"}
                THEN SubSeq(reader[t].buf, 1, reader[t].bytes_written) ELSE <<>>]

\* Nothing happens on the other terminals.
OnlyOn(t) ==
  \A u \in Terminals \ {t} :
    kb'[u] = kb[u] /\ kb_buf_i'[u] = kb_buf_i[u] /\ reader'[u] = reader[u]

LEMMA OthersKeepLines ==
  ASSUME NEW t \in Terminals, OnlyOn(t)
  PROVE  /\ Line' = [Line EXCEPT ![t] = Line'[t]]
         /\ Waiting' = [Waiting EXCEPT ![t] = Waiting'[t]]
         /\ Complete' = [Complete EXCEPT ![t] = Complete'[t]]
         /\ Delivered' = [Delivered EXCEPT ![t] = Delivered'[t]]
         /\ Line'[t] = Line[t] => Line' = Line
         /\ Waiting'[t] = Waiting[t] => Waiting' = Waiting
         /\ Complete'[t] = Complete[t] => Complete' = Complete
         /\ Delivered'[t] = Delivered[t] => Delivered' = Delivered
<1>1. ASSUME NEW u \in Terminals \ {t}
      PROVE  /\ Line'[u] = Line[u] /\ Waiting'[u] = Waiting[u]
             /\ Complete'[u] = Complete[u] /\ Delivered'[u] = Delivered[u]
  <2>1. kb'[u] = kb[u] /\ kb_buf_i'[u] = kb_buf_i[u] /\ reader'[u] = reader[u]
    BY DEF OnlyOn
  <2>2. QED
    BY <2>1 DEF Line, Waiting, Complete, Delivered, LineOf
<1>2. Line' = [Line EXCEPT ![t] = Line'[t]] /\ (Line'[t] = Line[t] => Line' = Line)
  BY <1>1 DEF Line
<1>3. Waiting' = [Waiting EXCEPT ![t] = Waiting'[t]] /\ (Waiting'[t] = Waiting[t] => Waiting' = Waiting)
  BY <1>1 DEF Waiting
<1>4. Complete' = [Complete EXCEPT ![t] = Complete'[t]] /\ (Complete'[t] = Complete[t] => Complete' = Complete)
  BY <1>1 DEF Complete
<1>5. Delivered' = [Delivered EXCEPT ![t] = Delivered'[t]] /\ (Delivered'[t] = Delivered[t] => Delivered' = Delivered)
  BY <1>1 DEF Delivered
<1>6. QED
  BY <1>2, <1>3, <1>4, <1>5

\* What the abstract variables are while a line is typed.
LEMMA WhileTyped ==
  ASSUME NEW t \in Terminals, reader[t].at # "zero"
  PROVE  /\ Line[t] = Typed(kb[t], kb_buf_i[t] - IF kb[t][EnterFlag] = nul THEN 0 ELSE 1)
         /\ Complete[t] <=> kb[t][EnterFlag] # nul
BY DEF Line, Complete, LineOf, Typed

LEMMA WhileTypedNext ==
  ASSUME NEW t \in Terminals, reader'[t].at # "zero"
  PROVE  /\ Line'[t] = Typed(kb'[t], kb_buf_i'[t] - IF kb'[t][EnterFlag] = nul THEN 0 ELSE 1)
         /\ Complete'[t] <=> kb'[t][EnterFlag] # nul
BY DEF Line, Complete, LineOf, Typed

\* A step that the abstract specification does not see.
LEMMA LineStutters ==
  ASSUME NEW t \in Terminals, OnlyOn(t), visible_terminal' = visible_terminal,
         Line'[t] = Line[t], Waiting'[t] = Waiting[t],
         Complete'[t] = Complete[t], Delivered'[t] = Delivered[t]
  PROVE  UNCHANGED Abstract!vars
<1>1. Line' = Line /\ Waiting' = Waiting /\ Complete' = Complete /\ Delivered' = Delivered
  BY OthersKeepLines
<1>2. QED
  BY <1>1, Zenon DEF Abstract!vars, Line, Waiting, Complete, Delivered

LEMMA InitRefines == Init => Abstract!Init
<1> SUFFICES ASSUME Init PROVE Abstract!Init
  OBVIOUS
<1>1. PatientInv
  BY InitLines
<1>2. ASSUME NEW t \in Terminals
      PROVE  /\ kb_buf_i[t] = 0 /\ kb[t][EnterFlag] = nul
             /\ reader[t].at \in {"wait", "user"}
             /\ reader[t].buf = <<>> /\ reader[t].bytes_written = 0
  BY ReadSizesAreNat DEF Init, Idle, Memory, EnterFlag, InTerminalRead
<1>3. ASSUME NEW t \in Terminals
      PROVE  Line[t] = <<>> /\ Complete[t] = FALSE /\ Delivered[t] = <<>> /\ Waiting[t] \in BOOLEAN
  <2>1. Line[t] = Typed(kb[t], 0)
    BY <1>2, WhileTyped
  <2>2. Typed(kb[t], 0) = <<>>
    BY DEF Typed
  <2>3. SubSeq(reader[t].buf, 1, reader[t].bytes_written) = <<>>
    BY <1>2, SubSeqEmpty
  <2>4. QED
    BY <1>2, <2>1, <2>2, <2>3 DEF Complete, Delivered, Waiting
<1>4. visible_terminal \in Terminals
  BY <1>1 DEF PatientInv, TypeOK
<1>5. /\ Line = [t \in Terminals |-> <<>>] /\ Waiting \in [Terminals -> BOOLEAN]
      /\ Complete = [t \in Terminals |-> FALSE] /\ Delivered = [t \in Terminals |-> <<>>]
  BY <1>3 DEF Line, Waiting, Complete, Delivered
<1>6. QED
  BY <1>4, <1>5, Zenon DEF Abstract!Init, Line, Waiting, Complete, Delivered

\* A key that changes the line and nothing else.
LEMMA EditsLine ==
  ASSUME Patient, TakesInv, NEW t \in Terminals, t = visible_terminal, KeyPress,
         OnlyOn(t), reader' = reader, visible_terminal' = visible_terminal,
         kb'[t][EnterFlag] = kb[t][EnterFlag], kb_buf_i'[t] \in Nat
  PROVE  /\ visible_terminal = t /\ Complete[t] = FALSE
         /\ Line[t] = Typed(kb[t], kb_buf_i[t]) /\ Line'[t] = Typed(kb'[t], kb_buf_i'[t])
         /\ kb_buf_i[t] \in 0 .. BufSize - 1
         /\ Line' = [Line EXCEPT ![t] = Line'[t]]
         /\ UNCHANGED <<Waiting, Complete, Delivered>>
<1>1. /\ kb[t][EnterFlag] = nul /\ reader[t].at # "zero"
      /\ kb_buf_i[t] \in 0 .. BufSize - 1
  BY ReadSizesAreNat DEF KeyPress, KbTerminal, TakesInv, PatientInv, LineInv, Pending
<1>2. reader'[t] = reader[t] /\ kb'[t][EnterFlag] = nul
  BY <1>1
<1>3. Complete[t] = FALSE /\ Complete'[t] = FALSE
  BY <1>1, <1>2 DEF Complete
<1>4. Waiting'[t] = Waiting[t] /\ Delivered'[t] = Delivered[t]
  BY <1>2 DEF Waiting, Delivered
<1>5. kb_buf_i'[t] - 0 = kb_buf_i'[t] /\ kb_buf_i[t] - 0 = kb_buf_i[t]
  BY <1>1, ReadSizesAreNat
<1>6. Line[t] = Typed(kb[t], kb_buf_i[t]) /\ Line'[t] = Typed(kb'[t], kb_buf_i'[t])
  BY <1>1, <1>2, <1>5, WhileTyped, WhileTypedNext
<1>7. Line' = [Line EXCEPT ![t] = Line'[t]] /\ UNCHANGED <<Waiting, Complete, Delivered>>
  BY <1>3, <1>4, OthersKeepLines
<1>8. QED
  BY <1>1, <1>3, <1>6, <1>7

LEMMA TypeKeyRefines ==
  ASSUME Patient, TakesInv, TakesInv', NEW c \in Keys \cup {space}, TypeKey(c)
  PROVE  \E t \in Terminals : Abstract!Type(t, c)
<1> USE ReadSizesAreNat
<1>1. PICK t \in Terminals : t = visible_terminal
  BY DEF TakesInv, PatientInv, TypeOK
<1>2. PICK i \in Int : i = kb_buf_i[t]
  BY DEF TakesInv, PatientInv, TypeOK, EnterFlag, InTerminalRead
<1>3. /\ kb[t] \in [Memory -> Chars] /\ kb'[t] \in [Memory -> Chars]
      /\ kb_buf_i \in [Terminals -> EnterFlag .. InTerminalRead + 1]
      /\ kb \in [Terminals -> [Memory -> Chars]]
  BY DEF TakesInv, PatientInv, TypeOK
<1>4. /\ kb'[t] = [kb[t] EXCEPT ![i] = c] /\ kb_buf_i'[t] = i + 1
      /\ reader' = reader /\ visible_terminal' = visible_terminal
      /\ KeyPress /\ i # BufSize - 1 /\ OnlyOn(t)
  BY <1>1, <1>2, <1>3 DEF TypeKey, KbTerminal, Full, OnlyOn
<1>5. i \in 0 .. BufSize - 1 /\ c \in Chars
  BY <1>1, <1>2, <1>4 DEF KeyPress, KbTerminal, TakesInv, PatientInv, LineInv, Pending, Chars
<1>6. /\ i + 1 \in Nat /\ i \in Memory
      /\ kb'[t][EnterFlag] = kb[t][EnterFlag]
      /\ kb'[t][i] = c /\ \A m \in 0 .. i - 1 : kb'[t][m] = kb[t][m]
  BY <1>3, <1>4, <1>5 DEF Memory, EnterFlag, InTerminalRead
<1>7. /\ Complete[t] = FALSE
      /\ Line[t] = Typed(kb[t], i) /\ Line'[t] = Typed(kb'[t], i + 1)
      /\ Line' = [Line EXCEPT ![t] = Line'[t]]
      /\ UNCHANGED <<Waiting, Complete, Delivered>>
  BY <1>1, <1>2, <1>4, <1>6, EditsLine
<1>8. Line'[t] = Append(Line[t], c)
  <2>1. PICK f \in [Memory -> Chars] : f = kb[t]
    BY <1>3
  <2>2. PICK g \in [Memory -> Chars] : g = kb'[t]
    BY <1>3
  <2>3. Typed(g, i + 1) = Append(Typed(f, i), c)
    BY <1>5, <1>6, <2>1, <2>2, TypedKey
  <2>4. QED
    BY <1>7, <2>1, <2>2, <2>3
<1>9. Len(Line[t]) < BufSize - 1
  <2>1. Len(Line[t]) = i
    BY <1>3, <1>5, <1>7, TypedIsASeq
  <2>2. QED
    BY <1>4, <1>5, <2>1
<1>10. ~Complete[t] /\ Line' = [Line EXCEPT ![t] = Append(Line[t], c)]
  BY <1>7, <1>8
<1>11. Abstract!Type(t, c)
  BY <1>1, <1>4, <1>7, <1>9, <1>10, Zenon DEF Abstract!Type, Line, Waiting, Complete, Delivered
<1>12. QED
  BY <1>11

LEMMA BackspaceRefines ==
  ASSUME Patient, TakesInv, TakesInv', Backspace
  PROVE  \E t \in Terminals : Abstract!Erase(t)
<1> USE ReadSizesAreNat
<1>1. PICK t \in Terminals : t = visible_terminal
  BY DEF TakesInv, PatientInv, TypeOK
<1>2. PICK i \in Int : i = kb_buf_i[t]
  BY DEF TakesInv, PatientInv, TypeOK, EnterFlag, InTerminalRead
<1>3. kb[t] \in [Memory -> Chars] /\ kb_buf_i \in [Terminals -> EnterFlag .. InTerminalRead + 1]
  BY DEF TakesInv, PatientInv, TypeOK
<1>4. /\ kb' = kb /\ kb_buf_i'[t] = i - 1
      /\ reader' = reader /\ visible_terminal' = visible_terminal
      /\ KeyPress /\ i > 0 /\ OnlyOn(t)
  BY <1>1, <1>2, <1>3 DEF Backspace, KbTerminal, CanErase, OnlyOn
<1>5. i \in 1 .. BufSize /\ i \in 0 .. BufSize /\ i - 1 \in Nat
  BY <1>1, <1>2, <1>4 DEF KeyPress, KbTerminal, TakesInv, PatientInv, LineInv, Pending
<1>6. /\ Complete[t] = FALSE
      /\ Line[t] = Typed(kb[t], i) /\ Line'[t] = Typed(kb[t], i - 1)
      /\ Line' = [Line EXCEPT ![t] = Line'[t]]
      /\ UNCHANGED <<Waiting, Complete, Delivered>>
  BY <1>1, <1>2, <1>4, <1>5, EditsLine
<1>7. Line'[t] = SubSeq(Line[t], 1, Len(Line[t]) - 1)
  BY <1>3, <1>5, <1>6, TypedErased
<1>8. Line[t] # <<>>
  <2>1. Line[t] \in Seq(Chars) /\ Len(Line[t]) = i
    BY <1>3, <1>5, <1>6, TypedIsASeq
  <2>2. QED
    BY <1>4, <2>1, EmptySeq
<1>9. ~Complete[t] /\ Line' = [Line EXCEPT ![t] = SubSeq(Line[t], 1, Len(Line[t]) - 1)]
  BY <1>6, <1>7
<1>10. Abstract!Erase(t)
  BY <1>1, <1>4, <1>6, <1>8, <1>9, Zenon DEF Abstract!Erase, Line, Waiting, Complete, Delivered
<1>11. QED
  BY <1>10

\* The room for a tab is what is left of the buffer: the readers' buffers are no
\* smaller.
LEMMA TypeTabRefines ==
  ASSUME Patient, RoomyReads, TakesInv, TakesInv', TypeTab
  PROVE  \E t \in Terminals : Abstract!Tab(t)
<1> USE ReadSizesAreNat
<1>1. PICK t \in Terminals : t = visible_terminal
  BY DEF TakesInv, PatientInv, TypeOK
<1>2. PICK i \in Int : i = kb_buf_i[t]
  BY DEF TakesInv, PatientInv, TypeOK, EnterFlag, InTerminalRead
<1>3. /\ kb[t] \in [Memory -> Chars] /\ kb'[t] \in [Memory -> Chars]
      /\ kb_buf_i \in [Terminals -> EnterFlag .. InTerminalRead + 1]
      /\ kb \in [Terminals -> [Memory -> Chars]]
      /\ terminal_buf_n_bytes \in Nat /\ terminal_buf_n_bytes >= BufSize
  BY SMTT(30) DEF TakesInv, PatientInv, TypeOK, RoomyReads
<1> DEFINE stops == TabStops(i)
           w     == Cardinality(stops)
<1>4. /\ kb'[t] = [m \in Memory |-> IF m \in stops THEN space ELSE kb[t][m]]
      /\ kb_buf_i'[t] = i + w
      /\ reader' = reader /\ visible_terminal' = visible_terminal
      /\ KeyPress /\ i # BufSize - 1 /\ OnlyOn(t)
  BY <1>1, <1>2, <1>3 DEF TypeTab, KbTerminal, Full, OnlyOn
<1>5. i \in 0 .. BufSize - 1
  BY <1>1, <1>2, <1>4 DEF KeyPress, KbTerminal, TakesInv, PatientInv, LineInv, Pending
<1>6. /\ w \in Nat /\ stops = i .. i + w - 1
      /\ w = IF TabWidth <= BufSize - 1 - i THEN TabWidth ELSE BufSize - 1 - i
  BY <1>3, <1>5, TabStopsCount
<1> HIDE DEF stops, w
<1>7. w \in {TabWidth, BufSize - 1 - i} /\ \A x \in {TabWidth, BufSize - 1 - i} : w <= x
  BY <1>5, <1>6, TerminalInputAssumption
<1>8. Abstract!Min({TabWidth, BufSize - 1 - i}) = w
  <2>1. \A x, y \in {TabWidth, BufSize - 1 - i} : x \in Int /\ (x <= y /\ y <= x => x = y)
    BY <1>5, TerminalInputAssumption
  <2>2. QED
    BY <1>7, <2>1 DEF Abstract!Min
<1>9. i + w <= BufSize /\ i + w \in Nat
  BY <1>5, <1>6, TerminalInputAssumption
<1>10. /\ kb'[t][EnterFlag] = kb[t][EnterFlag]
       /\ \A m \in 0 .. i + w - 1 : kb'[t][m] = IF m < i THEN kb[t][m] ELSE space
  <2>1. EnterFlag \in Memory /\ EnterFlag \notin stops
    BY <1>5, <1>6 DEF Memory, EnterFlag, InTerminalRead
  <2>2. \A m \in 0 .. i + w - 1 : m \in Memory /\ (m \in stops <=> ~ (m < i))
    BY <1>5, <1>6, <1>9 DEF Memory, EnterFlag, InTerminalRead
  <2>3. QED
    BY <1>4, <2>1, <2>2
<1>11. /\ Complete[t] = FALSE
       /\ Line[t] = Typed(kb[t], i) /\ Line'[t] = Typed(kb'[t], i + w)
       /\ Line' = [Line EXCEPT ![t] = Line'[t]]
       /\ UNCHANGED <<Waiting, Complete, Delivered>>
  BY <1>1, <1>2, <1>4, <1>9, <1>10, EditsLine
<1>12. Line'[t] = Line[t] \o [j \in 1 .. w |-> space]
  <2>1. PICK f \in [Memory -> Chars] : f = kb[t]
    BY <1>3
  <2>2. PICK g \in [Memory -> Chars] : g = kb'[t]
    BY <1>3
  <2>3. PICK k \in Nat : k = w
    BY <1>6
  <2>4. i + k <= BufSize /\ \A m \in 0 .. i + k - 1 : g[m] = IF m < i THEN f[m] ELSE space
    BY <1>9, <1>10, <2>1, <2>2, <2>3
  <2>5. Typed(g, i + k) = Typed(f, i) \o [j \in 1 .. k |-> space]
    BY <1>5, <2>4, TypedTab, ZenonT(60)
  <2>6. QED
    BY <1>11, <2>1, <2>2, <2>3, <2>5, Zenon
<1>13. Len(Line[t]) = i
  BY <1>3, <1>5, <1>11, TypedIsASeq
<1> DEFINE width == Abstract!Min({TabWidth, BufSize - 1 - Len(Line[t])})
<1>14. width = w
  BY <1>8, <1>13
<1>15. ~Complete[t] /\ Line' = [Line EXCEPT ![t] = Line[t] \o [j \in 1 .. width |-> space]]
  BY <1>11, <1>12, <1>14
<1>16. Abstract!Tab(t)
  BY <1>1, <1>4, <1>11, <1>15, Zenon DEF Abstract!Tab, Line, Waiting, Complete, Delivered
<1>17. QED
  BY <1>16

LEMMA PressEnterRefines ==
  ASSUME Patient, TakesInv, TakesInv', PressEnter
  PROVE  \E t \in Terminals : Abstract!Enter(t)
<1> USE ReadSizesAreNat, TerminalInputAssumption
<1>1. PICK t \in Terminals : t = visible_terminal
  BY DEF TakesInv, PatientInv, TypeOK
<1>2. PICK i \in Int : i = kb_buf_i[t]
  BY DEF TakesInv, PatientInv, TypeOK, EnterFlag, InTerminalRead
<1>3. /\ kb[t] \in [Memory -> Chars] /\ kb'[t] \in [Memory -> Chars]
      /\ kb_buf_i \in [Terminals -> EnterFlag .. InTerminalRead + 1]
      /\ kb \in [Terminals -> [Memory -> Chars]]
  BY DEF TakesInv, PatientInv, TypeOK
<1>4. /\ kb'[t] = [kb[t] EXCEPT ![i] = newline, ![EnterFlag] = one]
      /\ kb_buf_i'[t] = i + 1 /\ reader' = reader /\ visible_terminal' = visible_terminal
      /\ KeyPress /\ kb[t][InTerminalRead] # nul /\ OnlyOn(t)
  BY <1>1, <1>2, <1>3 DEF PressEnter, KbTerminal, EnterAllowed, OnlyOn
<1>5. /\ i \in 0 .. BufSize - 1 /\ kb[t][EnterFlag] = nul
      /\ reader[t].at \in {"wait", "stop"}
  BY <1>1, <1>2, <1>4 DEF KeyPress, KbTerminal, TakesInv, PatientInv, LineInv, Pending
<1>6. /\ i \in Nat /\ i - 0 = i /\ (i + 1) - 1 = i
      /\ kb'[t][EnterFlag] = one /\ one # nul
      /\ \A m \in 0 .. i - 1 : kb'[t][m] = kb[t][m]
  BY <1>3, <1>4, <1>5 DEF Memory, EnterFlag, InTerminalRead
<1>7. Complete[t] = FALSE /\ Complete'[t] = TRUE /\ Waiting[t] = TRUE
  BY <1>4, <1>5, <1>6 DEF Complete, Waiting
<1>8. Waiting'[t] = Waiting[t] /\ Delivered'[t] = Delivered[t]
  BY <1>4 DEF Waiting, Delivered
<1>9. Line'[t] = Line[t]
  <2>1. Line[t] = Typed(kb[t], i)
    BY <1>2, <1>5, <1>6, WhileTyped
  <2>2. Line'[t] = Typed(kb'[t], i)
    BY <1>4, <1>5, <1>6, WhileTypedNext
  <2>3. Typed(kb'[t], i) = Typed(kb[t], i)
    BY <1>6 DEF Typed
  <2>4. QED
    BY <2>1, <2>2, <2>3
<1>10. /\ Waiting' = Waiting /\ Delivered' = Delivered /\ Line' = Line
       /\ Complete' = [Complete EXCEPT ![t] = TRUE]
       /\ Waiting[t] /\ ~Complete[t]
  BY <1>4, <1>7, <1>8, <1>9, OthersKeepLines
<1>11. Abstract!Enter(t)
  BY <1>1, <1>4, <1>10, Zenon DEF Abstract!Enter, Line, Waiting, Complete, Delivered
<1>12. QED
  BY <1>11

LEMMA AllowEchoRefines ==
  ASSUME TakesInv, TakesInv', NEW t \in Terminals, AllowEcho(t)
  PROVE  Abstract!BeginRead(t)
<1> USE ReadSizesAreNat, TerminalInputAssumption
<1>1. PICK i \in Int : i = kb_buf_i[t]
  BY DEF TakesInv, PatientInv, TypeOK, EnterFlag, InTerminalRead
<1>2. /\ kb[t] \in [Memory -> Chars] /\ kb \in [Terminals -> [Memory -> Chars]]
      /\ reader \in [Terminals -> Readers]
  BY DEF TakesInv, PatientInv, TypeOK
<1>3. /\ kb'[t] = [kb[t] EXCEPT ![InTerminalRead] = one] /\ kb_buf_i' = kb_buf_i
      /\ reader[t].at = "allow" /\ reader'[t].at = "wait"
      /\ visible_terminal' = visible_terminal
  BY <1>2 DEF AllowEcho, At, Idle
<1>4. OnlyOn(t)
  BY <1>2 DEF AllowEcho, OnlyOn
<1>5. i \in 0 .. BufSize - 1 /\ kb[t][EnterFlag] = nul
  BY <1>1, <1>3 DEF TakesInv, PatientInv, LineInv, Pending
<1>6. /\ i \in Nat /\ i - 0 = i
      /\ kb'[t][EnterFlag] = nul
      /\ \A m \in 0 .. i - 1 : kb'[t][m] = kb[t][m]
  BY <1>2, <1>3, <1>5 DEF Memory, EnterFlag, InTerminalRead
<1>7. Complete[t] = FALSE /\ Complete'[t] = FALSE
  BY <1>3, <1>5, <1>6 DEF Complete
<1>8. Waiting[t] = FALSE /\ Waiting'[t] = TRUE /\ Delivered'[t] = <<>>
  BY <1>3 DEF Waiting, Delivered
<1>9. Line'[t] = Line[t]
  <2>1. Line[t] = Typed(kb[t], i)
    BY <1>1, <1>3, <1>5, <1>6, WhileTyped
  <2>2. Line'[t] = Typed(kb'[t], i)
    BY <1>1, <1>3, <1>6, WhileTypedNext
  <2>3. Typed(kb'[t], i) = Typed(kb[t], i)
    BY <1>6 DEF Typed
  <2>4. QED
    BY <2>1, <2>2, <2>3
<1>10. /\ Complete' = Complete /\ Line' = Line
       /\ Waiting' = [Waiting EXCEPT ![t] = TRUE]
       /\ Delivered' = [Delivered EXCEPT ![t] = <<>>]
       /\ ~Waiting[t]
  BY <1>4, <1>7, <1>8, <1>9, OthersKeepLines
<1>11. QED
  BY <1>3, <1>10, Zenon DEF Abstract!BeginRead, Line, Waiting, Complete, Delivered

\* The process gets its line with the newline when clear_keyboard_vars is done.
LEMMA ZeroBufferRefines ==
  ASSUME RoomyReads, TakesInv, TakesInv', NEW t \in Terminals, ZeroBuffer(t)
  PROVE  Abstract!EndRead(t)
<1> USE ReadSizesAreNat, TerminalInputAssumption
<1>1. /\ kb[t] \in [Memory -> Chars] /\ kb \in [Terminals -> [Memory -> Chars]]
      /\ reader[t] \in Readers /\ reader \in [Terminals -> Readers]
  BY DEF TakesInv, PatientInv, TypeOK
<1>2. PICK buf \in Seq(Chars) : buf = reader[t].buf
  BY <1>1 DEF Readers
<1>3. PICK k \in Int : k = reader[t].bytes_written
  BY <1>1 DEF Readers, EnterFlag, InTerminalRead
<1>4. /\ kb'[t] = [m \in Memory |-> IF m \in Slots THEN nul ELSE kb[t][m]]
      /\ kb_buf_i' = kb_buf_i
      /\ reader[t].at = "zero" /\ visible_terminal' = visible_terminal
      /\ reader'[t].at = "user" /\ reader'[t].buf = buf /\ reader'[t].bytes_written = k
  BY <1>1, <1>2, <1>3 DEF ZeroBuffer, At, GoTo, Readers
<1>5. OnlyOn(t)
  BY <1>1 DEF ZeroBuffer, GoTo, OnlyOn
<1>6. kb_buf_i[t] = 0 /\ kb[t][EnterFlag] = nul
  BY <1>4 DEF TakesInv, PatientInv, LineInv, Pending
<1>7. kb'[t][EnterFlag] = nul
  BY <1>4, <1>6 DEF Memory, Slots, EnterFlag, InTerminalRead
<1>8. k \in 1 .. BufSize /\ k <= Len(buf) /\ buf[k] = newline
  <2>1. /\ Len(buf) = reader[t].n /\ reader[t].n \in ReadSizes
        /\ k \in 1 .. BufSize /\ buf[k] = newline
    BY <1>2, <1>3, <1>4 DEF TakesInv, TakeInv
  <2>2. QED
    BY <2>1 DEF RoomyReads
<1>9. Complete[t] = TRUE /\ Complete'[t] = FALSE
  BY <1>4, <1>7 DEF Complete
<1>10. Waiting'[t] = FALSE
  BY <1>4 DEF Waiting
<1>11. Line[t] = SubSeq(buf, 1, k - 1)
  BY <1>2, <1>3, <1>4 DEF Line, LineOf
<1>12. Line'[t] = <<>>
  <2>1. Line'[t] = Typed(kb'[t], 0)
    BY <1>4, <1>6, <1>7, WhileTypedNext
  <2>2. QED
    BY <2>1 DEF Typed
<1>13. Delivered'[t] = Append(Line[t], newline)
  <2>1. Delivered'[t] = SubSeq(buf, 1, k)
    BY <1>4 DEF Delivered
  <2>2. SubSeq(buf, 1, k) = Append(SubSeq(buf, 1, k - 1), buf[k])
    <3>1. k \in 1 .. Len(buf) /\ 1 \in 1 .. Len(buf)
      BY <1>8, LenProperties
    <3>2. /\ \A j \in 1 .. k : buf[j] \in Chars
          /\ \A j \in 1 .. k - 1 : buf[j] \in Chars
      BY <3>1, ElementOfSeq
    <3> DEFINE whole == SubSeq(buf, 1, k)
               most  == SubSeq(buf, 1, k - 1)
    <3>3. /\ whole \in Seq(Chars) /\ Len(whole) = k
          /\ \A j \in 1 .. k : whole[j] = buf[j]
      <4>1. /\ whole \in Seq(Chars) /\ Len(whole) = IF 1 <= k THEN k - 1 + 1 ELSE 0
            /\ \A j \in 1 .. k - 1 + 1 : whole[j] = buf[1 + j - 1]
        BY <3>2, SubSeqProperties
      <4> HIDE DEF whole
      <4>2. QED
        BY <1>8, <4>1
    <3>4. /\ most \in Seq(Chars) /\ Len(most) = k - 1
          /\ \A j \in 1 .. k - 1 : most[j] = buf[j]
      <4>1. /\ most \in Seq(Chars) /\ Len(most) = IF 1 <= k - 1 THEN (k - 1) - 1 + 1 ELSE 0
            /\ \A j \in 1 .. (k - 1) - 1 + 1 : most[j] = buf[1 + j - 1]
        BY <3>2, SubSeqProperties
      <4> HIDE DEF most
      <4>2. QED
        BY <1>8, <4>1
    <3> HIDE DEF whole, most
    <3>5. buf[k] \in Chars
      BY <3>1, <3>2
    <3>6. /\ Append(most, buf[k]) \in Seq(Chars)
          /\ Len(Append(most, buf[k])) = k
          /\ \A j \in 1 .. k : Append(most, buf[k])[j] = buf[j]
      BY <1>8, <3>4, <3>5, AppendProperties
    <3>7. whole = Append(most, buf[k])
      BY <3>3, <3>6, SeqEqual
    <3>8. QED
      BY <3>7 DEF whole, most
  <2>3. QED
    BY <1>8, <1>11, <2>1, <2>2
<1>14. /\ Complete' = [Complete EXCEPT ![t] = FALSE]
       /\ Line' = [Line EXCEPT ![t] = <<>>]
       /\ Waiting' = [Waiting EXCEPT ![t] = FALSE]
       /\ Delivered' = [Delivered EXCEPT ![t] = Append(Line[t], newline)]
       /\ Complete[t]
  BY <1>5, <1>9, <1>10, <1>12, <1>13, OthersKeepLines
<1>15. QED
  BY <1>4, <1>14, Zenon DEF Abstract!EndRead, Line, Waiting, Complete, Delivered

\* The other statements of terminal_read are not seen: they neither change the line
\* nor begin or end a read.
LEMMA ReadStutters ==
  ASSUME RoomyReads, TakesInv, TakesInv', NEW t \in Terminals,
         \/ \E n \in ReadSizes : CallRead(t, n)
         \/ SeeEnter(t) \/ StopEcho(t) \/ Strip(t) \/ EraseLast(t) \/ Shorten(t)
         \/ CopyLine(t) \/ Count(t) \/ ClearIndex(t)
  PROVE  UNCHANGED Abstract!vars
<1> USE ReadSizesAreNat, TerminalInputAssumption
<1>1. /\ kb[t] \in [Memory -> Chars] /\ kb \in [Terminals -> [Memory -> Chars]]
      /\ kb_buf_i \in [Terminals -> EnterFlag .. InTerminalRead + 1]
      /\ reader[t] \in Readers /\ reader \in [Terminals -> Readers]
      /\ LineInv(t) /\ TakeInv(t)
  BY DEF TakesInv, PatientInv, TypeOK
<1>2. visible_terminal' = visible_terminal
  BY DEF CallRead, SeeEnter, StopEcho, Strip, EraseLast, Shorten, CopyLine, Count, ClearIndex
<1>3. OnlyOn(t)
  BY <1>1 DEF OnlyOn, CallRead, SeeEnter, StopEcho, Strip, EraseLast, Shorten, CopyLine, Count,
              ClearIndex, GoTo
\* The buffer, the index and the flag stay.
<1>4. ASSUME kb'[t] = kb[t], kb_buf_i'[t] = kb_buf_i[t],
             reader[t].at # "zero", reader'[t].at # "zero",
             reader[t].at \in {"user", "allow"} <=> reader'[t].at \in {"user", "allow"},
             reader[t].at \in {"user", "allow"} =>
               /\ reader'[t].buf = reader[t].buf
               /\ reader'[t].bytes_written = reader[t].bytes_written
      PROVE  UNCHANGED Abstract!vars
  <2>1. Line'[t] = Line[t] /\ Complete'[t] = Complete[t]
    BY <1>4, WhileTyped, WhileTypedNext DEF Complete
  <2>2. Waiting'[t] = Waiting[t] /\ Delivered'[t] = Delivered[t]
    BY <1>4 DEF Waiting, Delivered
  <2>3. QED
    BY <1>2, <1>3, <2>1, <2>2, LineStutters
<1>5. CASE \E n \in ReadSizes : CallRead(t, n)
  <2>1. PICK n \in ReadSizes : CallRead(t, n)
    BY <1>5
  <2>2. reader' = [reader EXCEPT ![t] = [reader[t] EXCEPT !.at = "allow", !.n = n]]
    BY <1>1, <2>1 DEF CallRead
  <2>3. /\ reader'[t].at = "allow"
        /\ reader'[t].buf = reader[t].buf /\ reader'[t].bytes_written = reader[t].bytes_written
    BY <1>1, <2>2 DEF Readers
  <2>4. reader[t].at = "user" /\ kb'[t] = kb[t] /\ kb_buf_i'[t] = kb_buf_i[t]
    BY <2>1, Zenon DEF CallRead, At
  <2>5. QED
    BY <1>4, <2>3, <2>4
<1>6. CASE SeeEnter(t) \/ Strip(t) \/ CopyLine(t) \/ Count(t)
  <2>1. /\ kb'[t] = kb[t] /\ kb_buf_i'[t] = kb_buf_i[t]
        /\ reader[t].at \in {"wait", "strip", "copy", "count"}
    BY <1>6 DEF SeeEnter, Strip, CopyLine, Count, At
  <2>2. reader'[t].at \in {"stop", "copy", "erase", "count", "clear"}
    BY <1>1, <1>6 DEF SeeEnter, Strip, CopyLine, Count, GoTo, Readers
  <2>3. QED
    BY <1>4, <2>1, <2>2
<1>7. CASE StopEcho(t)
  <2>1. /\ kb'[t] = [kb[t] EXCEPT ![InTerminalRead] = nul] /\ kb_buf_i' = kb_buf_i
        /\ reader[t].at = "stop" /\ reader'[t].at = "strip"
    BY <1>1, <1>7 DEF StopEcho, At, GoTo, Readers
  <2>2. PICK k \in 1 .. BufSize : k = kb_buf_i[t]
    BY <1>1, <2>1 DEF LineInv
  <2>3. kb[t][EnterFlag] # nul /\ kb'[t][EnterFlag] # nul
    BY <1>1, <2>1 DEF LineInv, Pending, Memory, EnterFlag, InTerminalRead
  <2>4. \A m \in 0 .. (k - 1) - 1 : kb'[t][m] = kb[t][m]
    BY <1>1, <2>1 DEF Memory, EnterFlag, InTerminalRead
  <2>5. Line[t] = Typed(kb[t], k - 1) /\ Line'[t] = Typed(kb'[t], k - 1)
    BY <2>1, <2>2, <2>3, WhileTyped, WhileTypedNext
  <2>6. Typed(kb'[t], k - 1) = Typed(kb[t], k - 1)
    BY <2>4 DEF Typed
  <2>7. Complete'[t] = Complete[t] /\ Waiting'[t] = Waiting[t] /\ Delivered'[t] = Delivered[t]
    BY <2>1, <2>3 DEF Complete, Waiting, Delivered
  <2>8. QED
    BY <1>2, <1>3, <2>5, <2>6, <2>7, LineStutters
<1>8. CASE EraseLast(t) \/ Shorten(t)
  BY <1>1, <1>8 DEF EraseLast, Shorten, At, LineInv
<1>9. CASE ClearIndex(t)
  <2>1. /\ reader[t].at = "clear" /\ reader'[t].at = "zero"
        /\ reader'[t].buf = reader[t].buf /\ reader'[t].bytes_written = reader[t].bytes_written
    BY <1>1, <1>9 DEF ClearIndex, At, GoTo, Readers
  <2>2. PICK k \in 1 .. BufSize : k = kb_buf_i[t]
    BY <1>1, <2>1 DEF LineInv
  <2>3. kb[t][EnterFlag] # nul
    BY <1>1, <2>1 DEF LineInv, Pending
  <2>4. PICK buf \in Seq(Chars) : buf = reader[t].buf
    BY <1>1 DEF Readers
  <2>5. /\ Len(buf) = reader[t].n /\ reader[t].n \in ReadSizes
        /\ reader[t].bytes_written = k
        /\ \A j \in 1 .. k : buf[j] = kb[t][j - 1]
    BY <1>1, <2>1, <2>2, <2>4 DEF TakeInv
  <2>6. Line[t] = Typed(kb[t], k - 1)
    BY <2>1, <2>2, <2>3, WhileTyped
  <2>7. Line'[t] = SubSeq(buf, 1, k - 1)
    BY <2>1, <2>4, <2>5 DEF Line, LineOf
  <2>8. Typed(kb[t], k - 1) = SubSeq(buf, 1, k - 1)
    <3>1. PICK f \in [Memory -> Chars] : f = kb[t]
      BY <1>1
    <3>2. k <= Len(buf) /\ \A j \in 1 .. k : buf[j] = f[j - 1]
      BY <2>5, <3>1 DEF RoomyReads
    <3>3. Typed(f, k - 1) = SubSeq(buf, 1, k - 1)
      BY <3>2, TypedCopied
    <3>4. QED
      BY <3>1, <3>3
  <2>9. Complete'[t] = Complete[t] /\ Waiting'[t] = Waiting[t] /\ Delivered'[t] = Delivered[t]
    BY <2>1, <2>3 DEF Complete, Waiting, Delivered
  <2>10. QED
    BY <1>2, <1>3, <2>6, <2>7, <2>8, <2>9, LineStutters
<1>10. QED
  BY <1>5, <1>6, <1>7, <1>8, <1>9

LEMMA NextRefines ==
  ASSUME Patient, RoomyReads, TakesInv, TakesInv', [Next]_vars
  PROVE  [Abstract!Next]_(Abstract!vars)
<1>1. CASE Keyboard
  <2>1. ASSUME NEW c \in Keys \cup {space}, TypeKey(c)
        PROVE  \E t \in Terminals : Abstract!Type(t, c)
    BY <2>1, TypeKeyRefines
  <2>2. CASE TypeTab
    BY <2>2, TypeTabRefines DEF Abstract!Next
  <2>3. CASE Backspace
    BY <2>3, BackspaceRefines DEF Abstract!Next
  <2>4. CASE PressEnter
    BY <2>4, PressEnterRefines DEF Abstract!Next
  <2>5. ASSUME NEW t \in Terminals, SwitchVisible(t)
        PROVE  Abstract!Switch(t)
    <3>1. /\ visible_terminal' = t /\ Line' = Line /\ Waiting' = Waiting
          /\ Complete' = Complete /\ Delivered' = Delivered
      BY <2>5 DEF SwitchVisible, Line, LineOf, Waiting, Complete, Delivered
    <3>2. QED
      BY <3>1, Zenon DEF Abstract!Switch, Line, Waiting, Complete, Delivered
  <2>6. QED
    BY <1>1, <2>1, <2>2, <2>3, <2>4, <2>5 DEF Keyboard, Abstract!Next
<1>2. ASSUME NEW t \in Terminals,
             (\E n \in ReadSizes : CallRead(t, n)) \/ ReadStep(t)
      PROVE  [Abstract!Next]_(Abstract!vars)
  <2>1. CASE AllowEcho(t)
    BY <2>1, AllowEchoRefines DEF Abstract!Next
  <2>2. CASE ZeroBuffer(t)
    BY <2>2, ZeroBufferRefines DEF Abstract!Next
  <2>3. CASE ~AllowEcho(t) /\ ~ZeroBuffer(t)
    BY <1>2, <2>3, ReadStutters DEF ReadStep
  <2>4. QED
    BY <2>1, <2>2, <2>3
<1>3. CASE Tick \/ UNCHANGED vars
  <2>1. UNCHANGED <<kb, kb_buf_i, reader, visible_terminal>>
    BY <1>3 DEF Tick, vars
  <2>2. Line' = Line /\ Waiting' = Waiting /\ Complete' = Complete /\ Delivered' = Delivered
    BY <2>1 DEF Line, LineOf, Waiting, Complete, Delivered
  <2>3. QED
    BY <2>1, <2>2, Zenon DEF Abstract!vars, Line, Waiting, Complete, Delivered
<1>4. QED
  BY <1>1, <1>2, <1>3 DEF Next

\* When users wait for their prompt and the readers' buffers are no smaller than
\* the keyboard buffer, every line typed reaches the process that reads it, whole
\* and once, through every interleaving of keyboard_handler, the scheduler and the
\* statements of terminal_read.
THEOREM LinesAreDelivered ==
  ASSUME Patient, \A n \in ReadSizes : n >= BufSize
  PROVE  Spec => DeliversLines
<1>0. RoomyReads
  BY DEF RoomyReads
<1>1. Init => TakesInv /\ IndexInv /\ Abstract!Init
  BY InitLines, InitTypes, InitTakes, InitRefines DEF TypeInv, TakesInv
<1>2. TakesInv /\ IndexInv /\ [Next]_vars => TakesInv' /\ IndexInv'
  BY <1>0, NextTakes
<1>3. TakesInv /\ TakesInv' /\ [Next]_vars => [Abstract!Next]_(Abstract!vars)
  BY <1>0, NextRefines
<1>4. QED
  BY <1>1, <1>2, <1>3, PTL DEF Spec, DeliversLines, Abstract!Spec

==============================================================================
