------------------------------ MODULE VirtualRtc ------------------------------
(***************************************************************************)
(* The RTC that each terminal believes it owns, and the file descriptors   *)
(* that open and close it.  One real RTC interrupts at HIGHEST_FREQ; the   *)
(* handler counts it down for every terminal whose RTC is active and       *)
(* raises that terminal's virtual interrupt once a period.  A process      *)
(* waits for it in RTC_read.                                               *)
(*                                                                         *)
(* The state of an RTC belongs to the terminal; the descriptors belong to  *)
(* a process.  The processes of a terminal form a stack: execute puts one  *)
(* on top, halt takes it off and closes what it has open.                  *)
(*                                                                         *)
(* Only read runs with interrupts on, so every other call is one step.     *)
(***************************************************************************)
EXTENDS Integers, Sequences, FiniteSets

CONSTANTS
  MaxTerminals,  \* MAX_TERMINALS in terminal.h
  MaxChildren,   \* processes besides the base shells: the pids left for them
  Fds,           \* the descriptors open hands out, 2 .. 7 in the code
  FileKinds,     \* the kinds of file there are: "rtc", "directory", "regular"
  HighestFreq,   \* HIGHEST_FREQ, 1024 in the code
  ByteValues,    \* how many values a byte has, 256
  Freqs,         \* the values processes pass to RTC_write
  UintMax        \* the largest uint32_t

ASSUME VirtualRtcAssumption ==
  /\ MaxTerminals \in Nat \ {0}
  /\ MaxChildren \in Nat
  /\ Fds \subseteq Nat
  /\ HighestFreq \in Nat /\ ByteValues \in Nat
  /\ 2 < ByteValues /\ ByteValues <= HighestFreq
  /\ Freqs \subseteq Nat
  /\ UintMax \in Nat

Terminals == 0 .. MaxTerminals - 1

VARIABLES
  scheduled_terminal,
  jobs,                \* jobs[t]: the descriptor tables of t's processes, the base shell's first
  at,                  \* at[t]: where t's top process is: "user", "wait" or "seen" in RTC_read
  rtc_active, rtc_freq, rtc_countdown, rtc_virt_interrupt

rtcVars == <<rtc_active, rtc_freq, rtc_countdown, rtc_virt_interrupt>>
vars    == <<scheduled_terminal, jobs, at, rtcVars>>

\* execute marks every descriptor but stdin and stdout as free.
NewTable == [fd \in Fds |-> "closed"]

Tables == [Fds -> FileKinds \cup {"closed"}]

\* All terminals are booted.
Init ==
  /\ scheduled_terminal = 0
  /\ jobs = [t \in Terminals |-> <<NewTable>>]
  /\ at = [t \in Terminals |-> "user"]
  /\ rtc_active = [t \in Terminals |-> FALSE]
  /\ rtc_freq = [t \in Terminals |-> 0]
  /\ rtc_countdown = [t \in Terminals |-> 0]
  /\ rtc_virt_interrupt = [t \in Terminals |-> FALSE]

\* The process that makes system calls.
Calls(t) == t = scheduled_terminal /\ at[t] = "user"

Top(t) == jobs[t][Len(jobs[t])]

SetTop(t, table) == jobs' = [jobs EXCEPT ![t][Len(jobs[t])] = table]

\* How many real interrupts make one virtual one.
Period(freq) == HighestFreq \div freq

-----------------------------------------------------------------------------
(* The RTC's own functions, for the scheduled terminal t *)

RtcOpen(t) ==
  /\ rtc_freq' = [rtc_freq EXCEPT ![t] = 2]
  /\ rtc_active' = [rtc_active EXCEPT ![t] = TRUE]
  /\ rtc_countdown' = [rtc_countdown EXCEPT ![t] = Period(2)]
  /\ UNCHANGED rtc_virt_interrupt

RtcClose(t) ==
  /\ rtc_freq' = [rtc_freq EXCEPT ![t] = 0]
  /\ rtc_active' = [rtc_active EXCEPT ![t] = FALSE]
  /\ rtc_countdown' = [rtc_countdown EXCEPT ![t] = 0]
  /\ rtc_virt_interrupt' = [rtc_virt_interrupt EXCEPT ![t] = FALSE]

\* RTC_write's test of the byte: even, not zero, and one bit set above the lowest.
ValidFreq(b) ==
  /\ b % 2 = 0
  /\ b \div 2 # 0
  /\ Cardinality({k \in 0 .. 10 : (b \div 2^(k + 1)) % 2 = 1}) = 1

\* Mutant of RtcWrite: the countdown of the old frequency goes on.
RtcWriteKeepsCountdown(t, freq) ==
  LET b == freq % ByteValues
  IN  /\ rtc_freq' = IF ValidFreq(b) THEN [rtc_freq EXCEPT ![t] = b] ELSE rtc_freq
      /\ UNCHANGED <<rtc_active, rtc_countdown, rtc_virt_interrupt>>

\* RTC_write looks at one byte of the value; the other three are not read, so that
\* 256, 512 and 1024 are refused.
RtcWrite(t, freq) ==
  LET b == freq % ByteValues
  IN  IF ValidFreq(b)
      THEN /\ rtc_freq' = [rtc_freq EXCEPT ![t] = b]
           /\ rtc_countdown' = [rtc_countdown EXCEPT ![t] = Period(b)]
           /\ UNCHANGED <<rtc_active, rtc_virt_interrupt>>
      ELSE UNCHANGED rtcVars

-----------------------------------------------------------------------------
(* System calls *)

LowestFree(table) == CHOOSE fd \in Fds : table[fd] = "closed" /\ \A g \in Fds : g < fd => table[g] # "closed"

\* open of a file that exists, while a descriptor is free (otherwise it returns -1).
Open(kind) ==
  \E t \in Terminals :
    /\ Calls(t)
    /\ \E fd \in Fds : Top(t)[fd] = "closed"
    /\ SetTop(t, [Top(t) EXCEPT ![LowestFree(Top(t))] = kind])
    /\ IF kind = "rtc" THEN RtcOpen(t) ELSE UNCHANGED rtcVars
    /\ UNCHANGED <<scheduled_terminal, at>>

Close(fd) ==
  \E t \in Terminals :
    /\ Calls(t)
    /\ Top(t)[fd] # "closed"
    /\ SetTop(t, [Top(t) EXCEPT ![fd] = "closed"])
    /\ IF Top(t)[fd] = "rtc" THEN RtcClose(t) ELSE UNCHANGED rtcVars
    /\ UNCHANGED <<scheduled_terminal, at>>

Write(fd, freq) ==
  \E t \in Terminals :
    /\ Calls(t)
    /\ Top(t)[fd] = "rtc"
    /\ RtcWrite(t, freq)
    /\ UNCHANGED <<scheduled_terminal, jobs, at>>

\* read of the RTC; the reads of files do not wait and change nothing here.
Read(fd) ==
  \E t \in Terminals :
    /\ Calls(t)
    /\ Top(t)[fd] = "rtc"
    /\ at' = [at EXCEPT ![t] = "wait"]
    /\ UNCHANGED <<scheduled_terminal, jobs, rtcVars>>

\* Mutant of CloseAll: halt forgets what the process has open.
CloseNothing(t) == UNCHANGED rtcVars

\* halt closes every open descriptor of the process; one of the RTC's is enough to
\* close the terminal's.
CloseAll(t) ==
  IF \E fd \in Fds : Top(t)[fd] = "rtc" THEN RtcClose(t) ELSE UNCHANGED rtcVars

\* The processes that hold a pid besides the base shells, each by its place on its
\* terminal.
Children == {child \in Terminals \X (2 .. MaxChildren + 1) : child[2] <= Len(jobs[child[1]])}

\* execute finds a free pid (otherwise it returns -1).
Execute ==
  \E t \in Terminals :
    /\ Calls(t)
    /\ Cardinality(Children) < MaxChildren
    /\ jobs' = [jobs EXCEPT ![t] = Append(@, NewTable)]
    /\ UNCHANGED <<scheduled_terminal, at, rtcVars>>

\* The base shell is replaced by a new one.
Halt ==
  \E t \in Terminals :
    /\ Calls(t)
    /\ CloseAll(t)
    /\ jobs' = [jobs EXCEPT ![t] = IF Len(@) = 1 THEN <<NewTable>> ELSE SubSeq(@, 1, Len(@) - 1)]
    /\ UNCHANGED <<scheduled_terminal, at>>

-----------------------------------------------------------------------------
(* RTC_read *)

SeeInterrupt(t) ==
  /\ t = scheduled_terminal
  /\ at[t] = "wait"
  /\ rtc_virt_interrupt[t]
  /\ at' = [at EXCEPT ![t] = "seen"]
  /\ UNCHANGED <<scheduled_terminal, jobs, rtcVars>>

\* An interrupt since the wait ended is cleared with the one that ended it.
ClearInterrupt(t) ==
  /\ t = scheduled_terminal
  /\ at[t] = "seen"
  /\ rtc_virt_interrupt' = [rtc_virt_interrupt EXCEPT ![t] = FALSE]
  /\ at' = [at EXCEPT ![t] = "user"]
  /\ UNCHANGED <<scheduled_terminal, jobs, rtc_active, rtc_freq, rtc_countdown>>

ReadStep(t) == SeeInterrupt(t) \/ ClearInterrupt(t)

-----------------------------------------------------------------------------
(* Interrupts *)

\* Mutant of Counting: the loop stops one terminal short.
CountingShort(t) == rtc_active[t] /\ t < MaxTerminals - 1

Counting(t) == rtc_active[t]

\* rtc_countdown is unsigned.
Decrement(n) == IF n = 0 THEN UintMax ELSE n - 1

\* Mutant of NextCount: the countdown is not started again.
NextCountNoReset(t) == Decrement(rtc_countdown[t])

NextCount(t) ==
  IF Decrement(rtc_countdown[t]) = 0 THEN Period(rtc_freq[t]) ELSE Decrement(rtc_countdown[t])

\* RTC_interrupt.
RtcInterrupt ==
  /\ rtc_countdown' = [t \in Terminals |-> IF Counting(t) THEN NextCount(t) ELSE rtc_countdown[t]]
  /\ rtc_virt_interrupt' =
       [t \in Terminals |-> rtc_virt_interrupt[t] \/ (Counting(t) /\ Decrement(rtc_countdown[t]) = 0)]
  /\ UNCHANGED <<scheduled_terminal, jobs, at, rtc_active, rtc_freq>>

Tick ==
  /\ scheduled_terminal' = (scheduled_terminal + 1) % MaxTerminals
  /\ UNCHANGED <<jobs, at, rtcVars>>

-----------------------------------------------------------------------------

Next ==
  \/ \E kind \in FileKinds : Open(kind)
  \/ \E fd \in Fds : Close(fd)
  \/ \E fd \in Fds, freq \in Freqs : Write(fd, freq)
  \/ \E fd \in Fds : Read(fd)
  \/ Execute
  \/ Halt
  \/ \E t \in Terminals : ReadStep(t)
  \/ RtcInterrupt
  \/ Tick

Spec == Init /\ [][Next]_vars

\* Both timers go on for ever, and a process executes instructions between ticks.
FairSpec ==
  Spec /\ WF_vars(Tick) /\ WF_vars(RtcInterrupt) /\ \A t \in Terminals : SF_vars(ReadStep(t))

-----------------------------------------------------------------------------
(* Properties *)

\* The type invariant: the countdown never wraps below zero.
TypeOK ==
  /\ scheduled_terminal \in Terminals
  /\ jobs \in [Terminals -> Seq(Tables)]
  /\ \A t \in Terminals : Len(jobs[t]) \in 1 .. MaxChildren + 1
  /\ at \in [Terminals -> {"user", "wait", "seen"}]
  /\ rtc_active \in [Terminals -> BOOLEAN]
  /\ rtc_freq \in [Terminals -> 0 .. ByteValues - 1]
  /\ rtc_countdown \in [Terminals -> 0 .. HighestFreq]
  /\ rtc_virt_interrupt \in [Terminals -> BOOLEAN]

\* Whatever the processes of a terminal do to its RTC, while it is active the
\* handler has a frequency it can divide by and a countdown no longer than its
\* period (RTC_interrupt divides with no test; open, write and close of different
\* descriptors and processes all assign these).
ActiveIsArmed ==
  \A t \in Terminals : rtc_active[t] =>
    rtc_freq[t] > 0 /\ rtc_countdown[t] \in 1 .. Period(rtc_freq[t])

\* An RTC is active, or has an interrupt pending, only while some process of its
\* terminal has it open: nothing is left running when processes end (halt, close,
\* RTC_close).
ActiveHasOwner ==
  \A t \in Terminals : rtc_active[t] \/ rtc_virt_interrupt[t] =>
    \E i \in 1 .. Len(jobs[t]) : \E fd \in Fds : jobs[t][i][fd] = "rtc"

\* A process waiting in RTC_read on an active RTC gets its interrupt and returns,
\* however often the processor and the descriptors of other terminals change hands.
ActiveReadReturns ==
  \A t \in Terminals : (at[t] = "wait" /\ rtc_active[t]) ~> at[t] = "user"

================================================================================
