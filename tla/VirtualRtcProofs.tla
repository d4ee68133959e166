--------------------------- MODULE VirtualRtcProofs ---------------------------
(***************************************************************************)
(* Proofs about VirtualRtc, for every number of terminals, processes and   *)
(* descriptors and every frequency of the real RTC.                        *)
(***************************************************************************)
EXTENDS VirtualRtc, FiniteSetTheorems, SequenceTheorems, WellFoundedInduction, TLAPS

-----------------------------------------------------------------------------
(* The operators *)

\* The handler divides by a frequency RTC_open or RTC_write accepted: the period it
\* gets is at least one interrupt.
LEMMA PeriodIsPositive ==
  ASSUME NEW freq \in 1 .. ByteValues - 1
  PROVE  Period(freq) \in 1 .. HighestFreq
<1>1. /\ freq \in Nat \ {0} /\ HighestFreq \in Nat /\ freq <= HighestFreq
  BY VirtualRtcAssumption
<1>2. QED
  BY <1>1 DEF Period

\* What RTC_write takes from the byte it reads is a frequency above zero.
LEMMA ValidFreqIsPositive ==
  ASSUME NEW freq \in Nat, ValidFreq(freq % ByteValues)
  PROVE  freq % ByteValues \in 1 .. ByteValues - 1
<1>1. freq % ByteValues \in 0 .. ByteValues - 1
  BY VirtualRtcAssumption
<1>2. 0 \div 2 = 0
  OBVIOUS
<1>3. freq % ByteValues # 0
  BY <1>2 DEF ValidFreq
<1>4. QED
  BY <1>1, <1>3

\* open finds a descriptor when there is a free one.
LEMMA LowestFreeIsFree ==
  ASSUME NEW table \in Tables, \E fd \in Fds : table[fd] = "closed"
  PROVE  LowestFree(table) \in Fds /\ table[LowestFree(table)] = "closed"
<1> DEFINE free == {fd \in Fds : table[fd] = "closed"}
           less == {pair \in Nat \X Nat : pair[1] < pair[2]}
<1>1. free \subseteq Nat /\ free # {}
  BY VirtualRtcAssumption
<1>2. IsWellFoundedOn(less, Nat)
  BY NatLessThanWellFounded DEF OpToRel
<1>3. PICK fd \in free : \A g \in free : ~ (<<g, fd>> \in less)
  <2> HIDE DEF less, free
  <2> QED  BY <1>1, <1>2, WFMin
<1>4. \A g \in free : ~ (g < fd)
  BY <1>1, <1>3
<1>5. fd \in Fds /\ table[fd] = "closed" /\ \A g \in Fds : g < fd => table[g] # "closed"
  BY <1>4
<1>6. QED
  BY <1>5 DEF LowestFree


-----------------------------------------------------------------------------
(* The three parts of the invariant *)

JobsTyped ==
  /\ scheduled_terminal \in Terminals
  /\ jobs \in [Terminals -> Seq(Tables)]
  /\ \A t \in Terminals : Len(jobs[t]) \in 1 .. MaxChildren + 1
  /\ at \in [Terminals -> {"user", "wait", "seen"}]

RtcTyped ==
  /\ rtc_active \in [Terminals -> BOOLEAN]
  /\ rtc_freq \in [Terminals -> 0 .. ByteValues - 1]
  /\ rtc_countdown \in [Terminals -> 0 .. HighestFreq]
  /\ rtc_virt_interrupt \in [Terminals -> BOOLEAN]

RtcInv == RtcTyped /\ ActiveIsArmed

\* The inductive invariant.  The countdown stays in its type because an active RTC
\* is armed; who owns the RTC is found among typed descriptor tables.
IInv == JobsTyped /\ RtcInv /\ ActiveHasOwner

LEMMA TopIsATable ==
  ASSUME JobsTyped, NEW t \in Terminals
  PROVE  /\ Len(jobs[t]) \in 1 .. Len(jobs[t])
         /\ Len(jobs[t]) \in Nat \ {0}
         /\ Top(t) \in Tables
BY VirtualRtcAssumption, ElementOfSeq DEF JobsTyped, Top

\* execute adds a process to a terminal only while that terminal's processes and
\* the others' together leave a pid: one terminal alone cannot hold them all.
LEMMA PidLeft ==
  ASSUME JobsTyped, NEW t \in Terminals, Cardinality(Children) < MaxChildren
  PROVE  Len(jobs[t]) <= MaxChildren
<1> DEFINE all == Terminals \X (2 .. MaxChildren + 1)
           mine == {t} \X (2 .. MaxChildren + 1)
<1>1. SUFFICES ASSUME Len(jobs[t]) = MaxChildren + 1 PROVE FALSE
  BY VirtualRtcAssumption DEF JobsTyped
<1>2. IsFiniteSet(all)
  <2>1. IsFiniteSet(Terminals) /\ IsFiniteSet(2 .. MaxChildren + 1)
    BY FS_Interval, VirtualRtcAssumption DEF Terminals
  <2>2. QED
    BY <2>1, FS_Product
<1>3. Children \subseteq all /\ mine \subseteq Children
  BY <1>1, VirtualRtcAssumption DEF Children
<1>4. IsFiniteSet(Children) /\ Cardinality(mine) <= Cardinality(Children)
  BY <1>2, <1>3, FS_Subset
<1>5. Cardinality(mine) = MaxChildren
  <2>1. IsFiniteSet({t}) /\ Cardinality({t}) = 1
    BY FS_Singleton
  <2>2. IsFiniteSet(2 .. MaxChildren + 1) /\ Cardinality(2 .. MaxChildren + 1) = MaxChildren
    BY FS_Interval, VirtualRtcAssumption
  <2>3. Cardinality(mine) = Cardinality({t}) * Cardinality(2 .. MaxChildren + 1)
    BY <2>1, <2>2, FS_Product
  <2>4. QED
    BY <2>1, <2>2, <2>3, VirtualRtcAssumption
<1>6. QED
  BY <1>4, <1>5, FS_CardinalityType, VirtualRtcAssumption

LEMMA InitIInv == Init => IInv
<1> SUFFICES ASSUME Init PROVE IInv
  OBVIOUS
<1> USE VirtualRtcAssumption
<1>1. JobsTyped
  <2>1. <<NewTable>> \in Seq(Tables) /\ Len(<<NewTable>>) = 1
    BY DEF NewTable, Tables
  <2>2. QED
    BY <2>1 DEF Init, JobsTyped, Terminals
<1>2. RtcTyped
  BY DEF Init, RtcTyped
<1>3. ActiveIsArmed /\ ActiveHasOwner
  BY DEF Init, ActiveIsArmed, ActiveHasOwner
<1>4. QED
  BY <1>1, <1>2, <1>3 DEF RtcInv, IInv

-----------------------------------------------------------------------------
(* The RTC's functions keep it armed *)

LEMMA RtcOpenArms ==
  ASSUME RtcInv, NEW t \in Terminals, RtcOpen(t)
  PROVE  RtcInv'
<1>1. 2 \in 1 .. ByteValues - 1 /\ Period(2) \in 1 .. HighestFreq
  BY PeriodIsPositive, VirtualRtcAssumption
<1>2. RtcTyped'
  BY <1>1, VirtualRtcAssumption DEF RtcInv, RtcTyped, RtcOpen
<1>3. ActiveIsArmed'
  BY <1>1 DEF RtcInv, RtcTyped, RtcOpen, ActiveIsArmed, Period
<1>4. QED
  BY <1>2, <1>3 DEF RtcInv

LEMMA RtcCloseDisarms ==
  ASSUME RtcInv, NEW t \in Terminals, RtcClose(t)
  PROVE  /\ RtcInv'
         /\ ~rtc_active'[t] /\ ~rtc_virt_interrupt'[t]
         /\ \A u \in Terminals \ {t} : /\ rtc_active'[u] = rtc_active[u]
                                       /\ rtc_virt_interrupt'[u] = rtc_virt_interrupt[u]
<1>1. RtcTyped'
  BY VirtualRtcAssumption DEF RtcInv, RtcTyped, RtcClose
<1>2. ActiveIsArmed'
  BY DEF RtcInv, RtcTyped, RtcClose, ActiveIsArmed, Period
<1>3. QED
  BY <1>1, <1>2 DEF RtcInv, RtcTyped, RtcClose

LEMMA RtcWriteArms ==
  ASSUME RtcInv, NEW t \in Terminals, NEW freq \in Nat, RtcWrite(t, freq)
  PROVE  RtcInv' /\ UNCHANGED <<rtc_active, rtc_virt_interrupt>>
<1> DEFINE b == freq % ByteValues
<1>1. CASE ValidFreq(b)
  <2>1. b \in 1 .. ByteValues - 1 /\ Period(b) \in 1 .. HighestFreq
    BY <1>1, ValidFreqIsPositive, PeriodIsPositive
  <2>2. /\ rtc_freq' = [rtc_freq EXCEPT ![t] = b]
        /\ rtc_countdown' = [rtc_countdown EXCEPT ![t] = Period(b)]
        /\ UNCHANGED <<rtc_active, rtc_virt_interrupt>>
    BY <1>1 DEF RtcWrite
  <2> HIDE DEF b
  <2>3. RtcTyped'
    BY <2>1, <2>2, VirtualRtcAssumption DEF RtcInv, RtcTyped
  <2>4. ActiveIsArmed'
    BY <2>1, <2>2 DEF RtcInv, RtcTyped, ActiveIsArmed, Period
  <2>5. QED
    BY <2>2, <2>3, <2>4 DEF RtcInv
<1>2. CASE ~ValidFreq(b)
  BY <1>2 DEF RtcWrite, rtcVars, RtcInv, RtcTyped, ActiveIsArmed, Period
<1>3. QED
  BY <1>1, <1>2

\* The decrement of an armed countdown does not pass below zero.
LEMMA RtcInterruptCounts ==
  ASSUME RtcInv, RtcInterrupt
  PROVE  /\ RtcInv'
         /\ \A t \in Terminals : rtc_virt_interrupt'[t] => rtc_virt_interrupt[t] \/ rtc_active[t]
<1>1. ASSUME NEW t \in Terminals, rtc_active[t]
      PROVE  /\ Decrement(rtc_countdown[t]) = rtc_countdown[t] - 1
             /\ NextCount(t) \in 1 .. Period(rtc_freq[t])
             /\ NextCount(t) \in 1 .. HighestFreq
  <2>1. rtc_freq[t] \in 1 .. ByteValues - 1 /\ rtc_countdown[t] \in 1 .. Period(rtc_freq[t])
    BY <1>1, VirtualRtcAssumption DEF RtcInv, RtcTyped, ActiveIsArmed
  <2>2. Period(rtc_freq[t]) \in 1 .. HighestFreq
    BY <2>1, PeriodIsPositive
  <2>3. QED
    BY <2>1, <2>2, VirtualRtcAssumption DEF Decrement, NextCount
<1>2. RtcTyped'
  <2>1. \A t \in Terminals :
          (IF Counting(t) THEN NextCount(t) ELSE rtc_countdown[t]) \in 0 .. HighestFreq
    BY <1>1 DEF Counting, RtcInv, RtcTyped
  <2>2. rtc_countdown' \in [Terminals -> 0 .. HighestFreq]
    BY <2>1 DEF RtcInterrupt
  <2>3. rtc_virt_interrupt' \in [Terminals -> BOOLEAN]
    BY Zenon DEF RtcInterrupt, RtcInv, RtcTyped, Counting
  <2>4. QED
    BY <2>2, <2>3 DEF RtcInterrupt, RtcInv, RtcTyped
<1>3. ActiveIsArmed'
  BY <1>1 DEF RtcInterrupt, RtcInv, RtcTyped, ActiveIsArmed, Counting, Period
<1>4. QED
  BY <1>2, <1>3 DEF RtcInterrupt, RtcInv, Counting

LEMMA RtcUnchanged ==
  ASSUME RtcInv, UNCHANGED rtcVars
  PROVE  RtcInv'
BY DEF RtcInv, RtcTyped, rtcVars, ActiveIsArmed, Period

-----------------------------------------------------------------------------
(* The steps *)

\* What a change of the top process's table does to the tables of its terminal.
LEMMA SetTopTable ==
  ASSUME JobsTyped, NEW t \in Terminals, NEW table \in Tables, SetTop(t, table),
         UNCHANGED <<scheduled_terminal, at>>
  PROVE  /\ JobsTyped'
         /\ \A u \in Terminals : Len(jobs'[u]) = Len(jobs[u])
         /\ \A u \in Terminals \ {t} : jobs'[u] = jobs[u]
         /\ \A i \in 1 .. Len(jobs[t]) :
              jobs'[t][i] = IF i = Len(jobs[t]) THEN table ELSE jobs[t][i]
<1> DEFINE new == [jobs[t] EXCEPT ![Len(jobs[t])] = table]
<1>1. jobs[t] \in Seq(Tables) /\ Len(jobs[t]) \in 1 .. Len(jobs[t])
  BY TopIsATable DEF JobsTyped
<1>2. /\ new \in Seq(Tables) /\ Len(new) = Len(jobs[t])
      /\ \A i \in 1 .. Len(jobs[t]) : new[i] = IF i = Len(jobs[t]) THEN table ELSE jobs[t][i]
  BY <1>1, ExceptSeq
<1>3. jobs' = [jobs EXCEPT ![t] = new]
  BY DEF SetTop
<1> HIDE DEF new
<1>4. QED
  BY <1>2, <1>3 DEF JobsTyped

LEMMA OpenStep ==
  ASSUME IInv, NEW kind \in FileKinds, Open(kind)
  PROVE  IInv'
<1>0. JobsTyped /\ RtcInv /\ ActiveHasOwner
  BY DEF IInv
<1>1. PICK t \in Terminals :
        /\ \E fd \in Fds : Top(t)[fd] = "closed"
        /\ SetTop(t, [Top(t) EXCEPT ![LowestFree(Top(t))] = kind])
        /\ IF kind = "rtc" THEN RtcOpen(t) ELSE UNCHANGED rtcVars
        /\ UNCHANGED <<scheduled_terminal, at>>
  BY DEF Open
<1> DEFINE free == LowestFree(Top(t))
           table == [Top(t) EXCEPT ![free] = kind]
<1>2. Top(t) \in Tables /\ Len(jobs[t]) \in 1 .. Len(jobs[t])
  BY <1>0, TopIsATable
<1>3. free \in Fds /\ Top(t)[free] = "closed"
  BY <1>1, <1>2, LowestFreeIsFree
<1>4. /\ table \in Tables /\ table[free] = kind
      /\ \A fd \in Fds \ {free} : table[fd] = Top(t)[fd]
  BY <1>2, <1>3 DEF Tables
<1> HIDE DEF table, free
<1>5. /\ JobsTyped'
      /\ \A u \in Terminals : Len(jobs'[u]) = Len(jobs[u])
      /\ \A u \in Terminals \ {t} : jobs'[u] = jobs[u]
      /\ \A i \in 1 .. Len(jobs[t]) :
           jobs'[t][i] = IF i = Len(jobs[t]) THEN table ELSE jobs[t][i]
  BY <1>0, <1>1, <1>4, SetTopTable DEF table, free
<1>6. RtcInv'
  BY <1>0, <1>1, RtcOpenArms, RtcUnchanged
<1>7. ActiveHasOwner'
  <2> SUFFICES ASSUME NEW u \in Terminals, rtc_active'[u] \/ rtc_virt_interrupt'[u]
               PROVE  \E i \in 1 .. Len(jobs'[u]) : \E fd \in Fds : jobs'[u][i][fd] = "rtc"
    BY DEF ActiveHasOwner
  <2>1. CASE u = t /\ kind = "rtc"
    BY <2>1, <1>2, <1>3, <1>4, <1>5
  <2>2. CASE ~(u = t /\ kind = "rtc")
    <3>1. rtc_active[u] \/ rtc_virt_interrupt[u]
      BY <1>0, <1>1, <2>2 DEF RtcOpen, rtcVars, RtcInv, RtcTyped
    <3>2. PICK i \in 1 .. Len(jobs[u]) : \E fd \in Fds : jobs[u][i][fd] = "rtc"
      BY <1>0, <3>1 DEF ActiveHasOwner
    <3>3. PICK fd \in Fds : jobs[u][i][fd] = "rtc"
      BY <3>2
    <3>4. jobs'[u][i][fd] = "rtc"
      <4>1. CASE u # t
        BY <4>1, <3>3, <1>5
      <4>2. CASE u = t /\ i # Len(jobs[t])
        BY <4>2, <3>3, <1>5
      <4>3. CASE u = t /\ i = Len(jobs[t])
        BY <4>3, <3>3, <1>3, <1>4, <1>5 DEF Top
      <4>4. QED
        BY <4>1, <4>2, <4>3
    <3>5. QED
      BY <3>4, <1>5
  <2>3. QED
    BY <2>1, <2>2
<1>8. QED
  BY <1>5, <1>6, <1>7 DEF IInv

\* The RTC of the terminal stops with the first descriptor of it that is closed; a
\* descriptor of another kind takes no owner away.
LEMMA CloseStep ==
  ASSUME IInv, NEW fd \in Fds, Close(fd)
  PROVE  IInv'
<1>0. JobsTyped /\ RtcInv /\ ActiveHasOwner
  BY DEF IInv
<1>1. PICK t \in Terminals :
        /\ Top(t)[fd] # "closed"
        /\ SetTop(t, [Top(t) EXCEPT ![fd] = "closed"])
        /\ IF Top(t)[fd] = "rtc" THEN RtcClose(t) ELSE UNCHANGED rtcVars
        /\ UNCHANGED <<scheduled_terminal, at>>
  BY DEF Close
<1> DEFINE table == [Top(t) EXCEPT ![fd] = "closed"]
<1>2. Top(t) \in Tables /\ Len(jobs[t]) \in 1 .. Len(jobs[t])
  BY <1>0, TopIsATable
<1>3. table \in Tables /\ \A g \in Fds \ {fd} : table[g] = Top(t)[g]
  BY <1>2 DEF Tables
<1> HIDE DEF table
<1>4. /\ JobsTyped'
      /\ \A u \in Terminals : Len(jobs'[u]) = Len(jobs[u])
      /\ \A u \in Terminals \ {t} : jobs'[u] = jobs[u]
      /\ \A i \in 1 .. Len(jobs[t]) :
           jobs'[t][i] = IF i = Len(jobs[t]) THEN table ELSE jobs[t][i]
  BY <1>0, <1>1, <1>3, SetTopTable DEF table
<1>5. RtcInv'
  BY <1>0, <1>1, RtcCloseDisarms, RtcUnchanged
<1>6. ActiveHasOwner'
  <2> SUFFICES ASSUME NEW u \in Terminals, rtc_active'[u] \/ rtc_virt_interrupt'[u]
               PROVE  \E i \in 1 .. Len(jobs'[u]) : \E g \in Fds : jobs'[u][i][g] = "rtc"
    BY DEF ActiveHasOwner
  <2>1. /\ rtc_active[u] \/ rtc_virt_interrupt[u]
        /\ u = t => Top(t)[fd] # "rtc"
    BY <1>0, <1>1, RtcCloseDisarms DEF rtcVars
  <2>2. PICK i \in 1 .. Len(jobs[u]), g \in Fds : jobs[u][i][g] = "rtc"
    BY <1>0, <2>1 DEF ActiveHasOwner
  <2>3. jobs'[u][i][g] = "rtc"
    <3>1. CASE u # t
      BY <3>1, <2>2, <1>4
    <3>2. CASE u = t /\ i # Len(jobs[t])
      BY <3>2, <2>2, <1>4
    <3>3. CASE u = t /\ i = Len(jobs[t])
      <4>1. g # fd
        BY <3>3, <2>1, <2>2 DEF Top
      <4>2. QED
        BY <4>1, <3>3, <2>2, <1>3, <1>4 DEF Top
    <3>4. QED
      BY <3>1, <3>2, <3>3
  <2>4. QED
    BY <2>3, <1>4
<1>7. QED
  BY <1>4, <1>5, <1>6 DEF IInv

LEMMA WriteStep ==
  ASSUME IInv, NEW fd \in Fds, NEW freq \in Freqs, Write(fd, freq)
  PROVE  IInv'
<1>0. JobsTyped /\ RtcInv /\ ActiveHasOwner
  BY DEF IInv
<1>1. PICK t \in Terminals : RtcWrite(t, freq) /\ UNCHANGED <<scheduled_terminal, jobs, at>>
  BY DEF Write
<1>2. RtcInv' /\ UNCHANGED <<rtc_active, rtc_virt_interrupt>>
  BY <1>0, <1>1, RtcWriteArms, VirtualRtcAssumption
<1>3. JobsTyped' /\ ActiveHasOwner'
  BY <1>0, <1>1, <1>2 DEF JobsTyped, ActiveHasOwner
<1>4. QED
  BY <1>2, <1>3 DEF IInv

LEMMA ReadStepStep ==
  ASSUME IInv, \/ \E fd \in Fds : Read(fd)
               \/ \E t \in Terminals : ReadStep(t)
  PROVE  IInv'
<1>0. JobsTyped /\ RtcInv /\ ActiveHasOwner
  BY DEF IInv
<1>1. /\ UNCHANGED <<scheduled_terminal, jobs, rtc_active, rtc_freq, rtc_countdown>>
      /\ \E t \in Terminals, place \in {"user", "wait", "seen"} : at' = [at EXCEPT ![t] = place]
      /\ \/ UNCHANGED rtc_virt_interrupt
         \/ \E t \in Terminals : rtc_virt_interrupt' = [rtc_virt_interrupt EXCEPT ![t] = FALSE]
  BY DEF Read, ReadStep, SeeInterrupt, ClearInterrupt, rtcVars
<1>2. JobsTyped'
  BY <1>0, <1>1 DEF JobsTyped
<1>3. RtcInv'
  BY <1>0, <1>1 DEF RtcInv, RtcTyped, ActiveIsArmed, Period
<1>4. ActiveHasOwner'
  BY <1>0, <1>1 DEF RtcInv, RtcTyped, ActiveHasOwner
<1>5. QED
  BY <1>2, <1>3, <1>4 DEF IInv

LEMMA ExecuteStep ==
  ASSUME IInv, Execute
  PROVE  IInv'
<1>0. JobsTyped /\ RtcInv /\ ActiveHasOwner
  BY DEF IInv
<1>1. PICK t \in Terminals :
        /\ Cardinality(Children) < MaxChildren
        /\ jobs' = [jobs EXCEPT ![t] = Append(@, NewTable)]
        /\ UNCHANGED <<scheduled_terminal, at, rtcVars>>
  BY DEF Execute
<1> DEFINE new == Append(jobs[t], NewTable)
<1>2. Len(jobs[t]) <= MaxChildren
  BY <1>0, <1>1, PidLeft
<1>3. /\ new \in Seq(Tables) /\ Len(new) = Len(jobs[t]) + 1
      /\ \A i \in 1 .. Len(jobs[t]) : new[i] = jobs[t][i]
  <2>1. NewTable \in Tables /\ jobs[t] \in Seq(Tables)
    BY <1>0 DEF NewTable, Tables, JobsTyped
  <2>2. QED
    BY <2>1, AppendProperties
<1> HIDE DEF new
<1>4. jobs' = [jobs EXCEPT ![t] = new]
  BY <1>1 DEF new
<1>5. JobsTyped'
  BY <1>0, <1>1, <1>2, <1>3, <1>4, VirtualRtcAssumption DEF JobsTyped
<1>6. RtcInv'
  BY <1>0, <1>1, RtcUnchanged
<1>7. ActiveHasOwner'
  <2> SUFFICES ASSUME NEW u \in Terminals, rtc_active[u] \/ rtc_virt_interrupt[u]
               PROVE  \E i \in 1 .. Len(jobs'[u]) : \E fd \in Fds : jobs'[u][i][fd] = "rtc"
    BY <1>1 DEF ActiveHasOwner, rtcVars
  <2>1. PICK i \in 1 .. Len(jobs[u]), fd \in Fds : jobs[u][i][fd] = "rtc"
    BY <1>0 DEF ActiveHasOwner
  <2>2. i \in 1 .. Len(jobs'[u]) /\ jobs'[u][i][fd] = "rtc"
    BY <2>1, <1>0, <1>3, <1>4 DEF JobsTyped
  <2>3. QED
    BY <2>2
<1>8. QED
  BY <1>5, <1>6, <1>7 DEF IInv

\* halt either closes the terminal's RTC or takes away a process that did not have
\* it open.
LEMMA HaltStep ==
  ASSUME IInv, Halt
  PROVE  IInv'
<1>0. JobsTyped /\ RtcInv /\ ActiveHasOwner
  BY DEF IInv
<1>1. PICK t \in Terminals :
        /\ CloseAll(t)
        /\ jobs' = [jobs EXCEPT ![t] = IF Len(@) = 1 THEN <<NewTable>> ELSE SubSeq(@, 1, Len(@) - 1)]
        /\ UNCHANGED <<scheduled_terminal, at>>
  BY DEF Halt
<1> DEFINE new == IF Len(jobs[t]) = 1 THEN <<NewTable>> ELSE SubSeq(jobs[t], 1, Len(jobs[t]) - 1)
<1>2. jobs[t] \in Seq(Tables) /\ Len(jobs[t]) \in 1 .. MaxChildren + 1
  BY <1>0 DEF JobsTyped
<1>3. /\ new \in Seq(Tables) /\ Len(new) \in 1 .. MaxChildren + 1
      /\ Len(jobs[t]) # 1 => /\ Len(new) = Len(jobs[t]) - 1
                             /\ \A i \in 1 .. Len(new) : new[i] = jobs[t][i]
  <2>1. CASE Len(jobs[t]) = 1
    BY <2>1, VirtualRtcAssumption DEF NewTable, Tables
  <2>2. CASE Len(jobs[t]) # 1
    <3>1. \A i \in 1 .. Len(jobs[t]) - 1 : jobs[t][i] \in Tables
      BY <1>2, ElementOfSeq, VirtualRtcAssumption
    <3>2. /\ SubSeq(jobs[t], 1, Len(jobs[t]) - 1) \in Seq(Tables)
          /\ Len(SubSeq(jobs[t], 1, Len(jobs[t]) - 1)) = Len(jobs[t]) - 1
          /\ \A i \in 1 .. Len(jobs[t]) - 1 :
               SubSeq(jobs[t], 1, Len(jobs[t]) - 1)[i] = jobs[t][i]
      BY <3>1, <2>2, <1>2, SubSeqProperties, VirtualRtcAssumption
    <3>3. Len(jobs[t]) - 1 \in 1 .. MaxChildren + 1
      <4>1. \A n \in 1 .. MaxChildren + 1 : n # 1 => n - 1 \in 1 .. MaxChildren + 1
        BY VirtualRtcAssumption
      <4>2. QED
        BY <4>1, <2>2, <1>2
    <3>4. new = SubSeq(jobs[t], 1, Len(jobs[t]) - 1)
      BY <2>2
    <3>5. QED
      BY <3>2, <3>3, <3>4
  <2>3. QED
    BY <2>1, <2>2
<1>4. jobs' = [jobs EXCEPT ![t] = new]
  BY <1>1
<1> HIDE DEF new
<1>5. JobsTyped'
  BY <1>0, <1>1, <1>3, <1>4 DEF JobsTyped
<1>6. RtcInv'
  BY <1>0, <1>1, RtcCloseDisarms, RtcUnchanged DEF CloseAll
<1>7. ActiveHasOwner'
  <2> SUFFICES ASSUME NEW u \in Terminals, rtc_active'[u] \/ rtc_virt_interrupt'[u]
               PROVE  \E i \in 1 .. Len(jobs'[u]) : \E fd \in Fds : jobs'[u][i][fd] = "rtc"
    BY DEF ActiveHasOwner
  <2>1. /\ rtc_active[u] \/ rtc_virt_interrupt[u]
        /\ u = t => ~ \E fd \in Fds : Top(t)[fd] = "rtc"
    BY <1>0, <1>1, RtcCloseDisarms DEF CloseAll, rtcVars
  <2>2. PICK i \in 1 .. Len(jobs[u]), fd \in Fds : jobs[u][i][fd] = "rtc"
    BY <1>0, <2>1 DEF ActiveHasOwner
  <2>3. CASE u # t
    BY <2>2, <2>3, <1>4, <1>0 DEF JobsTyped
  <2>4. CASE u = t
    <3>1. i # Len(jobs[t]) /\ Len(jobs[t]) # 1
      BY <2>1, <2>2, <2>4, <1>2 DEF Top
    <3>2. i \in 1 .. Len(new) /\ new[i] = jobs[t][i]
      BY <3>1, <2>2, <2>4, <1>2, <1>3
    <3>3. QED
      BY <3>2, <2>2, <2>4, <1>4, <1>0 DEF JobsTyped
  <2>5. QED
    BY <2>3, <2>4
<1>8. QED
  BY <1>5, <1>6, <1>7 DEF IInv

LEMMA TimerStep ==
  ASSUME IInv, RtcInterrupt \/ Tick
  PROVE  IInv'
<1>0. JobsTyped /\ RtcInv /\ ActiveHasOwner
  BY DEF IInv
<1>1. CASE RtcInterrupt
  <2>1. JobsTyped'
    BY <1>0, <1>1 DEF RtcInterrupt, JobsTyped
  <2>2. ActiveHasOwner'
    BY <1>0, <1>1, RtcInterruptCounts DEF RtcInterrupt, ActiveHasOwner
  <2>3. QED
    BY <2>1, <2>2, <1>0, <1>1, RtcInterruptCounts DEF IInv
<1>2. CASE Tick
  <2>1. scheduled_terminal' \in Terminals
    BY <1>0, <1>2, VirtualRtcAssumption DEF Tick, JobsTyped, Terminals
  <2>2. JobsTyped' /\ ActiveHasOwner'
    BY <1>0, <1>2, <2>1 DEF Tick, JobsTyped, ActiveHasOwner, rtcVars
  <2>3. QED
    BY <2>2, <1>0, <1>2, RtcUnchanged DEF IInv, Tick
<1>3. QED
  BY <1>1, <1>2

LEMMA NextIInv == IInv /\ [Next]_vars => IInv'
<1> SUFFICES ASSUME IInv, [Next]_vars PROVE IInv'
  OBVIOUS
<1>1. CASE \E kind \in FileKinds : Open(kind)
  BY <1>1, OpenStep
<1>2. CASE \E fd \in Fds : Close(fd)
  BY <1>2, CloseStep
<1>3. CASE \E fd \in Fds, freq \in Freqs : Write(fd, freq)
  BY <1>3, WriteStep
<1>4. CASE (\E fd \in Fds : Read(fd)) \/ (\E t \in Terminals : ReadStep(t))
  BY <1>4, ReadStepStep
<1>5. CASE Execute
  BY <1>5, ExecuteStep
<1>6. CASE Halt
  BY <1>6, HaltStep
<1>7. CASE RtcInterrupt \/ Tick
  BY <1>7, TimerStep
<1>8. CASE UNCHANGED vars
  BY <1>8, RtcUnchanged DEF vars, rtcVars, IInv, JobsTyped, ActiveHasOwner
<1>9. QED
  BY <1>1, <1>2, <1>3, <1>4, <1>5, <1>6, <1>7, <1>8 DEF Next

LEMMA Invariance == Spec => []IInv
<1>1. QED
  BY InitIInv, NextIInv, PTL DEF Spec

-----------------------------------------------------------------------------

\* The countdown of the handler, an unsigned 32-bit number, never wraps below zero,
\* the frequency stays below a byte, and no terminal holds more processes than there
\* are pids (RTC_interrupt, RTC_write, execute).
THEOREM TypesCorrect == Spec => []TypeOK
<1>1. IInv => TypeOK
  BY Zenon DEF IInv, TypeOK, JobsTyped, RtcInv, RtcTyped
<1>2. QED
  BY <1>1, Invariance, PTL

\* RTC_interrupt may divide by the frequency and decrement the countdown of every
\* terminal it finds active, whatever the processes of that terminal opened, wrote
\* and closed.
THEOREM ActiveRtcIsArmed == Spec => []ActiveIsArmed
<1>1. IInv => ActiveIsArmed
  BY DEF IInv, RtcInv
<1>2. QED
  BY <1>1, Invariance, PTL

\* No RTC is left running, or with an interrupt pending, by processes that ended:
\* somebody on its terminal has it open.
THEOREM ActiveRtcHasOwner == Spec => []ActiveHasOwner
<1>1. IInv => ActiveHasOwner
  BY DEF IInv
<1>2. QED
  BY <1>1, Invariance, PTL

================================================================================
