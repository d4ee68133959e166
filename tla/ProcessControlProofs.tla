------------------------- MODULE ProcessControlProofs -------------------------
(***************************************************************************)
(* Proofs about ProcessControl, for every number of processes and          *)
(* terminals.                                                              *)
(***************************************************************************)
EXTENDS ProcessControl, WellFoundedInduction, FiniteSetTheorems, SequenceTheorems, TLAPS

\* NextTerminal stays inside the ring and is the successor but at the end.
LEMMA NextTerminalInRing ==
  ASSUME NEW t \in Terminals
  PROVE  /\ NextTerminal(t) \in Terminals
         /\ NextTerminal(t) = IF t = MaxTerminals - 1 THEN 0 ELSE t + 1
BY SizesAssumption DEF NextTerminal, Terminals

\* execute's scan finds a pid whenever there is one, the lowest free one.
LEMMA FirstFreeIsLowest ==
  ASSUME NEW procs \in [Pid -> BOOLEAN], HasFree(procs)
  PROVE  /\ FirstFree(procs) \in Pid
         /\ ~procs[FirstFree(procs)]
         /\ \A q \in 0 .. FirstFree(procs) - 1 : procs[q]
<1> DEFINE free == {p \in Pid : ~procs[p]}
<1>1. free \subseteq Nat /\ free # {}
  BY SizesAssumption DEF Pid, HasFree
<1> DEFINE less == {pair \in Nat \X Nat : pair[1] < pair[2]}
<1> HIDE DEF free
<1>0. IsWellFoundedOn(less, Nat)
  BY NatLessThanWellFounded DEF OpToRel
<1>2. PICK p \in free : \A q \in free : ~ (<<q, p>> \in less)
  <2> HIDE DEF less
  <2> QED  BY <1>0, <1>1, WFMin
<1>3. \A q \in free : ~ (q < p)
  BY <1>1, <1>2
<1> USE DEF free
<1>4. \A q \in 0 .. p - 1 : procs[q]
  BY <1>1, <1>3, SizesAssumption DEF Pid
<1>5. QED
  BY <1>4 DEF FirstFree

\* A pid that is free and below which every pid is taken is the one the scan finds.
LEMMA FirstFreeIs ==
  ASSUME NEW procs \in [Pid -> BOOLEAN], NEW p \in Pid,
         ~procs[p], \A q \in 0 .. p - 1 : procs[q]
  PROVE  FirstFree(procs) = p
<1>1. HasFree(procs)
  BY DEF HasFree
<1>2. QED
  BY <1>1, FirstFreeIsLowest, SizesAssumption DEF Pid
-----------------------------------------------------------------------------

\* The terminal records its process twice; halt and the scheduler move both.
LastAssigned ==
  \A t \in Terminals : terminal_pcb[t] # NoPid => last_assigned_pid[t] = terminal_pcb[t]

\* Nothing maps the user video page before the last terminal is booted.
VideoInv == NoForeignBuffer /\ (~Booted => video_page = NotMapped)

\* The inductive invariant: the properties need one another.  halt finds the
\* parent's kernel stack through ParentWaits, the scheduler a runnable process
\* through NoProcessLost, execute a pid above the base shells through BootOrder.
IInv ==
  /\ TypeOK
  /\ BootOrder
  /\ ProcessorServesScheduled
  /\ ParentWaits
  /\ NoProcessLost
  /\ LastAssigned
  /\ VideoInv

LEMMA InitIInv == Init => IInv
<1> SUFFICES ASSUME Init PROVE IInv
  OBVIOUS
<1> USE SizesAssumption DEF Init, Pid, Terminals, NoPid, Vga, NotMapped, Wild
<1>1. TypeOK
  <2>1. processes \in [Pid -> BOOLEAN] /\ called_vidmap \in [Pid -> BOOLEAN]
    OBVIOUS
  <2>2. 0 \in Pid /\ 0 \in Terminals /\ shell_count \in 0 .. MaxTerminals
    OBVIOUS
  <2>3. last_exit \in [cause : {"none", "halt", "exception"}, value : {0, 256}]
    OBVIOUS
  <2>4. /\ parent_process_id \in [Pid -> Pid]
        /\ parent_pcb \in [Pid -> Pid \cup {NoPid}]
        /\ parent_esp \in [Pid -> Pid \cup {NoPid}]
        /\ curr_esp \in [Pid -> Depths]
        /\ context \in [Pid -> Contexts]
        /\ terminal_pcb \in [Terminals -> Pid \cup {NoPid}]
        /\ last_assigned_pid \in [Terminals -> Pid \cup {NoPid}]
    BY <2>2 DEF Depths, Contexts
  <2>5. QED
    BY <2>1, <2>2, <2>3, <2>4 DEF TypeOK
<1>2. BootOrder
  BY DEF BootOrder, Booted
<1>3. ProcessorServesScheduled
  BY DEF ProcessorServesScheduled
<1>4. ParentWaits
  BY DEF ParentWaits, Child
<1>5. NoProcessLost
  BY DEF NoProcessLost
<1>6. LastAssigned /\ VideoInv
  BY DEF LastAssigned, VideoInv, NoForeignBuffer
<1>7. QED
  BY <1>1, <1>2, <1>3, <1>4, <1>5, <1>6 DEF IInv

\* What BootTerminal finds: every terminal before the scheduled one is booted and
\* only their base shells hold pids, so execute gives it the pid of its own number.
LEMMA BootFinds ==
  ASSUME IInv, BootTerminal
  PROVE  /\ scheduled_terminal = shell_count
         /\ FirstFree(processes) = shell_count
         /\ shell_count \in Pid
         /\ IsBaseShell(shell_count)
<1> USE SizesAssumption DEF Terminals, Pid
<1>1. ~Booted /\ scheduled_terminal = shell_count
  BY DEF IInv, TypeOK, BootTerminal, BootOrder, Booted
<1>2. shell_count \in Pid /\ IsBaseShell(shell_count)
  BY <1>1 DEF IInv, TypeOK, BootTerminal, IsBaseShell
<1>3. \A p \in Pid : processes[p] <=> p < shell_count
  BY <1>1 DEF IInv, BootOrder
<1>4. FirstFree(processes) = shell_count
  <2>1. ~processes[shell_count] /\ \A q \in 0 .. shell_count - 1 : processes[q]
    BY <1>2, <1>3
  <2>2. QED
    BY <1>2, <2>1, FirstFreeIs DEF IInv, TypeOK
<1>5. QED
  BY <1>1, <1>2, <1>4

LEMMA BootTerminalStep ==
  ASSUME IInv, BootTerminal
  PROVE  IInv'
<1> DEFINE s == scheduled_terminal
<1> USE SizesAssumption DEF NoPid, Vga, NotMapped, Wild
<1>0. /\ s = shell_count /\ s \in Pid /\ s \in Terminals /\ IsBaseShell(s)
      /\ FirstFree(processes) = s
  BY BootFinds DEF IInv, TypeOK
<1>1. /\ processes' = [processes EXCEPT ![s] = TRUE]
      /\ context' = [context EXCEPT ![s] = "user"]
      /\ parent_process_id' = [parent_process_id EXCEPT ![s] = s]
      /\ parent_pcb' = [parent_pcb EXCEPT ![s] = NoPid]
      /\ parent_esp' = [parent_esp EXCEPT ![s] = cpu]
      /\ curr_esp' = [curr_esp EXCEPT ![s] = "temp"]
      /\ called_vidmap' = [called_vidmap EXCEPT ![s] = FALSE]
      /\ terminal_pcb' = [terminal_pcb EXCEPT ![s] = s]
      /\ last_assigned_pid' = [last_assigned_pid EXCEPT ![s] = s]
      /\ user_page' = s /\ tss' = s /\ cpu' = s
      /\ shell_count' = s + 1 /\ visible_terminal' = s
      /\ UNCHANGED <<scheduled_terminal, exception_flag, video_page, last_exit>>
  BY <1>0 DEF BootTerminal, StartProgram, NewPcb
<1>2. /\ s < MaxTerminals /\ cpu = s - 1 /\ video_page = NotMapped
      /\ \A p \in Pid : processes[p] <=> p < s
      /\ \A t \in 0 .. s - 1 : terminal_pcb[t] = t
      /\ \A t \in Terminals : terminal_pcb[t] = NoPid <=> t >= s
  BY <1>0 DEF IInv, TypeOK, BootOrder, VideoInv, Booted, Terminals
<1>3. TypeOK'
  <2>1. /\ processes' \in [Pid -> BOOLEAN]
        /\ parent_process_id' \in [Pid -> Pid]
        /\ parent_pcb' \in [Pid -> Pid \cup {NoPid}]
        /\ parent_esp' \in [Pid -> Pid \cup {NoPid}]
        /\ curr_esp' \in [Pid -> Depths]
        /\ called_vidmap' \in [Pid -> BOOLEAN]
        /\ context' \in [Pid -> Contexts]
    BY <1>0, <1>1, <1>2 DEF IInv, TypeOK, Depths, Contexts
  <2>2. shell_count' \in 0 .. MaxTerminals
    BY <1>0, <1>1, <1>2 DEF IInv, TypeOK
  <2>3. QED
    BY <2>1, <2>2, <1>0, <1>1 DEF IInv, TypeOK
<1> DEFINE Types == /\ processes \in [Pid -> BOOLEAN]
                    /\ context \in [Pid -> Contexts]
                    /\ terminal_pcb \in [Terminals -> Pid \cup {NoPid}]
<1>t. Types
  BY DEF IInv, TypeOK
<1>4. BootOrder'
  <2>1. \A t \in Terminals : terminal_pcb'[t] = NoPid <=> t >= shell_count'
    BY <1>0, <1>1, <1>2, <1>t DEF Pid, Terminals
  <2>2. \A p \in Pid : processes'[p] <=> p < shell_count'
    BY <1>0, <1>1, <1>2, <1>t DEF Pid
  <2>3. \A t \in 0 .. shell_count' - 1 : terminal_pcb'[t] = t
    BY <1>0, <1>1, <1>2, <1>t DEF Terminals, Pid
  <2>4. \A t \in 0 .. shell_count' - 1 : processes'[t]
    BY <1>0, <1>1, <1>2, <2>2 DEF Pid, Terminals
  <2>5. QED
    BY <2>1, <2>2, <2>3, <2>4, <1>0, <1>1, <1>2 DEF BootOrder, Pid
<1>5. ProcessorServesScheduled'
  BY <1>0, <1>1 DEF IInv, TypeOK, ProcessorServesScheduled
<1>6. ParentWaits'
  BY <1>0, <1>1, <1>2 DEF IInv, TypeOK, ParentWaits, Child, IsBaseShell
<1>7. NoProcessLost'
  <2>1. \A t \in Terminals : t # s /\ terminal_pcb[t] # NoPid => terminal_pcb[t] < s
    BY <1>0, <1>2 DEF Terminals
  <2>2. \A p \in Pid : context'[p] \in {"user", "read"} => \E t \in Terminals : terminal_pcb'[t] = p
    <3> SUFFICES ASSUME NEW p \in Pid, context'[p] \in {"user", "read"}
                 PROVE  \E t \in Terminals : terminal_pcb'[t] = p
      OBVIOUS
    <3>1. CASE p = s
      BY <3>1, <1>0, <1>1, <1>t
    <3>2. CASE p # s
      <4>1. PICK t \in Terminals : terminal_pcb[t] = p
        BY <3>2, <1>0, <1>1, <1>t DEF IInv, NoProcessLost
      <4>2. t # s
        BY <4>1, <1>0, <1>2 DEF Pid
      <4>3. QED
        BY <4>1, <4>2, <1>1, <1>t
    <3>3. QED
      BY <3>1, <3>2
  <2>3. \A p \in Pid : context[p] # "execute"
    BY <1>0, <1>2 DEF IInv, NoProcessLost, Child, IsBaseShell, Pid
  <2>4. \A p \in Pid : processes'[p] <=> context'[p] # "free"
    BY <1>0, <1>1, <1>t DEF IInv, NoProcessLost
  <2>a. /\ terminal_pcb'[s] = s /\ context'[s] = "user"
        /\ \A t \in Terminals : t # s => terminal_pcb'[t] = terminal_pcb[t]
        /\ \A p \in Pid : p # s => context'[p] = context[p]
    BY <1>0, <1>1, <1>t
  <2>b. \A t \in Terminals : t # s /\ terminal_pcb[t] # NoPid =>
          terminal_pcb[t] \in Pid /\ terminal_pcb[t] # s
    BY <1>0, <1>t, <2>1 DEF Pid
  <2>c. \A t \in Terminals : terminal_pcb'[t] # NoPid => context'[terminal_pcb'[t]] \in {"user", "read"}
    BY <1>0, <2>a, <2>b DEF IInv, NoProcessLost
  <2>d. \A t, u \in Terminals : t # u /\ terminal_pcb[t] # NoPid => terminal_pcb[t] # terminal_pcb[u]
    BY DEF IInv, NoProcessLost
  <2>5. \A t, u \in Terminals : t # u /\ terminal_pcb'[t] # NoPid => terminal_pcb'[t] # terminal_pcb'[u]
    <3> SUFFICES ASSUME NEW t \in Terminals, NEW u \in Terminals,
                        t # u, terminal_pcb'[t] # NoPid
                 PROVE  terminal_pcb'[t] # terminal_pcb'[u]
      OBVIOUS
    <3>1. CASE u = s
      BY <3>1, <2>a, <2>b
    <3>2. CASE t = s
      <4>1. terminal_pcb[u] = NoPid \/ terminal_pcb[u] # s
        BY <3>2, <2>b
      <4>2. s # NoPid
        BY <1>0 DEF Pid
      <4>3. QED
        BY <3>2, <4>1, <4>2, <2>a
    <3>3. CASE t # s /\ u # s
      BY <3>3, <2>a, <2>d
    <3>4. QED
      BY <3>1, <3>2, <3>3
  <2>6. \A p \in Pid : context'[p] # "execute"
    BY <2>3, <1>0, <1>1, <1>t
  <2>7. QED
    BY <2>2, <2>4, <2>c, <2>5, <2>6 DEF NoProcessLost
<1>8. LastAssigned' /\ VideoInv'
  BY <1>0, <1>1, <1>2 DEF IInv, TypeOK, LastAssigned, VideoInv, NoForeignBuffer, Booted
<1>9. QED
  BY <1>3, <1>4, <1>5, <1>6, <1>7, <1>8 DEF IInv

LEMMA SkipToUnbootedStep ==
  ASSUME IInv, SkipToUnbooted
  PROVE  IInv'
<1> DEFINE s == scheduled_terminal
<1> USE SizesAssumption DEF NoPid
<1>1. /\ s \in Terminals /\ shell_count \in 0 .. MaxTerminals
      /\ \A t \in Terminals : terminal_pcb[t] = NoPid <=> t >= shell_count
  BY DEF IInv, TypeOK, BootOrder
<1>2. /\ NextTerminal(s) \in Terminals
      /\ NextTerminal(s) = IF s = MaxTerminals - 1 THEN 0 ELSE s + 1
  BY <1>1, NextTerminalInRing
<1>3. /\ terminal_pcb[s] # NoPid /\ terminal_pcb[NextTerminal(s)] = NoPid
      /\ scheduled_terminal' = NextTerminal(s)
      /\ curr_esp' = [curr_esp EXCEPT ![terminal_pcb[s]] = context[cpu]]
      /\ UNCHANGED <<processes, pcbVars, terminalVars, visible_terminal, shell_count,
                     exception_flag, tss, user_page, video_page, cpu, context, last_exit>>
  BY DEF SkipToUnbooted, SaveStack
<1>4. ~Booted /\ s = shell_count - 1 /\ scheduled_terminal' = shell_count
  BY <1>1, <1>2, <1>3 DEF Booted, Terminals
<1>5. cpu \in Pid /\ context[cpu] \in {"user", "read"} /\ video_page = NotMapped
  BY <1>1, <1>4 DEF IInv, BootOrder, ProcessorServesScheduled, VideoInv, Pid, Terminals
<1>6. curr_esp' \in [Pid -> Depths]
  BY <1>3, <1>5 DEF IInv, TypeOK, Depths
<1>7. TypeOK'
  BY <1>2, <1>3, <1>6 DEF IInv, TypeOK, pcbVars, terminalVars
<1>8. BootOrder'
  BY <1>1, <1>3, <1>4 DEF IInv, BootOrder, Booted, terminalVars
<1>9. ProcessorServesScheduled'
  BY <1>2, <1>3 DEF IInv, ProcessorServesScheduled, terminalVars
<1>10. ParentWaits'
  BY <1>3 DEF IInv, ParentWaits, Child, pcbVars
<1>11. NoProcessLost'
  BY <1>3 DEF IInv, NoProcessLost, Child, pcbVars, terminalVars
<1>12. LastAssigned' /\ VideoInv'
  BY <1>3, <1>5 DEF IInv, LastAssigned, VideoInv, NoForeignBuffer, Booted, terminalVars
<1>13. QED
  BY <1>7, <1>8, <1>9, <1>10, <1>11, <1>12 DEF IInv

\* Two neighbours on the ring are booted only when all terminals are.
LEMMA SwitchFindsBooted ==
  ASSUME IInv, SwitchProcess
  PROVE  Booted
<1> DEFINE s    == scheduled_terminal
           next == NextTerminal(s)
<1> USE SizesAssumption
<1>1. /\ s \in Terminals /\ shell_count \in 0 .. MaxTerminals
      /\ \A t \in Terminals : terminal_pcb[t] = NoPid <=> t >= shell_count
  BY DEF IInv, TypeOK, BootOrder
<1>2. /\ next \in Terminals
      /\ next = IF s = MaxTerminals - 1 THEN 0 ELSE s + 1
  BY <1>1, NextTerminalInRing
<1>3. s < shell_count /\ next < shell_count
  BY <1>1, <1>2 DEF SwitchProcess, Terminals
<1>4. ~Booted => s = shell_count - 1
  BY <1>1, <1>3 DEF IInv, BootOrder, Terminals
<1>5. QED
  BY <1>1, <1>2, <1>3, <1>4 DEF Booted, Terminals

LEMMA SwitchProcessStep ==
  ASSUME IInv, SwitchProcess
  PROVE  IInv'
<1> DEFINE s    == scheduled_terminal
           next == NextTerminal(s)
           pcb  == terminal_pcb[next]
<1> USE SizesAssumption DEF NoPid
<1>1. /\ s \in Terminals /\ shell_count \in 0 .. MaxTerminals
      /\ terminal_pcb \in [Terminals -> Pid \cup {NoPid}]
      /\ \A t \in Terminals : terminal_pcb[t] = NoPid <=> t >= shell_count
  BY DEF IInv, TypeOK, BootOrder
<1>2. /\ next \in Terminals
      /\ next = IF s = MaxTerminals - 1 THEN 0 ELSE s + 1
  BY <1>1, NextTerminalInRing
<1>3. /\ terminal_pcb[s] # NoPid /\ pcb # NoPid /\ cpu # Wild
      /\ curr_esp' = [curr_esp EXCEPT ![terminal_pcb[s]] = context[cpu]]
      /\ scheduled_terminal' = next
      /\ video_page' = VideoTarget(next, visible_terminal)
      /\ user_page' = pcb /\ tss' = pcb
      /\ cpu' \in {pcb, Wild}
      /\ UNCHANGED <<processes, pcbVars, terminalVars, visible_terminal,
                     shell_count, exception_flag, context, last_exit>>
  BY DEF SwitchProcess, Tick, SaveStack, SetUserVideoPage, Resume
<1>4. Booted
  BY SwitchFindsBooted
<1>5. /\ terminal_pcb[s] = cpu /\ cpu \in Pid /\ context[cpu] \in {"user", "read"}
      /\ pcb \in Pid /\ context[pcb] \in {"user", "read"} /\ processes[pcb]
  BY <1>1, <1>2, <1>3 DEF IInv, ProcessorServesScheduled, NoProcessLost
<1>6. curr_esp' \in [Pid -> Depths]
  BY <1>3, <1>5 DEF IInv, TypeOK, Depths
<1>7. video_page' \in {Vga, scheduled_terminal'}
  BY <1>3 DEF VideoTarget
<1>8. TypeOK'
  BY <1>1, <1>2, <1>3, <1>5, <1>6, <1>7 DEF IInv, TypeOK, pcbVars, terminalVars
<1>9. BootOrder'
  BY <1>3, <1>4 DEF IInv, BootOrder, Booted, terminalVars
<1>10. ProcessorServesScheduled'
  BY <1>2, <1>3, <1>5 DEF IInv, ProcessorServesScheduled, LastAssigned, terminalVars, Pid, Wild
<1>11. ParentWaits'
  BY <1>3 DEF IInv, ParentWaits, Child, pcbVars
<1>12. NoProcessLost'
  BY <1>3 DEF IInv, NoProcessLost, Child, pcbVars, terminalVars
<1>13. LastAssigned' /\ VideoInv'
  BY <1>3, <1>4, <1>7 DEF IInv, LastAssigned, VideoInv, NoForeignBuffer, Booted, terminalVars
<1>14. QED
  BY <1>8, <1>9, <1>10, <1>11, <1>12, <1>13 DEF IInv

\* Entering and leaving read only moves the running process between two contexts
\* that the invariant treats alike.
LEMMA ReadStep ==
  ASSUME IInv, EnterRead \/ LeaveRead
  PROVE  IInv'
<1>1. /\ cpu \in Pid /\ context[cpu] \in {"user", "read"}
      /\ \E c \in {"user", "read"} : context' = [context EXCEPT ![cpu] = c]
      /\ UNCHANGED <<processes, pcbVars, curr_esp, terminalVars, scheduled_terminal,
                     visible_terminal, shell_count, exception_flag, tss, user_page,
                     video_page, cpu, last_exit>>
  BY DEF EnterRead, LeaveRead, UserMode
<1>2. /\ context \in [Pid -> Contexts] /\ context' \in [Pid -> Contexts]
      /\ \A p \in Pid \ {cpu} : context'[p] = context[p]
      /\ context'[cpu] \in {"user", "read"}
  BY <1>1 DEF IInv, TypeOK, Contexts
<1>3. TypeOK'
  BY <1>1, <1>2 DEF IInv, TypeOK, pcbVars, terminalVars
<1>4. BootOrder'
  BY <1>1 DEF IInv, BootOrder, Booted, terminalVars
<1>5. ProcessorServesScheduled'
  BY <1>1, <1>2 DEF IInv, ProcessorServesScheduled, terminalVars
<1>6. ParentWaits'
  BY <1>1, <1>2 DEF IInv, TypeOK, ParentWaits, Child, pcbVars
<1>7. NoProcessLost'
  <2>1. \A p \in Pid : processes'[p] <=> context'[p] # "free"
    BY <1>1, <1>2 DEF IInv, NoProcessLost
  <2>2. /\ \A t \in Terminals : terminal_pcb'[t] # NoPid => context'[terminal_pcb'[t]] \in {"user", "read"}
        /\ \A t, u \in Terminals : t # u /\ terminal_pcb'[t] # NoPid => terminal_pcb'[t] # terminal_pcb'[u]
    BY <1>1, <1>2 DEF IInv, TypeOK, NoProcessLost, terminalVars
  <2>3. \A p \in Pid : context'[p] \in {"user", "read"} => \E t \in Terminals : terminal_pcb'[t] = p
    BY <1>1, <1>2 DEF IInv, NoProcessLost, terminalVars
  <2>4. \A p \in Pid : context'[p] = "execute" =>
          \E q \in Pid : Child(q)' /\ parent_process_id'[q] = p
    BY <1>1, <1>2 DEF IInv, NoProcessLost, Child, pcbVars
  <2>5. QED
    BY <2>1, <2>2, <2>3, <2>4 DEF NoProcessLost
<1>8. LastAssigned' /\ VideoInv'
  BY <1>1 DEF IInv, LastAssigned, VideoInv, NoForeignBuffer, Booted, terminalVars
<1>9. QED
  BY <1>3, <1>4, <1>5, <1>6, <1>7, <1>8 DEF IInv

\* What a system call finds: the scheduled terminal is booted and both its records
\* name the running process, which waits for nobody.
LEMMA RunningFinds ==
  ASSUME IInv, Running
  PROVE  /\ Booted
         /\ scheduled_terminal \in Terminals
         /\ cpu \in Pid /\ context[cpu] = "user" /\ processes[cpu]
         /\ tss = cpu /\ user_page = cpu
         /\ terminal_pcb[scheduled_terminal] = cpu
         /\ last_assigned_pid[scheduled_terminal] = cpu
         /\ \A t \in Terminals : processes[t]
<1>1. /\ Booted /\ scheduled_terminal \in Terminals
      /\ cpu \in Pid /\ context[cpu] = "user"
  BY DEF IInv, TypeOK, Running, UserMode
<1>2. terminal_pcb[scheduled_terminal] # NoPid /\ \A t \in Terminals : processes[t]
  BY <1>1, SizesAssumption DEF IInv, BootOrder, Booted, Terminals
<1>3. QED
  BY <1>1, <1>2, SizesAssumption DEF IInv, ProcessorServesScheduled, Pid, Wild

LEMMA ExecuteNotElfStep ==
  ASSUME IInv, ExecuteNotElf
  PROVE  IInv'
<1>1. /\ user_page' = cpu /\ user_page = cpu
      /\ UNCHANGED <<processes, pcbVars, curr_esp, terminalVars, scheduled_terminal,
                     visible_terminal, shell_count, exception_flag, tss,
                     video_page, cpu, context, last_exit>>
  BY RunningFinds DEF ExecuteNotElf
<1>2. QED
  BY <1>1 DEF IInv, TypeOK, BootOrder, ProcessorServesScheduled, ParentWaits, NoProcessLost,
              LastAssigned, VideoInv, NoForeignBuffer, Booted, Child, pcbVars, terminalVars

LEMMA VidmapStep ==
  ASSUME IInv, Vidmap
  PROVE  IInv'
<1>1. /\ Booted /\ tss \in Pid /\ scheduled_terminal \in Terminals
      /\ called_vidmap' = [called_vidmap EXCEPT ![tss] = TRUE]
      /\ video_page' \in {Vga, scheduled_terminal}
      /\ UNCHANGED <<processes, parent_process_id, parent_pcb, parent_esp, curr_esp,
                     terminalVars, scheduled_terminal, visible_terminal, shell_count,
                     exception_flag, tss, user_page, cpu, context, last_exit>>
  BY RunningFinds DEF Vidmap, SetUserVideoPage, VideoTarget
<1>2. called_vidmap' \in [Pid -> BOOLEAN]
  BY <1>1 DEF IInv, TypeOK
<1>3. TypeOK'
  BY <1>1, <1>2 DEF IInv, TypeOK, terminalVars
<1>4. VideoInv'
  BY <1>1 DEF VideoInv, NoForeignBuffer, Booted
<1>5. QED
  BY <1>1, <1>3, <1>4 DEF IInv, BootOrder, ProcessorServesScheduled, ParentWaits,
                          NoProcessLost, LastAssigned, Booted, Child, terminalVars

LEMMA SwitchVisibleStep ==
  ASSUME IInv, NEW t \in Terminals, SwitchVisible(t)
  PROVE  IInv'
<1>1. /\ visible_terminal' = t
      /\ UNCHANGED <<processes, pcbVars, curr_esp, terminalVars, scheduled_terminal,
                     shell_count, exception_flag, tss, user_page, video_page, cpu,
                     context, last_exit>>
  BY DEF SwitchVisible
<1>2. QED
  BY <1>1 DEF IInv, TypeOK, BootOrder, ProcessorServesScheduled, ParentWaits, NoProcessLost,
              LastAssigned, VideoInv, NoForeignBuffer, Booted, Child, pcbVars, terminalVars

LEMMA ExecuteStep ==
  ASSUME IInv, Execute
  PROVE  IInv'
<1> DEFINE s   == scheduled_terminal
           pid == FirstFree(processes)
<1> USE SizesAssumption DEF NoPid
<1>0. /\ processes \in [Pid -> BOOLEAN] /\ context \in [Pid -> Contexts]
      /\ terminal_pcb \in [Terminals -> Pid \cup {NoPid}]
      /\ last_assigned_pid \in [Terminals -> Pid \cup {NoPid}]
      /\ parent_process_id \in [Pid -> Pid]
      /\ parent_pcb \in [Pid -> Pid \cup {NoPid}]
      /\ parent_esp \in [Pid -> Pid \cup {NoPid}]
  BY DEF IInv, TypeOK
<1>1. /\ Booted /\ s \in Terminals
      /\ cpu \in Pid /\ context[cpu] = "user" /\ processes[cpu]
      /\ terminal_pcb[s] = cpu /\ last_assigned_pid[s] = cpu
      /\ \A t \in Terminals : processes[t]
  BY RunningFinds DEF Execute
<1>2. pid \in Pid /\ ~processes[pid] /\ pid # cpu
  BY <1>0, <1>1, FirstFreeIsLowest DEF Execute
<1>3. ~IsBaseShell(pid)
  BY <1>1, <1>2 DEF IsBaseShell, Terminals, Pid
<1>4. /\ processes' = [processes EXCEPT ![pid] = TRUE]
      /\ context' = [context EXCEPT ![cpu] = "execute", ![pid] = "user"]
      /\ parent_process_id' = [parent_process_id EXCEPT ![pid] = cpu]
      /\ parent_pcb' = [parent_pcb EXCEPT ![pid] = cpu]
      /\ parent_esp' = [parent_esp EXCEPT ![pid] = cpu]
      /\ curr_esp' = [curr_esp EXCEPT ![pid] = "none"]
      /\ called_vidmap' = [called_vidmap EXCEPT ![pid] = FALSE]
      /\ terminal_pcb' = [terminal_pcb EXCEPT ![s] = pid]
      /\ last_assigned_pid' = [last_assigned_pid EXCEPT ![s] = pid]
      /\ user_page' = pid /\ tss' = pid /\ cpu' = pid
      /\ UNCHANGED <<scheduled_terminal, visible_terminal, shell_count,
                     exception_flag, video_page, last_exit>>
  BY <1>1, <1>3 DEF Execute, StartProgram, NewPcb
<1>5. /\ context'[cpu] = "execute" /\ context'[pid] = "user" /\ context[pid] = "free"
      /\ \A p \in Pid \ {cpu, pid} : context'[p] = context[p]
  BY <1>0, <1>1, <1>2, <1>4 DEF IInv, NoProcessLost
<1>6. TypeOK'
  <2>1. /\ processes' \in [Pid -> BOOLEAN] /\ context' \in [Pid -> Contexts]
        /\ curr_esp' \in [Pid -> Depths] /\ called_vidmap' \in [Pid -> BOOLEAN]
        /\ parent_process_id' \in [Pid -> Pid]
        /\ parent_pcb' \in [Pid -> Pid \cup {NoPid}]
        /\ parent_esp' \in [Pid -> Pid \cup {NoPid}]
    BY <1>0, <1>1, <1>2, <1>4 DEF IInv, TypeOK, Depths, Contexts
  <2>2. /\ terminal_pcb' \in [Terminals -> Pid \cup {NoPid}]
        /\ last_assigned_pid' \in [Terminals -> Pid \cup {NoPid}]
    BY <1>0, <1>2, <1>4
  <2>3. QED
    BY <2>1, <2>2, <1>2, <1>4 DEF IInv, TypeOK
<1>7. BootOrder'
  <2>1. \A t \in Terminals : terminal_pcb'[t] = NoPid <=> t >= shell_count'
    <3>1. \A t \in Terminals : terminal_pcb[t] # NoPid /\ ~(t >= shell_count)
      BY <1>1 DEF IInv, BootOrder, Booted, Terminals
    <3>2. pid # NoPid
      BY <1>2 DEF Pid
    <3>3. \A t \in Terminals : terminal_pcb'[t] # NoPid
      BY <1>0, <1>4, <3>1, <3>2
    <3>4. QED
      BY <1>4, <3>1, <3>3
  <2>2. \A t \in 0 .. shell_count' - 1 : processes'[t]
    BY <1>0, <1>1, <1>2, <1>4 DEF Booted, Terminals
  <2>3. Booted'
    BY <1>1, <1>4 DEF Booted
  <2>4. QED
    BY <2>1, <2>2, <2>3 DEF BootOrder
<1>8. ProcessorServesScheduled'
  BY <1>0, <1>1, <1>2, <1>4, <1>5 DEF ProcessorServesScheduled
<1>9. ParentWaits'
  <2>1. \A p \in Pid : processes'[p] /\ IsBaseShell(p) => parent_process_id'[p] = p
    BY <1>0, <1>2, <1>3, <1>4 DEF IInv, ParentWaits
  <2>2. \A p \in Pid : Child(p)' => p = pid \/ (p # pid /\ Child(p))
    BY <1>0, <1>2, <1>4 DEF Child
  <2>3. \A p \in Pid : Child(p) =>
           /\ p # pid
           /\ parent_process_id[p] \in Pid
           /\ parent_process_id[p] # cpu
           /\ parent_process_id[p] # pid
    BY <1>0, <1>1, <1>2, <1>5 DEF IInv, ParentWaits, Child
  <2>4. ASSUME NEW p \in Pid, Child(p)'
        PROVE  /\ parent_process_id'[p] # p
               /\ processes'[parent_process_id'[p]]
               /\ context'[parent_process_id'[p]] = "execute"
               /\ parent_pcb'[p] = parent_process_id'[p]
               /\ parent_esp'[p] = parent_process_id'[p]
    <3>1. CASE p = pid
      BY <3>1, <1>0, <1>1, <1>2, <1>4, <1>5
    <3>2. CASE p # pid /\ Child(p)
      BY <3>2, <2>3, <1>0, <1>2, <1>4, <1>5 DEF IInv, ParentWaits
    <3>3. QED
      BY <2>2, <2>4, <3>1, <3>2
  <2>5. \A p, q \in Pid : Child(p)' /\ Child(q)' /\ p # q => parent_process_id'[p] # parent_process_id'[q]
    BY <2>2, <2>3, <1>0, <1>1, <1>2, <1>4 DEF IInv, ParentWaits
  <2>6. QED
    BY <2>1, <2>4, <2>5 DEF ParentWaits
<1>10. NoProcessLost'
  <2>1. \A p \in Pid : processes'[p] <=> context'[p] # "free"
    BY <1>0, <1>1, <1>2, <1>4, <1>5 DEF IInv, NoProcessLost
  <2>2. \A t \in Terminals \ {s} : terminal_pcb[t] \notin {cpu, pid}
    BY <1>1, <1>2, <1>5 DEF IInv, NoProcessLost, Pid
  <2>3. /\ terminal_pcb'[s] = pid
        /\ \A t \in Terminals \ {s} : terminal_pcb'[t] = terminal_pcb[t]
    BY <1>0, <1>1, <1>4
  <2>4. \A t \in Terminals : terminal_pcb'[t] # NoPid => context'[terminal_pcb'[t]] \in {"user", "read"}
    BY <2>2, <2>3, <1>0, <1>5 DEF IInv, NoProcessLost
  <2>5. \A t, u \in Terminals : t # u /\ terminal_pcb'[t] # NoPid => terminal_pcb'[t] # terminal_pcb'[u]
    BY <2>2, <2>3 DEF IInv, NoProcessLost
  <2>6. \A p \in Pid : context'[p] \in {"user", "read"} => \E t \in Terminals : terminal_pcb'[t] = p
    BY <2>3, <1>1, <1>5 DEF IInv, NoProcessLost
  <2>7. \A p \in Pid : context'[p] = "execute" =>
          \E q \in Pid : Child(q)' /\ parent_process_id'[q] = p
    <3> SUFFICES ASSUME NEW p \in Pid, context'[p] = "execute"
                 PROVE  \E q \in Pid : Child(q)' /\ parent_process_id'[q] = p
      OBVIOUS
    <3>1. CASE p = cpu
      BY <3>1, <1>0, <1>2, <1>3, <1>4 DEF Child
    <3>2. CASE p # cpu
      <4>1. PICK q \in Pid : Child(q) /\ parent_process_id[q] = p
        BY <3>2, <1>5 DEF IInv, NoProcessLost
      <4>2. q # pid
        BY <4>1, <1>2 DEF Child
      <4>3. QED
        BY <4>1, <4>2, <1>0, <1>4 DEF Child
    <3>3. QED
      BY <3>1, <3>2
  <2>8. QED
    BY <2>1, <2>4, <2>5, <2>6, <2>7 DEF NoProcessLost
<1>11. LastAssigned' /\ VideoInv'
  BY <1>0, <1>1, <1>4 DEF IInv, LastAssigned, VideoInv, NoForeignBuffer, Booted
<1>12. QED
  BY <1>6, <1>7, <1>8, <1>9, <1>10, <1>11 DEF IInv

\* A base shell that halts is replaced in the same step, under the same pid.
LEMMA HaltBaseShellStep ==
  ASSUME IInv, Running, NEW cause, HaltBaseShell(cause)
  PROVE  IInv'
<1> DEFINE s     == scheduled_terminal
           freed == [processes EXCEPT ![cpu] = FALSE]
<1> USE SizesAssumption DEF NoPid
<1>0. /\ processes \in [Pid -> BOOLEAN] /\ context \in [Pid -> Contexts]
      /\ terminal_pcb \in [Terminals -> Pid \cup {NoPid}]
      /\ last_assigned_pid \in [Terminals -> Pid \cup {NoPid}]
      /\ parent_process_id \in [Pid -> Pid]
      /\ curr_esp \in [Pid -> Depths] /\ called_vidmap \in [Pid -> BOOLEAN]
      /\ parent_pcb \in [Pid -> Pid \cup {NoPid}]
      /\ parent_esp \in [Pid -> Pid \cup {NoPid}]
  BY DEF IInv, TypeOK
<1>1. /\ Booted /\ s \in Terminals
      /\ cpu \in Pid /\ context[cpu] = "user" /\ processes[cpu]
      /\ terminal_pcb[s] = cpu /\ last_assigned_pid[s] = cpu
      /\ tss = cpu /\ user_page = cpu
      /\ \A t \in Terminals : processes[t]
  BY RunningFinds
<1>2. parent_process_id[cpu] = cpu /\ IsBaseShell(cpu)
  BY <1>1 DEF HaltBaseShell, IInv, ParentWaits, Child
<1>3. FirstFree(freed) = cpu
  <2>1. freed \in [Pid -> BOOLEAN] /\ ~freed[cpu]
    BY <1>0, <1>1
  <2>2. \A q \in 0 .. cpu - 1 : freed[q]
    BY <1>0, <1>1, <1>2 DEF IsBaseShell, Pid, Terminals
  <2>3. QED
    BY <2>1, <2>2, <1>1, FirstFreeIs
<1>4. /\ processes' = processes
      /\ context' = context
      /\ parent_process_id' = parent_process_id
      /\ terminal_pcb' = terminal_pcb
      /\ last_assigned_pid' = last_assigned_pid
      /\ user_page' = user_page /\ tss' = tss /\ cpu' = cpu
      /\ UNCHANGED <<scheduled_terminal, visible_terminal, shell_count, video_page, last_exit>>
  <2>1. /\ processes' = [freed EXCEPT ![cpu] = TRUE]
        /\ context' = [context EXCEPT ![cpu] = "free", ![cpu] = "user"]
        /\ parent_process_id' = [parent_process_id EXCEPT ![cpu] = cpu]
        /\ terminal_pcb' = [terminal_pcb EXCEPT ![s] = cpu]
        /\ last_assigned_pid' = [last_assigned_pid EXCEPT ![s] = cpu]
        /\ user_page' = cpu /\ tss' = cpu /\ cpu' = cpu
        /\ UNCHANGED <<scheduled_terminal, visible_terminal, shell_count, video_page, last_exit>>
    BY <1>1, <1>2, <1>3 DEF HaltBaseShell, StartProgram, NewPcb
  <2>2. processes' = processes
    BY <2>1, <1>0, <1>1
  <2>3. QED
    BY <2>1, <2>2, <1>0, <1>1, <1>2
<1>5. /\ exception_flag' \in BOOLEAN
      /\ curr_esp' = [curr_esp EXCEPT ![cpu] = curr_esp[cpu]]
      /\ called_vidmap' = [called_vidmap EXCEPT ![cpu] = FALSE]
      /\ parent_esp' = [parent_esp EXCEPT ![cpu] = cpu]
      /\ parent_pcb' = [parent_pcb EXCEPT ![cpu] = cpu]
  BY <1>1, <1>2, <1>3 DEF HaltBaseShell, StartProgram, NewPcb
<1>6. TypeOK'
  <2>1. /\ curr_esp' \in [Pid -> Depths] /\ called_vidmap' \in [Pid -> BOOLEAN]
        /\ parent_pcb' \in [Pid -> Pid \cup {NoPid}]
        /\ parent_esp' \in [Pid -> Pid \cup {NoPid}]
    BY <1>0, <1>1, <1>5
  <2>2. QED
    BY <2>1, <1>4, <1>5 DEF IInv, TypeOK
<1>7. ParentWaits'
  <2>1. \A p \in Pid : Child(p) => p # cpu
    BY <1>2 DEF Child
  <2>2. \A p \in Pid : p # cpu => parent_pcb'[p] = parent_pcb[p] /\ parent_esp'[p] = parent_esp[p]
    BY <1>0, <1>1, <1>5
  <2>3. QED
    BY <2>1, <2>2, <1>4 DEF IInv, ParentWaits, Child
<1>8. QED
  BY <1>4, <1>6, <1>7 DEF IInv, BootOrder, ProcessorServesScheduled, NoProcessLost,
                          LastAssigned, VideoInv, NoForeignBuffer, Booted, Child

\* A child that halts hands the terminal back to the parent that waits for it.
LEMMA HaltChildStep ==
  ASSUME IInv, Running, NEW cause \in {"halt", "exception"}, HaltChild(cause)
  PROVE  IInv'
<1> DEFINE s      == scheduled_terminal
           parent == parent_process_id[cpu]
<1> USE SizesAssumption DEF NoPid
<1>0. /\ processes \in [Pid -> BOOLEAN] /\ context \in [Pid -> Contexts]
      /\ terminal_pcb \in [Terminals -> Pid \cup {NoPid}]
      /\ last_assigned_pid \in [Terminals -> Pid \cup {NoPid}]
      /\ parent_process_id \in [Pid -> Pid]
  BY DEF IInv, TypeOK
<1>1. /\ Booted /\ s \in Terminals
      /\ cpu \in Pid /\ context[cpu] = "user" /\ processes[cpu]
      /\ terminal_pcb[s] = cpu
      /\ \A t \in Terminals : processes[t]
  BY RunningFinds
<1>2. Child(cpu) /\ parent # cpu
  BY <1>1 DEF HaltChild, Child, IInv, ParentWaits
<1>3. /\ parent \in Pid /\ processes[parent] /\ context[parent] = "execute"
      /\ parent_pcb[cpu] = parent /\ parent_esp[cpu] = parent
  BY <1>0, <1>1, <1>2 DEF IInv, ParentWaits
<1>4. /\ processes' = [processes EXCEPT ![cpu] = FALSE]
      /\ context' = [context EXCEPT ![cpu] = "free", ![parent] = "user"]
      /\ last_assigned_pid' = [last_assigned_pid EXCEPT ![s] = parent]
      /\ terminal_pcb' = [terminal_pcb EXCEPT ![s] = parent]
      /\ user_page' = parent /\ tss' = parent /\ cpu' = parent
      /\ video_page' \in {Vga, s, video_page}
      /\ exception_flag' = FALSE
      /\ last_exit' \in [cause : {"none", "halt", "exception"}, value : {0, 256}]
      /\ UNCHANGED <<pcbVars, curr_esp, scheduled_terminal, visible_terminal, shell_count>>
  BY <1>1, <1>3 DEF HaltChild, SetUserVideoPage, VideoTarget, ExitValue
<1>5. /\ context'[cpu] = "free" /\ context'[parent] = "user"
      /\ \A p \in Pid \ {cpu, parent} : context'[p] = context[p]
      /\ ~processes'[cpu] /\ \A p \in Pid \ {cpu} : processes'[p] = processes[p]
      /\ terminal_pcb'[s] = parent /\ last_assigned_pid'[s] = parent
      /\ \A t \in Terminals \ {s} : terminal_pcb'[t] = terminal_pcb[t]
  BY <1>0, <1>1, <1>2, <1>3, <1>4
<1>6. TypeOK'
  <2>1. /\ processes' \in [Pid -> BOOLEAN] /\ context' \in [Pid -> Contexts]
        /\ terminal_pcb' \in [Terminals -> Pid \cup {NoPid}]
        /\ last_assigned_pid' \in [Terminals -> Pid \cup {NoPid}]
    BY <1>0, <1>1, <1>3, <1>4 DEF Contexts
  <2>2. video_page' \in Terminals \cup {Vga, NotMapped}
    BY <1>1, <1>4 DEF IInv, TypeOK
  <2>3. UNCHANGED <<parent_process_id, parent_pcb, parent_esp, called_vidmap, curr_esp,
                    scheduled_terminal, visible_terminal, shell_count>>
    BY <1>4 DEF pcbVars
  <2>4. /\ exception_flag' \in BOOLEAN
        /\ user_page' \in Pid /\ tss' \in Pid /\ cpu' \in Pid
        /\ last_exit' \in [cause : {"none", "halt", "exception"}, value : {0, 256}]
    BY <1>3, <1>4
  <2>5. QED
    BY <2>1, <2>2, <2>3, <2>4 DEF IInv, TypeOK
<1>7. BootOrder'
  <2>1. cpu \notin Terminals
    BY <1>1, <1>2 DEF Child, IsBaseShell, Terminals
  <2>2. \A t \in Terminals : terminal_pcb'[t] = NoPid <=> t >= shell_count'
    BY <1>1, <1>3, <1>4, <1>5 DEF IInv, BootOrder, Pid
  <2>3. \A t \in 0 .. shell_count' - 1 : processes'[t]
    BY <2>1, <1>1, <1>4, <1>5 DEF Booted, Terminals, Pid
  <2>4. Booted'
    BY <1>1, <1>4 DEF Booted
  <2>5. QED
    BY <2>2, <2>3, <2>4 DEF BootOrder
<1>8. ProcessorServesScheduled'
  BY <1>1, <1>2, <1>3, <1>4, <1>5 DEF ProcessorServesScheduled
<1>9. \A p \in Pid : Child(p)' <=> Child(p) /\ p # cpu
  BY <1>1, <1>5 DEF Child
<1>10. ParentWaits'
  <2>1. \A p \in Pid : Child(p)' => parent_process_id[p] \notin {cpu, parent}
    BY <1>1, <1>2, <1>9 DEF IInv, ParentWaits
  <2>2. QED
    BY <2>1, <1>0, <1>4, <1>5, <1>9 DEF IInv, ParentWaits, pcbVars
<1>11. NoProcessLost'
  <2>1. \A p \in Pid : processes'[p] <=> context'[p] # "free"
    BY <1>2, <1>3, <1>5 DEF IInv, NoProcessLost
  <2>2. \A t \in Terminals \ {s} : terminal_pcb[t] \notin {cpu, parent}
    BY <1>1, <1>3 DEF IInv, NoProcessLost, Pid
  <2>3. \A t \in Terminals : terminal_pcb'[t] # NoPid => context'[terminal_pcb'[t]] \in {"user", "read"}
    BY <2>2, <1>0, <1>5 DEF IInv, NoProcessLost
  <2>4. \A t, u \in Terminals : t # u /\ terminal_pcb'[t] # NoPid => terminal_pcb'[t] # terminal_pcb'[u]
    BY <2>2, <1>5 DEF IInv, NoProcessLost
  <2>5. \A p \in Pid : context'[p] \in {"user", "read"} => \E t \in Terminals : terminal_pcb'[t] = p
    BY <1>1, <1>5 DEF IInv, NoProcessLost
  <2>6. \A p \in Pid : context'[p] = "execute" =>
          \E q \in Pid : Child(q)' /\ parent_process_id'[q] = p
    BY <1>1, <1>4, <1>5, <1>9 DEF IInv, NoProcessLost, pcbVars
  <2>7. QED
    BY <2>1, <2>3, <2>4, <2>5, <2>6 DEF NoProcessLost
<1>12. LastAssigned' /\ VideoInv'
  <2>1. \A t \in Terminals : last_assigned_pid'[t] = IF t = s THEN parent ELSE last_assigned_pid[t]
    BY <1>0, <1>1, <1>4
  <2>2. LastAssigned'
    BY <2>1, <1>5 DEF IInv, LastAssigned
  <2>3. VideoInv'
    BY <1>1, <1>4 DEF IInv, VideoInv, NoForeignBuffer, Booted
  <2>4. QED
    BY <2>2, <2>3
<1>13. QED
  BY <1>6, <1>7, <1>8, <1>10, <1>11, <1>12 DEF IInv

LEMMA NextIInv ==
  ASSUME IInv, [Next]_vars
  PROVE  IInv'
<1>1. CASE Scheduler
  BY <1>1, BootTerminalStep, SkipToUnbootedStep, SwitchProcessStep DEF Scheduler
<1>2. CASE EnterRead \/ LeaveRead
  BY <1>2, ReadStep
<1>3. CASE Execute
  BY <1>3, ExecuteStep
<1>4. CASE ExecuteNotElf
  BY <1>4, ExecuteNotElfStep
<1>5. ASSUME NEW cause \in {"halt", "exception"}, Halt(cause)
      PROVE  IInv'
  BY <1>5, HaltBaseShellStep, HaltChildStep DEF Halt
<1>6. CASE Vidmap
  BY <1>6, VidmapStep
<1>7. ASSUME NEW t \in Terminals, SwitchVisible(t)
      PROVE  IInv'
  BY <1>7, SwitchVisibleStep
<1>8. CASE UNCHANGED vars
  BY <1>8 DEF vars, IInv, TypeOK, BootOrder, ProcessorServesScheduled, ParentWaits,
              NoProcessLost, LastAssigned, VideoInv, NoForeignBuffer, Booted, Child,
              pcbVars, terminalVars
<1>9. QED
  BY <1>1, <1>2, <1>3, <1>4, <1>5, <1>6, <1>7, <1>8 DEF Next

THEOREM Invariance == Spec => []IInv
<1>1. Init => IInv
  BY InitIInv
<1>2. IInv /\ [Next]_vars => IInv'
  BY NextIInv
<1>3. QED
  BY <1>1, <1>2, PTL DEF Spec

\* Type correctness, for every number of processes and terminals.
THEOREM TypeCorrect == Spec => []TypeOK
<1>1. IInv => TypeOK
  BY DEF IInv
<1>2. QED
  BY <1>1, Invariance, PTL

\* The terminals are booted in order and keep their base pids for ever.
THEOREM BootsInOrder == Spec => []BootOrder
<1>1. IInv => BootOrder
  BY DEF IInv
<1>2. QED
  BY <1>1, Invariance, PTL

\* The processor, the TSS, the program page and both records of the scheduled
\* terminal agree on the process that runs, after every execute, halt and tick.
THEOREM ServesScheduled == Spec => []ProcessorServesScheduled
<1>1. IInv => ProcessorServesScheduled
  BY DEF IInv
<1>2. QED
  BY <1>1, Invariance, PTL

\* A child always has a live parent waiting for it alone, at the place halt jumps to.
THEOREM ParentsWait == Spec => []ParentWaits
<1>1. IInv => ParentWaits
  BY DEF IInv
<1>2. QED
  BY <1>1, Invariance, PTL

\* No taken pid is unreachable, no free pid is on top of a terminal.
THEOREM NothingLost == Spec => []NoProcessLost
<1>1. IInv => NoProcessLost
  BY DEF IInv
<1>2. QED
  BY <1>1, Invariance, PTL

\* The user video page never maps the background buffer of another terminal.
THEOREM OwnBuffer == Spec => []NoForeignBuffer
<1>1. IInv => NoForeignBuffer
  BY DEF IInv, VideoInv
<1>2. QED
  BY <1>1, Invariance, PTL

-----------------------------------------------------------------------------
(* The frames the scheduler switches to *)

\* While the next terminal waits to be booted, the running base shell sits in the
\* read in which the scheduler has saved it: the boot does not save it again.
BootFrame ==
  ~Booted /\ scheduled_terminal = shell_count /\ shell_count > 0 =>
    context[cpu] = "read" /\ curr_esp[cpu] = "read"

FrameInv == SavedFrames /\ BootFrame

LEMMA BootTerminalFrames ==
  ASSUME IInv, FrameInv, BootTerminal
  PROVE  FrameInv'
<1> DEFINE s == scheduled_terminal
<1> USE SizesAssumption DEF NoPid, Wild
<1>1. /\ s = shell_count /\ s \in Pid /\ s \in Terminals /\ IsBaseShell(s)
      /\ FirstFree(processes) = s
  BY BootFinds DEF IInv, TypeOK
<1>2. /\ context' = [context EXCEPT ![s] = "user"]
      /\ curr_esp' = [curr_esp EXCEPT ![s] = "temp"]
      /\ terminal_pcb' = [terminal_pcb EXCEPT ![s] = s]
      /\ cpu' = s /\ shell_count' = s + 1 /\ scheduled_terminal' = s
  BY <1>1 DEF BootTerminal, StartProgram, NewPcb
<1>3. /\ context \in [Pid -> Contexts] /\ curr_esp \in [Pid -> Depths]
      /\ terminal_pcb \in [Terminals -> Pid \cup {NoPid}]
      /\ ~Booted /\ cpu = s - 1
      /\ \A t \in Terminals : terminal_pcb[t] = NoPid <=> t >= s
      /\ \A t \in 0 .. s - 1 : terminal_pcb[t] = t
  BY <1>1 DEF IInv, TypeOK, BootOrder, Booted, Terminals
<1>4. ASSUME NEW t \in Terminals, terminal_pcb'[t] # NoPid, terminal_pcb'[t] # cpu'
      PROVE  curr_esp'[terminal_pcb'[t]] = context'[terminal_pcb'[t]]
  <2>1. t # s /\ terminal_pcb'[t] = terminal_pcb[t]
    BY <1>1, <1>2, <1>3, <1>4
  <2>2. t < s /\ terminal_pcb[t] = t /\ t \in Pid
    BY <2>1, <1>1, <1>3, <1>4 DEF Terminals, Pid
  <2>3. curr_esp'[t] = curr_esp[t] /\ context'[t] = context[t]
    BY <2>1, <2>2, <1>2, <1>3
  <2>4. CASE t = cpu
    BY <2>1, <2>2, <2>3, <2>4, <1>1, <1>3 DEF FrameInv, BootFrame, Pid
  <2>5. CASE t # cpu
    BY <2>1, <2>2, <2>3, <2>5, <1>4 DEF FrameInv, SavedFrames
  <2>6. QED
    BY <2>4, <2>5
<1>5. cpu' # Wild
  BY <1>1, <1>2 DEF Pid
<1>6. BootFrame'
  BY <1>1, <1>2 DEF BootFrame, Pid
<1>7. QED
  BY <1>4, <1>5, <1>6 DEF FrameInv, SavedFrames

LEMMA SkipToUnbootedFrames ==
  ASSUME QuickBoot, IInv, FrameInv, SkipToUnbooted
  PROVE  FrameInv'
<1> DEFINE s == scheduled_terminal
<1> USE SizesAssumption DEF NoPid
<1>1. /\ s \in Terminals /\ shell_count \in 0 .. MaxTerminals
      /\ \A t \in Terminals : terminal_pcb[t] = NoPid <=> t >= shell_count
  BY DEF IInv, TypeOK, BootOrder
<1>2. /\ NextTerminal(s) \in Terminals
      /\ NextTerminal(s) = IF s = MaxTerminals - 1 THEN 0 ELSE s + 1
  BY NextTerminalInRing DEF IInv, TypeOK
<1>3. /\ terminal_pcb[s] # NoPid /\ terminal_pcb[NextTerminal(s)] = NoPid
      /\ curr_esp' = [curr_esp EXCEPT ![terminal_pcb[s]] = context[cpu]]
      /\ UNCHANGED <<terminal_pcb, cpu, context, shell_count>>
  BY DEF SkipToUnbooted, SaveStack, terminalVars
<1>4. ~Booted /\ s = shell_count - 1 /\ shell_count \in 1 .. MaxTerminals - 1
  BY <1>1, <1>2, <1>3 DEF Booted, Terminals
<1>5. cpu = s /\ terminal_pcb[s] = cpu /\ cpu \in Pid
  BY <1>1, <1>4 DEF IInv, BootOrder, Terminals, Pid
<1>6. context[cpu] = "read"
  BY <1>4 DEF SkipToUnbooted, Tick
<1>7. curr_esp'[cpu] = "read" /\ \A p \in Pid \ {cpu} : curr_esp'[p] = curr_esp[p]
  BY <1>3, <1>5, <1>6 DEF IInv, TypeOK
<1>8. SavedFrames'
  BY <1>3, <1>7 DEF IInv, TypeOK, FrameInv, SavedFrames
<1>9. BootFrame'
  BY <1>3, <1>6, <1>7 DEF BootFrame
<1>10. QED
  BY <1>8, <1>9 DEF FrameInv

LEMMA SwitchProcessFrames ==
  ASSUME IInv, FrameInv, SwitchProcess
  PROVE  FrameInv'
<1> DEFINE s   == scheduled_terminal
           pcb == terminal_pcb[NextTerminal(s)]
<1> USE SizesAssumption DEF NoPid
<1>1. /\ s \in Terminals /\ curr_esp \in [Pid -> Depths]
      /\ terminal_pcb \in [Terminals -> Pid \cup {NoPid}]
      /\ NextTerminal(s) \in Terminals
  BY NextTerminalInRing DEF IInv, TypeOK
<1>2. /\ terminal_pcb[s] # NoPid /\ pcb # NoPid /\ cpu # Wild
      /\ curr_esp' = [curr_esp EXCEPT ![terminal_pcb[s]] = context[cpu]]
      /\ cpu' = IF curr_esp'[pcb] = context[pcb] THEN pcb ELSE Wild
      /\ UNCHANGED <<terminal_pcb, context>>
  BY DEF SwitchProcess, Tick, SaveStack, Resume, terminalVars
<1>3. terminal_pcb[s] = cpu /\ cpu \in Pid /\ pcb \in Pid
  BY <1>1, <1>2 DEF IInv, ProcessorServesScheduled
<1>4. curr_esp'[cpu] = context[cpu] /\ \A p \in Pid \ {cpu} : curr_esp'[p] = curr_esp[p]
  BY <1>1, <1>2, <1>3
<1>5. \A t \in Terminals : terminal_pcb[t] # NoPid => curr_esp'[terminal_pcb[t]] = context[terminal_pcb[t]]
  BY <1>1, <1>4 DEF FrameInv, SavedFrames
<1>6. cpu' = pcb
  BY <1>1, <1>2, <1>5
<1>7. SavedFrames'
  BY <1>2, <1>3, <1>5, <1>6 DEF SavedFrames, Pid, Wild
<1>8. Booted'
  BY SwitchFindsBooted DEF SwitchProcess, Booted
<1>9. QED
  BY <1>7, <1>8 DEF FrameInv, BootFrame

LEMMA ReadFrames ==
  ASSUME IInv, FrameInv, EnterRead \/ LeaveRead
  PROVE  FrameInv'
<1>1. /\ cpu \in Pid
      /\ \E c \in {"user", "read"} : context' = [context EXCEPT ![cpu] = c]
      /\ UNCHANGED <<terminal_pcb, curr_esp, cpu, scheduled_terminal, shell_count>>
      /\ context[cpu] = "user" \/ Booted
  BY DEF EnterRead, LeaveRead, UserMode, terminalVars
<1>2. \A p \in Pid \ {cpu} : context'[p] = context[p]
  BY <1>1 DEF IInv, TypeOK
<1>3. SavedFrames'
  BY <1>1, <1>2 DEF IInv, TypeOK, FrameInv, SavedFrames
<1>4. BootFrame'
  BY <1>1 DEF FrameInv, BootFrame, Booted
<1>5. QED
  BY <1>3, <1>4 DEF FrameInv

LEMMA ExecuteFrames ==
  ASSUME IInv, FrameInv, Execute
  PROVE  FrameInv'
<1> DEFINE s   == scheduled_terminal
           pid == FirstFree(processes)
<1> USE SizesAssumption DEF NoPid
<1>0. /\ processes \in [Pid -> BOOLEAN] /\ context \in [Pid -> Contexts]
      /\ terminal_pcb \in [Terminals -> Pid \cup {NoPid}]
      /\ curr_esp \in [Pid -> Depths]
  BY DEF IInv, TypeOK
<1>1. /\ Booted /\ s \in Terminals /\ cpu \in Pid /\ processes[cpu]
      /\ terminal_pcb[s] = cpu /\ context[cpu] = "user"
  BY RunningFinds DEF Execute
<1>2. pid \in Pid /\ ~processes[pid] /\ pid # cpu
  BY <1>0, <1>1, FirstFreeIsLowest DEF Execute
<1>3. /\ \E c \in Depths : curr_esp' = [curr_esp EXCEPT ![pid] = c]
      /\ context' = [context EXCEPT ![cpu] = "execute", ![pid] = "user"]
      /\ terminal_pcb' = [terminal_pcb EXCEPT ![s] = pid]
      /\ cpu' = pid /\ UNCHANGED <<scheduled_terminal, shell_count>>
  <2>1. terminal_pcb[s] \in Pid
    BY <1>1
  <2>2. curr_esp[terminal_pcb[s]] \in Depths
    BY <2>1, <1>0
  <2>3. QED
    BY <2>2 DEF Execute, StartProgram, NewPcb, Depths
<1>4. \A t \in Terminals \ {s} : terminal_pcb[t] \notin {cpu, pid}
  BY <1>1, <1>2 DEF IInv, NoProcessLost, Pid
<1>5. \A t \in Terminals \ {s} : terminal_pcb'[t] = terminal_pcb[t]
  BY <1>0, <1>1, <1>3
<1>6. \A p \in Pid \ {cpu, pid} : curr_esp'[p] = curr_esp[p] /\ context'[p] = context[p]
  BY <1>0, <1>2, <1>3
<1>7. terminal_pcb'[s] = cpu'
  BY <1>0, <1>1, <1>3
<1>8. SavedFrames'
  BY <1>0, <1>2, <1>3, <1>4, <1>5, <1>6, <1>7 DEF FrameInv, SavedFrames, Pid, Wild
<1>9. BootFrame'
  BY <1>1, <1>3 DEF BootFrame, Booted
<1>10. QED
  BY <1>8, <1>9 DEF FrameInv

LEMMA HaltBaseShellFrames ==
  ASSUME IInv, FrameInv, Running, NEW cause, HaltBaseShell(cause)
  PROVE  FrameInv'
<1> DEFINE freed == [processes EXCEPT ![cpu] = FALSE]
<1>1. /\ processes \in [Pid -> BOOLEAN] /\ context \in [Pid -> Contexts]
      /\ terminal_pcb \in [Terminals -> Pid \cup {NoPid}]
      /\ curr_esp \in [Pid -> Depths]
  BY DEF IInv, TypeOK
<1>2. /\ Booted /\ scheduled_terminal \in Terminals /\ cpu \in Pid /\ processes[cpu]
      /\ terminal_pcb[scheduled_terminal] = cpu /\ context[cpu] = "user"
      /\ \A t \in Terminals : processes[t]
  BY RunningFinds
<1>3. parent_process_id[cpu] = cpu /\ IsBaseShell(cpu)
  BY <1>2 DEF HaltBaseShell, IInv, ParentWaits, Child
<1>4. FirstFree(freed) = cpu
  <2>1. freed \in [Pid -> BOOLEAN] /\ ~freed[cpu]
    BY <1>1, <1>2
  <2>2. \A q \in 0 .. cpu - 1 : freed[q]
    BY <1>1, <1>2, <1>3, SizesAssumption DEF IsBaseShell, Pid, Terminals
  <2>3. QED
    BY <2>1, <2>2, <1>2, FirstFreeIs
<1>5. /\ context' = [context EXCEPT ![cpu] = "free", ![cpu] = "user"]
      /\ terminal_pcb' = [terminal_pcb EXCEPT ![scheduled_terminal] = cpu]
      /\ curr_esp' = [curr_esp EXCEPT ![cpu] = curr_esp[cpu]]
      /\ cpu' = cpu /\ UNCHANGED <<scheduled_terminal, shell_count>>
  BY <1>2, <1>3, <1>4 DEF HaltBaseShell, StartProgram, NewPcb
<1>6. UNCHANGED <<context, terminal_pcb, curr_esp, cpu, shell_count>>
  BY <1>1, <1>2, <1>5
<1>7. SavedFrames'
  BY <1>6 DEF FrameInv, SavedFrames
<1>8. BootFrame'
  BY <1>2, <1>6 DEF BootFrame, Booted
<1>9. QED
  BY <1>7, <1>8 DEF FrameInv

LEMMA HaltChildFrames ==
  ASSUME IInv, FrameInv, Running, NEW cause, HaltChild(cause)
  PROVE  FrameInv'
<1> DEFINE s      == scheduled_terminal
           parent == parent_process_id[cpu]
<1> USE SizesAssumption DEF NoPid
<1>1. /\ context \in [Pid -> Contexts] /\ parent_process_id \in [Pid -> Pid]
      /\ terminal_pcb \in [Terminals -> Pid \cup {NoPid}]
  BY DEF IInv, TypeOK
<1>2. /\ Booted /\ s \in Terminals /\ cpu \in Pid /\ processes[cpu]
      /\ terminal_pcb[s] = cpu /\ context[cpu] = "user"
  BY RunningFinds
<1>3. Child(cpu)
  BY <1>2 DEF HaltChild, Child, IInv, ParentWaits
<1>4. /\ parent \in Pid /\ context[parent] = "execute"
      /\ parent_pcb[cpu] = parent /\ parent_esp[cpu] = parent
  BY <1>1, <1>2, <1>3 DEF IInv, ParentWaits
<1>5. /\ context' = [context EXCEPT ![cpu] = "free", ![parent] = "user"]
      /\ terminal_pcb' = [terminal_pcb EXCEPT ![s] = parent]
      /\ cpu' = parent /\ UNCHANGED <<curr_esp, shell_count>>
  BY <1>2, <1>4 DEF HaltChild
<1>6. \A t \in Terminals \ {s} : terminal_pcb[t] \notin {cpu, parent}
  BY <1>2, <1>4 DEF IInv, NoProcessLost, Pid
<1>7. /\ terminal_pcb'[s] = cpu'
      /\ \A t \in Terminals \ {s} : terminal_pcb'[t] = terminal_pcb[t]
      /\ \A p \in Pid \ {cpu, parent} : context'[p] = context[p]
  BY <1>1, <1>2, <1>4, <1>5
<1>8. SavedFrames'
  <2>1. ASSUME NEW t \in Terminals, terminal_pcb'[t] # NoPid, terminal_pcb'[t] # cpu'
        PROVE  curr_esp'[terminal_pcb'[t]] = context'[terminal_pcb'[t]]
    <3>1. t # s /\ terminal_pcb'[t] = terminal_pcb[t]
      BY <2>1, <1>7
    <3>2. terminal_pcb[t] \in Pid \ {cpu, parent}
      BY <2>1, <3>1, <1>1, <1>6
    <3>3. curr_esp[terminal_pcb[t]] = context[terminal_pcb[t]]
      BY <3>2 DEF FrameInv, SavedFrames, Pid
    <3>4. QED
      BY <3>1, <3>2, <3>3, <1>5, <1>7
  <2>2. cpu' # Wild
    BY <1>4, <1>5 DEF Pid, Wild
  <2>3. QED
    BY <2>1, <2>2 DEF SavedFrames
<1>9. BootFrame'
  BY <1>2, <1>5 DEF BootFrame, Booted
<1>10. QED
  BY <1>8, <1>9 DEF FrameInv

LEMMA NextFrameInv ==
  ASSUME QuickBoot, IInv, FrameInv, [Next]_vars
  PROVE  FrameInv'
<1>1. CASE Scheduler
  BY <1>1, BootTerminalFrames, SkipToUnbootedFrames, SwitchProcessFrames DEF Scheduler
<1>2. CASE EnterRead \/ LeaveRead
  BY <1>2, ReadFrames
<1>3. CASE Execute
  BY <1>3, ExecuteFrames
<1>4. ASSUME NEW cause \in {"halt", "exception"}, Halt(cause)
      PROVE  FrameInv'
  BY <1>4, HaltBaseShellFrames, HaltChildFrames DEF Halt
<1>5. CASE \/ ExecuteNotElf
           \/ Vidmap
           \/ \E t \in Terminals : SwitchVisible(t)
           \/ UNCHANGED vars
  <2>1. UNCHANGED <<terminal_pcb, curr_esp, cpu, context, scheduled_terminal, shell_count>>
    BY <1>5 DEF ExecuteNotElf, Vidmap, SwitchVisible, vars, terminalVars
  <2>2. SavedFrames'
    BY <2>1 DEF FrameInv, SavedFrames
  <2>3. BootFrame'
    BY <2>1 DEF FrameInv, BootFrame, Booted
  <2>4. QED
    BY <2>2, <2>3 DEF FrameInv
<1>6. QED
  BY <1>1, <1>2, <1>3, <1>4, <1>5 DEF Next

\* With the timing the boot relies on, every process the scheduler switched away
\* from is resumed at the frame it was interrupted at.
THEOREM FramesSaved == QuickBoot /\ Spec => []SavedFrames
<1> SUFFICES ASSUME QuickBoot PROVE Spec => []SavedFrames
  OBVIOUS
<1>1. Init => FrameInv
  BY SizesAssumption DEF Init, FrameInv, SavedFrames, BootFrame, Terminals, NoPid, Wild
<1>2. IInv /\ FrameInv /\ [Next]_vars => FrameInv'
  BY NextFrameInv
<1>3. FrameInv => SavedFrames
  BY DEF FrameInv
<1>4. QED
  BY <1>1, <1>2, <1>3, Invariance, PTL DEF Spec

-----------------------------------------------------------------------------

\* The recursion by which Stacks reads the PCBs, one level unfolded.
StackLevels(stack, parent) ==
  [depth \in 0 .. MaxProcesses |->
    [p \in Pid |-> IF depth = 0 \/ parent[p] = p
                   THEN <<p>>
                   ELSE Append(stack[depth - 1][parent[p]], p)]]

\* stack holds the levels of the recursion up to height n.
StacksUpTo(stack, parent, n) ==
  /\ stack[0] = [p \in Pid |-> <<p>>]
  /\ \A depth \in 1 .. n :
       stack[depth] = [p \in Pid |-> IF parent[p] = p THEN <<p>>
                                     ELSE Append(stack[depth - 1][parent[p]], p)]

\* A function with the levels up to n exists for every n: the least n without one
\* is neither 0 nor the successor of one that has it.
LEMMA LevelsExist ==
  ASSUME NEW parent, NEW n \in Nat
  PROVE  \E stack : DOMAIN stack = 0 .. n /\ StacksUpTo(stack, parent, n)
<1> DEFINE Has(m) == \E stack : DOMAIN stack = 0 .. m /\ StacksUpTo(stack, parent, m)
           bad == {m \in Nat : ~Has(m)}
           less == {pair \in Nat \X Nat : pair[1] < pair[2]}
<1>1. IsWellFoundedOn(less, Nat)
  BY NatLessThanWellFounded DEF OpToRel
<1>2. Has(0)
  <2> DEFINE f == [m \in 0 .. 0 |-> [p \in Pid |-> <<p>>]]
  <2>1. DOMAIN f = 0 .. 0 /\ StacksUpTo(f, parent, 0)
    BY DEF StacksUpTo
  <2>2. QED
    BY <2>1
<1>3. ASSUME NEW m \in Nat, Has(m)
      PROVE  Has(m + 1)
  <2>1. PICK stack : DOMAIN stack = 0 .. m /\ StacksUpTo(stack, parent, m)
    BY <1>3
  <2> DEFINE top == [p \in Pid |-> IF parent[p] = p THEN <<p>>
                                   ELSE Append(stack[m][parent[p]], p)]
             f   == [k \in 0 .. m + 1 |-> IF k = m + 1 THEN top ELSE stack[k]]
  <2>2. f[0] = stack[0] /\ f[m + 1] = top /\ \A k \in 0 .. m : f[k] = stack[k]
    <3> HIDE DEF top
    <3> QED  OBVIOUS
  <2>3. f[0] = [p \in Pid |-> <<p>>]
    BY <2>1, <2>2 DEF StacksUpTo
  <2>4. ASSUME NEW depth \in 1 .. m + 1
        PROVE  f[depth] = [p \in Pid |-> IF parent[p] = p THEN <<p>>
                                         ELSE Append(f[depth - 1][parent[p]], p)]
    <3> HIDE DEF f
    <3>1. CASE depth = m + 1
      <4>1. f[depth - 1] = stack[m] /\ f[depth] = top
        <5> HIDE DEF top
        <5> QED  BY <3>1, <2>2
      <4>2. QED
        BY <4>1
    <3>2. CASE depth \in 1 .. m
      <4>1. f[depth - 1] = stack[depth - 1] /\ f[depth] = stack[depth]
        <5> HIDE DEF top
        <5> QED  BY <3>2, <2>2
      <4>2. QED
        BY <3>2, <4>1, <2>1 DEF StacksUpTo
    <3>3. QED
      BY <3>1, <3>2
  <2>5. StacksUpTo(f, parent, m + 1)
    <3> HIDE DEF f
    <3> QED  BY <2>3, <2>4 DEF StacksUpTo
  <2>6. DOMAIN f = 0 .. m + 1
    OBVIOUS
  <2>7. QED
    <3> HIDE DEF f
    <3> QED  BY <2>5, <2>6
<1>4. SUFFICES ASSUME bad # {} PROVE FALSE
  OBVIOUS
<1> HIDE DEF Has
<1>5. PICK m \in bad : \A k \in bad : ~ (<<k, m>> \in less)
  <2>1. bad \subseteq Nat
    OBVIOUS
  <2> HIDE DEF less, bad
  <2> QED  BY <1>1, <1>4, <2>1, WFMin
<1>6. m \in Nat /\ ~Has(m) /\ m # 0
  BY <1>2, <1>5
<1>7. m - 1 \in Nat /\ Has(m - 1)
  <2>1. m - 1 \in Nat /\ <<m - 1, m>> \in less
    BY <1>6
  <2>2. m - 1 \notin bad
    <3> HIDE DEF bad, less
    <3> QED  BY <1>5, <2>1
  <2>3. QED
    BY <2>1, <2>2
<1>8. Has((m - 1) + 1)
  BY <1>3, <1>7
<1>9. (m - 1) + 1 = m
  BY <1>6
<1>10. QED
  BY <1>6, <1>8, <1>9

\* Stacks is the top level of such a function.
LEMMA StacksAreTopLevel ==
  ASSUME NEW parent
  PROVE  \E stack : /\ Stacks(parent) = stack[MaxProcesses]
                    /\ StacksUpTo(stack, parent, MaxProcesses)
<1>1. PICK levels : /\ DOMAIN levels = 0 .. MaxProcesses
                    /\ StacksUpTo(levels, parent, MaxProcesses)
  BY LevelsExist, SizesAssumption
<1> DEFINE f == [depth \in 0 .. MaxProcesses |-> levels[depth]]
<1>2. \A depth \in 0 .. MaxProcesses : f[depth] = levels[depth]
  OBVIOUS
<1>3. \A depth \in 0 .. MaxProcesses :
        levels[depth] = [p \in Pid |-> IF depth = 0 \/ parent[p] = p
                                       THEN <<p>>
                                       ELSE Append(f[depth - 1][parent[p]], p)]
  <2> HIDE DEF f
  <2> TAKE depth \in 0 .. MaxProcesses
  <2>1. CASE depth = 0
    BY <2>1, <1>1 DEF StacksUpTo
  <2>2. CASE depth # 0
    <3>1. depth \in 1 .. MaxProcesses /\ depth - 1 \in 0 .. MaxProcesses
      BY <2>2, SizesAssumption
    <3>2. f[depth - 1] = levels[depth - 1]
      BY <3>1, <1>2
    <3>3. QED
      BY <2>2, <3>1, <3>2, <1>1 DEF StacksUpTo
  <2>3. QED
    BY <2>1, <2>2
<1>4. f = StackLevels(f, parent)
  BY <1>3 DEF StackLevels
<1> HIDE DEF f
<1> DEFINE g == CHOOSE stack : stack = StackLevels(stack, parent)
<1>5. g = StackLevels(g, parent)
  BY <1>4
<1>6. Stacks(parent) = g[MaxProcesses]
  BY DEF Stacks, StackLevels
<1> HIDE DEF g
<1>7. \A depth \in 0 .. MaxProcesses :
        g[depth] = [p \in Pid |-> IF depth = 0 \/ parent[p] = p
                                  THEN <<p>>
                                  ELSE Append(g[depth - 1][parent[p]], p)]
  BY <1>5 DEF StackLevels
<1>8. StacksUpTo(g, parent, MaxProcesses)
  <2>1. 0 \in 0 .. MaxProcesses /\ \A depth \in 1 .. MaxProcesses : depth \in 0 .. MaxProcesses /\ depth # 0
    BY SizesAssumption
  <2>2. g[0] = [p \in Pid |-> <<p>>]
    BY <2>1, <1>7
  <2>3. ASSUME NEW depth \in 1 .. MaxProcesses
        PROVE  g[depth] = [p \in Pid |-> IF parent[p] = p THEN <<p>>
                                         ELSE Append(g[depth - 1][parent[p]], p)]
    BY <2>1, <1>7
  <2>4. QED
    BY <2>2, <2>3 DEF StacksUpTo
<1>9. QED
  BY <1>6, <1>8

\* s is the job stack whose top is the process top: its bottom is its own parent,
\* every other process the child of the one below it, and nobody is in it twice.
StackedBelow(top, parent, s) ==
  /\ s \in Seq(Pid) /\ s # <<>>
  /\ s[Len(s)] = top
  /\ parent[s[1]] = s[1]
  /\ \A i \in 2 .. Len(s) : parent[s[i]] = s[i - 1]
  /\ \A i, j \in 1 .. Len(s) : s[i] = s[j] => i = j

\* No stack is higher than there are pids.
LEMMA StackFits ==
  ASSUME NEW s \in Seq(Pid), \A i, j \in 1 .. Len(s) : s[i] = s[j] => i = j
  PROVE  Len(s) <= MaxProcesses
<1>1. SUFFICES ASSUME Len(s) > MaxProcesses PROVE FALSE
  BY SizesAssumption, LenProperties
<1>2. Len(s) \in Nat /\ s \in [1 .. Len(s) -> Pid]
  BY LenProperties
<1>3. IsFiniteSet(1 .. Len(s)) /\ Cardinality(1 .. Len(s)) = Len(s)
  BY <1>1, <1>2, FS_Interval, SizesAssumption, SMTT(30)
<1>4. IsFiniteSet(Pid) /\ Cardinality(Pid) = MaxProcesses
  BY FS_Interval, SizesAssumption DEF Pid
<1>5. \E i, j \in 1 .. Len(s) : i # j /\ s[i] = s[j]
  <2>1. Cardinality(Pid) < Cardinality(1 .. Len(s))
    BY <1>1, <1>2, <1>3, <1>4, SizesAssumption
  <2>2. QED
    BY <1>2, <1>3, <1>4, <2>1, FS_PigeonHole
<1>6. QED
  BY <1>5

\* Stacks reads the stack of a process off the parents: the level at or above its
\* height holds, for every process in it, the part of the stack below it.
LEMMA StacksRead ==
  ASSUME NEW parent \in [Pid -> Pid], NEW top, NEW s, StackedBelow(top, parent, s)
  PROVE  Stacks(parent)[top] = s
<1>1. PICK stack : /\ Stacks(parent) = stack[MaxProcesses]
                   /\ StacksUpTo(stack, parent, MaxProcesses)
  BY StacksAreTopLevel
<1>2. /\ s \in Seq(Pid) /\ Len(s) \in 1 .. MaxProcesses
      /\ parent[s[1]] = s[1] /\ s[Len(s)] = top
      /\ \A i \in 1 .. Len(s) : s[i] \in Pid
      /\ \A i \in 2 .. Len(s) : parent[s[i]] = s[i - 1] /\ s[i - 1] # s[i]
  <2>1. s \in Seq(Pid) /\ s # <<>> /\ Len(s) <= MaxProcesses
    BY StackFits DEF StackedBelow
  <2>2. Len(s) \in Nat /\ Len(s) # 0 /\ \A i \in 1 .. Len(s) : s[i] \in Pid
    BY <2>1, LenProperties, EmptySeq
  <2>3. \A i \in 2 .. Len(s) : s[i - 1] # s[i]
    BY <2>2 DEF StackedBelow
  <2>4. QED
    BY <2>1, <2>2, <2>3, SizesAssumption DEF StackedBelow
<1> DEFINE part(i) == SubSeq(s, 1, i)
           Reads(i) == \A depth \in i - 1 .. MaxProcesses : stack[depth][s[i]] = part(i)
           bad == {i \in 1 .. Len(s) : ~Reads(i)}
           less == {pair \in Nat \X Nat : pair[1] < pair[2]}
<1>3. IsWellFoundedOn(less, Nat)
  BY NatLessThanWellFounded DEF OpToRel
<1>4. Reads(1)
  <2>1. part(1) = <<s[1]>>
    <3>1. 1 \in 1 .. Len(s) /\ s[1] \in Pid
      BY <1>2
    <3>2. part(1) \in Seq(Pid) /\ Len(part(1)) = 1 /\ part(1)[1] = s[1]
      BY <1>2, <3>1, SubSeqProperties
    <3>3. <<s[1]>> \in Seq(Pid) /\ Len(<<s[1]>>) = 1 /\ <<s[1]>>[1] = s[1]
      BY <3>1
    <3>4. \A i \in 1 .. Len(<<s[1]>>) : part(1)[i] = <<s[1]>>[i]
      BY <3>2, <3>3
    <3> HIDE DEF part
    <3>5. QED
      BY <3>2, <3>3, <3>4, SeqEqual
  <2>2. \A depth \in 0 .. MaxProcesses : stack[depth][s[1]] = <<s[1]>>
    <3> TAKE depth \in 0 .. MaxProcesses
    <3>1. CASE depth = 0
      BY <3>1, <1>1, <1>2 DEF StacksUpTo
    <3>2. CASE depth # 0
      <4>1. depth \in 1 .. MaxProcesses
        BY <3>2
      <4>2. stack[depth] = [p \in Pid |-> IF parent[p] = p THEN <<p>>
                                          ELSE Append(stack[depth - 1][parent[p]], p)]
        BY <4>1, <1>1 DEF StacksUpTo
      <4>3. 1 \in 1 .. Len(s) /\ s[1] \in Pid
        BY <1>2
      <4>4. QED
        BY <4>2, <4>3, <1>2
    <3>3. QED
      BY <3>1, <3>2
  <2>3. QED
    BY <2>1, <2>2
<1>5. ASSUME NEW i \in 2 .. Len(s), Reads(i - 1)
      PROVE  Reads(i)
  <2> SUFFICES ASSUME NEW depth \in i - 1 .. MaxProcesses
               PROVE  stack[depth][s[i]] = part(i)
    BY SMTT(30)
  <2>1. depth \in 1 .. MaxProcesses /\ depth - 1 \in (i - 1) - 1 .. MaxProcesses
    BY <1>2, SizesAssumption
  <2>2. /\ i \in 1 .. Len(s) /\ s[i] \in Pid
        /\ parent[s[i]] = s[i - 1] /\ parent[s[i]] # s[i]
    BY <1>2
  <2>3. stack[depth][s[i]] = Append(stack[depth - 1][s[i - 1]], s[i])
    <3>1. stack[depth] = [p \in Pid |-> IF parent[p] = p THEN <<p>>
                                        ELSE Append(stack[depth - 1][parent[p]], p)]
      BY <2>1, <1>1 DEF StacksUpTo
    <3>2. QED
      BY <3>1, <2>2
  <2>4. stack[depth - 1][s[i - 1]] = part(i - 1)
    BY <2>1, <1>5
  <2>5. Append(part(i - 1), s[i]) = part(i)
    BY <1>2
  <2>6. QED
    BY <2>3, <2>4, <2>5
<1> HIDE DEF Reads
<1>6. bad = {}
  <2>1. SUFFICES ASSUME bad # {} PROVE FALSE
    OBVIOUS
  <2>2. bad \subseteq Nat
    BY <1>2
  <2>3. PICK i \in bad : \A k \in bad : ~ (<<k, i>> \in less)
    <3> HIDE DEF less, bad
    <3> QED  BY <1>3, <2>1, <2>2, WFMin
  <2>4. i \in 2 .. Len(s) /\ ~Reads(i)
    BY <1>4, <2>3, <1>2
  <2>5. i - 1 \in 1 .. Len(s) /\ <<i - 1, i>> \in less
    BY <2>4, <1>2
  <2>6. Reads(i - 1)
    <3> HIDE DEF less
    <3>1. i - 1 \notin bad
      <4> HIDE DEF bad
      <4> QED  BY <2>3, <2>5
    <3>2. QED
      BY <3>1, <2>5
  <2>7. QED
    BY <2>4, <2>6, <1>5
<1>7. Reads(Len(s)) /\ part(Len(s)) = s
  <2>1. Len(s) \in 1 .. Len(s) /\ Len(s) \notin bad
    BY <1>2, <1>6
  <2>2. part(Len(s)) = s
    BY <1>2, SubSeqFull
  <2>3. QED
    BY <2>1, <2>2
<1>8. stack[MaxProcesses][s[Len(s)]] = s
  <2>1. MaxProcesses \in Len(s) - 1 .. MaxProcesses
    BY <1>2, SizesAssumption
  <2>2. QED
    BY <1>7, <2>1 DEF Reads
<1>9. QED
  BY <1>1, <1>2, <1>8

-----------------------------------------------------------------------------
(* scheduler, execute and halt implement the job stacks *)

\* The PCBs of a booted terminal form a stack, and every process in it is alive.
JobsOf(t) ==
  terminal_pcb[t] # NoPid =>
    /\ StackedBelow(terminal_pcb[t], parent_process_id, jobs[t])
    /\ \A i \in 1 .. Len(jobs[t]) : processes[jobs[t][i]]

JobsInv == \A t \in Terminals : JobsOf(t)

LEMMA JobsIsFunction ==
  /\ jobs = [t \in Terminals |-> jobs[t]]
  /\ jobs' = [t \in Terminals |-> jobs'[t]]
  /\ \A t \in Terminals : terminal_pcb[t] = NoPid => jobs[t] = <<>>
BY DEF jobs

\* jobs after a step is what StacksRead finds in the new PCBs.
LEMMA JobsRead ==
  ASSUME parent_process_id' \in [Pid -> Pid], NEW t \in Terminals,
         terminal_pcb'[t] # NoPid, NEW s,
         StackedBelow(terminal_pcb'[t], parent_process_id', s)
  PROVE  jobs'[t] = s
<1>1. Stacks(parent_process_id')[terminal_pcb'[t]] = s
  BY StacksRead
<1>2. QED
  BY <1>1 DEF jobs, NoPid

\* A step that moves neither a terminal nor the parents of its processes keeps its
\* stack.
LEMMA JobsKept ==
  ASSUME parent_process_id' \in [Pid -> Pid], NEW t \in Terminals, JobsOf(t),
         terminal_pcb'[t] = terminal_pcb[t],
         \A p \in Pid : processes[p] /\ (\E i \in 1 .. Len(jobs[t]) : jobs[t][i] = p) =>
            parent_process_id'[p] = parent_process_id[p] /\ processes'[p]
  PROVE  jobs'[t] = jobs[t] /\ JobsOf(t)'
<1>1. CASE terminal_pcb[t] = NoPid
  BY <1>1 DEF jobs, JobsOf
<1>2. CASE terminal_pcb[t] # NoPid
  <2> PICK s : s = jobs[t]
    OBVIOUS
  <2>1. /\ StackedBelow(terminal_pcb[t], parent_process_id, s)
        /\ \A i \in 1 .. Len(s) : processes[s[i]]
    BY <1>2 DEF JobsOf
  <2>2. s \in Seq(Pid) /\ s # <<>> /\ Len(s) \in Nat /\ Len(s) # 0 /\ \A i \in 1 .. Len(s) : s[i] \in Pid
    BY <2>1, LenProperties, EmptySeq DEF StackedBelow
  <2>3. \A i \in 1 .. Len(s) : parent_process_id'[s[i]] = parent_process_id[s[i]] /\ processes'[s[i]]
    BY <2>1, <2>2
  <2>4. StackedBelow(terminal_pcb'[t], parent_process_id', s)
    BY <2>1, <2>2, <2>3 DEF StackedBelow
  <2>5. jobs'[t] = s
    BY <1>2, <2>4, JobsRead
  <2>6. QED
    BY <2>3, <2>4, <2>5 DEF JobsOf
<1>3. QED
  BY <1>1, <1>2

\* The members of a stack: its top runs or is ready, everybody below it waits in
\* execute.
LEMMA JobsWait ==
  ASSUME IInv, NEW t \in Terminals, JobsOf(t), terminal_pcb[t] # NoPid
  PROVE  /\ jobs[t] \in Seq(Pid) /\ Len(jobs[t]) \in Nat \ {0}
         /\ jobs[t][Len(jobs[t])] = terminal_pcb[t]
         /\ \A i \in 1 .. Len(jobs[t]) : jobs[t][i] \in Pid /\ processes[jobs[t][i]]
         /\ \A i \in 1 .. Len(jobs[t]) - 1 : context[jobs[t][i]] = "execute"
<1> PICK s : s = jobs[t]
  OBVIOUS
<1>1. StackedBelow(terminal_pcb[t], parent_process_id, s) /\ \A i \in 1 .. Len(s) : processes[s[i]]
  BY DEF JobsOf
<1>2. s \in Seq(Pid) /\ Len(s) \in Nat \ {0} /\ \A i \in 1 .. Len(s) : s[i] \in Pid
  BY <1>1, LenProperties, EmptySeq DEF StackedBelow
<1>3. ASSUME NEW i \in 1 .. Len(s) - 1
      PROVE  context[s[i]] = "execute"
  <2> PICK p \in Pid, q \in Pid : p = s[i] /\ q = s[i + 1]
    BY <1>2
  <2>1. parent_process_id[q] = p /\ p # q
    BY <1>1, <1>2 DEF StackedBelow
  <2>2. processes[q]
    BY <1>1, <1>2
  <2>3. Child(q)
    BY <2>1, <2>2 DEF IInv, ParentWaits, Child
  <2>4. QED
    BY <2>1, <2>3 DEF IInv, ParentWaits
<1>4. QED
  BY <1>1, <1>2, <1>3 DEF StackedBelow

\* A step that touches no stack.
LEMMA NoJobsTouched ==
  ASSUME IInv, IInv', JobsInv,
         UNCHANGED <<processes, parent_process_id, terminal_pcb>>
  PROVE  JobsInv' /\ UNCHANGED jobs
<1>1. \A t \in Terminals : jobs'[t] = jobs[t] /\ JobsOf(t)'
  BY JobsKept DEF IInv, TypeOK, JobsInv
<1>2. QED
  BY <1>1, JobsIsFunction DEF JobsInv

LEMMA BootRefines ==
  ASSUME IInv, IInv', JobsInv, BootTerminal
  PROVE  JobsInv' /\ Abstract!Boot(scheduled_terminal)
<1> PICK s : s = scheduled_terminal
  OBVIOUS
<1> USE SizesAssumption
<1>1. /\ s = shell_count /\ s \in Pid /\ s \in Terminals /\ IsBaseShell(s)
      /\ FirstFree(processes) = s
  BY BootFinds DEF IInv, TypeOK
<1>2. /\ processes' = [processes EXCEPT ![s] = TRUE]
      /\ parent_process_id' = [parent_process_id EXCEPT ![s] = s]
      /\ terminal_pcb' = [terminal_pcb EXCEPT ![s] = s]
      /\ cpu' = s
  BY <1>1 DEF BootTerminal, StartProgram, NewPcb
<1>3. /\ ~processes[s] /\ terminal_pcb[s] = NoPid
      /\ \A t \in Terminals : terminal_pcb[t] = NoPid <=> t >= s
  BY <1>1 DEF IInv, TypeOK, BootOrder, BootTerminal, Booted, Terminals
<1>4. /\ processes \in [Pid -> BOOLEAN]
      /\ parent_process_id \in [Pid -> Pid] /\ parent_process_id' \in [Pid -> Pid]
      /\ terminal_pcb \in [Terminals -> Pid \cup {NoPid}]
  BY DEF IInv, TypeOK
<1>5. ASSUME NEW t \in Terminals \ {s}
      PROVE  jobs'[t] = jobs[t] /\ JobsOf(t)'
  <2>1. \A p \in Pid : processes[p] => parent_process_id'[p] = parent_process_id[p] /\ processes'[p]
    BY <1>1, <1>2, <1>3, <1>4
  <2>2. terminal_pcb'[t] = terminal_pcb[t]
    BY <1>2, <1>4
  <2>3. QED
    BY <2>1, <2>2, <1>4, JobsKept DEF JobsInv
<1>6. jobs'[s] = <<s>> /\ JobsOf(s)'
  <2>1. terminal_pcb'[s] = s /\ s # NoPid /\ parent_process_id'[s] = s /\ processes'[s]
    BY <1>1, <1>2, <1>4 DEF Pid, NoPid
  <2>2. <<s>> \in Seq(Pid) /\ <<s>> # <<>> /\ Len(<<s>>) = 1 /\ <<s>>[1] = s
    BY <1>1
  <2>3. StackedBelow(terminal_pcb'[s], parent_process_id', <<s>>)
    BY <2>1, <2>2 DEF StackedBelow
  <2>4. jobs'[s] = <<s>>
    BY <2>1, <2>3, <1>1, <1>4, JobsRead
  <2>5. \A i \in 1 .. Len(<<s>>) : processes'[<<s>>[i]]
    <3>1. \A i \in 1 .. Len(<<s>>) : i = 1
      BY <2>2
    <3>2. QED
      BY <2>1, <2>2, <3>1
  <2>6. QED
    BY <2>3, <2>4, <2>5 DEF JobsOf
<1>7. jobs' = [jobs EXCEPT ![s] = <<s>>]
  BY <1>5, <1>6, JobsIsFunction
<1>8. jobs[s] = <<>> /\ \A u \in 0 .. s - 1 : jobs[u] # <<>>
  <2>1. jobs[s] = <<>>
    BY <1>1, <1>3, JobsIsFunction
  <2>2. ASSUME NEW u \in 0 .. s - 1
        PROVE  jobs[u] # <<>>
    <3>1. u \in Terminals /\ terminal_pcb[u] # NoPid
      BY <1>1, <1>3 DEF Terminals
    <3>2. QED
      BY <3>1 DEF JobsInv, JobsOf, StackedBelow
  <2>3. QED
    BY <2>1, <2>2
<1>9. JobsInv'
  BY <1>5, <1>6 DEF JobsInv
<1>10. QED
  BY <1>2, <1>7, <1>8, <1>9 DEF Abstract!Boot

LEMMA ExecuteRefines ==
  ASSUME IInv, IInv', JobsInv, Execute
  PROVE  JobsInv' /\ Abstract!Start(scheduled_terminal)
<1> PICK s : s = scheduled_terminal
  OBVIOUS
<1> PICK pid : pid = FirstFree(processes)
  OBVIOUS
<1> PICK old : old = jobs[s]
  OBVIOUS
<1> USE SizesAssumption
<1>0. /\ processes \in [Pid -> BOOLEAN]
      /\ parent_process_id \in [Pid -> Pid] /\ parent_process_id' \in [Pid -> Pid]
      /\ terminal_pcb \in [Terminals -> Pid \cup {NoPid}]
  BY DEF IInv, TypeOK
<1>1. /\ s \in Terminals /\ cpu \in Pid /\ processes[cpu]
      /\ terminal_pcb[s] = cpu /\ last_assigned_pid[s] = cpu
      /\ \A t \in Terminals : processes[t]
  BY RunningFinds DEF Execute
<1>2. pid \in Pid /\ ~processes[pid] /\ ~IsBaseShell(pid)
  <2>1. pid \in Pid /\ ~processes[pid]
    BY <1>0, FirstFreeIsLowest DEF Execute
  <2>2. QED
    BY <1>1, <2>1 DEF IsBaseShell, Pid, Terminals
<1>3. /\ processes' = [processes EXCEPT ![pid] = TRUE]
      /\ parent_process_id' = [parent_process_id EXCEPT ![pid] = cpu]
      /\ terminal_pcb' = [terminal_pcb EXCEPT ![s] = pid]
      /\ cpu' = pid
  BY <1>1, <1>2 DEF Execute, StartProgram, NewPcb
<1>4. /\ terminal_pcb'[s] = pid /\ parent_process_id'[pid] = cpu /\ processes'[pid]
      /\ \A t \in Terminals \ {s} : terminal_pcb'[t] = terminal_pcb[t]
      /\ \A p \in Pid : processes[p] => /\ p # pid
                                        /\ parent_process_id'[p] = parent_process_id[p]
                                        /\ processes'[p]
  BY <1>0, <1>1, <1>2, <1>3
<1>5. ASSUME NEW t \in Terminals \ {s}
      PROVE  jobs'[t] = jobs[t] /\ JobsOf(t)'
  BY <1>0, <1>4, JobsKept DEF JobsInv
<1>6. /\ old \in Seq(Pid) /\ Len(old) \in Nat \ {0} /\ old[Len(old)] = cpu
      /\ \A i \in 1 .. Len(old) : old[i] \in Pid /\ processes[old[i]]
  <2>1. terminal_pcb[s] # NoPid
    BY <1>1 DEF Pid, NoPid
  <2>2. QED
    BY <1>1, <2>1, JobsWait DEF JobsInv
<1>7. StackedBelow(cpu, parent_process_id, old)
  BY <1>1 DEF JobsInv, JobsOf, Pid, NoPid
<1> PICK new : new = Append(old, pid)
  OBVIOUS
<1>8. /\ new \in Seq(Pid) /\ new # <<>> /\ Len(new) = Len(old) + 1
      /\ new[Len(new)] = pid /\ \A i \in 1 .. Len(old) : new[i] = old[i]
  BY <1>2, <1>6, AppendProperties
<1>9. StackedBelow(pid, parent_process_id', new)
  <2>1. \A i \in 1 .. Len(old) : parent_process_id'[old[i]] = parent_process_id[old[i]] /\ old[i] # pid
    BY <1>4, <1>6
  <2>2. parent_process_id'[new[1]] = new[1]
    BY <2>1, <1>6, <1>7, <1>8 DEF StackedBelow
  <2>3. ASSUME NEW i \in 2 .. Len(new)
        PROVE  parent_process_id'[new[i]] = new[i - 1]
    <3>1. CASE i = Len(new)
      BY <3>1, <1>4, <1>6, <1>8
    <3>2. CASE i \in 2 .. Len(old)
      <4>1. i \in 1 .. Len(old) /\ i - 1 \in 1 .. Len(old)
        BY <3>2, <1>6
      <4>2. QED
        BY <3>2, <4>1, <2>1, <1>7, <1>8 DEF StackedBelow
    <3>3. QED
      BY <3>1, <3>2, <1>6, <1>8
  <2>4. ASSUME NEW i \in 1 .. Len(new), NEW j \in 1 .. Len(new), new[i] = new[j]
        PROVE  i = j
    <3>1. i \in 1 .. Len(old) \/ i = Len(new)
      BY <1>6, <1>8
    <3>2. j \in 1 .. Len(old) \/ j = Len(new)
      BY <1>6, <1>8
    <3>3. QED
      BY <3>1, <3>2, <2>1, <2>4, <1>7, <1>8 DEF StackedBelow
  <2>5. QED
    BY <2>2, <2>3, <2>4, <1>8 DEF StackedBelow
<1>10. jobs'[s] = new
  <2>1. terminal_pcb'[s] # NoPid /\ StackedBelow(terminal_pcb'[s], parent_process_id', new)
    BY <1>2, <1>4, <1>9 DEF Pid, NoPid
  <2>2. QED
    BY <2>1, <1>0, <1>1, JobsRead
<1>11. JobsOf(s)'
  <2>1. \A i \in 1 .. Len(new) : processes'[new[i]]
    <3> TAKE i \in 1 .. Len(new)
    <3>1. i \in 1 .. Len(old) \/ i = Len(new)
      BY <1>6, <1>8
    <3>2. QED
      BY <3>1, <1>4, <1>6, <1>8
  <2>2. QED
    BY <2>1, <1>4, <1>9, <1>10 DEF JobsOf
<1>12. JobsInv'
  BY <1>5, <1>11 DEF JobsInv
<1>13. jobs' = [jobs EXCEPT ![s] = new]
  BY <1>1, <1>5, <1>10, JobsIsFunction
<1>14. pid \notin Abstract!Used
  <2>1. ASSUME NEW t \in Terminals, NEW i \in DOMAIN jobs[t]
        PROVE  jobs[t][i] # pid
    <3>1. CASE terminal_pcb[t] = NoPid
      BY <2>1, <3>1, JobsIsFunction
    <3>2. CASE terminal_pcb[t] # NoPid
      <4>1. /\ jobs[t] \in Seq(Pid)
            /\ \A k \in 1 .. Len(jobs[t]) : jobs[t][k] \in Pid /\ processes[jobs[t][k]]
        BY <3>2, JobsWait DEF JobsInv
      <4>2. i \in 1 .. Len(jobs[t])
        BY <2>1, <4>1, LenProperties
      <4>3. QED
        BY <4>1, <4>2, <1>2
    <3>3. QED
      BY <3>1, <3>2
  <2>2. QED
    BY <2>1 DEF Abstract!Used, Abstract!ToSet, Abstract!Terminals, Terminals
<1>15. Abstract!RunsOn(s)
  BY <1>6, EmptySeq DEF Abstract!RunsOn, Abstract!Last
<1>16. jobs' = [jobs EXCEPT ![s] = Append(@, pid)]
  BY <1>13
<1>17. QED
  BY <1>2, <1>3, <1>12, <1>14, <1>15, <1>16 DEF Abstract!Start

LEMMA HaltChildRefines ==
  ASSUME IInv, IInv', JobsInv, Running, NEW cause, HaltChild(cause)
  PROVE  JobsInv' /\ Abstract!Finish(scheduled_terminal)
<1> PICK s : s = scheduled_terminal
  OBVIOUS
<1> PICK old : old = jobs[s]
  OBVIOUS
<1> PICK pcb : pcb = cpu
  OBVIOUS
<1> PICK parent : parent = parent_process_id[pcb]
  OBVIOUS
<1> USE SizesAssumption
<1>0. /\ processes \in [Pid -> BOOLEAN]
      /\ parent_process_id \in [Pid -> Pid] /\ parent_process_id' \in [Pid -> Pid]
      /\ terminal_pcb \in [Terminals -> Pid \cup {NoPid}]
  BY DEF IInv, TypeOK
<1>1. /\ s \in Terminals /\ pcb \in Pid /\ processes[pcb]
      /\ terminal_pcb[s] = pcb /\ context[pcb] = "user"
  BY RunningFinds
<1>2. Child(pcb) /\ parent # pcb
  BY <1>1 DEF HaltChild, Child, IInv, ParentWaits
<1>3. /\ parent \in Pid /\ context[parent] = "execute"
      /\ parent_pcb[pcb] = parent /\ parent_esp[pcb] = parent
  BY <1>0, <1>1, <1>2 DEF IInv, ParentWaits
<1>4. /\ processes' = [processes EXCEPT ![pcb] = FALSE]
      /\ parent_process_id' = parent_process_id
      /\ terminal_pcb' = [terminal_pcb EXCEPT ![s] = parent]
      /\ cpu' = parent
  BY <1>1, <1>3 DEF HaltChild, pcbVars
<1>5. /\ terminal_pcb'[s] = parent
      /\ \A t \in Terminals \ {s} : terminal_pcb'[t] = terminal_pcb[t]
      /\ \A p \in Pid : p # pcb => processes'[p] = processes[p]
  BY <1>0, <1>1, <1>4
<1>6. ASSUME NEW t \in Terminals \ {s}
      PROVE  jobs'[t] = jobs[t] /\ JobsOf(t)'
  <2>1. CASE terminal_pcb[t] = NoPid
    BY <2>1, <1>0, <1>5, JobsKept, <1>4, JobsIsFunction DEF JobsInv
  <2>2. CASE terminal_pcb[t] # NoPid
    <3>1. /\ Len(jobs[t]) \in Nat \ {0}
          /\ jobs[t][Len(jobs[t])] = terminal_pcb[t]
          /\ \A i \in 1 .. Len(jobs[t]) - 1 : context[jobs[t][i]] = "execute"
      BY <2>2, JobsWait DEF JobsInv
    <3>2. terminal_pcb[t] # pcb
      BY <2>2, <1>1 DEF IInv, NoProcessLost
    <3>3. \A i \in 1 .. Len(jobs[t]) : jobs[t][i] # pcb
      <4> TAKE i \in 1 .. Len(jobs[t])
      <4>1. i = Len(jobs[t]) \/ i \in 1 .. Len(jobs[t]) - 1
        BY <3>1
      <4>2. QED
        BY <4>1, <3>1, <3>2, <1>1
    <3>4. \A p \in Pid : processes[p] /\ (\E i \in 1 .. Len(jobs[t]) : jobs[t][i] = p) =>
            parent_process_id'[p] = parent_process_id[p] /\ processes'[p]
      BY <3>3, <1>4, <1>5
    <3>5. QED
      BY <3>4, <1>0, <1>5, JobsKept DEF JobsInv
  <2>3. QED
    BY <2>1, <2>2
<1>7. terminal_pcb[s] # NoPid /\ parent # NoPid
  BY <1>1, <1>3 DEF Pid, NoPid
<1>8. /\ old \in Seq(Pid) /\ Len(old) \in Nat \ {0} /\ old[Len(old)] = pcb
      /\ \A i \in 1 .. Len(old) : old[i] \in Pid /\ processes[old[i]]
  BY <1>1, <1>7, JobsWait DEF JobsInv
<1>9. StackedBelow(pcb, parent_process_id, old)
  BY <1>1, <1>7 DEF JobsInv, JobsOf
<1>10. Len(old) > 1 /\ old[Len(old) - 1] = parent
  <2>1. Len(old) # 1
    BY <1>2, <1>8, <1>9 DEF StackedBelow
  <2>2. PICK height \in Nat \ {0} : height = Len(old)
    BY <1>8
  <2>3. height > 1 /\ height \in 2 .. height
    BY ONLY <2>1, <2>2
  <2>4. parent_process_id[old[height]] = old[height - 1]
    BY <2>2, <2>3, <1>9 DEF StackedBelow
  <2>5. QED
    BY <2>2, <2>3, <2>4, <1>8
<1> PICK n : n = Len(old) - 1
  OBVIOUS
<1> PICK new : new = SubSeq(old, 1, n)
  OBVIOUS
<1>11. /\ n \in Nat \ {0} /\ new \in Seq(Pid) /\ Len(new) = n
       /\ \A i \in 1 .. n : new[i] = old[i] /\ i \in 1 .. Len(old)
  <2>1. n \in Nat \ {0} /\ \A i \in 1 .. n : i \in 1 .. Len(old)
    BY <1>8, <1>10
  <2>2. \A i \in 1 .. n : old[i] \in Pid
    BY <2>1, <1>8
  <2>3. /\ SubSeq(old, 1, n) \in Seq(Pid) /\ Len(SubSeq(old, 1, n)) = n
        /\ \A i \in 1 .. n : SubSeq(old, 1, n)[i] = old[i]
    BY <2>1, <2>2, SubSeqProperties
  <2>4. QED
    BY <2>1, <2>3
<1>12. StackedBelow(parent, parent_process_id', new)
  <2>1. new # <<>> /\ new[Len(new)] = parent
    <3>1. Len(new) # 0 /\ n \in 1 .. n
      BY ONLY <1>11
    <3>2. new # <<>>
      BY <3>1
    <3>3. new[n] = old[n] /\ Len(new) = n
      BY <3>1, <1>11
    <3>4. QED
      BY <3>2, <3>3, <1>10
  <2>2. parent_process_id[new[1]] = new[1]
    <3>1. 1 \in 1 .. n
      BY ONLY <1>11
    <3>2. QED
      BY <3>1, <1>9, <1>11 DEF StackedBelow
  <2>3. \A i \in 2 .. Len(new) : parent_process_id[new[i]] = new[i - 1]
    <3> TAKE i \in 2 .. Len(new)
    <3>1. i \in 1 .. n /\ i - 1 \in 1 .. n /\ i \in 2 .. Len(old)
      BY <1>8, <1>11
    <3>2. QED
      BY <3>1, <1>9, <1>11 DEF StackedBelow
  <2>4. \A i, j \in 1 .. Len(new) : new[i] = new[j] => i = j
    BY <1>9, <1>11 DEF StackedBelow
  <2>5. QED
    BY <2>1, <2>2, <2>3, <2>4, <1>4, <1>11 DEF StackedBelow
<1>13. jobs'[s] = new
  BY <1>0, <1>1, <1>5, <1>7, <1>12, JobsRead
<1>14. JobsOf(s)'
  <2>1. \A i \in 1 .. n : old[i] # pcb
    <3> TAKE i \in 1 .. n
    <3>1. i \in 1 .. Len(old) /\ Len(old) \in 1 .. Len(old) /\ i # Len(old)
      BY <1>8, <1>11
    <3>2. QED
      BY <3>1, <1>8, <1>9 DEF StackedBelow
  <2>2. \A i \in 1 .. Len(new) : processes'[new[i]]
    BY <2>1, <1>5, <1>8, <1>11, SMTT(30)
  <2>3. QED
    BY <2>2, <1>5, <1>12, <1>13 DEF JobsOf
<1>15. JobsInv'
  BY <1>6, <1>14 DEF JobsInv
<1>16. jobs' = [jobs EXCEPT ![s] = new]
  BY <1>1, <1>6, <1>13, JobsIsFunction
<1>17. Abstract!RunsOn(s)
  BY <1>8, EmptySeq DEF Abstract!RunsOn, Abstract!Last
<1>18. jobs' = [jobs EXCEPT ![s] = Abstract!Front(@)]
  BY <1>16 DEF Abstract!Front
<1>19. QED
  BY <1>4, <1>10, <1>15, <1>17, <1>18 DEF Abstract!Finish

\* halt of a base shell starts the next one under the same pid.
LEMMA HaltBaseShellRefines ==
  ASSUME IInv, IInv', JobsInv, Running, NEW cause, HaltBaseShell(cause)
  PROVE  JobsInv' /\ UNCHANGED <<jobs, cpu>>
<1> DEFINE freed == [processes EXCEPT ![cpu] = FALSE]
<1>1. /\ processes \in [Pid -> BOOLEAN] /\ parent_process_id \in [Pid -> Pid]
      /\ terminal_pcb \in [Terminals -> Pid \cup {NoPid}]
  BY DEF IInv, TypeOK
<1>2. /\ Booted /\ scheduled_terminal \in Terminals /\ cpu \in Pid /\ processes[cpu]
      /\ terminal_pcb[scheduled_terminal] = cpu
      /\ \A t \in Terminals : processes[t]
  BY RunningFinds
<1>3. parent_process_id[cpu] = cpu /\ IsBaseShell(cpu)
  BY <1>2 DEF HaltBaseShell, IInv, ParentWaits, Child
<1>4. FirstFree(freed) = cpu
  <2>1. freed \in [Pid -> BOOLEAN] /\ ~freed[cpu]
    BY <1>1, <1>2
  <2>2. \A q \in 0 .. cpu - 1 : freed[q]
    BY <1>1, <1>2, <1>3, SizesAssumption DEF IsBaseShell, Pid, Terminals
  <2>3. QED
    BY <2>1, <2>2, <1>2, FirstFreeIs
<1>5. /\ processes' = [freed EXCEPT ![cpu] = TRUE]
      /\ parent_process_id' = [parent_process_id EXCEPT ![cpu] = cpu]
      /\ terminal_pcb' = [terminal_pcb EXCEPT ![scheduled_terminal] = cpu]
      /\ cpu' = cpu
  BY <1>2, <1>3, <1>4 DEF HaltBaseShell, StartProgram, NewPcb
<1>6. UNCHANGED <<processes, parent_process_id, terminal_pcb, cpu>>
  BY <1>1, <1>2, <1>3, <1>5
<1>7. QED
  BY <1>6, NoJobsTouched

\* With the saved frames, the scheduler hands the processor to the top of the next
\* stack.
LEMMA SwitchRefines ==
  ASSUME IInv, IInv', FrameInv, FrameInv', JobsInv, SwitchProcess
  PROVE  JobsInv' /\ Abstract!PassOn(scheduled_terminal)
<1> PICK s : s = scheduled_terminal
  OBVIOUS
<1> PICK next : next = NextTerminal(s)
  OBVIOUS
<1>1. s \in Terminals /\ next \in Terminals
  BY NextTerminalInRing DEF IInv, TypeOK
<1>2. /\ terminal_pcb[s] # NoPid /\ terminal_pcb[next] # NoPid /\ cpu # Wild
      /\ cpu' \in {terminal_pcb[next], Wild}
      /\ UNCHANGED <<processes, parent_process_id, terminal_pcb>>
  BY DEF SwitchProcess, Tick, Resume, pcbVars, terminalVars
<1>3. cpu' = terminal_pcb[next]
  BY <1>2 DEF FrameInv, SavedFrames
<1>4. terminal_pcb[s] = cpu
  BY <1>2 DEF IInv, ProcessorServesScheduled
<1>5. JobsInv' /\ UNCHANGED jobs
  BY <1>2, NoJobsTouched
<1>6. /\ jobs[s] # <<>> /\ jobs[s][Len(jobs[s])] = cpu
      /\ jobs[next] # <<>> /\ jobs[next][Len(jobs[next])] = cpu'
  BY <1>1, <1>2, <1>3, <1>4 DEF JobsInv, JobsOf, StackedBelow
<1>7. QED
  BY <1>5, <1>6 DEF Abstract!PassOn, Abstract!RunsOn, Abstract!Last, NextTerminal

LEMMA NextRefines ==
  ASSUME IInv, IInv', FrameInv, FrameInv', JobsInv, [Next]_vars
  PROVE  JobsInv' /\ [Abstract!Next]_(Abstract!vars)
<1>0. scheduled_terminal \in Abstract!Terminals
  BY DEF IInv, TypeOK, Terminals, Abstract!Terminals
<1>1. CASE BootTerminal
  BY <1>0, <1>1, BootRefines DEF Abstract!Next
<1>2. CASE SwitchProcess
  BY <1>0, <1>2, SwitchRefines DEF Abstract!Next
<1>3. CASE Execute
  BY <1>0, <1>3, ExecuteRefines DEF Abstract!Next
<1>4. ASSUME NEW cause \in {"halt", "exception"}, Halt(cause)
      PROVE  JobsInv' /\ [Abstract!Next]_(Abstract!vars)
  <2>1. CASE HaltChild(cause)
    BY <1>0, <1>4, <2>1, HaltChildRefines DEF Halt, Abstract!Next
  <2>2. CASE HaltBaseShell(cause)
    BY <1>4, <2>2, HaltBaseShellRefines DEF Halt, Abstract!vars
  <2>3. QED
    BY <1>4, <2>1, <2>2 DEF Halt
<1>5. CASE \/ SkipToUnbooted
           \/ EnterRead
           \/ LeaveRead
           \/ ExecuteNotElf
           \/ Vidmap
           \/ \E t \in Terminals : SwitchVisible(t)
           \/ UNCHANGED vars
  <2>1. UNCHANGED <<processes, parent_process_id, terminal_pcb, cpu>>
    BY <1>5 DEF SkipToUnbooted, EnterRead, LeaveRead, ExecuteNotElf, Vidmap, SwitchVisible,
                vars, pcbVars, terminalVars
  <2>2. QED
    BY <2>1, NoJobsTouched DEF Abstract!vars
<1>6. QED
  BY <1>1, <1>2, <1>3, <1>4, <1>5 DEF Next, Scheduler

\* scheduler, execute and halt implement the job stacks, for every number of pids
\* and terminals: the pid execute finds is in no stack, its PCB goes on top of the
\* scheduled terminal's, halt takes it off and resumes the process below, and a
\* tick resumes the top of the next terminal's stack.
THEOREM ImplementsStacks ==
  ASSUME QuickBoot
  PROVE  Spec => ImplementsJobStacks
<1>1. Init => FrameInv /\ JobsInv /\ Abstract!Init
  <2> SUFFICES ASSUME Init PROVE FrameInv /\ JobsInv /\ Abstract!Init
    OBVIOUS
  <2>1. FrameInv
    BY SizesAssumption DEF Init, FrameInv, SavedFrames, BootFrame, Terminals, NoPid, Wild
  <2>2. \A t \in Terminals : terminal_pcb[t] = NoPid
    BY DEF Init
  <2>3. JobsInv
    BY <2>2 DEF JobsInv, JobsOf
  <2>4. jobs = [t \in Terminals |-> <<>>]
    BY <2>2, JobsIsFunction
  <2>5. Abstract!Init
    BY <2>4 DEF Init, Abstract!Init, Abstract!NoJob, NoPid, Abstract!Terminals, Terminals
  <2>6. QED
    BY <2>1, <2>3, <2>5
<1>2. IInv /\ FrameInv /\ [Next]_vars => FrameInv'
  BY NextFrameInv
<1>3. IInv /\ IInv' /\ FrameInv /\ FrameInv' /\ JobsInv /\ [Next]_vars =>
        JobsInv' /\ [Abstract!Next]_(Abstract!vars)
  BY NextRefines
<1>4. QED
  BY <1>1, <1>2, <1>3, Invariance, PTL DEF Spec, ImplementsJobStacks, Abstract!Spec

===============================================================================
