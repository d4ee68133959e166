---------------------------- MODULE ProcessControl ----------------------------
(***************************************************************************)
(* Process control of the kernel: the PIT scheduler, execute and halt,     *)
(* vidmap, terminal switching, and the processor state they maintain (the  *)
(* TSS, the user program page and the user video page).                    *)
(*                                                                         *)
(* The kernel runs on one processor.  Every IDT entry is an interrupt      *)
(* gate, which turns interrupts off, so a handler or a system call is one  *)
(* step here; the one exception is read, whose first statement is sti.  An *)
(* interrupt can therefore arrive only in user mode, in a process waiting  *)
(* in read, or in the hlt loop the kernel idles in before the first tick.  *)
(*                                                                         *)
(* A PCB lives at an address computed from the pid, and so does the kernel *)
(* stack below which it lies: pcb_t pointers, kernel stack addresses and   *)
(* tss.esp0 are all written as the pid they stand for.                     *)
(***************************************************************************)
EXTENDS Integers, Sequences

CONSTANTS
  MaxProcesses,   \* MAX_PROCESSES in system_calls.h, 6 in the code
  MaxTerminals,   \* MAX_TERMINALS in terminal.h, 3 in the code
  QuickBoot       \* TRUE: no tick finds a base shell outside its first read
                  \* while the other terminals are still being booted

ASSUME SizesAssumption ==
  /\ MaxTerminals \in Nat \ {0}
  /\ MaxProcesses \in Nat
  /\ MaxTerminals <= MaxProcesses
ASSUME QuickBootAssumption == QuickBoot \in BOOLEAN

Pid       == 0 .. MaxProcesses - 1
Terminals == 0 .. MaxTerminals - 1

NoPid     == -1   \* a NULL pointer, the flag -1, or the boot-time temp_pcb / stack
Wild      == -2   \* the processor returned through a frame that is not there
Vga       == -1   \* the user video page shows the physical screen
NotMapped == -2   \* the user video page is not present

VARIABLES
  processes,          \* processes[pid]: the pid is taken
  parent_process_id,  \* pcb->parent_process_id
  parent_pcb,         \* pcb->parent_pcb
  parent_esp,         \* pcb->parent_esp: on whose kernel stack the caller of execute waits
  curr_esp,           \* pcb->curr_esp: depth of the frame the scheduler saved
  called_vidmap,      \* pcb->called_vidmap
  terminal_pcb,       \* terminals[t].terminal_pcb
  last_assigned_pid,  \* terminals[t].last_assigned_pid
  scheduled_terminal,
  visible_terminal,
  shell_count,        \* how many terminals have been booted
  exception_flag,
  tss,                \* whose kernel stack tss.esp0 names
  user_page,          \* whose 4MB frame the page at 128MB maps
  video_page,         \* Vga, the terminal whose background buffer is mapped, or NotMapped
  cpu,                \* whose code the processor executes
  context,            \* where each process is: see Contexts
  last_exit           \* history: how the last child that returned to a parent ended, and
                      \* the value its parent's execute returned

pcbVars      == <<parent_process_id, parent_pcb, parent_esp, called_vidmap>>
terminalVars == <<terminal_pcb, last_assigned_pid>>
vars == <<processes, pcbVars, curr_esp, terminalVars, scheduled_terminal,
          visible_terminal, shell_count, exception_flag, tss, user_page,
          video_page, cpu, context, last_exit>>

\* free: no such process; user: in user mode; read: waiting in the read system
\* call; execute: suspended in the execute call that started its child.
Contexts == {"free", "user", "read", "execute"}

\* The depth of a saved stack pointer: none is the NULL execute stores, temp
\* the one taken from the boot-time temp_pcb.
Depths == {"none", "temp", "user", "read"}

-----------------------------------------------------------------------------

\* init_terminal and the .bss section; the kernel idles in entry's hlt loop.
Init ==
  /\ processes = [p \in Pid |-> FALSE]
  /\ parent_process_id = [p \in Pid |-> 0]
  /\ parent_pcb = [p \in Pid |-> NoPid]
  /\ parent_esp = [p \in Pid |-> NoPid]
  /\ curr_esp = [p \in Pid |-> "none"]
  /\ called_vidmap = [p \in Pid |-> FALSE]
  /\ terminal_pcb = [t \in Terminals |-> NoPid]
  /\ last_assigned_pid = [t \in Terminals |-> NoPid]
  /\ scheduled_terminal = 0
  /\ visible_terminal = 0
  /\ shell_count = 0
  /\ exception_flag = FALSE
  /\ tss = NoPid
  /\ user_page = NoPid
  /\ video_page = NotMapped
  /\ cpu = NoPid
  /\ context = [p \in Pid |-> "free"]
  /\ last_exit = [cause |-> "none", value |-> 0]

Booted == shell_count = MaxTerminals

\* execute: the lowest free pid.
FirstFree(procs) ==
  CHOOSE p \in Pid : ~procs[p] /\ \A q \in 0 .. p - 1 : procs[q]

HasFree(procs) == \E p \in Pid : ~procs[p]

\* Mutant of IsBaseShell: the terminal count compared as if pids started at 1.
IsBaseShellOffByOne(pid) == pid <= MaxTerminals

\* execute: next_pid <= 2 marks the base shell of a terminal.
IsBaseShell(pid) == pid < MaxTerminals

\* set_user_video_page(1): the screen for the visible terminal, its
\* background buffer for any other.
VideoTarget(terminal, visible) == IF visible = terminal THEN Vga ELSE terminal

\* Mutant of SetUserVideoPage: the page is set before the round-robin increment.
SetVideoPageFirst(terminal) == video_page' = VideoTarget(scheduled_terminal, visible_terminal)

SetUserVideoPage(terminal) == video_page' = VideoTarget(terminal, visible_terminal)

\* Mutant of NewPcb: every program is recorded as a child of the terminal's base
\* shell, whoever executed it.
NewPcbOfBaseShell(pid, last, parent, esp) ==
  /\ parent_process_id' =
       [parent_process_id EXCEPT ![pid] = IF IsBaseShell(pid) THEN pid ELSE scheduled_terminal]
  /\ called_vidmap' = [called_vidmap EXCEPT ![pid] = FALSE]
  /\ curr_esp' = [curr_esp EXCEPT ![pid] = IF IsBaseShell(pid) THEN esp ELSE "none"]
  /\ parent_esp' = [parent_esp EXCEPT ![pid] = cpu]
  /\ parent_pcb' = [parent_pcb EXCEPT ![pid] = parent]

(***************************************************************************)
(* execute from the point where the file is known to be an executable.     *)
(* procs is the process table it searches, last and parent the scheduled   *)
(* terminal's last_assigned_pid and terminal_pcb, esp the curr_esp of that *)
(* terminal_pcb.                                                           *)
(***************************************************************************)
NewPcb(pid, last, parent, esp) ==
  /\ parent_process_id' =
       [parent_process_id EXCEPT ![pid] = IF IsBaseShell(pid) THEN pid ELSE last]
  /\ called_vidmap' = [called_vidmap EXCEPT ![pid] = FALSE]
  /\ curr_esp' = [curr_esp EXCEPT ![pid] = IF IsBaseShell(pid) THEN esp ELSE "none"]
  /\ parent_esp' = [parent_esp EXCEPT ![pid] = cpu]
  /\ parent_pcb' = [parent_pcb EXCEPT ![pid] = parent]

StartProgram(procs, last, parent, esp) ==
  LET pid == FirstFree(procs)
  IN  /\ processes' = [procs EXCEPT ![pid] = TRUE]
      /\ NewPcb(pid, last, parent, esp)
      /\ terminal_pcb' = [terminal_pcb EXCEPT ![scheduled_terminal] = pid]
      /\ last_assigned_pid' = [last_assigned_pid EXCEPT ![scheduled_terminal] = pid]
      /\ user_page' = pid
      /\ tss' = pid
      /\ cpu' = pid

-----------------------------------------------------------------------------
(* The scheduler, called by PIT_handler *)

\* A tick is a timer interrupt, so it finds the processor with interrupts on.
\* QuickBoot is the timing the boot sequence relies on.
Tick ==
  /\ cpu # Wild
  /\ QuickBoot /\ shell_count \in 1 .. MaxTerminals - 1 => context[cpu] = "read"

\* First if: the terminal has no process yet, so boot its base shell.
BootTerminal ==
  /\ Tick
  /\ terminal_pcb[scheduled_terminal] = NoPid
  /\ shell_count < MaxTerminals
  /\ HasFree(processes)
  /\ shell_count' = shell_count + 1
  /\ visible_terminal' = scheduled_terminal
  /\ StartProgram(processes, scheduled_terminal, NoPid, "temp")
  /\ context' = [context EXCEPT ![FirstFree(processes)] = "user"]
  /\ UNCHANGED <<scheduled_terminal, exception_flag, video_page, last_exit>>

\* Mutants of NextTerminal: the ring turned backwards, wrapped one short, and not
\* wrapped at all.
PreviousTerminal(t)   == (t + MaxTerminals - 1) % MaxTerminals
NextTerminalShort(t)  == (t + 1) % (MaxTerminals - 1)
NextTerminalNoWrap(t) == IF t + 1 < MaxTerminals THEN t + 1 ELSE t

NextTerminal(t) == (t + 1) % MaxTerminals

\* Mutant of SaveStack: the old stack is not saved.
SaveNothing(pcb) == UNCHANGED curr_esp

\* movl %esp into the PCB of the scheduled terminal.
SaveStack(pcb) == curr_esp' = [curr_esp EXCEPT ![pcb] = context[cpu]]

\* The next terminal is not booted: return to the interrupted process.
SkipToUnbooted ==
  /\ Tick
  /\ terminal_pcb[scheduled_terminal] # NoPid
  /\ terminal_pcb[NextTerminal(scheduled_terminal)] = NoPid
  /\ SaveStack(terminal_pcb[scheduled_terminal])
  /\ scheduled_terminal' = NextTerminal(scheduled_terminal)
  /\ UNCHANGED <<processes, pcbVars, terminalVars, visible_terminal, shell_count,
                 exception_flag, tss, user_page, video_page, cpu, context, last_exit>>

\* Switch stacks.  The processor continues where pcb was interrupted only if the
\* frame at the saved depth is the one it was interrupted in.
Resume(pcb) == IF curr_esp'[pcb] = context[pcb] THEN pcb ELSE Wild

SwitchProcess ==
  LET next == NextTerminal(scheduled_terminal)
      pcb  == terminal_pcb[next]
  IN  /\ Tick
      /\ terminal_pcb[scheduled_terminal] # NoPid
      /\ pcb # NoPid
      /\ SaveStack(terminal_pcb[scheduled_terminal])
      /\ scheduled_terminal' = next
      /\ SetUserVideoPage(next)
      /\ user_page' = pcb
      /\ tss' = pcb
      /\ cpu' = Resume(pcb)
      /\ UNCHANGED <<processes, pcbVars, terminalVars, visible_terminal,
                     shell_count, exception_flag, context, last_exit>>

Scheduler == BootTerminal \/ SkipToUnbooted \/ SwitchProcess

-----------------------------------------------------------------------------
(* System calls and exceptions of the running process *)

\* The base shells do nothing but wait for a line until the keyboard is enabled,
\* which the boot of the last terminal does.
UserMode == cpu \in Pid /\ context[cpu] = "user"
Running  == UserMode /\ Booted

\* read: sti, then wait in terminal_read or RTC_read, or copy file data.
EnterRead ==
  /\ UserMode
  /\ context' = [context EXCEPT ![cpu] = "read"]
  /\ UNCHANGED <<processes, pcbVars, curr_esp, terminalVars, scheduled_terminal,
                 visible_terminal, shell_count, exception_flag, tss, user_page,
                 video_page, cpu, last_exit>>

LeaveRead ==
  /\ cpu \in Pid /\ context[cpu] = "read" /\ Booted
  /\ context' = [context EXCEPT ![cpu] = "user"]
  /\ UNCHANGED <<processes, pcbVars, curr_esp, terminalVars, scheduled_terminal,
                 visible_terminal, shell_count, exception_flag, tss, user_page,
                 video_page, cpu, last_exit>>

\* execute of an executable file while a pid is free (with none free, or for a
\* name that is not in the directory, execute returns -1 and changes nothing).
Execute ==
  LET pcb == terminal_pcb[scheduled_terminal]
  IN  /\ Running
      /\ HasFree(processes)
      /\ StartProgram(processes, last_assigned_pid[scheduled_terminal], pcb, curr_esp[pcb])
      /\ context' = [context EXCEPT ![cpu] = "execute", ![FirstFree(processes)] = "user"]
      /\ UNCHANGED <<scheduled_terminal, visible_terminal, shell_count,
                     exception_flag, video_page, last_exit>>

\* Mutant of ExecuteNotElf: the error path forgets to map the old page back.
ExecuteNotElfNoRestore ==
  /\ Running
  /\ HasFree(processes)
  /\ user_page' = FirstFree(processes)
  /\ UNCHANGED <<processes, pcbVars, curr_esp, terminalVars, scheduled_terminal,
                 visible_terminal, shell_count, exception_flag, tss,
                 video_page, cpu, context, last_exit>>

\* execute of a file that is not an executable: by then the program page maps the
\* new pid, so it is mapped back to the terminal's last assigned pid.
ExecuteNotElf ==
  /\ Running
  /\ HasFree(processes)
  /\ user_page' = last_assigned_pid[scheduled_terminal]
  /\ UNCHANGED <<processes, pcbVars, curr_esp, terminalVars, scheduled_terminal,
                 visible_terminal, shell_count, exception_flag, tss,
                 video_page, cpu, context, last_exit>>

\* Mutant of ExitValue: the status halt_wrapper passes instead of 256.
ExitValueOfWrapper(flag) == IF flag THEN 255 ELSE 0

\* The value a parent's execute returns: 256 stands for an exception, 0 for any
\* status the child passed to halt.
ExitValue(flag) == IF flag THEN 256 ELSE 0

\* halt of a base shell: free its pid and execute a new shell at once, on its
\* kernel stack.  The flag an exception raised is not looked at on this path.
HaltBaseShell(cause) ==
  LET pcb   == terminal_pcb[scheduled_terminal]
      freed == [processes EXCEPT ![pcb] = FALSE]
  IN  /\ parent_process_id[pcb] = pcb
      /\ exception_flag' = (exception_flag \/ cause = "exception")
      /\ StartProgram(freed, pcb, pcb, curr_esp[pcb])
      /\ context' = [context EXCEPT ![pcb] = "free", ![FirstFree(freed)] = "user"]
      /\ UNCHANGED <<scheduled_terminal, visible_terminal, shell_count,
                     video_page, last_exit>>

\* halt of any other process: give terminal, pages and TSS back to the parent and
\* jump into the execute frame it waits in.
HaltChild(cause) ==
  LET pcb    == terminal_pcb[scheduled_terminal]
      parent == parent_process_id[pcb]
      waiter == parent_esp[pcb]
  IN  /\ parent # pcb
      /\ processes' = [processes EXCEPT ![pcb] = FALSE]
      /\ last_assigned_pid' = [last_assigned_pid EXCEPT ![scheduled_terminal] = parent]
      /\ user_page' = parent
      /\ tss' = parent
      /\ IF called_vidmap[parent_pcb[pcb]]
         THEN SetUserVideoPage(scheduled_terminal)
         ELSE UNCHANGED video_page
      /\ terminal_pcb' = [terminal_pcb EXCEPT ![scheduled_terminal] = parent_pcb[pcb]]
      /\ exception_flag' = FALSE
      /\ last_exit' = [cause |-> cause,
                       value |-> ExitValue(exception_flag \/ cause = "exception")]
      /\ cpu' = waiter
      /\ context' = [context EXCEPT ![pcb] = "free", ![waiter] = "user"]
      /\ UNCHANGED <<pcbVars, curr_esp, scheduled_terminal, visible_terminal, shell_count>>

\* The halt system call, and halt_wrapper after a processor exception.
Halt(cause) == Running /\ (HaltBaseShell(cause) \/ HaltChild(cause))

\* vidmap with a pointer into the program page (any other pointer is refused).
Vidmap ==
  /\ Running
  /\ called_vidmap' = [called_vidmap EXCEPT ![tss] = TRUE]
  /\ SetUserVideoPage(scheduled_terminal)
  /\ UNCHANGED <<processes, parent_process_id, parent_pcb, parent_esp, curr_esp,
                 terminalVars, scheduled_terminal, visible_terminal, shell_count,
                 exception_flag, tss, user_page, cpu, context, last_exit>>

\* keyboard_handler on Alt+F1..F3.
SwitchVisible(t) ==
  /\ cpu # Wild /\ Booted
  /\ t # visible_terminal
  /\ visible_terminal' = t
  /\ UNCHANGED <<processes, pcbVars, curr_esp, terminalVars, scheduled_terminal,
                 shell_count, exception_flag, tss, user_page, video_page, cpu,
                 context, last_exit>>

-----------------------------------------------------------------------------

Next ==
  \/ Scheduler
  \/ EnterRead
  \/ LeaveRead
  \/ Execute
  \/ ExecuteNotElf
  \/ \E cause \in {"halt", "exception"} : Halt(cause)
  \/ Vidmap
  \/ \E t \in Terminals : SwitchVisible(t)

Spec == Init /\ [][Next]_vars

\* The timer ticks for ever, and under QuickBoot a base shell reaches its read.
FairSpec == Spec /\ WF_vars(Scheduler) /\ WF_vars(EnterRead /\ ~Booted)

-----------------------------------------------------------------------------
(* Properties *)

\* The type invariant of the module's state (the globals of terminal.h, paging.h,
\* idt.h and the PCB of system_calls.h).
TypeOK ==
  /\ processes \in [Pid -> BOOLEAN]
  /\ parent_process_id \in [Pid -> Pid]
  /\ parent_pcb \in [Pid -> Pid \cup {NoPid}]
  /\ parent_esp \in [Pid -> Pid \cup {NoPid}]
  /\ curr_esp \in [Pid -> Depths]
  /\ called_vidmap \in [Pid -> BOOLEAN]
  /\ terminal_pcb \in [Terminals -> Pid \cup {NoPid}]
  /\ last_assigned_pid \in [Terminals -> Pid \cup {NoPid}]
  /\ scheduled_terminal \in Terminals
  /\ visible_terminal \in Terminals
  /\ shell_count \in 0 .. MaxTerminals
  /\ exception_flag \in BOOLEAN
  /\ tss \in Pid \cup {NoPid}
  /\ user_page \in Pid \cup {NoPid}
  /\ video_page \in Terminals \cup {Vga, NotMapped}
  /\ cpu \in Pid \cup {NoPid, Wild}
  /\ context \in [Pid -> Contexts]
  /\ last_exit \in [cause : {"none", "halt", "exception"}, value : {0, 256}]

\* The terminals are booted in order and no pid is taken by anything but their
\* base shells until all are; afterwards the base pids stay taken for ever,
\* because halt replaces a base shell in the same step (scheduler, execute, halt).
BootOrder ==
  /\ \A t \in Terminals : terminal_pcb[t] = NoPid <=> t >= shell_count
  /\ \A t \in 0 .. shell_count - 1 : processes[t]
  /\ ~Booted =>
       /\ \A p \in Pid : processes[p] <=> p < shell_count
       /\ \A t \in 0 .. shell_count - 1 : terminal_pcb[t] = t
       /\ scheduled_terminal \in {shell_count - 1, shell_count}
       /\ cpu = shell_count - 1

\* The processor runs one live process that waits for nobody, on its own kernel
\* stack and in its own page, and the scheduled terminal, once it is booted,
\* names that process both times it records one.  halt takes the process from
\* terminal_pcb, execute's error path the page from last_assigned_pid, and every
\* other system call the PCB from tss.esp0: this is what makes them agree.
ProcessorServesScheduled ==
  /\ cpu \in Pid =>
       /\ processes[cpu]
       /\ context[cpu] \in {"user", "read"}
       /\ tss = cpu
       /\ user_page = cpu
  /\ terminal_pcb[scheduled_terminal] # NoPid /\ cpu # Wild =>
       /\ terminal_pcb[scheduled_terminal] = cpu
       /\ last_assigned_pid[scheduled_terminal] = cpu

Child(p) == processes[p] /\ ~IsBaseShell(p)

\* Every child has a live parent that waits for it and for nobody else in the
\* execute call that started it, and the three records halt uses to go back
\* (parent_process_id, parent_pcb and the stack parent_esp points into) agree.
ParentWaits ==
  /\ \A p \in Pid : processes[p] /\ IsBaseShell(p) => parent_process_id[p] = p
  /\ \A p \in Pid : Child(p) =>
       LET parent == parent_process_id[p]
       IN  /\ parent # p
           /\ processes[parent]
           /\ context[parent] = "execute"
           /\ parent_pcb[p] = parent
           /\ parent_esp[p] = parent
  /\ \A p, q \in Pid : Child(p) /\ Child(q) /\ p # q => parent_process_id[p] # parent_process_id[q]

\* A taken pid is either on top of exactly one terminal, ready to run, or waits in
\* execute for a child of its own: no process is lost, and a free pid is on top
\* of no terminal.
NoProcessLost ==
  /\ \A p \in Pid : processes[p] <=> context[p] # "free"
  /\ \A t \in Terminals : terminal_pcb[t] # NoPid => context[terminal_pcb[t]] \in {"user", "read"}
  /\ \A t, u \in Terminals : t # u /\ terminal_pcb[t] # NoPid => terminal_pcb[t] # terminal_pcb[u]
  /\ \A p \in Pid : context[p] \in {"user", "read"} => \E t \in Terminals : terminal_pcb[t] = p
  /\ \A p \in Pid : context[p] = "execute" => \E q \in Pid : Child(q) /\ parent_process_id[q] = p

\* The stack pointer the scheduler will load for a terminal it switched away from
\* is the one its process was interrupted at.  scheduler.c says of its save that
\* it "properly sets up first base shell's ESP/EBP".
SavedFrames ==
  /\ cpu # Wild
  /\ \A t \in Terminals :
       LET pcb == terminal_pcb[t]
       IN  pcb # NoPid /\ pcb # cpu => curr_esp[pcb] = context[pcb]

\* A process that draws through vidmap's page never draws into the background
\* buffer of a terminal it does not run on (set_user_video_page).
NoForeignBuffer == video_page \in {NotMapped, Vga, scheduled_terminal}

\* system_calls.c: "Check for exceptions and return 256 if so".  A parent's execute
\* returns 256 exactly when its child ended by an exception.
ExceptionReported == last_exit.value = 256 <=> last_exit.cause = "exception"

\* Stacks(parent)[p]: p on top of its ancestors.  A base shell is its own parent,
\* and no stack is higher than there are pids.
Stacks(parent) ==
  LET stack[depth \in 0 .. MaxProcesses] ==
        [p \in Pid |-> IF depth = 0 \/ parent[p] = p
                       THEN <<p>>
                       ELSE Append(stack[depth - 1][parent[p]], p)]
  IN  stack[MaxProcesses]

\* The job stack of a terminal, read off the PCBs: its terminal_pcb and the
\* parents that wait below it, the base shell first.
jobs ==
  LET stacks == Stacks(parent_process_id)
  IN  [t \in Terminals |-> IF terminal_pcb[t] = NoPid THEN <<>> ELSE stacks[terminal_pcb[t]]]

Abstract == INSTANCE JobStacks WITH Jobs <- Pid

\* scheduler, execute and halt implement the job stacks.
ImplementsJobStacks == Abstract!Spec

\* The boot sequence gets to the last terminal (scheduler).
BootCompletes == <>Booted

\* Round-robin: every terminal's process gets the processor again and again,
\* whatever the others do (scheduler).
EveryTerminalRuns == \A t \in Terminals : []<>(cpu = terminal_pcb[t] /\ cpu # NoPid)

===============================================================================
