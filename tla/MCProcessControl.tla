-------------------------- MODULE MCProcessControl --------------------------
(***************************************************************************)
(* TLC instances of ProcessControl.                                        *)
(***************************************************************************)
EXTENDS ProcessControl

Alive(f, blank) == [p \in Pid |-> IF processes[p] THEN f[p] ELSE blank]

\* A PCB no process owns is initialised by execute before it is read, and a stack
\* pointer is read only if the scheduler switched away from its process, after
\* saving it.  The exception flag and the last exit influence nothing else.  The
\* view leaves all of these out; no property of the run that uses it reads them.
ControlView ==
  <<processes, Alive(parent_process_id, 0), Alive(parent_pcb, 0), Alive(parent_esp, 0),
    Alive(called_vidmap, FALSE),
    [p \in Pid |-> IF context[p] \in {"user", "read"} /\ p # cpu THEN curr_esp[p] ELSE "none"],
    terminalVars, scheduled_terminal, visible_terminal, shell_count,
    tss, user_page, video_page, cpu, context>>

=============================================================================
