----------------------------- MODULE AddressSpaces -----------------------------
(***************************************************************************)
(* What paging promises to the processes and to the users: every process   *)
(* has a program memory of its own, every terminal a console of its own,   *)
(* and showing another terminal changes neither.                           *)
(***************************************************************************)
CONSTANTS Pids, Terminals, Contents

VARIABLES
  program,   \* what the program page of each process holds
  console,   \* what each terminal shows, or would show
  shown,     \* the terminal on the screen
  running    \* the process that runs, and its terminal

vars == <<program, console, shown, running>>

Init ==
  /\ program \in [Pids -> Contents]
  /\ console \in [Terminals -> Contents]
  /\ shown \in Terminals
  /\ running \in Pids \X Terminals

\* A process writes its own memory, and nobody else's; halt of a base shell fills
\* its memory again.
Store(c) ==
  /\ program' = [program EXCEPT ![running[1]] = c]
  /\ UNCHANGED <<console, shown, running>>

\* execute fills the memory of the process it is about to start.
Load(p, c) ==
  /\ p # running[1]
  /\ program' = [program EXCEPT ![p] = c]
  /\ UNCHANGED <<console, shown, running>>

\* write and the keyboard's echo: to the console of the process, to the one shown.
\* A process that writes the video page itself reaches one of these too.
Put(c) ==
  /\ \E t \in {running[2], shown} : console' = [console EXCEPT ![t] = c]
  /\ UNCHANGED <<program, shown, running>>

Show(t) ==
  /\ shown' = t
  /\ UNCHANGED <<program, console, running>>

Run(p, t) ==
  /\ running' = <<p, t>>
  /\ UNCHANGED <<program, console, shown>>

Next ==
  \/ \E c \in Contents : Store(c) \/ Put(c)
  \/ \E p \in Pids, c \in Contents : Load(p, c)
  \/ \E p \in Pids, t \in Terminals : Run(p, t)
  \/ \E t \in Terminals : Show(t)

Spec == Init /\ [][Next]_vars

===============================================================================
