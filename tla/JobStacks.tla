------------------------------- MODULE JobStacks -------------------------------
(***************************************************************************)
(* What process control promises.  Every terminal owns a stack of jobs     *)
(* whose bottom is its base shell; only the job on top of a stack runs; a  *)
(* job that starts another waits under it until that one has finished; and *)
(* the processor is handed round the terminals in turn.                    *)
(***************************************************************************)
EXTENDS Integers, SequencesExt

CONSTANTS
  Jobs,         \* the jobs there can be
  MaxTerminals  \* how many terminals there are

NoJob     == -1
Terminals == 0 .. MaxTerminals - 1

VARIABLES
  jobs,  \* jobs[t]: the stack of terminal t, empty until the terminal is booted
  cpu    \* the job that runs

vars == <<jobs, cpu>>

Init ==
  /\ jobs = [t \in Terminals |-> <<>>]
  /\ cpu = NoJob

Used == UNION {ToSet(jobs[t]) : t \in Terminals}

RunsOn(t) == jobs[t] # <<>> /\ cpu = Last(jobs[t])

\* Terminals are booted in order, each with the base shell of its own number.
Boot(t) ==
  /\ jobs[t] = <<>>
  /\ \A u \in 0 .. t - 1 : jobs[u] # <<>>
  /\ cpu' = t
  /\ jobs' = [jobs EXCEPT ![t] = <<t>>]

Start(t) ==
  /\ RunsOn(t)
  /\ \E job \in Jobs \ Used :
       /\ cpu' = job
       /\ jobs' = [jobs EXCEPT ![t] = Append(@, job)]

\* A base shell never finishes: when it halts, a new one takes its place.
Finish(t) ==
  /\ RunsOn(t)
  /\ Len(jobs[t]) > 1
  /\ cpu' = jobs[t][Len(jobs[t]) - 1]
  /\ jobs' = [jobs EXCEPT ![t] = Front(@)]

PassOn(t) ==
  LET next == (t + 1) % MaxTerminals
  IN  /\ RunsOn(t)
      /\ jobs[next] # <<>>
      /\ cpu' = Last(jobs[next])
      /\ UNCHANGED jobs

Next ==
  \E t \in Terminals :
    \/ Boot(t)
    \/ Start(t)
    \/ Finish(t)
    \/ PassOn(t)

Spec == Init /\ [][Next]_vars

================================================================================
