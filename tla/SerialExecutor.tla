--------------------------- MODULE SerialExecutor ---------------------------
(***************************************************************************)
(* What core::job::JobQueue promises its users: every queue runs the jobs  *)
(* pushed to it one at a time, each exactly once, in the order in which    *)
(* they were pushed.  Which thread runs a job is not visible here.         *)
(***************************************************************************)
EXTENDS Sequences

CONSTANTS
  Queues,   \* the JobQueue objects
  Jobs,     \* the move-only callables that may be pushed
  NoJob     \* "nothing is running"

VARIABLES
  pending,  \* pending[q]: the pushed jobs that have not started, oldest first
  running,  \* running[q]: the job that is executing, or NoJob
  finished  \* finished[q]: the jobs that have returned, oldest first

aVars == <<pending, running, finished>>

AInit ==
  /\ pending = [q \in Queues |-> <<>>]
  /\ running = [q \in Queues |-> NoJob]
  /\ finished = [q \in Queues |-> <<>>]

Submit(q, j) ==
  /\ pending' = [pending EXCEPT ![q] = Append(@, j)]
  /\ UNCHANGED <<running, finished>>

Begin(q) ==
  /\ running[q] = NoJob
  /\ pending[q] # <<>>
  /\ running' = [running EXCEPT ![q] = Head(pending[q])]
  /\ pending' = [pending EXCEPT ![q] = Tail(@)]
  /\ UNCHANGED finished

Finish(q) ==
  /\ running[q] # NoJob
  /\ finished' = [finished EXCEPT ![q] = Append(@, running[q])]
  /\ running' = [running EXCEPT ![q] = NoJob]
  /\ UNCHANGED pending

ANext == \E q \in Queues : Begin(q) \/ Finish(q) \/ \E j \in Jobs : Submit(q, j)

ASpec == AInit /\ [][ANext]_aVars
=============================================================================
