------------------------------ MODULE JobQueue ------------------------------
(***************************************************************************)
(* core::job::JobQueue and core::job::GlobalQueue.                         *)
(*                                                                         *)
(* Threads push jobs onto queues; a queue whose job_count_ goes from 0 to  *)
(* 1 is registered with the GlobalQueue, from which worker threads take    *)
(* queues and Execute() them.  One action is one atomic operation of the   *)
(* code: an operation on the atomic counter, a critical section of either  *)
(* mutex, or the boundary of a call to a job.  A job may itself Push.      *)
(***************************************************************************)
EXTENDS Integers, Sequences, FiniteSets

CONSTANTS
  Threads,  \* the threads that call Push, or TryPop and Execute
  Queues,   \* the JobQueue objects
  Jobs,     \* the callables; each is pushed at most once (they are move-only)
  NoJob,
  NoQueue

ASSUME ThreadsFinite == IsFiniteSet(Threads)
ASSUME NoJobIsNotAJob == NoJob \notin Jobs
ASSUME NoQueueIsNotAQueue == NoQueue \notin Queues

VARIABLES
  jobs,       \* jobs_ of each queue
  job_count,  \* job_count_ of each queue
  gq,         \* GlobalQueue::queue_
  ppc,        \* where each thread is in Push: "none", "counted", "register"
  push,       \* the locals of that Push: the queue, the job and prev
  pc,         \* where each thread is in Execute ("idle": not executing)
  cur,        \* the queue it executes
  batch,      \* the local batch
  executed,   \* executed_count
  expired,    \* the clock has passed the deadline of this Execute
  pushed,     \* history: the jobs pushed so far
  finished    \* history: the jobs that have returned, per queue

pushVars == <<ppc, push, pushed>>
execVars == <<pc, cur, batch, executed, expired>>
vars == <<jobs, job_count, gq, pushVars, execVars, finished>>

NoPush == [queue |-> NoQueue, job |-> NoJob, prev |-> 0]

Init ==
  /\ jobs = [q \in Queues |-> <<>>]
  /\ job_count = [q \in Queues |-> 0]
  /\ gq = <<>>
  /\ ppc = [t \in Threads |-> "none"]
  /\ push = [t \in Threads |-> NoPush]
  /\ pc = [t \in Threads |-> "idle"]
  /\ cur = [t \in Threads |-> NoQueue]
  /\ batch = [t \in Threads |-> <<>>]
  /\ executed = [t \in Threads |-> 0]
  /\ expired = [t \in Threads |-> FALSE]
  /\ pushed = {}
  /\ finished = [q \in Queues |-> <<>>]

-----------------------------------------------------------------------------
(* JobQueue::Push *)

\* Mutant: every push registers the queue.
RegistersAlways(prev) == prev >= 0

\* Push registers the queue exactly when the counter went from 0 to 1.
NeedsRegister(prev) == prev = 0

\* prev = job_count_.fetch_add(1).  A thread pushes from outside Execute or
\* from within a job it is running.
PushCount(t, q, j) ==
  /\ ppc[t] = "none"
  /\ pc[t] \in {"idle", "job"}
  /\ j \notin pushed
  /\ pushed' = pushed \cup {j}
  /\ push' = [push EXCEPT ![t] = [queue |-> q, job |-> j, prev |-> job_count[q]]]
  /\ job_count' = [job_count EXCEPT ![q] = @ + 1]
  /\ ppc' = [ppc EXCEPT ![t] = "counted"]
  /\ UNCHANGED <<jobs, gq, execVars, finished>>

\* jobs_.push_back(job) under mutex_, then the test prev == 0.
PushBack(t) ==
  LET q == push[t].queue IN
  /\ ppc[t] = "counted"
  /\ jobs' = [jobs EXCEPT ![q] = Append(@, push[t].job)]
  /\ ppc' = [ppc EXCEPT ![t] = IF NeedsRegister(push[t].prev) THEN "register" ELSE "none"]
  /\ UNCHANGED <<job_count, gq, push, pushed, execVars, finished>>

\* gq_.Push(this)
PushRegister(t) ==
  /\ ppc[t] = "register"
  /\ gq' = Append(gq, push[t].queue)
  /\ ppc' = [ppc EXCEPT ![t] = "none"]
  /\ UNCHANGED <<jobs, job_count, push, pushed, execVars, finished>>

-----------------------------------------------------------------------------
(* A worker's loop: GlobalQueue::TryPop, then JobQueue::Execute(deadline) *)

TryPop(t) ==
  /\ pc[t] = "idle"
  /\ ppc[t] = "none"
  /\ gq # <<>>
  /\ cur' = [cur EXCEPT ![t] = Head(gq)]
  /\ gq' = Tail(gq)
  /\ pc' = [pc EXCEPT ![t] = "swap"]
  /\ expired' = [expired EXCEPT ![t] = FALSE]
  /\ UNCHANGED <<jobs, job_count, pushVars, batch, executed, finished>>

\* Mutant: the unexecuted jobs go to the back.
ReturnToBack(rest, queue) == queue \o rest

\* jobs_.insert(jobs_.begin(), the unexecuted jobs)
ReturnToFront(rest, queue) == rest \o queue

\* The rest of the batch, from batch.begin() + executed_count.
Unexecuted(t) == SubSeq(batch[t], executed[t] + 1, Len(batch[t]))

\* What Execute takes off the counter, and when it then returns.
Processed(t) == executed[t]

\* Mutant: Execute returns with a job left.
OneMayRemain(remaining) == remaining <= 1

NothingRemains(remaining) == remaining <= 0

AfterSwap(taken) == IF taken = <<>> THEN "settle" ELSE "run"

\* batch = std::exchange(jobs_, {}) under mutex_; executed_count = 0.  An empty
\* batch has nothing to run and nothing to give back.
Swap(t) ==
  LET q == cur[t] IN
  /\ pc[t] = "swap"
  /\ batch' = [batch EXCEPT ![t] = jobs[q]]
  /\ jobs' = [jobs EXCEPT ![q] = <<>>]
  /\ executed' = [executed EXCEPT ![t] = 0]
  /\ pc' = [pc EXCEPT ![t] = AfterSwap(jobs[q])]
  /\ UNCHANGED <<job_count, gq, pushVars, cur, expired, finished>>

\* job() is entered ...
JobBegin(t) ==
  /\ pc[t] = "run"
  /\ pc' = [pc EXCEPT ![t] = "job"]
  /\ UNCHANGED <<jobs, job_count, gq, pushVars, cur, batch, executed, expired,
                 finished>>

\* ... and returns: ++executed_count, and the loop breaks once the clock, which
\* never goes back, has reached the deadline.
JobEnd(t) ==
  LET q == cur[t] IN
  /\ pc[t] = "job"
  /\ ppc[t] = "none"
  /\ finished' = [finished EXCEPT ![q] = Append(@, batch[t][executed[t] + 1])]
  /\ executed' = [executed EXCEPT ![t] = @ + 1]
  /\ \E late \in {expired[t], TRUE} :
       /\ expired' = [expired EXCEPT ![t] = late]
       /\ pc' = [pc EXCEPT ![t] = CASE executed[t] + 1 = Len(batch[t]) -> "settle"
                                    [] executed[t] + 1 < Len(batch[t]) /\ late -> "giveback"
                                    [] OTHER -> "run"]
  /\ UNCHANGED <<jobs, job_count, gq, pushVars, cur, batch>>

\* The unexecuted jobs go back to the front of jobs_, under mutex_.
GiveBack(t) ==
  LET q == cur[t] IN
  /\ pc[t] = "giveback"
  /\ jobs' = [jobs EXCEPT ![q] = ReturnToFront(Unexecuted(t), @)]
  /\ pc' = [pc EXCEPT ![t] = "settle"]
  /\ UNCHANGED <<job_count, gq, pushVars, cur, batch, executed, expired, finished>>

\* remaining = job_count_.fetch_sub(processed) - processed; Execute returns when
\* nothing remains.
Settle(t) ==
  LET q == cur[t]
      remaining == job_count[q] - Processed(t) IN
  /\ pc[t] = "settle"
  /\ job_count' = [job_count EXCEPT ![q] = remaining]
  /\ pc' = [pc EXCEPT ![t] = IF NothingRemains(remaining) THEN "idle" ELSE "again"]
  /\ UNCHANGED <<jobs, gq, pushVars, cur, batch, executed, expired, finished>>

\* Past the deadline the queue is registered again and Execute returns;
\* otherwise the loop goes round (after a yield when the batch was empty).
Again(t) ==
  /\ pc[t] = "again"
  /\ \/ /\ gq' = Append(gq, cur[t])
        /\ pc' = [pc EXCEPT ![t] = "idle"]
        /\ expired' = [expired EXCEPT ![t] = TRUE]
     \/ /\ ~expired[t]
        /\ pc' = [pc EXCEPT ![t] = "swap"]
        /\ UNCHANGED <<gq, expired>>
  /\ UNCHANGED <<jobs, job_count, pushVars, cur, batch, executed, finished>>

-----------------------------------------------------------------------------
PushStep(t) == PushBack(t) \/ PushRegister(t)

ExecuteStep(t) ==
  \/ Swap(t) \/ JobBegin(t) \/ JobEnd(t)
  \/ GiveBack(t) \/ Settle(t) \/ Again(t)

Next ==
  \E t \in Threads :
    \/ \E q \in Queues, j \in Jobs : PushCount(t, q, j)
    \/ PushStep(t)
    \/ TryPop(t)
    \/ ExecuteStep(t)

Spec == Init /\ [][Next]_vars

\* A thread that has started Push or Execute keeps running, jobs return, and
\* every worker keeps polling the GlobalQueue.
Fairness ==
  \A t \in Threads : WF_vars(PushStep(t)) /\ WF_vars(ExecuteStep(t)) /\ WF_vars(TryPop(t))

FairSpec == Spec /\ Fairness

-----------------------------------------------------------------------------
(* A queue is owned by whoever will next make it run: the pusher that saw    *)
(* prev == 0, the GlobalQueue entry, or the thread inside Execute.           *)

Registering(t, q) ==
  /\ ppc[t] \in {"counted", "register"}
  /\ push[t].queue = q
  /\ NeedsRegister(push[t].prev)

Queued(q) == \E i \in DOMAIN gq : gq[i] = q

Holds(t, q) == pc[t] # "idle" /\ cur[t] = q

Owned(q) == Queued(q) \/ \E t \in Threads : Holds(t, q) \/ Registering(t, q)

\* The pushes to q that have been counted and not yet appended to jobs_.
Counted(q) == {t \in Threads : ppc[t] = "counted" /\ push[t].queue = q}

\* The jobs thread t has taken out of jobs_ and not yet subtracted.
Unsettled(t) ==
  IF pc[t] \in {"run", "job", "giveback"} THEN Len(batch[t])
  ELSE IF pc[t] = "settle" THEN executed[t] ELSE 0

\* The jobs of t's batch that have not begun.
NotBegun(t) ==
  CASE pc[t] \in {"run", "giveback"} -> Unexecuted(t)
    [] pc[t] = "job" -> Tail(Unexecuted(t))
    [] OTHER -> <<>>

-----------------------------------------------------------------------------
PushRecord == [queue : Queues \cup {NoQueue}, job : Jobs \cup {NoJob}, prev : Int]

\* The types of the variables, with the facts about a thread's locals that its
\* program counter implies.
TypeOK ==
  /\ jobs \in [Queues -> Seq(Jobs)]
  /\ job_count \in [Queues -> Int]
  /\ gq \in Seq(Queues)
  /\ ppc \in [Threads -> {"none", "counted", "register"}]
  /\ push \in [Threads -> PushRecord]
  /\ pc \in [Threads -> {"idle", "swap", "run", "job", "giveback", "settle", "again"}]
  /\ cur \in [Threads -> Queues \cup {NoQueue}]
  /\ batch \in [Threads -> Seq(Jobs)]
  /\ executed \in [Threads -> Nat]
  /\ expired \in [Threads -> BOOLEAN]
  /\ pushed \subseteq Jobs
  /\ finished \in [Queues -> Seq(Jobs)]
  /\ \A t \in Threads :
       /\ ppc[t] # "none" => push[t].queue \in Queues /\ push[t].job \in Jobs
       /\ ppc[t] = "register" => NeedsRegister(push[t].prev)
       /\ pc[t] # "idle" => cur[t] \in Queues
       /\ pc[t] \in {"run", "job", "giveback"} => executed[t] < Len(batch[t])

\* "Only one thread executes jobs at any time" (JobQueue.h): two threads are
\* never inside Execute() of the same queue.
Serialized ==
  \A q \in Queues : \A t, u \in Threads : Holds(t, q) /\ Holds(u, q) => t = u

\* A queue has at most one owner: it is never in the GlobalQueue twice, never
\* both there and inside Execute(), and never registered while it runs.
SingleOwner ==
  \A q \in Queues :
    /\ \A i, j \in DOMAIN gq : gq[i] = q /\ gq[j] = q => i = j
    /\ \A t, u \in Threads :
         /\ Holds(t, q) /\ Holds(u, q) => t = u
         /\ Registering(t, q) /\ Registering(u, q) => t = u
         /\ ~(Holds(t, q) /\ Registering(u, q))
    /\ Queued(q) => \A t \in Threads : ~Holds(t, q) /\ ~Registering(t, q)

\* job_count_ is the number of jobs pushed and not yet settled, wherever they
\* are: being appended, in jobs_, or in the batch of the executing thread.
CountAccounts ==
  \A q \in Queues :
    /\ \A t \in Threads :
         Holds(t, q) => job_count[q] = Len(jobs[q]) + Unsettled(t) + Cardinality(Counted(q))
    /\ (\A t \in Threads : ~Holds(t, q)) => job_count[q] = Len(jobs[q]) + Cardinality(Counted(q))

\* A counted job always has an owner that will run it, and a queue without
\* jobs has none: neither a lost wakeup nor a spurious registration.
OwnedIffCounted == \A q \in Queues : Owned(q) <=> job_count[q] > 0

-----------------------------------------------------------------------------
Runner(q) == {t \in Threads : Holds(t, q)}

\* What has not begun is the rest of the running batch followed by jobs_.
Pending ==
  [q \in Queues |->
     IF Runner(q) = {} THEN jobs[q]
     ELSE NotBegun(CHOOSE t \in Runner(q) : TRUE) \o jobs[q]]

Running ==
  [q \in Queues |->
     IF \E t \in Runner(q) : pc[t] = "job"
     THEN LET t == CHOOSE u \in Runner(q) : pc[u] = "job"
          IN batch[t][executed[t] + 1]
     ELSE NoJob]

\* JobQueue implements SerialExecutor: a job is submitted when it enters jobs_.
Abstract == INSTANCE SerialExecutor WITH pending <- Pending, running <- Running

\* Each queue runs its jobs one at a time, exactly once and in push order, even
\* when a deadline sends half a batch back to the queue.
RunsInPushOrder == Abstract!ASpec

\* Every pushed job eventually returns.
EveryJobRuns ==
  \A j \in Jobs :
    j \in pushed ~> \E q \in Queues : \E i \in DOMAIN finished[q] : finished[q][i] = j
=============================================================================
