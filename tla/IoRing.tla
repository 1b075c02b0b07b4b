------------------------------- MODULE IoRing -------------------------------
(***************************************************************************)
(* The event loop of a worker and the ways other threads hand it work:     *)
(* IoRing::Dispatch, Post, RunOnRing and ProcessPostedTasks                *)
(* (src/runtime/ring/IoRing.cpp), run in the order of Worker::Run.         *)
(*                                                                         *)
(* Every ring has an owner thread, which has the ring's name.  Externals   *)
(* are threads without a ring.  A task is posted through posted_ and the   *)
(* eventfd, or sent as a MSG_RING completion by a thread that has a ring.  *)
(* The kernel may deliver messages in any order.                           *)
(***************************************************************************)
EXTENDS Integers, Sequences, FiniteSets, Functions

CONSTANTS
  Rings, Externals, Tasks,
  NoRing,           \* no thread or ring
  QueueDepth,       \* entries of a submission ring
  SubmitBatch,      \* submit_batch_size_
  CqeBudget,        \* cqe_batch_budget_, 0 for no limit
  MaxFailures,      \* bound: calls of io_uring_submit that return an error
  MaxIo             \* bound: operations prepared on one ring

ASSUME RingSizes == QueueDepth \in Nat \ {0} /\ SubmitBatch \in Nat \ {0} /\ CqeBudget \in Nat
ASSUME Bounds == MaxFailures \in Nat /\ MaxIo \in Nat
ASSUME RingNames == NoRing \notin Rings \cup Externals

Threads == Rings \cup Externals

VARIABLES
  pc,               \* where the owner is in Worker::Run
  app,              \* the owner is in a task, a handler or a tick
  count,            \* completions handled in this Dispatch
  tasks,            \* the tasks ProcessPostedTasks has taken
  posted,           \* posted_
  wake_fd,          \* the eventfd is readable
  armed,            \* wake_poll_armed_
  unflushed,        \* pending_submissions_
  sq,               \* entries prepared and not submitted
  polls, ios, msgs, \* what the kernel holds: wake polls, operations, messages
  cq,               \* completions not yet handled
  waking,           \* the ring a thread has posted to and not yet woken
  source, refused,  \* who sent a task; tasks whose sender was told FALSE
  postLog, ran,     \* history: tasks in the order posted, and run
  prepared, failures \* operations prepared and submits failed so far

loopVars == <<pc, app, count, tasks>>
kernelVars == <<polls, ios, msgs, cq, failures>>
ringVars == <<wake_fd, armed, unflushed, sq, prepared>>
taskVars == <<source, refused, postLog, ran>>
vars == <<loopVars, posted, kernelVars, ringVars, waking, taskVars>>

NoSqes == [polls |-> 0, ios |-> 0, msgs |-> {}]
Cqe(kind) == [kind |-> kind, task |-> "none"]
TaskCqe(k) == [kind |-> "task", task |-> k]

Init ==
  /\ pc = [r \in Rings |-> "process1"]
  /\ app = [r \in Rings |-> FALSE]
  /\ count = [r \in Rings |-> 0]
  /\ tasks = [r \in Rings |-> <<>>]
  /\ posted = [r \in Rings |-> <<>>]
  /\ wake_fd = [r \in Rings |-> FALSE]
  /\ armed = [r \in Rings |-> TRUE]
  /\ unflushed = [r \in Rings |-> 0]
  /\ sq = [r \in Rings |-> NoSqes]
  /\ polls = [r \in Rings |-> 1]
  /\ ios = [r \in Rings |-> 0]
  /\ msgs = {}
  /\ cq = [r \in Rings |-> <<>>]
  /\ waking = [t \in Threads |-> NoRing]
  /\ source = [k \in Tasks |-> NoRing]
  /\ refused = {}
  /\ postLog = [r \in Rings |-> <<>>]
  /\ ran = [r \in Rings |-> <<>>]
  /\ prepared = [r \in Rings |-> 0]
  /\ failures = 0

-----------------------------------------------------------------------------
(* Submission *)

SqesOf(entries) == entries.polls + entries.ios + Cardinality(entries.msgs)

\* io_uring_get_sqe finds a free entry.
HasSqe(r) == SqesOf(sq[r]) < QueueDepth

SubmitResults == IF failures < MaxFailures THEN BOOLEAN ELSE {TRUE}

\* io_uring_submit with these entries in the ring: the kernel takes all of
\* them, or the call fails and they stay.
IoUringSubmit(r, entries, ok) ==
  IF ok
  THEN /\ sq' = [sq EXCEPT ![r] = NoSqes]
       /\ polls' = [polls EXCEPT ![r] = @ + entries.polls]
       /\ ios' = [ios EXCEPT ![r] = @ + entries.ios]
       /\ msgs' = msgs \cup entries.msgs
       /\ UNCHANGED failures
  ELSE /\ sq' = [sq EXCEPT ![r] = entries]
       /\ failures' = failures + 1
       /\ UNCHANGED <<polls, ios, msgs>>

\* FlushSubmissions, with n submissions pending.
FlushSubmissions(r, entries, n, ok) ==
  IF n = 0
  THEN /\ sq' = [sq EXCEPT ![r] = entries]
       /\ UNCHANGED <<unflushed, polls, ios, msgs, failures>>
  ELSE /\ unflushed' = [unflushed EXCEPT ![r] = 0]
       /\ IoUringSubmit(r, entries, ok)

\* Submit, after an operation was prepared.
Submit(r, entries, ok) ==
  IF unflushed[r] + 1 < SubmitBatch
  THEN /\ sq' = [sq EXCEPT ![r] = entries]
       /\ unflushed' = [unflushed EXCEPT ![r] = @ + 1]
       /\ UNCHANGED <<polls, ios, msgs, failures>>
  ELSE FlushSubmissions(r, entries, unflushed[r] + 1, ok)

-----------------------------------------------------------------------------
(* The owner: Worker::Run *)

At(r, where) == pc[r] = where /\ ~app[r] /\ waking[r] = NoRing
Goto(r, where) == pc' = [pc EXCEPT ![r] = where]
EnterApp(r) == app' = [app EXCEPT ![r] = TRUE]
Ran(r, k) == ran' = [ran EXCEPT ![r] = Append(@, k)]

\* Mutant: the posted tasks are copied.
CopyPosted(r) == UNCHANGED posted

TakePosted(r) == posted' = [posted EXCEPT ![r] = <<>>]

\* ProcessPostedTasks swaps posted_ out under post_mutex_ ...
ProcessPostedTasks(r) ==
  /\ At(r, "process1") \/ At(r, "process2")
  /\ tasks' = [tasks EXCEPT ![r] = posted[r]]
  /\ TakePosted(r)
  /\ Goto(r, IF pc[r] = "process1" THEN "run1" ELSE "run2")
  /\ UNCHANGED <<app, count, kernelVars, ringVars, waking, taskVars>>

\* ... and runs them one after the other.
RunTask(r) ==
  /\ At(r, "run1") \/ At(r, "run2")
  /\ tasks[r] # <<>>
  /\ tasks' = [tasks EXCEPT ![r] = Tail(@)]
  /\ Ran(r, Head(tasks[r]))
  /\ EnterApp(r)
  /\ UNCHANGED <<pc, count, posted, kernelVars, ringVars, waking, source, refused, postLog>>

\* After the second batch of tasks the sessions and the tick hook run.
TasksDone(r) ==
  /\ tasks[r] = <<>>
  /\ \/ /\ At(r, "run1")
        /\ Goto(r, "flush")
        /\ UNCHANGED app
     \/ /\ At(r, "run2")
        /\ Goto(r, "tick")
        /\ EnterApp(r)
  /\ UNCHANGED <<count, tasks, posted, kernelVars, ringVars, waking, taskVars>>

\* The task, handler or tick returns.
AppReturns(r) ==
  /\ app[r]
  /\ waking[r] = NoRing
  /\ app' = [app EXCEPT ![r] = FALSE]
  /\ IF pc[r] = "tick" THEN Goto(r, "process1") ELSE UNCHANGED pc
  /\ UNCHANGED <<count, tasks, posted, kernelVars, ringVars, waking, taskVars>>

\* Dispatch: FlushSubmissions.
DispatchFlush(r) ==
  /\ At(r, "flush")
  /\ \E ok \in SubmitResults : FlushSubmissions(r, sq[r], unflushed[r], ok)
  /\ Goto(r, "arm1")
  /\ UNCHANGED <<app, count, tasks, posted, cq, wake_fd, armed, prepared, waking, taskVars>>

\* Dispatch: ArmWakePoll, before the wait and again after the completions.  A
\* full ring or a failed submit leaves it to the next Dispatch.
ArmWakePoll(r) ==
  /\ At(r, "arm1") \/ At(r, "arm2")
  /\ \/ /\ ~armed[r] /\ HasSqe(r)
        /\ \E ok \in SubmitResults :
             /\ IoUringSubmit(r, [sq[r] EXCEPT !.polls = @ + 1], ok)
             /\ armed' = [armed EXCEPT ![r] = ok]
     \/ /\ armed[r] \/ ~HasSqe(r)
        /\ UNCHANGED <<sq, polls, ios, msgs, failures, armed>>
  /\ Goto(r, IF pc[r] = "arm1" THEN "wait" ELSE "process2")
  /\ UNCHANGED <<app, count, tasks, posted, cq, wake_fd, unflushed, prepared, waking, taskVars>>

\* io_uring_wait_cqe_timeout returns with a completion ...
WaitReturns(r) ==
  /\ At(r, "wait")
  /\ cq[r] # <<>>
  /\ Goto(r, "drain")
  /\ count' = [count EXCEPT ![r] = 0]
  /\ UNCHANGED <<app, tasks, posted, kernelVars, ringVars, waking, taskVars>>

\* ... or at its timeout: Dispatch returns at once.
WaitTimesOut(r) ==
  /\ At(r, "wait")
  /\ cq[r] = <<>>
  /\ Goto(r, "process2")
  /\ UNCHANGED <<app, count, tasks, posted, kernelVars, ringVars, waking, taskVars>>

BudgetSpent(r) == CqeBudget # 0 /\ count[r] >= CqeBudget

\* Mutant: the poll is thought armed after it has fired.
WakeStaysArmed(r) == /\ wake_fd' = [wake_fd EXCEPT ![r] = FALSE]
                     /\ UNCHANGED armed

\* The completion of the wake poll: it is disarmed and the eventfd drained.
OnWake(r) == /\ armed' = [armed EXCEPT ![r] = FALSE]
             /\ wake_fd' = [wake_fd EXCEPT ![r] = FALSE]

\* Dispatch handles one completion: a task sent by message is run, the wake
\* poll is drained, any other event calls its handler.
HandleCqe(r) ==
  LET c == Head(cq[r]) IN
  /\ At(r, "drain")
  /\ cq[r] # <<>> /\ ~BudgetSpent(r)
  /\ cq' = [cq EXCEPT ![r] = Tail(@)]
  /\ count' = [count EXCEPT ![r] = IF CqeBudget = 0 THEN 0 ELSE @ + 1]
  /\ \/ c.kind = "task" /\ Ran(r, c.task) /\ EnterApp(r) /\ UNCHANGED <<armed, wake_fd>>
     \/ c.kind = "wake" /\ OnWake(r) /\ UNCHANGED <<ran, app>>
     \/ c.kind = "io" /\ EnterApp(r) /\ UNCHANGED <<ran, armed, wake_fd>>
  /\ UNCHANGED <<pc, tasks, posted, polls, ios, msgs, failures, unflushed, sq, prepared, waking,
                 source, refused, postLog>>

DrainEnds(r) ==
  /\ At(r, "drain")
  /\ cq[r] = <<>> \/ BudgetSpent(r)
  /\ Goto(r, "arm2")
  /\ UNCHANGED <<app, count, tasks, posted, kernelVars, ringVars, waking, taskVars>>

-----------------------------------------------------------------------------
(* Threads that send work: external ones at any time, owners from a task, a
   handler or a tick *)

MaySend(t) == waking[t] = NoRing /\ (t \in Rings => app[t])
Unsent(k) == source[k] = NoRing
SentBy(t, k) == source' = [source EXCEPT ![k] = t]

\* After the push, a thread other than the owner goes on to Wake().
ThenWakes(t, r) == waking' = [waking EXCEPT ![t] = IF t = r THEN NoRing ELSE r]

\* posted_.push_back under post_mutex_
PushPosted(r, k) == posted' = [posted EXCEPT ![r] = Append(@, k)]

Post(t, r, k) ==
  /\ MaySend(t) /\ Unsent(k)
  /\ PushPosted(r, k)
  /\ ThenWakes(t, r)
  /\ SentBy(t, k)
  /\ postLog' = [postLog EXCEPT ![r] = Append(@, k)]
  /\ UNCHANGED <<loopVars, kernelVars, ringVars, refused, ran>>

\* Wake writes the eventfd.
Wake(t) ==
  /\ waking[t] # NoRing
  /\ wake_fd' = [wake_fd EXCEPT ![waking[t]] = TRUE]
  /\ waking' = [waking EXCEPT ![t] = NoRing]
  /\ UNCHANGED <<loopVars, posted, kernelVars, armed, unflushed, sq, prepared, taskVars>>

\* RunOnRing on the owner's thread runs the task inline.
RunOnRingInline(r, k) ==
  /\ MaySend(r) /\ Unsent(k)
  /\ Ran(r, k)
  /\ SentBy(r, k)
  /\ UNCHANGED <<loopVars, posted, kernelVars, ringVars, waking, refused, postLog>>

\* Mutant: RunOnRing does not look at the result of the submit.
SubmitErrorIgnored(k, ok) == refused

\* A failed submit is reported to the sender.
RefusedAfter(k, ok) == IF ok THEN refused ELSE refused \cup {k}

\* RunOnRing on the thread of another ring prepares and submits a MSG_RING
\* on that ring.  On failure it deletes the task and returns FALSE, but the
\* prepared entry stays in the ring.
RunOnRingMessage(t, r, k) ==
  /\ t # r
  /\ MaySend(t) /\ Unsent(k)
  /\ SentBy(t, k)
  /\ \/ /\ ~HasSqe(t)
        /\ refused' = refused \cup {k}
        /\ UNCHANGED <<sq, polls, ios, msgs, failures>>
     \/ /\ HasSqe(t)
        /\ \E ok \in SubmitResults :
             /\ IoUringSubmit(t, [sq[t] EXCEPT !.msgs = @ \cup {[to |-> r, task |-> k]}], ok)
             /\ refused' = RefusedAfter(k, ok)
  /\ UNCHANGED <<loopVars, posted, cq, wake_fd, armed, unflushed, prepared, waking, postLog, ran>>

\* A handler prepares an operation and calls Submit.
PrepareIo(r) ==
  /\ r \in Rings /\ MaySend(r)
  /\ prepared[r] < MaxIo
  /\ HasSqe(r)
  /\ prepared' = [prepared EXCEPT ![r] = @ + 1]
  /\ \E ok \in SubmitResults : Submit(r, [sq[r] EXCEPT !.ios = @ + 1], ok)
  /\ UNCHANGED <<loopVars, posted, cq, wake_fd, armed, waking, taskVars>>

-----------------------------------------------------------------------------
(* The kernel *)

PollFires(r) ==
  /\ polls[r] > 0 /\ wake_fd[r]
  /\ polls' = [polls EXCEPT ![r] = @ - 1]
  /\ cq' = [cq EXCEPT ![r] = Append(@, Cqe("wake"))]
  /\ UNCHANGED <<loopVars, posted, ios, msgs, failures, ringVars, waking, taskVars>>

IoCompletes(r) ==
  /\ ios[r] > 0
  /\ ios' = [ios EXCEPT ![r] = @ - 1]
  /\ cq' = [cq EXCEPT ![r] = Append(@, Cqe("io"))]
  /\ UNCHANGED <<loopVars, posted, polls, msgs, failures, ringVars, waking, taskVars>>

MessageArrives(m) ==
  /\ m \in msgs
  /\ msgs' = msgs \ {m}
  /\ cq' = [cq EXCEPT ![m.to] = Append(@, TaskCqe(m.task))]
  /\ UNCHANGED <<loopVars, posted, polls, ios, failures, ringVars, waking, taskVars>>

-----------------------------------------------------------------------------
OwnerStep(r) ==
  \/ ProcessPostedTasks(r) \/ RunTask(r) \/ TasksDone(r) \/ AppReturns(r)
  \/ DispatchFlush(r) \/ ArmWakePoll(r) \/ WaitReturns(r) \/ HandleCqe(r) \/ DrainEnds(r)

SenderStep(t) ==
  \/ Wake(t)
  \/ PrepareIo(t)
  \/ \E k \in Tasks, r \in Rings :
       \/ Post(t, r, k)
       \/ t = r /\ RunOnRingInline(r, k)
       \/ t \in Rings /\ RunOnRingMessage(t, r, k)

KernelStep == \/ \E r \in Rings : PollFires(r) \/ IoCompletes(r)
              \/ \E m \in msgs : MessageArrives(m)

Next ==
  \/ \E r \in Rings : OwnerStep(r) \/ WaitTimesOut(r)
  \/ \E t \in Threads : SenderStep(t)
  \/ KernelStep

Spec == Init /\ [][Next]_vars

\* Threads are scheduled and the kernel posts completions.  Nothing is said
\* about the timeout of the wait.
Fairness ==
  /\ \A r \in Rings : WF_vars(OwnerStep(r)) /\ WF_vars(PollFires(r))
  /\ \A t \in Threads : WF_vars(Wake(t))
  /\ WF_vars(\E m \in msgs : MessageArrives(m))

FairSpec == Spec /\ Fairness

\* A wait ends at its timeout.
Timely == \A r \in Rings : WF_vars(WaitTimesOut(r))

-----------------------------------------------------------------------------
(* Properties *)

Stages == {"process1", "run1", "flush", "arm1", "wait", "drain", "arm2", "process2", "run2", "tick"}
Messages == [to : Rings, task : Tasks]
Sqes == [polls : Nat, ios : Nat, msgs : SUBSET Messages]
Cqes == [kind : {"wake", "io"}, task : {"none"}] \cup [kind : {"task"}, task : Tasks]

\* The types of the variables.  Fewer submissions are pending than a batch.
TypeOK ==
  /\ pc \in [Rings -> Stages]
  /\ app \in [Rings -> BOOLEAN]
  /\ count \in [Rings -> 0 .. CqeBudget]
  /\ tasks \in [Rings -> Seq(Tasks)]
  /\ posted \in [Rings -> Seq(Tasks)]
  /\ wake_fd \in [Rings -> BOOLEAN]
  /\ armed \in [Rings -> BOOLEAN]
  /\ unflushed \in [Rings -> 0 .. SubmitBatch - 1]
  /\ sq \in [Rings -> Sqes]
  /\ polls \in [Rings -> Nat] /\ ios \in [Rings -> Nat]
  /\ msgs \subseteq Messages
  /\ cq \in [Rings -> Seq(Cqes)]
  /\ waking \in [Threads -> Rings \cup {NoRing}]
  /\ source \in [Tasks -> Threads \cup {NoRing}]
  /\ refused \subseteq Tasks
  /\ postLog \in [Rings -> Seq(Tasks)] /\ ran \in [Rings -> Seq(Tasks)]
  /\ prepared \in [Rings -> 0 .. MaxIo] /\ failures \in 0 .. MaxFailures

Occurrences(k, s) == Cardinality({i \in DOMAIN s : s[i] = k})

\* The number of places where a task waits to be run or has been run.
Places(k, r) ==
  Occurrences(k, posted[r]) + Occurrences(k, tasks[r]) + Occurrences(k, ran[r])
  + Occurrences(TaskCqe(k), cq[r])
  + Cardinality({m \in msgs : m = [to |-> r, task |-> k]})

\* A task that was accepted is in exactly one place of one ring, from the call
\* of Post or RunOnRing until after it ran: none is lost between posted_, the
\* owner's batch, the message and the completion queue, and none runs twice.
TaskAccounted ==
  \A k \in Tasks : ~Unsent(k) /\ k \notin refused =>
    \E r \in Rings : /\ Places(k, r) = 1
                     /\ \A s \in Rings \ {r} : Places(k, s) = 0

WakePolls(r) == polls[r] + Occurrences(Cqe("wake"), cq[r])

\* wake_poll_armed_ says truly whether a wake poll is with the kernel or has
\* completed and not been handled: never none believed to be one, and, unless
\* io_uring_submit failed, never two.
WakePollExact ==
  \A r \in Rings :
    /\ armed[r] => WakePolls(r) >= 1
    /\ failures = 0 => WakePolls(r) = IF armed[r] THEN 1 ELSE 0

\* "Posted work wakes the target ring" (docs/runtime-architecture.md): unless
\* io_uring_submit failed, an owner never waits in Dispatch while posted_ holds
\* another thread's task, except when the wakeup is on its way.
PostedWorkWakes ==
  \A r \in Rings :
    /\ failures = 0
    /\ pc[r] = "wait"
    /\ \E i \in DOMAIN posted[r] : source[posted[r][i]] # r
    => \/ \E t \in Threads : waking[t] = r
       \/ cq[r] # <<>>
       \/ wake_fd[r] /\ polls[r] > 0

\* Whatever the handlers prepared, in batches or not, is with the kernel when
\* the owner waits, unless io_uring_submit failed.
SubmittedBeforeWait == \A r \in Rings : pc[r] = "wait" /\ failures = 0 => sq[r] = NoSqes

\* The tasks posted to a ring run in the order they were posted, whatever runs
\* between them: when one runs, every task posted before it has run.
PostsRunInOrder ==
  \A r \in Rings : \A n \in DOMAIN ran[r], b \in DOMAIN postLog[r] :
    ran[r][n] = postLog[r][b] => \A a \in 1 .. b - 1 : \E m \in 1 .. n - 1 : ran[r][m] = postLog[r][a]

\* A task handed over by Post or RunOnRing is in one place until it has run, and
\* posted tasks run in order.
TasksInOrder == TypeOK /\ TaskAccounted /\ PostsRunInOrder

\* An owner that waits in Dispatch has submitted what was prepared, and the wake
\* poll or a completion will wake it for what was posted.
WaitsAwake == PostedWorkWakes /\ SubmittedBeforeWait /\ WakePollExact

\* "... do not wait for the dispatch timeout": as long as submissions succeed, a
\* task another thread hands to a ring is run although no wait ever times out.
CrossThreadTasksRun ==
  [](failures = 0) =>
    \A k \in Tasks, r \in Rings :
      (~Unsent(k) /\ source[k] # r /\ Places(k, r) > 0) ~> (k \in Range(ran[r]))

\* With timeouts, a task accepted in any way is run, even if submissions fail:
\* what RunOnRing reports as sent is sent.
AcceptedTasksRun ==
  Timely =>
    \A k \in Tasks :
      (~Unsent(k) /\ k \notin refused) ~> (\E r \in Rings : k \in Range(ran[r]))

\* Both: a wakeup is never needed twice, and no accepted task is forgotten.
TasksRun == CrossThreadTasksRun /\ AcceptedTasksRun
=============================================================================
