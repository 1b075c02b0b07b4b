------------------------------- MODULE Worker -------------------------------
(***************************************************************************)
(* A Worker and its Listener (src/runtime/io/Worker.cpp, Listener.cpp):    *)
(* the loop on the worker's thread, multishot accept, the session limit,   *)
(* and Stop() on another thread.  A session is its place in the life cycle *)
(* of module SessionLifecycle; the ring delivers posted tasks in order     *)
(* (module IoRing).  Stop() is called once, from outside the worker.       *)
(***************************************************************************)
EXTENDS Integers, Sequences, FiniteSets, Functions

CONSTANTS
  Clients,          \* connections that may arrive
  MaxSessions,      \* max_sessions_; 0 is no limit
  SubmitBatch,      \* submit_batch_size; 1 submits at once
  CqeBudget,        \* cqe_batch_budget: completions handled per round; 0 is all
  FinalRounds,      \* the dispatch rounds after the loop (8 in the code)
  MaxFailures       \* bound: accepts that end with an error, SQEs that cannot be had

ASSUME WorkerSizes ==
  /\ IsFiniteSet(Clients)
  /\ MaxSessions \in Nat /\ SubmitBatch \in Nat \ {0}
  /\ CqeBudget \in Nat /\ FinalRounds \in Nat \ {0} /\ MaxFailures \in Nat

VARIABLES
  \* the worker object
  up,               \* ring_ exists
  running,          \* running_
  ctl,              \* where the thread that owns the Worker is
  timed_out,        \* WaitForZeroSessions(drain_timeout) returned false
  at_stop,          \* the sessions there were when Stop was called
  \* the worker's thread
  loop, round,      \* where it is in Run
  posted, batch,    \* posted tasks; those ProcessPostedTasks has taken
  handled,          \* count of Dispatch, while there is a budget
  drained,          \* history: a final round left the completion queue empty
  \* the listener
  listen_fd,        \* listen_fd_ is valid
  accept_ev,        \* active_accept_ev_ is set
  cancel_requested, \* accept_cancel_requested_
  \* the kernel
  sq, cq,           \* prepared and not submitted; completions
  armed,            \* the multishot accept is in the kernel
  failures,
  client            \* of every client: where its connection is

ctlVars == <<up, running, ctl, timed_out, at_stop>>
countVars == <<handled, drained>>
loopVars == <<loop, round, batch, countVars>>
listenVars == <<listen_fd, accept_ev, cancel_requested>>
kernelVars == <<sq, cq, armed, failures>>
vars == <<ctlVars, loopVars, posted, listenVars, kernelVars, client>>

\* The sessions in the SessionManager.
Live == {"open", "closing"}
Sessions == {c \in Clients : client[c] \in Live}

Init ==
  /\ up = FALSE /\ running = FALSE /\ ctl = "created"
  /\ timed_out = FALSE /\ at_stop = {}
  /\ loop = "none" /\ round = 0 /\ posted = <<>> /\ batch = <<>>
  /\ handled = 0 /\ drained = FALSE
  /\ listen_fd = FALSE /\ accept_ev = FALSE /\ cancel_requested = FALSE
  /\ sq = <<>> /\ cq = <<>> /\ armed = FALSE /\ failures = 0
  /\ client = [c \in Clients |-> "away"]

-----------------------------------------------------------------------------
(* The kernel *)

Accepted(c, more) == [kind |-> "accept", who |-> c, more |-> more]
AcceptError(more) == [kind |-> "error", more |-> more]
CancelDone == [kind |-> "cancel"]
Completion(c, kind) == [kind |-> kind, who |-> c]

\* io_uring_submit of the entries s, with the completions q already there: a
\* cancel ends the accept it finds.
Entered(q, s) ==
  LET accepts == armed \/ "accept" \in Range(s)
      cancels == "cancel" \in Range(s)
  IN /\ armed' = (accepts /\ ~cancels)
     /\ cq' = q \o (IF cancels /\ accepts THEN <<AcceptError(FALSE)>> ELSE <<>>)
                \o (IF cancels THEN <<CancelDone>> ELSE <<>>)
     /\ sq' = <<>>

\* IoRing::Submit after an entry was prepared.
SubmitEntry(q, e) ==
  \/ Entered(q, Append(sq, e))
  \/ /\ SubmitBatch > 1
     /\ sq' = Append(sq, e)
     /\ cq' = q
     /\ UNCHANGED armed

\* Whether an SQE can be had.
SqeFull == /\ failures < MaxFailures
           /\ failures' = failures + 1

Connects(c) ==
  /\ client[c] = "away"
  /\ up /\ loop # "done"
  /\ client' = [client EXCEPT ![c] = "waiting"]
  /\ UNCHANGED <<ctlVars, loopVars, posted, listenVars, kernelVars>>

\* The multishot accept takes a connection; it may end with it.
KernelAccepts(c) ==
  /\ armed /\ client[c] = "waiting"
  /\ client' = [client EXCEPT ![c] = "accepted"]
  /\ \E more \in BOOLEAN : /\ armed' = more
                           /\ cq' = Append(cq, Accepted(c, more))
  /\ UNCHANGED <<ctlVars, loopVars, posted, listenVars, sq, failures>>

KernelAcceptFails ==
  /\ armed
  /\ failures < MaxFailures
  /\ failures' = failures + 1
  /\ armed' = FALSE
  /\ cq' = Append(cq, AcceptError(FALSE))
  /\ UNCHANGED <<ctlVars, loopVars, posted, listenVars, sq, client>>

\* The peer closes an open session; the last operation of a closing one ends.
SessionCompletes(c) ==
  /\ client[c] \in Live
  /\ \A i \in DOMAIN cq : cq[i].kind \in {"eof", "last"} => cq[i].who # c
  /\ cq' = Append(cq, Completion(c, IF client[c] = "open" THEN "eof" ELSE "last"))
  /\ UNCHANGED <<ctlVars, loopVars, posted, listenVars, sq, armed, failures, client>>

-----------------------------------------------------------------------------
(* The listener *)

\* Listener::RegisterAccept, with no accept outstanding
RegisterAccept(q) ==
  \/ /\ accept_ev' = TRUE
     /\ SubmitEntry(q, "accept")
     /\ UNCHANGED failures
  \/ /\ SqeFull
     /\ accept_ev' = FALSE
     /\ cq' = q
     /\ UNCHANGED <<sq, armed>>

\* Listener::Stop
ListenerStop ==
  /\ listen_fd' = FALSE
  /\ UNCHANGED accept_ev
  /\ IF accept_ev /\ ~cancel_requested
     THEN \/ /\ cancel_requested' = TRUE
             /\ SubmitEntry(cq, "cancel")
             /\ UNCHANGED failures
          \/ /\ SqeFull
             /\ UNCHANGED <<cancel_requested, sq, cq, armed>>
     ELSE UNCHANGED <<cancel_requested, kernelVars>>

AtCapacity == MaxSessions > 0 /\ Cardinality(Sessions) >= MaxSessions

\* Listener::OnAccept(fd): refused at the limit, when the socket cannot be
\* set up, or when the factory declines.
OnAcceptFd(c) ==
  \/ client' = [client EXCEPT ![c] = "refused"]
  \/ /\ ~AtCapacity
     /\ client' = [client EXCEPT ![c] = "open"]

Ends(e) == ~e.more

EventAfter(e) == accept_ev /\ e.more

\* Listener::OnAccept(event, result, flags)
OnAccept(e) ==
  /\ cancel_requested' = (cancel_requested /\ e.more)
  /\ IF e.kind = "accept" THEN OnAcceptFd(e.who) ELSE UNCHANGED client
  /\ IF Ends(e) /\ listen_fd
     THEN RegisterAccept(Tail(cq))
     ELSE /\ accept_ev' = EventAfter(e)
          /\ cq' = Tail(cq)
          /\ UNCHANGED <<sq, armed, failures>>

-----------------------------------------------------------------------------
(* The worker's thread: Worker::Run *)

Goto(where) == /\ loop' = where
               /\ UNCHANGED round

LoopTest ==
  /\ loop = "test"
  /\ Goto(IF running THEN "post1" ELSE "last_post")
  /\ UNCHANGED <<ctlVars, batch, countVars, posted, listenVars, kernelVars, client>>

\* IoRing::ProcessPostedTasks takes what has been posted, then runs it.
TakesPosted == {"post1", "post2", "last_post", "final_post"}
RunsTasks == {"tasks1", "tasks2", "last_tasks", "final_tasks"}
TasksOf == [post1 |-> "tasks1", post2 |-> "tasks2",
            last_post |-> "last_tasks", final_post |-> "final_tasks"]

TakePosted ==
  /\ loop \in TakesPosted
  /\ batch' = posted
  /\ posted' = <<>>
  /\ Goto(TasksOf[loop])
  /\ UNCHANGED <<ctlVars, countVars, listenVars, kernelVars, client>>

\* Session::Disconnect on every session that has not begun to close.
Disconnected(S) == [c \in Clients |-> IF c \in S /\ client[c] = "open" THEN "closing" ELSE client[c]]

RunTask ==
  /\ loop \in RunsTasks /\ batch # <<>>
  /\ batch' = Tail(batch)
  /\ CASE Head(batch) = "stop"  -> ListenerStop /\ UNCHANGED client
       [] Head(batch) = "drain" -> client' = Disconnected(Clients) /\ UNCHANGED <<listenVars, kernelVars>>
       [] Head(batch) = "noop"  -> UNCHANGED <<listenVars, kernelVars, client>>
  /\ UNCHANGED <<ctlVars, loop, round, countVars, posted>>

RoundsDone(r) == r >= FinalRounds

TasksDone ==
  /\ loop \in RunsTasks /\ batch = <<>>
  /\ CASE loop = "tasks1" -> Goto("flush")
       [] loop = "tasks2" -> Goto("tick")
       [] OTHER -> /\ loop' = IF RoundsDone(round) THEN "done" ELSE "final_flush"
                   /\ round' = round + 1
  /\ UNCHANGED <<ctlVars, batch, countVars, posted, listenVars, kernelVars, client>>

\* IoRing::Dispatch: submit what is prepared, then handle completions, all there
\* are or as many as the budget allows.  Those of the ring itself, of its wake
\* poll and of MSG_RING, count too: some number of them, found out at once.
DispatchFlush ==
  /\ loop \in {"flush", "final_flush"}
  /\ Entered(cq, sq)
  /\ handled' \in 0..CqeBudget
  /\ Goto(IF loop = "flush" THEN "cqes" ELSE "final_cqes")
  /\ UNCHANGED <<ctlVars, batch, drained, posted, listenVars, failures, client>>

Dispatches == {"cqes", "final_cqes"}

BudgetSpent == CqeBudget # 0 /\ handled >= CqeBudget

\* ++count
Count == handled' = IF CqeBudget = 0 THEN 0 ELSE handled + 1

HandleAccept ==
  /\ loop \in Dispatches /\ cq # <<>> /\ ~BudgetSpent
  /\ Head(cq).kind \in {"accept", "error"}
  /\ OnAccept(Head(cq))
  /\ Count
  /\ UNCHANGED <<ctlVars, loop, round, batch, drained, posted, listen_fd>>

\* Listener::OnCancel does nothing; a session's completion closes it, or, when
\* it was the last, releases it from the SessionManager.
HandleOther ==
  /\ loop \in Dispatches /\ cq # <<>> /\ ~BudgetSpent
  /\ Head(cq).kind \in {"cancel", "eof", "last"}
  /\ cq' = Tail(cq)
  /\ client' = CASE Head(cq).kind = "eof"  -> Disconnected({Head(cq).who})
                 [] Head(cq).kind = "last" -> [client EXCEPT ![Head(cq).who] = "released"]
                 [] OTHER -> client
  /\ Count
  /\ UNCHANGED <<ctlVars, loop, round, batch, drained, posted, listenVars, sq, armed, failures>>

DispatchDone ==
  /\ loop \in Dispatches
  /\ cq = <<>> \/ BudgetSpent
  /\ handled' = 0
  /\ drained' = (drained \/ (loop = "final_cqes" /\ cq = <<>>))
  /\ Goto(IF loop = "cqes" THEN "post2" ELSE "final_post")
  /\ UNCHANGED <<ctlVars, batch, posted, listenVars, kernelVars, client>>

\* Session::Tick may disconnect sessions; then the tick hook.
Tick ==
  /\ loop = "tick"
  /\ \E S \in SUBSET Sessions : client' = Disconnected(S)
  /\ Goto("test")
  /\ UNCHANGED <<ctlVars, batch, countVars, posted, listenVars, kernelVars>>

-----------------------------------------------------------------------------
(* The thread that owns the Worker *)

\* Worker::Start when the ring, the listener and every extra listener start.
Start ==
  /\ ctl = "created"
  /\ up' = TRUE /\ running' = TRUE
  /\ ctl' = "started"
  /\ listen_fd' = TRUE
  /\ accept_ev' = TRUE
  /\ SubmitEntry(cq, "accept")
  /\ loop' = "test"
  /\ UNCHANGED <<timed_out, at_stop, round, batch, countVars, posted, cancel_requested,
                 failures, client>>

\* Worker::Start otherwise: listener and ring are gone again.
StartFails ==
  /\ ctl = "created"
  /\ ctl' = "stopped"
  /\ UNCHANGED <<up, running, timed_out, at_stop, loopVars, posted, listenVars, kernelVars, client>>

Posts(task, from, to) ==
  /\ ctl = from
  /\ ctl' = to
  /\ posted' = Append(posted, task)

StopAccepting ==
  /\ Posts("stop", "started", "draining")
  /\ at_stop' = Sessions
  /\ UNCHANGED <<up, running, timed_out, loopVars, listenVars, kernelVars, client>>

DrainSessions ==
  /\ \/ Posts("drain", "draining", "waiting")
     \/ Posts("drain", "forcing", "waiting_forced")
  /\ UNCHANGED <<up, running, timed_out, at_stop, loopVars, listenVars, kernelVars, client>>

\* Mutant: sessions that have begun to close are not counted.
NoneOpen == \A c \in Clients : client[c] # "open"

NoSessions == Sessions = {}

\* Mutant: the wait has no deadline.
WaitsForever ==
  /\ ctl \in {"waiting", "waiting_forced"}
  /\ NoSessions
  /\ ctl' = "halting"
  /\ UNCHANGED <<up, running, timed_out, at_stop, loopVars, posted, listenVars, kernelVars, client>>

\* Worker::WaitForZeroSessions sees no session, or its deadline passes.
WaitForZeroSessions ==
  \/ /\ ctl \in {"waiting", "waiting_forced"}
     /\ NoSessions
     /\ ctl' = "halting"
     /\ UNCHANGED <<up, running, timed_out, at_stop, loopVars, posted, listenVars, kernelVars, client>>
  \/ /\ ctl \in {"waiting", "waiting_forced"}
     /\ ~NoSessions
     /\ ctl' = IF ctl = "waiting" THEN "forcing" ELSE "halting"
     /\ timed_out' = TRUE
     /\ UNCHANGED <<up, running, at_stop, loopVars, posted, listenVars, kernelVars, client>>

Halt ==
  /\ running' = FALSE
  /\ Posts("noop", "halting", "joining")
  /\ UNCHANGED <<up, timed_out, at_stop, loopVars, listenVars, kernelVars, client>>

\* The thread has ended; the listener and the ring are destroyed, and the
\* SessionManager drops the sessions it still has.
Join ==
  /\ ctl = "joining"
  /\ loop = "done"
  /\ ctl' = "stopped"
  /\ up' = FALSE
  /\ client' = [c \in Clients |-> IF c \in Sessions THEN "dropped" ELSE client[c]]
  /\ UNCHANGED <<running, timed_out, at_stop, loopVars, posted, listenVars, kernelVars>>

-----------------------------------------------------------------------------
Control ==
  \/ StopAccepting \/ DrainSessions \/ WaitForZeroSessions \/ Halt \/ Join

LoopStep ==
  \/ LoopTest \/ TakePosted \/ RunTask \/ TasksDone \/ DispatchFlush
  \/ HandleAccept \/ HandleOther \/ DispatchDone \/ Tick

Kernel ==
  \/ \E c \in Clients : Connects(c) \/ KernelAccepts(c) \/ SessionCompletes(c)
  \/ KernelAcceptFails

Next == Start \/ StartFails \/ Control \/ LoopStep \/ Kernel

Spec == Init /\ [][Next]_vars

\* The loop's thread and the stopping thread run; Dispatch waits at most
\* io_timeout and WaitForZeroSessions at most its timeout.
FairSpec == Spec /\ WF_vars(Control) /\ WF_vars(LoopStep)

-----------------------------------------------------------------------------
(* Properties *)

Entries ==
  [kind : {"accept"}, who : Clients, more : BOOLEAN]
    \cup [kind : {"error"}, more : BOOLEAN]
    \cup [kind : {"cancel"}]
    \cup [kind : {"eof", "last"}, who : Clients]

ClientStates == Live \cup {"away", "waiting", "accepted", "refused", "released", "dropped"}

\* Every variable has its type, and the final rounds of Run are counted.
TypeOK ==
  /\ up \in BOOLEAN /\ running \in BOOLEAN /\ timed_out \in BOOLEAN
  /\ ctl \in {"created", "started", "draining", "waiting", "forcing", "waiting_forced",
              "halting", "joining", "stopped"}
  /\ at_stop \subseteq Clients
  /\ loop \in {"none", "test", "flush", "cqes", "tick", "final_flush", "final_cqes", "done"}
              \cup TakesPosted \cup RunsTasks
  /\ round \in 0..(FinalRounds + 1)
  /\ handled \in 0..CqeBudget /\ drained \in BOOLEAN
  /\ posted \in Seq({"stop", "drain", "noop"}) /\ batch \in Seq({"stop", "drain", "noop"})
  /\ listen_fd \in BOOLEAN /\ accept_ev \in BOOLEAN /\ cancel_requested \in BOOLEAN
  /\ sq \in Seq({"accept", "cancel"}) /\ cq \in Seq(Entries) /\ armed \in BOOLEAN
  /\ failures \in 0..MaxFailures
  /\ client \in [Clients -> ClientStates]

\* Listener::active_accept_ev_ is set exactly while its event is owned by the
\* kernel: prepared, armed, or with its final completion not yet handled.  So
\* Stop cancels a live event and RegisterAccept never arms a second accept.
\* While the listening socket is open it is set: OnAccept registers the
\* multishot accept again whenever it ends, unless no SQE was to be had.
ListenerArmed ==
  LET finals == {i \in DOMAIN cq : cq[i].kind \in {"accept", "error"} /\ ~cq[i].more}
      queued == {i \in DOMAIN sq : sq[i] = "accept"}
  IN /\ Cardinality(finals) + Cardinality(queued) + (IF armed THEN 1 ELSE 0)
          = IF accept_ev THEN 1 ELSE 0
     /\ listen_fd /\ failures = 0 => accept_ev

\* OnAccept(fd) never lets the SessionManager exceed max_sessions_, sessions
\* that are still closing included.
SessionLimit == MaxSessions > 0 => Cardinality(Sessions) <= MaxSessions

\* Once Run has returned no accept can complete any more: the cancel of
\* Listener::Stop has been submitted.  And no accepted socket is left in the
\* completion queue, where nobody would close it, if one of the final rounds
\* emptied the queue; without a budget each of them does.  With one, as many
\* sockets as the final rounds had no budget for may be left.
AcceptedSocketsHandled ==
  loop = "done" /\ failures = 0 =>
    /\ ~armed /\ sq = <<>>
    /\ CqeBudget = 0 \/ drained => \A c \in Clients : client[c] # "accepted"

\* When WaitForZeroSessions returned true in time, every session that existed
\* when Stop was called has been released in the regular way: OnDisconnected ran
\* and the SessionManager let go of it.
SessionsAtStopReleased ==
  ctl \in {"halting", "joining", "stopped"} /\ ~timed_out =>
    \A c \in at_stop : client[c] = "released"

\* Stop forgets nobody: the listener is armed or stopped as it believes, every
\* accepted socket became a session or was closed, unless the budget for
\* completions ran out in every final round, and the sessions alive at Stop were
\* released.
StopHandlesAll ==
  /\ TypeOK /\ ListenerArmed /\ SessionLimit
  /\ AcceptedSocketsHandled /\ SessionsAtStopReleased

\* Stop() drains: unless a wait timed out, no session the worker accepted is
\* still in the SessionManager, undisconnected or unreleased, when Stop destroys
\* the ring.
StopDrainsSessions ==
  ctl = "stopped" /\ ~timed_out => \A c \in Clients : client[c] # "dropped"

\* Stop() returns, whatever the sessions do: each wait has a deadline and the
\* loop leaves once running_ is false.
StopReturns == ctl = "draining" ~> ctl = "stopped"
=============================================================================
