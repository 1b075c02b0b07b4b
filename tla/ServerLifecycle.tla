-------------------------- MODULE ServerLifecycle --------------------------
(***************************************************************************)
(* Start and Stop of WebServer, TcpProxyServer, AcmeHttpChallengeServer    *)
(* and WorkerPool over several Workers, each with a thread of its own: the *)
(* thread that calls Stop posts tasks to the workers, polls their session  *)
(* counts until a timeout, then stops them one after another.  A stopped   *)
(* server may be started again.  A worker is modelled as far as that needs; *)
(* its own module has the details.                                         *)
(***************************************************************************)
EXTENDS Integers, Sequences, FiniteSets

CONSTANTS Count,        \* worker_count
          MaxSessions,  \* bound on the sessions accepted
          MaxStops      \* bound on the calls of Stop

VARIABLE v

(* v.kind: "web" for WebServer and TcpProxyServer, "pool" for WorkerPool   *)
(* and the ACME server; v.running: running_ (of WorkerPool, that workers_  *)
(* is not empty); v.pc, v.at: where the caller of Start or Stop is, and at *)
(* which worker.  v.worker[w]: up (its thread runs), accepting, ready      *)
(* (accepts that completed before the listener stopped and are yet to be   *)
(* dispatched), posted (tasks of its ring), open and closing (sessions).   *)
(* History since Start: lost, sessions destroyed with their ring; timed,   *)
(* workers that the waits gave up on; late, workers that accepted after    *)
(* Stop was called: a count of zero read before the posted StopAccepting   *)
(* ran says nothing of those.                                              *)
Idle == [up |-> FALSE, accepting |-> FALSE, ready |-> 0, posted |-> <<>>,
         open |-> 0, closing |-> 0]

InitWith(kind) ==
    v = [kind |-> kind, running |-> FALSE, pc |-> "idle", at |-> 0, accepts |-> MaxSessions,
         worker |-> [w \in 1..Count |-> Idle], lost |-> {}, timed |-> {}, late |-> {}, stops |-> 0]

Init == \E kind \in {"web", "pool"} : InitWith(kind)

Up == {w \in 1..Count : v.worker[w].up}
Sessions(w) == v.worker[w].open + v.worker[w].closing

Goto(pc, at) == [v EXCEPT !.pc = pc, !.at = at]

(* StopAccepting or DrainSessions of some workers. *)
Post(x, ws, task) ==
    [x EXCEPT !.worker = [w \in 1..Count |->
        IF w \in ws THEN [x.worker[w] EXCEPT !.posted = Append(@, task)] ELSE x.worker[w]]]

(* Start.  A worker that cannot listen is left out.  The proxy may fail to *)
(* resolve a name or to load its certificate first: that ends as a Start   *)
(* whose workers all fail.                                                 *)
Start ==
    /\ v.pc = "idle" /\ ~v.running /\ v.stops < MaxStops
    /\ v' = [Goto("starting", 1) EXCEPT !.running = TRUE,
                                        !.lost = {}, !.timed = {}, !.late = {}]

StartWorker ==
    /\ v.pc = "starting" /\ v.at <= Count
    /\ \E ok \in BOOLEAN :
        v' = [Goto("starting", v.at + 1) EXCEPT
                !.worker[v.at] = IF ok THEN [Idle EXCEPT !.up = TRUE, !.accepting = TRUE] ELSE @]

(* Mutant: running_ stays set. *)
StartedAnyhow ==
    /\ v.pc = "starting" /\ v.at > Count
    /\ v' = Goto("idle", 0)

Started ==
    /\ v.pc = "starting" /\ v.at > Count
    /\ v' = [Goto("idle", 0) EXCEPT !.running = (Up # {})]

(* Stop, of a running server; a pool goes to its workers at once. *)
Stop ==
    /\ v.pc = "idle" /\ v.running
    /\ LET x == [v EXCEPT !.running = FALSE, !.stops = @ + 1]
           posted == Post(Post(x, Up, "stop_accepting"), Up, "drain")
       IN  v' = IF v.kind = "pool" THEN [x EXCEPT !.pc = "stop_worker", !.at = 1]
                ELSE [posted EXCEPT !.pc = "wait"]

(* WaitForZeroSessions of the server: once, and once more after a forced   *)
(* drain.                                                                  *)
Wait ==
    /\ v.pc \in {"wait", "wait_forced"}
    /\ \/ /\ \A w \in Up : Sessions(w) = 0
          /\ v' = Goto("stop_worker", 1)
       \/ /\ v.pc = "wait"
          /\ v' = [Post(v, Up, "drain") EXCEPT !.pc = "wait_forced"]
       \/ /\ v.pc = "wait_forced"
          /\ v' = Goto("stop_worker", 1)

(* Worker::Stop of the worker at hand: the same once more for it alone. *)
StopWorker ==
    /\ v.pc = "stop_worker"
    /\ v' = IF v.at > Count THEN Goto("idle", 0)
            ELSE IF v.at \notin Up THEN Goto("stop_worker", v.at + 1)
            ELSE [Post(Post(v, {v.at}, "stop_accepting"), {v.at}, "drain") EXCEPT
                    !.pc = "wait_worker"]

(* Mutant: the worker is joined without waiting for its sessions. *)
DoNotWait ==
    /\ v.pc \in {"wait_worker", "wait_worker_forced"}
    /\ v' = Goto("join", v.at)

WaitWorker ==
    /\ v.pc \in {"wait_worker", "wait_worker_forced"}
    /\ \/ /\ Sessions(v.at) = 0
          /\ v' = Goto("join", v.at)
       \/ /\ v.pc = "wait_worker"
          /\ v' = [Post(v, {v.at}, "drain") EXCEPT !.pc = "wait_worker_forced"]
       \/ /\ v.pc = "wait_worker_forced"
          /\ v' = [Goto("join", v.at) EXCEPT !.timed = @ \cup {v.at}]

(* The thread leaves Run after its posted tasks, and is joined; the ring   *)
(* goes with what is left in it.                                           *)
Join ==
    /\ v.pc = "join" /\ v.worker[v.at].posted = <<>>
    /\ v' = [Goto("stop_worker", v.at + 1) EXCEPT
               !.worker[v.at] = Idle,
               !.lost = IF Sessions(v.at) > 0 THEN @ \cup {v.at} ELSE @]

-----------------------------------------------------------------------------
(* The thread of a worker: a posted task, an accepted connection, and the  *)
(* last completion of a session.                                           *)
RunPosted(w) ==
    LET k == v.worker[w]
    IN  /\ k.posted # <<>>
        /\ \/ /\ Head(k.posted) = "drain"
              /\ v' = [v EXCEPT !.worker[w] =
                         [k EXCEPT !.posted = Tail(k.posted),
                                   !.closing = k.closing + k.open, !.open = 0]]
           \/ /\ Head(k.posted) = "stop_accepting"
              /\ \E ready \in {k.ready} \cup (IF k.accepting THEN 0..1 ELSE {}) :
                   v' = [v EXCEPT !.worker[w] =
                           [k EXCEPT !.posted = Tail(k.posted), !.accepting = FALSE, !.ready = ready]]

(* The listener's own accept, or one that completed before it stopped. *)
Accept(w) ==
    LET k == v.worker[w]
    IN  /\ v.accepts > 0
        /\ k.accepting \/ k.ready > 0
        /\ v' = [v EXCEPT !.accepts = v.accepts - 1,
                          !.worker[w] = [k EXCEPT !.open = k.open + 1,
                                                  !.ready = k.ready - (IF k.accepting THEN 0 ELSE 1)],
                          !.late = v.late \cup (IF v.pc \in {"idle", "starting"} THEN {} ELSE {w})]

Disconnects(w) ==
    LET k == v.worker[w]
    IN  /\ k.open > 0
        /\ v' = [v EXCEPT !.worker[w] = [k EXCEPT !.open = k.open - 1, !.closing = k.closing + 1]]

Release(w) ==
    LET k == v.worker[w]
    IN  /\ k.closing > 0
        /\ v' = [v EXCEPT !.worker[w] = [k EXCEPT !.closing = k.closing - 1]]

Caller == Start \/ StartWorker \/ Started \/ Stop \/ Wait \/ StopWorker \/ WaitWorker \/ Join
Threads == \E w \in 1..Count : RunPosted(w) \/ Accept(w) \/ Disconnects(w) \/ Release(w)
Next == Caller \/ Threads

Spec == Init /\ [][Next]_v

-----------------------------------------------------------------------------
(* Between calls, a server says it runs exactly when one of its workers    *)
(* does, whichever of them failed to listen; and a session is destroyed    *)
(* with its ring only at a worker that both waits gave up on, or that      *)
(* accepted after Stop was called: one open before is closed and released. *)
StopLeavesNothing ==
    /\ v.pc = "idle" => (v.running <=> Up # {})
    /\ v.lost \subseteq v.timed \cup v.late
=============================================================================
