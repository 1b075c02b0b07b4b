----------------------- MODULE ServerLifecycleProofs -----------------------
(***************************************************************************)
(* Start and Stop leave a server as they promise, for any number of        *)
(* workers, sessions and restarts.  What makes it inductive: Stop goes     *)
(* through the workers in order and leaves none of those behind it up, and *)
(* when it joins one, that worker has no session, or both its waits timed  *)
(* out, or it accepted after Stop was called.                              *)
(***************************************************************************)
EXTENDS ServerLifecycle, TLAPS

Sizes == Count \in Nat /\ MaxSessions \in Nat

Workers == 1..Count
WorkerStates ==
    [up : BOOLEAN, accepting : BOOLEAN, ready : Int, posted : Seq({"stop_accepting", "drain"}),
     open : Nat, closing : Nat]
AtWorker == {"wait_worker", "wait_worker_forced", "join"}
Calls == {"idle", "starting", "wait", "wait_forced", "stop_worker"} \cup AtWorker

Servers ==
    [kind : {"web", "pool"}, running : BOOLEAN, pc : Calls, at : Nat, accepts : Int,
     worker : [Workers -> WorkerStates], lost : SUBSET Workers, timed : SUBSET Workers,
     late : SUBSET Workers, stops : Int]

TypeOK == v \in Servers

(* Where the caller of Start or Stop is, and what it has done so far. *)
CallerPlace ==
    /\ v.pc \in AtWorker => v.at \in Workers
    /\ v.pc = "starting" => v.at >= 1
    /\ v.pc \notin {"idle", "starting"} => ~v.running
    /\ v.pc \in AtWorker \cup {"stop_worker"} =>
         \A w \in Workers : w < v.at => ~v.worker[w].up
    /\ v.pc = "idle" => (v.running <=> \E w \in Workers : v.worker[w].up)

(* Why the worker that is about to be joined may still have sessions. *)
Excused == v.pc = "join" => Sessions(v.at) = 0 \/ v.at \in v.timed \cup v.late

IInv == TypeOK /\ CallerPlace /\ Excused /\ v.lost \subseteq v.timed \cup v.late

-----------------------------------------------------------------------------
\* Posting tasks to workers (IoRing::Post from Stop) changes their queues only.
LEMMA PostOnlyPosts ==
    ASSUME NEW x \in Servers, NEW ws, NEW task \in {"stop_accepting", "drain"}
    PROVE  LET y == Post(x, ws, task)
           IN /\ y \in Servers
              /\ y = [x EXCEPT !.worker = y.worker]
              /\ \A w \in Workers : /\ y.worker[w].up = x.worker[w].up
                                    /\ y.worker[w].open = x.worker[w].open
                                    /\ y.worker[w].closing = x.worker[w].closing
<1> DEFINE f == [w \in Workers |->
                   IF w \in ws THEN [x.worker[w] EXCEPT !.posted = Append(@, task)] ELSE x.worker[w]]
<1>1. Post(x, ws, task) = [x EXCEPT !.worker = f]
  BY DEF Post, Workers
<1>2. \A w \in Workers : /\ f[w] \in WorkerStates
                         /\ f[w].up = x.worker[w].up /\ f[w].open = x.worker[w].open
                         /\ f[w].closing = x.worker[w].closing
  <2> TAKE w \in Workers
  <2>1. x.worker[w] \in WorkerStates
    BY DEF Servers
  <2>2. Append(x.worker[w].posted, task) \in Seq({"stop_accepting", "drain"})
    BY <2>1 DEF WorkerStates
  <2> QED
    BY <2>1, <2>2, Zenon DEF WorkerStates
<1>3. f \in [Workers -> WorkerStates]
  BY <1>2
<1> HIDE DEF f
<1> QED
  BY <1>1, <1>2, <1>3 DEF Servers

\* A worker that is not up has nothing.
LEMMA IdleState == Idle \in WorkerStates /\ Idle.up = FALSE
<1>1. Idle \in WorkerStates
  BY DEF Idle, WorkerStates
<1>2. Idle.up = FALSE
  BY DEF Idle
<1> QED
  BY <1>1, <1>2

\* A server that has been built (WebServer's constructor) is as IInv says.
LEMMA InitIInv == Sizes /\ Init => IInv
<1> SUFFICES ASSUME Sizes, Init PROVE IInv
  OBVIOUS
<1> DEFINE f == [w \in Workers |-> Idle]
<1> PICK kind \in {"web", "pool"} : InitWith(kind)
  BY DEF Init
<1>2. v = [kind |-> kind, running |-> FALSE, pc |-> "idle", at |-> 0, accepts |-> MaxSessions,
           worker |-> f, lost |-> {}, timed |-> {}, late |-> {}, stops |-> 0]
  BY DEF InitWith, Workers
<1>3. f \in [Workers -> WorkerStates] /\ \A w \in Workers : f[w] = Idle
  BY IdleState
<1> HIDE DEF f
<1>5. CallerPlace
  BY <1>2, <1>3, IdleState DEF CallerPlace, AtWorker
<1>6. TypeOK
  BY <1>2, <1>3 DEF TypeOK, Servers, Sizes, Calls
<1> QED
  BY <1>2, <1>5, <1>6 DEF IInv, Excused

\* The place Goto takes the caller to; nothing else changes.
LEMMA GotoKeeps ==
    ASSUME v \in Servers, NEW pc \in Calls, NEW at \in Nat
    PROVE  LET y == Goto(pc, at)
           IN /\ y \in Servers /\ y.pc = pc /\ y.at = at
              /\ y.kind = v.kind /\ y.running = v.running /\ y.accepts = v.accepts
              /\ y.worker = v.worker /\ y.lost = v.lost /\ y.timed = v.timed
              /\ y.late = v.late /\ y.stops = v.stops
  BY Zenon DEF Goto, Servers

\* WebServer::Start: running_ is set first, and the history begins anew.
LEMMA StartStep == ASSUME IInv, Start PROVE IInv'
<1> DEFINE x == Goto("starting", 1)
<1>1. "starting" \in Calls /\ 1 \in Nat
  BY DEF Calls
<1>2. x \in Servers /\ x.pc = "starting" /\ x.at = 1
  BY <1>1, GotoKeeps DEF IInv, TypeOK
<1>3. v' = [x EXCEPT !.running = TRUE, !.lost = {}, !.timed = {}, !.late = {}]
  BY DEF Start
<1> HIDE DEF x
<1>4. v' \in Servers /\ v'.pc = "starting" /\ v'.at = 1 /\ v'.lost = {}
  BY <1>2, <1>3, Zenon DEF Servers
<1> QED
  BY <1>4 DEF IInv, TypeOK, CallerPlace, Excused, AtWorker

\* One worker's Start, which may fail to listen.
LEMMA StartWorkerStep == ASSUME Sizes, IInv, StartWorker PROVE IInv'
<1> DEFINE x == Goto("starting", v.at + 1)
<1>1. "starting" \in Calls /\ v.at + 1 \in Nat /\ v.at \in Workers
  BY DEF IInv, TypeOK, Servers, CallerPlace, StartWorker, Calls, Workers, Sizes
<1>2. /\ x \in Servers /\ x.pc = "starting" /\ x.at = v.at + 1
      /\ x.lost = v.lost /\ x.timed = v.timed /\ x.late = v.late
  BY <1>1, GotoKeeps DEF IInv, TypeOK
<1>3. [Idle EXCEPT !.up = TRUE, !.accepting = TRUE] \in WorkerStates
  BY IdleState, Zenon DEF WorkerStates
<1>4. PICK ok \in BOOLEAN :
        v' = [x EXCEPT !.worker[v.at] =
                IF ok THEN [Idle EXCEPT !.up = TRUE, !.accepting = TRUE] ELSE @]
  BY DEF StartWorker
<1> HIDE DEF x
<1>5. PICK s \in WorkerStates : v' = [x EXCEPT !.worker[v.at] = s]
  <2>1. x.worker[v.at] \in WorkerStates
    BY <1>1, <1>2 DEF Servers
  <2> QED
    BY <1>3, <1>4, <2>1
<1>6. /\ v' \in Servers /\ v'.pc = "starting" /\ v'.at = v.at + 1
      /\ v'.lost = v.lost /\ v'.timed = v.timed /\ v'.late = v.late
  BY <1>1, <1>2, <1>5 DEF Servers
<1>7. v'.at >= 1
  BY <1>1, <1>6 DEF Workers, Sizes
<1> QED
  BY <1>6, <1>7 DEF IInv, TypeOK, CallerPlace, Excused, AtWorker

\* The end of Start: running_ stays set exactly when some worker runs.
LEMMA StartedStep == ASSUME IInv, Started PROVE IInv'
<1> DEFINE x == Goto("idle", 0)
<1>1. "idle" \in Calls /\ 0 \in Nat
  BY DEF Calls
<1>2. /\ x \in Servers /\ x.pc = "idle" /\ x.at = 0 /\ x.worker = v.worker
      /\ x.lost = v.lost /\ x.timed = v.timed /\ x.late = v.late
  BY <1>1, GotoKeeps DEF IInv, TypeOK
<1>3. PICK run \in BOOLEAN : /\ run = (Up # {})
                             /\ v' = [x EXCEPT !.running = run]
  BY Zenon DEF Started
<1> HIDE DEF x
<1>4. /\ v' \in Servers /\ v'.pc = "idle" /\ v'.running = run /\ v'.worker = v.worker
      /\ v'.lost = v.lost /\ v'.timed = v.timed /\ v'.late = v.late
  BY <1>2, <1>3, Zenon DEF Servers
<1>5. run <=> \E w \in Workers : v.worker[w].up
  BY <1>3, Zenon DEF Up, Workers
<1>6. CallerPlace'
  BY <1>4, <1>5 DEF CallerPlace, AtWorker
<1> QED
  BY <1>4, <1>6 DEF IInv, TypeOK, Excused

\* WebServer::Stop and WorkerPool::Stop: running_ is cleared before anything else.
LEMMA StopStep == ASSUME IInv, Stop PROVE IInv'
<1> DEFINE x == [v EXCEPT !.running = FALSE, !.stops = @ + 1]
           y == Post(x, Up, "stop_accepting")
           z == Post(y, Up, "drain")
<1>1. /\ x \in Servers /\ x.running = FALSE
      /\ x.lost = v.lost /\ x.timed = v.timed /\ x.late = v.late
  <2>1. v \in Servers
    BY DEF IInv, TypeOK
  <2>2. v.stops + 1 \in Int
    BY <2>1 DEF Servers
  <2> QED
    BY <2>1, <2>2, Zenon DEF Servers
<1>2. v' = IF v.kind = "pool" THEN [x EXCEPT !.pc = "stop_worker", !.at = 1]
           ELSE [z EXCEPT !.pc = "wait"]
  BY DEF Stop
<1> HIDE DEF x
<1>3. y \in Servers /\ y = [x EXCEPT !.worker = y.worker]
  BY <1>1, PostOnlyPosts
<1> HIDE DEF y
<1>4. z \in Servers /\ z = [y EXCEPT !.worker = z.worker]
  BY <1>3, PostOnlyPosts
<1> HIDE DEF z
<1>5. /\ z.running = FALSE
      /\ z.lost = v.lost /\ z.timed = v.timed /\ z.late = v.late
  BY <1>1, <1>3, <1>4 DEF Servers
<1>6. CASE v.kind = "pool"
  <2>1. v' = [x EXCEPT !.pc = "stop_worker", !.at = 1]
    BY <1>2, <1>6
  <2>2. /\ v' \in Servers /\ v'.running = FALSE /\ v'.pc = "stop_worker" /\ v'.at = 1
        /\ v'.lost = v.lost /\ v'.timed = v.timed /\ v'.late = v.late
    BY <1>1, <2>1, Zenon DEF Servers, Calls
  <2>3. \A w \in Workers : ~ w < 1
    BY DEF Workers
  <2> QED
    BY <2>2, <2>3 DEF IInv, TypeOK, CallerPlace, Excused, AtWorker
<1>7. CASE v.kind # "pool"
  <2>1. v' = [z EXCEPT !.pc = "wait"]
    BY <1>2, <1>7
  <2>2. /\ v' \in Servers /\ v'.running = FALSE /\ v'.pc = "wait"
        /\ v'.lost = v.lost /\ v'.timed = v.timed /\ v'.late = v.late
    BY <1>4, <1>5, <2>1 DEF Servers, Calls
  <2> QED
    BY <2>2 DEF IInv, TypeOK, CallerPlace, Excused, AtWorker
<1> QED
  BY <1>6, <1>7

\* The server's own wait, which ends at its workers one way or another.
LEMMA WaitStep == ASSUME IInv, Wait PROVE IInv'
<1>0. v \in Servers /\ ~v.running
  BY DEF IInv, TypeOK, CallerPlace, Wait
<1>1. CASE v' = Goto("stop_worker", 1)
  <2>1. "stop_worker" \in Calls /\ 1 \in Nat
    BY DEF Calls
  <2>2. /\ v' \in Servers /\ v'.running = v.running /\ v'.pc = "stop_worker" /\ v'.at = 1
        /\ v'.lost = v.lost /\ v'.timed = v.timed /\ v'.late = v.late
    BY <1>0, <1>1, <2>1, GotoKeeps
  <2>3. \A w \in Workers : ~ w < 1
    BY DEF Workers
  <2> QED
    BY <1>0, <2>2, <2>3 DEF IInv, TypeOK, CallerPlace, Excused, AtWorker
<1>2. CASE v' = [Post(v, Up, "drain") EXCEPT !.pc = "wait_forced"]
  <2> DEFINE z == Post(v, Up, "drain")
  <2>1. z \in Servers /\ z = [v EXCEPT !.worker = z.worker]
    BY <1>0, PostOnlyPosts
  <2>2. v' = [z EXCEPT !.pc = "wait_forced"]
    BY <1>2
  <2> HIDE DEF z
  <2>3. /\ v' \in Servers /\ v'.running = v.running /\ v'.pc = "wait_forced"
        /\ v'.lost = v.lost /\ v'.timed = v.timed /\ v'.late = v.late
    BY <1>0, <2>1, <2>2 DEF Servers, Calls
  <2> QED
    BY <1>0, <2>3 DEF IInv, TypeOK, CallerPlace, Excused, AtWorker
<1> QED
  BY <1>1, <1>2 DEF Wait

\* A step of Stop at worker v.at that posts to it and leaves it up: what holds of
\* the workers behind it still does.
LEMMA PostedBehind ==
    ASSUME IInv, NEW z, NEW pc \in AtWorker \ {"join"}, v.pc \in AtWorker \cup {"stop_worker"},
           v.at \in Workers, z \in Servers, z = [v EXCEPT !.worker = z.worker],
           \A w \in Workers : z.worker[w].up = v.worker[w].up,
           v' = [z EXCEPT !.pc = pc]
    PROVE  IInv'
<1>1. v \in Servers /\ pc \in Calls
  BY DEF IInv, TypeOK, Calls
<1>2. /\ v' \in Servers /\ v'.running = v.running /\ v'.pc = pc /\ v'.at = v.at
      /\ v'.worker = z.worker
      /\ v'.lost = v.lost /\ v'.timed = v.timed /\ v'.late = v.late
  BY <1>1 DEF Servers
<1>3. ~v.running /\ \A w \in Workers : w < v.at => ~v.worker[w].up
  BY DEF IInv, CallerPlace, AtWorker
<1>4. \A w \in Workers : w < v'.at => ~v'.worker[w].up
  BY <1>2, <1>3
<1>5. CallerPlace'
  BY <1>2, <1>3, <1>4 DEF CallerPlace, AtWorker
<1> QED
  BY <1>2, <1>5 DEF IInv, TypeOK, Excused, AtWorker

\* Stop's loop over the workers: past the last, at one that never started, and at
\* one whose Worker::Stop begins.
LEMMA StopWorkerStep == ASSUME Sizes, IInv, StopWorker PROVE IInv'
<1>0. /\ v \in Servers /\ v.at \in Nat /\ v.pc = "stop_worker" /\ ~v.running
      /\ \A w \in Workers : w < v.at => ~v.worker[w].up
  BY DEF IInv, TypeOK, Servers, CallerPlace, StopWorker
<1>1. CASE v.at > Count
  <2>1. v' = Goto("idle", 0) /\ "idle" \in Calls /\ 0 \in Nat
    BY <1>1 DEF StopWorker, Calls
  <2>2. /\ v' \in Servers /\ v'.running = v.running /\ v'.pc = "idle" /\ v'.worker = v.worker
        /\ v'.lost = v.lost /\ v'.timed = v.timed /\ v'.late = v.late
    BY <1>0, <2>1, GotoKeeps
  <2>3. \A w \in Workers : w < v.at
    BY <1>0, <1>1 DEF Workers, Sizes
  <2>4. ~ \E w \in Workers : v'.worker[w].up
    BY <1>0, <2>2, <2>3
  <2> QED
    BY <1>0, <2>2, <2>4 DEF IInv, TypeOK, CallerPlace, Excused, AtWorker
<1>2. CASE v.at <= Count /\ v.at \notin Up
  <2>1. v' = Goto("stop_worker", v.at + 1) /\ "stop_worker" \in Calls /\ v.at + 1 \in Nat
    BY <1>0, <1>2 DEF StopWorker, Calls, Sizes
  <2>2. /\ v' \in Servers /\ v'.running = v.running /\ v'.pc = "stop_worker"
        /\ v'.at = v.at + 1 /\ v'.worker = v.worker
        /\ v'.lost = v.lost /\ v'.timed = v.timed /\ v'.late = v.late
    BY <1>0, <2>1, GotoKeeps
  <2>3. \A w \in Workers : w < v.at + 1 => w < v.at \/ w = v.at
    BY <1>0 DEF Workers, Sizes
  <2>4. \A w \in Workers : w < v'.at => ~v'.worker[w].up
    BY <1>0, <1>2, <2>2, <2>3 DEF Up, Workers
  <2> QED
    BY <1>0, <2>2, <2>4 DEF IInv, TypeOK, CallerPlace, Excused, AtWorker
<1>3. CASE v.at <= Count /\ v.at \in Up
  <2> DEFINE y == Post(v, {v.at}, "stop_accepting")
             z == Post(y, {v.at}, "drain")
  <2>1. v' = [z EXCEPT !.pc = "wait_worker"] /\ v.at \in Workers
    BY <1>0, <1>3 DEF StopWorker, Up, Workers, Sizes
  <2>2. /\ y \in Servers /\ y = [v EXCEPT !.worker = y.worker]
        /\ \A w \in Workers : y.worker[w].up = v.worker[w].up
    <3>1. v \in Servers
      BY <1>0
    <3> QED
      BY <3>1, PostOnlyPosts
  <2> HIDE DEF y
  <2>3. /\ z \in Servers /\ z = [y EXCEPT !.worker = z.worker]
        /\ \A w \in Workers : z.worker[w].up = y.worker[w].up
    BY <2>2, PostOnlyPosts
  <2> HIDE DEF z
  <2>4. z = [v EXCEPT !.worker = z.worker]
    BY <1>0, <2>2, <2>3 DEF Servers
  <2>5. "wait_worker" \in AtWorker \ {"join"} /\ v.pc \in AtWorker \cup {"stop_worker"}
    BY <1>0 DEF AtWorker
  <2>6. \A w \in Workers : z.worker[w].up = v.worker[w].up
    BY <2>2, <2>3
  <2> QED
    BY <2>1, <2>3, <2>4, <2>5, <2>6, PostedBehind
<1> QED
  BY <1>0, <1>1, <1>2, <1>3 DEF Sizes

\* Worker::WaitForZeroSessions: no session is left, or the deadline has passed
\* once, or twice.
LEMMA WaitWorkerStep == ASSUME IInv, WaitWorker PROVE IInv'
<1>0. /\ v \in Servers /\ v.at \in Workers /\ v.at \in Nat
      /\ v.pc \in AtWorker /\ v.pc # "join" /\ ~v.running
      /\ \A w \in Workers : w < v.at => ~v.worker[w].up
  BY DEF IInv, TypeOK, Servers, CallerPlace, WaitWorker, AtWorker
<1>1. "join" \in Calls /\ "join" \in AtWorker
  BY DEF Calls, AtWorker
<1> DEFINE x == Goto("join", v.at)
<1>2. /\ x \in Servers /\ x.running = v.running /\ x.pc = "join" /\ x.at = v.at
      /\ x.worker = v.worker /\ x.lost = v.lost /\ x.timed = v.timed /\ x.late = v.late
  BY <1>0, <1>1, GotoKeeps
<1>3. CASE Sessions(v.at) = 0 /\ v' = x
  <2>1. Sessions(v.at)' = 0
    BY <1>2, <1>3 DEF Sessions
  <2>2. CallerPlace'
    BY <1>0, <1>2, <1>3 DEF CallerPlace, AtWorker
  <2> QED
    BY <1>2, <1>3, <2>1, <2>2 DEF IInv, TypeOK, Excused
<1>4. CASE v.pc = "wait_worker" /\ v' = [Post(v, {v.at}, "drain") EXCEPT !.pc = "wait_worker_forced"]
  <2> DEFINE z == Post(v, {v.at}, "drain")
  <2>1. /\ z \in Servers /\ z = [v EXCEPT !.worker = z.worker]
        /\ \A w \in Workers : z.worker[w].up = v.worker[w].up
    <3>1. v \in Servers
      BY <1>0
    <3> QED
      BY <3>1, PostOnlyPosts
  <2>2. v' = [z EXCEPT !.pc = "wait_worker_forced"]
    BY <1>4
  <2>3. "wait_worker_forced" \in AtWorker \ {"join"}
    BY DEF AtWorker
  <2>4. v.pc \in AtWorker \cup {"stop_worker"}
    BY <1>0
  <2> HIDE DEF z
  <2> QED
    BY <1>0, <2>1, <2>2, <2>3, <2>4, PostedBehind
<1>5. CASE v' = [x EXCEPT !.timed = @ \cup {v.at}]
  <2> HIDE DEF x
  <2>1. /\ v' \in Servers /\ v'.running = v.running /\ v'.pc = "join" /\ v'.at = v.at
        /\ v'.worker = v.worker /\ v'.lost = v.lost /\ v'.timed = v.timed \cup {v.at}
        /\ v'.late = v.late
    BY <1>0, <1>2, <1>5 DEF Servers
  <2>2. CallerPlace'
    BY <1>0, <2>1 DEF CallerPlace, AtWorker
  <2> QED
    BY <2>1, <2>2 DEF IInv, TypeOK, Excused
<1> QED
  BY <1>3, <1>4, <1>5 DEF WaitWorker

\* The worker's thread is joined and its ring destroyed.
LEMMA JoinStep == ASSUME Sizes, IInv, Join PROVE IInv'
<1>0. /\ v \in Servers /\ v.at \in Workers /\ v.at \in Nat /\ v.pc = "join" /\ ~v.running
      /\ \A w \in Workers : w < v.at => ~v.worker[w].up
      /\ Sessions(v.at) = 0 \/ v.at \in v.timed \cup v.late
      /\ v.lost \subseteq v.timed \cup v.late
  BY DEF IInv, TypeOK, Servers, CallerPlace, Excused, Join, AtWorker
<1> DEFINE x == Goto("stop_worker", v.at + 1)
           lost == IF Sessions(v.at) > 0 THEN v.lost \cup {v.at} ELSE v.lost
<1>1. "stop_worker" \in Calls /\ v.at + 1 \in Nat
  BY <1>0 DEF Calls
<1>2. /\ x \in Servers /\ x.running = v.running /\ x.pc = "stop_worker" /\ x.at = v.at + 1
      /\ x.worker = v.worker /\ x.lost = v.lost /\ x.timed = v.timed /\ x.late = v.late
  BY <1>0, <1>1, GotoKeeps
<1>3. v' = [x EXCEPT !.worker[v.at] = Idle, !.lost = lost]
  BY <1>2, Zenon DEF Join
<1>4. lost \subseteq v.timed \cup v.late /\ lost \in SUBSET Workers
  BY <1>0 DEF Servers
<1> HIDE DEF x, lost
<1>5. /\ v' \in Servers /\ v'.running = v.running /\ v'.pc = "stop_worker" /\ v'.at = v.at + 1
      /\ v'.worker = [v.worker EXCEPT ![v.at] = Idle]
      /\ v'.lost = lost /\ v'.timed = v.timed /\ v'.late = v.late
  BY <1>0, <1>2, <1>3, <1>4, IdleState, Zenon DEF Servers
<1>6. \A w \in Workers : w < v.at + 1 => w < v.at \/ w = v.at
  BY <1>0 DEF Workers, Sizes
<1>7. \A w \in Workers : w < v'.at => ~v'.worker[w].up
  BY <1>0, <1>5, <1>6, IdleState DEF Servers
<1> QED
  BY <1>0, <1>4, <1>5, <1>7 DEF IInv, TypeOK, CallerPlace, Excused, AtWorker

-----------------------------------------------------------------------------
\* A step of a worker's thread neither starts nor ends it, and what it adds to the
\* sessions of a worker about to be joined, it adds late.
LEMMA ThreadKeeps ==
    ASSUME IInv, NEW w \in Workers, NEW s \in WorkerStates, NEW n \in Int,
           NEW late \in SUBSET Workers, v.late \subseteq late,
           s.up = v.worker[w].up,
           \/ Sessions(w) = 0 => s.open + s.closing = 0
           \/ v.pc = "join" => w \in late,
           v' = [v EXCEPT !.worker[w] = s, !.accepts = n, !.late = late]
    PROVE  IInv'
<1>1. v \in Servers
  BY DEF IInv, TypeOK
<1>2. /\ v' \in Servers /\ v'.running = v.running /\ v'.pc = v.pc /\ v'.at = v.at
      /\ v'.worker = [v.worker EXCEPT ![w] = s]
      /\ v'.lost = v.lost /\ v'.timed = v.timed /\ v'.late = late
  BY <1>1, Zenon DEF Servers
<1>3. \A x \in Workers : v'.worker[x] = IF x = w THEN s ELSE v.worker[x]
  BY <1>1, <1>2 DEF Servers
<1>4. \A x \in Workers : v'.worker[x].up = v.worker[x].up
  BY <1>3
<1>5. CallerPlace'
  BY <1>2, <1>4 DEF IInv, CallerPlace
<1>6. Excused'
  <2> SUFFICES ASSUME v.pc = "join" PROVE Sessions(v.at)' = 0 \/ v.at \in v.timed \cup late
    BY <1>2 DEF Excused, Sessions
  <2>1. v.at \in Workers /\ (Sessions(v.at) = 0 \/ v.at \in v.timed \cup v.late)
    BY DEF IInv, CallerPlace, Excused, AtWorker
  <2>2. CASE v.at # w
    BY <1>3, <2>1, <2>2, <1>2 DEF Sessions
  <2>3. CASE v.at = w
    BY <1>3, <2>1, <2>3, <1>2 DEF Sessions
  <2> QED
    BY <2>2, <2>3
<1> QED
  BY <1>2, <1>5, <1>6 DEF IInv, TypeOK

\* The worker's loop: a posted StopAccepting or DrainSessions, an accept, a
\* session that closes, and one that is released.
LEMMA ThreadStep == ASSUME IInv, NEW w \in Workers,
                           RunPosted(w) \/ Accept(w) \/ Disconnects(w) \/ Release(w)
                    PROVE  IInv'
<1> DEFINE k == v.worker[w]
<1>0. /\ v \in Servers /\ k \in WorkerStates /\ v.late \in SUBSET Workers /\ v.accepts \in Int
  BY DEF IInv, TypeOK, Servers
<1>1. v = [v EXCEPT !.accepts = v.accepts, !.late = v.late]
  BY <1>0, Zenon DEF Servers
<1>2. k.open \in Nat /\ k.closing \in Nat /\ k.ready \in Int
      /\ k.posted \in Seq({"stop_accepting", "drain"}) /\ Sessions(w) = k.open + k.closing
  BY <1>0 DEF WorkerStates, Sessions
<1>3. CASE RunPosted(w)
  <2> DEFINE rest == Tail(k.posted)
             drained == [k EXCEPT !.posted = rest, !.closing = k.closing + k.open, !.open = 0]
             stopped(ready) == [k EXCEPT !.posted = rest, !.accepting = FALSE, !.ready = ready]
  <2>1. rest \in Seq({"stop_accepting", "drain"})
    <3>1. k.posted # <<>>
      BY <1>3, Zenon DEF RunPosted
    <3> QED
      BY <1>2, <3>1
  <2>2. PICK ready \in {k.ready} \cup 0..1 : \/ v' = [v EXCEPT !.worker[w] = drained]
                                             \/ v' = [v EXCEPT !.worker[w] = stopped(ready)]
    BY <1>3, Zenon DEF RunPosted
  <2>3. ready \in Int
    BY <1>2
  <2> HIDE DEF rest, k
  <2>4. drained \in WorkerStates /\ drained.up = k.up /\ drained.open + drained.closing = Sessions(w)
    <3>1. k.closing + k.open \in Nat /\ 0 \in Nat
      BY <1>2
    <3>2. /\ drained \in WorkerStates /\ drained.up = k.up
          /\ drained.open = 0 /\ drained.closing = k.closing + k.open
      BY <1>0, <2>1, <3>1, Zenon DEF WorkerStates
    <3> HIDE DEF drained
    <3> QED
      BY <1>2, <3>2
  <2>5. /\ stopped(ready) \in WorkerStates /\ stopped(ready).up = k.up
        /\ stopped(ready).open + stopped(ready).closing = Sessions(w)
    BY <1>0, <1>2, <2>1, <2>3, Zenon DEF WorkerStates
  <2> HIDE DEF drained, stopped
  <2>6. PICK s \in WorkerStates : /\ v' = [v EXCEPT !.worker[w] = s]
                                  /\ s.up = k.up /\ s.open + s.closing = Sessions(w)
    BY <2>2, <2>4, <2>5
  <2>7. v' = [v EXCEPT !.worker[w] = s, !.accepts = v.accepts, !.late = v.late]
    BY <1>0, <2>6, Zenon DEF Servers
  <2> QED
    BY <1>0, <2>6, <2>7, ThreadKeeps, Zenon DEF k
<1>4. CASE Accept(w)
  <2> DEFINE ready == k.ready - (IF k.accepting THEN 0 ELSE 1)
             s == [k EXCEPT !.open = k.open + 1, !.ready = ready]
             late == v.late \cup (IF v.pc \in {"idle", "starting"} THEN {} ELSE {w})
  <2>1. k.open + 1 \in Nat /\ ready \in Int /\ v.accepts - 1 \in Int
    BY <1>0, <1>2
  <2>2. late \in SUBSET Workers /\ v.late \subseteq late /\ (v.pc = "join" => w \in late)
    BY <1>0
  <2>3. v' = [v EXCEPT !.accepts = v.accepts - 1, !.worker[w] = s, !.late = late]
    BY <1>4 DEF Accept
  <2> HIDE DEF k, ready, late
  <2>4. s \in WorkerStates /\ s.up = k.up
    BY <1>0, <2>1, Zenon DEF WorkerStates
  <2> HIDE DEF s
  <2>5. v' = [v EXCEPT !.worker[w] = s, !.accepts = v.accepts - 1, !.late = late]
    BY <1>0, <2>3, Zenon DEF Servers
  <2> QED
    BY <2>1, <2>2, <2>4, <2>5, ThreadKeeps, Zenon DEF k
<1>5. CASE Disconnects(w)
  <2> DEFINE s == [k EXCEPT !.open = k.open - 1, !.closing = k.closing + 1]
  <2>1. k.open > 0 /\ v' = [v EXCEPT !.worker[w] = s]
    BY <1>5 DEF Disconnects
  <2> HIDE DEF k
  <2>2. k.open - 1 \in Nat /\ k.closing + 1 \in Nat
    <3>1. k.open \in Nat /\ k.open > 0 /\ k.closing \in Nat
      BY <1>2, <2>1
    <3> QED
      BY <3>1
  <2>3. s \in WorkerStates /\ s.up = k.up /\ s.open = k.open - 1 /\ s.closing = k.closing + 1
    BY <1>0, <2>2, Zenon DEF WorkerStates
  <2> HIDE DEF s
  <2>4. s.open + s.closing = Sessions(w)
    BY <1>2, <2>3
  <2>5. v' = [v EXCEPT !.worker[w] = s, !.accepts = v.accepts, !.late = v.late]
    BY <1>0, <2>1, Zenon DEF Servers
  <2> QED
    BY <1>0, <2>3, <2>4, <2>5, ThreadKeeps, Zenon DEF k
<1>6. CASE Release(w)
  <2> DEFINE s == [k EXCEPT !.closing = k.closing - 1]
  <2>1. k.closing > 0 /\ v' = [v EXCEPT !.worker[w] = s]
    BY <1>6 DEF Release
  <2> HIDE DEF k
  <2>2. k.closing - 1 \in Nat /\ Sessions(w) # 0
    <3>1. /\ k.open \in Nat /\ k.closing \in Nat /\ k.closing > 0
          /\ Sessions(w) = k.open + k.closing
      BY <1>2, <2>1
    <3> QED
      BY <3>1
  <2>3. s \in WorkerStates /\ s.up = k.up
    BY <1>0, <2>2 DEF WorkerStates
  <2> HIDE DEF s
  <2>4. v' = [v EXCEPT !.worker[w] = s, !.accepts = v.accepts, !.late = v.late]
    BY <1>0, <2>1, Zenon DEF Servers
  <2> QED
    BY <1>0, <2>2, <2>3, <2>4, ThreadKeeps, Zenon DEF k
<1> QED
  BY <1>3, <1>4, <1>5, <1>6

\* Every step keeps the invariant.
LEMMA NextIInv == Sizes /\ IInv /\ [Next]_v => IInv'
<1> SUFFICES ASSUME Sizes, IInv, [Next]_v PROVE IInv'
  OBVIOUS
<1>1. CASE Caller
  BY <1>1, StartStep, StartWorkerStep, StartedStep, StopStep, WaitStep, StopWorkerStep,
     WaitWorkerStep, JoinStep DEF Caller
<1>2. CASE Threads
  BY <1>2, ThreadStep DEF Threads, Workers
<1>3. CASE UNCHANGED v
  BY <1>3 DEF IInv, TypeOK, CallerPlace, Excused, Sessions
<1> QED
  BY <1>1, <1>2, <1>3 DEF Next

\* Start and Stop of WebServer, TcpProxyServer, WorkerPool and the ACME server,
\* for any number of workers: between calls the server says it runs exactly when a
\* worker does, and Stop destroys no session with its ring but at a worker that
\* both waits gave up on or that accepted after Stop was called.
THEOREM StopIsClean == Sizes /\ Spec => []StopLeavesNothing
<1>1. Sizes /\ Init => IInv
  BY InitIInv
<1>2. IInv => StopLeavesNothing
  BY DEF IInv, CallerPlace, StopLeavesNothing, Up, Workers
<1> DEFINE J == Sizes /\ IInv
<1>3. J /\ [Next]_v => J'
  BY NextIInv DEF Sizes
<1>4. J => StopLeavesNothing
  BY <1>2
<1>5. Sizes /\ Init => J
  BY <1>1
<1> HIDE DEF J
<1> QED
  BY <1>3, <1>4, <1>5, PTL DEF Spec
=============================================================================
