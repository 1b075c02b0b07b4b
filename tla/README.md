# TLA+ verification of iouring-runtime

This directory holds TLA+ models of the runtime, of the modules built on it and of
the applications that keep state of their own; TLC configurations that check them
on small instances; and TLAPS proofs that some of their properties hold for every
instance. Definitions keep the names of the C++ functions they translate;
`PROJECT.json` maps each of them to its lines.

## 1. The system and its parts

A server is a set of **workers**, each a thread with one **IoRing**. The thread
loops: dispatch completions (CQEs), run tasks posted by other threads, run shared
job queues, tick the sessions. Everything a **session** does happens on the thread
of its ring, so the hard part of a session is not data races but *re-entrancy*: a
completion handler calls the application, which calls back into the session.

| Part | What is hard | What must be true |
|---|---|---|
| JobQueue, GlobalQueue (`src/runtime/job`) | count before append, hand-over at a deadline | one executor at a time; jobs run once, in push order; every job runs |
| MpscQueue, BufferPool (headers of `core`) | half-linked nodes; reuse of a chunk still referenced | pop order is push order, no freed node is read, "empty" is true; reference counts exact, a chunk in one list, unused chunks come back |
| RingBuffer (`src/runtime/ring`) | buffers shared by the sessions of a ring and the kernel | a buffer is in one place; chunks are seen in order; a recv that ran out of buffers is registered again |
| Session, SendQueue (`src/runtime/io`) | re-entrant callbacks, short writes, final multishot completions, failing submissions | streams lose nothing; `pending_io_` says what the kernel holds; released once, when quiet; closing ends |
| IoRing (`src/runtime/ring`) | lost wakeups, messages whose submit failed | a task runs once and in order; posted work wakes the ring; what is prepared is submitted before the wait |
| Listener, SessionManager, Worker | accepts after stop, sessions left at shutdown | armed as believed; the limit holds; accepted sockets are handled; Stop returns with the sessions released |
| Proxy (`src/modules/proxy`) | connect, timeout and cancel race; a pair closes from both sides; two backpressures feed each other | bytes in order both ways; paused exactly while the peer is full; flushed before close; connector and counters agree |
| Web (`src/modules/web`) | pipelining, streams, deferred answers, deadlines, early disconnects | answers in request order, once; an upload hears of its end once; a flush cuts nothing off; the most specific route serves |
| Game (`src/modules/game`) | packets cut anywhere; maps changed from two sides | packets whole and in order; maps inverse; room ids not given twice |
| Servers (WebServer, TcpProxyServer, AcmeHttpChallengeServer, WorkerPool) | workers that fail to start, waits that time out | Stop leaves no thread and loses no session it did not give up on |
| dungeon_full_server (`app/examples/game`) | rooms run on any worker, sessions on their own | clients see their room; told is routed; populated rooms outlive the pointers to them; leavers leave; parties and players agree; the floor of a generated map is in one piece |
| activity-server (`app`) | download threads and the ring share a hub | an entry is in one place; clients show the state; downloads end |
| file_store_server, dropapp, webhook_inbox (`app/examples/web`) | asynchronous writes, crashes, torn and misread log lines | what is listed or downloaded is whole; what was answered survives a restart |

A worker's loop runs the handlers of its sessions and its listener; any thread
reaches a session through Post or RunOnRing; job queues are run by whichever worker
takes them from the global queue; sessions send buffers of a BufferPool, whose
releases can happen on any thread and travel through an MpscQueue; the proxy, web
and game modules are users of the session interface, and the applications are users
of those.

## 2. Modules

| Module | Models | State and actions |
|---|---|---|
| `SerialExecutor` | what a JobQueue promises | per queue: pending jobs, the running one, finished ones |
| `JobQueue` | `JobQueue.cpp`, `GlobalQueue.cpp` | one action per atomic operation, critical section or job boundary: PushCount (fetch_add), PushBack, PushRegister; Swap, JobBegin, JobEnd, GiveBack (deadline in mid-batch), Settle (fetch_sub), Again. `expired` is a clock that may pass the deadline at any look at it |
| `MpscQueue` | `MpscQueue.h` | one action per atomic access of PushNode and TryPop |
| `BufferPool` | `SendBuffer.h` | Allocate, OnRelease and OnChunkUnused of many threads, one action per critical section or atomic access; try_lock may fail only while the mutex is held; a chunk destroyed because the free list is full may come back at the same address |
| `RingBuffer` | `RingBuffer.cpp`, the recv path of `Session.cpp` | the ring of buffers with its wrapping head and tail, completions not yet dispatched, and per session what its recv path needs; the kernel takes a buffer between any two steps, also while a callback runs |
| `SessionLifecycle` | what a session's life cycle promises | phase, operations outstanding, application work |
| `Session` | `Session.cpp`, `SessionSend.cpp`, `SendQueue.h`, `SessionDetail.h` | the fields of the class, the kernel's side (`ops`, `shut`), and the C++ call stack: an action runs a function from one call out of it to the next, so the application can call back wherever the code calls it |
| `IoRing` | `IoRing.cpp`, the order of calls in `Worker::Run` | per ring: position in the loop, posted tasks, eventfd, wake poll, submission and completion queues |
| `Worker` | `Worker.cpp`, `Listener.cpp`, `SessionManager.cpp` | the loop, the multishot accept, the completion budget of Dispatch, Start, and Stop on another thread; a session is its place in the life cycle |
| `ProxyPair` | `ProxyConnector.cpp`, `ProxyBridge.cpp`, `ProxySessions.cpp`, `TcpProxyServerWorker.cpp` | one proxied connection: both sessions with send, paused and plaintext queues, connector with its operations in flight, bridge, and the thread that stops the server. One action per completion or posted task; the nested callbacks are part of it |
| `HttpSession` | `HttpSession*.cpp`, `RouterDeferred.cpp`, what `HttpResponse.cpp` queues | one connection and a script of requests; OnRecv with any number of parser callbacks, OnTimeoutTick, OnSocketDrained, the end of a deferred answer, failures, release; each callback runs with some outcomes of BufferPool::Allocate, which may fail |
| `Router` | `RadixTree.cpp`, `Router.cpp` | the tree as a function of nodes; Insert is the action, Match and Dispatch are operators, checked against a definition over the list of routes |
| `UploadStore` | uploads of `file_store_server` and `dropapp` | headers, chunks, write completions (short, failed, any order), completion, abort, rename and metadata, delete, expiry, crash; a download that takes the metadata, the size, opens and reads in separate steps |
| `InboxStore` | store of `webhook_inbox` | put, remove, expire, clean-up, restart, with writes that fail or are cut; a line of the log is what Init makes of its text: an event, a deletion, or neither |
| `ServerLifecycle` | `WebServer.cpp`, `TcpProxyServer.cpp`, `AcmeHttpChallengeServer.cpp`, `WorkerPool.cpp` | Start, Stop and Start again over several workers, their posted tasks, waits and joins |
| `DungeonServer` | sessions, handlers, room manager, outbox of `dungeon_full_server` | packets on the ring threads, room jobs on any thread, messages through outboxes, disconnects, removal of empty rooms by the main thread. A job is done in steps (`todo`): each message, each push to another room, adding and removing a player; a handler that looks a room up and then pushes to it, and the clean-up that finds a room and then removes it, are two steps each |
| `DungeonRoom` | combat, projectiles, bots, items of a room | one action per packet handler and per tick, since a room's jobs are serial |
| `PartySystem` | `party_system.cpp`, `social_handler.cpp` | the one static object that the jobs of all rooms use without a lock: a call and its effect are two steps, so the calls of two rooms may overlap |
| `DungeonGenerator` | `dungeon_generator.cpp` | one action per stage and per passage or portal: SmoothMap, ProcessMap, ConnectEach and ConnectMain (the two modes of ConnectClosestRooms), FindSpawnPosition, PlacePortals; where the code takes the first of equals the model takes any |
| `ActivityHub` | `ActivityHub.cpp` and the handlers that use it | one action per critical section of the ring thread and of each download thread |
| `ActivitySession` | `ActivitySession.cpp` | HTTP items, upgrade, frames, file stream, close after flush |
| `PacketSession` | `PacketSession.cpp`, `RecvBuffer.h` | OnRecv of the next n bytes |
| `GameRegistry` | `PlayerRegistry.cpp`, `RoomManager.cpp` | one action per locked operation |
| `JobQueueProofs`, `MpscQueueProofs`, `IoRingProofs`, `IoRingDeliveryProofs`, `WorkerProofs`, `ServerLifecycleProofs`, `GameRegistryProofs` | proofs about the module they are named after | |

The `MC` modules give the constants small values for TLC. `MCThreads`, `MCServices` and
`MCApps` put several independent modules side by side: the initial state chooses one,
the others keep an initial state. A behaviour is a behaviour of one of them, so a
property of such a run is a property of its module.

Composition goes through promises. `Worker` uses the life cycle that `Session`
implements and the order of posted tasks that `IoRing` shows. `ProxyPair`, `HttpSession`
and `ActivitySession` use a session reduced to what `Session` shows of it: a send queue
with a limit and watermarks, a send in flight, a pause with its queue, a close at once or
after a flush, and a release that waits for operations and application work.
`DungeonServer` and `DungeonRoom` use the serial execution `JobQueue` proves.
`ServerLifecycle` uses `Worker`; `BufferPool` uses `MpscQueue` with a push not yet linked.

Definitions called *mutants* in the modules are wrong versions of the definition that
follows them: each property was seen to fail when one of them replaces the right version.

## 3. Runs

| Run | Shows |
|---|---|
| `threads` | **Serialized**; jobs once and in push order (**RunsInPushOrder**, the implementation of SerialExecutor); **EveryJobRuns**; **PopsInPushOrder** with an honest "empty" and no deleted node touched; **MemoryAccounted**: counts, lists and return of the pool's chunks, and every provided buffer with the kernel or in one completion |
| `session_streams` | **SendStreamIntact**, **RecvStreamIntact**; **NothingStranded**: queued data is being sent, recv is registered unless paused, a deferred close has a trigger, backpressure agrees with the queue |
| `session_failures` | **ReleasedWhenQuiet**: exact accounting, one release, OnDisconnected last; **ImplementsLifecycle**; **ClosingCompletes**, all with submissions that fail |
| `ioring_wakeups` | **TasksInOrder**: each task in one place, posts in order; **WaitsAwake**: an owner that waits has submitted everything, its wake poll is armed exactly as it believes, and posted work wakes it |
| `ioring_delivery` | **TasksRun**: a task another thread hands over is run although no wait times out; with timeouts, what is not refused is run even if submits fail |
| `worker_stop` | **StopHandlesAll**: listener, limit, accepted sockets, sessions alive at Stop, all with a completion budget; **StopReturns** |
| `services` | proxy: **ForwardedInOrder**, **PausedIffPeerIsHigh**, **FlushedBeforeClose**, **ConnectorAndPairAgree**, **ClosedPairReleased**; HTTP: **ResponsesInRequestOrder**, **OnceEach** (answers, uploads, files), **NothingCutOff**; **RoutesServe**; uploads and downloads: **ListedIsWhole**, **EndedIsClean**; inbox: **AnsweredSurvives**; servers: **StopLeavesNothing**; **BegunIsEnded**: requests are answered and uploads end |
| `apps` | dungeon: **OutboxInRoomOrder**, **ClientsSeeTheRoom** (with routing, rooms and contexts that stay alive), **RoomAgrees** (deaths and items of a room, parties of all), **MapInOnePiece**; activity: **EntriesAccounted**, **StateShown**, **AnswersWhole**; **PacketsWhole**; **MapsInverse**; **BegunIsEnded**: leavers leave, downloads end, answered connections close |
| `session_paused_bytes`, `pool_overlap`, `worker_late_accept`, `proxy_tls_order` | findings, section 6 |

Several properties are conjunctions of facts about one question; the module states each
fact on its own. Some have an exception that the model records in a history variable
when the code takes a path on which the promise does not hold, and the comment of the
property names it; section 6 lists these paths.

### Bounds

* JobQueue: three jobs let one run, one go back to the front at a deadline and one arrive
  behind it; two threads are an executor and a pusher or a second executor. More threads
  and queues are covered by the proof.
* MpscQueue: four items pass through at least two recyclings of the stub. BufferPool:
  chunks of two bytes and at most two in use are exhausted by three allocations, one of
  which may ask for more than a chunk; a free list of one makes MoveToFree destroy the
  second chunk it is given; one thread releases while the other allocates.
* RingBuffer: two buffers for two sessions with three chunks each run out while both listen;
  head and tail count modulo 4 and wrap.
* Session: buffers of one or two bytes with two iovecs per send reach a short write inside
  a buffer, at its end and across two, with the queue above its watermark; four or five
  application calls reach re-entrancy three callbacks deep; two chunks fill and overflow a
  paused queue of one.
* IoRing: a submission ring of 2 runs full, a budget of 1 leaves completions behind, a
  batch of 2 leaves operations unsubmitted after a handler.
* Worker: the code's eight final rounds are two here, still more than one; one session
  allowed and two clients reach the limit; a budget of one completion per Dispatch leaves
  completions behind in every round (`worker_late_accept` has no budget, the proof any).
* ProxyPair: a high watermark of one chunk and a queue of two make one chunk too many pause
  the peer and two close the pair; up to four chunks from the server fill the send queue,
  and the paused queue; one instance stops the server. `services` has
  `pause_recv_on_high_watermark` off, as is the default: nothing then waits in
  `pending_plaintext_`. `proxy_tls_order` has it on.
* HttpSession: two requests, the first of every kind with and without keep-alive, the
  second small, streamed, deferred or an upload; bodies of two chunks with one per write
  keep a stream active across completions; up to five parser callbacks in one completion,
  of whose allocations each of the first two may fail; files that cannot be read, end early
  or end at a chunk.
* Router: three routes out of five patterns that meet at every kind of node, every path of
  up to two segments and some of three, with and without a trailing slash, GET and HEAD.
* UploadStore: two uploads or two chunks, one fault, one crash, and a download beside two
  uploads to its path or beside an upload, expiry and a crash. InboxStore: two events, two
  faults, any number of restarts. ServerLifecycle: two workers, two
  sessions, two Stops with a Start between.
* DungeonServer: two or three clients with fixed packets in every interleaving: create and
  join, portals, impatient clients, full rooms, one account twice, rooms that become empty,
  a join while a room is being removed. Rooms are removed after a grace period of 30 s,
  taken to be enough for what was in flight when they became empty.
  DungeonRoom: two players and a bot, a few skills and ticks. PartySystem: two players in
  two rooms, six packets.
* DungeonGenerator: a grid of 21 by 12 with thresholds, openness and distances scaled down
  with it, one smoothing round, and every choice of six caves (beside, below and behind each
  other, and too small to stay), or a cave with a pillar and up to two others; up to six
  rooms make groups that are joined before one of them reaches the main room.
* ActivityHub: downloads around a skip, a removal, by name or from the default instance,
  and a second client. ActivitySession: nine streams of items, cut anywhere.
  PacketSession: every stream of four packets of sizes below the header, the header alone,
  one more, and the largest; every cut.
* GameRegistry: two sessions, two players, ids 0 to 3 with a counter that wraps; the
  proof has no bounds.

Reaching a bound only disables further inputs. Deadlock is not checked where an instance
stops when its inputs are used up; it is checked for IoRing, whose loop never ends.

### Fairness

* JobQueue: each thread's Push, Execute and TryPop: workers poll the global queue in every
  turn of their loop. Nothing is assumed about deadlines.
* Session: the owner runs its calls, callbacks return, application work ends, the kernel
  completes shutdown and cancel and, on a socket that was shut down, the send and recv in
  flight. Peers and applications are not fair.
* IoRing: owners run their loop, a thread that has pushed goes on to write the eventfd, the
  kernel fires a poll on a readable descriptor and delivers messages. The timeout of the
  wait is fair only in the part of TasksRun about failed submits.
* Worker: the thread in Stop and the worker's loop run. Clients, accepts and the sessions'
  completions are not fair: Stop must return by its timeouts.
* ProxyPair: the ring thread does not rest while a completion or a posted task is there to
  be handled. HttpSession and ActivitySession: the peer reads what is written, an
  application completes what it deferred, operations of a closing session end.
  UploadStore: the kernel completes every write.
* DungeonServer: a disconnect is handled, rooms run their jobs, workers drain their
  outboxes. ActivityHub: threads run, commands end, the ring serves posted tasks.

## 4. Proofs

Each proof module has one lemma per action, `NextIInv` (or its like) that puts them
together, and a theorem whose last step is temporal. None of the bounds of section 3 is
used: the constants are arbitrary but for the assumptions named here.

**`JobQueueProofs`**, for every finite set of threads and any sets of queues and jobs
(`ThreadsFinite`, `NoJobIsNotAJob`, `NoQueueIsNotAQueue`):

* Invariance: `Spec => [](TypeOK /\ SingleOwner /\ CountAccounts /\ OwnedIffCounted)`;
* Serialization: `Spec => []Serialized`, two threads are never in Execute of one queue;
* Refinement: `Spec => RunsInPushOrder`, JobQueue implements SerialExecutor.

Serialized is not inductive: a second executor enters by TryPop, so one must know that a
queue being executed is not in the global queue. That is SingleOwner: the pusher that saw
prev = 0, the global-queue entry and the executor are never two at a time. SingleOwner
needs that a pusher sees prev = 0 only when there is no owner, which is OwnedIffCounted (an
owner exists exactly while `job_count_` is positive); and that needs the counter to be
exact, which is CountAccounts: `job_count_` is the length of `jobs_`, plus what the executor
has swapped out and not yet subtracted, plus the pushes between fetch_add and push_back. The
conjunction is inductive. Because there is one executor, the refinement mapping is
determined (`MappingHolds`): what is pending is the rest of its batch followed
by `jobs_`. PushBack, JobBegin and JobEnd are the abstract steps; Swap and GiveBack move
jobs between batch and `jobs_` and leave the mapped state as it is.

**`MpscQueueProofs`**, for any producers and items (hypothesis `Distinct`: stub and null are
not items): QueueIsSafe, `Distinct /\ Spec => []PopsInPushOrder`. The inductive invariant
says that the nodes not yet taken are a chain: the items behind the popped ones in the order
of the exchanges, with the stub at one position among them or nowhere; every link of the
chain is in place or is what one producer, or the consumer pushing the stub again, is about
to write; nodes in the consumer's hands or a producer's are not deleted.

**`IoRingProofs`**, for any rings, threads and tasks, any queue depth, batch and budget
(`RingSizes`, `Bounds`, `RingNames`): PostsOvertakeNothing, `Spec => [](TypeOK /\
PostsRunInOrder)`. The module also shows what a step of one thread can change of another
ring. `OrderInv` splits the log of posts into what has run, the owner's batch and `posted_`,
in this order, and says that a message carries a task that was sent and not posted.

**`IoRingDeliveryProofs`** builds on it, under the same assumptions:

* NoLostWakeup: `Spec => []WaitsAwake`. `AwakeInv` adds where an owner can be when something
  is prepared and not submitted (OwnerPlaced), that `wake_poll_armed_` means a poll with
  the kernel or a completion of it not handled (PollHeld), and that a foreign task in
  `posted_` means a thread about to write the eventfd, a readable eventfd, or an owner that
  will look at `posted_` before it waits (PostsCovered);
* TasksDelivered: `Spec => []TasksInOrder`. `TasksInv` adds to `OrderInv` how often a task
  occurs in the posts, the batch, the messages, the completions and what has run: once in
  all, at the ring it was sent to, unless it was refused.

**`WorkerProofs`**, for any finite set of connections, any limit, batch, completion budget,
number of final rounds above zero and number of failures (`WorkerSizes`): StopForgetsNobody,
`Spec => []StopHandlesAll`. The inductive invariant follows the accept event (prepared,
armed, or with its last completion queued: one of them while the listener owns it), matches
accept completions with accepted clients one to one, says where the loop can be while the
stopping thread is at each of its steps, that the StopAccepting task is still queued or the
listener is closed, and what the final rounds have achieved so far: once one of them has
emptied the completion queue with the accept gone, no accept completion can come again.
With a budget there may be no such round, and the theorem then claims nothing of the
sockets still queued.

**`ServerLifecycleProofs`**, for any number of workers and sessions (hypothesis `Sizes`: they
are natural numbers): StopIsClean, `Sizes /\ Spec => []StopLeavesNothing`. The invariant adds
that Stop leaves no worker behind it up, that running_ is false from Stop's first step to its
end, and that a worker about to be joined has no session, or both its waits timed out, or
it accepted after Stop was called.

**`GameRegistryProofs`**, for any sets of sessions and players and any number of room ids
above one (`IdsAssumption`):

* TypeCorrect: `Spec => []TypeOK`;
* InverseMaps: `Spec => []MapsInverse`. MapsInverse is inductive together with TypeOK
  because it speaks of both directions: removing by session relies on the direction from
  players, removing by player on the other;
* CounterStaysAhead and FreshRoomIds: the counter is above every id that CreateRoom
  has given since it last wrapped (a history variable), so CreateRoom gives an id a
  second time only in a step in which the counter wraps, whatever AddRoom and RemoveRoom
  do in between. The loop that skips ids in use would not be enough: a removed room's id is
  not in use, and is still in the records of players.

## 5. What is only model-checked, and what is not modelled

Checked by TLC on the instances above and not proved: Session (with its implementation of
SessionLifecycle), BufferPool, RingBuffer, the proxy and web modules, packets and the
applications; and all liveness, also that of the modules proved (fairness and ENABLED are
out of the prover's reach).
Match of the Router and the flood fill of DungeonGenerator are recursions over data, which
the prover has no induction for.

Not modelled, and why:

* JobTimer: a heap in front of JobQueue::Push. WorkerPool::GetWorker and RingBuffer's
  `available_` change nothing: the first indexes the workers that did start, so after a
  failed start an id is not the one a worker was configured with; the second is only ever
  incremented, and nobody reads it. RingBuffer reduces a session to its recv path; failing
  submissions and a resume that is paused again half way are in Session.
* Worker: a second Start (which finds `factory_` moved away), Stop on the worker's own
  thread.
* Proxy: the TLS engine (a handshake that ends one way or the other, then a stream that
  keeps order), name resolution, certificate reload, metrics text, the text of an ACME
  challenge answer.
* Web: llhttp, header text, middleware. Game: fan-out policies no server here uses.
* dungeon_full_server: database files, chat, movement and aim (choices of whom they
  reach), the props and lights of a map and its copy into a packet. activity-server: calls
  to other services and playlist text. file_store_server, dropapp, webhook_inbox: pages,
  tokens and listings.
* `app/activity-backend` is a second, Python implementation of the hub on one asyncio loop
  around media tools, and `app/activity-server/frontend` a browser client; the C++ server is
  the one modelled.
* The remaining examples, the benchmarks, scripts and deployment, HLS text, logging and
  CPU affinity have no state a property could be about.

Within the modelled parts: clocks are choices ("the deadline has passed"); payloads are
numbers; the memory model is sequentially consistent (the acquire/release pairs of
MpscQueue order the accesses the model interleaves); allocation failure of an event is the
same outcome as a full submission ring; a refused RunOnRing message whose entry stays in
the submission ring is delivered later in the model, while in the program it carries a
deleted pointer, so nothing is claimed about refused tasks.

## 6. Findings

* `session_paused_bytes` (Session.cpp:222): chunks queued while recv is paused are dropped
  when the peer closes its side before recv resumes. The backpressure document says the
  paused queue goes to OnRecv on resume.
* `pool_overlap` (SendBuffer.h:148): MoveToFree does not look at Unused() again. Thread A
  drops the last buffer of a chunk and is delayed, B opens a buffer in the chunk, A resets
  it, and the next Allocate hands out B's bytes. Needs a pool shared by threads.
* `worker_late_accept` (Worker.cpp:86): an accept completion handled after the drain task
  makes a session nobody disconnects; Stop ends the loop and drops it.
* `proxy_tls_order` (ProxySessions.cpp:117): with downstream TLS and
  `pause_recv_on_high_watermark` (off by default) the end of the upstream's own
  backpressure resumes its recv while the downstream is still above its watermark, and the
  chunk it delivers is held back in `pending_plaintext_`. Once the downstream is below the
  low watermark, and not yet drained, the next chunk is sent at once and overtakes it: the
  client reads the response out of order. The backpressure document says that bytes which
  have arrived keep their order.

Behaviour met on the way that no document speaks of. The models have it, and the
properties except it where they would fail:

* Session: a close deferred from inside OnBackpressure(false) drops a batch that is
  between queue and SendBatch; an application that sends from that callback until the
  queue is high again ends with recv running under backpressure; a session whose shutdown
  found no SQE stays in kClosing until the peer ends an operation. When Disconnect()
  inside a callback finds no SQE either, the session is released, and OnDisconnected runs,
  inside that callback.
* BufferPool: an Allocate larger than a chunk leaves an empty chunk in `active_chunks_` that
  nothing retires (SendBuffer.h:122), so such requests use the pool up; the race of
  `pool_overlap` can also destroy a chunk with a live buffer (`dangling`).
* Worker: with a completion budget the final rounds can end with accepted sockets in the
  completion queue, which nobody closes (IoRing.cpp:176).
* Proxy: a byte from the client while the upstream is closing closes the pair at once, and
  the response still queued is dropped.
* HTTP: a pipelined request answered while a body is streamed puts its answer between two
  chunks (`overlap`); SendFile closes a descriptor twice when its header is refused or its
  first chunk fails (`reclosed`), which has also closed the session; a response for which
  no buffer is left is dropped and the connection kept, and a file that turns out shorter
  than its Content-Length just ends (`lost`); the 408 of a deadline can follow an answer
  an upload handler has sent (`late`).
* Router: a parameter position named differently by two routes keeps the first name; what
  follows a wildcard in a pattern is ignored. A wildcard whose tail ends in a slash gets a
  value whose length is computed from a null pointer (RadixTree.cpp:146, 275), unless the
  slash is all there is; the route chosen is not affected.
* Uploads: two uploads to one path share a `.part` file (`shared`); a crash between rename
  and metadata leaves a file that is never listed nor removed. A download whose file is
  replaced or removed between file_size and the open, or for which no buffer is left, sends
  another number of bytes than its Content-Length.
* Inbox: Init searches each line for the names of keys: an event one of whose values is
  the name of a key may be skipped, or be read as the deletion of whatever string follows.
  A write that fails in the flush is answered as stored; a torn last line merges with the
  next one; a deletion is answered although its line was not written (`unlogged`).
* dungeon_full_server: a disconnect between AddPlayer and the enter task leaves a player in
  the room (`late`); a portal does not look whether the player is still in the room, which
  an impatient client can reach (`patient`); a room whose creator left before entering has
  no bots, can become empty, and is then removed by the main thread although a join may have
  looked it up (`dangling`); the clean-up edits `connections_` of rooms that are running.
  Parties keep members who left; calls of two rooms to the one PartySystem race (`raced`);
  an account in two rooms at once keeps a party_id in one after leaving the party in the
  other (`twice`). SpawnBots puts bots up to three tiles from a spawn without looking at the
  tile: MapInOnePiece speaks of the positions GetRandomFloorPosition gives to players and
  respawns, and of portals. A map none of whose regions is large enough has its spawn in a
  wall.
* activity-server: a snapshot is sent after the lock is gone, so an older one can arrive
  last (`raced`); presence is not told to an instance a client moved away from (`moved`); a
  removal with an empty instance_id changes the default instance and is broadcast to nobody
  (`untold`); a request during a file answer replaces the stream (`overlap`).
* Servers: a session count of zero read before the posted StopAccepting ran says nothing of
  a connection accepted later (`late`).

## 7. Running

    tlc -config MCThreads_shared.cfg MCThreads      # any cfg with its MC module
    tlapm JobQueueProofs.tla                        # any module named ...Proofs
