------------------------------ MODULE ProxyPair ------------------------------
(***************************************************************************)
(* One proxied connection of TcpProxyServer on its worker ring: the        *)
(* downstream session D (plain or TLS), the ProxyConnector that opens the  *)
(* upstream, the upstream session U, the ProxyBridge between them, and the *)
(* thread that stops the server.                                           *)
(*                                                                         *)
(* Everything but Stop runs on the ring thread, one completion at a time,  *)
(* but the calls are deeply re-entrant: a send that drains one session's   *)
(* queue resumes the other one, which forwards what it had kept, which     *)
(* sends on the first again.  A handler is therefore an operator from the  *)
(* state of the pair to the state after the whole call, and an action      *)
(* applies the handler of one completion.  A Session is reduced to what    *)
(* the module Session shows of it: its send queue and send operation,      *)
(* backpressure, pausing, and a closing that ends in OnDisconnected.       *)
(***************************************************************************)
EXTENDS Integers, Sequences, SequencesExt, FiniteSets

CONSTANTS
  MaxPending,        \* backpressure.send_queue_max_pending
  Low,               \* backpressure.send_queue_low_watermark
  PausedLimit,       \* backpressure.paused_recv_byte_limit, in chunks
  ConnectLimit,      \* pending_connect_buffer_limit, in chunks
  PlaintextLimit,    \* downstream_tls.pending_plaintext_limit, in chunks
  PauseOnHigh,       \* backpressure.pause_recv_on_high_watermark
  Bounds             \* what is explored: downstream_tls.Enabled() (tls),
                     \* send_queue_high_watermark (high), the chunks that the
                     \* client (D) and the server (U) send, and whether the
                     \* proxy is stopped

VARIABLE p

Roles == {"D", "U"}
Other(r) == IF r = "D" THEN "U" ELSE "D"

Peer0 == [state |-> "none", q |-> <<>>, op |-> <<>>, reg |-> FALSE,
          bp |-> FALSE, paused |-> FALSE, kept |-> <<>>, flush |-> FALSE,
          why |-> "none"]

Connector0 == [started |-> FALSE, finished |-> FALSE, pending |-> 0,
               connecting |-> FALSE, armed |-> FALSE, self |-> FALSE,
               ops |-> {}, results |-> 0, mapped |-> FALSE]

\* p.peer: the sessions.  state is their SessionState; q, reg the SendQueue;
\*   op the SendOp in flight; kept paused_recv_queue_; why (history) what
\*   made the session disconnect.
\* p.closed, p.attached, p.waiting: the bridge's closed_, upstream_ and
\*   pending_to_upstream_.
\* p.conn: the connector; ops are its operations in the kernel, mapped its
\*   entry in worker.connectors, results the calls of on_connect_result_.
\* p.hs, p.plain: handshake_complete_ and pending_plaintext_ of a TLS session.
\* p.live: worker.live_connectors.
\* p.stop, p.posts: where Stop is, and what it has posted to the ring.
\* p.late (history): accepted after StopAccepting.
\* p.sent, p.given, p.wire (history): chunks each end has sent, how many the
\*   session accepted for forwarding, chunks that left it.
InitWith(max) ==
  p = [tls |-> max.tls, max |-> max, peer |-> [r \in Roles |-> Peer0],
       closed |-> FALSE, attached |-> FALSE, waiting |-> <<>>,
       conn |-> Connector0, live |-> 0, hs |-> FALSE, plain |-> <<>>,
       stop |-> "running", late |-> FALSE, posts |-> <<>>,
       sent |-> [r \in Roles |-> 0], given |-> [r \in Roles |-> 0],
       wire |-> [r \in Roles |-> <<>>]]

Init == \E max \in Bounds : InitWith(max)

Open(s, r) == s.peer[r].state = "open"
\* weak_ptr::lock: the session has been attached and is not yet released.
Locked(s, r) == s.peer[r].state \in {"open", "closing"} /\ (r = "U" => s.attached)

-----------------------------------------------------------------------------
(* What the bridge and the peers use of Session *)

DisconnectFor(s, r, why) ==
  IF Open(s, r)
  THEN [s EXCEPT !.peer[r].state = "closing", !.peer[r].why = why] ELSE s

\* Mutant: the close does not wait for the operation in flight.
CloseOnEmptyQueue(s, r) ==
  IF s.peer[r].flush /\ s.peer[r].q = <<>>
  THEN DisconnectFor(s, r, "flushed") ELSE s

TryDisconnectAfterFlush(s, r) ==
  IF s.peer[r].flush /\ s.peer[r].q = <<>> /\ s.peer[r].op = <<>>
  THEN DisconnectFor(s, r, "flushed") ELSE s

DisconnectAfterFlush(s, r) ==
  IF Open(s, r)
  THEN TryDisconnectAfterFlush([s EXCEPT !.peer[r].flush = TRUE], r) ELSE s

-----------------------------------------------------------------------------
(* ProxyBridge *)

\* ClosePair and OnPeerDisconnected close the bridge and drop what waits for
\* the upstream; they differ in how the sessions are closed.
CloseBridge(s) == [s EXCEPT !.closed = TRUE, !.waiting = <<>>]

ClosePair(s) ==
  LET down(t) == IF Locked(t, "D") THEN DisconnectFor(t, "D", "pair") ELSE t
      up(t)   == IF Locked(t, "U") THEN DisconnectFor(t, "U", "pair") ELSE t
  IN  IF s.closed THEN s ELSE up(down(CloseBridge(s)))

OnPeerDisconnected(s, r) ==
  IF s.closed THEN s
  ELSE IF r = "U"
       THEN IF Locked(s, "D") THEN DisconnectAfterFlush(CloseBridge(s), "D")
                              ELSE CloseBridge(s)
       ELSE IF Locked(s, "U") THEN DisconnectFor(CloseBridge(s), "U", "pair")
                              ELSE CloseBridge(s)

QueuePendingToUpstream(s, c) ==
  IF ConnectLimit # 0 /\ Len(s.waiting) + 1 > ConnectLimit
  THEN ClosePair(s)
  ELSE [s EXCEPT !.waiting = Append(@, c)]

\* Session::Send, defined below, and whether it accepts the buffer.
RECURSIVE Send(_, _, _)
SendAccepts(s, r) == Open(s, r) /\ Len(s.peer[r].q) < MaxPending

\* The TLS session keeps plaintext back until the handshake is done and while
\* the queue is high.
KeepsPlaintext(s, r) ==
  r = "D" /\ s.tls /\ Open(s, r) /\ (~s.hs \/ s.peer[r].bp)

PlaintextFits(s) == PlaintextLimit = 0 \/ Len(s.plain) + 1 <= PlaintextLimit

QueuePendingPlaintext(s, c) ==
  IF PlaintextFits(s) THEN [s EXCEPT !.plain = Append(@, c)] ELSE s

\* SendProxyPayload of the plain and of the TLS session, and the value it
\* returns.  CopyToSendBuffer failing takes the path of a refused Send.
PayloadAccepted(s, r) ==
  IF KeepsPlaintext(s, r) THEN PlaintextFits(s) ELSE SendAccepts(s, r)

SendProxyPayload(s, r, c) ==
  LET t == IF PayloadAccepted(s, r) THEN [s EXCEPT !.given[r] = @ + 1] ELSE s
  IN  IF KeepsPlaintext(s, r) THEN QueuePendingPlaintext(t, c) ELSE Send(t, r, c)

Forward(s, from, c) ==
  LET to == Other(from) IN
  IF s.closed THEN s
  ELSE IF from = "D" /\ ~Locked(s, "U") THEN QueuePendingToUpstream(s, c)
  ELSE IF from = "U" /\ ~Locked(s, "D") THEN ClosePair(s)
  ELSE IF PayloadAccepted(s, to) THEN SendProxyPayload(s, to, c)
  ELSE ClosePair(SendProxyPayload(s, to, c))

\* OnRecv of either session, after the handshake in the TLS case, where a
\* pair found closed after a Forward disconnects the session.
AfterForward(s, r) ==
  IF r = "D" /\ s.tls /\ s.closed THEN DisconnectFor(s, "D", "own") ELSE s

OnRecv(s, r, c) == AfterForward(Forward(s, r, c), r)

RECURSIVE DrainPausedRecv(_, _)
DrainPausedRecv(s, r) ==
  IF ~Open(s, r) \/ s.peer[r].paused \/ s.peer[r].kept = <<>> THEN s
  ELSE DrainPausedRecv(OnRecv([s EXCEPT !.peer[r].kept = Tail(@)], r,
                              Head(s.peer[r].kept)), r)

ResumeRecv(s, r) == DrainPausedRecv([s EXCEPT !.peer[r].paused = FALSE], r)

\* Mutant: only the high watermark reaches the other session.
NeverResume(s, r, active) ==
  LET to == Other(r) IN
  IF s.closed \/ ~Locked(s, to) \/ ~Open(s, to) \/ ~active THEN s
  ELSE [s EXCEPT !.peer[to].paused = TRUE]

OnPeerBackpressure(s, r, active) ==
  LET to == Other(r) IN
  IF s.closed \/ ~Locked(s, to) \/ ~Open(s, to) THEN s
  ELSE IF active THEN [s EXCEPT !.peer[to].paused = TRUE]
  ELSE ResumeRecv(s, to)

\* OnBackpressure of the session itself, after the bridge's.
PauseOwn(s, r)  == [s EXCEPT !.peer[r].paused = @ \/ PauseOnHigh]
ResumeOwn(s, r) == IF PauseOnHigh THEN ResumeRecv(s, r) ELSE s

UpdateBackpressure(s, r) ==
  LET depth == Len(s.peer[r].q) IN
  IF ~s.peer[r].bp /\ s.max.high # 0 /\ depth >= s.max.high
  THEN PauseOwn(OnPeerBackpressure([s EXCEPT !.peer[r].bp = TRUE], r, TRUE), r)
  ELSE IF s.peer[r].bp /\ depth <= Low
  THEN ResumeOwn(OnPeerBackpressure([s EXCEPT !.peer[r].bp = FALSE], r, FALSE), r)
  ELSE s

\* RegisterSend, and the drain at the end of OnSend: the drained batch is
\* submitted only after the watermark callbacks, and dropped if they left the
\* session closing or another send in flight.
SubmitBatch(s, r, batch) ==
  IF Open(s, r) /\ s.peer[r].op = <<>>
  THEN [s EXCEPT !.peer[r].op = batch] ELSE s

SendQueued(s, r) ==
  IF s.peer[r].op # <<>> \/ s.peer[r].q = <<>> THEN s
  ELSE SubmitBatch(UpdateBackpressure([s EXCEPT !.peer[r].q = <<>>], r),
                   r, s.peer[r].q)

\* The end of Send: `reg' is what the exchange of send_registered_ returned.
RegisterSend(s, r, reg) ==
  IF reg \/ ~Open(s, r) THEN s ELSE SendQueued(s, r)

Send(s, r, c) ==
  IF SendAccepts(s, r)
  THEN RegisterSend(
         UpdateBackpressure(
           [s EXCEPT !.peer[r].q = Append(@, c), !.peer[r].reg = TRUE], r),
         r, s.peer[r].reg)
  ELSE DisconnectFor(s, r, "own")

\* FlushPendingPlaintext of the TLS session; a refused send disconnects it.
RECURSIVE FlushPendingPlaintext(_)
FlushPendingPlaintext(s) ==
  LET t == [s EXCEPT !.plain = Tail(@)] IN
  IF ~s.hs \/ s.plain = <<>> \/ s.peer["D"].bp THEN s
  ELSE IF SendAccepts(s, "D")
  THEN FlushPendingPlaintext(Send(t, "D", Head(s.plain)))
  ELSE DisconnectFor(t, "D", "own")

RECURSIVE FlushPendingToUpstream(_, _)
FlushPendingToUpstream(s, chunks) ==
  IF chunks = <<>> THEN s
  ELSE IF PayloadAccepted(s, "U")
  THEN FlushPendingToUpstream(SendProxyPayload(s, "U", Head(chunks)), Tail(chunks))
  ELSE ClosePair(SendProxyPayload(s, "U", Head(chunks)))

\* Mutant: what the client sent before the upstream was there is forgotten.
AttachWithoutFlush(s) ==
  IF s.closed THEN DisconnectFor(s, "U", "pair")
  ELSE [s EXCEPT !.attached = TRUE, !.waiting = <<>>]

\* AttachUpstream of a session that has just started.
AttachUpstream(s) ==
  IF s.closed THEN DisconnectFor(s, "U", "pair")
  ELSE FlushPendingToUpstream([s EXCEPT !.attached = TRUE, !.waiting = <<>>],
                              s.waiting)

-----------------------------------------------------------------------------
(* ProxyConnector and the server's StartConnector *)

\* NotifyFinished: the callback of StartConnector takes the connector off the
\* worker.
NotifyFinished(s) ==
  IF s.conn.mapped
  THEN [s EXCEPT !.conn.mapped = FALSE, !.live = @ - 1] ELSE s

MaybeRelease(s) ==
  IF s.conn.pending = 0 THEN [s EXCEPT !.conn.self = FALSE] ELSE s

NotifyConnectResult(s) ==
  [s EXCEPT !.conn.results = IF @ = 0 THEN 1 ELSE @]

\* Submit one more operation of the connector.
Prep(s, op) ==
  [s EXCEPT !.conn.pending = @ + 1, !.conn.ops = @ \cup {op}]

\* Cancel the connect, or the timeout, if it is still in flight.  `prep' says
\* whether the cancel could be allocated and prepared.
CancelConnect(s, prep) ==
  IF s.conn.connecting /\ prep THEN Prep(s, "cancel_connect") ELSE s

CancelTimeout(s, prep) ==
  LET t == [s EXCEPT !.conn.armed = FALSE] IN
  IF s.conn.armed /\ prep THEN Prep(t, "cancel_timeout") ELSE t

\* StartConnector with ProxyConnector::Start: `how' says how far it gets.
\* "fails" is a socket, event or connect that cannot be had; the timeout is
\* best effort.
StartConnector(s, how) ==
  LET base == Prep([s EXCEPT !.conn.started = TRUE, !.conn.self = TRUE,
                            !.conn.mapped = TRUE, !.conn.connecting = TRUE,
                            !.live = @ + 1], "connect")
  IN  CASE how = "fails" -> ClosePair(s)
        [] how = "untimed" -> base
        [] how = "timed" -> Prep([base EXCEPT !.conn.armed = TRUE], "timeout")

Cancel(s, prep) ==
  LET t == ClosePair([s EXCEPT !.conn.finished = TRUE]) IN
  IF s.conn.finished THEN s
  ELSE MaybeRelease(NotifyFinished(CancelTimeout(CancelConnect(t, prep), prep)))

\* The completion of `op' is taken from the kernel.
Completed(s, op) ==
  [s EXCEPT !.conn.pending = @ - 1, !.conn.ops = @ \ {op}]

ConnectFailed(s) ==
  MaybeRelease(NotifyFinished(ClosePair(
    [NotifyConnectResult(s) EXCEPT !.conn.finished = TRUE])))

\* Mutant: the bridge is not looked at again when the connection is there.
ConnectedEvenIfClosed(s) ==
  LET t == [s EXCEPT !.peer["U"].state = "open", !.attached = TRUE]
  IN  MaybeRelease(NotifyFinished(
        [NotifyConnectResult(t) EXCEPT !.conn.finished = TRUE]))

\* OnConnect with a connection: the upstream session is created, started and
\* attached.
Connected(s) ==
  IF s.closed THEN ConnectFailed(s)
  ELSE MaybeRelease(NotifyFinished(
         [NotifyConnectResult(AttachUpstream([s EXCEPT !.peer["U"].state = "open"]))
            EXCEPT !.conn.finished = TRUE]))

OnConnect(s, ok, prep) ==
  LET done == [Completed(s, "connect") EXCEPT !.conn.connecting = FALSE]
      next == CancelTimeout(done, prep)
  IN  IF s.conn.finished THEN MaybeRelease(done)
      ELSE IF ok THEN Connected(next) ELSE ConnectFailed(next)

\* OnTimeout, which fired or was cancelled.
OnTimeout(s, fired, prep) ==
  LET done == [Completed(s, "timeout") EXCEPT !.conn.armed = FALSE]
      late == [NotifyConnectResult(done) EXCEPT !.conn.finished = TRUE]
  IN  IF s.conn.finished \/ ~fired THEN MaybeRelease(done)
      ELSE MaybeRelease(NotifyFinished(CancelConnect(ClosePair(late), prep)))

\* Mutant: the completion of a cancel does not look whether it was the last.
OnCancelKeeps(s, op) == Completed(s, op)

OnCancel(s, op) == MaybeRelease(Completed(s, op))

-----------------------------------------------------------------------------
(* Steps of the ring thread *)

\* The session factory of Start, and Session::Start.  A plain session comes
\* with its connector; a TLS one waits for the handshake.  A connection may
\* still be accepted after StopAccepting.
Accept(how) ==
  /\ p.peer["D"].state = "none" /\ ~p.closed
  /\ LET s == [p EXCEPT !.late = p.stop # "running"] IN
     p' = IF p.tls THEN [s EXCEPT !.peer["D"].state = "open"]
          ELSE IF how = "fails" THEN StartConnector(s, how)
          ELSE [StartConnector(s, how) EXCEPT !.peer["D"].state = "open"]

\* DriveHandshake completing: NotifyReady starts the connector, and a failure
\* of any part disconnects.
Handshake(how) ==
  /\ p.tls /\ Open(p, "D") /\ ~p.hs
  /\ LET t == StartConnector([p EXCEPT !.hs = TRUE], how)
     IN  p' = IF how = "fails" THEN DisconnectFor(t, "D", "own")
              ELSE FlushPendingPlaintext(t)

\* A recv completion with data.
Recv(r) ==
  LET c == p.sent[r] + 1
      s == [p EXCEPT !.sent[r] = c]
  IN  /\ Open(p, r)
      /\ r = "D" /\ p.tls => p.hs
      /\ c <= p.max[r]
      /\ p' = IF ~p.peer[r].paused THEN OnRecv(s, r, c)
              ELSE IF PausedLimit # 0 /\ Len(p.peer[r].kept) + 1 > PausedLimit
              THEN DisconnectFor(s, r, "own")
              ELSE [s EXCEPT !.peer[r].kept = Append(@, c)]

\* End of stream, a receive or send error, or the inactivity timeout.
Fails(r) ==
  /\ Open(p, r)
  /\ p' = DisconnectFor(p, r, "own")

\* OnSocketDrained of the TLS session.
OnSocketDrained(s, r) ==
  IF r = "D" /\ s.tls THEN FlushPendingPlaintext(s) ELSE s

\* OnSend of a complete write, and what it does once drained.
SendNext(s, r) ==
  IF s.peer[r].op # <<>> THEN s
  ELSE IF s.peer[r].q # <<>> THEN SendQueued(s, r)
  ELSE TryDisconnectAfterFlush(s, r)

OnSend(r) ==
  LET s == [p EXCEPT !.wire[r] = @ \o p.peer[r].op, !.peer[r].op = <<>>,
                     !.peer[r].reg = p.peer[r].q # <<>>]
  IN  /\ Open(p, r)
      /\ p.peer[r].op # <<>>
      /\ p' = SendNext(TryDisconnectAfterFlush(
                         OnSocketDrained(UpdateBackpressure(s, r), r), r), r)

\* TryRelease, when the operations of a closing session are over.  Some of
\* its last send may have been written.
Release(r) ==
  /\ p.peer[r].state = "closing"
  /\ \E n \in 0..Len(p.peer[r].op) :
       p' = OnPeerDisconnected(
              [p EXCEPT !.wire[r] = @ \o SubSeq(p.peer[r].op, 1, n),
                        !.peer[r] = [@ EXCEPT !.state = "closed", !.op = <<>>,
                                              !.q = <<>>, !.kept = <<>>]], r)

ConnectDone(ok, prep) ==
  /\ "connect" \in p.conn.ops
  /\ p' = OnConnect(p, ok, prep)

\* A cancel that was taken by the kernel makes the timeout end early.
TimeoutDone(fired, prep) ==
  /\ "timeout" \in p.conn.ops
  /\ ~fired => ~p.conn.armed
  /\ p' = OnTimeout(p, fired, prep)

CancelDone(op) ==
  /\ op \in p.conn.ops
  /\ p' = OnCancel(p, op)

-----------------------------------------------------------------------------
(* TcpProxyServer::Stop on the thread that calls it.  Cancelling and draining
   are posted to the ring; a wait reads two counters, one after the other.  *)

RunPost(prep) ==
  /\ p.posts # <<>>
  /\ LET s == [p EXCEPT !.posts = Tail(@)] IN
     p' = IF Head(p.posts) = "cancel" THEN Cancel(s, prep)
          ELSE DisconnectFor(DisconnectFor(s, "D", "own"), "U", "own")

LiveSessions == \E r \in Roles : p.peer[r].state \in {"open", "closing"}

StopGoes(from, to) == p.stop = from /\ p' = [p EXCEPT !.stop = to]

\* StopAccepting, then the two rounds of CancelConnectors, which posts the
\* connectors found on the worker, and DrainSessions.
StopPosts ==
  \/ p.max.stop /\ StopGoes("running", "cancel1")
  \/ \E n \in {<<"cancel1", "drain1">>, <<"cancel2", "drain2">>} :
       /\ p.stop = n[1]
       /\ p' = [p EXCEPT !.stop = n[2],
                         !.posts = IF p.conn.mapped THEN Append(@, "cancel") ELSE @]
  \/ \E n \in {<<"drain1", "wait1">>, <<"drain2", "wait2">>} :
       /\ p.stop = n[1]
       /\ p' = [p EXCEPT !.stop = n[2], !.posts = Append(@, "drain")]

\* Mutant: only the sessions are waited for.
WaitForZeroSessions == ~LiveSessions /\ StopGoes("wait1", "quiet")

\* WaitForZeroConnections: sessions first, connectors second; or time is up.
WaitForZeroConnections ==
  \/ ~LiveSessions /\ StopGoes("wait1", "seen1")
  \/ ~LiveSessions /\ StopGoes("wait2", "seen2")
  \/ p.live = 0 /\ (StopGoes("seen1", "quiet") \/ StopGoes("seen2", "quiet"))
  \/ p.live # 0 /\ (StopGoes("seen1", "wait1") \/ StopGoes("seen2", "wait2"))
  \/ StopGoes("wait1", "cancel2")
  \/ StopGoes("wait2", "forced")

-----------------------------------------------------------------------------
Starts == {"fails", "untimed", "timed"}

\* What the kernel completes and the ring runs.
RingSteps ==
  \/ \E r \in Roles : OnSend(r) \/ Release(r)
  \/ \E ok, prep \in BOOLEAN : ConnectDone(ok, prep) \/ TimeoutDone(ok, prep)
  \/ \E op \in {"cancel_connect", "cancel_timeout"} : CancelDone(op)
  \/ \E prep \in BOOLEAN : RunPost(prep)

Next ==
  \/ \E how \in Starts : Accept(how) \/ Handshake(how)
  \/ \E r \in Roles : Recv(r) \/ Fails(r)
  \/ RingSteps
  \/ StopPosts
  \/ WaitForZeroConnections

\* The kernel completes what was submitted and the ring runs what was posted,
\* in any order: the ring thread does not stop while it has such a step.
Fairness == WF_p(RingSteps)

Spec == Init /\ [][Next]_p /\ Fairness

-----------------------------------------------------------------------------
(* Properties *)

UpTo(n) == [i \in 1..n |-> i]

\* What leaves the upstream session is a prefix of what the client sent, and
\* what leaves the downstream session a prefix of what the server sent: no
\* chunk is lost in the middle, repeated or overtaken on its way through the
\* paused queue, pending_to_upstream_, pending_plaintext_ and the send queue,
\* whatever the order in which watermark callbacks nest (Forward,
\* FlushPendingToUpstream, FlushPendingPlaintext, DrainPausedRecv).
ForwardedInOrder ==
  \A r \in Roles : IsPrefix(p.wire[r], UpTo(p.sent[Other(r)]))

\* A session that may still receive is paused exactly while the session it
\* feeds is over its high watermark: OnPeerBackpressure never leaves one
\* paused for good, nor lets one run into a queue that is full.
PausedIffPeerIsHigh ==
  \A r \in Roles :
    ~p.closed /\ Open(p, r) /\ p.attached /\ Open(p, Other(r))
      => p.peer[r].paused = p.peer[Other(r)].bp

\* A downstream session closed by DisconnectPeerAfterFlush has sent everything
\* the bridge gave it, plaintext the TLS session held back included.
FlushedBeforeClose ==
  p.peer["D"].why = "flushed" => Len(p.wire["D"]) = p.given["D"]

\* The connector's counters and references agree with the kernel and with the
\* worker across every order of connect, timeout, cancel and Stop: each
\* operation in flight is counted and keeps self_ref_, the worker's entry and
\* live_connectors last until the connector has finished, and its result is
\* reported at most once.  Once the bridge is closed no upstream stays open
\* and a downstream stays only to flush.
ConnectorAndPairAgree ==
  LET c == p.conn IN
  /\ c.pending = Cardinality(c.ops)
  /\ c.self = (c.ops # {})
  /\ c.mapped = (c.started /\ ~c.finished)
  /\ p.live = IF c.mapped THEN 1 ELSE 0
  /\ p.closed => /\ ~Open(p, "U")
                 /\ Open(p, "D") => /\ p.peer["D"].flush
                                    /\ p.peer["D"].op # <<>>

\* When Stop has seen no session and then no connector, there is none and none
\* can appear, unless a connection was accepted after StopAccepting: the two
\* counters were not read on either side of a connector finishing and its
\* upstream session starting.
QuietIsQuiet == p.stop = "quiet" /\ ~p.late => ~LiveSessions /\ p.live = 0

\* A pair that is closed is released: both sessions end, every operation of
\* the connector completes and its last reference goes.
ClosedPairReleased ==
  p.closed ~> /\ \A r \in Roles : p.peer[r].state \in {"none", "closed"}
              /\ p.conn.ops = {} /\ ~p.conn.self /\ p.live = 0
=============================================================================
