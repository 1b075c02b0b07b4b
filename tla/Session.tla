------------------------------- MODULE Session -------------------------------
(***************************************************************************)
(* core::io::Session with its SendQueue, on its owner ring.                *)
(*                                                                         *)
(* Every field of a session is used on the owner thread only: completions, *)
(* ticks and posted calls run there one after another.  What makes it hard *)
(* is re-entrancy.  The session calls the application in the middle of its *)
(* own functions (OnRecv, OnBackpressure, OnSocketDrained, ...) and the    *)
(* application calls the session back, so a function continues in a state  *)
(* its callees have changed.  The model keeps the C++ call stack: `stack'  *)
(* lists the calls still to be made, the running one first, and one action *)
(* runs a function from one call out of it to the next.                    *)
(***************************************************************************)
EXTENDS Integers, Sequences, SequencesExt

CONSTANTS
  MaxPending,          \* SendQueue::max_pending_
  MaxSendIovecs,       \* kMaxSendIovecs
  HighWatermark, LowWatermark,  \* send_queue_{high,low}_watermark_ (0: off)
  HighBytes, LowBytes,          \* send_queue_{high,low}_bytes_ (0: off)
  PausedRecvLimit,     \* paused_recv_byte_limit_ in chunks (0: unlimited)
  PauseRecvOnBackpressure,      \* pause_recv_on_backpressure_
  DisconnectOnHigh,             \* disconnect_on_high_watermark_
  DisconnectDelayed,            \* backpressure_disconnect_delay_ > 0
  InactivityTimeout,            \* inactivity_timeout_ > 0
  TracksAppWork,       \* HasPendingAppWork() reports pending application io
  PrepMayFail,         \* a full submission queue or failed allocation happens
  RecvErrors,          \* kinds of final recv result without data that happen
  AppCalls,            \* the calls the application makes
  BufferSizes,         \* sizes of the buffers it sends
  MaxBytes,            \* bound: bytes accepted for sending
  MaxChunks,           \* bound: chunks the peer sends
  MaxCalls,            \* bound: calls of the application
  MaxTicks             \* bound: ticks of an open session

ASSUME WatermarksOrdered == LowWatermark <= HighWatermark /\ LowBytes <= HighBytes

VARIABLES
  started,         \* Start() has been called
  state,           \* state_
  pending_io,      \* pending_io_
  pending_app_io,  \* pending_app_io_
  notified,        \* history: number of calls of OnDisconnected
  managed,         \* the SessionManager holds the session
  ops,             \* kernel: operations in flight, by kind
  shut,            \* kernel: the socket has been shut down
  active_recv,     \* active_recv_ev_ != nullptr
  recv_paused,     \* recv_paused_
  paused_recv,     \* paused_recv_queue_
  received,        \* history: number of chunks the kernel has handed over
  delivered,       \* history: the chunks passed to OnRecv
  cqe,             \* the recv completion OnRecv is in the middle of handling
  active_send,     \* active_send_ev_ != nullptr
  send_op,         \* the iovecs of the SendOp in flight
  pending,         \* SendQueue::pending_
  registered,      \* SendQueue::registered_
  pending_bytes,   \* SendQueue::pending_bytes_
  backpressure,    \* backpressure_active_
  flush_close,     \* disconnect_after_flush_
  accepted,        \* history: number of bytes accepted by Send
  wire,            \* history: the bytes written to the socket
  stack,           \* the calls still to be made on the owner thread
  calls, ticks     \* history: calls of the application, ticks

lifeVars == <<started, state, pending_io, pending_app_io, notified, managed>>
kernelVars == <<ops, shut>>
recvVars == <<active_recv, recv_paused, paused_recv, received, delivered, cqe>>
sendVars == <<active_send, send_op, pending, registered, pending_bytes,
              backpressure, flush_close, accepted, wire>>
boundVars == <<calls, ticks>>
vars == <<lifeVars, kernelVars, recvVars, sendVars, stack, boundVars>>

Kinds == {"recv", "send", "shutdown", "cancel"}
NoCqe == [res |-> "none", more |-> TRUE]
Callbacks == {"OnConnected", "OnRecv", "OnSocketDrained", "OnBackpressure",
              "OnTimeoutTick", "OnDisconnected"}

Init ==
  /\ started = FALSE
  /\ state = "open"
  /\ pending_io = 0 /\ pending_app_io = 0
  /\ notified = 0 /\ managed = FALSE
  /\ ops = [k \in Kinds |-> 0] /\ shut = FALSE
  /\ active_recv = FALSE /\ recv_paused = FALSE /\ paused_recv = <<>>
  /\ received = 0 /\ delivered = <<>> /\ cqe = NoCqe
  /\ active_send = FALSE /\ send_op = <<>>
  /\ pending = <<>> /\ registered = FALSE /\ pending_bytes = 0
  /\ backpressure = FALSE /\ flush_close = FALSE
  /\ accepted = 0 /\ wire = <<>>
  /\ stack = <<>>
  /\ calls = 0 /\ ticks = 0

-----------------------------------------------------------------------------
(* The owner thread's call stack *)

Frame(name) == [call |-> name, bufs |-> <<>>]
Batch(bufs) == [call |-> "SendBatch", bufs |-> bufs]
Frames(names) == [i \in DOMAIN names |-> Frame(names[i])]

Running(name) == stack # <<>> /\ Head(stack).call = name

\* The running function ends, or goes on as the given calls.
Continue(frames) == stack' = frames \o Tail(stack)

\* The owner thread is between two completions, ticks or posted calls.
Idle == started /\ stack = <<>> /\ cqe = NoCqe

\* The application can call the session: from a callback, or by a call that
\* RunOnOwner makes inline or posts to the owner ring.
InApp == Idle \/ \E c \in Callbacks : Running(c)

\* Mutant: a session that is closing still takes work.
CanUseWhileClosing == state # "closed"

CanUse == state = "open"
PrepResults == IF PrepMayFail THEN BOOLEAN ELSE {TRUE}
HasPendingAppWork == TracksAppWork /\ pending_app_io # 0

CompletePendingIo == IF pending_io > 0 THEN pending_io - 1 ELSE pending_io

\* Start: the session is added to the manager before OnConnected and the
\* first RegisterRecv.
Start ==
  /\ ~started
  /\ started' = TRUE
  /\ managed' = TRUE
  /\ stack' = Frames(<<"OnConnected", "RegisterRecv">>)
  /\ UNCHANGED <<state, pending_io, pending_app_io, notified, kernelVars,
                 recvVars, sendVars, boundVars>>

\* A callback returns.  OnTimeoutTick returns TRUE to end the tick.
Return ==
  /\ \E c \in Callbacks : Running(c)
  /\ \/ Continue(<<>>)
     \/ Running("OnTimeoutTick") /\ stack' = Tail(Tail(stack))
  /\ UNCHANGED <<lifeVars, kernelVars, recvVars, sendVars, boundVars>>

-----------------------------------------------------------------------------
(* Closing and release *)

\* DisconnectOnOwner: only the first caller gets past TryBegin.  The shutdown
\* is submitted, then, best effort, a cancel of the recv in flight.  When the
\* shutdown cannot be prepared the session stays kClosing.
DisconnectOnOwner ==
  /\ Running("DisconnectOnOwner")
  /\ \/ /\ ~CanUse
        /\ Continue(<<>>)
        /\ UNCHANGED <<state, pending_io, ops>>
     \/ /\ CanUse
        /\ FALSE \in PrepResults
        /\ state' = "closing"
        /\ Continue(Frames(<<"TryRelease">>))
        /\ UNCHANGED <<pending_io, ops>>
     \/ /\ CanUse
        /\ state' = "draining"
        /\ \E cancel \in {n \in 0..1 : /\ n = 1 => active_recv
                                       /\ n = 0 => ~active_recv \/ PrepMayFail} :
             /\ pending_io' = pending_io + 1 + cancel
             /\ ops' = [ops EXCEPT !["shutdown"] = @ + 1, !["cancel"] = @ + cancel]
        /\ Continue(Frames(<<"TryRelease">>))
  /\ UNCHANGED <<started, pending_app_io, notified, managed, shut, recvVars,
                 sendVars, boundVars>>

\* TryRelease, up to its call of OnDisconnected.
MayRelease == state \in {"closing", "draining"} /\ pending_io = 0 /\ pending_app_io = 0

TryRelease ==
  /\ Running("TryRelease")
  /\ \/ /\ MayRelease
        /\ state' = "closed"
        /\ notified' = notified + 1
        /\ Continue(Frames(<<"OnDisconnected", "Release">>))
     \/ /\ ~MayRelease
        /\ Continue(<<>>)
        /\ UNCHANGED <<state, notified>>
  /\ UNCHANGED <<started, pending_io, pending_app_io, managed, kernelVars,
                 recvVars, sendVars, boundVars>>

\* SessionManager::Release
Release ==
  /\ Running("Release")
  /\ managed' = FALSE
  /\ Continue(<<>>)
  /\ UNCHANGED <<started, state, pending_io, pending_app_io, notified,
                 kernelVars, recvVars, sendVars, boundVars>>

\* TryDisconnectAfterFlush: nothing in flight, queued or promised by the
\* application.
Flushed == ~active_send /\ pending = <<>> /\ ~HasPendingAppWork

TryDisconnectAfterFlush ==
  /\ Running("TryDisconnectAfterFlush")
  /\ Continue(IF flush_close /\ CanUse /\ Flushed
              THEN Frames(<<"DisconnectOnOwner">>) ELSE <<>>)
  /\ UNCHANGED <<lifeVars, kernelVars, recvVars, sendVars, boundVars>>

\* OnDisconnect and OnCancel: the completions of the closing operations.
OnClosingOp(kind) ==
  /\ Idle
  /\ ops[kind] > 0
  /\ ops' = [ops EXCEPT ![kind] = @ - 1]
  /\ shut' = (shut \/ kind = "shutdown")
  /\ pending_io' = CompletePendingIo
  /\ stack' = Frames(<<"TryRelease">>)
  /\ UNCHANGED <<started, state, pending_app_io, notified, managed, recvVars,
                 sendVars, boundVars>>

\* Tick up to its call of OnTimeoutTick, which is made when the check interval
\* has passed, and what follows that call.
Tick ==
  /\ Idle
  /\ ticks < MaxTicks
  /\ ticks' = ticks + 1
  /\ \/ /\ ~CanUse
        /\ stack' = Frames(<<"TryRelease">>)
     \/ /\ CanUse
        /\ stack' \in {Frames(<<"TickTimeouts">>),
                      Frames(<<"OnTimeoutTick", "TickTimeouts">>)}
  /\ UNCHANGED <<lifeVars, kernelVars, recvVars, sendVars, calls>>

TickTimeouts ==
  /\ Running("TickTimeouts")
  /\ \/ /\ \/ InactivityTimeout /\ ~HasPendingAppWork
           \/ backpressure /\ DisconnectOnHigh /\ DisconnectDelayed
        /\ Continue(Frames(<<"DisconnectOnOwner">>))
     \/ Continue(<<>>)
  /\ UNCHANGED <<lifeVars, kernelVars, recvVars, sendVars, boundVars>>

-----------------------------------------------------------------------------
(* Receiving *)

\* RegisterRecv.  A failure to submit disconnects.
RegisterRecv ==
  /\ Running("RegisterRecv")
  /\ \/ /\ ~CanUse \/ recv_paused \/ active_recv
        /\ Continue(<<>>)
        /\ UNCHANGED <<pending_io, ops, active_recv>>
     \/ /\ CanUse /\ ~recv_paused /\ ~active_recv
        /\ pending_io' = pending_io + 1
        /\ ops' = [ops EXCEPT !["recv"] = @ + 1]
        /\ active_recv' = TRUE
        /\ Continue(<<>>)
     \/ /\ CanUse /\ ~recv_paused /\ ~active_recv
        /\ FALSE \in PrepResults
        /\ Continue(Frames(<<"DisconnectOnOwner">>))
        /\ UNCHANGED <<pending_io, ops, active_recv>>
  /\ UNCHANGED <<started, state, pending_app_io, notified, managed, shut,
                 recv_paused, paused_recv, received, delivered, cqe, sendVars,
                 boundVars>>

\* QueuePausedRecv refuses a chunk beyond the limit.
QueueHasRoom == PausedRecvLimit = 0 \/ Len(paused_recv) + 1 <= PausedRecvLimit

\* OnRecv(CQE) up to the end of its call of OnRecv(view).  A completion
\* without F_MORE is the last of its multishot operation.
OnRecvData(more) ==
  /\ Idle
  /\ ops["recv"] > 0
  /\ received < MaxChunks
  /\ received' = received + 1
  /\ cqe' = [res |-> "data", more |-> more]
  /\ active_recv' = (more /\ active_recv)
  /\ ops' = [ops EXCEPT !["recv"] = IF more THEN @ ELSE @ - 1]
  /\ \/ /\ ~CanUse
        /\ UNCHANGED <<stack, paused_recv, delivered>>
     \/ /\ CanUse /\ recv_paused /\ QueueHasRoom
        /\ paused_recv' = Append(paused_recv, received + 1)
        /\ UNCHANGED <<stack, delivered>>
     \/ /\ CanUse /\ recv_paused /\ ~QueueHasRoom
        /\ stack' = Frames(<<"DisconnectOnOwner">>)
        /\ UNCHANGED <<paused_recv, delivered>>
     \/ /\ CanUse /\ ~recv_paused
        /\ delivered' = Append(delivered, received + 1)
        /\ stack' = Frames(<<"OnRecv">>)
        /\ UNCHANGED paused_recv
  /\ UNCHANGED <<lifeVars, shut, recv_paused, sendVars, boundVars>>

OnRecvEnd(res) ==
  /\ Idle
  /\ ops["recv"] > 0
  /\ cqe' = [res |-> res, more |-> FALSE]
  /\ active_recv' = FALSE
  /\ ops' = [ops EXCEPT !["recv"] = @ - 1]
  /\ UNCHANGED <<lifeVars, shut, recv_paused, paused_recv, received, delivered,
                 sendVars, stack, boundVars>>

\* Mutant: a closing session is not released by its last recv completion.
EpilogueForgetsRelease(c) ==
  IF ~CanUse THEN <<>>
  ELSE IF c.res \in {"eof", "error"} THEN <<"DisconnectOnOwner">>
  ELSE IF ~c.more /\ ~recv_paused THEN <<"RegisterRecv">>
  ELSE <<>>

\* The calls OnRecv(CQE) ends with.
RecvEpilogue(c) ==
  IF ~CanUse THEN <<"TryRelease">>
  ELSE IF c.res \in {"eof", "error"} THEN <<"DisconnectOnOwner">>
  ELSE IF ~c.more /\ ~recv_paused THEN <<"RegisterRecv">>
  ELSE <<>>

\* The rest of OnRecv(CQE): the final completion is counted only now.
OnRecvRest ==
  /\ stack = <<>>
  /\ cqe # NoCqe
  /\ pending_io' = IF cqe.more THEN pending_io ELSE CompletePendingIo
  /\ stack' = Frames(RecvEpilogue(cqe))
  /\ cqe' = NoCqe
  /\ UNCHANGED <<started, state, pending_app_io, notified, managed, kernelVars,
                 active_recv, recv_paused, paused_recv, received, delivered,
                 sendVars, boundVars>>

\* Mutant: resuming leaves the chunks queued while paused where they are.
ResumeWithoutDrain == <<"RegisterRecv">>

\* The calls that follow the end of a pause.
AfterPause == <<"DrainPausedRecv", "RegisterRecv">>

\* One round of the loop of DrainPausedRecv.
DrainPausedRecv ==
  /\ Running("DrainPausedRecv")
  /\ \/ /\ CanUse /\ ~recv_paused /\ paused_recv # <<>>
        /\ delivered' = Append(delivered, Head(paused_recv))
        /\ paused_recv' = Tail(paused_recv)
        /\ Continue(Frames(<<"OnRecv", "DrainPausedRecv">>))
     \/ /\ ~CanUse \/ recv_paused \/ paused_recv = <<>>
        /\ Continue(<<>>)
        /\ UNCHANGED <<delivered, paused_recv>>
  /\ UNCHANGED <<lifeVars, kernelVars, active_recv, recv_paused, received, cqe,
                 sendVars, boundVars>>

-----------------------------------------------------------------------------
(* Sending *)

Bytes(bufs) == Len(FlattenSeq(bufs))

\* The iovecs that the first `advanced' bytes cover in full.
Consumed(iovs, advanced) ==
  CHOOSE c \in 0..Len(iovs) :
    /\ Bytes(SubSeq(iovs, 1, c)) <= advanced
    /\ c < Len(iovs) => Bytes(SubSeq(iovs, 1, c + 1)) > advanced

\* Mutant: the iovec written in part is sent again from its start.
AdvanceWholeIovecs(iovs, advanced) ==
  SubSeq(iovs, Consumed(iovs, advanced) + 1, Len(iovs))

\* AdvanceSendState: drop the iovecs written in full, move the base of the
\* next one.
AdvanceSendState(iovs, advanced) ==
  LET c == Consumed(iovs, advanced)
      left == SubSeq(iovs, c + 1, Len(iovs))
      into == advanced - Bytes(SubSeq(iovs, 1, c))
  IN  IF left = <<>> THEN left
      ELSE <<SubSeq(Head(left), into + 1, Len(Head(left)))>> \o Tail(left)

HighWatermarkReached ==
  \/ HighWatermark # 0 /\ Len(pending) >= HighWatermark
  \/ HighBytes # 0 /\ pending_bytes >= HighBytes

LowWatermarkReached ==
  /\ HighWatermark = 0 \/ Len(pending) <= LowWatermark
  /\ HighBytes = 0 \/ pending_bytes <= LowBytes

\* UpdateBackpressure up to its call of OnBackpressure, and the rest of its
\* two branches.
UpdateBackpressure ==
  /\ Running("UpdateBackpressure")
  /\ \/ /\ ~backpressure /\ HighWatermarkReached
        /\ backpressure' = TRUE
        /\ Continue(Frames(<<"OnBackpressure", "AfterHigh">>))
     \/ /\ backpressure /\ LowWatermarkReached
        /\ backpressure' = FALSE
        /\ Continue(Frames(<<"OnBackpressure", "AfterLow">>))
     \/ /\ IF backpressure THEN ~LowWatermarkReached ELSE ~HighWatermarkReached
        /\ Continue(<<>>)
        /\ UNCHANGED backpressure
  /\ UNCHANGED <<lifeVars, kernelVars, recvVars, active_send, send_op, pending,
                 registered, pending_bytes, flush_close, accepted, wire,
                 boundVars>>

AfterHigh ==
  /\ Running("AfterHigh")
  /\ recv_paused' = (recv_paused \/ PauseRecvOnBackpressure)
  /\ Continue(IF DisconnectOnHigh /\ ~DisconnectDelayed
              THEN Frames(<<"DisconnectOnOwner">>) ELSE <<>>)
  /\ UNCHANGED <<lifeVars, kernelVars, active_recv, paused_recv, received,
                 delivered, cqe, sendVars, boundVars>>

AfterLow ==
  /\ Running("AfterLow")
  /\ recv_paused' = (recv_paused /\ ~PauseRecvOnBackpressure)
  /\ Continue(IF PauseRecvOnBackpressure
              THEN Frames(AfterPause) ELSE <<>>)
  /\ UNCHANGED <<lifeVars, kernelVars, active_recv, paused_recv, received,
                 delivered, cqe, sendVars, boundVars>>

\* SendQueue::DrainInto(out, kMaxSendIovecs) on a queue that is not empty; the
\* caller updates the backpressure state and sends the batch.
DrainCount == IF MaxSendIovecs < Len(pending) THEN MaxSendIovecs ELSE Len(pending)

BytesAfterDrain(out) ==
  IF DrainCount = Len(pending) THEN 0 ELSE pending_bytes - Bytes(out)

SendDrained(out) == <<Frame("UpdateBackpressure"), Batch(out)>>

DrainInto ==
  LET out == SubSeq(pending, 1, DrainCount) IN
  /\ pending' = SubSeq(pending, DrainCount + 1, Len(pending))
  /\ pending_bytes' = BytesAfterDrain(out)
  /\ Continue(SendDrained(out))

RegisterSend ==
  /\ Running("RegisterSend")
  /\ \/ CanUse /\ ~active_send /\ pending # <<>> /\ DrainInto
     \/ /\ ~CanUse \/ active_send \/ pending = <<>>
        /\ Continue(<<>>)
        /\ UNCHANGED <<pending, pending_bytes>>
  /\ UNCHANGED <<lifeVars, kernelVars, recvVars, active_send, send_op,
                 registered, backpressure, flush_close, accepted, wire,
                 boundVars>>

\* SendBatch and SendInFlightBatch.  A batch that finds the session closing or
\* a send in flight is dropped.
SendBatch ==
  /\ Running("SendBatch")
  /\ \/ /\ ~CanUse \/ active_send
        /\ Continue(<<>>)
        /\ UNCHANGED <<pending_io, ops, active_send, send_op>>
     \/ /\ CanUse /\ ~active_send
        /\ send_op' = Head(stack).bufs
        /\ pending_io' = pending_io + 1
        /\ ops' = [ops EXCEPT !["send"] = @ + 1]
        /\ active_send' = TRUE
        /\ Continue(<<>>)
     \/ /\ CanUse /\ ~active_send
        /\ FALSE \in PrepResults
        /\ Continue(Frames(<<"DisconnectOnOwner">>))
        /\ UNCHANGED <<pending_io, ops, active_send, send_op>>
  /\ UNCHANGED <<started, state, pending_app_io, notified, managed, shut,
                 recvVars, pending, registered, pending_bytes, backpressure,
                 flush_close, accepted, wire, boundVars>>

\* The part of OnSend after TryDisconnectAfterFlush.
SendNext ==
  /\ Running("SendNext")
  /\ \/ ~active_send /\ pending # <<>> /\ DrainInto
     \/ /\ active_send \/ pending = <<>>
        /\ Continue(IF active_send THEN <<>>
                    ELSE Frames(<<"TryDisconnectAfterFlush">>))
        /\ UNCHANGED <<pending, pending_bytes>>
  /\ UNCHANGED <<lifeVars, kernelVars, recvVars, active_send, send_op,
                 registered, backpressure, flush_close, accepted, wire,
                 boundVars>>

\* The first `n' bytes of the SendOp reach the socket, and its operation ends.
Written(n) == wire' = wire \o SubSeq(FlattenSeq(send_op), 1, n)

\* Mutant: active_send_ev_ keeps pointing at the operation.
SendOpEndsDangling ==
  /\ ops' = [ops EXCEPT !["send"] = @ - 1]
  /\ send_op' = <<>>
  /\ pending_io' = CompletePendingIo
  /\ UNCHANGED active_send

SendOpEnds ==
  /\ ops' = [ops EXCEPT !["send"] = @ - 1]
  /\ send_op' = <<>>
  /\ active_send' = FALSE
  /\ pending_io' = CompletePendingIo

\* OnSend of a session that is closing: the result no longer matters.
OnSendClosing ==
  /\ Idle
  /\ ops["send"] > 0
  /\ ~CanUse
  /\ \E n \in 0..Bytes(send_op) : Written(n)
  /\ SendOpEnds
  /\ stack' = Frames(<<"TryRelease">>)
  /\ UNCHANGED <<started, state, pending_app_io, notified, managed, shut,
                 recvVars, pending, registered, pending_bytes, backpressure,
                 flush_close, accepted, boundVars>>

\* OnSend with an error.
OnSendError ==
  /\ Idle
  /\ ops["send"] > 0
  /\ CanUse
  /\ SendOpEnds
  /\ stack' = Frames(<<"DisconnectOnOwner">>)
  /\ UNCHANGED <<started, state, pending_app_io, notified, managed, shut,
                 recvVars, pending, registered, pending_bytes, backpressure,
                 flush_close, accepted, wire, boundVars>>

\* OnSend of a short write: the same SendOp is submitted again for the rest,
\* its pending_io_ unit kept, or, when that fails, given up.
OnSendShort ==
  /\ Idle
  /\ ops["send"] > 0
  /\ CanUse
  /\ \E n \in 0..(Bytes(send_op) - 1) :
       /\ Written(n)
       /\ \/ /\ send_op' = AdvanceSendState(send_op, n)
             /\ UNCHANGED <<ops, active_send, pending_io, stack>>
          \/ /\ FALSE \in PrepResults
             /\ SendOpEnds
             /\ stack' = Frames(<<"DisconnectOnOwner">>)
  /\ UNCHANGED <<started, state, pending_app_io, notified, managed, shut,
                 recvVars, pending, registered, pending_bytes, backpressure,
                 flush_close, accepted, boundVars>>

\* SendQueue::MarkSent
MarkSent == registered' = (registered /\ pending # <<>>)

\* OnSend of a complete write, up to its call of UpdateBackpressure.
OnSendDone ==
  /\ Idle
  /\ ops["send"] > 0
  /\ CanUse
  /\ Written(Bytes(send_op))
  /\ SendOpEnds
  /\ MarkSent
  /\ stack' = Frames(<<"UpdateBackpressure", "OnSocketDrained",
                      "TryDisconnectAfterFlush", "SendNext">>)
  /\ UNCHANGED <<started, state, pending_app_io, notified, managed, shut,
                 recvVars, pending, pending_bytes, backpressure, flush_close,
                 accepted, boundVars>>

-----------------------------------------------------------------------------
(* The calls of the application.  On a session that is not open all but
   BeginAppIo and EndAppIo return at once.                               *)

AppCall(name) ==
  /\ name \in AppCalls
  /\ InApp
  /\ calls < MaxCalls
  /\ calls' = calls + 1
  /\ UNCHANGED ticks

\* Send: SendQueue::Push, then UpdateBackpressure, then RegisterSend if this
\* push began a send cycle.  A full queue disconnects.
NeedsRegister == ~registered

Send(size) ==
  /\ AppCall("Send")
  /\ CanUse
  /\ accepted + size <= MaxBytes
  /\ \/ /\ Len(pending) >= MaxPending
        /\ stack' = Frames(<<"DisconnectOnOwner">>) \o stack
        /\ UNCHANGED <<pending, registered, pending_bytes, accepted>>
     \/ /\ Len(pending) < MaxPending
        /\ pending' = Append(pending, [i \in 1..size |-> accepted + i])
        /\ pending_bytes' = pending_bytes + size
        /\ registered' = TRUE
        /\ accepted' = accepted + size
        /\ stack' = Frames(<<"UpdateBackpressure">>
                           \o IF NeedsRegister THEN <<"RegisterSend">> ELSE <<>>)
                    \o stack
  /\ UNCHANGED <<lifeVars, kernelVars, recvVars, active_send, send_op,
                 backpressure, flush_close, wire>>

Disconnect ==
  /\ AppCall("Disconnect")
  /\ CanUse
  /\ stack' = Frames(<<"DisconnectOnOwner">>) \o stack
  /\ UNCHANGED <<lifeVars, kernelVars, recvVars, sendVars>>

DisconnectAfterFlush ==
  /\ AppCall("DisconnectAfterFlush")
  /\ CanUse
  /\ flush_close' = TRUE
  /\ stack' = Frames(<<"TryDisconnectAfterFlush">>) \o stack
  /\ UNCHANGED <<lifeVars, kernelVars, recvVars, active_send, send_op, pending,
                 registered, pending_bytes, backpressure, accepted, wire>>

PauseRecv ==
  /\ AppCall("PauseRecv")
  /\ CanUse
  /\ recv_paused' = TRUE
  /\ UNCHANGED <<lifeVars, kernelVars, active_recv, paused_recv, received,
                 delivered, cqe, sendVars, stack>>

ResumeRecv ==
  /\ AppCall("ResumeRecv")
  /\ CanUse
  /\ recv_paused' = FALSE
  /\ stack' = Frames(AfterPause) \o stack
  /\ UNCHANGED <<lifeVars, kernelVars, active_recv, paused_recv, received,
                 delivered, cqe, sendVars>>

BeginAppIo ==
  /\ AppCall("AppIo")
  /\ pending_app_io' = pending_app_io + 1
  /\ UNCHANGED <<started, state, pending_io, notified, managed, kernelVars,
                 recvVars, sendVars, stack>>

\* Mutant: the end of the work does not look at the deferred close.
EndWorkReleasesOnly == <<"TryRelease">>

AfterAppIo == <<"TryDisconnectAfterFlush", "TryRelease">>

\* EndAppIo: the counter does not go below zero.
EndAppIo ==
  /\ InApp
  /\ \/ /\ pending_app_io > 0
        /\ pending_app_io' = pending_app_io - 1
        /\ UNCHANGED boundVars
     \/ /\ pending_app_io = 0
        /\ AppCall("AppIo")
        /\ UNCHANGED pending_app_io
  /\ stack' = Frames(AfterAppIo) \o stack
  /\ UNCHANGED <<started, state, pending_io, notified, managed, kernelVars,
                 recvVars, sendVars>>

-----------------------------------------------------------------------------
(* The specification *)

CallStep ==
  \/ DisconnectOnOwner \/ TryRelease \/ Release \/ TryDisconnectAfterFlush
  \/ TickTimeouts \/ RegisterRecv \/ OnRecvRest \/ DrainPausedRecv
  \/ UpdateBackpressure \/ AfterHigh \/ AfterLow
  \/ RegisterSend \/ SendBatch \/ SendNext

CompletionStep ==
  \/ \E kind \in {"shutdown", "cancel"} : OnClosingOp(kind)
  \/ \E more \in BOOLEAN : OnRecvData(more)
  \/ \E res \in RecvErrors : OnRecvEnd(res)
  \/ OnSendClosing \/ OnSendError \/ OnSendShort \/ OnSendDone

AppStep ==
  \/ Return
  \/ \E size \in BufferSizes : Send(size)
  \/ Disconnect \/ DisconnectAfterFlush \/ PauseRecv \/ ResumeRecv
  \/ BeginAppIo \/ EndAppIo

Next == Start \/ Tick \/ CallStep \/ CompletionStep \/ AppStep

Spec == Init /\ [][Next]_vars

\* The owner thread runs its calls; callbacks return and application work
\* ends; the kernel completes the closing operations and, once the socket is
\* shut down, the send and the recv still in flight.
Fairness ==
  /\ WF_vars(CallStep) /\ WF_vars(Return) /\ WF_vars(EndAppIo)
  /\ WF_vars(OnClosingOp("shutdown")) /\ WF_vars(OnClosingOp("cancel"))
  /\ WF_vars(shut /\ OnSendClosing)
  /\ WF_vars(shut /\ OnRecvEnd("eof"))

FairSpec == Spec /\ Fairness

-----------------------------------------------------------------------------
(* Properties *)

Calls == Callbacks \cup
  {"DisconnectOnOwner", "TryRelease", "Release", "TryDisconnectAfterFlush",
   "TickTimeouts", "RegisterRecv", "DrainPausedRecv", "UpdateBackpressure",
   "AfterHigh", "AfterLow", "RegisterSend", "SendBatch", "SendNext"}

\* Every variable keeps its type.  At most five operations are counted: a send,
\* the two closing ones, a recv, and the recv whose last completion is handled.
TypeOK ==
  /\ started \in BOOLEAN /\ managed \in BOOLEAN /\ shut \in BOOLEAN
  /\ state \in {"open", "closing", "draining", "closed"}
  /\ pending_io \in 0..5 /\ pending_app_io \in Nat /\ notified \in Nat
  /\ ops \in [Kinds -> Nat]
  /\ active_recv \in BOOLEAN /\ recv_paused \in BOOLEAN
  /\ paused_recv \in Seq(Nat) /\ received \in Nat /\ delivered \in Seq(Nat)
  /\ cqe \in [res : {"none", "data"} \cup RecvErrors, more : BOOLEAN]
  /\ active_send \in BOOLEAN /\ send_op \in Seq(Seq(Nat))
  /\ pending \in Seq(Seq(Nat)) /\ registered \in BOOLEAN
  /\ pending_bytes \in Nat
  /\ backpressure \in BOOLEAN /\ flush_close \in BOOLEAN
  /\ accepted \in Nat /\ wire \in Seq(Nat)
  /\ stack \in Seq([call : Calls, bufs : Seq(Seq(Nat))])

InFlight == ops["recv"] + ops["send"] + ops["shutdown"] + ops["cancel"]

\* What the session believes is what the kernel holds.  pending_io_ is the
\* number of operations whose final completion has not been handled: those in
\* flight and, inside OnRecv, the recv whose last completion is being handled.
\* active_recv_ev_ and active_send_ev_ point at an operation exactly while it
\* is in flight: one of each at most, and no pointer to a deleted one.
OperationsAccounted ==
  /\ pending_io = InFlight + IF cqe.more THEN 0 ELSE 1
  /\ ops["recv"] = IF active_recv THEN 1 ELSE 0
  /\ ops["send"] = IF active_send THEN 1 ELSE 0

\* OnDisconnected is called once, when the session closes, and the manager
\* drops the session only after that.  TryRelease has then waited for the
\* final completion of every operation: none finds a released session.
ReleasedOnce ==
  /\ notified = IF state = "closed" THEN 1 ELSE 0
  /\ started /\ ~managed => state = "closed"
  /\ state = "closed" => InFlight = 0

\* OnDisconnected is the last callback: when a session that has been shut down
\* is closed no other callback is running or still to be called.  Without an
\* SQE for the shutdown there may be: Disconnect called from a callback then
\* releases at once, and OnDisconnected runs inside that callback, which goes
\* on afterwards (DisconnectOnOwner, TryRelease).
DisconnectedIsLast ==
  state = "closed" /\ shut =>
    \A i \in DOMAIN stack : stack[i].call \in Callbacks => stack[i].call = "OnDisconnected"

\* The counters of the operations are exact through every failure, and the
\* session is released once, when they say that nothing is left in the kernel;
\* with the socket shut down, OnDisconnected is the last the application hears.
ReleasedWhenQuiet == TypeOK /\ OperationsAccounted /\ ReleasedOnce /\ DisconnectedIsLast

\* Between completions an open session with queued data has a send in flight,
\* so the queue is never stranded by the registered_ flag.
QueuedDataIsBeingSent == Idle /\ CanUse /\ pending # <<>> => active_send

\* While the session is open every accepted byte is, in this order, on the
\* wire, in the SendOp, in a batch on its way to SendBatch or in the queue:
\* none is lost, duplicated or overtaken, however writes are cut.  What reaches
\* the socket is a prefix of what was accepted even while the session closes.
Batches == FlattenSeq([i \in DOMAIN stack |-> FlattenSeq(stack[i].bufs)])

SendStreamIntact ==
  /\ CanUse /\ ~Running("DisconnectOnOwner") =>
       wire \o FlattenSeq(send_op) \o Batches \o FlattenSeq(pending)
         = [i \in 1..accepted |-> i]
  /\ IsPrefix(wire, [i \in 1..accepted |-> i])

\* pending_bytes_, maintained by Push and DrainInto, is the size of the queue,
\* and between completions an open session's backpressure flag agrees with the
\* watermarks: set only above the low one, clear only below the high one.
BackpressureAgrees ==
  /\ pending_bytes = Bytes(pending)
  /\ Idle /\ CanUse => IF backpressure THEN ~LowWatermarkReached ELSE ~HighWatermarkReached

\* Chunks reach OnRecv in the order they arrived; between completions an open
\* session has passed on or queued every one of them.
RecvStreamIntact ==
  /\ \A i \in DOMAIN delivered : delivered[i] = i
  /\ Idle /\ CanUse => delivered \o paused_recv = [i \in 1..received |-> i]

\* Between completions an open session that is not paused has a recv in flight
\* and nothing left in the paused queue.
ReceivingUnlessPaused ==
  Idle /\ CanUse /\ ~recv_paused => active_recv /\ paused_recv = <<>>

\* A close deferred by DisconnectAfterFlush is not forgotten: between
\* completions it waits for a send in flight or for application work.
FlushCloseHasTrigger ==
  Idle /\ CanUse /\ flush_close => active_send \/ HasPendingAppWork

\* Between completions nothing of an open session waits for ever: queued data is
\* being sent, an unpaused session receives, a deferred close has something to
\* trigger it, and the backpressure flag agrees with the queue.
NothingStranded ==
  /\ QueuedDataIsBeingSent /\ ReceivingUnlessPaused /\ FlushCloseHasTrigger
  /\ BackpressureAgrees

\* Session implements SessionLifecycle: nothing is submitted once closing has
\* begun, no state is revisited and release happens once, when all is quiet.
Lifecycle ==
  INSTANCE SessionLifecycle WITH
    MaxClosingOps <- 2,
    phase <- IF state = "draining" THEN "closing" ELSE state,
    outstanding <- pending_io,
    appWork <- pending_app_io

ImplementsLifecycle == Lifecycle!LSpec

\* Once closing has begun the session is eventually closed and released; if no
\* SQE was to be had for the shutdown, it may instead wait for the peer to end
\* a send or a recv.
ClosingCompletes ==
  (state # "open") ~>
    \/ state = "closed" /\ ~managed
    \/ PrepMayFail /\ Idle /\ ~shut /\ ops["shutdown"] = 0 /\ ops["send"] + ops["recv"] > 0

-----------------------------------------------------------------------------
(* What the documentation says and the code does not do *)

\* docs/docs/5.producer-consumer-backpressure.md:58, paused recv queue: chunks
\* queued within the limit go to OnRecv when recv resumes.  The code drops
\* them when the peer closes its side first.
PausedBytesSurvive == state # "open" => paused_recv = <<>>
=============================================================================
