---------------------------- MODULE HttpSession ----------------------------
(***************************************************************************)
(* web::HttpSession on its ring thread: the parser's callbacks, buffered   *)
(* and streamed request bodies, inline, streamed, file and deferred        *)
(* responses, the request deadline and closing.                            *)
(*                                                                         *)
(* One connection carries a script of requests.  A request is a record of  *)
(* what its route and handlers do; the parser is reduced to the callbacks  *)
(* it makes for the stages of a request, and a receive completion delivers *)
(* one or more stages.  Session is reduced to its send queue, to closing   *)
(* at once or after a flush, and to the release that waits for AppIo.      *)
(***************************************************************************)
EXTENDS Integers, Sequences, SequencesExt, FiniteSets

CONSTANTS
  Scripts,          \* the sequences of requests explored.  A request says its
                    \* route's kind ("badfile": a file whose read fails;
                    \* "shortfile", "cutfile": one that has shrunk, whose last
                    \* chunk is read in part or not at all; "bad": the parser
                    \* rejects it), whether the client keeps the connection
                    \* and, of an upload, whether on_headers accepts it, what
                    \* happens to its body, what on_complete does
  MaxPending,       \* send_queue_max_pending
  ChunksPerWrite,   \* max_chunks_per_write
  BodyChunks,       \* chunks of a large body or of a file
  MaxBatch,         \* bound: stages delivered by one completion
  MaxAllocs         \* bound: the allocations of one callback that may fail

VARIABLE h

NoStream == [kind |-> "none", left |-> 0, req |-> 0]
NoUpload == [req |-> 0, sent |-> FALSE, deferred |-> FALSE, rejected |-> FALSE]

\* h.req, h.stage: the request and stage to arrive next.  h.stopped is the
\* parser's stop_requested_, h.error the request its status_ failed at, or 0.  h.in_progress is
\* request_in_progress_.  h.stream stands for file_stream_ and body_stream_,
\* h.upload for active_stream_, h.deferred for the DeferredResponses the
\* application holds.  h.out lists the request of every buffer accepted by
\* Send; h.pending of them are not yet written.  h.pool holds, during a
\* callback, whether its next allocations succeed.
\* History: heads (responses begun per request), full (responses queued to
\* the end), handled (requests read to the end), aborted (deferred responses
\* given up), accepted and ended (uploads accepted; on_complete and on_abort
\* calls per request), overlap (a response was begun while another one was
\* being streamed), files (descriptors open), reclosed (a descriptor was
\* closed when it was closed already), lost (requests whose response was left
\* out for want of a buffer, or ended before its file's announced size, with
\* the connection kept), late (408 sent).
InitWith(script, pipelined) ==
  LET reqs == DOMAIN script IN
  h = [script |-> script, pipelined |-> pipelined, req |-> 1, stage |-> 1,
       state |-> "open", flush |-> FALSE, why |-> "none",
       stopped |-> FALSE, error |-> 0, in_progress |-> FALSE,
       stream |-> NoStream, upload |-> NoUpload, deferred |-> {},
       out |-> <<>>, pending |-> 0,
       heads |-> [i \in reqs |-> 0], full |-> {}, overlap |-> FALSE,
       handled |-> {}, aborted |-> {}, accepted |-> {},
       ended |-> [i \in reqs |-> 0], files |-> 0, reclosed |-> FALSE,
       lost |-> {}, late |-> FALSE, pool |-> <<>>]

Init == \E script \in Scripts, pipelined \in BOOLEAN : InitWith(script, pipelined)

Stages(r) == IF r.kind = "upload" THEN <<"headers", "body", "complete">>
             ELSE <<"headers", "complete">>

-----------------------------------------------------------------------------
(* What the session uses of Session *)

Disconnect(s, why) ==
  IF s.state = "open" THEN [s EXCEPT !.state = "closing", !.why = why] ELSE s

HasPendingAppWork(s) == s.deferred # {} \/ s.stream.kind # "none"

\* Mutant: what the application has deferred is not waited for.
FlushIgnoresDeferred(s) ==
  IF s.flush /\ s.pending = 0 /\ s.stream.kind = "none"
  THEN Disconnect(s, "flushed") ELSE s

TryDisconnectAfterFlush(s) ==
  IF s.flush /\ s.pending = 0 /\ ~HasPendingAppWork(s)
  THEN Disconnect(s, "flushed") ELSE s

DisconnectAfterFlush(s) ==
  IF s.state = "open" THEN TryDisconnectAfterFlush([s EXCEPT !.flush = TRUE])
  ELSE s

\* Send, which a closing session and a full queue refuse.
Accepts(s) == s.state = "open" /\ s.pending < MaxPending

Send(s, i) ==
  IF Accepts(s) THEN [s EXCEPT !.out = Append(@, i), !.pending = @ + 1]
  ELSE Disconnect(s, "refused")

SendHead(s, i) ==
  IF Accepts(s)
  THEN [Send(s, i) EXCEPT !.heads[i] = @ + 1,
                          !.overlap = @ \/ s.stream.kind # "none"]
  ELSE Send(s, i)

\* BufferPool::Allocate, which fails when the pool is exhausted.
Starved(s) == s.pool # <<>> /\ ~Head(s.pool)

Allocate(s) == [s EXCEPT !.pool = IF @ = <<>> THEN @ ELSE Tail(@)]

-----------------------------------------------------------------------------
(* HttpSessionFile.cpp: streamed bodies *)

IsFile(kind) == kind \in {"file", "badfile", "shortfile", "cutfile"}

\* ResetFileStream and ResetBodyStream
ResetStream(s) ==
  [s EXCEPT !.stream = NoStream,
            !.files = IF IsFile(s.stream.kind) THEN @ - 1 ELSE @]

\* The loop of PumpFileStream and PumpBodyStream over at most `n' chunks.  No
\* buffer, a read error or a refused send gives the stream up and closes the
\* session; a read that comes up short just ends the stream.
RECURSIVE PumpChunks(_, _)
PumpChunks(s, n) ==
  LET i == s.stream.req
      kind == s.stream.kind
      t == Allocate(s)
      next == [Send(t, i) EXCEPT !.stream.left = @ - 1]
  IN  IF s.stream.left = 0 THEN [ResetStream(s) EXCEPT !.full = @ \cup {i}]
      ELSE IF n = 0 THEN s
      ELSE IF Starved(s) \/ kind = "badfile" THEN Disconnect(ResetStream(t), "failed")
      ELSE IF kind = "cutfile" /\ s.stream.left = 1
           THEN [ResetStream(t) EXCEPT !.lost = @ \cup {i}]
      ELSE IF ~Accepts(s) THEN ResetStream(Send(t, i))
      ELSE IF kind = "shortfile" /\ s.stream.left = 1
           THEN [ResetStream(next) EXCEPT !.lost = @ \cup {i}]
      ELSE PumpChunks(next, n - 1)

PumpStream(s) ==
  IF s.stream.kind = "none" THEN s ELSE PumpChunks(s, ChunksPerWrite)

\* StartFileStream and StartBodyStream.  SendFile opens the file before and
\* closes it when the stream did not start.  Unless another stream was in the
\* way, ResetFileStream has closed it by then: the header or the first chunk
\* failed, and with it the session.
StartStream(s, i, kind, chunks) ==
  LET begun == [s EXCEPT !.stream = [kind |-> kind, left |-> chunks, req |-> i],
                         !.files = IF IsFile(kind) THEN @ + 1 ELSE @]
      headed == [SendHead(begun, i) EXCEPT !.overlap = s.overlap]
      started == IF Accepts(s) THEN PumpStream(headed) ELSE ResetStream(headed)
  IN  IF s.stream.kind # "none" THEN [s EXCEPT !.overlap = TRUE]
      ELSE [started EXCEPT !.reclosed = @ \/ (IsFile(kind) /\ started.state # "open")]

\* A response of one buffer.
SendWhole(s, i) ==
  [SendHead(s, i) EXCEPT !.full = IF Accepts(s) THEN @ \cup {i} ELSE @]

\* HttpResponse::Build and sending what it built.
BuildAndSend(s, i) ==
  IF Starved(s) THEN Allocate(s) ELSE SendWhole(Allocate(s), i)

\* The end of HttpResponse::Send: the header, and the body as a stream.
SendHeader(s, i, chunks) ==
  IF Starved(s) THEN [Allocate(s) EXCEPT !.lost = @ \cup {i}]
  ELSE IF chunks = 0 THEN SendWhole(Allocate(s), i)
  ELSE StartStream(Allocate(s), i, "large", chunks)

\* HttpResponse::Send: in one buffer, or else the header by itself.
SendInline(s, i, chunks) ==
  IF Starved(s) THEN SendHeader(Allocate(s), i, chunks) ELSE BuildAndSend(s, i)

\* HttpResponse::Send and SendFile.  SendFile without a buffer for the header
\* closes the file and leaves the response open; its caller sends it, empty.
SendResponse(s, i, kind) ==
  CASE kind = "small" -> SendInline(s, i, 1)
    [] kind = "large" -> SendHeader(s, i, BodyChunks)
    [] OTHER -> IF Starved(s)
                THEN [SendInline(Allocate(s), i, 0) EXCEPT !.lost = @ \cup {i}]
                ELSE StartStream(Allocate(s), i, kind, BodyChunks)

-----------------------------------------------------------------------------
(* Requests *)

\* RequestContext::DeferResponse
Defer(s, i) == [s EXCEPT !.deferred = @ \cup {i}]

\* Mutant: a deferred response leaves the connection to the next request.
HandleDeferredKeepAlive(s, i) ==
  LET r == s.script[i]
      done == IF r.kind = "defer" THEN Defer(s, i) ELSE SendResponse(s, i, r.kind)
  IN  IF r.keep_alive THEN [done EXCEPT !.in_progress = FALSE]
      ELSE [DisconnectAfterFlush(done) EXCEPT !.stopped = TRUE, !.in_progress = FALSE]

\* HandleRequest with Router::Dispatch.  Deferring clears keep_alive.
HandleRequest(s, i) ==
  LET r == s.script[i]
      t == [s EXCEPT !.in_progress = FALSE]
      done == IF r.kind = "defer" THEN Defer(t, i) ELSE SendResponse(t, i, r.kind)
  IN  IF r.keep_alive /\ r.kind # "defer" THEN done
      ELSE [DisconnectAfterFlush(done) EXCEPT !.stopped = TRUE]

\* PrepareRequestBody: a route with a stream handler takes the body as it
\* comes.  A rejected upload is answered at once and its body discarded.
PrepareRequestBody(s, i) ==
  LET r == s.script[i]
      t == [s EXCEPT !.upload = [NoUpload EXCEPT !.req = i]]
  IN  IF r.kind # "upload" THEN s
      ELSE IF r.accept THEN [t EXCEPT !.accepted = @ \cup {i}]
      ELSE [SendResponse(t, i, "small") EXCEPT !.upload.rejected = TRUE,
                                               !.upload.sent = TRUE]

\* OnBody with HandleBodyChunk: a body over max_body_bytes fails the parser
\* before the handler sees it; a handler that refuses the chunk is answered.
HandleBody(s, i) ==
  LET r == s.script[i]
      refused == [SendResponse(s, i, "small") EXCEPT !.upload.sent = TRUE]
  IN  CASE r.body = "too_large" -> [s EXCEPT !.error = i]
        [] r.body = "fails" /\ ~s.upload.rejected -> [refused EXCEPT !.error = i]
        [] OTHER -> s

\* CompleteStreamingRequest.  A deferred response ends the connection for the
\* parser, but nothing asks for it to be closed after the flush.
CompleteStreamingRequest(s, i) ==
  LET r == s.script[i]
      t == [s EXCEPT !.in_progress = FALSE, !.upload = NoUpload]
      called == [t EXCEPT !.ended[i] = @ + 1]
  IN  IF s.upload.rejected
      THEN IF r.keep_alive THEN t
           ELSE [DisconnectAfterFlush(t) EXCEPT !.stopped = TRUE]
      ELSE IF r.complete = "defer" THEN [Defer(called, i) EXCEPT !.stopped = TRUE]
      ELSE LET done == SendResponse(called, i, "small") IN
           IF r.keep_alive THEN done
           ELSE [DisconnectAfterFlush(done) EXCEPT !.stopped = TRUE]

\* Mutant: on_abort is called, but the upload stays active.
AbortKeepsUpload(s) ==
  IF s.upload.req = 0 THEN s ELSE [s EXCEPT !.ended[s.upload.req] = @ + 1]

AbortStreamingRequest(s) ==
  IF s.upload.req = 0 THEN s
  ELSE [s EXCEPT !.upload = NoUpload,
                 !.ended[s.upload.req] = @ + 1]

-----------------------------------------------------------------------------
(* Receiving *)

\* HttpParser::Feed: the callbacks of the stages in a chunk, until the parser
\* is stopped or fails.  What is left over is never parsed.
Deliver(s, i, stage) ==
  LET t == [s EXCEPT !.handled = @ \cup {i}] IN
  CASE stage = "headers" /\ s.script[i].kind = "bad" -> [s EXCEPT !.error = i]
    [] stage = "headers" -> PrepareRequestBody(s, i)
    [] stage = "body" -> HandleBody(s, i)
    [] stage = "complete" -> IF s.upload.req # 0 THEN CompleteStreamingRequest(t, i)
                             ELSE HandleRequest(t, i)

Advance(s) ==
  IF s.stage < Len(Stages(s.script[s.req])) THEN [s EXCEPT !.stage = @ + 1]
  ELSE [s EXCEPT !.stage = 1, !.req = @ + 1]

RECURSIVE Feed(_, _)
Feed(s, n) ==
  IF n = 0 \/ s.req > Len(s.script) THEN s
  ELSE LET i == s.req
           stage == Stages(s.script[i])[s.stage]
       IN  IF s.stopped \/ s.error # 0 THEN Feed(Advance(s), n - 1)
           ELSE Feed(Deliver(Advance(s), i, stage), n - 1)

\* Mutant: the parse error is answered even if the handler has answered.
FailParseTwice(s, i) ==
  Disconnect(BuildAndSend(AbortStreamingRequest(s), i), "failed")

\* The error path of HandleHttpRecv
FailParse(s, i) ==
  LET t == AbortStreamingRequest(s) IN
  Disconnect(IF s.upload.sent THEN t ELSE BuildAndSend(t, i), "failed")

\* FailRequestDeadlineIfExpired
FailRequestDeadline(s, i) ==
  LET t == AbortStreamingRequest(s)
      timeout == [SendHead(Allocate(t), i) EXCEPT !.late = TRUE]
  IN  Disconnect(IF Starved(t) THEN t ELSE timeout, "failed")

\* A callback runs with the buffers the pool has left for it.
Begin(outcomes) == [h EXCEPT !.pool = outcomes]
End(s) == [s EXCEPT !.pool = <<>>]
Outcomes == [1..MaxAllocs -> BOOLEAN]

\* The request the parser is in the middle of, or will read next.
Current(s) == IF s.req > Len(s.script) THEN Len(s.script) ELSE s.req

\* The client sends the next request when it has the whole answer to the last
\* one, or, pipelining, at any time.
ClientSends ==
  h.pipelined \/ h.req = 1 \/ h.stage # 1 \/ (h.req - 1 \in h.full /\ h.pending = 0)

\* The stages a chunk can hold.
ChunkLengths ==
  {n \in 1..MaxBatch :
     h.pipelined \/ n <= Len(Stages(h.script[h.req])) - h.stage + 1}

\* HandleHttpRecv
OnRecv(expired) ==
  /\ h.state = "open"
  /\ h.req <= Len(h.script)
  /\ ClientSends
  /\ \E n \in ChunkLengths, outcomes \in Outcomes :
       LET s == Begin(outcomes)
           fed == Feed([s EXCEPT !.in_progress = TRUE], n)
       IN  IF expired /\ h.in_progress THEN h' = End(FailRequestDeadline(s, h.req))
           ELSE IF fed.error # 0 THEN h' = End(FailParse(fed, fed.error))
           ELSE h' = End(fed)

-----------------------------------------------------------------------------
(* The rest of the ring thread's work *)

\* OnTimeoutTick
OnTimeoutTick ==
  /\ h.state = "open"
  /\ h.in_progress
  /\ \E outcomes \in Outcomes :
       h' = End(FailRequestDeadline(Begin(outcomes), Current(h)))

\* Mutant: the stream is not pumped when the socket has drained.
DrainedWithoutPump ==
  /\ h.state = "open"
  /\ h.pending > 0
  /\ \E n \in 1..h.pending :
       h' = TryDisconnectAfterFlush([h EXCEPT !.pending = @ - n])

\* OnSend, with OnSocketDrained: some of the queue has been written.
OnSocketDrained ==
  /\ h.state = "open"
  /\ h.pending > 0
  /\ \E n \in 1..h.pending, outcomes \in Outcomes :
       h' = End(TryDisconnectAfterFlush(PumpStream([Begin(outcomes) EXCEPT !.pending = @ - n])))

\* DeferredResponse::Complete, Abort and destruction, with EndAppIo.
EndDeferred(i, send) ==
  /\ i \in h.deferred
  /\ \E outcomes \in Outcomes :
       LET s == IF send THEN End(SendResponse(Begin(outcomes), i, "small")) ELSE h IN
       h' = TryDisconnectAfterFlush(
              [s EXCEPT !.deferred = @ \ {i},
                        !.aborted = IF send THEN @ ELSE @ \cup {i}])

\* The client closes, the socket fails, or the inactivity timeout passes.
Fails ==
  /\ h.state = "open"
  /\ \/ h' = Disconnect(h, "failed")
     \/ ~HasPendingAppWork(h) /\ h' = Disconnect(h, "inactive")

MayRelease == h.state = "closing" /\ h.deferred = {}

\* TryRelease and OnDisconnected
Release ==
  /\ MayRelease
  /\ h' = [AbortStreamingRequest(ResetStream(h)) EXCEPT !.state = "closed"]

Reqs == DOMAIN h.script

Next ==
  \/ \E expired \in BOOLEAN : OnRecv(expired)
  \/ OnTimeoutTick
  \/ OnSocketDrained
  \/ \E i \in Reqs, send \in BOOLEAN : EndDeferred(i, send)
  \/ Fails
  \/ Release

\* The peer reads what is written, the application completes what it deferred,
\* and operations of a closing session end.
Fairness ==
  /\ WF_h(OnSocketDrained)
  /\ WF_h(\E i \in DOMAIN h.script : EndDeferred(i, TRUE))
  /\ WF_h(Release)

Spec == Init /\ [][Next]_h /\ Fairness

-----------------------------------------------------------------------------
(* Properties *)

\* The buffers of one response follow each other and responses follow the
\* order of the requests, however recv completions, send completions and
\* deferred responses alternate, as long as no request is answered while
\* another answer is being streamed (StartBodyStream, PumpBodyStream,
\* OnSocketDrained).
ResponsesInRequestOrder ==
  ~h.overlap => \A j, k \in DOMAIN h.out : j < k => h.out[j] <= h.out[k]

\* A request is answered once: the parser's error path and the router's know
\* of an answer an upload handler has sent.  Only the 408 of the deadline may
\* come on top, and it is the last buffer of the connection.
AnsweredOnce ==
  \A i \in Reqs : h.heads[i] <= (IF h.late /\ h.out # <<>> /\ i = Last(h.out) THEN 2 ELSE 1)

\* The handler of an upload it accepted hears of its end exactly once, by
\* on_complete or on_abort, whatever ends it: the last chunk, a parse error,
\* the deadline or the connection.  A file sent is closed by then.  SendFile
\* closes it a second time only where the start of the stream failed, which
\* has closed the session as well.
UploadEndsOnce ==
  /\ \A i \in h.accepted : h.ended[i] <= 1
  /\ h.reclosed => h.state # "open"
  /\ h.state = "closed" => h.files = 0 /\ \A i \in h.accepted : h.ended[i] = 1

\* Closing after a flush cuts nothing off: every request read to its end has
\* its response queued to the end and written, deferred ones included, unless
\* the application gave it up, answers overlapped, or the response was lost
\* for want of a buffer or of what its file announced (HttpResponse::Send,
\* SendFile, PumpFileStream).  A session is not released under a
\* DeferredResponse, which points at it.
NothingCutOff ==
  /\ h.why = "flushed" /\ ~h.overlap =>
       h.pending = 0 /\ h.handled \subseteq h.full \cup h.aborted \cup h.lost
  /\ h.state = "closed" => h.deferred = {}

\* A request read to its end is answered to the end, or the connection closes,
\* unless the application gives the answer up, answers overlap, or it is lost
\* as above: a keep-alive connection then stays open without an answer.
EveryRequestAnswered ==
  (h.handled # {}) ~>
    h.state # "open" \/ h.overlap \/ h.handled \subseteq h.full \cup h.aborted \cup h.lost
=============================================================================
