-------------------------- MODULE ActivitySession --------------------------
(***************************************************************************)
(* A connection of the activity server on its ring thread: HTTP requests   *)
(* in http_buffer_, files streamed as the socket drains, the upgrade, and  *)
(* WebSocket frames in ws_buffer_.  A client sends a script of items, each *)
(* in two parts that receive completions split and join in any way; an     *)
(* item is what HandleHttp or ProcessWsBuffer does with it:                *)
(*   "api"   answered by SendHttp, or by headers alone (HEAD, 416)         *)
(*   "file"  a file of FileChunks chunks      "gone"  a file that cannot   *)
(*   "cut"   a file emptied meanwhile                 be opened: 404       *)
(*   "bad"   a Content-Length that is no number                            *)
(*   "huge"  headers that do not end within 64 KiB                         *)
(*   "ws"    the upgrade                                                   *)
(*   "text"  a text frame that is answered    "mute"  a frame that is not  *)
(*   "ping"  "close"                          "big"   over 1 MiB           *)
(***************************************************************************)
EXTENDS Integers, Sequences, SequencesExt

CONSTANTS
  Scripts,          \* the sequences of items explored
  MaxPending,       \* send_queue_max_pending
  ChunksPerWrite,   \* file_stream_.max_chunks_per_write
  FileChunks        \* bound: chunks of a file

VARIABLE c

\* c.sent parts have arrived, c.http and c.ws_buf of them are in the buffers;
\* c.item is the next item to take from one.  c.out holds the item of every
\* buffer queued, c.pending of them not written yet.  History: handled,
\* short (files that came up short), overlap (an
\* answer begun during a file).
InitWith(script) ==
  c = [script |-> script, sent |-> 0, item |-> 1, http |-> 0, ws_buf |-> 0,
       websocket |-> FALSE, state |-> "open", flush |-> FALSE, why |-> "none",
       file |-> [item |-> 0, left |-> 0], out |-> <<>>, pending |-> 0,
       handled |-> <<>>, short |-> {}, overlap |-> FALSE]

Init == \E script \in Scripts : InitWith(script)

-----------------------------------------------------------------------------
(* What it uses of Session *)

Disconnect(s, why) ==
  IF s.state = "open" THEN [s EXCEPT !.state = "closed", !.why = why] ELSE s

\* With HasPendingAppWork: a file being sent.
TryDisconnectAfterFlush(s) ==
  IF s.flush /\ s.pending = 0 /\ s.file.item = 0 THEN Disconnect(s, "flushed") ELSE s

DisconnectAfterFlush(s) ==
  IF s.state = "open" THEN TryDisconnectAfterFlush([s EXCEPT !.flush = TRUE]) ELSE s

Accepts(s) == s.state = "open" /\ s.pending < MaxPending

SendRaw(s, i) ==
  IF Accepts(s) THEN [s EXCEPT !.out = Append(@, i), !.pending = @ + 1,
                               !.overlap = @ \/ s.file.item \notin {0, i}]
  ELSE Disconnect(s, "refused")

SendHttp(s, i) == DisconnectAfterFlush(SendRaw(s, i))

-----------------------------------------------------------------------------
(* SendFileResponse and PumpFileStream *)

ResetFileStream(s) == [s EXCEPT !.file = [item |-> 0, left |-> 0]]

\* Mutant: what is left of the file is compared one chunk too early.
RECURSIVE PumpSkipsLast(_, _)
PumpSkipsLast(s, n) ==
  LET i == s.file.item IN
  IF i = 0 THEN s
  ELSE IF s.file.left <= 1
       THEN TryDisconnectAfterFlush(ResetFileStream(s))
  ELSE IF n = 0 THEN s
  ELSE IF ~Accepts(s) THEN ResetFileStream(SendRaw(s, i))
  ELSE PumpSkipsLast([SendRaw(s, i) EXCEPT !.file.left = @ - 1], n - 1)

\* At most n chunks.  A read may fail, or come up short of the length that
\* was announced: that ends the stream.
RECURSIVE PumpFileStream(_, _)
PumpFileStream(s, n) ==
  LET i == s.file.item IN
  IF i = 0 THEN s
  ELSE IF s.file.left = 0
       THEN TryDisconnectAfterFlush(ResetFileStream(s))
  ELSE IF n = 0 THEN s
  ELSE IF ~Accepts(s) THEN ResetFileStream(SendRaw(s, i))
  ELSE PumpFileStream([SendRaw(s, i) EXCEPT !.file.left = @ - 1], n - 1)

ReadFails(s) ==
  {Disconnect(ResetFileStream(s), "failed"),
   TryDisconnectAfterFlush([ResetFileStream(s) EXCEPT !.short = @ \cup {s.file.item}])}

SendFileResponse(s, i) ==
  LET begun == [s EXCEPT !.file = [item |-> i, left |-> FileChunks],
                         !.overlap = @ \/ s.file.item # 0]
      headed == SendRaw(begun, i)
  IN  DisconnectAfterFlush(
        IF s.script[i] = "cut" THEN [ResetFileStream(headed) EXCEPT !.short = @ \cup {i}]
        ELSE PumpFileStream(headed, ChunksPerWrite))

-----------------------------------------------------------------------------
(* Receiving *)

Taken(s, buf) == [s EXCEPT ![buf] = @ - 2, !.item = @ + 1, !.handled = Append(@, s.item)]

\* HandleHttp
HandleHttp(s, i) ==
  CASE s.script[i] = "ws"   -> [SendRaw(s, i) EXCEPT !.websocket = TRUE]
    [] s.script[i] \in {"file", "cut"} -> SendFileResponse(s, i)
    [] OTHER                -> SendHttp(s, i)

\* ProcessHttpBuffer with TryParseHttp.  A bad length and headers that are too
\* long are answered, but the request stays in the buffer, and so is answered
\* again when more of it comes before the flush is done.
RECURSIVE ProcessHttpBuffer(_)
ProcessHttpBuffer(s) ==
  IF s.http = 0 \/ s.websocket \/ s.state # "open" THEN s
  ELSE IF s.script[s.item] = "huge" THEN SendHttp(s, s.item)
  ELSE IF s.http < 2 THEN s
  ELSE IF s.script[s.item] = "bad" THEN SendHttp(s, s.item)
  ELSE ProcessHttpBuffer(HandleHttp(Taken(s, "http"), s.item))

\* Mutant: one frame per completion.
ProcessOneFrame(s) ==
  IF s.ws_buf < 2 THEN s
  ELSE LET i == s.item
           t == Taken(s, "ws_buf")
       IN  CASE s.script[i] = "big"             -> Disconnect(s, "big")
             [] s.script[i] = "close"           -> DisconnectAfterFlush(t)
             [] s.script[i] \in {"text", "ping"} -> SendRaw(t, i)
             [] OTHER                           -> t

\* Once Disconnect was called the rest of the buffer is still handled.
RECURSIVE ProcessWsBuffer(_)
ProcessWsBuffer(s) ==
  IF s.ws_buf < 2 THEN s
  ELSE LET i == s.item
           t == Taken(s, "ws_buf")
       IN  CASE s.script[i] = "big"             -> Disconnect(s, "big")
             [] s.script[i] = "close"           -> DisconnectAfterFlush(t)
             [] s.script[i] \in {"text", "ping"} -> ProcessWsBuffer(SendRaw(t, i))
             [] OTHER                           -> ProcessWsBuffer(t)

\* A client sends frames once it has the answer to its upgrade.
MaySend(n) ==
  /\ c.sent + n <= 2 * Len(c.script)
  /\ \A i \in DOMAIN c.script :
       c.script[i] = "ws" /\ c.sent + n > 2 * i => c.websocket /\ c.pending = 0

OnRecv ==
  /\ c.state = "open"
  /\ \E n \in 1..(2 * Len(c.script)) :
       /\ MaySend(n)
       /\ LET s == [c EXCEPT !.sent = @ + n] IN
          c' = IF c.websocket THEN ProcessWsBuffer([s EXCEPT !.ws_buf = @ + n])
               ELSE ProcessHttpBuffer([s EXCEPT !.http = @ + n])

\* Mutant: the file is not pumped further.
DrainedWithoutPump ==
  /\ c.state = "open" /\ c.pending > 0
  /\ \E n \in 1..c.pending : c' = TryDisconnectAfterFlush([c EXCEPT !.pending = @ - n])

\* OnSend: some of the queue is written, and OnSocketDrained pumps the file.
OnSocketDrained ==
  /\ c.state = "open" /\ c.pending > 0
  /\ \E n \in 1..c.pending :
       LET s == [c EXCEPT !.pending = @ - n] IN
       \/ c' = TryDisconnectAfterFlush(PumpFileStream(s, ChunksPerWrite))
       \/ s.file.item # 0 /\ c' \in ReadFails(s)

\* The client closes or the socket fails; OnDisconnected resets the stream.
Fails ==
  /\ c.state = "open"
  /\ c' = Disconnect(ResetFileStream(c), "failed")

Next == OnRecv \/ OnSocketDrained \/ Fails

Fairness == WF_c(OnSocketDrained)

Spec == Init /\ [][Next]_c /\ Fairness

-----------------------------------------------------------------------------
\* ProcessHttpBuffer and ProcessWsBuffer loop over what a completion brought:
\* items are handled once and in order, and no complete one is left behind
\* in a buffer, however the stream is cut (a close frame, an error and a
\* refused request end the loop).
TakenAsTheyCome ==
  /\ c.handled = [i \in 1..Len(c.handled) |-> i]
  /\ c.state = "open" /\ c.item <= Len(c.script) /\ c.script[c.item] \notin {"bad", "huge"}
       /\ ~(\E i \in DOMAIN c.handled : c.script[i] = "close")
     => c.http + c.ws_buf < 2

Buffers(i) == Len(SelectSeq(c.out, LAMBDA j : j = i))
Size(i) == IF c.script[i] = "file" THEN 1 + FileChunks ELSE 1

\* Connection: close and DisconnectAfterFlush: buffers leave in the order of
\* the requests, and a connection closed after its flush has sent all of every
\* answer, a file to its last chunk, unless a request came during a file or
\* the file was shorter than announced.
AnswersWhole ==
  ~c.overlap =>
    /\ \A j, k \in DOMAIN c.out : j < k => c.out[j] <= c.out[k]
    /\ c.state = "closed" /\ c.why = "flushed" =>
         /\ c.pending = 0
         /\ \A i \in DOMAIN c.handled :
              c.script[i] \in {"mute", "close"} \/ i \in c.short \/ Buffers(i) = Size(i)

\* An HTTP request that was handled is answered to its end or the connection
\* closes: the flush of a file is driven by OnSocketDrained alone.
ClosesAfterAnswer ==
  (c.flush /\ ~c.websocket) ~> (c.state = "closed")
=============================================================================
