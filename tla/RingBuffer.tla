----------------------------- MODULE RingBuffer -----------------------------
(***************************************************************************)
(* The provided buffers of an IoRing, which all sessions of a worker share *)
(* with the kernel: the kernel takes one for each chunk that arrives, the  *)
(* completion names it, and the session gives it back when its callback    *)
(* has seen the bytes.  The kernel goes on receiving meanwhile.            *)
(***************************************************************************)
EXTENDS Integers, Sequences, FiniteSets

CONSTANTS Conns, BufCount,
          TailWidth,     \* the values of the 16-bit head and tail
          PausedLimit,   \* chunks a paused session queues
          MaxArrivals    \* bound on the chunks that arrive on a connection

VARIABLE rb

(* rb.ring: the entries of the buffer ring, from rb.head to rb.tail with   *)
(* the kernel; rb.data: what a buffer holds; rb.cq: completions not yet    *)
(* dispatched, rb.now: the one in OnRecv, if any.  A connection: chunks    *)
(* the kernel has taken, armed (a multishot recv in the kernel), active    *)
(* (active_recv_ev_), open, paused, queue (paused_recv), and seen, what    *)
(* the application got.                                                    *)
Conn == [taken |-> 0, armed |-> TRUE, active |-> TRUE, open |-> TRUE, paused |-> FALSE,
         queue |-> <<>>, seen |-> <<>>]

Buffers == 0..BufCount-1

(* Create: every buffer is added, in order of its id. *)
Init == rb = [ring |-> [i \in Buffers |-> i], head |-> 0, tail |-> BufCount % TailWidth,
              data |-> [i \in Buffers |-> <<>>], cq |-> <<>>, now |-> {},
              conn |-> [c \in Conns |-> Conn]]

-----------------------------------------------------------------------------
(* The kernel: a chunk for a connection, or -ENOBUFS, which ends the recv; *)
(* and the end of the stream, of the peer or by a shutdown.                *)
InRing == (rb.tail - rb.head) % TailWidth

Cqe(c, buf, res, more) == [c |-> c, buf |-> buf, res |-> res, more |-> more]

KernelRecv(c) ==
    /\ rb.conn[c].armed /\ rb.conn[c].taken < MaxArrivals
    /\ IF InRing = 0
       THEN rb' = [rb EXCEPT !.conn[c].armed = FALSE,
                             !.cq = Append(@, Cqe(c, {}, "nobufs", FALSE))]
       ELSE LET i == rb.ring[rb.head % BufCount] IN
            \E more \in BOOLEAN :
              rb' = [rb EXCEPT !.head = (@ + 1) % TailWidth,
                               !.data[i] = <<c, rb.conn[c].taken + 1>>,
                               !.conn[c].taken = @ + 1, !.conn[c].armed = more,
                               !.cq = Append(@, Cqe(c, {i}, "data", more))]

KernelEnd(c) ==
    /\ rb.conn[c].armed
    /\ rb' = [rb EXCEPT !.conn[c].armed = FALSE, !.cq = Append(@, Cqe(c, {}, "eof", FALSE))]

-----------------------------------------------------------------------------
(* Return. *)
Return(x, i) == [x EXCEPT !.ring[x.tail % BufCount] = i, !.tail = (@ + 1) % TailWidth]

(* Mutant: not during disconnect. *)
GiveBackIfOpen(x, e) ==
    IF e.buf = {} \/ ~x.conn[e.c].open THEN x ELSE Return(x, CHOOSE i \in e.buf : TRUE)

GiveBack(x, e) == IF e.buf = {} THEN x ELSE Return(x, CHOOSE i \in e.buf : TRUE)

(* RegisterRecv. *)
RegisterRecv(x, c) ==
    IF ~x.conn[c].open \/ x.conn[c].paused \/ x.conn[c].active THEN x
    ELSE [x EXCEPT !.conn[c].active = TRUE, !.conn[c].armed = TRUE]

(* OnRecv of a completion, up to its callback. *)
Dispatch ==
    /\ rb.now = {} /\ rb.cq # <<>>
    /\ LET e == Head(rb.cq)
       IN  rb' = [rb EXCEPT !.cq = Tail(@), !.now = {e}, !.conn[e.c].active = @ /\ e.more]

(* View, and the callback or QueuePausedRecv; the application may pause or *)
(* disconnect from its callback.                                           *)
Seen(x, e, app) ==
    LET k == x.conn[e.c]
        chunk == x.data[CHOOSE i \in e.buf : TRUE]
    IN  IF e.buf = {} \/ ~k.open THEN x
        ELSE IF ~k.paused
             THEN [x EXCEPT !.conn[e.c].seen = Append(@, chunk), !.conn[e.c].paused = (app = "pause"),
                            !.conn[e.c].open = (app # "close")]
        ELSE IF Len(k.queue) < PausedLimit THEN [x EXCEPT !.conn[e.c].queue = Append(@, chunk)]
        ELSE [x EXCEPT !.conn[e.c].open = FALSE]

(* The end of the callback and of OnRecv: the buffer goes back on every    *)
(* path, the end of the stream disconnects, and a recv that has ended is   *)
(* registered again.                                                       *)
OnRecv(app) ==
    \E e \in rb.now :
        LET x == GiveBack(Seen(rb, e, app), e)
        IN  rb' = [IF e.res = "eof" THEN [x EXCEPT !.conn[e.c].open = FALSE]
                   ELSE IF e.more THEN x ELSE RegisterRecv(x, e.c) EXCEPT !.now = {}]

(* Disconnect, of the application or of a timeout. *)
Disconnect(c) ==
    /\ rb.now = {} /\ rb.conn[c].open
    /\ rb' = [rb EXCEPT !.conn[c].open = FALSE]

(* ResumeRecv, of the ring's own thread between two completions. *)
ResumeRecv(c) ==
    /\ rb.now = {} /\ rb.conn[c].paused /\ rb.conn[c].open
    /\ rb' = RegisterRecv([rb EXCEPT !.conn[c].paused = FALSE, !.conn[c].queue = <<>>,
                                     !.conn[c].seen = @ \o rb.conn[c].queue], c)

Next ==
    \/ \E c \in Conns : KernelRecv(c) \/ KernelEnd(c) \/ ResumeRecv(c) \/ Disconnect(c)
    \/ Dispatch
    \/ \E app \in {"", "pause", "close"} : OnRecv(app)

Spec == Init /\ [][Next]_rb

-----------------------------------------------------------------------------
WithKernel == [n \in 0..InRing-1 |-> rb.ring[(rb.head + n) % BufCount]]
Completions == {rb.cq[n] : n \in DOMAIN rb.cq} \cup rb.now

(* "Failing to return leaks buffers": with recvs of several sessions ended *)
(* by -ENOBUFS, paused or closed around it, a buffer is with the kernel or *)
(* in one completion, never both and never twice; the application sees the *)
(* chunks of its connection in order, from buffers nobody has reused; and  *)
(* a connection with no completion under way is listening unless it is     *)
(* paused or closed.                                                       *)
BuffersAccounted ==
    /\ \A i \in Buffers :
         Cardinality({n \in DOMAIN WithKernel : WithKernel[n] = i})
           + Cardinality({e \in Completions : e.buf = {i}}) = 1
    /\ \A c \in Conns : LET k == rb.conn[c] IN
         /\ \A n \in DOMAIN (k.seen \o k.queue) : (k.seen \o k.queue)[n] = <<c, n>>
         /\ (\A e \in Completions : e.c # c) /\ k.open /\ ~k.paused => k.armed
=============================================================================
