--------------------------- MODULE PacketSession ---------------------------
(***************************************************************************)
(* The framing of the game module: packets arrive in chunks cut anywhere;  *)
(* a packet inside one chunk is handed over in place, the others are put   *)
(* together in recv_buffer_.  A byte is the pair of its packet and its     *)
(* place in it; the first byte of a packet tells its size.                 *)
(***************************************************************************)
EXTENDS Integers, FiniteSets, Sequences, SequencesExt

CONSTANTS Sizes,          \* sequences of the sizes that clients put in headers
          HeaderSize, MaxPacketSize, Capacity

VARIABLE k

(* k.sizes: the sizes of the packets to come; k.in: the bytes that have    *)
(* not arrived; k.buffer: the readable region of recv_buffer_; k.packets:  *)
(* the packets handed to OnPacket; k.closing: Disconnect was called.       *)
Bytes(sizes) ==
    FlattenSeq([i \in DOMAIN sizes |->
        [j \in 1..(IF sizes[i] < HeaderSize THEN HeaderSize ELSE sizes[i]) |-> <<i, j>>]])

InitWith(sizes) ==
    k = [sizes |-> sizes, in |-> Bytes(sizes), buffer |-> <<>>, packets |-> <<>>,
         closing |-> FALSE, arrived |-> 0]

Init == \E sizes \in Sizes : InitWith(sizes)

(* ReadLe16 of the header at the front of a region. *)
PacketSize(x, region) == x.sizes[region[1][1]]

Valid(size) == size >= HeaderSize /\ size <= MaxPacketSize

Min2(a, b) == IF a < b THEN a ELSE b
Rest(data, n) == SubSeq(data, n + 1, Len(data))

(* AppendToRecvBuffer; recv_buffer_ is empty again after every packet, so  *)
(* that all of its capacity is writable.                                   *)
AppendTo(x, data) ==
    IF Len(x.buffer) + Len(data) > Capacity THEN [x EXCEPT !.closing = TRUE]
    ELSE [x EXCEPT !.buffer = @ \o data]

OnPacket(x, bytes) == [x EXCEPT !.packets = Append(@, bytes)]

(* CompleteBufferedPacket: first the header, then the body.  The result    *)
(* has what is left of the chunk.                                          *)
FillHeader(x, data) ==
    LET n == Min2(HeaderSize - Len(x.buffer), Len(data)) IN
    IF Len(x.buffer) >= HeaderSize THEN [s |-> x, data |-> data]
    ELSE [s |-> AppendTo(x, SubSeq(data, 1, n)), data |-> Rest(data, n)]

(* Mutant: a header that has just been completed ends the call. *)
CompleteHeaderThenStop(x, data) ==
    LET h == FillHeader(x, data)
        size == PacketSize(h.s, h.s.buffer)
        n == Min2(size - Len(h.s.buffer), Len(h.data))
        y == AppendTo(h.s, SubSeq(h.data, 1, n))
    IN  IF h.s.closing \/ Len(x.buffer) < HeaderSize THEN h
        ELSE IF ~Valid(size) THEN [h EXCEPT !.s.closing = TRUE]
        ELSE IF y.closing \/ Len(y.buffer) < size THEN [s |-> y, data |-> Rest(h.data, n)]
        ELSE [s |-> [OnPacket(y, y.buffer) EXCEPT !.buffer = <<>>], data |-> Rest(h.data, n)]

CompleteBufferedPacket(x, data) ==
    LET h == FillHeader(x, data)
        size == PacketSize(h.s, h.s.buffer)
        n == Min2(size - Len(h.s.buffer), Len(h.data))
        y == AppendTo(h.s, SubSeq(h.data, 1, n))
    IN  IF h.s.closing \/ Len(h.s.buffer) < HeaderSize THEN h
        ELSE IF ~Valid(size) THEN [h EXCEPT !.s.closing = TRUE]
        ELSE IF y.closing \/ Len(y.buffer) < size THEN [s |-> y, data |-> Rest(h.data, n)]
        ELSE [s |-> [OnPacket(y, y.buffer) EXCEPT !.buffer = <<>>], data |-> Rest(h.data, n)]

(* The loop of OnRecv over a chunk. *)
RECURSIVE Loop(_, _)
Loop(x, data) ==
    LET size == PacketSize(x, data)
        c == CompleteBufferedPacket(x, data)
    IN  IF data = <<>> THEN x
        ELSE IF x.buffer # <<>>
             THEN IF c.s.closing \/ c.s.buffer # <<>> THEN c.s ELSE Loop(c.s, c.data)
        ELSE IF Len(data) < HeaderSize THEN AppendTo(x, data)
        ELSE IF ~Valid(size) THEN [x EXCEPT !.closing = TRUE]
        ELSE IF Len(data) < size THEN AppendTo(x, data)
        ELSE Loop(OnPacket(x, SubSeq(data, 1, size)), Rest(data, size))

OnRecv(n) ==
    /\ ~k.closing /\ n <= Len(k.in)
    /\ k' = [Loop(k, SubSeq(k.in, 1, n)) EXCEPT !.in = Rest(k.in, n), !.arrived = @ + n]

Next == \E n \in 1..Len(k.in) : OnRecv(n)

Spec == Init /\ [][Next]_k

-----------------------------------------------------------------------------
(* The packets whose last byte is among the first n that were sent, up to  *)
(* the first whose size is invalid.                                        *)
Whole(sizes, n) ==
    LET end == [i \in DOMAIN sizes |-> Len(Bytes(SubSeq(sizes, 1, i)))] IN
    {i \in DOMAIN sizes : end[i] <= n /\ \A j \in 1..i : Valid(sizes[j])}

(* However the stream is cut into chunks, OnPacket has been given each     *)
(* packet that has arrived in full, once, in order and byte for byte; what *)
(* has arrived of the next one waits in recv_buffer_, which never          *)
(* overflows; only a header with an invalid size closes the session.       *)
PacketsWhole ==
    /\ k.packets = [i \in 1..Cardinality(Whole(k.sizes, k.arrived)) |->
                      [j \in 1..k.sizes[i] |-> <<i, j>>]]
    /\ k.closing => \E i \in DOMAIN k.sizes : ~Valid(k.sizes[i])
    /\ ~k.closing => FlattenSeq(k.packets) \o k.buffer = SubSeq(Bytes(k.sizes), 1, k.arrived)
=============================================================================
