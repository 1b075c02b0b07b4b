----------------------------- MODULE BufferPool -----------------------------
(***************************************************************************)
(* BufferPool, SendBufferChunk and the release of a SendBuffer             *)
(* (include/iouring_runtime/core/SendBuffer.h).  Any thread may allocate   *)
(* and any thread may drop the last reference to a buffer.                 *)
(*                                                                         *)
(* pending_gc_ is an MpscQueue: an entry whose push is unfinished, or that *)
(* has an unfinished successor, cannot be taken yet (module MpscQueue).    *)
(***************************************************************************)
EXTENDS Integers, Sequences, FiniteSets, SequencesExt

CONSTANTS
  Threads, NoThread, NoChunk,
  Chunks,           \* bound: the places in memory where a chunk may lie
  ChunkSize, MaxChunks, MaxFreeChunks,
  Sizes,            \* the sizes asked for, larger than a chunk too
  MaxAllocs         \* bound: calls of Allocate that return a buffer

\* The sizes and limits are positive, except that MaxFreeChunks may be 0; NoThread
\* and NoChunk are neither threads nor chunks.

VARIABLES
  active, free,     \* active_chunks_, free_chunks_
  offset, refs,     \* of every chunk: offset_, ref_count_
  gc,               \* pending_gc_: chunks with the thread still linking, if any
  mutex,            \* the holder of mutex_
  pc, size, chunk,  \* of every thread: where it is, its arguments
  live,             \* the buffers somebody holds
  allocs,           \* buffers handed out so far
  dangling          \* history: a chunk was destroyed under a buffer in use

poolVars == <<active, free, offset>>
vars == <<poolVars, refs, gc, mutex, pc, size, chunk, live, allocs, dangling>>

Init ==
  /\ active = <<>> /\ free = <<>>
  /\ offset = [c \in Chunks |-> 0]
  /\ refs = [c \in Chunks |-> 0]
  /\ gc = <<>>
  /\ mutex = NoThread
  /\ pc = [t \in Threads |-> "idle"]
  /\ size = [t \in Threads |-> 0]
  /\ chunk = [t \in Threads |-> NoChunk]
  /\ live = {}
  /\ allocs = 0
  /\ dangling = FALSE

Goto(t, where) == pc' = [pc EXCEPT ![t] = where]

-----------------------------------------------------------------------------
(* MoveToFree, with mutex_ held *)

IsActive(c) == c \in Range(active)

ActiveWithout(c) == IF IsActive(c) THEN SelectSeq(active, LAMBDA d : d # c) ELSE active
OffsetAfterMove(c) == IF IsActive(c) THEN [offset EXCEPT ![c] = 0] ELSE offset

\* The chunk is reset and goes to the free list; when that is full the chunk
\* is destroyed.
MoveToFree(c) ==
  /\ active' = ActiveWithout(c)
  /\ offset' = OffsetAfterMove(c)
  /\ free' = IF IsActive(c) /\ Len(free) < MaxFreeChunks THEN Append(free, c) ELSE free
  /\ dangling' = (dangling \/ /\ IsActive(c) /\ Len(free) >= MaxFreeChunks
                              /\ \E b \in live : b.chunk = c)

-----------------------------------------------------------------------------
(* Allocate *)

AllocateLock(t, n) ==
  /\ pc[t] = "idle"
  /\ allocs < MaxAllocs
  /\ mutex = NoThread
  /\ mutex' = t
  /\ size' = [size EXCEPT ![t] = n]
  /\ Goto(t, "flush")
  /\ UNCHANGED <<poolVars, refs, gc, chunk, live, allocs, dangling>>

CanPop == /\ gc # <<>>
          /\ gc[1].linking = NoThread
          /\ Len(gc) > 1 => gc[2].linking = NoThread

\* FlushPendingGc takes one chunk from pending_gc_, or finds no more.
FlushPendingGc(t) ==
  /\ pc[t] = "flush"
  /\ \/ /\ CanPop
        /\ MoveToFree(gc[1].chunk)
        /\ gc' = Tail(gc)
        /\ UNCHANGED pc
     \/ /\ ~CanPop
        /\ Goto(t, "open")
        /\ UNCHANGED <<poolVars, gc, dangling>>
  /\ UNCHANGED <<refs, mutex, size, chunk, live, allocs>>

ActiveHasRoom(n) == active # <<>> /\ offset[Last(active)] + n <= ChunkSize

\* Open: n bytes of the chunk c, which begins to be filled at `from`.
Open(t, c, from, n) ==
  /\ offset' = [offset EXCEPT ![c] = from + n]
  /\ live' = live \cup {[id |-> allocs, chunk |-> c, lo |-> from, hi |-> from + n]}
  /\ allocs' = allocs + 1

Unlock(t) == mutex' = NoThread /\ Goto(t, "idle")

\* The last active chunk has room.
OpenActive(t) ==
  LET c == Last(active) IN
  /\ pc[t] = "open"
  /\ ActiveHasRoom(size[t])
  /\ Open(t, c, offset[c], size[t])
  /\ refs' = [refs EXCEPT ![c] = @ + 1]
  /\ Unlock(t)
  /\ UNCHANGED <<active, free, gc, size, chunk, dangling>>

\* AcquireChunk: a chunk from the free list, or a new one.  A new chunk lies
\* where no buffer in use points to.
AcquireFails == free = <<>> /\ Len(active) >= MaxChunks
Acquired == IF free # <<>> THEN {Last(free)}
            ELSE Chunks \ (Range(active) \cup {b.chunk : b \in live})

RefsOfAcquired(c) == IF free # <<>> THEN refs[c] ELSE 0
OffsetOfAcquired(c) == IF free # <<>> THEN offset[c] ELSE 0

\* It becomes the active chunk, whether the buffer fits or not.
OpenAcquired(t) ==
  /\ pc[t] = "open"
  /\ ~ActiveHasRoom(size[t]) /\ ~AcquireFails
  /\ \E c \in Acquired :
       LET from == OffsetOfAcquired(c) IN
       /\ active' = Append(active, c)
       /\ free' = IF free # <<>> THEN Front(free) ELSE free
       /\ \/ /\ from + size[t] <= ChunkSize
             /\ Open(t, c, from, size[t])
             /\ refs' = [refs EXCEPT ![c] = RefsOfAcquired(c) + 1]
          \/ /\ from + size[t] > ChunkSize
             /\ offset' = [offset EXCEPT ![c] = from]
             /\ refs' = [refs EXCEPT ![c] = RefsOfAcquired(c)]
             /\ UNCHANGED <<live, allocs>>
  /\ Unlock(t)
  /\ UNCHANGED <<gc, size, chunk, dangling>>

\* kResourceExhausted
Exhausted(t) ==
  /\ pc[t] = "open"
  /\ ~ActiveHasRoom(size[t]) /\ AcquireFails
  /\ Unlock(t)
  /\ UNCHANGED <<poolVars, refs, gc, size, chunk, live, allocs, dangling>>

-----------------------------------------------------------------------------
(* The last reference to a buffer is dropped: OnRelease, OnChunkUnused *)

LastReference(c) == refs[c] = 1

\* Mutant: the reference is not given up.
ReleaseUncounted(c) == refs

RefsAfterRelease(c) == [refs EXCEPT ![c] = @ - 1]

\* Of a chunk that was destroyed the count is no longer defined: the release
\* finds it the last one or not.
OnRelease(t, b) ==
  /\ pc[t] = "idle"
  /\ b \in live
  /\ live' = live \ {b}
  /\ chunk' = [chunk EXCEPT ![t] = b.chunk]
  /\ IF b.chunk \in Range(active) \cup Range(free)
     THEN /\ refs' = RefsAfterRelease(b.chunk)
          /\ Goto(t, IF LastReference(b.chunk) THEN "unused" ELSE "idle")
     ELSE /\ UNCHANGED refs
          /\ Goto(t, "unused") \/ Goto(t, "idle")
  /\ UNCHANGED <<poolVars, gc, mutex, size, allocs, dangling>>

\* try_to_lock
OnChunkUnused(t) ==
  /\ pc[t] = "unused"
  /\ IF mutex = NoThread
     THEN mutex' = t /\ Goto(t, "move")
     ELSE UNCHANGED mutex /\ Goto(t, "defer")
  /\ UNCHANGED <<poolVars, refs, gc, size, chunk, live, allocs, dangling>>

MoveUnused(t) ==
  /\ pc[t] = "move"
  /\ MoveToFree(chunk[t])
  /\ Unlock(t)
  /\ UNCHANGED <<refs, gc, size, chunk, live, allocs>>

\* Mutant: a chunk that cannot be moved now is forgotten.
Forget(t) == UNCHANGED gc

Defer(t) == gc' = Append(gc, [chunk |-> chunk[t], linking |-> t])

\* pending_gc_.Push, in the two steps of MpscQueue.
DeferExchange(t) ==
  /\ pc[t] = "defer"
  /\ Defer(t)
  /\ Goto(t, "link")
  /\ UNCHANGED <<poolVars, refs, mutex, size, chunk, live, allocs, dangling>>

DeferLink(t) ==
  /\ pc[t] = "link"
  /\ gc' = [i \in DOMAIN gc |->
             IF gc[i].linking = t THEN [gc[i] EXCEPT !.linking = NoThread] ELSE gc[i]]
  /\ Goto(t, "idle")
  /\ UNCHANGED <<poolVars, refs, mutex, size, chunk, live, allocs, dangling>>

-----------------------------------------------------------------------------
AllocateStep(t) == FlushPendingGc(t) \/ OpenActive(t) \/ OpenAcquired(t) \/ Exhausted(t)
ReleaseStep(t) == OnChunkUnused(t) \/ MoveUnused(t) \/ DeferExchange(t) \/ DeferLink(t)

Next == \E t \in Threads :
  \/ \E n \in Sizes : AllocateLock(t, n)
  \/ AllocateStep(t)
  \/ \E b \in live : OnRelease(t, b)
  \/ ReleaseStep(t)

Spec == Init /\ [][Next]_vars

-----------------------------------------------------------------------------
(* Properties *)

Buffers == [id : 0 .. MaxAllocs - 1, chunk : Chunks, lo : 0 .. ChunkSize, hi : 0 .. ChunkSize]

\* The types of the variables: in particular no count goes below zero and no
\* buffer reaches past its chunk.
TypeOK ==
  /\ active \in Seq(Chunks) /\ free \in Seq(Chunks)
  /\ offset \in [Chunks -> 0 .. ChunkSize]
  /\ refs \in [Chunks -> Nat]
  /\ gc \in Seq([chunk : Chunks, linking : Threads \cup {NoThread}])
  /\ mutex \in Threads \cup {NoThread}
  /\ pc \in [Threads -> {"idle", "flush", "open", "unused", "move", "defer", "link"}]
  /\ size \in [Threads -> Nat]
  /\ chunk \in [Threads -> Chunks \cup {NoChunk}]
  /\ live \subseteq Buffers
  /\ allocs \in 0 .. MaxAllocs
  /\ dangling \in BOOLEAN

\* A chunk is in at most one place of the two lists, so that it is never
\* handed out as two chunks, and the lists keep to their limits.
ChunkListsDisjoint ==
  /\ \A i, j \in DOMAIN (active \o free) : (active \o free)[i] = (active \o free)[j] => i = j
  /\ Len(active) <= MaxChunks
  /\ Len(free) <= MaxFreeChunks

\* ref_count_ of a chunk in the lists is the number of buffers cut from it
\* that somebody still holds.
RefsCountBuffers ==
  \A c \in Range(active) \cup Range(free) :
    refs[c] = Cardinality({b \in live : b.chunk = c})

\* Somebody is going to move this chunk to the free list.
Retiring(c) == \/ \E i \in DOMAIN gc : gc[i].chunk = c
               \/ \E t \in Threads : pc[t] \in {"unused", "move", "defer"} /\ chunk[t] = c

\* An active chunk without buffers is on its way to the free list, through the
\* lock or through pending_gc_, or is the one that Allocate looks at next.  The
\* exception is a chunk nothing was ever cut from: a request larger than a
\* chunk takes one and leaves it among the active ones, where no release will
\* ever find it.
UnusedChunksRetire ==
  \A i \in DOMAIN active : refs[active[i]] = 0 =>
    \/ Retiring(active[i]) \/ i = Len(active)
    \/ offset[active[i]] = 0 /\ \E n \in Sizes : n > ChunkSize

\* Every chunk of the pool is in one place, counts its buffers, and comes back
\* when the last of them is released, up to the destruction of a chunk under a
\* buffer in use (which LiveBuffersDisjoint's violation leads to).
ChunksAccounted ==
  TypeOK /\ (~dangling => ChunkListsDisjoint /\ RefsCountBuffers /\ UnusedChunksRetire)

\* Bytes that somebody still holds are not handed out again: "the lifetime of
\* the payload must be guaranteed until the send completes"
\* (docs/docs/3.buffer-management.md).
LiveBuffersDisjoint ==
  \A b, d \in live : b # d /\ b.chunk = d.chunk => b.hi <= d.lo \/ d.hi <= b.lo
=============================================================================
