----------------------------- MODULE MCThreads -----------------------------
(***************************************************************************)
(* The structures that threads share with each other or with the kernel,   *)
(* for TLC: JobQueue with GlobalQueue, MpscQueue, BufferPool, RingBuffer.  *)
(* A behaviour is one of one of them; the variables of the others keep     *)
(* their initial values.                                                   *)
(***************************************************************************)
EXTENDS JobQueue, TLC

CONSTANTS Producers, Items, Stub, Nil,
          PoolThreads, Chunks, NoThread, NoChunk,
          ChunkSize, MaxChunks, MaxFreeChunks, Sizes, MaxAllocs,
          Conns, BufCount, TailWidth, PausedLimit, MaxArrivals

VARIABLES
  which,                            \* "jobs", "mpsc", "pool" or "ring"
  next, consume_end, produce_end, linking, prev, popPc, node, after, stubPrev,
  deleted, order, popped, emptyOk,  \* of MpscQueue
  active, free, offset, refs, gc, mutex, poolPc, size, chunk, live,
  allocs, dangling,                 \* of BufferPool
  rb                                \* of RingBuffer

M == INSTANCE MpscQueue WITH pc <- popPc
B == INSTANCE BufferPool WITH pc <- poolPc, Threads <- PoolThreads
R == INSTANCE RingBuffer

mpsc == <<next, consume_end, produce_end, linking, prev, popPc, node, after, stubPrev,
          deleted, order, popped, emptyOk>>
pool == <<active, free, offset, refs, gc, mutex, poolPc, size, chunk, live, allocs, dangling>>

AllInit ==
  which \in {"jobs", "mpsc", "pool", "ring"} /\ Init /\ M!Init /\ B!Init /\ R!Init

AllNext ==
  /\ \/ which = "jobs" /\ Next /\ UNCHANGED <<mpsc, pool, rb>>
     \/ which = "mpsc" /\ M!Next /\ UNCHANGED <<vars, pool, rb>>
     \/ which = "pool" /\ B!Next /\ UNCHANGED <<vars, mpsc, rb>>
     \/ which = "ring" /\ R!Next /\ UNCHANGED <<vars, mpsc, pool>>
  /\ UNCHANGED which

AllVars == <<which, vars, mpsc, pool, rb>>

AllSpec == AllInit /\ [][AllNext]_AllVars /\ Fairness

\* MpscQueue: items come out once each, in the order of the exchanges, a false
\* result of TryPop is justified, and no deleted node is used.
PopsInPushOrder == M!PopsInPushOrder

\* BufferPool, RingBuffer: chunks are in one place, count their buffers, and come
\* back; so do the buffers provided to the kernel, which nobody reads once reused.
MemoryAccounted == B!ChunksAccounted /\ R!BuffersAccounted
=============================================================================
