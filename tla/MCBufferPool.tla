---------------------------- MODULE MCBufferPool ----------------------------
(* Instances of BufferPool for TLC. *)
EXTENDS BufferPool, TLC

CONSTANTS t1, t2, t3, c1, c2, c3

TwoThreads == {t1, t2}
ThreeChunks == {c1, c2, c3}
FittingSizes == {1, 2}
PoolSymmetry == Permutations(Threads) \cup Permutations(Chunks)
=============================================================================
