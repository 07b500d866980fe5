----------------------------- MODULE MCSeqLock ------------------------------
(* One reader against two writers, three writes in all: the reader sees    *)
(* the words change under it more than once, and the writers compete for   *)
(* the count.                                                              *)
EXTENDS SeqLock

CONSTANTS r1, w1, w2

MCReaders == {r1}
MCWriters == {w1, w2}
MCDeltas == {1, -2}
=============================================================================
