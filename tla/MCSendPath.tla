----------------------------- MODULE MCSendPath -----------------------------
(* Two threads that send and the deadline handler, on a pool of three      *)
(* buffers: the pool runs dry, and slots are released and claimed again    *)
(* while the other thread is in the middle of its scan.                    *)
EXTENDS SendPath, TLC

CONSTANTS t1, t2

MCThreads == {t1, t2}
Symmetry == Permutations(MCThreads)
=============================================================================
