--------------------------- MODULE MCOutputMsgSet ---------------------------
(* Two threads insert messages of a small set, more of them than slots, so *)
(* that the array fills up and NoSlotAvailable is reached.                 *)
EXTENDS OutputMsgSet, TLC

CONSTANTS t1, t2, m1, m2, m3, m4

MCThreads == {t1, t2}
MCMsgs == {m1, m2, m3, m4}
Symmetry == Permutations(MCThreads) \cup Permutations(MCMsgs)
=============================================================================
