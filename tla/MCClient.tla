------------------------------ MODULE MCClient ------------------------------
(* One thread; two buffers for the packets received, so that the input     *)
(* pool runs out; time slices of one and two ticks, with enough ticks for  *)
(* three slices and for late expiries.                                     *)
EXTENDS Client

CONSTANT t1

MCThreads == {t1}
MCLengths == {1, 2}
=============================================================================
