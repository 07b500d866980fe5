----------------------------- MODULE MCVmClient -----------------------------
(* Three ticks of the TSC for two nanoseconds, so that conversions cut     *)
(* off; slices of one and three nanoseconds; enough time for three of      *)
(* them, late handlers included.                                           *)
EXTENDS VmClient

MCBackends == {"qemu", "qemukvm"}
MCLengths == {1, 3}
MCBootTimes == {0, 1}
=============================================================================
