-------------------------- MODULE MCVmsCoordinator --------------------------
(* Half a nanosecond is the unit of SimGrid's time, and the latencies are  *)
(* not whole nanoseconds: every deadline the VMs are told is rounded.      *)
EXTENDS VmsCoordinator

CONSTANTS a, b, c, h1, h2

TwoVMs == {a, b}
ThreeVMs == {a, b, c}
TwoHosts == [v \in TwoVMs |-> IF v = a THEN h1 ELSE h2]
SharedHost == [v \in ThreeVMs |-> IF v = a THEN h1 ELSE h2]
Latencies == [p \in {h1, h2} \X {h1, h2} |-> IF p[1] = p[2] THEN 2 ELSE 3]
NoSlack == {0}
Congestion == {0, 1}
NotForced == -1
=============================================================================
