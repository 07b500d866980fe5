----------------------------- MODULE VmContract -----------------------------
(***************************************************************************)
(* What the coordinator relies on in a client.  Once told to go to a       *)
(* deadline, a client sends packets whose time stamps lie between the      *)
(* previous deadline and this one, then says that it is at the deadline,   *)
(* and sends nothing more until it is told the next one.                   *)
(***************************************************************************)
EXTENDS Naturals

VARIABLES
  slice,     \* "init", "running", "reached" or "ended"
  prev,      \* the previous deadline
  deadline,  \* the current deadline
  sends      \* send times of the packets sent in this slice

vars == <<slice, prev, deadline, sends>>

Init ==
  /\ slice = "init"
  /\ prev = 0
  /\ deadline = 0
  /\ sends = {}

(* The coordinator names the next deadline.                                *)
GotoDeadline ==
  /\ slice \in {"init", "reached"}
  /\ slice' = "running"
  /\ prev' = deadline
  /\ deadline' \in Nat
  /\ deadline' >= deadline
  /\ sends' = {}

SendPacket(time) ==
  /\ slice = "running"
  /\ prev <= time
  /\ time <= deadline
  /\ sends' = sends \cup {time}
  /\ UNCHANGED <<slice, prev, deadline>>

AtDeadline ==
  /\ slice = "running"
  /\ slice' = "reached"
  /\ UNCHANGED <<prev, deadline, sends>>

(* EndSimulation, an error or a broken connection.                         *)
End ==
  /\ slice' = "ended"
  /\ UNCHANGED <<prev, deadline, sends>>

Next ==
  \/ GotoDeadline
  \/ \E time \in prev..deadline : SendPacket(time)
  \/ AtDeadline
  \/ End

Spec == Init /\ [][Next]_vars
=============================================================================
