--------------------------- MODULE AtomicRegister ---------------------------
(***************************************************************************)
(* What SeqLock promises its users: a register that is read and updated    *)
(* in one step each.                                                       *)
(***************************************************************************)
EXTENDS Integers

CONSTANTS
  Readers,  \* threads that read
  Deltas,   \* an update adds one of these
  None      \* no result yet

VARIABLES
  reg,      \* the value
  result    \* per reader, what its last read returned

vars == <<reg, result>>

Init ==
  /\ reg = 0
  /\ result = [r \in Readers |-> None]

(* A reader calls read again, which forgets the last result.               *)
Call(r) ==
  /\ result' = [result EXCEPT ![r] = None]
  /\ UNCHANGED reg

Read(r) ==
  /\ result[r] = None
  /\ result' = [result EXCEPT ![r] = reg]
  /\ UNCHANGED reg

Update ==
  /\ \E d \in Deltas : reg' = reg + d
  /\ UNCHANGED result

Next == Update \/ \E r \in Readers : Call(r) \/ Read(r)

Spec == Init /\ [][Next]_vars
=============================================================================
