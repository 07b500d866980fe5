----------------------------- MODULE PacketSet ------------------------------
(***************************************************************************)
(* What OutputMsgSet promises to Context: a set of packets of bounded size *)
(* from which the deadline handler takes one packet at a time.  A packet   *)
(* enters once, leaves once and is in one place; a drain that is not       *)
(* interrupted by an error takes everything that was in the set when it    *)
(* began.  No flag, slot or scan is visible here.                          *)
(***************************************************************************)
EXTENDS Naturals, FiniteSets

CONSTANTS Capacity, Packets, NoPacket

VARIABLES
  contents,  \* the packets the handler can find
  inHand,    \* the packet the handler took and still owns, or NoPacket
  owed       \* the packets the current drain still has to take

vars == <<contents, inHand, owed>>

Init == contents = {} /\ inHand = NoPacket /\ owed = {}

Put(p) ==
  /\ p \notin contents \cup {inHand}
  /\ Cardinality(contents) < Capacity
  /\ contents' = contents \cup {p}
  /\ UNCHANGED <<inHand, owed>>

BeginDrain == owed = {} /\ owed' = contents /\ UNCHANGED <<contents, inHand>>

Take(p) ==
  /\ p \in contents
  /\ inHand = NoPacket
  /\ contents' = contents \ {p}
  /\ inHand' = p
  /\ owed' = owed \ {p}

(* The handler is done with its packet; on an error it forgets the drain.  *)
Done ==
  /\ inHand # NoPacket
  /\ inHand' = NoPacket
  /\ owed' \in {owed, {}}
  /\ UNCHANGED contents

Next ==
  \/ \E p \in Packets : Put(p) \/ Take(p)
  \/ BeginDrain
  \/ Done

Spec == Init /\ [][Next]_vars
=============================================================================
