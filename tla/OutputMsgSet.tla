---------------------------- MODULE OutputMsgSet ----------------------------
(***************************************************************************)
(* output_msg_set.rs: the packets the application sent in the current time *)
(* slice, kept in a fixed array of slots shared without a lock between the *)
(* application threads (insert) and the deadline handler (drain).          *)
(*                                                                         *)
(* A slot is claimed with an atomic swap of its slot_busy flag, written,   *)
(* and published with slot_valid; the drain looks only at slot_valid,      *)
(* empties the slot and then clears slot_valid and slot_busy in that       *)
(* order.  One step of the model is one access to shared memory.           *)
(***************************************************************************)
EXTENDS Naturals, FiniteSets

CONSTANTS
  NumSlots,   \* num_slots of OutputMsgSet::new: Config::num_buffers
  Threads,    \* the application threads that insert
  Msgs,       \* the messages: values of OutputMsg
  NoMsg       \* None, in a slot or in a local variable

ASSUME NumSlotsAssumption == NumSlots \in Nat \ {0}
ASSUME NoMsgAssumption == NoMsg \notin Msgs

VARIABLES
  slot_busy,  \* per slot, claimed by an insert and not released by a drain
  slot_valid, \* per slot, the message is complete and can be taken
  slots,      \* per slot, the message or NoMsg
  inserting,  \* per thread, where its insert is: [pc, idx, msg]
  draining,   \* the drain of the deadline handler: [pc, idx, msg]
  owed        \* history: published when the drain began and not yet taken

vars == <<slot_busy, slot_valid, slots, inserting, draining, owed>>

Slot == 1..NumSlots

InsertPC == {"idle", "swap", "write", "publish", "ok", "NoSlotAvailable"}
DrainPC == {"idle", "load", "take", "invalidate", "release", "yield"}

(* The messages a drain that starts now has to find.                       *)
Published == {slots[i] : i \in {j \in Slot : slot_valid[j]}} \ {NoMsg}

-----------------------------------------------------------------------------
(* OutputMsgSet::new: empty slots, all flags false.                        *)
new ==
  /\ slot_busy = [i \in Slot |-> FALSE]
  /\ slot_valid = [i \in Slot |-> FALSE]
  /\ slots = [i \in Slot |-> NoMsg]

Init ==
  /\ new
  /\ inserting = [t \in Threads |-> [pc |-> "idle", idx |-> 0, msg |-> NoMsg]]
  /\ draining = [pc |-> "idle", idx |-> 0, msg |-> NoMsg]
  /\ owed = {}

-----------------------------------------------------------------------------
(* insert, called with a message that is nowhere else: messages are moved. *)
insert(t, m) ==
  /\ inserting[t].pc \in {"idle", "ok", "NoSlotAvailable"}
  /\ inserting' = [inserting EXCEPT ![t] = [pc |-> "swap", idx |-> 1, msg |-> m]]
  /\ UNCHANGED <<slot_busy, slot_valid, slots, draining, owed>>

(* Mutant: the slot is published as soon as it is claimed.                 *)
InsertClaimPublished(t) ==
  LET i == inserting[t].idx IN
  /\ inserting[t].pc = "swap"
  /\ ~slot_busy[i]
  /\ slot_busy' = [slot_busy EXCEPT ![i] = TRUE]
  /\ slot_valid' = [slot_valid EXCEPT ![i] = TRUE]
  /\ inserting' = [inserting EXCEPT ![t].pc = "write"]
  /\ UNCHANGED <<slots, draining, owed>>

(* slot.swap(true) found the flag clear: the slot is claimed.              *)
InsertClaim(t) ==
  LET i == inserting[t].idx IN
  /\ inserting[t].pc = "swap"
  /\ ~slot_busy[i]
  /\ slot_busy' = [slot_busy EXCEPT ![i] = TRUE]
  /\ inserting' = [inserting EXCEPT ![t].pc = "write"]
  /\ UNCHANGED <<slot_valid, slots, draining, owed>>

(* slot.swap(true) found the flag set: next slot, or NoSlotAvailable, which *)
(* drops the message.                                                      *)
InsertSkip(t) ==
  LET i == inserting[t].idx IN
  /\ inserting[t].pc = "swap"
  /\ slot_busy[i]
  /\ inserting' = [inserting EXCEPT ![t] =
       IF i < NumSlots
       THEN [@ EXCEPT !.idx = i + 1]
       ELSE [pc |-> "NoSlotAvailable", idx |-> 0, msg |-> NoMsg]]
  /\ UNCHANGED <<slot_busy, slot_valid, slots, draining, owed>>

(* The message moves into the claimed slot.                                *)
InsertWrite(t) ==
  LET i == inserting[t].idx IN
  /\ inserting[t].pc = "write"
  /\ slots' = [slots EXCEPT ![i] = inserting[t].msg]
  /\ inserting' = [inserting EXCEPT ![t] = [pc |-> "publish", idx |-> i, msg |-> NoMsg]]
  /\ UNCHANGED <<slot_busy, slot_valid, draining, owed>>

(* slot_valid.store(true), and insert returns Ok.                          *)
InsertPublish(t) ==
  LET i == inserting[t].idx IN
  /\ inserting[t].pc = "publish"
  /\ slot_valid' = [slot_valid EXCEPT ![i] = TRUE]
  /\ inserting' = [inserting EXCEPT ![t] = [pc |-> "ok", idx |-> 0, msg |-> NoMsg]]
  /\ UNCHANGED <<slot_busy, slots, draining, owed>>

-----------------------------------------------------------------------------
(* drain(): an iterator at the first slot, with its first call of next().  *)
drain ==
  /\ draining.pc = "idle"
  /\ draining' = [pc |-> "load", idx |-> 1, msg |-> NoMsg]
  /\ owed' = Published
  /\ UNCHANGED <<slot_busy, slot_valid, slots, inserting>>

(* take_slot finds slot_valid set.                                         *)
TakeValid ==
  /\ draining.pc = "load"
  /\ slot_valid[draining.idx]
  /\ draining' = [draining EXCEPT !.pc = "take"]
  /\ UNCHANGED <<slot_busy, slot_valid, slots, inserting, owed>>

(* Mutant: the iterator ends at the first slot without a message.          *)
TakeInvalidStops ==
  /\ draining.pc = "load"
  /\ ~slot_valid[draining.idx]
  /\ draining' = [pc |-> "idle", idx |-> 0, msg |-> NoMsg]
  /\ UNCHANGED <<slot_busy, slot_valid, slots, inserting, owed>>

(* take_slot finds slot_valid clear: next slot, or the end of the iterator. *)
TakeInvalid ==
  /\ draining.pc = "load"
  /\ ~slot_valid[draining.idx]
  /\ draining' = IF draining.idx < NumSlots
                 THEN [draining EXCEPT !.idx = @ + 1]
                 ELSE [pc |-> "idle", idx |-> 0, msg |-> NoMsg]
  /\ UNCHANGED <<slot_busy, slot_valid, slots, inserting, owed>>

(* Mutant: the message is copied out of the slot.                          *)
TakeMessageCopied ==
  /\ draining.pc = "take"
  /\ draining' = [draining EXCEPT !.pc = "invalidate", !.msg = slots[draining.idx]]
  /\ owed' = owed \ {slots[draining.idx]}
  /\ UNCHANGED <<slot_busy, slot_valid, slots, inserting>>

(* The message leaves the slot: replace(None).                             *)
TakeMessage ==
  /\ draining.pc = "take"
  /\ draining' = [draining EXCEPT !.pc = "invalidate", !.msg = slots[draining.idx]]
  /\ slots' = [slots EXCEPT ![draining.idx] = NoMsg]
  /\ owed' = owed \ {slots[draining.idx]}
  /\ UNCHANGED <<slot_busy, slot_valid, inserting>>

TakeInvalidate ==
  /\ draining.pc = "invalidate"
  /\ slot_valid' = [slot_valid EXCEPT ![draining.idx] = FALSE]
  /\ draining' = [draining EXCEPT !.pc = "release"]
  /\ UNCHANGED <<slot_busy, slots, inserting, owed>>

(* The slot can be claimed again; the handler now owns the message.        *)
TakeRelease ==
  /\ draining.pc = "release"
  /\ slot_busy' = [slot_busy EXCEPT ![draining.idx] = FALSE]
  /\ draining' = [draining EXCEPT !.pc = "yield"]
  /\ UNCHANGED <<slot_valid, slots, inserting, owed>>

(* The handler is done with the message next() returned and asks for more. *)
DrainNext ==
  /\ draining.pc = "yield"
  /\ draining' = IF draining.idx < NumSlots
                 THEN [pc |-> "load", idx |-> draining.idx + 1, msg |-> NoMsg]
                 ELSE [pc |-> "idle", idx |-> 0, msg |-> NoMsg]
  /\ UNCHANGED <<slot_busy, slot_valid, slots, inserting, owed>>

(* The handler returns early: the iterator is dropped, the rest stays.     *)
DrainAbort ==
  /\ draining.pc = "yield"
  /\ draining' = [pc |-> "idle", idx |-> 0, msg |-> NoMsg]
  /\ owed' = {}
  /\ UNCHANGED <<slot_busy, slot_valid, slots, inserting>>

DrainStep ==
  TakeValid \/ TakeInvalid \/ TakeMessage \/ TakeInvalidate \/ TakeRelease

InsertStep(t) ==
  InsertClaim(t) \/ InsertSkip(t) \/ InsertWrite(t) \/ InsertPublish(t)

(* Where a message can be: each is in at most one place.                   *)
InUse(m) ==
  \/ \E i \in Slot : slots[i] = m
  \/ \E t \in Threads : inserting[t].msg = m
  \/ draining.msg = m

Next ==
  \/ \E t \in Threads, m \in Msgs : ~InUse(m) /\ insert(t, m)
  \/ \E t \in Threads : InsertStep(t)
  \/ drain \/ DrainStep \/ DrainNext \/ DrainAbort

Spec == Init /\ [][Next]_vars

-----------------------------------------------------------------------------
TypeOK ==
  /\ slot_busy \in [Slot -> BOOLEAN]
  /\ slot_valid \in [Slot -> BOOLEAN]
  /\ slots \in [Slot -> Msgs \cup {NoMsg}]
  /\ inserting \in [Threads -> [pc : InsertPC, idx : 0..NumSlots, msg : Msgs \cup {NoMsg}]]
  /\ draining \in [pc : DrainPC, idx : 0..NumSlots, msg : Msgs \cup {NoMsg}]
  /\ owed \in SUBSET Msgs

(* insert writes only into a slot that is empty, and take_slot reads only  *)
(* a slot whose message is complete: the flags alone keep the unsynchro-   *)
(* nised cells race-free (the unsafe blocks of insert and take_slot).      *)
NoSlotRace ==
  /\ \A t \in Threads : inserting[t].pc = "write" => slots[inserting[t].idx] = NoMsg
  /\ draining.pc = "take" => slots[draining.idx] # NoMsg
  /\ \A t \in Threads :
       inserting[t].pc \in {"write", "publish"} =>
         /\ \A u \in Threads \ {t} :
              inserting[u].pc \in {"write", "publish"} => inserting[u].idx # inserting[t].idx
         /\ draining.pc \in {"take", "invalidate", "release"} =>
              draining.idx # inserting[t].idx

(* A drain that is not aborted has taken, when it ends, every message      *)
(* whose insert had returned Ok before the drain began: no packet of a     *)
(* time slice misses the deadline that ends the slice.                     *)
DrainComplete ==
  draining.pc = "idle" => owed = {}

(* The slot array behaves as the set of packets that Context relies on.    *)
Packets == INSTANCE PacketSet
             WITH Capacity <- NumSlots, Packets <- Msgs, NoPacket <- NoMsg,
                  contents <- Published, inHand <- draining.msg

ImplementsPacketSet == Packets!Spec
=============================================================================
