------------------------- MODULE OutputMsgSet_proofs ------------------------
(***************************************************************************)
(* Proofs about OutputMsgSet, for any number of threads, slots, messages.  *)
(* The inductive invariant SetInv ties the two flags of every slot to the  *)
(* only parties that may touch its cell, and locates the owed messages     *)
(* ahead of the drain.  With OnePlace, that a message is in one place      *)
(* only, it makes every step of the slot array a step of PacketSet, or     *)
(* none.                                                                   *)
(***************************************************************************)
EXTENDS OutputMsgSet, FiniteSetTheorems, TLAPS

Filling(t) == inserting[t].pc \in {"write", "publish"}
Emptying == draining.pc \in {"take", "invalidate", "release"}

(* What a thread inside insert holds.                                      *)
InsertShape ==
  \A t \in Threads :
    /\ inserting[t].pc \in {"swap", "write"} =>
         inserting[t].idx \in Slot /\ inserting[t].msg \in Msgs
    /\ inserting[t].pc = "publish" => inserting[t].idx \in Slot
    /\ inserting[t].pc \notin {"swap", "write"} => inserting[t].msg = NoMsg

(* What the handler inside drain holds.                                    *)
DrainShape ==
  /\ draining.pc # "idle" => draining.idx \in Slot
  /\ draining.pc \in {"idle", "load", "take"} => draining.msg = NoMsg
  /\ draining.pc \in {"invalidate", "release", "yield"} => draining.msg \in Msgs

(* A thread that fills a slot owns it until it publishes it.               *)
FillerOwnsSlot ==
  \A t \in Threads : Filling(t) =>
    LET i == inserting[t].idx IN
    /\ slot_busy[i]
    /\ ~slot_valid[i]
    /\ inserting[t].pc = "write" => slots[i] = NoMsg
    /\ inserting[t].pc = "publish" => slots[i] \in Msgs
    /\ \A u \in Threads \ {t} : Filling(u) => inserting[u].idx # i
    /\ Emptying => draining.idx # i

(* So does the handler while it empties one.                               *)
DrainOwnsSlot ==
  /\ Emptying => slot_busy[draining.idx]
  /\ draining.pc = "take" => slot_valid[draining.idx] /\ slots[draining.idx] \in Msgs
  /\ draining.pc = "invalidate" => slot_valid[draining.idx] /\ slots[draining.idx] = NoMsg
  /\ draining.pc = "release" => ~slot_valid[draining.idx] /\ slots[draining.idx] = NoMsg

(* What the flags of a slot say when nobody is at it.                      *)
SlotShape ==
  \A i \in Slot :
    /\ slot_valid[i] => slot_busy[i]
    /\ slots[i] # NoMsg => slot_busy[i]
    /\ slot_valid[i] /\ ~(draining.pc = "invalidate" /\ draining.idx = i) => slots[i] \in Msgs
    /\ slot_busy[i] =>
         \/ slot_valid[i]
         \/ \E t \in Threads : Filling(t) /\ inserting[t].idx = i
         \/ draining.pc = "release" /\ draining.idx = i

(* An owed message is in a published slot the drain has yet to look at.    *)
OwedAhead ==
  /\ draining.pc = "idle" => owed = {}
  /\ \A m \in owed : \E i \in Slot :
       /\ slot_valid[i]
       /\ slots[i] = m
       /\ i >= draining.idx
       /\ draining.pc \in {"invalidate", "release", "yield"} => i # draining.idx

SetInv ==
  /\ TypeOK
  /\ InsertShape
  /\ DrainShape
  /\ FillerOwnsSlot
  /\ DrainOwnsSlot
  /\ SlotShape
  /\ OwedAhead

-----------------------------------------------------------------------------
LEMMA SetInit == Init => SetInv
  BY NumSlotsAssumption, NoMsgAssumption
     DEF Init, new, SetInv, TypeOK, InsertShape, DrainShape, FillerOwnsSlot,
         DrainOwnsSlot, SlotShape, OwedAhead, Filling, Emptying, InsertPC, DrainPC, Slot

LEMMA insertInv ==
  ASSUME SetInv, NEW t \in Threads, NEW m \in Msgs, insert(t, m)
  PROVE  SetInv'
<1> USE NumSlotsAssumption, NoMsgAssumption DEF SetInv, insert, Slot
<1>1. TypeOK'
  BY DEF TypeOK, InsertPC
<1>2. InsertShape'
  BY DEF TypeOK, InsertShape
<1>3. DrainShape'
  BY DEF DrainShape
<1>4. FillerOwnsSlot'
  BY DEF TypeOK, FillerOwnsSlot, Filling, Emptying
<1>5. DrainOwnsSlot'
  BY DEF DrainOwnsSlot, Emptying
<1>6. SlotShape'
  BY DEF TypeOK, SlotShape, Filling
<1>7. OwedAhead'
  BY DEF OwedAhead
<1>8. QED
  BY <1>1, <1>2, <1>3, <1>4, <1>5, <1>6, <1>7

LEMMA InsertClaimInv ==
  ASSUME SetInv, NEW t \in Threads, InsertClaim(t)
  PROVE  SetInv'
<1> USE NumSlotsAssumption, NoMsgAssumption DEF SetInv, InsertClaim, Slot
<1>1. TypeOK'
  BY DEF TypeOK, InsertPC
<1>2. InsertShape'
  BY DEF TypeOK, InsertShape
<1>3. DrainShape'
  BY DEF DrainShape
<1>4. FillerOwnsSlot'
  BY DEF TypeOK, FillerOwnsSlot, Filling, Emptying, InsertShape, SlotShape, DrainOwnsSlot
<1>5. DrainOwnsSlot'
  BY DEF DrainOwnsSlot, Emptying, TypeOK, DrainShape
<1>6. SlotShape'
  BY DEF TypeOK, SlotShape, Filling, InsertShape
<1>7. OwedAhead'
  BY DEF OwedAhead
<1>8. QED
  BY <1>1, <1>2, <1>3, <1>4, <1>5, <1>6, <1>7

LEMMA InsertSkipInv ==
  ASSUME SetInv, NEW t \in Threads, InsertSkip(t)
  PROVE  SetInv'
<1> USE NumSlotsAssumption, NoMsgAssumption DEF SetInv, InsertSkip, Slot
<1>1. TypeOK'
  <2>1. inserting'[t] \in [pc : InsertPC, idx : 0..NumSlots, msg : Msgs \cup {NoMsg}]
    <3>1. CASE inserting[t].idx < NumSlots
      <4>1. inserting'[t] = [inserting[t] EXCEPT !.idx = inserting[t].idx + 1]
        BY <3>1 DEF TypeOK
      <4>2. inserting[t].idx + 1 \in 0..NumSlots
        BY <3>1 DEF TypeOK
      <4>3. inserting[t] \in [pc : InsertPC, idx : 0..NumSlots, msg : Msgs \cup {NoMsg}]
        BY DEF TypeOK
      <4>4. QED
        BY <4>1, <4>2, <4>3
    <3>2. CASE ~(inserting[t].idx < NumSlots)
      BY <3>2 DEF TypeOK, InsertPC
    <3>3. QED
      BY <3>1, <3>2
  <2>2. QED
    BY <2>1 DEF TypeOK
<1>2. InsertShape'
  BY DEF TypeOK, InsertShape
<1>3. DrainShape'
  BY DEF TypeOK, DrainShape, DrainOwnsSlot
<1>4. FillerOwnsSlot'
  BY DEF TypeOK, FillerOwnsSlot, Filling, Emptying, InsertShape, DrainShape, SlotShape, DrainOwnsSlot
<1>5. DrainOwnsSlot'
  BY DEF TypeOK, DrainOwnsSlot, Filling, Emptying, InsertShape, DrainShape, FillerOwnsSlot, SlotShape
<1>6. SlotShape'
  BY DEF TypeOK, SlotShape, Filling, Emptying, InsertShape, DrainShape, FillerOwnsSlot, DrainOwnsSlot
<1>7. OwedAhead'
  BY DEF TypeOK, OwedAhead, Filling, Emptying, InsertShape, DrainShape, FillerOwnsSlot, DrainOwnsSlot
<1>8. QED
  BY <1>1, <1>2, <1>3, <1>4, <1>5, <1>6, <1>7

LEMMA InsertWriteInv ==
  ASSUME SetInv, NEW t \in Threads, InsertWrite(t)
  PROVE  SetInv'
<1> USE NumSlotsAssumption, NoMsgAssumption DEF SetInv, InsertWrite, Slot
<1>1. TypeOK'
  BY DEF TypeOK, InsertPC, DrainPC, InsertShape, DrainShape, DrainOwnsSlot
<1>2. InsertShape'
  BY DEF TypeOK, InsertShape
<1>3. DrainShape'
  BY DEF TypeOK, DrainShape, DrainOwnsSlot
<1>4. FillerOwnsSlot'
  BY DEF TypeOK, FillerOwnsSlot, Filling, Emptying, InsertShape, DrainShape, SlotShape, DrainOwnsSlot
<1>5. DrainOwnsSlot'
  BY DEF TypeOK, DrainOwnsSlot, Filling, Emptying, InsertShape, DrainShape, FillerOwnsSlot, SlotShape
<1>6. SlotShape'
  BY DEF TypeOK, SlotShape, Filling, Emptying, InsertShape, DrainShape, FillerOwnsSlot, DrainOwnsSlot
<1>7. OwedAhead'
  BY DEF TypeOK, OwedAhead, Filling, Emptying, InsertShape, DrainShape, FillerOwnsSlot, DrainOwnsSlot
<1>8. QED
  BY <1>1, <1>2, <1>3, <1>4, <1>5, <1>6, <1>7

LEMMA InsertPublishInv ==
  ASSUME SetInv, NEW t \in Threads, InsertPublish(t)
  PROVE  SetInv'
<1> USE NumSlotsAssumption, NoMsgAssumption DEF SetInv, InsertPublish, Slot
<1>1. TypeOK'
  BY DEF TypeOK, InsertPC, DrainPC, InsertShape, DrainShape, DrainOwnsSlot
<1>2. InsertShape'
  BY DEF TypeOK, InsertShape
<1>3. DrainShape'
  BY DEF TypeOK, DrainShape, DrainOwnsSlot
<1>4. FillerOwnsSlot'
  BY DEF TypeOK, FillerOwnsSlot, Filling, Emptying, InsertShape, DrainShape, SlotShape, DrainOwnsSlot
<1>5. DrainOwnsSlot'
  BY DEF TypeOK, DrainOwnsSlot, Filling, Emptying, InsertShape, DrainShape, FillerOwnsSlot, SlotShape
<1>6. SlotShape'
  BY DEF TypeOK, SlotShape, Filling, Emptying, InsertShape, DrainShape, FillerOwnsSlot, DrainOwnsSlot
<1>7. OwedAhead'
  BY DEF TypeOK, OwedAhead, Filling, Emptying, InsertShape, DrainShape, FillerOwnsSlot, DrainOwnsSlot
<1>8. QED
  BY <1>1, <1>2, <1>3, <1>4, <1>5, <1>6, <1>7

LEMMA drainInv ==
  ASSUME SetInv, drain
  PROVE  SetInv'
<1> USE NumSlotsAssumption, NoMsgAssumption DEF SetInv, drain, Slot
<1>1. TypeOK'
  <2>1. Published \subseteq Msgs
    BY DEF Published, TypeOK
  <2>2. draining' \in [pc : DrainPC, idx : 0..NumSlots, msg : Msgs \cup {NoMsg}]
    BY DEF DrainPC
  <2>3. QED
    BY <2>1, <2>2 DEF TypeOK
<1>2. InsertShape'
  BY DEF TypeOK, InsertShape
<1>3. DrainShape'
  BY DEF TypeOK, DrainShape, DrainOwnsSlot
<1>4. FillerOwnsSlot'
  BY DEF TypeOK, FillerOwnsSlot, Filling, Emptying, InsertShape, DrainShape, SlotShape, DrainOwnsSlot
<1>5. DrainOwnsSlot'
  BY DEF TypeOK, DrainOwnsSlot, Filling, Emptying, InsertShape, DrainShape, FillerOwnsSlot, SlotShape
<1>6. SlotShape'
  BY DEF TypeOK, SlotShape, Filling, Emptying, InsertShape, DrainShape, FillerOwnsSlot, DrainOwnsSlot
<1>7. OwedAhead'
  BY DEF TypeOK, OwedAhead, DrainShape, Published
<1>8. QED
  BY <1>1, <1>2, <1>3, <1>4, <1>5, <1>6, <1>7

LEMMA TakeValidInv ==
  ASSUME SetInv, TakeValid
  PROVE  SetInv'
<1> USE NumSlotsAssumption, NoMsgAssumption DEF SetInv, TakeValid, Slot
<1>1. TypeOK'
  BY DEF TypeOK, InsertPC, DrainPC, InsertShape, DrainShape, DrainOwnsSlot
<1>2. InsertShape'
  BY DEF TypeOK, InsertShape
<1>3. DrainShape'
  BY DEF TypeOK, DrainShape, DrainOwnsSlot
<1>4. FillerOwnsSlot'
  BY DEF TypeOK, FillerOwnsSlot, Filling, Emptying, InsertShape, DrainShape, SlotShape, DrainOwnsSlot
<1>5. DrainOwnsSlot'
  BY DEF TypeOK, DrainOwnsSlot, Filling, Emptying, InsertShape, DrainShape, FillerOwnsSlot, SlotShape
<1>6. SlotShape'
  BY DEF TypeOK, SlotShape, Filling, Emptying, InsertShape, DrainShape, FillerOwnsSlot, DrainOwnsSlot
<1>7. OwedAhead'
  BY DEF TypeOK, OwedAhead, Filling, Emptying, InsertShape, DrainShape, FillerOwnsSlot, DrainOwnsSlot
<1>8. QED
  BY <1>1, <1>2, <1>3, <1>4, <1>5, <1>6, <1>7

LEMMA TakeInvalidInv ==
  ASSUME SetInv, TakeInvalid
  PROVE  SetInv'
<1> USE NumSlotsAssumption, NoMsgAssumption DEF SetInv, TakeInvalid, Slot
<1>1. TypeOK'
  <2>1. draining' \in [pc : DrainPC, idx : 0..NumSlots, msg : Msgs \cup {NoMsg}]
    <3>1. CASE draining.idx < NumSlots
      <4>1. draining' = [draining EXCEPT !.idx = draining.idx + 1]
        BY <3>1
      <4>2. draining.idx + 1 \in 0..NumSlots
        BY <3>1 DEF TypeOK
      <4>3. draining \in [pc : DrainPC, idx : 0..NumSlots, msg : Msgs \cup {NoMsg}]
        BY DEF TypeOK
      <4>4. QED
        BY <4>1, <4>2, <4>3
    <3>2. CASE ~(draining.idx < NumSlots)
      BY <3>2 DEF DrainPC
    <3>3. QED
      BY <3>1, <3>2
  <2>2. QED
    BY <2>1 DEF TypeOK
<1>2. InsertShape'
  BY DEF TypeOK, InsertShape
<1>3. DrainShape'
  BY DEF TypeOK, DrainShape, DrainOwnsSlot
<1>4. FillerOwnsSlot'
  BY DEF TypeOK, FillerOwnsSlot, Filling, Emptying, InsertShape, DrainShape, SlotShape, DrainOwnsSlot
<1>5. DrainOwnsSlot'
  BY DEF TypeOK, DrainOwnsSlot, Filling, Emptying, InsertShape, DrainShape, FillerOwnsSlot, SlotShape
<1>6. SlotShape'
  BY DEF TypeOK, SlotShape, Filling, Emptying, InsertShape, DrainShape, FillerOwnsSlot, DrainOwnsSlot
<1>7. OwedAhead'
  <2>1. CASE draining.idx < NumSlots
    <3>1. draining'.pc = "load" /\ draining'.idx = draining.idx + 1
      BY <2>1 DEF TypeOK
    <3>2. ASSUME NEW m \in owed
          PROVE  \E i \in Slot : slot_valid[i] /\ slots[i] = m /\ i >= draining.idx + 1
      <4>1. PICK i \in Slot : slot_valid[i] /\ slots[i] = m /\ i >= draining.idx
        BY <3>2 DEF OwedAhead
      <4>2. i # draining.idx
        BY <4>1
      <4>3. i >= draining.idx + 1
        BY <4>1, <4>2, <2>1 DEF DrainShape
      <4>4. QED
        BY <4>1, <4>3
    <3>3. owed' = owed /\ slot_valid' = slot_valid /\ slots' = slots
      OBVIOUS
    <3>4. QED
      BY <3>1, <3>2, <3>3 DEF OwedAhead
  <2>2. CASE ~(draining.idx < NumSlots)
    <3>1. draining.idx = NumSlots
      BY <2>2 DEF DrainShape
    <3>2. owed = {}
      BY <3>1 DEF OwedAhead
    <3>3. QED
      BY <2>2, <3>2 DEF OwedAhead
  <2>3. QED
    BY <2>1, <2>2
<1>8. QED
  BY <1>1, <1>2, <1>3, <1>4, <1>5, <1>6, <1>7

LEMMA TakeMessageInv ==
  ASSUME SetInv, TakeMessage
  PROVE  SetInv'
<1> USE NumSlotsAssumption, NoMsgAssumption DEF SetInv, TakeMessage, Slot
<1>1. TypeOK'
  BY DEF TypeOK, InsertPC, DrainPC, InsertShape, DrainShape, DrainOwnsSlot
<1>2. InsertShape'
  BY DEF TypeOK, InsertShape
<1>3. DrainShape'
  BY DEF TypeOK, DrainShape, DrainOwnsSlot
<1>4. FillerOwnsSlot'
  BY DEF TypeOK, FillerOwnsSlot, Filling, Emptying, InsertShape, DrainShape, SlotShape, DrainOwnsSlot
<1>5. DrainOwnsSlot'
  BY DEF TypeOK, DrainOwnsSlot, Filling, Emptying, InsertShape, DrainShape, FillerOwnsSlot, SlotShape
<1>6. SlotShape'
  BY DEF TypeOK, SlotShape, Filling, Emptying, InsertShape, DrainShape, FillerOwnsSlot, DrainOwnsSlot
<1>7. OwedAhead'
  BY DEF TypeOK, OwedAhead, Filling, Emptying, InsertShape, DrainShape, FillerOwnsSlot, DrainOwnsSlot
<1>8. QED
  BY <1>1, <1>2, <1>3, <1>4, <1>5, <1>6, <1>7

LEMMA TakeInvalidateInv ==
  ASSUME SetInv, TakeInvalidate
  PROVE  SetInv'
<1> USE NumSlotsAssumption, NoMsgAssumption DEF SetInv, TakeInvalidate, Slot
<1>1. TypeOK'
  BY DEF TypeOK, InsertPC, DrainPC, InsertShape, DrainShape, DrainOwnsSlot
<1>2. InsertShape'
  BY DEF TypeOK, InsertShape
<1>3. DrainShape'
  BY DEF TypeOK, DrainShape, DrainOwnsSlot
<1>4. FillerOwnsSlot'
  BY DEF TypeOK, FillerOwnsSlot, Filling, Emptying, InsertShape, DrainShape, SlotShape, DrainOwnsSlot
<1>5. DrainOwnsSlot'
  BY DEF TypeOK, DrainOwnsSlot, Filling, Emptying, InsertShape, DrainShape, FillerOwnsSlot, SlotShape
<1>6. SlotShape'
  BY DEF TypeOK, SlotShape, Filling, Emptying, InsertShape, DrainShape, FillerOwnsSlot, DrainOwnsSlot
<1>7. OwedAhead'
  BY DEF TypeOK, OwedAhead, Filling, Emptying, InsertShape, DrainShape, FillerOwnsSlot, DrainOwnsSlot
<1>8. QED
  BY <1>1, <1>2, <1>3, <1>4, <1>5, <1>6, <1>7

LEMMA TakeReleaseInv ==
  ASSUME SetInv, TakeRelease
  PROVE  SetInv'
<1> USE NumSlotsAssumption, NoMsgAssumption DEF SetInv, TakeRelease, Slot
<1>1. TypeOK'
  BY DEF TypeOK, InsertPC, DrainPC, InsertShape, DrainShape, DrainOwnsSlot
<1>2. InsertShape'
  BY DEF TypeOK, InsertShape
<1>3. DrainShape'
  BY DEF TypeOK, DrainShape, DrainOwnsSlot
<1>4. FillerOwnsSlot'
  BY DEF TypeOK, FillerOwnsSlot, Filling, Emptying, InsertShape, DrainShape, SlotShape, DrainOwnsSlot
<1>5. DrainOwnsSlot'
  BY DEF TypeOK, DrainOwnsSlot, Filling, Emptying, InsertShape, DrainShape, FillerOwnsSlot, SlotShape
<1>6. SlotShape'
  BY DEF TypeOK, SlotShape, Filling, Emptying, InsertShape, DrainShape, FillerOwnsSlot, DrainOwnsSlot
<1>7. OwedAhead'
  BY DEF TypeOK, OwedAhead, Filling, Emptying, InsertShape, DrainShape, FillerOwnsSlot, DrainOwnsSlot
<1>8. QED
  BY <1>1, <1>2, <1>3, <1>4, <1>5, <1>6, <1>7

LEMMA DrainNextInv ==
  ASSUME SetInv, DrainNext
  PROVE  SetInv'
<1> USE NumSlotsAssumption, NoMsgAssumption DEF SetInv, DrainNext, Slot
<1>1. TypeOK'
  BY DEF TypeOK, InsertPC, DrainPC, InsertShape, DrainShape, DrainOwnsSlot
<1>2. InsertShape'
  BY DEF TypeOK, InsertShape
<1>3. DrainShape'
  BY DEF TypeOK, DrainShape, DrainOwnsSlot
<1>4. FillerOwnsSlot'
  BY DEF TypeOK, FillerOwnsSlot, Filling, Emptying, InsertShape, DrainShape, SlotShape, DrainOwnsSlot
<1>5. DrainOwnsSlot'
  BY DEF TypeOK, DrainOwnsSlot, Filling, Emptying, InsertShape, DrainShape, FillerOwnsSlot, SlotShape
<1>6. SlotShape'
  BY DEF TypeOK, SlotShape, Filling, Emptying, InsertShape, DrainShape, FillerOwnsSlot, DrainOwnsSlot
<1>7. OwedAhead'
  BY DEF TypeOK, OwedAhead, Filling, Emptying, InsertShape, DrainShape, FillerOwnsSlot, DrainOwnsSlot
<1>8. QED
  BY <1>1, <1>2, <1>3, <1>4, <1>5, <1>6, <1>7

LEMMA DrainAbortInv ==
  ASSUME SetInv, DrainAbort
  PROVE  SetInv'
<1> USE NumSlotsAssumption, NoMsgAssumption DEF SetInv, DrainAbort, Slot
<1>1. TypeOK'
  BY DEF TypeOK, InsertPC, DrainPC, InsertShape, DrainShape, DrainOwnsSlot
<1>2. InsertShape'
  BY DEF TypeOK, InsertShape
<1>3. DrainShape'
  BY DEF TypeOK, DrainShape, DrainOwnsSlot
<1>4. FillerOwnsSlot'
  BY DEF TypeOK, FillerOwnsSlot, Filling, Emptying, InsertShape, DrainShape, SlotShape, DrainOwnsSlot
<1>5. DrainOwnsSlot'
  BY DEF TypeOK, DrainOwnsSlot, Filling, Emptying, InsertShape, DrainShape, FillerOwnsSlot, SlotShape
<1>6. SlotShape'
  BY DEF TypeOK, SlotShape, Filling, Emptying, InsertShape, DrainShape, FillerOwnsSlot, DrainOwnsSlot
<1>7. OwedAhead'
  BY DEF TypeOK, OwedAhead, Filling, Emptying, InsertShape, DrainShape, FillerOwnsSlot, DrainOwnsSlot
<1>8. QED
  BY <1>1, <1>2, <1>3, <1>4, <1>5, <1>6, <1>7

-----------------------------------------------------------------------------
LEMMA SetNext == SetInv /\ [Next]_vars => SetInv'
<1> SUFFICES ASSUME SetInv, [Next]_vars PROVE SetInv'
  OBVIOUS
<1>1. ASSUME NEW t \in Threads, NEW m \in Msgs, insert(t, m) PROVE SetInv'
  BY <1>1, insertInv
<1>2. ASSUME NEW t \in Threads, InsertStep(t) PROVE SetInv'
  BY <1>2, InsertClaimInv, InsertSkipInv, InsertWriteInv, InsertPublishInv DEF InsertStep
<1>3. CASE drain
  BY <1>3, drainInv
<1>4. CASE DrainStep
  BY <1>4, TakeValidInv, TakeInvalidInv, TakeMessageInv, TakeInvalidateInv, TakeReleaseInv
     DEF DrainStep
<1>5. CASE DrainNext
  BY <1>5, DrainNextInv
<1>6. CASE DrainAbort
  BY <1>6, DrainAbortInv
<1>7. CASE UNCHANGED vars
  BY <1>7 DEF vars, SetInv, TypeOK, InsertShape, DrainShape, FillerOwnsSlot,
              DrainOwnsSlot, SlotShape, OwedAhead, Filling, Emptying
<1>8. QED
  BY <1>1, <1>2, <1>3, <1>4, <1>5, <1>6, <1>7 DEF Next

(* SetInv is an invariant of the slot array.                               *)
THEOREM SetInvariant == Spec => []SetInv
  BY SetInit, SetNext, PTL DEF Spec

(* The variables of the slot array keep their types.                       *)
THEOREM SetTypeCorrect == Spec => []TypeOK
<1>1. SetInv => TypeOK
  BY DEF SetInv
<1>2. QED
  BY <1>1, SetInvariant, PTL

(* The flags keep insert and take_slot from ever touching the same cell,   *)
(* and from reading an incomplete message, for any number of threads.      *)
THEOREM SlotRaceFreedom == Spec => []NoSlotRace
<1>1. SetInv => NoSlotRace
  BY NoMsgAssumption
     DEF SetInv, NoSlotRace, FillerOwnsSlot, DrainOwnsSlot, Filling, Emptying
<1>2. QED
  BY <1>1, SetInvariant, PTL

(* A drain that ends normally has taken every message published before it  *)
(* began.                                                                  *)
THEOREM DrainCompleteness == Spec => []DrainComplete
<1>1. SetInv => DrainComplete
  BY DEF SetInv, OwedAhead, DrainComplete
<1>2. QED
  BY <1>1, SetInvariant, PTL

-----------------------------------------------------------------------------
(* A message is in one place only: a slot, the insert that brings it or    *)
(* the hands of the handler.                                               *)
OnePlace ==
  /\ \A i, j \in Slot : slots[i] # NoMsg /\ slots[i] = slots[j] => i = j
  /\ \A t \in Threads : inserting[t].msg # NoMsg =>
       /\ \A i \in Slot : slots[i] # inserting[t].msg
       /\ \A u \in Threads : inserting[u].msg = inserting[t].msg => u = t
  /\ draining.msg # NoMsg =>
       /\ \A i \in Slot : slots[i] # draining.msg
       /\ \A t \in Threads : inserting[t].msg # draining.msg

LEMMA OnePlaceInit == Init => OnePlace
  BY DEF Init, new, OnePlace

(* insert is called with a message that is in none of these places.        *)
LEMMA InsertOnePlace ==
  ASSUME SetInv, OnePlace, NEW t \in Threads, NEW m \in Msgs, ~InUse(m), insert(t, m)
  PROVE  OnePlace'
  BY NoMsgAssumption DEF SetInv, TypeOK, OnePlace, InUse, insert

LEMMA InsertStepOnePlace ==
  ASSUME SetInv, OnePlace, NEW t \in Threads, InsertStep(t)
  PROVE  OnePlace'
<1> USE NoMsgAssumption DEF SetInv, TypeOK, OnePlace
<1>1. CASE InsertClaim(t)
  BY <1>1 DEF InsertClaim
<1>2. CASE InsertSkip(t)
  BY <1>2 DEF InsertSkip
<1>3. CASE InsertWrite(t)
  BY <1>3 DEF InsertWrite, InsertShape
<1>4. CASE InsertPublish(t)
  BY <1>4 DEF InsertPublish, InsertShape
<1>5. QED
  BY <1>1, <1>2, <1>3, <1>4 DEF InsertStep

LEMMA DrainOnePlace ==
  ASSUME SetInv, OnePlace, drain \/ DrainStep \/ DrainNext \/ DrainAbort
  PROVE  OnePlace'
<1> USE NoMsgAssumption DEF SetInv, TypeOK, OnePlace
<1>1. CASE drain
  BY <1>1 DEF drain
<1>2. CASE TakeValid
  BY <1>2 DEF TakeValid
<1>3. CASE TakeInvalid
  BY <1>3 DEF TakeInvalid
<1>4. CASE TakeMessage
  BY <1>4 DEF TakeMessage, DrainShape
<1>5. CASE TakeInvalidate
  BY <1>5 DEF TakeInvalidate
<1>6. CASE TakeRelease
  BY <1>6 DEF TakeRelease
<1>7. CASE DrainNext
  BY <1>7 DEF DrainNext
<1>8. CASE DrainAbort
  BY <1>8 DEF DrainAbort
<1>9. QED
  BY <1>1, <1>2, <1>3, <1>4, <1>5, <1>6, <1>7, <1>8 DEF DrainStep

LEMMA OnePlaceNext == SetInv /\ OnePlace /\ [Next]_vars => OnePlace'
<1> SUFFICES ASSUME SetInv, OnePlace, [Next]_vars PROVE OnePlace'
  OBVIOUS
<1>1. ASSUME NEW t \in Threads, NEW m \in Msgs, ~InUse(m), insert(t, m) PROVE OnePlace'
  BY <1>1, InsertOnePlace
<1>2. CASE UNCHANGED vars
  BY <1>2 DEF vars, OnePlace
<1>3. QED
  BY <1>1, <1>2, InsertStepOnePlace, DrainOnePlace DEF Next

(* No message is ever in two places: what insert moved in, drain moves out *)
(* once.                                                                   *)
THEOREM MessagesInOnePlace == Spec => []OnePlace
  BY OnePlaceInit, OnePlaceNext, SetInvariant, PTL DEF Spec

-----------------------------------------------------------------------------
LEMMA PublishedIn ==
  ASSUME NEW m
  PROVE  m \in Published <=> m # NoMsg /\ \E i \in Slot : slot_valid[i] /\ slots[i] = m
  BY DEF Published

LEMMA PublishedInNext ==
  ASSUME NEW m
  PROVE  m \in Published' <=> m # NoMsg /\ \E i \in Slot : slot_valid'[i] /\ slots'[i] = m
  BY DEF Published, Slot

(* While a slot is not published the set is not full: distinct messages    *)
(* are in distinct slots.                                                  *)
LEMMA RoomWhileFilling ==
  ASSUME SetInv, NEW i \in Slot, ~slot_valid[i]
  PROVE  Cardinality(Published) < NumSlots
<1> DEFINE place == [m \in Published |-> CHOOSE j \in Slot : slot_valid[j] /\ slots[j] = m]
<1>1. \A m \in Published : place[m] \in Slot \ {i} /\ slots[place[m]] = m
  BY PublishedIn
<1>2. place \in Injection(Published, Slot \ {i})
  BY <1>1 DEF Injection, IsInjective
<1>3. IsFiniteSet(Slot) /\ Cardinality(Slot) = NumSlots
  BY FS_Interval, NumSlotsAssumption DEF Slot
<1>4. IsFiniteSet(Slot \ {i}) /\ Cardinality(Slot \ {i}) = NumSlots - 1
  BY <1>3, FS_RemoveElement
<1> HIDE DEF place
<1>5. IsFiniteSet(Published) /\ Cardinality(Published) <= NumSlots - 1
  BY <1>2, <1>4, FS_Injection
<1>6. Cardinality(Published) \in Nat
  BY <1>5, FS_CardinalityType
<1>7. QED
  BY <1>5, <1>6, NumSlotsAssumption

LEMMA PublishIsPut ==
  ASSUME SetInv, OnePlace, NEW t \in Threads, InsertPublish(t)
  PROVE  \E m \in Msgs : Packets!Put(m)
<1> DEFINE i == inserting[t].idx
<1>1. i \in Slot /\ ~slot_valid[i] /\ slots[i] \in Msgs
  BY DEF InsertPublish, SetInv, InsertShape, FillerOwnsSlot, Filling
<1>2. PICK m \in Msgs : m = slots[i]
  BY <1>1
<1>3. m # NoMsg
  BY NoMsgAssumption
<1>4. m \notin Published
  BY <1>1, <1>2, <1>3, PublishedIn DEF OnePlace
<1>5. m # draining.msg
  BY <1>1, <1>2, <1>3 DEF OnePlace
<1>6. Cardinality(Published) < NumSlots
  BY <1>1, RoomWhileFilling
<1>7. /\ slots' = slots
      /\ slot_valid' = [slot_valid EXCEPT ![i] = TRUE]
      /\ slot_valid \in [Slot -> BOOLEAN]
  BY DEF InsertPublish, SetInv, TypeOK
<1>8. ASSUME NEW n PROVE n \in Published' <=> n \in Published \cup {m}
  BY <1>1, <1>2, <1>3, <1>7, PublishedIn, PublishedInNext
<1>9. Published' = Published \cup {m}
  BY <1>8
<1>10. draining' = draining /\ owed' = owed
  BY DEF InsertPublish
<1>11. Packets!Cardinality(Published) < NumSlots
  BY <1>6, Zenon DEF Cardinality, Packets!Cardinality
<1>12. QED
  BY <1>4, <1>5, <1>9, <1>10, <1>11 DEF Packets!Put

LEMMA TakeIsTake ==
  ASSUME SetInv, OnePlace, TakeMessage
  PROVE  \E m \in Msgs : Packets!Take(m)
<1> DEFINE i == draining.idx
<1>1. i \in Slot /\ slot_valid[i] /\ slots[i] \in Msgs /\ draining.msg = NoMsg
  BY DEF TakeMessage, SetInv, DrainShape, DrainOwnsSlot
<1>2. PICK m \in Msgs : m = slots[i]
  BY <1>1
<1>3. m # NoMsg
  BY NoMsgAssumption
<1>4. m \in Published
  BY <1>1, <1>2, <1>3, PublishedIn
<1>5. /\ slots' = [slots EXCEPT ![i] = NoMsg]
      /\ slot_valid' = slot_valid
      /\ slots \in [Slot -> Msgs \cup {NoMsg}]
  BY DEF TakeMessage, SetInv, TypeOK
<1>6. ASSUME NEW n PROVE n \in Published' <=> n \in Published \ {m}
  BY <1>1, <1>2, <1>3, <1>5, PublishedIn, PublishedInNext DEF OnePlace
<1>7. Published' = Published \ {m}
  BY <1>6
<1>8. draining'.msg = m /\ owed' = owed \ {m}
  BY <1>2 DEF TakeMessage, SetInv, TypeOK
<1>9. QED
  BY <1>1, <1>4, <1>7, <1>8 DEF Packets!Take

(* The steps between the publication of a message and its removal change   *)
(* no cell that is published.                                              *)
LEMMA PublishedKept ==
  ASSUME SetInv,
         \/ \E t \in Threads, m \in Msgs : insert(t, m)
         \/ \E t \in Threads : InsertClaim(t) \/ InsertSkip(t) \/ InsertWrite(t)
         \/ drain \/ TakeValid \/ TakeInvalid \/ TakeInvalidate \/ TakeRelease
         \/ DrainNext \/ DrainAbort
  PROVE  Published' = Published
<1>1. CASE slots' = slots /\ slot_valid' = slot_valid
  BY <1>1 DEF Published
<1>2. ASSUME NEW t \in Threads, InsertWrite(t) PROVE Published' = Published
  <2> DEFINE i == inserting[t].idx
  <2>1. i \in Slot /\ ~slot_valid[i]
    BY <1>2 DEF InsertWrite, SetInv, InsertShape, FillerOwnsSlot, Filling
  <2>2. slots' = [slots EXCEPT ![i] = inserting[t].msg] /\ slot_valid' = slot_valid
    BY <1>2 DEF InsertWrite
  <2>3. slots \in [Slot -> Msgs \cup {NoMsg}]
    BY DEF SetInv, TypeOK
  <2>4. ASSUME NEW n PROVE n \in Published' <=> n \in Published
    BY <2>1, <2>2, <2>3, PublishedIn, PublishedInNext
  <2>5. QED
    BY <2>4
<1>3. CASE TakeInvalidate
  <2> DEFINE i == draining.idx
  <2>1. i \in Slot /\ slots[i] = NoMsg
    BY <1>3 DEF TakeInvalidate, SetInv, DrainShape, DrainOwnsSlot
  <2>2. slot_valid' = [slot_valid EXCEPT ![i] = FALSE] /\ slots' = slots
    BY <1>3 DEF TakeInvalidate
  <2>3. slot_valid \in [Slot -> BOOLEAN]
    BY DEF SetInv, TypeOK
  <2>4. ASSUME NEW n PROVE n \in Published' <=> n \in Published
    BY <2>1, <2>2, <2>3, PublishedIn, PublishedInNext
  <2>5. QED
    BY <2>4
<1>4. QED
  BY <1>1, <1>2, <1>3
     DEF insert, InsertClaim, InsertSkip, drain, TakeValid, TakeInvalid, TakeRelease,
         DrainNext, DrainAbort

(* Every step of the slot array is a step of the packet set or leaves it   *)
(* as it was.                                                              *)
LEMMA PacketSetStep ==
  ASSUME SetInv, OnePlace, [Next]_vars
  PROVE  [Packets!Next]_(Packets!vars)
<1> USE DEF Packets!vars
<1>1. ASSUME NEW t \in Threads, NEW m \in Msgs, insert(t, m) PROVE UNCHANGED Packets!vars
  <2>1. Published' = Published
    BY <1>1, PublishedKept
  <2>2. QED
    BY <1>1, <2>1 DEF insert
<1>2. ASSUME NEW t \in Threads, InsertStep(t) PROVE [Packets!Next]_(Packets!vars)
  <2>1. CASE InsertPublish(t)
    BY <2>1, PublishIsPut DEF Packets!Next
  <2>2. CASE InsertClaim(t) \/ InsertSkip(t) \/ InsertWrite(t)
    BY <2>2, PublishedKept DEF InsertClaim, InsertSkip, InsertWrite
  <2>3. QED
    BY <1>2, <2>1, <2>2 DEF InsertStep
<1>3. CASE drain
  <2>1. owed = {} /\ draining.msg = NoMsg /\ draining'.msg = NoMsg /\ owed' = Published
    BY <1>3 DEF drain, SetInv, OwedAhead, DrainShape
  <2>2. QED
    BY <1>3, <2>1, PublishedKept DEF Packets!Next, Packets!BeginDrain
<1>4. CASE DrainStep
  <2>1. CASE TakeMessage
    BY <2>1, TakeIsTake DEF Packets!Next
  <2>2. CASE TakeValid \/ TakeInvalid \/ TakeInvalidate \/ TakeRelease
    <3>1. draining'.msg = draining.msg /\ owed' = owed
      BY <2>2 DEF TakeValid, TakeInvalid, TakeInvalidate, TakeRelease, SetInv, TypeOK, DrainShape
    <3>2. QED
      BY <2>2, <3>1, PublishedKept
  <2>3. QED
    BY <1>4, <2>1, <2>2 DEF DrainStep
<1>5. CASE DrainNext \/ DrainAbort
  <2>1. draining.msg # NoMsg /\ draining'.msg = NoMsg /\ owed' \in {owed, {}}
    BY <1>5, NoMsgAssumption DEF DrainNext, DrainAbort, SetInv, DrainShape
  <2>2. QED
    BY <1>5, <2>1, PublishedKept DEF Packets!Next, Packets!Done
<1>6. CASE UNCHANGED vars
  BY <1>6 DEF vars, Published
<1>7. QED
  BY <1>1, <1>2, <1>3, <1>4, <1>5, <1>6 DEF Next

(* The slot array is a set of at most NumSlots packets: a packet enters    *)
(* once, leaves once, and a drain takes what it found when it began, for   *)
(* any number of inserting threads, slots and messages.                    *)
THEOREM ArrayImplementsPacketSet == Spec => ImplementsPacketSet
<1>1. Init => Packets!Init
  BY DEF Init, new, Packets!Init, Published
<1>2. QED
  BY <1>1, PacketSetStep, SetInvariant, MessagesInOnePlace, PTL
     DEF Spec, ImplementsPacketSet, Packets!Spec
=============================================================================
