------------------------------ MODULE SendPath ------------------------------
(***************************************************************************)
(* The way of a packet from Context::send to the socket: allocate a buffer *)
(* of output_buffer_pool, build the message in it, insert the message in   *)
(* outgoing_messages (or, when the timer says that the time stamp is       *)
(* beyond the deadline, push it on upcoming_messages); Context::at_deadline *)
(* drains outgoing_messages, sends every message and drops it, which frees *)
(* its buffer.  BufferPool and OutputMsgSet are composed step by step; a   *)
(* message is named by the buffer it lives in.                             *)
(***************************************************************************)
EXTENDS Naturals, FiniteSets

CONSTANTS
  NumBuffers,  \* Config::num_buffers: the buffers of the pool, the slots of the set
  Threads      \* application threads

ASSUME NumBuffersAssumption == NumBuffers \in Nat \ {0}

VARIABLES
  buffer_busy, live, scan, got, outcome, contended,                \* BufferPool
  slot_busy, slot_valid, slots, inserting, draining, owed,       \* OutputMsgSet
  upcoming,   \* buffers of the messages in upcoming_messages
  phase,      \* per thread, where its Context::send is
  handler     \* where at_deadline is

poolVars == <<buffer_busy, live, scan, got, outcome, contended>>
setVars == <<slot_busy, slot_valid, slots, inserting, draining, owed>>
vars == <<buffer_busy, live, scan, got, outcome, contended,
          slot_busy, slot_valid, slots, inserting, draining, owed,
          upcoming, phase, handler>>

Buffers == 1..NumBuffers
NoBuffer == 0

Pool == INSTANCE BufferPool WITH Users <- Threads
Set == INSTANCE OutputMsgSet
         WITH NumSlots <- NumBuffers, Msgs <- Buffers, NoMsg <- NoBuffer

Init ==
  /\ Pool!Init
  /\ Set!Init
  /\ upcoming = {}
  /\ phase = [t \in Threads |-> "out"]
  /\ handler = "running"

-----------------------------------------------------------------------------
(* Context::send calls allocate_buffer; a message that is too big ends it. *)
Send(t, fits) ==
  /\ phase[t] = "out"
  /\ Pool!allocate_buffer(t, fits)
  /\ phase' = [phase EXCEPT ![t] = IF fits THEN "allocating" ELSE "out"]
  /\ UNCHANGED <<setVars, upcoming, handler>>

SendAllocated(t) ==
  /\ phase[t] = "allocating"
  /\ Pool!SwapFree(t)
  /\ phase' = [phase EXCEPT ![t] = "built"]
  /\ UNCHANGED <<setVars, upcoming, handler>>

(* The scan goes on, or send returns NoMemoryAvailable.                    *)
SendScan(t) ==
  /\ phase[t] = "allocating"
  /\ Pool!SwapBusy(t)
  /\ phase' = [phase EXCEPT ![t] = IF scan'[t] = 0 THEN "out" ELSE @]
  /\ UNCHANGED <<setVars, upcoming, handler>>

(* check_deadline_overrun gives None: outgoing_messages.insert is called.  *)
SendInsert(t) ==
  /\ phase[t] = "built"
  /\ Set!insert(t, got[t])
  /\ phase' = [phase EXCEPT ![t] = "inserting"]
  /\ UNCHANGED <<poolVars, upcoming, handler>>

(* check_deadline_overrun gives a time: the message waits in the FIFO,     *)
(* whose mutex the handler holds while it empties it.                      *)
SendOverrun(t) ==
  /\ phase[t] = "built"
  /\ handler # "flushing"
  /\ upcoming' = upcoming \cup {got[t]}
  /\ phase' = [phase EXCEPT ![t] = "out"]
  /\ UNCHANGED <<poolVars, setVars, handler>>

(* Mutant: the buffer goes back to the pool once its slot is written.      *)
SendInsertStepFreed(t) ==
  /\ phase[t] = "inserting"
  /\ Set!InsertStep(t)
  /\ IF inserting'[t].pc \in {"publish", "NoSlotAvailable"}
     THEN Pool!free_buffer(inserting[t].msg)
     ELSE UNCHANGED poolVars
  /\ phase' = [phase EXCEPT ![t] =
                 IF inserting'[t].pc \in {"ok", "NoSlotAvailable"} THEN "out" ELSE @]
  /\ UNCHANGED <<upcoming, handler>>

(* A step of insert.  When it fails, the message and its buffer are        *)
(* dropped.                                                                *)
SendInsertStep(t) ==
  /\ phase[t] = "inserting"
  /\ Set!InsertStep(t)
  /\ IF inserting'[t].pc = "NoSlotAvailable"
     THEN Pool!free_buffer(inserting[t].msg)
     ELSE UNCHANGED poolVars
  /\ phase' = [phase EXCEPT ![t] =
                 IF inserting'[t].pc \in {"ok", "NoSlotAvailable"} THEN "out" ELSE @]
  /\ UNCHANGED <<upcoming, handler>>

-----------------------------------------------------------------------------
(* at_deadline starts to drain outgoing_messages.                          *)
AtDeadline ==
  /\ handler = "running"
  /\ Set!drain
  /\ handler' = "draining"
  /\ UNCHANGED <<poolVars, upcoming, phase>>

DrainStep ==
  /\ handler = "draining"
  /\ Set!DrainStep
  /\ handler' = IF draining'.pc = "idle" THEN "flushing" ELSE handler
  /\ UNCHANGED <<poolVars, upcoming, phase>>

(* The message in hand is written to the socket and dropped.               *)
SendPacket ==
  /\ handler = "draining"
  /\ Set!DrainNext
  /\ Pool!free_buffer(draining.msg)
  /\ handler' = IF draining'.pc = "idle" THEN "flushing" ELSE handler
  /\ UNCHANGED <<upcoming, phase>>

(* Mutant: the message in hand is forgotten on the early return.           *)
AbortLeaking ==
  /\ handler = "draining"
  /\ Set!DrainAbort
  /\ handler' = "ended"
  /\ UNCHANGED <<poolVars, upcoming, phase>>

(* A send time beyond the deadline or a failed write: EndSimulation.       *)
Abort ==
  /\ handler = "draining"
  /\ Set!DrainAbort
  /\ Pool!free_buffer(draining.msg)
  /\ handler' = "ended"
  /\ UNCHANGED <<upcoming, phase>>

(* A message of upcoming_messages whose time has come is sent and dropped; *)
(* when the write fails the simulation ends.                               *)
SendUpcoming ==
  /\ handler = "flushing"
  /\ \E b \in upcoming :
       /\ Pool!free_buffer(b)
       /\ upcoming' = upcoming \ {b}
  /\ handler' \in {"flushing", "ended"}
  /\ UNCHANGED <<setVars, phase>>

(* AtDeadline is sent, the next deadline received, and the slice begins;   *)
(* or the simulation ends.                                                 *)
NextDeadline ==
  /\ handler = "flushing"
  /\ handler' \in {"running", "ended"}
  /\ UNCHANGED <<poolVars, setVars, upcoming, phase>>

Next ==
  \/ \E t \in Threads :
       \/ \E fits \in BOOLEAN : Send(t, fits)
       \/ SendAllocated(t) \/ SendScan(t)
       \/ SendInsert(t) \/ SendOverrun(t) \/ SendInsertStep(t)
  \/ AtDeadline \/ DrainStep \/ SendPacket \/ Abort
  \/ SendUpcoming \/ NextDeadline

Spec == Init /\ [][Next]_vars

-----------------------------------------------------------------------------
TypeOK ==
  /\ buffer_busy \in [Buffers -> BOOLEAN]
  /\ live \in [Buffers -> Nat]
  /\ scan \in [Threads -> 0..NumBuffers]
  /\ got \in [Threads -> 0..NumBuffers]
  /\ slot_busy \in [Buffers -> BOOLEAN]
  /\ slot_valid \in [Buffers -> BOOLEAN]
  /\ slots \in [Buffers -> 0..NumBuffers]
  /\ inserting \in [Threads -> [pc : Set!InsertPC, idx : 0..NumBuffers, msg : 0..NumBuffers]]
  /\ draining \in [pc : Set!DrainPC, idx : 0..NumBuffers, msg : 0..NumBuffers]
  /\ owed \in SUBSET Buffers
  /\ upcoming \in SUBSET Buffers
  /\ phase \in [Threads -> {"out", "allocating", "built", "inserting"}]
  /\ handler \in {"running", "draining", "flushing", "ended"}

(* The places a message in buffer b can be in.                             *)
Places(b) ==
  {<<"sender", t>> : t \in {u \in Threads : phase[u] = "built" /\ got[u] = b}}
    \cup {<<"insert", t>> : t \in {u \in Threads : inserting[u].msg = b}}
    \cup {<<"slot", i>> : i \in {j \in Buffers : slots[j] = b}}
    \cup {<<"hand", 0>> : x \in {y \in {0} : draining.msg = b}}
    \cup {<<"fifo", 0>> : x \in {y \in {0} : b \in upcoming}}

(* Every buffer marked busy in the pool is held in exactly one place on    *)
(* the way from Context::send to the socket, and every other buffer        *)
(* nowhere: no step of send, insert, drain or the error paths leaks a      *)
(* buffer, frees it twice or shares it (buffer_pool.rs: "Does not          *)
(* implement Clone").                                                      *)
BufferHasOneOwner ==
  \A b \in Buffers : Cardinality(Places(b)) = IF buffer_busy[b] THEN 1 ELSE 0

(* insert never answers NoSlotAvailable to Context::send, although its     *)
(* scan is not atomic and slots are taken and released behind it: whoever  *)
(* holds a buffer of the pool finds a slot.                                *)
SlotAlwaysAvailable ==
  \A t \in Threads : inserting[t].pc # "NoSlotAvailable"

(* Context::send is told NoMemoryAvailable only if, at some moment of its  *)
(* allocate_buffer, all the buffers were in use or the other threads took  *)
(* one: the handler, which frees buffers behind the scan, does not make it *)
(* fail.                                                                   *)
FailsOnlyWhenContended == Pool!FailsOnlyWhenContended
=============================================================================
