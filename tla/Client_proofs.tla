---------------------------- MODULE Client_proofs ----------------------------
(***************************************************************************)
(* Proofs about Client: the client in a process, for any number of threads *)
(* and buffers, all slices and any interleaving with the deadline handler. *)
(* The last part is about an application with a single thread: the handler *)
(* is never blocked, time never steps back, no packet is late unless an    *)
(* expiry was, and no wake-up is lost.                                     *)
(***************************************************************************)
EXTENDS Client, FiniteSetTheorems, TLAPS

Types ==
  /\ clock \in Nat
  /\ app_offset \in Int /\ sim_offset \in Int /\ current_deadline \in Int
  /\ prev_deadline \in Nat /\ next_deadline \in Nat
  /\ timer \in Nat \cup {NoTimer}
  /\ hpc \in HandlerPC
  /\ freeze \in Nat /\ now \in Nat /\ late \in Nat
  /\ goal \in Nat \cup {EndSimulation}
  /\ thread \in [Threads -> [pc : ThreadPC, time : Nat]]
  /\ \A m \in outgoing : m.time \in Nat
  /\ seen \in [Threads -> Int]

(* Where start and the handler are, and what holds there.                  *)
Phase ==
  /\ prev_deadline <= next_deadline
  /\ hpc # "idle" => start_once
  /\ first => hpc \in {"startrecv", "thaw", "thaw_app", "thaw_sim", "thaw_flag", "settime"}
  /\ hpc = "startrecv" => first
  /\ ~start_once \/ first => /\ late = 0 /\ timer = NoTimer /\ prev_deadline = 0
                             /\ cause = "none"
                             /\ wire = {}
  /\ ~start_once \/ hpc = "startrecv" => next_deadline = 0
  /\ first /\ hpc = "thaw" => next_deadline = 0
  /\ timer # NoTimer => hpc \in {"idle", "freeze"} /\ cause = "none"
  /\ hpc = "freeze" => timer # NoTimer /\ timer <= clock
  /\ cause # "none" => hpc \in {"idle", "callback", "end", "aborted"}
  /\ hpc \in {"end", "aborted"} => cause # "none"
  /\ hpc = "callback" => (cause # "none" <=> goal = EndSimulation)
  /\ hpc \in {"callback", "thaw"} /\ goal # EndSimulation => goal >= next_deadline
  /\ hpc = "thaw" => goal # EndSimulation
  /\ hpc = "idle" /\ start_once /\ cause = "none" => ~at_deadline
  /\ hpc = "settime" => ~at_deadline

(* The clock, the offset of the simulated time and the deadlines.          *)
Handling == hpc \in {"freeze_app", "freeze_flag", "drain", "notify", "recv", "callback", "thaw"}

TimeInv ==
  /\ clock + sim_offset >= 0
  /\ TimerKeepsDeadline
  /\ Handling /\ ~first => freeze <= clock /\ freeze + sim_offset = next_deadline + late
  /\ hpc \in {"thaw_app", "thaw_sim"} =>
       now <= clock /\ (~first => freeze <= now /\ freeze + sim_offset = prev_deadline + late)
  /\ hpc \in {"thaw_flag", "settime"} => now <= clock /\ now + sim_offset = prev_deadline + late

TInv == Types /\ Phase /\ TimeInv

LEMMA InitLemma == Init => TInv
<1> SUFFICES ASSUME Init PROVE TInv
  BY Zenon
<1> USE DEF Init
<1>1. Types
  BY DEF Types, timer_create, HandlerPC, ThreadPC, Idle
<1>2. Phase
  BY DEF Phase, timer_create
<1>3. TimeInv
  BY DEF TimeInv, TimerKeepsDeadline, timer_create, Handling
<1> QED
  BY Zenon, <1>1, <1>2, <1>3 DEF TInv

-----------------------------------------------------------------------------
(* The calls of the application other than start leave the time and the    *)
(* handler alone.                                                          *)
CallStep(t) ==
  \/ send(t) \/ simulation_now(t) \/ SendInsert(t) \/ SendError(t)
  \/ gettimeofday(t) \/ FrozenNow(t) \/ application_now(t)
  \/ recv(t) \/ RecvDrop(t) \/ poll(t) \/ WakeUp(t)
  \/ stop(t) \/ StopReturn(t)

LEMMA CallFrame ==
  ASSUME NEW t \in Threads, CallStep(t)
  PROVE  UNCHANGED <<clock, timeVars, timer, stopped, start_once, handlerVars, owed, wire, late,
                     cause>>
  BY Zenon DEF CallStep, send, simulation_now, SendInsert, SendError, gettimeofday, FrozenNow,
         application_now, recv, RecvDrop, poll, WakeUp, stop, StopReturn, sendVars

LEMMA CallThread ==
  ASSUME TInv, NEW t \in Threads, CallStep(t)
  PROVE  /\ thread' \in [Threads -> [pc : ThreadPC, time : Nat]]
         /\ \A m \in outgoing' : m.time \in Nat
         /\ seen' \in [Threads -> Int]
<1> USE DEF TInv, Types, Goes, ThreadPC
<1>1. CASE send(t) \/ SendError(t) \/ gettimeofday(t) \/ RecvDrop(t) \/ poll(t) \/ WakeUp(t)
           \/ stop(t) \/ StopReturn(t) \/ recv(t)
  <2>1. /\ \E pc \in ThreadPC : thread' = [thread EXCEPT ![t] = [pc |-> pc, time |-> 0]]
        /\ UNCHANGED <<outgoing, seen>>
    BY Zenon, <1>1 DEF send, SendError, gettimeofday, RecvDrop, poll, WakeUp, stop, StopReturn, recv,
                sendVars
  <2> QED
    BY <2>1
<1>2. CASE simulation_now(t)
  BY <1>2 DEF simulation_now, TimeInv, sendVars
<1>3. CASE SendInsert(t)
  <2>1. thread[t].time \in Nat
    BY Zenon
  <2> QED
    BY <1>3, <2>1 DEF SendInsert
<1>4. CASE FrozenNow(t) \/ application_now(t)
  BY <1>4 DEF FrozenNow, application_now, sendVars
<1> QED
  BY Zenon, <1>1, <1>2, <1>3, <1>4 DEF CallStep

LEMMA CallLemma == ASSUME TInv, NEW t \in Threads, CallStep(t) PROVE TInv'
<1> USE CallFrame DEF TInv, timeVars, handlerVars
<1>1. Types'
  BY Zenon, CallThread DEF Types
<1>2. Phase'
  BY Zenon DEF Phase
<1>3. TimeInv'
  BY Zenon DEF TimeInv, TimerKeepsDeadline, Handling
<1> QED
  BY Zenon, <1>1, <1>2, <1>3

LEMMA StartLemma == ASSUME TInv, NEW t \in Threads, start(t) PROVE TInv'
<1> USE DEF TInv, start, timeVars, sendVars, Runs
<1>1. Types'
  BY Zenon DEF Types, HandlerPC
<1>2. Phase'
  BY Zenon DEF Phase
<1>3. TimeInv'
  BY Zenon DEF TimeInv, TimerKeepsDeadline, Handling
<1> QED
  BY Zenon, <1>1, <1>2, <1>3

LEMMA TickLemma == ASSUME TInv, Tick PROVE TInv'
<1> USE DEF TInv, Tick, timeVars, handlerVars, sendVars
<1>1. Types'
  BY DEF Types
<1>2. Phase'
  BY DEF Phase, Types
<1>3. TimeInv'
  BY DEF TimeInv, TimerKeepsDeadline, Handling, Types
<1> QED
  BY Zenon, <1>1, <1>2, <1>3

(* The steps of start and of the handler, in their order.                  *)
LEMMA StartRecvLemma == ASSUME TInv, StartGotoDeadline \/ StartError PROVE TInv'
<1> USE DEF TInv, timeVars, sendVars
<1>1. CASE StartGotoDeadline
  <2> USE <1>1 DEF StartGotoDeadline
  <2>1. goal' \in Nat /\ goal' >= next_deadline
    BY LengthsAssumption DEF Types
  <2>2. Types'
    BY Zenon, <2>1 DEF Types, HandlerPC
  <2>3. Phase'
    BY <2>1 DEF Phase, Types, EndSimulation
  <2>4. TimeInv'
    BY Zenon DEF Phase, TimeInv, TimerKeepsDeadline, Handling
  <2> QED
    BY Zenon, <2>2, <2>3, <2>4
<1>2. CASE StartError
  <2> USE <1>2 DEF StartError, Return
  <2>1. Types'
    BY Zenon DEF Types, HandlerPC
  <2>2. Phase'
    BY Zenon DEF Phase
  <2>3. TimeInv'
    BY Zenon DEF Phase, TimeInv, TimerKeepsDeadline, Handling
  <2> QED
    BY Zenon, <2>1, <2>2, <2>3
<1> QED
  BY Zenon, <1>1, <1>2

LEMMA FreezeLemma ==
  ASSUME TInv, deadline_handler \/ freeze_time \/ FreezeApp \/ FreezeFlag PROVE TInv'
<1> USE DEF TInv, timeVars, sendVars
<1>1. CASE deadline_handler
  <2> USE <1>1 DEF deadline_handler
  <2>1. Types'
    BY Zenon DEF Types, HandlerPC
  <2>2. Phase'
    BY Zenon DEF Phase
  <2>3. TimeInv'
    BY Zenon DEF TimeInv, TimerKeepsDeadline, Handling
  <2> QED
    BY Zenon, <2>1, <2>2, <2>3
<1>2. CASE freeze_time
  <2> USE <1>2 DEF freeze_time
  <2>1. timer \in Nat /\ timer <= clock
    BY Zenon DEF Phase, Types
  <2>2. Types'
    BY <2>1 DEF Types, HandlerPC
  <2>3. Phase'
    BY Zenon DEF Phase
  <2>4. TimeInv'
    BY <2>1 DEF TimeInv, TimerKeepsDeadline, Handling, Types, Phase
  <2> QED
    BY Zenon, <2>2, <2>3, <2>4
<1>3. CASE FreezeApp \/ FreezeFlag
  <2> USE <1>3 DEF FreezeApp, FreezeFlag
  <2>1. Types'
    BY DEF Types, HandlerPC
  <2>2. Phase'
    BY DEF Phase
  <2>3. TimeInv'
    BY Zenon DEF TimeInv, TimerKeepsDeadline, Handling
  <2> QED
    BY Zenon, <2>1, <2>2, <2>3
<1> QED
  BY Zenon, <1>1, <1>2, <1>3

(* at_deadline: time stands still, the set empties and the goal is told.   *)
AtDeadlineStep ==
  \/ \E m \in outgoing : SendPacket(m) \/ SendAbort(m)
  \/ SendAtDeadline \/ MayNotify \/ DeliverPacket \/ GotoDeadline \/ RecvEnd
  \/ Callbacks \/ StopTime

LEMMA AtDeadlineFrame ==
  ASSUME TInv, AtDeadlineStep
  PROVE  /\ UNCHANGED <<clock, timeVars, timer, start_once, thread, seen, late>>
         /\ hpc \in {"drain", "notify", "recv", "callback", "end"}
         /\ hpc' \in {"drain", "notify", "recv", "callback", "end", "thaw", "idle"}
         /\ \A m \in outgoing' : m.time \in Nat
         /\ ~first /\ ~first' /\ timer = NoTimer
         /\ start_once
         /\ hpc = "end" => hpc' = "idle"
         /\ hpc' # "idle" => UNCHANGED freeze
         /\ freeze' \in Nat /\ now' \in Nat
<1> USE DEF TInv, Types, Phase, Take, Return, sendVars, handlerVars
<1>1. CASE \E m \in outgoing : SendPacket(m) \/ SendAbort(m)
  BY <1>1 DEF SendPacket, SendAbort
<1>2. CASE SendAtDeadline \/ MayNotify \/ DeliverPacket
  BY <1>2 DEF SendAtDeadline, MayNotify, DeliverPacket
<1>3. CASE GotoDeadline \/ RecvEnd \/ Callbacks
  BY <1>3 DEF GotoDeadline, RecvEnd, Callbacks
<1>4. CASE StopTime
  BY Zenon, <1>4 DEF StopTime
<1> QED
  BY Zenon, <1>1, <1>2, <1>3, <1>4 DEF AtDeadlineStep

LEMMA AtDeadlineLemma == ASSUME TInv, AtDeadlineStep PROVE TInv'
<1> USE AtDeadlineFrame DEF TInv, timeVars
<1>1. goal' \in Nat \cup {EndSimulation}
  <2>1. CASE GotoDeadline
    BY <2>1, LengthsAssumption DEF GotoDeadline, Types
  <2>2. CASE ~GotoDeadline
    BY ZenonT(30), <2>2
    DEF AtDeadlineStep, SendPacket, SendAbort, Take, SendAtDeadline, MayNotify, RecvEnd,
                DeliverPacket, Callbacks, StopTime, Return, handlerVars, Types
  <2> QED
    BY Zenon, <2>1, <2>2
<1>2. Types'
  BY Zenon, <1>1 DEF Types, HandlerPC
<1>3. Phase'
  <2>1. CASE \E m \in outgoing : SendPacket(m) \/ SendAbort(m)
    BY <2>1 DEF SendPacket, SendAbort, Take, Phase
  <2>2. CASE SendAtDeadline \/ MayNotify \/ DeliverPacket
    BY Zenon, <2>2 DEF SendAtDeadline, MayNotify, DeliverPacket, Phase, sendVars, handlerVars
  <2>3. CASE GotoDeadline
    <3>1. goal' \in Nat /\ goal' >= next_deadline
      BY <2>3, LengthsAssumption DEF GotoDeadline, Types
    <3> QED
      BY <2>3, <3>1 DEF GotoDeadline, Phase, EndSimulation
  <2>4. CASE RecvEnd
    BY Zenon, <2>4 DEF RecvEnd, Phase
  <2>5. CASE Callbacks
    BY Zenon, <2>5 DEF Callbacks, Phase
  <2>6. CASE StopTime
    BY Zenon, <2>6 DEF StopTime, Return, Phase
  <2> QED
    BY Zenon, <2>1, <2>2, <2>3, <2>4, <2>5, <2>6 DEF AtDeadlineStep
<1>4. TimeInv'
  BY Zenon DEF TimeInv, TimerKeepsDeadline, Handling
<1> QED
  BY Zenon, <1>2, <1>3, <1>4

(* thaw_time_to_deadline, from start and from the handler.                 *)
LEMMA ThawLemma ==
  ASSUME TInv, thaw_time_to_deadline \/ ThawApp \/ ThawSim \/ ThawFlag PROVE TInv'
<1> USE DEF TInv, timeVars, sendVars
<1>1. CASE thaw_time_to_deadline
  <2> USE <1>1 DEF thaw_time_to_deadline
  <2>1. goal \in Nat /\ goal >= next_deadline
    BY Zenon DEF Phase, Types
  <2>2. Types'
    BY Zenon, <2>1 DEF Types, HandlerPC
  <2>3. Phase'
    BY Zenon, <2>1 DEF Phase, Types
  <2>4. TimeInv'
    BY DEF TimeInv, TimerKeepsDeadline, Handling, Phase, Types
  <2> QED
    BY Zenon, <2>2, <2>3, <2>4
<1>2. CASE ThawApp
  <2> USE <1>2 DEF ThawApp
  <2>1. Types'
    BY DEF Types, HandlerPC
  <2>2. Phase'
    BY Zenon DEF Phase
  <2>3. TimeInv'
    BY Zenon DEF TimeInv, TimerKeepsDeadline, Handling, Phase
  <2> QED
    BY Zenon, <2>1, <2>2, <2>3
<1>3. CASE ThawSim
  <2> USE <1>3 DEF ThawSim
  <2>1. Types'
    BY DEF Types, HandlerPC
  <2>2. Phase'
    BY Zenon DEF Phase
  <2>3. now + sim_offset' = prev_deadline + late /\ now <= clock
    <3>1. CASE first
      BY <3>1 DEF Phase, TimeInv, Types
    <3>2. CASE ~first
      BY <3>2 DEF TimeInv, Types
    <3> QED
      BY Zenon, <3>1, <3>2
  <2>4. timer = NoTimer
    BY Zenon DEF Phase
  <2> QED
    BY <2>1, <2>2, <2>3, <2>4 DEF TimeInv, TimerKeepsDeadline, Handling, Types
<1>4. CASE ThawFlag
  <2> USE <1>4 DEF ThawFlag
  <2>1. Types'
    BY Zenon DEF Types, HandlerPC
  <2>2. Phase'
    BY Zenon DEF Phase
  <2>3. TimeInv'
    BY Zenon DEF TimeInv, TimerKeepsDeadline, Handling, Phase
  <2> QED
    BY Zenon, <2>1, <2>2, <2>3
<1> QED
  BY Zenon, <1>1, <1>2, <1>3, <1>4

LEMMA SettimeLemma == ASSUME TInv, settime \/ SettimeError PROVE TInv'
<1> USE DEF TInv, timeVars, sendVars
<1>1. CASE settime
  <2> USE <1>1 DEF settime, timer_settime, Return
  <2>1. now + (next_deadline - prev_deadline) \in Nat
    BY DEF Phase, Types
  <2>2. Types'
    BY Zenon, <2>1 DEF Types, HandlerPC
  <2>3. Phase'
    BY Zenon DEF Phase
  <2>4. TimeInv'
    BY <2>1 DEF TimeInv, TimerKeepsDeadline, Handling, Types
  <2> QED
    BY Zenon, <2>2, <2>3, <2>4
<1>2. CASE SettimeError
  <2>1. /\ hpc = "settime" /\ hpc' \in {"idle", "aborted"} /\ cause' # "none"
        /\ first' => first /\ hpc' = "aborted"
        /\ hpc' = "aborted" => ~first'
        /\ freeze' \in Nat /\ now' \in Nat /\ goal' \in Nat \cup {EndSimulation}
        /\ UNCHANGED <<clock, timeVars, timer, start_once, thread, outgoing, wire, seen, late>>
    BY <1>2 DEF SettimeError, Return, Types
  <2>2. Types'
    BY Zenon, <2>1 DEF Types, HandlerPC
  <2>3. Phase'
    BY Zenon, <2>1 DEF Phase
  <2>4. TimeInv'
    BY Zenon, <2>1 DEF TimeInv, TimerKeepsDeadline, Handling
  <2> QED
    BY Zenon, <2>2, <2>3, <2>4
<1> QED
  BY Zenon, <1>1, <1>2

LEMMA NextLemma == TInv /\ [Next]_vars => TInv'
<1> SUFFICES ASSUME TInv, [Next]_vars PROVE TInv'
  BY Zenon
<1>1. ASSUME NEW t \in Threads, ThreadStep(t) PROVE TInv'
  BY Zenon, <1>1, CallLemma, StartLemma DEF ThreadStep, CallStep
<1>2. CASE Tick \/ deadline_handler
  BY Zenon, <1>2, TickLemma, FreezeLemma
<1>3. CASE HandlerStep \/ DeliverPacket
  BY Zenon, <1>3, StartRecvLemma, FreezeLemma, AtDeadlineLemma, ThawLemma, SettimeLemma
     DEF HandlerStep, AtDeadlineStep
<1>4. CASE UNCHANGED vars
  <2> USE <1>4 DEF vars, timeVars, handlerVars, sendVars, TInv
  <2>1. Types'
    BY Zenon DEF Types
  <2>2. Phase'
    BY Zenon DEF Phase
  <2>3. TimeInv'
    BY Zenon DEF TimeInv, TimerKeepsDeadline, Handling
  <2> QED
    BY Zenon, <2>1, <2>2, <2>3
<1> QED
  BY Zenon, <1>1, <1>2, <1>3, <1>4 DEF Next

LEMMA Invariance == Spec => []TInv
  BY InitLemma, NextLemma, PTL DEF Spec

(* Simulated time at the expiry of the timer is the deadline plus all the  *)
(* lateness so far, whatever the threads do meanwhile: freeze_time and     *)
(* thaw_time_to_deadline account exactly for the time in the handler.      *)
THEOREM TimerExact == Spec => []TimerKeepsDeadline
<1>1. TInv => TimerKeepsDeadline
  BY Zenon DEF TInv, TimeInv
<1> QED
  BY <1>1, Invariance, PTL

(* A send of a running client meets the panic of simulation_now only if    *)
(* another thread's handler has frozen the time.                           *)
THEOREM NoPanicOutsideHandler == Spec => NoPanicWhileRunning
<1>1. ASSUME TInv, Next PROVE \A t \in Threads :
        Running /\ hpc = "idle" /\ thread'[t].pc = "panicked" => thread[t].pc = "panicked"
  <2> SUFFICES ASSUME NEW t \in Threads, Running, hpc = "idle", thread'[t].pc = "panicked"
               PROVE  thread[t].pc = "panicked"
    BY Zenon
  <2>1. ~at_deadline /\ thread \in [Threads -> [pc : ThreadPC, time : Nat]]
    BY SMTT(30), <1>1 DEF TInv, Phase, Types, Running
  <2>2. ASSUME NEW u \in Threads, ThreadStep(u) PROVE thread[t].pc = "panicked"
    <3>1. CASE thread' = thread
      BY Zenon, <3>1
    <3>2. ASSUME NEW pc \in ThreadPC \ {"panicked"}, NEW time, Goes(u, pc, time)
          PROVE  thread[t].pc = "panicked"
      BY SMTT(30), <2>1, <3>2 DEF Goes
    <3>3. \/ thread' = thread
          \/ \E pc \in ThreadPC \ {"panicked"} : \E time : Goes(u, pc, time)
      BY Zenon, <2>1, <2>2 DEF ThreadStep, send, simulation_now, SendInsert, SendError, gettimeofday,
         FrozenNow, application_now, recv, RecvDrop, poll, WakeUp, stop, StopReturn, start, ThreadPC
    <3> QED
      BY Zenon, <3>1, <3>2, <3>3
  <2>3. CASE ~\E u \in Threads : ThreadStep(u)
    <3>1. thread' = thread
      BY ZenonT(30), <1>1, <2>3 DEF Next, Tick, deadline_handler, HandlerStep, DeliverPacket,
         StartGotoDeadline, StartError, freeze_time, FreezeApp, FreezeFlag, SendPacket, SendAbort,
         Take, SendAtDeadline, MayNotify, GotoDeadline, RecvEnd, Callbacks, StopTime,
         thaw_time_to_deadline, ThawApp, ThawSim, ThawFlag, settime, SettimeError
    <3> QED
      BY Zenon, <3>1
  <2> QED
    BY Zenon, <2>2, <2>3
<1>2. TInv /\ [Next]_vars =>
        [\A t \in Threads :
           Running /\ hpc = "idle" /\ thread'[t].pc = "panicked" => thread[t].pc = "panicked"]_vars
  BY Zenon, <1>1
<1> QED
  BY <1>2, Invariance, PTL DEF Spec, NoPanicWhileRunning

-----------------------------------------------------------------------------
(* The refinement of VmContract, step by step.                             *)
LEMMA StutterStep ==
  ASSUME UNCHANGED <<Slice, Prev, Deadline, wire>>
  PROVE  [Contract!Next]_(Contract!vars)
  BY Zenon DEF Contract!vars

LEMMA EndStep ==
  ASSUME Slice' = "ended", UNCHANGED <<Prev, Deadline, wire>>
  PROVE  [Contract!Next]_(Contract!vars)
  BY Zenon DEF Contract!Next, Contract!End

LEMMA GotoStep ==
  ASSUME Slice \in {"init", "reached"}, Slice' = "running", Prev' = Deadline,
         Deadline' \in Nat, Deadline' >= Deadline, wire' = {}
  PROVE  [Contract!Next]_(Contract!vars)
  BY Zenon DEF Contract!Next, Contract!GotoDeadline

(* What leaves the deadlines, the wire and the state of the simulation     *)
(* alone, wherever the handler is.                                         *)
LEMMA FrameStep ==
  ASSUME UNCHANGED <<prev_deadline, next_deadline, goal, start_once, cause, hpc, wire>>
  PROVE  [Contract!Next]_(Contract!vars)
<1>1. UNCHANGED <<Slice, Prev, Deadline, wire>>
  BY Zenon DEF Slice, Prev, Deadline, Told
<1> QED
  BY Zenon, <1>1, StutterStep

(* Sent at a time of the slice.                                            *)
LEMMA SendPacketStep ==
  ASSUME TInv, NEW m \in outgoing, SendPacket(m) \/ SendAbort(m)
  PROVE  [Contract!Next]_(Contract!vars)
<1> DEFINE time == FixedTime(m)
<1>1. /\ hpc = "drain" /\ start_once /\ cause = "none"
      /\ UNCHANGED <<prev_deadline, next_deadline, goal, start_once>>
  BY Zenon DEF SendPacket, SendAbort, Take, timeVars, TInv, Phase
<1>2. Slice = "running" /\ Prev = prev_deadline /\ Deadline = next_deadline
  BY Zenon, <1>1 DEF Slice, Prev, Deadline, Told
<1>3. CASE SendPacket(m)
  <2>1. /\ prev_deadline \in Nat /\ next_deadline \in Nat /\ m.time \in Nat
        /\ prev_deadline <= next_deadline
    BY Zenon DEF TInv, Types, Phase
  <2>2. prev_deadline <= time /\ time <= next_deadline /\ time \in prev_deadline..next_deadline
    BY <1>3, <2>1 DEF SendPacket, FixedTime
  <2>3. UNCHANGED <<Slice, Prev, Deadline>> /\ wire' = wire \cup {time}
    BY Zenon, <1>1, <1>3 DEF SendPacket, Slice, Prev, Deadline, Told
  <2> HIDE DEF time
  <2>4. Contract!SendPacket(time)
    BY Zenon, <1>2, <2>2, <2>3 DEF Contract!SendPacket
  <2> QED
    BY Zenon, <1>2, <2>2, <2>4 DEF Contract!Next
<1>4. CASE SendAbort(m)
  <2>1. hpc' = "end" /\ cause' # "none" /\ UNCHANGED wire
    BY Zenon, <1>4 DEF SendAbort
  <2>2. Slice' = "ended" /\ UNCHANGED <<Prev, Deadline>>
    BY Zenon, <1>1, <2>1 DEF Slice, Prev, Deadline, Told
  <2> QED
    BY Zenon, <2>1, <2>2, EndStep
<1> QED
  BY Zenon, <1>3, <1>4

(* The deadline that is received is not before the last one.               *)
LEMMA GotoDeadlineStep ==
  ASSUME TInv, StartGotoDeadline \/ GotoDeadline
  PROVE  [Contract!Next]_(Contract!vars)
<1>1. /\ goal' \in Nat /\ goal' >= next_deadline /\ goal' # EndSimulation
      /\ hpc' \in {"thaw", "callback"} /\ start_once /\ cause = "none"
      /\ UNCHANGED <<prev_deadline, next_deadline, start_once, cause>>
  BY LengthsAssumption
     DEF StartGotoDeadline, GotoDeadline, timeVars, TInv, Types, Phase, EndSimulation
<1>2. hpc \in {"startrecv", "recv"} /\ wire' = {}
  BY Zenon DEF StartGotoDeadline, GotoDeadline, sendVars, TInv, Phase
<1>3. Slice \in {"init", "reached"} /\ Slice' = "running"
  BY Zenon, <1>1, <1>2 DEF Slice
<1>4. Prev' = Deadline /\ Deadline' = goal' /\ Deadline = next_deadline
  BY Zenon, <1>1, <1>2 DEF Prev, Deadline, Told
<1> QED
  BY Zenon, <1>1, <1>2, <1>3, <1>4, GotoStep

(* The other steps of the handler move on to the next point, or end the    *)
(* simulation.                                                             *)
LEMMA HandlerMoves ==
  ASSUME TInv,
         UNCHANGED <<prev_deadline, next_deadline, start_once, wire>>, start_once,
         hpc \notin {"startrecv", "notify", "recv", "callback", "thaw"},
         hpc' \notin {"startrecv", "notify", "recv", "callback", "thaw"},
         cause' = cause \/ cause' # "none"
  PROVE  [Contract!Next]_(Contract!vars)
<1>1. UNCHANGED <<Prev, Deadline>>
  BY Zenon DEF Prev, Deadline, Told
<1>2. CASE cause' = cause
  <2>1. UNCHANGED Slice
    BY Zenon, <1>2 DEF Slice
  <2> QED
    BY Zenon, <1>1, <2>1, StutterStep
<1>3. CASE cause' # "none"
  BY Zenon, <1>1, <1>3, EndStep DEF Slice
<1> QED
  BY Zenon, <1>2, <1>3

LEMMA AtDeadlineEnds ==
  ASSUME TInv, SendAtDeadline \/ MayNotify \/ RecvEnd \/ Callbacks
  PROVE  [Contract!Next]_(Contract!vars)
<1> USE DEF timeVars, sendVars
<1>1. CASE SendAtDeadline
  <2>1. /\ hpc = "drain" /\ start_once /\ cause = "none"
        /\ UNCHANGED <<prev_deadline, next_deadline, goal, start_once, wire>>
        /\ \/ hpc' = "notify" /\ UNCHANGED cause
           \/ hpc' = "end" /\ cause' = "write"
    BY Zenon, <1>1 DEF SendAtDeadline, TInv, Phase
  <2>2. Slice = "running" /\ UNCHANGED <<Prev, Deadline>>
    BY Zenon, <2>1 DEF Slice, Prev, Deadline, Told
  <2>3. CASE hpc' = "notify"
    <3>1. Slice' = "reached"
      BY Zenon, <2>1, <2>3 DEF Slice
    <3>2. Contract!AtDeadline
      BY Zenon, <2>1, <2>2, <3>1 DEF Contract!AtDeadline
    <3> QED
      BY Zenon, <3>2 DEF Contract!Next
  <2>4. CASE hpc' = "end"
    BY Zenon, <2>1, <2>2, <2>4, EndStep DEF Slice
  <2> QED
    BY Zenon, <2>1, <2>3, <2>4
<1>2. CASE MayNotify
  <2>1. UNCHANGED <<Slice, Prev, Deadline, wire>>
    BY Zenon, <1>2 DEF MayNotify, Slice, Prev, Deadline, Told
  <2> QED
    BY Zenon, <2>1, StutterStep
<1>3. CASE RecvEnd
  <2>1. UNCHANGED <<Prev, Deadline, wire>> /\ Slice' = "ended"
    BY Zenon, <1>3 DEF RecvEnd, Slice, Prev, Deadline, Told
  <2> QED
    BY Zenon, <2>1, EndStep
<1>4. CASE Callbacks
  <2>1. start_once /\ (cause # "none" <=> goal = EndSimulation)
    BY Zenon, <1>4 DEF Callbacks, TInv, Phase
  <2>2. UNCHANGED <<Slice, Prev, Deadline, wire>>
    BY Zenon, <1>4, <2>1 DEF Callbacks, Slice, Prev, Deadline, Told
  <2> QED
    BY Zenon, <2>2, StutterStep
<1> QED
  BY Zenon, <1>1, <1>2, <1>3, <1>4

LEMMA StartStep ==
  ASSUME TInv, NEW t \in Threads, start(t) PROVE [Contract!Next]_(Contract!vars)
<1>1. hpc = "idle" /\ cause = "none"
  BY Zenon DEF start, TInv, Phase
<1>2. UNCHANGED <<Slice, Prev, Deadline, wire>>
  BY ZenonT(30), <1>1 DEF start, timeVars, sendVars, Slice, Prev, Deadline, Told
<1> QED
  BY Zenon, <1>2, StutterStep

LEMMA ThawStep ==
  ASSUME TInv, thaw_time_to_deadline PROVE [Contract!Next]_(Contract!vars)
<1>1. hpc = "thaw" /\ start_once /\ cause = "none" /\ goal # EndSimulation
  BY Zenon DEF thaw_time_to_deadline, TInv, Phase
<1>2. UNCHANGED <<Slice, Prev, Deadline, wire>>
  BY Zenon, <1>1 DEF thaw_time_to_deadline, sendVars, Slice, Prev, Deadline, Told
<1> QED
  BY Zenon, <1>2, StutterStep

LEMMA RefinementStep ==
  ASSUME TInv, [Next]_vars PROVE [Contract!Next]_(Contract!vars)
<1> USE DEF timeVars, sendVars, handlerVars
<1>1. ASSUME NEW t \in Threads, ThreadStep(t) PROVE [Contract!Next]_(Contract!vars)
  <2>1. CASE CallStep(t)
    BY Zenon, <2>1, CallFrame, FrameStep
  <2>2. CASE start(t)
    BY Zenon, <2>2, StartStep
  <2> QED
    BY Zenon, <1>1, <2>1, <2>2 DEF ThreadStep, CallStep
<1>2. CASE Tick \/ DeliverPacket \/ UNCHANGED vars
  BY Zenon, <1>2, FrameStep DEF Tick, DeliverPacket, vars
<1>3. CASE StartGotoDeadline \/ GotoDeadline
  BY Zenon, <1>3, GotoDeadlineStep
<1>4. CASE StartError
  <2>1. UNCHANGED <<Prev, Deadline, wire>> /\ Slice' = "ended"
    BY Zenon, <1>4 DEF StartError, Return, Slice, Prev, Deadline, Told
  <2> QED
    BY Zenon, <2>1, EndStep
<1>5. CASE \E m \in outgoing : SendPacket(m) \/ SendAbort(m)
  BY Zenon, <1>5, SendPacketStep
<1>6. CASE SendAtDeadline \/ MayNotify \/ RecvEnd \/ Callbacks
  BY Zenon, <1>6, AtDeadlineEnds
<1>7. CASE thaw_time_to_deadline
  BY Zenon, <1>7, ThawStep
<1>8. CASE \/ deadline_handler \/ freeze_time \/ FreezeApp \/ FreezeFlag \/ StopTime
           \/ ThawApp \/ ThawSim \/ ThawFlag \/ settime \/ SettimeError
  <2>1. /\ UNCHANGED <<prev_deadline, next_deadline, start_once, wire>>
        /\ hpc \notin {"startrecv", "notify", "recv", "callback", "thaw"}
        /\ hpc' \notin {"startrecv", "notify", "recv", "callback", "thaw"}
        /\ cause' = cause \/ cause' # "none"
    BY ZenonT(30), <1>8
    DEF deadline_handler, freeze_time, FreezeApp, FreezeFlag, StopTime, ThawApp, ThawSim,
       ThawFlag, settime, SettimeError, Return
  <2>2. start_once
    BY ZenonT(30), <1>8
    DEF deadline_handler, freeze_time, FreezeApp, FreezeFlag, StopTime, ThawApp, ThawSim,
       ThawFlag, settime, SettimeError, TInv, Phase
  <2> QED
    BY Zenon, <2>1, <2>2, HandlerMoves
<1> QED
  BY Zenon, <1>1, <1>2, <1>3, <1>4, <1>5, <1>6, <1>7, <1>8 DEF Next, HandlerStep

(* The client in a process keeps the contract the coordinator relies on,   *)
(* for any number of threads and wherever the signal interrupts them:      *)
(* at_deadline sends only times of the current slice.                      *)
THEOREM ClientKeepsVmContract == Spec => ImplementsVmContract
<1>1. Init => Contract!Init
  BY Zenon DEF Init, Contract!Init, Slice, Prev, Deadline, Told
<1>2. TInv /\ [Next]_vars => [Contract!Next]_(Contract!vars)
  BY Zenon, RefinementStep
<1> QED
  BY <1>1, <1>2, Invariance, PTL DEF Spec, Contract!Spec, ImplementsVmContract

-----------------------------------------------------------------------------
(* An application with one thread makes no call while the handler runs.    *)
OneThread == \A t, u \in Threads : t = u

(* Simulated time as far as stamps may go: it stands still in the handler. *)
SimNow ==
  IF hpc \in {"idle", "freeze"} THEN clock + sim_offset
  ELSE IF hpc \in {"thaw_app", "thaw_sim", "thaw_flag", "settime"} THEN prev_deadline + late
  ELSE next_deadline + late

(* Application time as far as a thread may have seen it.                   *)
NotThawed == ~start_once \/ (first /\ hpc \in {"startrecv", "thaw", "thaw_app"})

AppNow ==
  IF NotThawed THEN current_deadline
  ELSE IF Handling \/ hpc = "thaw_app" THEN freeze + app_offset
  ELSE clock + app_offset

SoloInv ==
  /\ host \in Threads
  /\ ~start_once => at_deadline
  /\ ~start_once \/ first => /\ outgoing = {}
                             /\ \A t \in Threads : thread[t].pc \notin {"stamp", "insert", "gettime"}
  /\ \A t \in Threads : thread[t].pc = "locked" => hpc = "idle" /\ at_deadline

StampInv ==
  cause = "none" => /\ \A m \in outgoing : m.time <= SimNow
                    /\ \A t \in Threads : thread[t].pc = "insert" => thread[t].time <= SimNow

SeenInv == cause = "none" => \A t \in Threads : seen[t] <= AppNow

SInv == TInv /\ SoloInv /\ StampInv /\ SeenInv

LEMMA CallsOutsideHandler ==
  ASSUME OneThread, SoloInv, NEW t \in Threads, CallStep(t) PROVE hpc = "idle"
<1>1. Runs(t)
  BY Zenon DEF CallStep, send, simulation_now, SendInsert, SendError, gettimeofday, FrozenNow,
         application_now, recv, RecvDrop, poll, WakeUp, stop, StopReturn
<1> QED
  BY Zenon, <1>1 DEF Runs, OneThread, SoloInv

(* What a call does to its thread, its stamp and the time it sees.         *)
Effect(t, pc, time) ==
  /\ thread' = [thread EXCEPT ![t] = [pc |-> pc, time |-> time]]
  /\ pc \in {"stamp", "gettime"} => ~at_deadline
  /\ pc = "locked" => at_deadline
  /\ pc = "insert" => thread[t].pc = "stamp" /\ time = clock + sim_offset
  /\ \A m \in outgoing' : \/ m \in outgoing
                          \/ thread[t].pc = "insert" /\ m.time = thread[t].time
  /\ \/ seen' = seen
     \/ thread[t].pc = "locked" /\ seen' = [seen EXCEPT ![t] = current_deadline]
     \/ thread[t].pc = "gettime" /\ seen' = [seen EXCEPT ![t] = clock + app_offset]

LEMMA CallEffect ==
  ASSUME SInv, NEW t \in Threads, CallStep(t), hpc = "idle"
  PROVE  \E pc \in ThreadPC, time \in Nat : Effect(t, pc, time)
<1> USE DEF Goes, sendVars
<1>0. {"idle", "stamp", "insert", "gettime", "locked", "copy", "asleep", "stopping", "panicked"}
        \subseteq ThreadPC
  BY Zenon DEF ThreadPC
<1>1. CASE send(t)
  <2>1. Effect(t, IF at_deadline THEN "panicked" ELSE "stamp", 0)
    BY Zenon, <1>1 DEF send, Effect
  <2> QED
    BY Zenon, <1>0, <2>1
<1>2. CASE gettimeofday(t)
  <2>1. Effect(t, IF at_deadline THEN "locked" ELSE "gettime", 0)
    BY Zenon, <1>2 DEF gettimeofday, Effect
  <2> QED
    BY Zenon, <1>0, <2>1
<1>3. CASE simulation_now(t)
  <2>1. clock + sim_offset \in Nat
    BY DEF SInv, TInv, Types, TimeInv
  <2>2. Effect(t, "insert", clock + sim_offset)
    BY Zenon, <1>3 DEF simulation_now, Effect
  <2> QED
    BY Zenon, <1>0, <2>1, <2>2
<1>4. CASE SendInsert(t)
  <2>1. \A m \in outgoing' : m \in outgoing \/ m.time = thread[t].time
    BY <1>4 DEF SendInsert
  <2>2. Effect(t, "idle", 0)
    BY Zenon, <1>4, <2>1 DEF SendInsert, Effect
  <2> QED
    BY Zenon, <1>0, <2>2
<1>5. CASE SendError(t) \/ RecvDrop(t) \/ WakeUp(t) \/ StopReturn(t)
  <2>1. Effect(t, "idle", 0)
    BY Zenon, <1>5 DEF SendError, RecvDrop, WakeUp, StopReturn, Effect
  <2> QED
    BY Zenon, <1>0, <2>1
<1>6. CASE FrozenNow(t) \/ application_now(t)
  <2>1. Effect(t, "idle", 0)
    BY Zenon, <1>6 DEF FrozenNow, application_now, Effect
  <2> QED
    BY Zenon, <1>0, <2>1
<1>7. CASE recv(t) \/ poll(t) \/ stop(t)
  <2>1. \E pc \in {"copy", "asleep", "stopping"} : Effect(t, pc, 0)
    BY Zenon, <1>7 DEF recv, poll, stop, Effect
  <2> QED
    BY Zenon, <1>0, <2>1
<1> QED
  BY Zenon, <1>1, <1>2, <1>3, <1>4, <1>5, <1>6, <1>7 DEF CallStep

LEMMA SoloCall ==
  ASSUME OneThread, SInv, NEW t \in Threads, CallStep(t)
  PROVE  SInv'
<1>1. hpc = "idle" /\ UNCHANGED <<clock, timeVars, timer, start_once, handlerVars, late, cause>>
  BY Zenon, CallsOutsideHandler, CallFrame DEF SInv
<1>2. TInv'
  BY Zenon, CallLemma DEF SInv
<1>3. PICK pc \in ThreadPC, time \in Nat : Effect(t, pc, time)
  BY Zenon, <1>1, CallEffect
<1>4. /\ ~first /\ thread \in [Threads -> [pc : ThreadPC, time : Nat]] /\ seen \in [Threads -> Int]
      /\ \A u \in Threads : u # t => thread'[u] = thread[u]
      /\ thread'[t].pc = pc /\ thread'[t].time = time
  BY Zenon, <1>1, <1>3 DEF SInv, TInv, Phase, Types, Effect
<1>5. SoloInv'
  BY Zenon, <1>1, <1>3, <1>4 DEF SInv, SoloInv, Effect, timeVars, handlerVars
<1>6. UNCHANGED <<SimNow, AppNow>>
  BY Zenon, <1>1 DEF SimNow, AppNow, NotThawed, Handling, timeVars, handlerVars
<1>7. StampInv'
  <2>1. SimNow = clock + sim_offset /\ clock + sim_offset \in Nat
    BY <1>1 DEF SimNow, SInv, TInv, Types, TimeInv
  <2> QED
    BY <1>1, <1>3, <1>4, <1>6, <2>1 DEF SInv, StampInv, Effect
<1>8. SeenInv'
  <2>1. AppNow \in Int /\ current_deadline \in Int
    BY <1>1 DEF AppNow, SInv, TInv, Types
  <2>2. cause = "none" /\ thread[t].pc = "locked" => AppNow = current_deadline
    BY Zenon, <1>1 DEF AppNow, NotThawed, SInv, SoloInv, TInv, Phase
  <2>3. thread[t].pc = "gettime" => AppNow = clock + app_offset
    BY Zenon, <1>1, <1>4 DEF AppNow, NotThawed, Handling, SInv, SoloInv
  <2> QED
    BY <1>1, <1>3, <1>4, <1>6, <2>1, <2>2, <2>3 DEF SInv, SeenInv, Effect
<1> QED
  BY Zenon, <1>2, <1>5, <1>7, <1>8 DEF SInv

(* The steps that are not the application's.                               *)
OtherStep == deadline_handler \/ HandlerStep \/ DeliverPacket

LEMMA OtherFrame ==
  ASSUME TInv, OtherStep
  PROVE  /\ UNCHANGED <<clock, thread, seen, start_once>>
         /\ start_once
         /\ outgoing' \subseteq outgoing
         /\ host' = host \/ host' \in Threads
         /\ cause' = "none" => cause = "none"
         /\ first' => first
<1> DEFINE Frame == /\ UNCHANGED <<clock, thread, seen, start_once>>
                    /\ outgoing' \subseteq outgoing
                    /\ host' = host \/ host' \in Threads
                    /\ cause' = "none" => cause = "none"
                    /\ first' => first
<1>0. start_once
  <2>1. hpc # "idle" \/ timer # NoTimer
    BY Zenon DEF OtherStep, HandlerStep, DeliverPacket, deadline_handler, StartGotoDeadline, StartError,
       freeze_time, FreezeApp, FreezeFlag, SendPacket, SendAbort, Take, SendAtDeadline, MayNotify,
       GotoDeadline, RecvEnd, Callbacks, StopTime, thaw_time_to_deadline, ThawApp, ThawSim,
       ThawFlag, settime, SettimeError
  <2> QED
    BY Zenon, <2>1 DEF TInv, Phase
<1> SUFFICES Frame
  BY Zenon, <1>0
<1>1. CASE deadline_handler
  BY Zenon, <1>1 DEF deadline_handler, sendVars
<1>2. CASE DeliverPacket
  BY Zenon, <1>2 DEF DeliverPacket, handlerVars, sendVars
<1>3. CASE StartGotoDeadline
  BY Zenon, <1>3 DEF StartGotoDeadline, sendVars
<1>4. CASE StartError
  BY Zenon, <1>4 DEF StartError, sendVars, Return
<1>5. CASE freeze_time
  BY Zenon, <1>5 DEF freeze_time, sendVars
<1>6. CASE FreezeApp
  BY Zenon, <1>6 DEF FreezeApp, sendVars
<1>7. CASE FreezeFlag
  BY Zenon, <1>7 DEF FreezeFlag
<1>8. CASE SendAtDeadline
  BY Zenon, <1>8 DEF SendAtDeadline, sendVars
<1>9. CASE MayNotify
  BY Zenon, <1>9 DEF MayNotify, sendVars
<1>10. CASE GotoDeadline
  BY Zenon, <1>10 DEF GotoDeadline
<1>11. CASE RecvEnd
  BY Zenon, <1>11 DEF RecvEnd, sendVars
<1>12. CASE Callbacks
  BY Zenon, <1>12 DEF Callbacks, sendVars
<1>13. CASE StopTime
  BY Zenon, <1>13 DEF StopTime, sendVars, Return
<1>14. CASE thaw_time_to_deadline
  BY Zenon, <1>14 DEF thaw_time_to_deadline, sendVars
<1>15. CASE ThawApp
  BY Zenon, <1>15 DEF ThawApp, sendVars
<1>16. CASE ThawSim
  BY Zenon, <1>16 DEF ThawSim, sendVars
<1>17. CASE ThawFlag
  BY Zenon, <1>17 DEF ThawFlag, sendVars
<1>18. CASE settime
  BY Zenon, <1>18 DEF settime, sendVars, Return
<1>19. CASE SettimeError
  BY Zenon, <1>19 DEF SettimeError, sendVars, Return
<1>20. ASSUME NEW m \in outgoing, SendPacket(m) \/ SendAbort(m) PROVE Frame
  <2>1. Take(m) /\ (cause' = "none" => cause = "none")
    BY Zenon, <1>20 DEF SendPacket, SendAbort
  <2> QED
    BY Zenon, <2>1 DEF Take
<1> QED
  BY Zenon, <1>0, <1>1, <1>2, <1>3, <1>4, <1>5, <1>6, <1>7, <1>8, <1>9, <1>10, <1>11, <1>12,
     <1>13, <1>14, <1>15, <1>16, <1>17, <1>18, <1>19, <1>20, Zenon
     DEF OtherStep, HandlerStep

LEMMA TimesStandStill ==
  ASSUME TInv, start_once, Handling, hpc # "thaw", Handling',
         UNCHANGED <<timeVars, start_once, first, freeze, late>>
  PROVE  AppNow' >= AppNow /\ SimNow' >= SimNow
<1>1. ~first
  BY Zenon DEF Handling, TInv, Phase
<1>2. AppNow = freeze + app_offset /\ AppNow' = freeze + app_offset
  BY Zenon, <1>1 DEF Handling, AppNow, NotThawed, timeVars
<1>3. SimNow = next_deadline + late /\ SimNow' = next_deadline + late
  BY Zenon DEF Handling, SimNow, timeVars
<1> QED
  BY <1>2, <1>3 DEF TInv, Types

(* No step of the handler takes the two times back.                        *)
LEMMA TimesAdvance ==
  ASSUME TInv, TInv', OtherStep, cause' = "none"
  PROVE  AppNow' >= AppNow /\ (~first => SimNow' >= SimNow)
<1> USE DEF timeVars, sendVars, handlerVars, Return
<1>0. /\ clock \in Int /\ app_offset \in Int /\ sim_offset \in Int /\ current_deadline \in Int
      /\ prev_deadline \in Int /\ next_deadline \in Int /\ freeze \in Int /\ now \in Int
      /\ late \in Int /\ start_once
  BY OtherFrame DEF TInv, Types
<1>n. AppNow \in Int /\ SimNow \in Int
  BY <1>0 DEF AppNow, SimNow
<1>1. CASE deadline_handler
  <2>1. /\ hpc = "idle" /\ hpc' = "freeze" /\ ~first /\ ~first'
        /\ UNCHANGED <<clock, app_offset, sim_offset, start_once>>
    BY Zenon, <1>1 DEF deadline_handler, TInv, Phase
  <2>2. AppNow' = AppNow
    BY Zenon, <1>0, <2>1 DEF AppNow, NotThawed, Handling
  <2>3. SimNow' = SimNow
    BY Zenon, <2>1 DEF SimNow, Handling
  <2> QED
    BY <1>n, <2>2, <2>3
<1>2. CASE StartGotoDeadline \/ StartError
  <2>1. /\ hpc = "startrecv" /\ first /\ hpc' = "thaw" /\ first'
        /\ UNCHANGED <<start_once, current_deadline>>
    BY Zenon, <1>2 DEF StartGotoDeadline, StartError, TInv, Phase
  <2>2. AppNow = current_deadline /\ AppNow' = current_deadline
    BY Zenon, <2>1 DEF AppNow, NotThawed
  <2> QED
    BY <1>0, <2>1, <2>2
<1>3. CASE freeze_time
  <2>1. ~first /\ hpc = "freeze" /\ hpc' = "freeze_app" /\ freeze' = clock /\ ~first' /\ start_once'
        /\ UNCHANGED <<clock, app_offset, sim_offset, next_deadline>>
    BY Zenon, <1>0, <1>3 DEF freeze_time, TInv, Phase
  <2>2. clock + sim_offset = next_deadline + late'
    BY Zenon, <2>1 DEF TInv, TimeInv, Handling
  <2>3. AppNow = clock + app_offset /\ AppNow' = clock + app_offset
    BY Zenon, <1>0, <2>1 DEF AppNow, NotThawed, Handling
  <2>4. SimNow = clock + sim_offset /\ SimNow' = next_deadline + late'
    BY Zenon, <2>1 DEF SimNow
  <2> QED
    BY <1>0, <2>2, <2>3, <2>4
<1>4. CASE FreezeApp \/ FreezeFlag
  <2>1. /\ Handling /\ hpc # "thaw" /\ Handling' /\ ~first /\ ~first'
        /\ UNCHANGED <<start_once, freeze, app_offset, next_deadline, late>>
    BY Zenon, <1>4 DEF FreezeApp, FreezeFlag, TInv, Phase, Handling
  <2>2. AppNow' = AppNow
    BY Zenon, <1>0, <2>1 DEF AppNow, NotThawed, Handling
  <2>3. SimNow' = SimNow
    BY Zenon, <2>1 DEF SimNow, Handling
  <2> QED
    BY <1>n, <2>2, <2>3
<1>5. CASE DeliverPacket \/ \E m \in outgoing : SendPacket(m) \/ SendAbort(m)
  <2>1. /\ Handling /\ hpc # "thaw" /\ Handling'
        /\ UNCHANGED <<timeVars, start_once, first, freeze, late>>
    <3>1. CASE DeliverPacket
      BY Zenon, <3>1 DEF DeliverPacket, Handling
    <3>2. ASSUME NEW m \in outgoing, SendPacket(m) \/ SendAbort(m)
          PROVE  /\ Handling /\ hpc # "thaw" /\ Handling'
                 /\ UNCHANGED <<timeVars, start_once, first, freeze, late>>
      BY Zenon, <3>2 DEF SendPacket, SendAbort, Take, Handling
    <3> QED
      BY Zenon, <1>5, <3>1, <3>2
  <2> QED
    BY Zenon, <1>0, <2>1, TimesStandStill
<1>6. CASE SendAtDeadline \/ MayNotify \/ GotoDeadline \/ RecvEnd
  <2>1. /\ Handling /\ hpc # "thaw" /\ Handling'
        /\ UNCHANGED <<timeVars, start_once, first, freeze, late>>
    <3>1. CASE SendAtDeadline
      BY Zenon, <3>1 DEF SendAtDeadline, Handling
    <3>2. CASE MayNotify
      BY Zenon, <3>2 DEF MayNotify, Handling
    <3>3. CASE GotoDeadline
      BY Zenon, <3>3 DEF GotoDeadline, TInv, Phase, Handling
    <3>4. CASE RecvEnd
      BY Zenon, <3>4 DEF RecvEnd, TInv, Phase, Handling
    <3> QED
      BY Zenon, <1>6, <3>1, <3>2, <3>3, <3>4
  <2> QED
    BY Zenon, <1>0, <2>1, TimesStandStill
<1>7. CASE Callbacks \/ StopTime
  <2>1. Callbacks /\ cause = "none"
    BY ZenonT(30), <1>7 DEF Callbacks, StopTime, TInv, Phase
  <2>2. /\ Handling /\ hpc # "thaw" /\ Handling'
        /\ UNCHANGED <<timeVars, start_once, first, freeze, late>>
    BY Zenon, <2>1 DEF Callbacks, TInv, Phase, Handling
  <2> QED
    BY Zenon, <1>0, <2>2, TimesStandStill
<1>8. CASE thaw_time_to_deadline
  <2>1. /\ hpc = "thaw" /\ hpc' = "thaw_app" /\ prev_deadline' = next_deadline
        /\ UNCHANGED <<start_once, first, freeze, app_offset, current_deadline, late>>
    BY Zenon, <1>8 DEF thaw_time_to_deadline
  <2>2. AppNow' = AppNow
    BY Zenon, <2>1 DEF AppNow, NotThawed, Handling
  <2>3. SimNow' = SimNow
    BY Zenon, <2>1 DEF SimNow, Handling
  <2> QED
    BY <1>n, <2>2, <2>3
<1>9. CASE ThawApp
  <2>1. /\ hpc = "thaw_app" /\ hpc' = "thaw_sim" /\ now <= clock
        /\ app_offset' = IF first THEN current_deadline - clock ELSE app_offset - (now - freeze)
        /\ UNCHANGED <<clock, start_once, first, prev_deadline, late>>
    BY Zenon, <1>9 DEF ThawApp, TInv, TimeInv
  <2>2. AppNow = IF first THEN current_deadline ELSE freeze + app_offset
    BY Zenon, <1>0, <2>1 DEF AppNow, NotThawed
  <2>3. AppNow' = clock + app_offset'
    BY Zenon, <1>0, <2>1 DEF AppNow, NotThawed, Handling
  <2>4. SimNow' = SimNow
    BY Zenon, <2>1 DEF SimNow
  <2>5. AppNow' >= AppNow
    BY <1>0, <2>1, <2>2, <2>3
  <2> QED
    BY <1>n, <2>4, <2>5
<1>10. CASE ThawSim \/ ThawFlag
  <2>1. /\ hpc \in {"thaw_sim", "thaw_flag"} /\ hpc' \in {"thaw_flag", "settime"}
        /\ UNCHANGED <<clock, start_once, first, app_offset, prev_deadline, late>>
    BY Zenon, <1>10 DEF ThawSim, ThawFlag
  <2>2. AppNow' = AppNow
    BY Zenon, <1>0, <2>1 DEF AppNow, NotThawed, Handling
  <2>3. SimNow' = SimNow
    BY Zenon, <2>1 DEF SimNow, Handling
  <2> QED
    BY <1>n, <2>2, <2>3
<1>11. CASE settime
  <2>1. /\ hpc = "settime" /\ hpc' = "idle" /\ ~first'
        /\ UNCHANGED <<clock, start_once, sim_offset, app_offset>>
    BY Zenon, <1>11 DEF settime
  <2>2. AppNow' = AppNow
    BY Zenon, <1>0, <2>1 DEF AppNow, NotThawed, Handling
  <2>3. SimNow = prev_deadline + late /\ SimNow' = clock + sim_offset
    BY Zenon, <2>1 DEF SimNow
  <2>4. now <= clock /\ now + sim_offset = prev_deadline + late
    BY Zenon, <2>1 DEF TInv, TimeInv
  <2> QED
    BY <1>0, <1>n, <2>2, <2>3, <2>4
<1>12. CASE SettimeError
  BY Zenon, <1>12 DEF SettimeError
<1> QED
  BY <1>1, <1>2, <1>3, <1>4, <1>5, <1>6, <1>7, <1>8, <1>9, <1>10, <1>11, <1>12, Zenon
     DEF OtherStep, HandlerStep

LEMMA SoloOther == ASSUME SInv, OtherStep PROVE SInv'
<1>1. TInv'
  BY Zenon, NextLemma DEF SInv, OtherStep, Next
<1>2. /\ UNCHANGED <<clock, thread, seen, start_once>> /\ start_once
      /\ outgoing' \subseteq outgoing
      /\ host' = host \/ host' \in Threads
      /\ cause' = "none" => cause = "none"
      /\ first' => first
  BY Zenon, OtherFrame DEF SInv
<1>3. SoloInv'
  <2>1. \A t \in Threads : thread[t].pc # "locked" \/ (hpc' = "idle" /\ at_deadline')
    <3>1. CASE \E t \in Threads : thread[t].pc = "locked"
      <4>1. hpc = "idle" /\ at_deadline
        BY Zenon, <3>1 DEF SInv, SoloInv
      <4>2. FALSE
        <5>1. deadline_handler
          BY ZenonT(30), <4>1 DEF OtherStep, HandlerStep, DeliverPacket, StartGotoDeadline, StartError,
             freeze_time, FreezeApp, FreezeFlag, SendPacket, SendAbort, Take, SendAtDeadline,
             MayNotify, GotoDeadline, RecvEnd, Callbacks, StopTime, thaw_time_to_deadline,
             ThawApp, ThawSim, ThawFlag, settime, SettimeError
        <5> QED
          BY Zenon, <1>2, <4>1, <5>1 DEF deadline_handler, SInv, TInv, Phase
      <4> QED
        BY Zenon, <4>2
    <3> QED
      BY Zenon, <3>1
  <2>2. ~start_once' \/ first' => /\ outgoing' = {}
          /\ \A t \in Threads : thread'[t].pc \notin {"stamp", "insert", "gettime"}
    BY Zenon, <1>2 DEF SInv, SoloInv
  <2> QED
    BY Zenon, <1>2, <2>1, <2>2 DEF SInv, SoloInv
<1>4. ASSUME cause' = "none" PROVE AppNow' >= AppNow /\ (~first => SimNow' >= SimNow)
  BY Zenon, <1>1, <1>4, TimesAdvance DEF SInv
<1>5. /\ AppNow \in Int /\ AppNow' \in Int /\ SimNow \in Int /\ SimNow' \in Int
      /\ thread \in [Threads -> [pc : ThreadPC, time : Nat]] /\ seen \in [Threads -> Int]
      /\ \A m \in outgoing : m.time \in Nat
  BY <1>1 DEF SInv, TInv, Types, AppNow, SimNow
<1>6. StampInv'
  <2>1. CASE first
    BY Zenon, <1>2, <2>1 DEF SInv, SoloInv, StampInv
  <2>2. CASE ~first
    BY <1>2, <1>4, <1>5, <2>2 DEF SInv, StampInv
  <2> QED
    BY Zenon, <2>1, <2>2
<1>7. SeenInv'
  BY <1>2, <1>4, <1>5 DEF SInv, SeenInv
<1> QED
  BY Zenon, <1>1, <1>3, <1>6, <1>7 DEF SInv

LEMMA SoloStart ==
  ASSUME OneThread, SInv, NEW t \in Threads, start(t) PROVE SInv'
<1>1. TInv'
  BY Zenon, StartLemma DEF SInv
<1>2. /\ ~start_once /\ start_once' /\ first' /\ hpc' = "startrecv" /\ host' = t
      /\ thread[t].pc = "idle"
      /\ UNCHANGED <<thread, outgoing, seen, cause, current_deadline>>
  BY Zenon DEF start, sendVars, timeVars
<1>3. SoloInv'
  BY Zenon, <1>2 DEF SInv, SoloInv, OneThread
<1>4. StampInv'
  BY ZenonT(30), <1>2 DEF SInv, SoloInv, StampInv
<1>5. AppNow = current_deadline /\ AppNow' = current_deadline
  BY Zenon, <1>2 DEF AppNow, NotThawed
<1>6. SeenInv'
  BY Zenon, <1>2, <1>5 DEF SInv, SeenInv
<1> QED
  BY Zenon, <1>1, <1>3, <1>4, <1>6 DEF SInv

LEMMA SoloTick == ASSUME SInv, Tick PROVE SInv'
<1>1. TInv'
  BY Zenon, TickLemma DEF SInv
<1>2. clock' = clock + 1 /\ UNCHANGED <<timeVars, start_once, handlerVars, thread, outgoing,
                                         seen, late, cause>>
  BY Zenon DEF Tick, sendVars
<1>3. SoloInv'
  BY ZenonT(30), <1>2 DEF SInv, SoloInv, timeVars, handlerVars
<1>4. AppNow' >= AppNow /\ SimNow' >= SimNow
  BY <1>2 DEF SInv, TInv, Types, AppNow, SimNow, NotThawed, Handling, timeVars, handlerVars
<1>5. /\ AppNow \in Int /\ AppNow' \in Int /\ SimNow \in Int /\ SimNow' \in Int
      /\ thread \in [Threads -> [pc : ThreadPC, time : Nat]] /\ seen \in [Threads -> Int]
      /\ \A m \in outgoing : m.time \in Nat
  BY <1>1 DEF SInv, TInv, Types, AppNow, SimNow
<1>6. StampInv' /\ SeenInv'
  BY <1>2, <1>4, <1>5 DEF SInv, StampInv, SeenInv
<1> QED
  BY Zenon, <1>1, <1>3, <1>6 DEF SInv

LEMMA SoloNext == ASSUME OneThread PROVE SInv /\ [Next]_vars => SInv'
<1> SUFFICES ASSUME SInv, [Next]_vars PROVE SInv'
  BY Zenon
<1>1. ASSUME NEW t \in Threads, ThreadStep(t) PROVE SInv'
  BY Zenon, <1>1, SoloCall, SoloStart DEF ThreadStep, CallStep
<1>2. CASE Tick
  BY Zenon, <1>2, SoloTick
<1>3. CASE OtherStep
  BY Zenon, <1>3, SoloOther
<1>4. CASE UNCHANGED vars
  <2>1. TInv'
    BY Zenon, <1>4, NextLemma DEF SInv
  <2> QED
    BY Zenon, <1>4, <2>1 DEF SInv, SoloInv, StampInv, SeenInv, AppNow, SimNow, NotThawed, Handling,
       vars, timeVars, handlerVars, sendVars
<1> QED
  BY Zenon, <1>1, <1>2, <1>3, <1>4 DEF Next, OtherStep

LEMMA SoloInvariance == ASSUME OneThread PROVE Spec => []SInv
<1>1. Init => SInv
  <2> SUFFICES ASSUME Init PROVE SInv
    BY Zenon
  <2>1. TInv
    BY Zenon, InitLemma
  <2> QED
    BY <2>1 DEF Init, SInv, SoloInv, StampInv, SeenInv, AppNow, SimNow, NotThawed, Idle
<1>2. SInv /\ [Next]_vars => SInv'
  BY Zenon, SoloNext
<1> QED
  BY <1>1, <1>2, PTL DEF Spec

(* With one thread, freeze_time never waits for the mutex that the thread  *)
(* it interrupted holds: application_now takes it only when time is frozen. *)
THEOREM HandlerNeverBlocks == ASSUME OneThread PROVE Spec => []HandlerCanLock
<1>1. SInv => HandlerCanLock
  BY Zenon DEF SInv, SoloInv, HandlerCanLock
<1> QED
  BY <1>1, SoloInvariance, PTL

(* With one thread, the time gettimeofday gives never steps back while the *)
(* simulation runs, over any number of deadlines.                          *)
THEOREM TimeNeverStepsBack == ASSUME OneThread PROVE Spec => ApplicationTimeMonotonic
<1>1. ASSUME SInv, Next, cause = "none", NEW u \in Threads PROVE seen'[u] >= seen[u]
  <2>1. seen \in [Threads -> Int] /\ current_deadline \in Int
        /\ clock + app_offset \in Int
    BY <1>1 DEF SInv, TInv, Types
  <2>2. CASE UNCHANGED seen
    BY <2>1, <2>2
  <2>3. ASSUME NEW t \in Threads, CallStep(t) PROVE seen'[u] >= seen[u]
    <3>1. hpc = "idle"
      BY Zenon, <1>1, <2>3, CallsOutsideHandler DEF SInv
    <3>2. \/ seen' = seen
          \/ thread[t].pc = "locked" /\ seen' = [seen EXCEPT ![t] = current_deadline]
          \/ thread[t].pc = "gettime" /\ seen' = [seen EXCEPT ![t] = clock + app_offset]
      BY SMTT(30), <1>1, <2>3, <3>1, CallEffect DEF Effect
    <3>3. thread[t].pc = "locked" => AppNow = current_deadline
      BY Zenon, <1>1, <3>1 DEF AppNow, NotThawed, SInv, SoloInv, TInv, Phase
    <3>4. thread[t].pc = "gettime" => AppNow = clock + app_offset
      BY Zenon, <1>1, <3>1 DEF AppNow, NotThawed, Handling, SInv, SoloInv
    <3> QED
      BY <1>1, <2>1, <3>2, <3>3, <3>4 DEF SInv, SeenInv
  <2>4. \/ UNCHANGED seen
        \/ \E t \in Threads : CallStep(t)
    <3>1. OtherStep => UNCHANGED seen
      BY Zenon, <1>1, OtherFrame DEF SInv
    <3>2. Tick \/ (\E t \in Threads : start(t)) => UNCHANGED seen
      BY Zenon DEF Tick, start
    <3> QED
      BY Zenon, <1>1, <3>1, <3>2 DEF Next, OtherStep, ThreadStep, CallStep
  <2> QED
    BY Zenon, <2>2, <2>3, <2>4
<1>2. SInv /\ [Next]_vars
        => [\A t \in Threads : cause = "none" => seen'[t] >= seen[t]]_vars
  BY Zenon, <1>1
<1> QED
  BY <1>2, SoloInvariance, PTL DEF Spec, ApplicationTimeMonotonic

(* With one thread, at_deadline ends the simulation for a stamp beyond the *)
(* deadline only if some expiry of the timer was handled late.             *)
THEOREM NoLateAbortOnTime == ASSUME OneThread PROVE Spec => AbortOnlyAfterLateness
<1>1. ASSUME SInv, Next, cause = "none", cause' = "late" PROVE late > 0
  <2>1. PICK m \in outgoing : SendAbort(m)
    <3>1. ASSUME NEW t \in Threads, ThreadStep(t) PROVE FALSE
      <4>1. UNCHANGED cause
        BY ZenonT(30), <1>1, <3>1, CallFrame DEF SInv, ThreadStep, CallStep, start
      <4> QED
        BY Zenon, <1>1, <4>1
    <3>2. ~Tick /\ ~deadline_handler /\ ~DeliverPacket
      BY Zenon, <1>1 DEF Tick, deadline_handler, DeliverPacket
    <3>3. CASE HandlerStep
      BY ZenonT(30), <1>1, <3>3 DEF HandlerStep, StartGotoDeadline, StartError, freeze_time, FreezeApp,
         FreezeFlag, SendPacket, SendAtDeadline, MayNotify, GotoDeadline, RecvEnd, Callbacks,
         StopTime, thaw_time_to_deadline, ThawApp, ThawSim, ThawFlag, settime, SettimeError
    <3> QED
      BY Zenon, <1>1, <3>1, <3>2, <3>3 DEF Next
  <2>2. hpc = "drain" /\ ~(FixedTime(m) <= next_deadline)
    BY Zenon, <1>1, <2>1 DEF SendAbort, Take
  <2>3. /\ m.time \in Nat /\ prev_deadline \in Nat /\ next_deadline \in Nat /\ late \in Nat
        /\ prev_deadline <= next_deadline
    BY Zenon, <1>1 DEF SInv, TInv, Types, Phase
  <2>4. m.time <= next_deadline + late
    BY Zenon, <1>1, <2>2 DEF SInv, StampInv, SimNow
  <2> QED
    BY <2>2, <2>3, <2>4 DEF FixedTime
<1>2. SInv /\ [Next]_vars => [cause = "none" /\ cause' = "late" => late > 0]_vars
  BY Zenon, <1>1
<1> QED
  BY <1>2, SoloInvariance, PTL DEF Spec, AbortOnlyAfterLateness
-----------------------------------------------------------------------------
(* A thread that sleeps: while at_deadline receives, its decision to call  *)
(* recv_callback covers what is yet to come.                               *)
Asleep == \E t \in Threads : thread[t].pc = "asleep"

Receiving == hpc \in {"recv", "callback"}

WakeInv ==
  Asleep => IF Receiving THEN notified \/ may_notify ELSE input_queue # <<>> => notified

LEMMA WakeQuiet ==
  ASSUME OtherStep, ~MayNotify, ~DeliverPacket, ~Callbacks, ~GotoDeadline, ~RecvEnd
  PROVE  ~Receiving /\ ~Receiving' /\ UNCHANGED <<input_queue, notified>>
<1> USE DEF Receiving, queueVars
<1>1. CASE deadline_handler \/ StartGotoDeadline \/ StartError
  BY Zenon, <1>1 DEF deadline_handler, StartGotoDeadline, StartError, Return
<1>2. CASE freeze_time \/ FreezeApp \/ FreezeFlag
  BY Zenon, <1>2 DEF freeze_time, FreezeApp, FreezeFlag
<1>3. ASSUME NEW m \in outgoing, SendPacket(m) \/ SendAbort(m)
      PROVE  ~Receiving /\ ~Receiving' /\ UNCHANGED <<input_queue, notified>>
  BY Zenon, <1>3 DEF SendPacket, SendAbort, Take
<1>4. CASE SendAtDeadline \/ StopTime \/ thaw_time_to_deadline \/ ThawApp
  BY ZenonT(30), <1>4 DEF SendAtDeadline, StopTime, thaw_time_to_deadline, ThawApp, Return
<1>5. CASE ThawSim \/ ThawFlag \/ settime
  BY Zenon, <1>5 DEF ThawSim, ThawFlag, settime, Return
<1>6. CASE SettimeError
  BY Zenon, <1>6 DEF SettimeError, Return
<1> QED
  BY <1>1, <1>2, <1>3, <1>4, <1>5, <1>6, Zenon DEF OtherStep, HandlerStep

LEMMA WakeNext ==
  ASSUME OneThread, SInv, WakeInv, [Next]_vars PROVE WakeInv'
<1>1. ASSUME NEW t \in Threads, CallStep(t) PROVE WakeInv'
  <2>1. hpc = "idle" /\ hpc' = hpc
    BY Zenon, <1>1, CallsOutsideHandler, CallFrame DEF SInv, handlerVars
  <2>2. CASE poll(t)
    BY Zenon, <2>1, <2>2 DEF poll, WakeInv, Receiving, queueVars
  <2>3. CASE ~poll(t)
    <3>1. thread'[t].pc # "asleep"
      <4>1. t \in DOMAIN thread
        BY Zenon DEF SInv, TInv, Types
      <4>2. CASE send(t) \/ simulation_now(t) \/ SendInsert(t) \/ SendError(t)
        BY <4>1, <4>2 DEF send, simulation_now, SendInsert, SendError, Goes
      <4>3. CASE gettimeofday(t) \/ FrozenNow(t) \/ application_now(t) \/ recv(t)
        BY <4>1, <4>3 DEF gettimeofday, FrozenNow, application_now, recv, Goes
      <4>4. CASE RecvDrop(t) \/ WakeUp(t) \/ stop(t) \/ StopReturn(t)
        BY <4>1, <4>4 DEF RecvDrop, WakeUp, stop, StopReturn, Goes
      <4> QED
        BY Zenon, <1>1, <2>3, <4>2, <4>3, <4>4 DEF CallStep
    <3> QED
      BY Zenon, <3>1 DEF OneThread, WakeInv, Asleep
  <2> QED
    BY Zenon, <2>2, <2>3
<1>2. ASSUME NEW t \in Threads, start(t) PROVE WakeInv'
  BY Zenon, <1>2 DEF start, Runs, WakeInv, Asleep, Receiving, queueVars, SInv, SoloInv, OneThread
<1>3. CASE Tick \/ UNCHANGED vars
  <2>1. UNCHANGED <<thread, hpc, notified, may_notify, input_queue>>
    BY Zenon, <1>3 DEF Tick, vars, handlerVars, queueVars
  <2> QED
    BY Zenon, <2>1 DEF WakeInv, Asleep, Receiving
<1>4. CASE OtherStep
  <2>1. Asleep' <=> Asleep
    BY Zenon, <1>4, OtherFrame DEF SInv, Asleep
  <2>2. CASE MayNotify
    BY ZenonT(30), <2>1, <2>2 DEF MayNotify, WakeInv, Receiving, queueVars
  <2>3. CASE DeliverPacket
    BY Zenon, <2>1, <2>3 DEF DeliverPacket, WakeInv, Receiving, handlerVars
  <2>4. CASE GotoDeadline \/ RecvEnd
    BY <2>1, <2>4 DEF GotoDeadline, RecvEnd, WakeInv, Receiving, queueVars
  <2>5. CASE Callbacks
    BY Zenon, <2>1, <2>5 DEF Callbacks, WakeInv, Receiving
  <2>6. CASE ~MayNotify /\ ~DeliverPacket /\ ~Callbacks /\ ~GotoDeadline /\ ~RecvEnd
    BY <1>4, <2>1, <2>6, WakeQuiet DEF WakeInv
  <2> QED
    BY Zenon, <2>2, <2>3, <2>4, <2>5, <2>6
<1> QED
  BY Zenon, <1>1, <1>2, <1>3, <1>4 DEF Next, ThreadStep, CallStep, OtherStep

(* With one thread, no wake-up is lost: whatever the handler interrupts,   *)
(* may_notify is decided before the packets come and recv_callback called  *)
(* after, so a thread asleep outside the handler with packets to read has  *)
(* been notified.  (Of several sleeping threads only one wakes up.)        *)
THEOREM NoWakeupIsLost == ASSUME OneThread PROVE Spec => []NoLostWakeup
<1>1. Init => WakeInv
  BY DEF Init, WakeInv, Asleep, Idle
<1>2. SInv /\ WakeInv /\ [Next]_vars => WakeInv'
  BY Zenon, WakeNext
<1>3. WakeInv => NoLostWakeup
  BY Zenon DEF WakeInv, Asleep, Receiving, NoLostWakeup
<1> QED
  BY <1>1, <1>2, <1>3, SoloInvariance, PTL DEF Spec
-----------------------------------------------------------------------------
(* The packets of the coordinator: a buffer that is free for the next one  *)
(* is a place in the queue.                                                *)
QueueInv ==
  /\ popped \in Nat /\ delivered \in Nat
  /\ input_queue \in Seq(Nat)
  /\ InputInOrder

LEMMA RoomInQueue == ASSUME QueueInv, CanReceive PROVE Len(input_queue) < NumBuffers
<1> DEFINE S == {t \in Threads : thread[t].pc = "copy"}
<1>1. IsFiniteSet(S)
  BY ThreadsAssumption, FS_Subset
<1>2. Cardinality(S) \in Nat
  BY Zenon, <1>1, FS_CardinalityType
<1>3. Len(input_queue) \in Nat /\ Len(input_queue) + Cardinality(S) < NumBuffers
  BY DEF QueueInv, CanReceive, InputBuffersUsed
<1> HIDE DEF S
<1> QED
  BY <1>2, <1>3, NumBuffersAssumption

LEMMA QueueNext == QueueInv /\ [Next]_vars => QueueInv'
<1> SUFFICES ASSUME QueueInv, [Next]_vars PROVE QueueInv'
  BY Zenon
<1>1. CASE DeliverPacket
  <2>1. /\ input_queue' = Append(input_queue, delivered + 1)
        /\ delivered' = delivered + 1 /\ popped' = popped
    BY Zenon, <1>1, RoomInQueue DEF DeliverPacket
  <2> DEFINE n == Len(input_queue)
  <2>2. /\ n \in Nat /\ input_queue' \in Seq(Nat) /\ Len(input_queue') = n + 1
        /\ input_queue'[n + 1] = delivered + 1
        /\ \A i \in 1..n : input_queue'[i] = input_queue[i]
    BY <2>1 DEF QueueInv
  <2>3. \A i \in 1..n + 1 : input_queue'[i] = popped + i
    BY <2>1, <2>2 DEF QueueInv, InputInOrder
  <2> QED
    BY <2>1, <2>2, <2>3 DEF QueueInv, InputInOrder
<1>2. ASSUME NEW t \in Threads, recv(t) PROVE QueueInv'
  <2>1. /\ input_queue # <<>> /\ input_queue' = Tail(input_queue)
        /\ popped' = popped + 1 /\ delivered' = delivered
    BY Zenon, <1>2 DEF recv
  <2>2. /\ input_queue' \in Seq(Nat) /\ Len(input_queue') = Len(input_queue) - 1
        /\ Len(input_queue) \in Nat
        /\ \A i \in 1..Len(input_queue') : i + 1 \in 1..Len(input_queue)
                                        /\ input_queue'[i] = input_queue[i + 1]
    BY <2>1 DEF QueueInv
  <2>3. \A i \in 1..Len(input_queue') : input_queue'[i] = popped' + i
    BY <2>1, <2>2 DEF QueueInv, InputInOrder
  <2> QED
    BY <2>1, <2>2, <2>3 DEF QueueInv, InputInOrder
<1>3. CASE ~DeliverPacket /\ ~\E t \in Threads : recv(t)
  <2>1. UNCHANGED <<input_queue, popped, delivered>>
    BY Zenon, <1>3 DEF Next, ThreadStep, Tick, deadline_handler, HandlerStep, send, simulation_now,
       SendInsert, SendError, gettimeofday, FrozenNow, application_now, RecvDrop, poll, WakeUp,
       stop, StopReturn, start, StartGotoDeadline, StartError, freeze_time, FreezeApp, FreezeFlag,
       SendPacket, SendAbort, Take, SendAtDeadline, MayNotify, GotoDeadline, RecvEnd, Callbacks,
       StopTime, thaw_time_to_deadline, ThawApp, ThawSim, ThawFlag, settime, SettimeError,
       queueVars, vars
  <2> QED
    BY Zenon, <2>1 DEF QueueInv, InputInOrder
<1> QED
  BY Zenon, <1>1, <1>2, <1>3

(* Every packet delivered reaches the application once and in order, for   *)
(* any number of threads: handle_actor_msg never finds the queue full.     *)
THEOREM PacketsInOrder == Spec => []InputInOrder
<1>1. Init => QueueInv
  BY DEF Init, QueueInv, InputInOrder
<1>2. QueueInv => InputInOrder
  BY Zenon DEF QueueInv
<1> QED
  BY <1>1, <1>2, QueueNext, PTL DEF Spec
-----------------------------------------------------------------------------
(* The types that TInv and QueueInv leave out.                             *)
FlagTypes ==
  /\ at_deadline \in BOOLEAN /\ stopped \in BOOLEAN /\ start_once \in BOOLEAN
  /\ first \in BOOLEAN /\ may_notify \in BOOLEAN /\ notified \in BOOLEAN
  /\ host \in Threads
  /\ cause \in Causes

SendTypes ==
  /\ jitter \in Nat
  /\ outgoing \subseteq [id : Nat, time : Nat] /\ owed \subseteq outgoing
  /\ wire \subseteq Nat
  /\ sent \in Nat

QueueTypes == input_queue \in Seq(1..MaxPackets) /\ delivered \in 0..MaxPackets

(* Every call of send that passed its guard may still come.                *)
Sending == {t \in Threads : thread[t].pc \in {"stamp", "insert"}}

SentBound == sent + Cardinality(Sending) <= MaxSends + Cardinality(Threads)

TypeInv == FlagTypes /\ SendTypes /\ QueueTypes /\ SentBound

LEMMA SendingFinite ==
  /\ IsFiniteSet(Sending) /\ Cardinality(Sending) \in Nat
  /\ Cardinality(Threads) \in Nat /\ Cardinality(Sending) <= Cardinality(Threads)
<1>1. Sending \subseteq Threads
  BY Zenon DEF Sending
<1> QED
  BY <1>1, ThreadsAssumption, FS_Subset, FS_CardinalityType

LEMMA SentCall ==
  ASSUME TInv, TypeInv, NEW t \in Threads, CallStep(t) PROVE SentBound'
<1> DEFINE n == Cardinality(Sending)
           k == Cardinality(Threads)
<1>0. /\ sent \in Nat /\ n \in Nat /\ k \in Nat /\ sent + n <= MaxSends + k
      /\ thread \in [Threads -> [pc : ThreadPC, time : Nat]]
      /\ IsFiniteSet(Sending) /\ MaxSends \in Nat
  BY Zenon, SendingFinite, BoundsAssumption DEF TypeInv, SendTypes, SentBound, TInv, Types
<1>1. IsFiniteSet(Sending') /\ Cardinality(Sending') \in Nat /\ Cardinality(Sending') <= k
  <2>1. Sending' \subseteq Threads
    BY Zenon DEF Sending
  <2> QED
    BY <2>1, ThreadsAssumption, FS_Subset, FS_CardinalityType
<1>2. CASE send(t)
  BY <1>0, <1>1, <1>2 DEF send, sendVars, SentBound
<1>3. CASE SendInsert(t) \/ SendError(t)
  <2>1. Sending' = Sending \ {t} /\ t \in Sending
    BY <1>0, <1>3 DEF SendInsert, SendError, Goes, Sending
  <2>2. Cardinality(Sending') = n - 1
    BY Zenon, <1>0, <2>1, FS_RemoveElement
  <2>3. sent' = sent \/ sent' = sent + 1
    BY Zenon, <1>3 DEF SendInsert, SendError, sendVars
  <2>4. sent \in Nat /\ n \in Nat /\ k \in Nat /\ MaxSends \in Nat /\ sent + n <= MaxSends + k
    BY Zenon, <1>0
  <2> HIDE DEF n, k
  <2>5. sent' + (n - 1) <= MaxSends + k
    BY <2>3, <2>4
  <2> QED
    BY Zenon, <2>2, <2>5 DEF SentBound, k
<1>4. CASE ~send(t) /\ ~SendInsert(t) /\ ~SendError(t)
  <2>1. sent' = sent
    BY Zenon, <1>4 DEF CallStep, simulation_now, gettimeofday, FrozenNow, application_now, recv, RecvDrop,
       poll, WakeUp, stop, StopReturn, sendVars
  <2>2. Sending' = Sending
    <3>1. thread'[t].pc \in {"stamp", "insert"} <=> thread[t].pc \in {"stamp", "insert"}
      BY <1>0, <1>4 DEF CallStep, simulation_now, gettimeofday, FrozenNow, application_now, recv,
         RecvDrop, poll, WakeUp, stop, StopReturn, Goes
    <3>2. \A u \in Threads : u # t => thread'[u] = thread[u]
      BY Zenon, <1>0, <1>4 DEF CallStep, simulation_now, gettimeofday, FrozenNow, application_now, recv,
         RecvDrop, poll, WakeUp, stop, StopReturn, Goes
    <3> QED
      BY Zenon, <3>1, <3>2 DEF Sending
  <2> QED
    BY Zenon, <2>1, <2>2 DEF TypeInv, SentBound
<1> QED
  BY Zenon, <1>2, <1>3, <1>4

LEMMA TypeCall == ASSUME TInv, TypeInv, NEW t \in Threads, CallStep(t) PROVE TypeInv'
<1>1. FlagTypes'
  <2>1. notified' \in {notified, FALSE}
    BY Zenon DEF CallStep, send, simulation_now, SendInsert, SendError, gettimeofday, FrozenNow,
       application_now, recv, RecvDrop, poll, WakeUp, stop, StopReturn, queueVars
  <2> QED
    BY Zenon, <2>1, CallFrame DEF TypeInv, FlagTypes, timeVars, handlerVars
<1>2. SendTypes'
  <2>1. jitter' = jitter /\ owed' = owed /\ wire' = wire
    BY Zenon, CallFrame DEF handlerVars
  <2>2. CASE SendInsert(t)
    <3>1. thread[t].time \in Nat
      BY Zenon DEF TInv, Types
    <3>2. /\ outgoing' = outgoing \cup {[id |-> sent, time |-> thread[t].time]}
          /\ sent' = sent + 1
      BY Zenon, <2>2 DEF SendInsert
    <3>3. /\ sent \in Nat /\ jitter \in Nat /\ wire \subseteq Nat
          /\ outgoing \subseteq [id : Nat, time : Nat] /\ owed \subseteq outgoing
      BY Zenon DEF TypeInv, SendTypes
    <3>4. [id |-> sent, time |-> thread[t].time] \in [id : Nat, time : Nat]
      BY Zenon, <3>1, <3>3
    <3>5. outgoing' \subseteq [id : Nat, time : Nat] /\ owed' \subseteq outgoing'
      BY Zenon, <2>1, <3>2, <3>3, <3>4
    <3> QED
      BY <2>1, <3>2, <3>3, <3>5 DEF SendTypes
  <2>3. CASE ~SendInsert(t)
    <3>1. UNCHANGED <<outgoing, sent>>
      BY Zenon, <2>3 DEF CallStep, send, simulation_now, SendError, gettimeofday, FrozenNow,
         application_now, recv, RecvDrop, poll, WakeUp, stop, StopReturn, sendVars
    <3> QED
      BY Zenon, <2>1, <3>1 DEF TypeInv, SendTypes
  <2> QED
    BY Zenon, <2>2, <2>3
<1>3. QueueTypes'
  <2>1. \/ UNCHANGED <<input_queue, delivered>>
        \/ input_queue # <<>> /\ input_queue' = Tail(input_queue) /\ UNCHANGED delivered
    BY Zenon DEF CallStep, send, simulation_now, SendInsert, SendError, gettimeofday, FrozenNow,
       application_now, recv, RecvDrop, poll, WakeUp, stop, StopReturn, queueVars
  <2>2. input_queue \in Seq(1..MaxPackets) /\ delivered \in 0..MaxPackets
    BY Zenon DEF TypeInv, QueueTypes
  <2>3. input_queue # <<>> => Tail(input_queue) \in Seq(1..MaxPackets)
    BY <2>2
  <2> QED
    BY Zenon, <2>1, <2>2, <2>3 DEF QueueTypes
<1> QED
  BY Zenon, <1>1, <1>2, <1>3, SentCall DEF TypeInv

(* What the handler and the coordinator do to the types.                   *)
LEMMA FlagOther ==
  ASSUME TypeInv, deadline_handler \/ HandlerStep \/ DeliverPacket PROVE FlagTypes'
<1> USE DEF TypeInv, FlagTypes, Causes, timeVars, queueVars, handlerVars
<1>1. CASE deadline_handler \/ StartGotoDeadline \/ DeliverPacket
  BY ZenonT(30), <1>1 DEF deadline_handler, StartGotoDeadline, DeliverPacket
<1>2. CASE StartError \/ freeze_time \/ FreezeApp \/ FreezeFlag
  BY ZenonT(30), <1>2 DEF StartError, freeze_time, FreezeApp, FreezeFlag, Return
<1>3. ASSUME NEW m \in outgoing, SendPacket(m) \/ SendAbort(m) PROVE FlagTypes'
  <2>1. cause' \in {cause, "write", "late"}
    BY Zenon, <1>3 DEF SendPacket, SendAbort
  <2> QED
    BY <1>3, <2>1 DEF SendPacket, SendAbort, Take
<1>4. CASE SendAtDeadline \/ MayNotify \/ GotoDeadline
  BY ZenonT(30), <1>4 DEF SendAtDeadline, MayNotify, GotoDeadline
<1>5. CASE RecvEnd
  <2>1. cause' \in {"read", "told", "nobuffer"}
    BY Zenon, <1>5 DEF RecvEnd
  <2> QED
    BY Zenon, <1>5, <2>1 DEF RecvEnd
<1>6. CASE Callbacks \/ StopTime
  BY ZenonT(30), <1>6 DEF Callbacks, StopTime, Return
<1>7. CASE thaw_time_to_deadline \/ ThawApp \/ ThawSim \/ ThawFlag
  BY ZenonT(30), <1>7 DEF thaw_time_to_deadline, ThawApp, ThawSim, ThawFlag
<1>8. CASE settime \/ SettimeError
  BY Zenon, <1>8 DEF settime, SettimeError, Return
<1> QED
  BY <1>1, <1>2, <1>3, <1>4, <1>5, <1>6, <1>7, <1>8 DEF HandlerStep

LEMMA SendFrame ==
  ASSUME SendTypes, jitter' = jitter \/ jitter' = 0, UNCHANGED sendVars PROVE SendTypes'
  BY DEF SendTypes, sendVars

LEMMA SendOther ==
  ASSUME TInv, TypeInv, deadline_handler \/ HandlerStep \/ DeliverPacket
  PROVE  SendTypes' /\ SentBound'
<1>1. UNCHANGED <<sent, thread>>
  BY Zenon DEF deadline_handler, HandlerStep, DeliverPacket, StartGotoDeadline, StartError,
     freeze_time, FreezeApp, FreezeFlag, SendPacket, SendAbort, Take, SendAtDeadline, MayNotify,
     GotoDeadline, RecvEnd, Callbacks, StopTime, thaw_time_to_deadline, ThawApp, ThawSim, ThawFlag,
     settime, SettimeError, sendVars
<1>2. SentBound'
  BY Zenon, <1>1 DEF TypeInv, SentBound, Sending
<1>3. SendTypes'
  <2>0. SendTypes
    BY Zenon DEF TypeInv
  <2>1. CASE freeze_time
    <3>1. clock - timer \in Nat
      BY <2>1 DEF freeze_time, TInv, Types, Phase
    <3> QED
      BY Zenon, <2>0, <2>1, <3>1 DEF freeze_time, SendTypes, sendVars
  <2>2. ASSUME NEW m \in outgoing, SendPacket(m) \/ SendAbort(m) PROVE SendTypes'
    <3>1. FixedTime(m) \in Nat
      BY Zenon DEF FixedTime, TInv, Types
    <3>2. wire' = wire \/ wire' = wire \cup {FixedTime(m)}
      BY Zenon, <2>2 DEF SendPacket, SendAbort
    <3>3. Take(m)
      BY Zenon, <2>2 DEF SendPacket, SendAbort
    <3> QED
      BY Zenon, <2>0, <3>1, <3>2, <3>3 DEF Take, SendTypes
  <2>3. CASE FreezeFlag
    BY Zenon, <2>0, <2>3 DEF FreezeFlag, SendTypes
  <2>4. CASE GotoDeadline
    BY Zenon, <2>0, <2>4 DEF GotoDeadline, SendTypes
  <2>5. CASE deadline_handler \/ StartGotoDeadline \/ StartError \/ FreezeApp \/ SendAtDeadline
             \/ MayNotify \/ DeliverPacket \/ RecvEnd \/ Callbacks
    <3>1. (jitter' = jitter \/ jitter' = 0) /\ UNCHANGED sendVars
      BY ZenonT(30), <2>5 DEF deadline_handler, StartGotoDeadline, StartError, FreezeApp, SendAtDeadline,
         MayNotify, DeliverPacket, RecvEnd, Callbacks, Return, handlerVars
    <3> QED
      BY Zenon, <2>0, <3>1, SendFrame
  <2>6. CASE StopTime \/ thaw_time_to_deadline \/ ThawApp \/ ThawSim \/ ThawFlag \/ settime
             \/ SettimeError
    <3>1. (jitter' = jitter \/ jitter' = 0) /\ UNCHANGED sendVars
      BY Zenon, <2>6 DEF StopTime, thaw_time_to_deadline, ThawApp, ThawSim, ThawFlag, settime,
         SettimeError, Return
    <3> QED
      BY Zenon, <2>0, <3>1, SendFrame
  <2> QED
    BY Zenon, <2>1, <2>2, <2>3, <2>4, <2>5, <2>6 DEF HandlerStep
<1> QED
  BY Zenon, <1>2, <1>3

LEMMA QueueOther ==
  ASSUME TypeInv, deadline_handler \/ HandlerStep \/ DeliverPacket PROVE QueueTypes'
<1>1. CASE DeliverPacket
  <2>1. /\ input_queue \in Seq(1..MaxPackets) /\ delivered \in 0..MaxPackets
        /\ delivered < MaxPackets /\ MaxPackets \in Nat /\ delivered' = delivered + 1
    BY Zenon, <1>1, BoundsAssumption DEF DeliverPacket, TypeInv, QueueTypes
  <2>2. delivered + 1 \in 1..MaxPackets
    BY <2>1
  <2>3. Append(input_queue, delivered + 1) \in Seq(1..MaxPackets)
    BY <2>1, <2>2
  <2>4. input_queue' = input_queue \/ input_queue' = Append(input_queue, delivered + 1)
    BY Zenon, <1>1 DEF DeliverPacket
  <2>5. delivered' \in 0..MaxPackets
    BY <2>1, <2>2
  <2> QED
    BY <2>1, <2>3, <2>4, <2>5 DEF QueueTypes
<1>2. CASE ~DeliverPacket
  <2>1. UNCHANGED <<input_queue, delivered>>
    BY Zenon, <1>2 DEF deadline_handler, HandlerStep, StartGotoDeadline, StartError, freeze_time,
       FreezeApp, FreezeFlag, SendPacket, SendAbort, Take, SendAtDeadline, MayNotify, GotoDeadline,
       RecvEnd, Callbacks, StopTime, thaw_time_to_deadline, ThawApp, ThawSim, ThawFlag, settime,
       SettimeError, queueVars
  <2> QED
    BY Zenon, <2>1 DEF TypeInv, QueueTypes
<1> QED
  BY Zenon, <1>1, <1>2

LEMMA TypeNext == TInv /\ TypeInv /\ [Next]_vars => TypeInv'
<1> SUFFICES ASSUME TInv, TypeInv, [Next]_vars PROVE TypeInv'
  BY Zenon
<1>1. ASSUME NEW t \in Threads, ThreadStep(t) PROVE TypeInv'
  <2>1. CASE start(t)
    BY Zenon, <2>1 DEF start, TypeInv, FlagTypes, SendTypes, QueueTypes, SentBound, Sending, timeVars,
       sendVars, queueVars
  <2>2. CASE CallStep(t)
    BY Zenon, <2>2, TypeCall
  <2> QED
    BY Zenon, <1>1, <2>1, <2>2 DEF ThreadStep, CallStep
<1>2. CASE deadline_handler \/ HandlerStep \/ DeliverPacket
  BY Zenon, <1>2, FlagOther, SendOther, QueueOther DEF TypeInv
<1>3. CASE Tick \/ UNCHANGED vars
  BY Zenon, <1>3 DEF Tick, vars, TypeInv, FlagTypes, SendTypes, QueueTypes, SentBound, Sending, timeVars,
     handlerVars, sendVars, queueVars
<1> QED
  BY Zenon, <1>1, <1>2, <1>3 DEF Next

(* The types of Client, with the bounds of its counters, for any number of *)
(* threads.                                                                *)
THEOREM ClientTypes == Spec => []TypeOK
<1>1. Init => TypeInv
  <2> SUFFICES ASSUME Init PROVE TypeInv
    BY Zenon
  <2>1. FlagTypes /\ SendTypes
    BY Zenon DEF Init, FlagTypes, SendTypes, Causes
  <2>2. QueueTypes
    BY BoundsAssumption DEF Init, QueueTypes
  <2>3. sent = 0
    BY Zenon DEF Init
  <2>4. SentBound
    BY <2>3, SendingFinite, BoundsAssumption DEF SentBound
  <2> QED
    BY Zenon, <2>1, <2>2, <2>4 DEF TypeInv
<1>2. TInv /\ QueueInv /\ TypeInv => TypeOK
  <2> SUFFICES ASSUME TInv, QueueInv, TypeInv PROVE TypeOK
    BY Zenon
  <2>1. sent \in 0..MaxSends + Cardinality(Threads)
    BY SendingFinite, BoundsAssumption DEF TypeInv, SendTypes, SentBound
  <2>2. popped \in 0..MaxPackets
    <3>1. popped \in Nat /\ Len(input_queue) \in Nat /\ popped + Len(input_queue) = delivered
          /\ delivered \in 0..MaxPackets
      BY DEF QueueInv, InputInOrder, TypeInv, QueueTypes
    <3> QED
      BY <3>1, BoundsAssumption
  <2> QED
    BY <2>1, <2>2 DEF TInv, Types, TypeInv, FlagTypes, SendTypes, QueueTypes, TypeOK
<1>3. Init => QueueInv
  BY DEF Init, QueueInv, InputInOrder
<1> QED
  BY <1>1, <1>2, <1>3, TypeNext, QueueNext, Invariance, PTL DEF Spec
=============================================================================
