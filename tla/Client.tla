------------------------------- MODULE Client -------------------------------
(***************************************************************************)
(* The client library in a process: Context (lib.rs) with the timer of     *)
(* timer/process.rs.  A one-shot timer on CLOCK_MONOTONIC raises SIGALRM   *)
(* at the deadline; the handler runs on one of the application's threads,  *)
(* freezes the simulated time, exchanges messages with the coordinator and *)
(* thaws the time.  The thread the handler runs on makes no step           *)
(* meanwhile; the other threads do.                                        *)
(*                                                                         *)
(* Of the other parts, each is used as what it is shown to implement: the  *)
(* set of outgoing messages as a set, the SeqLocks around the two offsets  *)
(* as atomic registers, the queue of received packets as a FIFO.  Both     *)
(* clocks the code reads, CLOCK_MONOTONIC and the local time, advance      *)
(* together and are one clock here, read once per access in the code.      *)
(***************************************************************************)
EXTENDS Integers, Sequences, FiniteSets

CONSTANTS
  Threads,     \* application threads
  NumBuffers,  \* Config::num_buffers: input buffers and slots of the input queue
  Lengths,     \* lengths of the time slices the coordinator asks for
  MaxClock,    \* bound: clock
  MaxSends,    \* bound: packets sent
  MaxPackets   \* bound: packets delivered

ASSUME ThreadsAssumption == IsFiniteSet(Threads)
ASSUME NumBuffersAssumption == NumBuffers \in Nat \ {0}
ASSUME LengthsAssumption == Lengths \subseteq Nat
ASSUME BoundsAssumption == MaxClock \in Nat /\ MaxSends \in Nat /\ MaxPackets \in Nat

NoTimer == -1
EndSimulation == -1

VARIABLES
  clock,            \* CLOCK_MONOTONIC
  app_offset,       \* application_time: from clock to application time
  sim_offset,       \* simulation_time: from clock to simulation time
  at_deadline,      \* the flag that freezes the time
  current_deadline, \* application time while frozen
  prev_deadline, next_deadline,
  timer,            \* when the system timer expires, or NoTimer
  stopped,
  start_once,       \* start has been called
  hpc,              \* where deadline_handler or start is
  host,             \* the thread it runs on
  first,            \* it is start
  freeze, now,      \* clock values it holds
  goal,             \* the deadline it was told, or EndSimulation
  may_notify,
  thread,           \* per thread: where its call is, [pc, time]
  outgoing,         \* outgoing_messages: [id, time]
  owed,             \* those of them the current drain has yet to take
  input_queue,      \* numbers of the packets delivered, oldest first
  wire,             \* send times of the SendPackets of this slice
  sent, delivered, popped,  \* packets sent, delivered by the coordinator, taken
  notified,         \* recv_callback was called since a thread last slept
  seen,             \* per thread, the last application time it saw
  jitter,           \* how late the current expiry was handled, as freeze_time logs it
  late,             \* history: sum of how late every expiry was handled
  cause             \* history: why the simulation ended, or "none"

timeVars == <<app_offset, sim_offset, at_deadline, current_deadline,
              prev_deadline, next_deadline>>
handlerVars == <<hpc, host, first, freeze, jitter, now, goal, may_notify>>
queueVars == <<input_queue, delivered, popped, notified>>
sendVars == <<outgoing, owed, wire, sent>>
vars == <<clock, timeVars, timer, stopped, start_once, handlerVars, thread,
          sendVars, queueVars, seen, late, cause>>

Idle == [pc |-> "idle", time |-> 0]

(* timer::create: a timer of CLOCK_MONOTONIC, not armed.                   *)
timer_create == timer = NoTimer

Init ==
  /\ clock = 0
  /\ app_offset = 0
  /\ sim_offset = 0
  /\ at_deadline = TRUE
  /\ current_deadline = 0
  /\ prev_deadline = 0
  /\ next_deadline = 0
  /\ timer_create
  /\ stopped = TRUE
  /\ start_once = FALSE
  /\ hpc = "idle"
  /\ host \in Threads
  /\ first = FALSE
  /\ freeze = 0 /\ jitter = 0 /\ now = 0 /\ goal = 0
  /\ may_notify = FALSE
  /\ thread = [t \in Threads |-> Idle]
  /\ outgoing = {} /\ owed = {}
  /\ input_queue = <<>>
  /\ wire = {}
  /\ sent = 0 /\ delivered = 0 /\ popped = 0
  /\ notified = FALSE
  /\ seen = [t \in Threads |-> 0]
  /\ late = 0
  /\ cause = "none"

Tick ==
  /\ clock < MaxClock
  /\ clock' = clock + 1
  /\ UNCHANGED <<timeVars, timer, stopped, start_once, handlerVars, thread,
                 sendVars, queueVars, seen, late, cause>>

(* A thread can make a step of its own.                                    *)
Runs(t) == hpc = "idle" \/ (t # host /\ hpc # "aborted")

Goes(t, pc, time) == thread' = [thread EXCEPT ![t] = [pc |-> pc, time |-> time]]

-----------------------------------------------------------------------------
(* Context::send calls simulation_now, which looks at the flag first.      *)
send(t) ==
  /\ Runs(t)
  /\ thread[t].pc = "idle"
  /\ sent < MaxSends
  /\ Goes(t, IF at_deadline THEN "panicked" ELSE "stamp", 0)
  /\ UNCHANGED <<clock, timeVars, timer, stopped, start_once, handlerVars,
                 sendVars, queueVars, seen, late, cause>>

(* simulation_now: clock and offset, in one read of the SeqLock.           *)
simulation_now(t) ==
  /\ Runs(t)
  /\ thread[t].pc = "stamp"
  /\ Goes(t, "insert", clock + sim_offset)
  /\ UNCHANGED <<clock, timeVars, timer, stopped, start_once, handlerVars,
                 sendVars, queueVars, seen, late, cause>>

(* The message is built and inserted, whatever happened since the stamp.   *)
SendInsert(t) ==
  /\ Runs(t)
  /\ thread[t].pc = "insert"
  /\ outgoing' = outgoing \cup {[id |-> sent, time |-> thread[t].time]}
  /\ sent' = sent + 1
  /\ Goes(t, "idle", 0)
  /\ UNCHANGED <<clock, timeVars, timer, stopped, start_once, handlerVars, owed,
                 wire, queueVars, seen, late, cause>>

(* NoMemoryAvailable or SizeTooBig.                                        *)
SendError(t) ==
  /\ Runs(t)
  /\ thread[t].pc = "insert"
  /\ Goes(t, "idle", 0)
  /\ UNCHANGED <<clock, timeVars, timer, stopped, start_once, handlerVars,
                 sendVars, queueVars, seen, late, cause>>

(* The mutex of current_deadline is free.                                  *)
Unlocked == \A t \in Threads : thread[t].pc # "locked"

(* Context::gettimeofday: application_now looks at the flag first, and     *)
(* takes the mutex when the time is frozen.                                *)
gettimeofday(t) ==
  /\ Runs(t)
  /\ thread[t].pc = "idle"
  /\ at_deadline => Unlocked
  /\ Goes(t, IF at_deadline THEN "locked" ELSE "gettime", 0)
  /\ UNCHANGED <<clock, timeVars, timer, stopped, start_once, handlerVars,
                 sendVars, queueVars, seen, late, cause>>

(* The frozen time is read and the mutex released.                         *)
FrozenNow(t) ==
  /\ Runs(t)
  /\ thread[t].pc = "locked"
  /\ seen' = [seen EXCEPT ![t] = current_deadline]
  /\ Goes(t, "idle", 0)
  /\ UNCHANGED <<clock, timeVars, timer, stopped, start_once, handlerVars,
                 sendVars, queueVars, late, cause>>

application_now(t) ==
  /\ Runs(t)
  /\ thread[t].pc = "gettime"
  /\ seen' = [seen EXCEPT ![t] = clock + app_offset]
  /\ Goes(t, "idle", 0)
  /\ UNCHANGED <<clock, timeVars, timer, stopped, start_once, handlerVars,
                 sendVars, queueVars, late, cause>>

(* Context::recv pops a packet, and drops it once it is copied or found    *)
(* too big for the caller.                                                 *)
recv(t) ==
  /\ Runs(t)
  /\ thread[t].pc = "idle"
  /\ input_queue # <<>>
  /\ input_queue' = Tail(input_queue)
  /\ popped' = popped + 1
  /\ Goes(t, "copy", 0)
  /\ UNCHANGED <<clock, timeVars, timer, stopped, start_once, handlerVars,
                 sendVars, delivered, notified, seen, late, cause>>

RecvDrop(t) ==
  /\ Runs(t)
  /\ thread[t].pc = "copy"
  /\ Goes(t, "idle", 0)
  /\ UNCHANGED <<clock, timeVars, timer, stopped, start_once, handlerVars,
                 sendVars, queueVars, seen, late, cause>>

(* recv or poll finds the queue empty; the application then sleeps until   *)
(* recv_callback has been called.                                          *)
poll(t) ==
  /\ Runs(t)
  /\ thread[t].pc = "idle"
  /\ input_queue = <<>>
  /\ Goes(t, "asleep", 0)
  /\ UNCHANGED <<clock, timeVars, timer, stopped, start_once, handlerVars,
                 sendVars, queueVars, seen, late, cause>>

WakeUp(t) ==
  /\ Runs(t)
  /\ thread[t].pc = "asleep"
  /\ notified
  /\ notified' = FALSE
  /\ Goes(t, "idle", 0)
  /\ UNCHANGED <<clock, timeVars, timer, stopped, start_once, handlerVars,
                 sendVars, input_queue, delivered, popped, seen, late, cause>>

(* Context::stop spins on the flag.                                        *)
stop(t) ==
  /\ Runs(t)
  /\ thread[t].pc = "idle"
  /\ Goes(t, "stopping", 0)
  /\ UNCHANGED <<clock, timeVars, timer, stopped, start_once, handlerVars,
                 sendVars, queueVars, seen, late, cause>>

StopReturn(t) ==
  /\ Runs(t)
  /\ thread[t].pc = "stopping"
  /\ stopped
  /\ Goes(t, "idle", 0)
  /\ UNCHANGED <<clock, timeVars, timer, stopped, start_once, handlerVars,
                 sendVars, queueVars, seen, late, cause>>

-----------------------------------------------------------------------------
(* Every message of the coordinator is read into a buffer of the input     *)
(* pool, which a packet keeps until the application has dropped it.        *)
InputBuffersUsed ==
  Len(input_queue) + Cardinality({t \in Threads : thread[t].pc = "copy"})

CanReceive == InputBuffersUsed < NumBuffers

(* start or deadline_handler returns; its local variables are gone.        *)
Return ==
  /\ hpc' = "idle"
  /\ first' = FALSE
  /\ freeze' = 0 /\ jitter' = 0 /\ now' = 0 /\ goal' = 0
  /\ may_notify' = FALSE

(* Context::start: the first deadline comes before anything else.          *)
start(t) ==
  /\ Runs(t)
  /\ thread[t].pc = "idle"
  /\ ~start_once
  /\ start_once' = TRUE
  /\ hpc' = "startrecv"
  /\ host' = t
  /\ first' = TRUE
  /\ UNCHANGED <<clock, timeVars, timer, stopped, freeze, jitter, now, goal,
                 may_notify, thread, sendVars, queueVars, seen, late, cause>>

StartGotoDeadline ==
  /\ hpc = "startrecv"
  /\ CanReceive
  /\ \E l \in Lengths : goal' = next_deadline + l
  /\ stopped' = FALSE
  /\ hpc' = "thaw"
  /\ UNCHANGED <<clock, timeVars, timer, start_once, host, first, freeze,
                 jitter, now, may_notify, thread, sendVars, queueVars, seen,
                 late, cause>>

(* Another message, or none: start fails.                                  *)
StartError ==
  /\ hpc = "startrecv"
  /\ Return
  /\ cause' = "start"
  /\ UNCHANGED <<clock, timeVars, timer, stopped, start_once, host, thread,
                 sendVars, queueVars, seen, late>>

-----------------------------------------------------------------------------
(* The timer has expired; sooner or later the kernel runs deadline_handler *)
(* on some thread.                                                         *)
deadline_handler ==
  /\ hpc = "idle"
  /\ timer # NoTimer
  /\ timer <= clock
  /\ hpc' = "freeze"
  /\ host' \in Threads
  /\ UNCHANGED <<clock, timeVars, timer, stopped, start_once, first, freeze,
                 jitter, now, goal, may_notify, thread, sendVars, queueVars,
                 seen, late, cause>>

(* freeze_time reads the clock for the elapsed time ...                    *)
freeze_time ==
  /\ hpc = "freeze"
  /\ freeze' = clock
  /\ jitter' = clock - timer
  /\ late' = late + jitter'
  /\ timer' = NoTimer
  /\ hpc' = "freeze_app"
  /\ UNCHANGED <<clock, timeVars, stopped, start_once, host, first, now, goal,
                 may_notify, thread, sendVars, queueVars, seen, cause>>

(* ... and again for the application time it freezes, under the mutex ...  *)
FreezeApp ==
  /\ hpc = "freeze_app"
  /\ Unlocked
  /\ current_deadline' = clock + app_offset
  /\ hpc' = "freeze_flag"
  /\ UNCHANGED <<clock, app_offset, sim_offset, at_deadline, prev_deadline,
                 next_deadline, timer, stopped, start_once, host, first, freeze,
                 jitter, now, goal, may_notify, thread, sendVars, queueVars,
                 seen, late, cause>>

(* ... and raises the flag.  at_deadline is called and starts to drain.    *)
FreezeFlag ==
  /\ hpc = "freeze_flag"
  /\ at_deadline' = TRUE
  /\ owed' = outgoing
  /\ hpc' = "drain"
  /\ UNCHANGED <<clock, app_offset, sim_offset, current_deadline, prev_deadline,
                 next_deadline, timer, stopped, start_once, host, first, freeze,
                 jitter, now, goal, may_notify, thread, outgoing, wire, sent,
                 queueVars, seen, late, cause>>

(* Mutant: the stamp is sent as it is.                                     *)
FixedTimeAsStamped(m) == m.time

(* A message stamped before the previous deadline and inserted after it    *)
(* gets the previous deadline as its time.                                 *)
FixedTime(m) == IF m.time < prev_deadline THEN prev_deadline ELSE m.time

(* Mutant: the slot of a message sent stays on the list of the drain.      *)
TakeAndStay(m) ==
  /\ hpc = "drain"
  /\ outgoing' = outgoing \ {m}
  /\ UNCHANGED <<clock, timeVars, timer, stopped, start_once, host, first,
                 freeze, jitter, now, goal, may_notify, thread, owed, sent,
                 queueVars, seen, late>>

Take(m) ==
  /\ hpc = "drain"
  /\ outgoing' = outgoing \ {m}
  /\ owed' = owed \ {m}
  /\ UNCHANGED <<clock, timeVars, timer, stopped, start_once, host, first,
                 freeze, jitter, now, goal, may_notify, thread, sent, queueVars,
                 seen, late>>

SendPacket(m) ==
  /\ Take(m)
  /\ FixedTime(m) <= next_deadline
  /\ wire' = wire \cup {FixedTime(m)}
  /\ UNCHANGED <<hpc, cause>>

(* The stamp is beyond the deadline, or the socket refuses the message.    *)
SendAbort(m) ==
  /\ Take(m)
  /\ cause' \in IF FixedTime(m) <= next_deadline THEN {"write"} ELSE {"late"}
  /\ hpc' = "end"
  /\ UNCHANGED wire

SendAtDeadline ==
  /\ hpc = "drain"
  /\ owed = {}
  /\ \/ hpc' = "notify" /\ UNCHANGED cause
     \/ hpc' = "end" /\ cause' = "write"
  /\ UNCHANGED <<clock, timeVars, timer, stopped, start_once, host, first,
                 freeze, jitter, now, goal, may_notify, thread, sendVars,
                 queueVars, seen, late>>

MayNotify ==
  /\ hpc = "notify"
  /\ may_notify' = (input_queue = <<>>)
  /\ hpc' = "recv"
  /\ UNCHANGED <<clock, timeVars, timer, stopped, start_once, host, first,
                 freeze, jitter, now, goal, thread, sendVars, queueVars, seen,
                 late, cause>>

(* Mutant: the queue is taken for full one packet early.                   *)
DeliverPacketShort ==
  /\ hpc = "recv"
  /\ CanReceive
  /\ delivered < MaxPackets
  /\ delivered' = delivered + 1
  /\ input_queue' = IF Len(input_queue) < NumBuffers - 1
                    THEN Append(input_queue, delivered + 1) ELSE input_queue
  /\ UNCHANGED <<clock, timeVars, timer, stopped, start_once, handlerVars,
                 thread, sendVars, popped, notified, seen, late, cause>>

(* handle_actor_msg, DeliverPacket: queued, or dropped if the queue is     *)
(* full.                                                                   *)
DeliverPacket ==
  /\ hpc = "recv"
  /\ CanReceive
  /\ delivered < MaxPackets
  /\ delivered' = delivered + 1
  /\ input_queue' = IF Len(input_queue) < NumBuffers
                    THEN Append(input_queue, delivered + 1) ELSE input_queue
  /\ UNCHANGED <<clock, timeVars, timer, stopped, start_once, handlerVars,
                 thread, sendVars, popped, notified, seen, late, cause>>

GotoDeadline ==
  /\ hpc = "recv"
  /\ CanReceive
  /\ \E l \in Lengths : goal' = next_deadline + l
  /\ wire' = {}
  /\ hpc' = "callback"
  /\ UNCHANGED <<clock, timeVars, timer, stopped, start_once, host, first,
                 freeze, jitter, now, may_notify, thread, outgoing, owed, sent,
                 queueVars, seen, late, cause>>

(* EndSimulation, a broken connection, or no buffer for the next message.  *)
RecvEnd ==
  /\ hpc = "recv"
  /\ cause' \in {"read"} \cup IF CanReceive THEN {"told"} ELSE {"nobuffer"}
  /\ goal' = EndSimulation
  /\ hpc' = "callback"
  /\ UNCHANGED <<clock, timeVars, timer, stopped, start_once, host, first,
                 freeze, jitter, now, may_notify, thread, sendVars, queueVars,
                 seen, late>>

(* Mutant: the callback is forgotten when the simulation ends.             *)
CallbacksUnlessEnd ==
  /\ hpc = "callback"
  /\ IF may_notify /\ input_queue # <<>> /\ goal # EndSimulation
     THEN notified' = TRUE
     ELSE UNCHANGED notified
  /\ hpc' = IF goal = EndSimulation THEN "end" ELSE "thaw"
  /\ UNCHANGED <<clock, timeVars, timer, stopped, start_once, host, first,
                 freeze, jitter, now, goal, may_notify, thread, sendVars,
                 input_queue, delivered, popped, seen, late, cause>>

(* recv_callback, if the queue was empty before, then deadline_callback.   *)
Callbacks ==
  /\ hpc = "callback"
  /\ IF may_notify /\ input_queue # <<>>
     THEN notified' = TRUE
     ELSE UNCHANGED notified
  /\ hpc' = IF goal = EndSimulation THEN "end" ELSE "thaw"
  /\ UNCHANGED <<clock, timeVars, timer, stopped, start_once, host, first,
                 freeze, jitter, now, goal, may_notify, thread, sendVars,
                 input_queue, delivered, popped, seen, late, cause>>

(* Mutant: stop is not told of the end.                                    *)
StopTimeSilently ==
  /\ hpc = "end"
  /\ Return
  /\ UNCHANGED <<clock, timeVars, timer, stopped, start_once, host, thread,
                 sendVars, queueVars, seen, late, cause>>

(* deadline_handler after EndSimulation.                                   *)
StopTime ==
  /\ hpc = "end"
  /\ stopped' = TRUE
  /\ Return
  /\ UNCHANGED <<clock, timeVars, timer, start_once, host, thread, sendVars,
                 queueVars, seen, late, cause>>

-----------------------------------------------------------------------------
(* thaw_time_to_deadline: the deadlines move on and the clock is read ...  *)
thaw_time_to_deadline ==
  /\ hpc = "thaw"
  /\ prev_deadline' = next_deadline
  /\ next_deadline' = goal
  /\ now' = clock
  /\ hpc' = "thaw_app"
  /\ UNCHANGED <<clock, app_offset, sim_offset, at_deadline, current_deadline,
                 timer, stopped, start_once, host, first, freeze, jitter, goal,
                 may_notify, thread, sendVars, queueVars, seen, late, cause>>

(* Mutant: the time since the expiry of the timer is taken off.            *)
ThawAppSinceExpiry ==
  /\ hpc = "thaw_app"
  /\ first => Unlocked
  /\ app_offset' = IF first THEN current_deadline - clock
                   ELSE app_offset - (now - (freeze - jitter))
  /\ hpc' = "thaw_sim"
  /\ UNCHANGED <<clock, sim_offset, at_deadline, current_deadline,
                 prev_deadline, next_deadline, timer, stopped, start_once, host,
                 first, freeze, jitter, now, goal, may_notify, thread, sendVars,
                 queueVars, seen, late, cause>>

(* ... the time spent since freeze_time is taken off both offsets (start   *)
(* sets them, from a clock read of its own for the application time) ...   *)
ThawApp ==
  /\ hpc = "thaw_app"
  /\ first => Unlocked
  /\ app_offset' = IF first THEN current_deadline - clock ELSE app_offset - (now - freeze)
  /\ hpc' = "thaw_sim"
  /\ UNCHANGED <<clock, sim_offset, at_deadline, current_deadline,
                 prev_deadline, next_deadline, timer, stopped, start_once, host,
                 first, freeze, jitter, now, goal, may_notify, thread, sendVars,
                 queueVars, seen, late, cause>>

(* Mutant: the time spent in the handler stays in the simulated time.      *)
ThawSimUnadjusted ==
  /\ hpc = "thaw_sim"
  /\ sim_offset' = IF first THEN -now ELSE sim_offset
  /\ hpc' = "thaw_flag"
  /\ UNCHANGED <<clock, app_offset, at_deadline, current_deadline,
                 prev_deadline, next_deadline, timer, stopped, start_once, host,
                 first, freeze, jitter, now, goal, may_notify, thread, sendVars,
                 queueVars, seen, late, cause>>

(* Mutant: the clock is read once more.                                    *)
ThawSimAgain ==
  /\ hpc = "thaw_sim"
  /\ sim_offset' = IF first THEN -clock ELSE sim_offset - (clock - freeze)
  /\ hpc' = "thaw_flag"
  /\ UNCHANGED <<clock, app_offset, at_deadline, current_deadline,
                 prev_deadline, next_deadline, timer, stopped, start_once, host,
                 first, freeze, jitter, now, goal, may_notify, thread, sendVars,
                 queueVars, seen, late, cause>>

ThawSim ==
  /\ hpc = "thaw_sim"
  /\ sim_offset' = IF first THEN -now ELSE sim_offset - (now - freeze)
  /\ hpc' = "thaw_flag"
  /\ UNCHANGED <<clock, app_offset, at_deadline, current_deadline,
                 prev_deadline, next_deadline, timer, stopped, start_once, host,
                 first, freeze, jitter, now, goal, may_notify, thread, sendVars,
                 queueVars, seen, late, cause>>

(* Mutant: the flag stays up.                                              *)
ThawFlagForgotten ==
  /\ hpc = "thaw_flag"
  /\ hpc' = "settime"
  /\ UNCHANGED <<clock, timeVars, timer, stopped, start_once, host, first,
                 freeze, jitter, now, goal, may_notify, thread, sendVars,
                 queueVars, seen, late, cause>>

(* ... the flag is lowered ...                                             *)
ThawFlag ==
  /\ hpc = "thaw_flag"
  /\ at_deadline' = FALSE
  /\ hpc' = "settime"
  /\ UNCHANGED <<clock, app_offset, sim_offset, current_deadline, prev_deadline,
                 next_deadline, timer, stopped, start_once, host, first, freeze,
                 jitter, now, goal, may_notify, thread, sendVars, queueVars,
                 seen, late, cause>>

(* timer::settime: one expiry, at an absolute time of the clock.           *)
timer_settime(value) == timer' = value

(* ... and the timer is armed, as far from the clock read as the slice is  *)
(* long.                                                                   *)
settime ==
  /\ hpc = "settime"
  /\ timer_settime(now + (next_deadline - prev_deadline))
  /\ Return
  /\ UNCHANGED <<clock, timeVars, stopped, start_once, host, thread, sendVars,
                 queueVars, seen, late, cause>>

(* timer_settime fails: start returns the error, the handler panics and    *)
(* takes the process with it.                                              *)
SettimeError ==
  /\ hpc = "settime"
  /\ IF first THEN Return /\ stopped' = TRUE /\ cause' = "start"
     ELSE /\ hpc' = "aborted"
          /\ cause' = "panic"
          /\ UNCHANGED <<first, freeze, jitter, now, goal, may_notify, stopped>>
  /\ UNCHANGED <<clock, timeVars, timer, start_once, host, thread, sendVars,
                 queueVars, seen, late>>

ThreadStep(t) ==
  \/ send(t) \/ simulation_now(t) \/ SendInsert(t) \/ SendError(t)
  \/ gettimeofday(t) \/ FrozenNow(t) \/ application_now(t)
  \/ recv(t) \/ RecvDrop(t) \/ poll(t) \/ WakeUp(t)
  \/ stop(t) \/ StopReturn(t) \/ start(t)

HandlerStep ==
  \/ StartGotoDeadline \/ StartError
  \/ freeze_time \/ FreezeApp \/ FreezeFlag
  \/ (\E m \in outgoing : SendPacket(m) \/ SendAbort(m))
  \/ SendAtDeadline \/ MayNotify \/ GotoDeadline \/ RecvEnd
  \/ Callbacks \/ StopTime
  \/ thaw_time_to_deadline \/ ThawApp \/ ThawSim \/ ThawFlag \/ settime
  \/ SettimeError

Next ==
  \/ Tick
  \/ \E t \in Threads : ThreadStep(t)
  \/ deadline_handler
  \/ HandlerStep
  \/ DeliverPacket

Spec == Init /\ [][Next]_vars

(* The clock advances, the kernel delivers the signal of an expired timer, *)
(* the handler is not descheduled for ever, the coordinator answers it     *)
(* after finitely many packets, and a thread inside a call goes on.        *)
Fairness ==
  /\ WF_vars(Tick)
  /\ WF_vars(deadline_handler)
  /\ WF_vars(HandlerStep)
  /\ \A t \in Threads : WF_vars(StopReturn(t))

FairSpec == Spec /\ Fairness

-----------------------------------------------------------------------------
HandlerPC ==
  {"idle", "startrecv", "freeze", "freeze_app", "freeze_flag", "drain", "notify", "recv",
   "callback", "end", "thaw", "thaw_app", "thaw_sim", "thaw_flag", "settime", "aborted"}

ThreadPC ==
  {"idle", "stamp", "insert", "gettime", "locked", "copy", "asleep", "stopping", "panicked"}

Causes == {"none", "start", "late", "write", "told", "read", "nobuffer", "panic"}

TypeOK ==
  /\ clock \in Nat
  /\ app_offset \in Int /\ sim_offset \in Int
  /\ at_deadline \in BOOLEAN
  /\ current_deadline \in Int
  /\ prev_deadline \in Nat /\ next_deadline \in Nat
  /\ timer \in Nat \cup {NoTimer}
  /\ stopped \in BOOLEAN /\ start_once \in BOOLEAN
  /\ hpc \in HandlerPC
  /\ host \in Threads
  /\ first \in BOOLEAN
  /\ freeze \in Nat /\ jitter \in Nat /\ now \in Nat
  /\ goal \in Nat \cup {EndSimulation}
  /\ may_notify \in BOOLEAN
  /\ thread \in [Threads -> [pc : ThreadPC, time : Nat]]
  /\ outgoing \subseteq [id : Nat, time : Nat] /\ owed \subseteq outgoing
  /\ input_queue \in Seq(1..MaxPackets)
  /\ wire \subseteq Nat
  /\ sent \in 0..MaxSends + Cardinality(Threads)
  /\ delivered \in 0..MaxPackets /\ popped \in 0..MaxPackets
  /\ notified \in BOOLEAN
  /\ seen \in [Threads -> Int]
  /\ late \in Nat
  /\ cause \in Causes

(* Towards the coordinator the client behaves as VmContract says.  A new   *)
(* deadline counts from the moment it is received.                         *)
Told == hpc \in {"callback", "thaw"} /\ goal # EndSimulation

Slice ==
  IF cause # "none" THEN "ended"
  ELSE IF ~start_once \/ hpc = "startrecv" THEN "init"
  ELSE IF hpc \in {"notify", "recv"} THEN "reached" ELSE "running"

Prev == IF Told THEN next_deadline ELSE prev_deadline
Deadline == IF Told THEN goal ELSE next_deadline

Contract == INSTANCE VmContract
  WITH slice <- Slice, prev <- Prev, deadline <- Deadline, sends <- wire

ImplementsVmContract == Contract!Spec

(* Simulated time at the expiry of the timer is the deadline plus all the  *)
(* lateness so far: freeze_time and thaw_time_to_deadline take the time    *)
(* spent in the handler off the clock exactly, and never take back the     *)
(* time by which an expiry was handled late.                               *)
TimerKeepsDeadline ==
  timer # NoTimer => timer + sim_offset = next_deadline + late

(* The application gets every packet delivered by the coordinator exactly  *)
(* once and in order: handle_actor_msg never drops one for a full queue.   *)
InputInOrder ==
  /\ popped + Len(input_queue) = delivered
  /\ \A i \in 1..Len(input_queue) : input_queue[i] = popped + i

(* An application that sleeps until recv_callback is called never sleeps   *)
(* with packets in the queue, although at_deadline decides whether to call *)
(* it before it has received anything.                                     *)
NoLostWakeup ==
  hpc = "idle" /\ input_queue # <<>> /\ (\E t \in Threads : thread[t].pc = "asleep")
    => notified

(* Between a successful start and the end of the simulation, a call of     *)
(* send runs into the panic of simulation_now only when another thread     *)
(* makes it while the handler runs.                                        *)
Running == start_once /\ ~first /\ cause = "none"

NoPanicWhileRunning ==
  [][\A t \in Threads :
       Running /\ hpc = "idle" /\ thread'[t].pc = "panicked"
         => thread[t].pc = "panicked"]_vars

(* While the simulation runs, the application time a thread sees never     *)
(* steps back.                                                             *)
ApplicationTimeMonotonic ==
  [][\A t \in Threads : cause = "none" => seen'[t] >= seen[t]]_vars

(* With one thread, at_deadline aborts for a send time beyond the deadline *)
(* only if some expiry of the timer, of this slice or of an earlier one,   *)
(* was handled late.                                                       *)
AbortOnlyAfterLateness ==
  [][cause = "none" /\ cause' = "late" => late > 0]_vars

(* A client whose timer is armed reaches its deadline, sends what it owes  *)
(* and says so, or the simulation ends: deadline_handler runs and the      *)
(* drain of at_deadline comes to an end.                                   *)
DeadlineIsReached ==
  timer \in 0..MaxClock ~> hpc = "notify" \/ cause # "none"

(* stop returns once the simulation has ended, also when start failed to   *)
(* arm the timer; a panic of the handler takes the whole process.          *)
StopReturns ==
  \A t \in Threads :
    thread[t].pc = "stopping" /\ cause \notin {"none", "panic"}
      ~> thread[t].pc # "stopping"

(* The handler never interrupts a thread that holds the mutex of           *)
(* current_deadline, which freeze_time would then wait for for ever: in an *)
(* application with one thread it is "read by application code but only    *)
(* when called by the deadline handler" (process.rs).                      *)
HandlerCanLock == hpc = "freeze_app" => thread[host].pc # "locked"
=============================================================================
