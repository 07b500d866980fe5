------------------------------ MODULE VmClient ------------------------------
(***************************************************************************)
(* The client library in a virtual machine monitor: Context (lib.rs) with  *)
(* the timer of timer/qemu (a QEMU timer on the virtual clock of an        *)
(* emulated machine) or of timer/qemukvm (the VMX preemption timer, set    *)
(* through a kernel module).  Unlike in a process, nothing freezes the     *)
(* time during the deadline handler.                                       *)
(*                                                                         *)
(* With qemu the handler may run at any point of a send.  With qemukvm the *)
(* thread of the virtual CPU does both, in turn; but the timer expires     *)
(* only while the guest runs, so that the emulation of the network card    *)
(* may take a message beyond the deadline.  Such messages wait in          *)
(* upcoming_messages.  One thread sends, as the monitor's lock has it.     *)
(***************************************************************************)
EXTENDS Integers, Sequences, FiniteSets

CONSTANTS
  Backends,    \* among "qemu" and "qemukvm"
  Lengths,     \* lengths of the time slices, in nanoseconds
  FreqNum, FreqDen, \* tsc_freq: ticks of the guest's TSC per nanosecond
  BootTimes,   \* what the clock of the machine may say when the library is initialised
  MaxClock,    \* bound: clock
  MaxSends     \* bound: packets sent

ASSUME BackendsAssumption == Backends \subseteq {"qemu", "qemukvm"}
ASSUME FreqAssumption == FreqNum \in Nat \ {0} /\ FreqDen \in Nat \ {0}
ASSUME LengthsAssumption == Lengths \subseteq Nat /\ BootTimes \subseteq Nat

VARIABLES
  backend,
  clock,        \* qemu: QEMU_CLOCK_VIRTUAL; qemukvm: the TSC of the guest
  offset,       \* qemu: the clock at start
  prev_deadline, next_deadline,
  timer,        \* qemu: when the timer expires; qemukvm: vmx_timer_value
  hpc,          \* where the simulation is
  context,      \* the application holds the Context
  refs,         \* strong references to TimerContextInner
  sender,       \* the send in progress: where it is, its time stamp
  outgoing,     \* outgoing_messages: [id, time]
  owed,         \* those of them the current drain has yet to take
  upcoming,     \* time stamps of upcoming_messages
  wire,         \* send times of the SendPackets of this slice
  sent,         \* packets sent
  cause,        \* history: why the simulation ended, or "none"
  tardy         \* history: a stamp was taken before start or after the timer was due

timeVars == <<clock, offset, prev_deadline, next_deadline, timer>>
lifeVars == <<context, refs>>
msgVars == <<sender, outgoing, owed, upcoming, wire, sent, tardy>>
vars == <<backend, timeVars, hpc, lifeVars, msgVars, cause>>

Kvm == backend = "qemukvm"
Idle == [pc |-> "out", time |-> 0]
Started == hpc \in {"running", "draining", "flushing", "reached"}

Larger(a, b) == IF a < b THEN b ELSE a

Init ==
  /\ backend \in Backends
  /\ clock \in BootTimes
  /\ offset = 0
  /\ prev_deadline = 0 /\ next_deadline = 0
  /\ timer = 0
  /\ hpc = "init"
  /\ context = TRUE
  /\ refs = 1
  /\ sender = Idle
  /\ outgoing = {} /\ owed = {} /\ upcoming = <<>>
  /\ wire = {}
  /\ sent = 0
  /\ cause = "none"
  /\ tardy = FALSE

-----------------------------------------------------------------------------
(* Nanoseconds in ticks and ticks in nanoseconds, cut off as `as u64` does. *)
ToTsc(ns) == (ns * FreqNum) \div FreqDen
ToNs(tsc) == (tsc * FreqDen) \div FreqNum

(* qemu: simulation_now at clock c.                                        *)
QemuNow(c) == c - offset

(* qemukvm: the deadline in both scales gives the offset.  The subtractions *)
(* wrap around and cancel out; a negative time, and any before start, when *)
(* tsc_freq is 0, becomes 0.                                               *)
KvmNow(c) ==
  IF hpc = "init" THEN 0
  ELSE Larger(0, ToNs(c) - (ToNs(timer) - next_deadline))

simulation_now(c) == IF Kvm THEN KvmNow(c) ELSE QemuNow(c)

(* Mutant: the timer is set for a whole slice from now.                    *)
QemuTimerFromNow(deadline, from) == clock + (deadline - next_deadline)

(* qemu: timer_mod gets the deadline on the virtual clock, from the offset. *)
QemuTimer(deadline, from) == from + deadline

(* qemukvm: ioctl_register_deadline with the length of the slice in ticks; *)
(* the timer is set that many ticks after it last expired, or after now.   *)
KvmTimer(deadline, from) == from + ToTsc(deadline - next_deadline)

set_next_deadline(deadline, expiry) ==
  /\ prev_deadline' = next_deadline
  /\ next_deadline' = deadline
  /\ timer' = expiry

(* Mutant: the timer holds no reference.                                   *)
StartRefsNone == refs

(* The QEMU timer gets a reference of its own.                             *)
StartRefs == refs + 1

(* start, after the first GoToDeadline.                                    *)
QemuStart(length) ==
  /\ ~Kvm /\ context
  /\ hpc = "init"
  /\ hpc' = "running"
  /\ refs' = StartRefs
  /\ offset' = clock
  /\ set_next_deadline(length, QemuTimer(length, clock))
  /\ UNCHANGED <<backend, clock, context, msgVars, cause>>

(* It panics when the kernel module is not ready.                          *)
KvmStart(length) ==
  /\ Kvm /\ context
  /\ hpc = "init"
  /\ \/ /\ hpc' = "running"
        /\ set_next_deadline(length, KvmTimer(length, clock))
        /\ UNCHANGED cause
     \/ /\ hpc' = "panicked"
        /\ cause' = "module"
        /\ UNCHANGED <<prev_deadline, next_deadline, timer>>
  /\ UNCHANGED <<backend, clock, offset, lifeVars, msgVars>>

(* stop: the timer is deleted, which waits for the handler, and its        *)
(* reference is dropped.                                                   *)
QemuStop ==
  /\ ~Kvm /\ context
  /\ hpc \in {"running", "ended"}
  /\ hpc' = "stopped"
  /\ refs' = refs - 1
  /\ UNCHANGED <<backend, timeVars, context, msgVars, cause>>

(* The device is closed and a reference dropped too, although start took   *)
(* none: the Context is left with a TimerContext that is freed.            *)
KvmStop ==
  /\ Kvm /\ context
  /\ hpc = "running"
  /\ sender.pc = "out"
  /\ hpc' = "stopped"
  /\ refs' = refs - 1
  /\ UNCHANGED <<backend, timeVars, context, msgVars, cause>>

(* vsg_cleanup drops the Context and with it a reference to the timer      *)
(* (there is none left, and the behaviour is undefined, after KvmStop).    *)
Cleanup ==
  /\ context
  /\ hpc \in {"init", "running", "ended", "stopped"}
  /\ sender.pc = "out"
  /\ context' = FALSE
  /\ refs > 0
  /\ refs' = refs - 1
  /\ UNCHANGED <<backend, timeVars, hpc, msgVars, cause>>

-----------------------------------------------------------------------------
(* Time passes.  The guest does not run past the preemption timer, but the *)
(* emulation of a device does.                                             *)
Tick ==
  /\ clock < MaxClock
  /\ Kvm /\ hpc = "running" => clock < timer \/ sender.pc # "out"
  /\ hpc \notin {"stopped", "ended", "panicked"}
  /\ clock' = clock + 1
  /\ UNCHANGED <<backend, offset, prev_deadline, next_deadline, timer, hpc, lifeVars, msgVars,
                 cause>>

(* With qemukvm a send and the handler run on one thread.                  *)
MaySend == Kvm => hpc \in {"init", "running"}

(* The emulated network card has a packet to send.                         *)
Emulate ==
  /\ context
  /\ hpc \in {"init"} \/ Started
  /\ MaySend
  /\ sender.pc = "out"
  /\ sent < MaxSends
  /\ sender' = [pc |-> "emulating", time |-> 0]
  /\ sent' = sent + 1
  /\ UNCHANGED <<backend, timeVars, hpc, lifeVars, outgoing, owed, upcoming, wire, tardy, cause>>

(* Context::send takes its time stamp, and allocates a buffer.             *)
Stamp ==
  /\ MaySend
  /\ sender.pc = "emulating"
  /\ sender' = [pc |-> "stamped", time |-> simulation_now(clock)]
  /\ tardy' = (tardy \/ hpc = "init" \/ clock > timer)
  /\ UNCHANGED <<backend, timeVars, hpc, lifeVars, outgoing, owed, upcoming, wire, sent, cause>>

(* Mutant: the message keeps its time stamp whatever is in the FIFO.       *)
OverrunTimeAsStamped(time) == time

(* check_deadline_overrun: not before the last message of the FIFO.        *)
OverrunTime(time) ==
  IF upcoming = <<>> THEN time ELSE Larger(time, upcoming[Len(upcoming)])

(* Mutant: the message is never found late.                                *)
OverrunNever(time) == FALSE

Overrun(time) == Kvm /\ time > next_deadline

(* The message goes to the FIFO or to the set.                             *)
Finish ==
  LET time == sender.time IN
  /\ MaySend
  /\ sender.pc = "stamped"
  /\ sender' = Idle
  /\ IF Overrun(time)
     THEN /\ upcoming' = Append(upcoming, OverrunTime(time))
          /\ UNCHANGED outgoing
     ELSE /\ outgoing' = outgoing \cup {[id |-> sent, time |-> time]}
          /\ UNCHANGED upcoming
  /\ UNCHANGED <<backend, timeVars, hpc, lifeVars, owed, wire, sent, tardy, cause>>

-----------------------------------------------------------------------------
(* The simulation ends: nothing more with qemu, a panic with qemukvm.      *)
EndBecause(why) ==
  /\ hpc' = IF Kvm THEN "panicked" ELSE "ended"
  /\ cause' = why

(* The timer expires; at_deadline begins to drain the set.                 *)
Drain ==
  /\ hpc = "running"
  /\ clock >= timer
  /\ context
  /\ hpc' = "draining"
  /\ owed' = outgoing
  /\ UNCHANGED <<backend, timeVars, lifeVars, sender, outgoing, upcoming, wire, sent, tardy,
                 cause>>

(* deadline_handler, which does nothing once the Context is gone.          *)
QemuHandler ==
  /\ ~Kvm
  /\ \/ Drain
     \/ /\ hpc = "running"
        /\ clock >= timer
        /\ ~context
        /\ hpc' = "ended"
        /\ UNCHANGED <<backend, timeVars, lifeVars, msgVars, cause>>

(* It is handed the Context itself, and runs between two sends.            *)
KvmHandler == Kvm /\ sender.pc = "out" /\ Drain

(* Mutant: the time stamp is sent as it is.                                *)
FixedTimeAsStamped(time) == time

FixedTime(time) == Larger(time, prev_deadline)

(* at_deadline takes the next message of the set and sends it, unless it   *)
(* is beyond the deadline or the write fails.                              *)
SendPacket ==
  /\ hpc = "draining"
  /\ \E m \in outgoing :
       /\ outgoing' = outgoing \ {m}
       /\ owed' = owed \ {m}
       /\ \/ /\ m.time <= next_deadline
             /\ wire' = wire \cup {FixedTime(m.time)}
             /\ UNCHANGED <<hpc, cause>>
          \/ /\ EndBecause(IF m.time > next_deadline THEN "late" ELSE "write")
             /\ UNCHANGED wire
  /\ UNCHANGED <<backend, timeVars, lifeVars, sender, upcoming, sent, tardy>>

Drained ==
  /\ hpc = "draining"
  /\ owed = {}
  /\ hpc' = "flushing"
  /\ UNCHANGED <<backend, timeVars, lifeVars, msgVars, cause>>

Ready == upcoming # <<>> /\ Head(upcoming) <= next_deadline

(* A message of the FIFO whose time has come is sent.                      *)
SendUpcoming ==
  /\ hpc = "flushing"
  /\ Ready
  /\ upcoming' = Tail(upcoming)
  /\ \/ wire' = wire \cup {Head(upcoming)} /\ UNCHANGED <<hpc, cause>>
     \/ EndBecause("write") /\ UNCHANGED wire
  /\ UNCHANGED <<backend, timeVars, lifeVars, sender, outgoing, owed, sent, tardy>>

AtDeadline ==
  /\ hpc = "flushing"
  /\ ~Ready
  /\ \/ hpc' = "reached" /\ UNCHANGED cause
     \/ EndBecause("write")
  /\ UNCHANGED <<backend, timeVars, lifeVars, msgVars>>

(* GoToDeadline: the next slice.  With qemukvm the clock of the guest is   *)
(* set back to where the timer expired, or not as far.                     *)
NextDeadline(length) ==
  LET deadline == next_deadline + length IN
  /\ hpc = "reached"
  /\ hpc' = "running"
  /\ IF Kvm
     THEN set_next_deadline(deadline, KvmTimer(deadline, timer)) /\ clock' \in timer..clock
     ELSE set_next_deadline(deadline, QemuTimer(deadline, offset)) /\ UNCHANGED clock
  /\ wire' = {}
  /\ UNCHANGED <<backend, offset, lifeVars, sender, outgoing, owed, upcoming, sent, tardy, cause>>

(* EndSimulation, or an error in place of the next deadline.               *)
End ==
  /\ hpc = "reached"
  /\ EndBecause("end")
  /\ UNCHANGED <<backend, timeVars, lifeVars, msgVars>>

Next ==
  \/ \E length \in Lengths : QemuStart(length) \/ KvmStart(length) \/ NextDeadline(length)
  \/ QemuStop \/ KvmStop \/ Cleanup \/ Tick
  \/ Emulate \/ Stamp \/ Finish
  \/ QemuHandler \/ KvmHandler \/ SendPacket \/ Drained \/ SendUpcoming \/ AtDeadline \/ End

Spec == Init /\ [][Next]_vars

-----------------------------------------------------------------------------
TypeOK ==
  /\ backend \in Backends
  /\ clock \in Nat /\ offset \in Nat /\ timer \in Nat
  /\ prev_deadline \in Nat /\ next_deadline \in Nat
  /\ hpc \in {"init", "running", "draining", "flushing", "reached", "ended", "stopped",
             "panicked"}
  /\ context \in BOOLEAN /\ refs \in Nat
  /\ sender \in [pc : {"out", "emulating", "stamped"}, time : Nat]
  /\ outgoing \subseteq [id : Nat, time : Nat]
  /\ owed \subseteq outgoing
  /\ upcoming \in Seq(Nat)
  /\ wire \subseteq Nat
  /\ sent \in Nat
  /\ cause \in {"none", "module", "late", "write", "end"}
  /\ tardy \in BOOLEAN

(* What the coordinator knows of the simulation.                           *)
Slice ==
  IF hpc \in {"draining", "flushing"} THEN "running"
  ELSE IF hpc \in {"stopped", "panicked"} THEN "ended" ELSE hpc

Contract == INSTANCE VmContract WITH
  slice <- Slice, prev <- prev_deadline, deadline <- next_deadline, sends <- wire

(* To the coordinator a machine under QEMU keeps the contract of a client: *)
(* whatever time passes during a send or the handler, and wherever a       *)
(* message waited, its send time lies between the deadlines of the slice   *)
(* in which at_deadline sends it.                                          *)
ImplementsVmContract == Contract!Spec

(* Until the timer is due, simulation_now gives times of the current       *)
(* slice: late handlers of earlier slices do not add up (qemu), nor does   *)
(* what is cut off in converting nanoseconds to TSC ticks and back         *)
(* (qemukvm) take a time stamp before the previous deadline.               *)
StampsInSlice ==
  hpc = "running" /\ clock <= timer =>
    /\ prev_deadline <= simulation_now(clock)
    /\ simulation_now(clock) <= next_deadline

(* When a slice begins at_deadline has left no message of                  *)
(* upcoming_messages behind whose time has come, looking at the first one  *)
(* only: the FIFO is sorted although later messages may be stamped         *)
(* earlier.                                                                *)
HeldBackInOrder ==
  hpc = "running" =>
    \A i \in 1..Len(upcoming) :
      /\ upcoming[i] > prev_deadline
      /\ i > 1 => upcoming[i - 1] <= upcoming[i]

(* at_deadline gives up the simulation over a send time "beyond            *)
(* current_deadline" only with qemu and only when a stamp was taken before *)
(* start or when the timer was overdue; never with qemukvm, whose          *)
(* check_deadline_overrun keeps such messages out of the set.              *)
AbortOnlyWhenLate == cause = "late" => ~Kvm /\ tardy

(* With qemu the references to the timer are those of the Context and of   *)
(* the QEMU timer between start and stop: the timer never calls            *)
(* deadline_handler on freed memory, even after vsg_cleanup, and stop and  *)
(* vsg_cleanup leave nothing behind.                                       *)
TimerReferenced ==
  ~Kvm => refs = (IF context THEN 1 ELSE 0) + (IF hpc \in {"init", "stopped"} THEN 0 ELSE 1)
=============================================================================
