--------------------------- MODULE VmClient_proofs ---------------------------
(***************************************************************************)
(* Proofs about VmClient: the client of a virtual machine keeps VmContract *)
(* for all slices, frequencies, clocks and numbers of packets.             *)
(***************************************************************************)
EXTENDS VmClient, TLAPS

(* The FIFO is sorted and holds nothing that should have been sent.        *)
FifoInv ==
  /\ \A i \in 1..Len(upcoming), j \in 1..Len(upcoming) : i <= j => upcoming[i] <= upcoming[j]
  /\ hpc = "init" => upcoming = <<>>
  /\ Started => \A i \in 1..Len(upcoming) : upcoming[i] > prev_deadline
  /\ hpc = "reached" => \A i \in 1..Len(upcoming) : upcoming[i] > next_deadline

DeadlineInv ==
  /\ prev_deadline <= next_deadline
  /\ hpc = "init" => /\ prev_deadline = 0 /\ next_deadline = 0
                     /\ wire = {}
                     /\ Kvm => sender.time = 0

(* The timer of qemu is due at the deadline, however late the handlers.    *)
ClockInv ==
  ~Kvm => /\ offset <= clock
          /\ hpc # "init" => timer = offset + next_deadline

RefsInv ==
  /\ TimerReferenced
  /\ Kvm => refs = IF context /\ hpc # "stopped" THEN 1 ELSE 0

(* What is stamped beyond the deadline is tardy and not with qemukvm.      *)
LateInv ==
  /\ AbortOnlyWhenLate
  /\ \A m \in outgoing : m.time > next_deadline => ~Kvm /\ tardy
  /\ ~Kvm /\ sender.pc = "stamped" /\ sender.time > next_deadline => tardy

IInv == TypeOK /\ FifoInv /\ DeadlineInv /\ ClockInv /\ RefsInv /\ LateInv

(* The conversions give natural numbers.                                   *)
LEMMA ConvertNat == ASSUME NEW n \in Nat PROVE ToTsc(n) \in Nat /\ ToNs(n) \in Nat
<1>1. n * FreqNum \in Nat /\ n * FreqDen \in Nat
  BY FreqAssumption
<1>2. \A a \in Nat, b \in Nat \ {0} : a \div b \in Nat
  OBVIOUS
<1> QED
  BY <1>1, <1>2, FreqAssumption DEF ToTsc, ToNs

LEMMA InitLemma == Init => IInv
<1> SUFFICES ASSUME Init PROVE IInv
  OBVIOUS
<1> USE DEF Init
<1>1. TypeOK
  <2>1. upcoming \in Seq(Nat)
    OBVIOUS
  <2>2. sender \in [pc : {"out", "emulating", "stamped"}, time : Nat]
    BY DEF Idle
  <2> QED
    BY <2>1, <2>2, LengthsAssumption DEF TypeOK
<1>2. FifoInv
  BY DEF FifoInv, Started
<1>3. DeadlineInv /\ ClockInv
  BY LengthsAssumption DEF DeadlineInv, ClockInv, Idle
<1>4. RefsInv
  BY DEF RefsInv, TimerReferenced
<1>5. LateInv
  BY DEF LateInv, AbortOnlyWhenLate, Idle
<1> QED
  BY <1>1, <1>2, <1>3, <1>4, <1>5 DEF IInv

(* The steps that leave a conjunct alone.                                  *)
LEMMA FifoKept ==
  ASSUME FifoInv, UNCHANGED <<upcoming, hpc, prev_deadline, next_deadline>>
  PROVE  FifoInv'
  BY DEF FifoInv, Started

LEMMA LateKept ==
  ASSUME LateInv, UNCHANGED <<backend, outgoing, sender, next_deadline, tardy, cause>>
  PROVE  LateInv'
  BY DEF LateInv, AbortOnlyWhenLate, Kvm

LEMMA RefsKept ==
  ASSUME RefsInv, UNCHANGED <<backend, context, refs>>,
         (hpc' = "init") <=> (hpc = "init"), (hpc' = "stopped") <=> (hpc = "stopped")
  PROVE  RefsInv'
  BY DEF RefsInv, TimerReferenced, Kvm

LEMMA QemuStartLemma ==
  ASSUME IInv, NEW length \in Lengths, QemuStart(length)
  PROVE  IInv'
<1> USE LengthsAssumption DEF IInv, QemuStart, set_next_deadline, QemuTimer, msgVars
<1>1. TypeOK'
  BY DEF TypeOK, StartRefs
<1>2. FifoInv'
  BY DEF FifoInv
<1>3. DeadlineInv' /\ ClockInv'
  BY DEF DeadlineInv, ClockInv, TypeOK, Kvm
<1>4. RefsInv'
  BY DEF RefsInv, TimerReferenced, StartRefs, Kvm
<1>5. LateInv'
  BY DEF LateInv, AbortOnlyWhenLate, DeadlineInv, TypeOK, Kvm
<1> QED
  BY <1>1, <1>2, <1>3, <1>4, <1>5

LEMMA KvmStartLemma ==
  ASSUME IInv, NEW length \in Lengths, KvmStart(length)
  PROVE  IInv'
<1> USE LengthsAssumption DEF IInv, KvmStart, set_next_deadline, msgVars, lifeVars
<1>1. next_deadline = 0 /\ prev_deadline = 0 /\ upcoming = <<>> /\ clock \in Nat
  BY DEF DeadlineInv, FifoInv, TypeOK
<1>2. KvmTimer(length, clock) \in Nat
  <2>1. length - next_deadline \in Nat
    BY <1>1
  <2>2. ToTsc(length - next_deadline) \in Nat
    BY <2>1, ConvertNat
  <2> QED
    BY <1>1, <2>2 DEF KvmTimer
<1>3. TypeOK'
  BY <1>1, <1>2 DEF TypeOK
<1>4. FifoInv'
  BY <1>1 DEF FifoInv
<1>5. DeadlineInv' /\ ClockInv'
  BY <1>1 DEF DeadlineInv, ClockInv, Kvm
<1>6. RefsInv'
  BY DEF RefsInv, TimerReferenced, Kvm
<1>7. LateInv'
  BY <1>1 DEF LateInv, AbortOnlyWhenLate, TypeOK, Kvm
<1> QED
  BY <1>3, <1>4, <1>5, <1>6, <1>7

LEMMA StopLemma == ASSUME IInv, QemuStop \/ KvmStop PROVE IInv'
<1> USE DEF IInv, QemuStop, KvmStop, timeVars, msgVars
<1>1. refs \in Nat \ {0}
  BY DEF RefsInv, TimerReferenced, TypeOK, Kvm
<1>2. TypeOK'
  <2>1. refs' \in Nat
    BY <1>1
  <2> QED
    BY <2>1 DEF TypeOK
<1>3. FifoInv'
  BY DEF FifoInv, Started
<1>4. DeadlineInv' /\ ClockInv'
  BY DEF DeadlineInv, ClockInv, Kvm
<1>5. RefsInv'
  BY <1>1 DEF RefsInv, TimerReferenced, Kvm
<1>6. LateInv'
  BY LateKept
<1> QED
  BY <1>2, <1>3, <1>4, <1>5, <1>6

LEMMA CleanupLemma == ASSUME IInv, Cleanup PROVE IInv'
<1> USE DEF IInv, Cleanup, timeVars, msgVars
<1>1. TypeOK'
  <2>1. refs' \in Nat
    BY DEF TypeOK
  <2> QED
    BY <2>1 DEF TypeOK
<1>2. FifoInv' /\ LateInv'
  BY FifoKept, LateKept
<1>3. DeadlineInv' /\ ClockInv'
  BY DEF DeadlineInv, ClockInv, Kvm
<1>4. RefsInv'
  BY DEF RefsInv, TimerReferenced, TypeOK, Kvm
<1> QED
  BY <1>1, <1>2, <1>3, <1>4

LEMMA TickLemma == ASSUME IInv, Tick PROVE IInv'
<1> USE DEF IInv, Tick, lifeVars, msgVars
<1>1. TypeOK'
  BY DEF TypeOK
<1>2. FifoInv' /\ LateInv' /\ RefsInv'
  BY FifoKept, LateKept, RefsKept
<1>3. DeadlineInv' /\ ClockInv'
  BY DEF DeadlineInv, ClockInv, TypeOK, Kvm
<1> QED
  BY <1>1, <1>2, <1>3

(* Emulate, Stamp and Finish: a message gets its time and its place.       *)
LEMMA EmulateLemma == ASSUME IInv, Emulate PROVE IInv'
<1> USE DEF IInv, Emulate, timeVars, lifeVars
<1>1. TypeOK'
  BY DEF TypeOK
<1>2. FifoInv' /\ RefsInv'
  BY FifoKept, RefsKept
<1>3. DeadlineInv' /\ ClockInv'
  BY DEF DeadlineInv, ClockInv, Kvm
<1>4. LateInv'
  BY DEF LateInv, AbortOnlyWhenLate, Kvm
<1> QED
  BY <1>1, <1>2, <1>3, <1>4

LEMMA StampLemma == ASSUME IInv, Stamp PROVE IInv'
<1> USE DEF IInv, Stamp, timeVars, lifeVars
<1>1. simulation_now(clock) \in Nat
  <2>1. CASE Kvm
    <3>1. ToNs(clock) \in Nat /\ ToNs(timer) \in Nat
      BY ConvertNat DEF TypeOK
    <3> QED
      BY <2>1, <3>1 DEF simulation_now, KvmNow, Larger, TypeOK
  <2>2. CASE ~Kvm
    BY <2>2 DEF simulation_now, QemuNow, ClockInv, TypeOK
  <2> QED
    BY <2>1, <2>2
<1>2. TypeOK'
  <2>1. sender' \in [pc : {"out", "emulating", "stamped"}, time : Nat]
    BY <1>1
  <2>2. tardy' \in BOOLEAN
    BY DEF TypeOK
  <2> QED
    BY <2>1, <2>2 DEF TypeOK
<1>3. FifoInv' /\ RefsInv'
  BY FifoKept, RefsKept
<1>4. DeadlineInv' /\ ClockInv'
  BY DEF DeadlineInv, ClockInv, Kvm, simulation_now, KvmNow
<1>5. LateInv'
  <2>1. AbortOnlyWhenLate' /\ \A m \in outgoing' : m.time > next_deadline' => ~Kvm' /\ tardy'
    BY DEF LateInv, AbortOnlyWhenLate, Kvm
  <2>2. ASSUME ~Kvm, sender'.time > next_deadline PROVE tardy'
    <3>1. sender'.time = clock - offset
      BY <2>2 DEF simulation_now, QemuNow
    <3>2. hpc = "init" \/ clock > timer
      BY <2>2, <3>1 DEF ClockInv, TypeOK
    <3> QED
      BY <3>2
  <2> QED
    BY <2>1, <2>2 DEF LateInv, Kvm
<1> QED
  BY <1>2, <1>3, <1>4, <1>5

LEMMA FinishLemma == ASSUME IInv, Finish PROVE IInv'
<1> DEFINE time == sender.time
<1> USE DEF IInv, timeVars, lifeVars
<1>1. time \in Nat /\ sender.pc = "stamped" /\ sender' = Idle
      /\ UNCHANGED <<backend, timeVars, hpc, lifeVars, owed, wire, sent, tardy, cause>>
  BY DEF Finish, TypeOK
<1>2. CASE Overrun(time)
  <2>1. upcoming' = Append(upcoming, OverrunTime(time)) /\ UNCHANGED outgoing
    BY <1>2 DEF Finish
  <2>2. upcoming \in Seq(Nat) /\ Kvm /\ time > next_deadline
    BY <1>2 DEF Overrun, TypeOK
  <2>3. /\ OverrunTime(time) \in Nat
        /\ OverrunTime(time) >= time
        /\ \A i \in 1..Len(upcoming) : upcoming[i] <= OverrunTime(time)
    BY <1>1, <2>2 DEF OverrunTime, Larger, FifoInv
  <2>4. TypeOK'
    <3>1. upcoming' \in Seq(Nat)
      BY <2>1, <2>2, <2>3
    <3>2. sender' \in [pc : {"out", "emulating", "stamped"}, time : Nat]
      BY <1>1 DEF Idle
    <3> QED
      BY <1>1, <2>1, <3>1, <3>2 DEF TypeOK
  <2>5. FifoInv'
    <3>1. hpc = "running"
      <4>1. hpc \in {"init", "running"}
        BY <2>2 DEF Finish, MaySend
      <4> QED
        BY <2>2, <4>1 DEF DeadlineInv
    <3>2. OverrunTime(time) > prev_deadline
      BY <1>1, <2>2, <2>3 DEF DeadlineInv, TypeOK
    <3> DEFINE n == Len(upcoming)
    <3>3. n \in Nat /\ Len(upcoming') = n + 1 /\ upcoming'[n + 1] = OverrunTime(time)
          /\ \A i \in 1..n : upcoming'[i] = upcoming[i]
      BY <2>1, <2>2, <2>3
    <3>4. \A i \in 1..n, j \in 1..n : i <= j => upcoming'[i] <= upcoming'[j]
      BY <3>3 DEF FifoInv
    <3>5. \A i \in 1..n + 1 : upcoming'[i] <= upcoming'[n + 1]
      BY <2>3, <3>3
    <3>6. \A i \in 1..n + 1, j \in 1..n + 1 : i <= j => upcoming'[i] <= upcoming'[j]
      BY <3>3, <3>4, <3>5
    <3>7. \A i \in 1..n + 1 : upcoming'[i] > prev_deadline
      BY <3>1, <3>2, <3>3 DEF FifoInv, Started
    <3> QED
      BY <1>1, <3>1, <3>3, <3>6, <3>7 DEF FifoInv, Started
  <2>6. DeadlineInv' /\ ClockInv' /\ RefsInv'
    BY <1>1, RefsKept DEF DeadlineInv, ClockInv, Kvm, Idle
  <2>7. LateInv'
    BY <1>1, <2>1 DEF LateInv, AbortOnlyWhenLate, Idle, Kvm
  <2> QED
    BY <2>4, <2>5, <2>6, <2>7
<1>3. CASE ~Overrun(time)
  <2>1. outgoing' = outgoing \cup {[id |-> sent, time |-> time]} /\ UNCHANGED upcoming
    BY <1>3 DEF Finish
  <2>2. TypeOK'
    <3>1. outgoing' \subseteq [id : Nat, time : Nat] /\ owed' \subseteq outgoing'
      BY <1>1, <2>1 DEF TypeOK
    <3>2. sender' \in [pc : {"out", "emulating", "stamped"}, time : Nat]
      BY <1>1 DEF Idle
    <3> QED
      BY <1>1, <2>1, <3>1, <3>2 DEF TypeOK
  <2>3. FifoInv' /\ RefsInv'
    BY <1>1, <2>1, FifoKept, RefsKept
  <2>4. DeadlineInv' /\ ClockInv'
    BY <1>1 DEF DeadlineInv, ClockInv, Kvm, Idle
  <2>5. LateInv'
    BY <1>1, <1>3, <2>1 DEF LateInv, AbortOnlyWhenLate, Idle, Kvm, Overrun
  <2> QED
    BY <2>2, <2>3, <2>4, <2>5
<1> QED
  BY <1>2, <1>3

(* The steps of the handler that move neither the time nor the sender.     *)
HandlerStep ==
  /\ Started
  /\ UNCHANGED <<backend, timeVars, lifeVars, sender, sent, tardy>>
  /\ hpc' \in {"running", "draining", "flushing", "ended", "panicked"}
  /\ outgoing' \subseteq outgoing /\ owed' \subseteq outgoing'
  /\ wire' \subseteq Nat
  /\ \/ upcoming' = upcoming
     \/ upcoming # <<>> /\ upcoming' = Tail(upcoming)
  /\ cause' \in {"none", "module", "late", "write", "end"}
  /\ cause' = "late" => cause = "late" \/ \E m \in outgoing : m.time > next_deadline

LEMMA HandlerLemma == ASSUME IInv, HandlerStep PROVE IInv'
<1> USE DEF IInv, HandlerStep, timeVars, lifeVars
<1>1. upcoming' \in Seq(Nat)
  <2>1. upcoming \in Seq(Nat)
    BY DEF TypeOK
  <2>2. ASSUME upcoming # <<>> PROVE Tail(upcoming) \in Seq(Nat)
    BY <2>1, <2>2
  <2> QED
    BY <2>1, <2>2
<1>2. TypeOK'
  BY <1>1 DEF TypeOK
<1>3. FifoInv'
  <2>1. CASE upcoming' = upcoming
    BY <2>1 DEF FifoInv, Started
  <2>2. CASE upcoming # <<>> /\ upcoming' = Tail(upcoming)
    <3>1. upcoming \in Seq(Nat) /\ Len(upcoming) \in Nat
      BY DEF TypeOK
    <3>2. /\ Len(upcoming') = Len(upcoming) - 1
          /\ \A i \in 1..Len(upcoming') : i + 1 \in 1..Len(upcoming)
                                        /\ upcoming'[i] = upcoming[i + 1]
      BY <2>2, <3>1
    <3>3. \A i \in 1..Len(upcoming'), j \in 1..Len(upcoming') :
            i <= j => upcoming'[i] <= upcoming'[j]
      BY <3>2 DEF FifoInv
    <3>4. \A i \in 1..Len(upcoming') : upcoming'[i] > prev_deadline
      BY <3>2 DEF FifoInv
    <3> QED
      BY <3>3, <3>4 DEF FifoInv
  <2> QED
    BY <2>1, <2>2
<1>4. DeadlineInv' /\ ClockInv' /\ RefsInv'
  BY RefsKept DEF DeadlineInv, ClockInv, Kvm, Started
<1>5. LateInv'
  BY DEF LateInv, AbortOnlyWhenLate, Kvm
<1> QED
  BY <1>2, <1>3, <1>4, <1>5

LEMMA HandlerTypes ==
  ASSUME IInv
  PROVE  /\ owed \subseteq outgoing /\ wire \subseteq Nat
         /\ cause \in {"none", "module", "late", "write", "end"}
  BY DEF IInv, TypeOK

LEMMA QemuHandlerLemma == ASSUME IInv, QemuHandler PROVE IInv'
<1>1. CASE Drain
  <2>1. HandlerStep
    BY <1>1, HandlerTypes DEF Drain, Started, HandlerStep
  <2> QED
    BY <2>1, HandlerLemma
<1>2. CASE ~Drain
  <2>1. HandlerStep
    BY <1>2, HandlerTypes DEF QemuHandler, Started, msgVars, HandlerStep
  <2> QED
    BY <2>1, HandlerLemma
<1> QED
  BY <1>1, <1>2

LEMMA KvmHandlerLemma == ASSUME IInv, KvmHandler PROVE IInv'
<1>1. HandlerStep
  BY HandlerTypes DEF KvmHandler, Drain, Started, HandlerStep
<1> QED
  BY <1>1, HandlerLemma

LEMMA SendPacketLemma == ASSUME IInv, SendPacket PROVE IInv'
<1>1. PICK m \in outgoing :
        /\ outgoing' = outgoing \ {m}
        /\ owed' = owed \ {m}
        /\ \/ /\ m.time <= next_deadline
              /\ wire' = wire \cup {FixedTime(m.time)}
              /\ UNCHANGED <<hpc, cause>>
           \/ /\ EndBecause(IF m.time > next_deadline THEN "late" ELSE "write")
              /\ UNCHANGED wire
  BY DEF SendPacket
<1>2. FixedTime(m.time) \in Nat
  BY DEF FixedTime, Larger, IInv, TypeOK
<1>3. wire' \subseteq Nat /\ outgoing' \subseteq outgoing /\ owed' \subseteq outgoing'
  BY <1>1, <1>2 DEF IInv, TypeOK
<1>4. hpc' \in {"draining", "ended", "panicked"}
  BY <1>1 DEF SendPacket, EndBecause
<1>5. /\ cause' \in {"none", "module", "late", "write", "end"}
      /\ cause' = "late" => cause = "late" \/ m.time > next_deadline
  BY <1>1 DEF EndBecause, IInv, TypeOK
<1>6. HandlerStep
  BY <1>1, <1>3, <1>4, <1>5 DEF SendPacket, Started, HandlerStep
<1> QED
  BY <1>6, HandlerLemma

LEMMA DrainedLemma == ASSUME IInv, Drained PROVE IInv'
<1>1. HandlerStep
  BY HandlerTypes DEF Drained, Started, msgVars, HandlerStep
<1> QED
  BY <1>1, HandlerLemma

LEMMA SendUpcomingLemma == ASSUME IInv, SendUpcoming PROVE IInv'
<1>1. upcoming \in Seq(Nat) /\ upcoming # <<>>
  BY DEF SendUpcoming, Ready, IInv, TypeOK
<1>2. Head(upcoming) \in Nat
  BY <1>1
<1>3. wire' \subseteq Nat /\ hpc' \in {"flushing", "ended", "panicked"}
      /\ cause' \in {cause, "write"}
  BY <1>2 DEF SendUpcoming, EndBecause, IInv, TypeOK
<1>4. HandlerStep
  BY <1>1, <1>3, HandlerTypes DEF SendUpcoming, Started, HandlerStep
<1> QED
  BY <1>4, HandlerLemma

(* The FIFO being sorted, a first message beyond the deadline tells that   *)
(* all are.                                                                *)
LEMMA NotReady == ASSUME IInv, ~Ready PROVE \A i \in 1..Len(upcoming) : upcoming[i] > next_deadline
<1> SUFFICES ASSUME NEW i \in 1..Len(upcoming) PROVE upcoming[i] > next_deadline
  OBVIOUS
<1>1. upcoming \in Seq(Nat) /\ next_deadline \in Nat
  BY DEF IInv, TypeOK
<1>2. upcoming # <<>> /\ 1 \in 1..Len(upcoming) /\ Head(upcoming) = upcoming[1]
  BY <1>1
<1>3. upcoming[1] \in Nat /\ upcoming[i] \in Nat /\ upcoming[1] > next_deadline
  BY <1>1, <1>2 DEF Ready
<1>4. upcoming[1] <= upcoming[i]
  BY <1>2 DEF IInv, FifoInv
<1> QED
  BY <1>1, <1>3, <1>4

LEMMA AtDeadlineLemma == ASSUME IInv, AtDeadline PROVE IInv'
<1>1. CASE hpc' = "reached"
  <2> USE <1>1 DEF IInv, timeVars, lifeVars, msgVars
  <2>1. /\ hpc = "flushing" /\ ~Ready
        /\ UNCHANGED <<backend, timeVars, lifeVars, msgVars, cause>>
    BY DEF AtDeadline, EndBecause
  <2>2. TypeOK'
    BY <2>1 DEF TypeOK
  <2>3. FifoInv'
    BY <2>1, NotReady DEF FifoInv, Started
  <2>4. DeadlineInv' /\ ClockInv' /\ RefsInv' /\ LateInv'
    BY <2>1, RefsKept, LateKept DEF DeadlineInv, ClockInv, Kvm
  <2> QED
    BY <2>2, <2>3, <2>4
<1>2. CASE hpc' # "reached"
  <2>1. HandlerStep
    BY <1>2, HandlerTypes DEF AtDeadline, EndBecause, Started, msgVars, HandlerStep
  <2> QED
    BY <2>1, HandlerLemma
<1> QED
  BY <1>1, <1>2

LEMMA EndLemma == ASSUME IInv, End PROVE IInv'
<1>1. HandlerStep
  BY HandlerTypes DEF End, EndBecause, Started, msgVars, HandlerStep
<1> QED
  BY <1>1, HandlerLemma

(* A new slice: what is held back is beyond the deadline that becomes the  *)
(* previous one.                                                           *)
LEMMA NextDeadlineLemma ==
  ASSUME IInv, NEW length \in Lengths, NextDeadline(length)
  PROVE  IInv'
<1> DEFINE deadline == next_deadline + length
<1> USE DEF IInv, lifeVars
<1>1. /\ length \in Nat /\ deadline \in Nat /\ deadline >= next_deadline
      /\ deadline - next_deadline = length
  BY LengthsAssumption DEF TypeOK
<1>2. /\ hpc = "reached" /\ hpc' = "running"
      /\ prev_deadline' = next_deadline /\ next_deadline' = deadline /\ wire' = {}
      /\ UNCHANGED <<backend, offset, lifeVars, sender, outgoing, owed, upcoming, sent, tardy,
                     cause>>
  BY DEF NextDeadline, set_next_deadline
<1>3. clock' \in Nat /\ timer' \in Nat /\ ClockInv'
  <2>1. CASE Kvm
    <3>1. ToTsc(length) \in Nat
      BY <1>1, ConvertNat
    <3>2. timer' = timer + ToTsc(length) /\ clock' \in timer..clock
      BY <1>1, <2>1 DEF NextDeadline, set_next_deadline, KvmTimer
    <3> QED
      BY <1>2, <2>1, <3>1, <3>2 DEF TypeOK, ClockInv, Kvm
  <2>2. CASE ~Kvm
    BY <1>1, <1>2, <2>2 DEF NextDeadline, set_next_deadline, QemuTimer, TypeOK, ClockInv, Kvm
  <2> QED
    BY <2>1, <2>2
<1>4. TypeOK'
  BY <1>1, <1>2, <1>3 DEF TypeOK
<1>5. FifoInv'
  BY <1>2 DEF FifoInv, Started
<1>6. DeadlineInv' /\ RefsInv'
  BY <1>1, <1>2, RefsKept DEF DeadlineInv
<1>7. LateInv'
  BY <1>1, <1>2 DEF LateInv, AbortOnlyWhenLate, Kvm, TypeOK
<1> QED
  BY <1>3, <1>4, <1>5, <1>6, <1>7

LEMMA NextLemma == IInv /\ [Next]_vars => IInv'
<1> SUFFICES ASSUME IInv, [Next]_vars PROVE IInv'
  OBVIOUS
<1>1. ASSUME NEW length \in Lengths,
             QemuStart(length) \/ KvmStart(length) \/ NextDeadline(length)
      PROVE  IInv'
  BY <1>1, QemuStartLemma, KvmStartLemma, NextDeadlineLemma
<1>2. CASE QemuStop \/ KvmStop \/ Cleanup \/ Tick
  BY <1>2, StopLemma, CleanupLemma, TickLemma
<1>3. CASE Emulate \/ Stamp \/ Finish
  BY <1>3, EmulateLemma, StampLemma, FinishLemma
<1>4. CASE QemuHandler \/ KvmHandler \/ SendPacket \/ Drained
  BY <1>4, QemuHandlerLemma, KvmHandlerLemma, SendPacketLemma, DrainedLemma
<1>5. CASE SendUpcoming \/ AtDeadline \/ End
  BY <1>5, SendUpcomingLemma, AtDeadlineLemma, EndLemma
<1>6. CASE UNCHANGED vars
  <2> USE <1>6 DEF vars, timeVars, lifeVars, msgVars, IInv
  <2>1. TypeOK'
    BY DEF TypeOK
  <2>2. FifoInv' /\ RefsInv' /\ LateInv'
    BY FifoKept, RefsKept, LateKept
  <2>3. DeadlineInv' /\ ClockInv'
    BY DEF DeadlineInv, ClockInv, Kvm
  <2> QED
    BY <2>1, <2>2, <2>3
<1> QED
  BY <1>1, <1>2, <1>3, <1>4, <1>5, <1>6 DEF Next

LEMMA Invariance == Spec => []IInv
  BY InitLemma, NextLemma, PTL DEF Spec

(* The types of VmClient, for all slices, frequencies and clocks.          *)
THEOREM VmClientTypes == Spec => []TypeOK
<1>1. IInv => TypeOK
  BY DEF IInv
<1> QED
  BY <1>1, Invariance, PTL

(* When a slice begins, upcoming_messages is sorted and holds nothing      *)
(* whose time has come: at_deadline may stop at the first message beyond   *)
(* the deadline.                                                           *)
THEOREM HeldBackSorted == Spec => []HeldBackInOrder
<1>1. IInv => HeldBackInOrder
  <2> SUFFICES ASSUME IInv, hpc = "running", NEW i \in 1..Len(upcoming)
               PROVE  upcoming[i] > prev_deadline /\ (i > 1 => upcoming[i - 1] <= upcoming[i])
    BY DEF HeldBackInOrder
  <2>1. Len(upcoming) \in Nat
    BY DEF IInv, TypeOK
  <2> QED
    BY <2>1 DEF IInv, FifoInv, Started
<1> QED
  BY <1>1, Invariance, PTL

(* at_deadline ends the simulation over a late packet only with qemu, and  *)
(* only if a time stamp was taken before start or with the timer overdue.  *)
THEOREM LateOnlyWhenTardy == Spec => []AbortOnlyWhenLate
<1>1. IInv => AbortOnlyWhenLate
  BY DEF IInv, LateInv
<1> QED
  BY <1>1, Invariance, PTL

(* The QEMU timer never outlives the TimerContext it points to.            *)
THEOREM TimerStaysReferenced == Spec => []TimerReferenced
<1>1. IInv => TimerReferenced
  BY DEF IInv, RefsInv
<1> QED
  BY <1>1, Invariance, PTL

-----------------------------------------------------------------------------
(* The refinement of VmContract, step by step.                             *)
LEMMA StutterStep ==
  ASSUME UNCHANGED <<Slice, prev_deadline, next_deadline, wire>>
  PROVE  [Contract!Next]_(Contract!vars)
  BY DEF Contract!vars

LEMMA EndStep ==
  ASSUME Slice' = "ended", UNCHANGED <<prev_deadline, next_deadline, wire>>
  PROVE  [Contract!Next]_(Contract!vars)
  BY DEF Contract!Next, Contract!End

LEMMA GotoStep ==
  ASSUME IInv, IInv', Slice \in {"init", "reached"}, Slice' = "running",
         prev_deadline' = next_deadline, wire' = {}
  PROVE  [Contract!Next]_(Contract!vars)
<1>1. next_deadline' \in Nat /\ next_deadline' >= next_deadline
  BY DEF IInv, TypeOK, DeadlineInv
<1> QED
  BY <1>1 DEF Contract!Next, Contract!GotoDeadline

LEMMA SendStep ==
  ASSUME IInv, Slice = "running", NEW time \in Nat,
         prev_deadline <= time, time <= next_deadline,
         wire' = wire \cup {time}, UNCHANGED <<Slice, prev_deadline, next_deadline>>
  PROVE  [Contract!Next]_(Contract!vars)
<1>1. time \in prev_deadline..next_deadline
  BY DEF IInv, TypeOK
<1>2. Contract!SendPacket(time)
  BY DEF Contract!SendPacket
<1> QED
  BY <1>1, <1>2 DEF Contract!Next

(* A message of the set goes out at its time or at the previous deadline.  *)
LEMMA SendPacketStep ==
  ASSUME IInv, SendPacket PROVE [Contract!Next]_(Contract!vars)
<1>1. hpc = "draining" /\ UNCHANGED <<prev_deadline, next_deadline>>
  BY DEF SendPacket, timeVars
<1>2. CASE EndBecause("late") /\ UNCHANGED wire
  BY <1>1, <1>2, EndStep DEF EndBecause, Slice
<1>3. CASE EndBecause("write") /\ UNCHANGED wire
  BY <1>1, <1>3, EndStep DEF EndBecause, Slice
<1>4. ASSUME NEW m \in outgoing, m.time <= next_deadline,
             wire' = wire \cup {FixedTime(m.time)}, UNCHANGED hpc
      PROVE  [Contract!Next]_(Contract!vars)
  <2>1. m.time \in Nat /\ prev_deadline \in Nat /\ next_deadline \in Nat
        /\ prev_deadline <= next_deadline
    BY DEF IInv, TypeOK, DeadlineInv
  <2>2. FixedTime(m.time) \in Nat /\ prev_deadline <= FixedTime(m.time)
        /\ FixedTime(m.time) <= next_deadline
    BY <1>4, <2>1 DEF FixedTime, Larger
  <2>3. Slice = "running" /\ Slice' = Slice
    BY <1>1, <1>4 DEF Slice
  <2> QED
    BY <1>1, <1>4, <2>2, <2>3, SendStep
<1> QED
  BY <1>2, <1>3, <1>4 DEF SendPacket

(* A message of the FIFO goes out at its time, which is in this slice.     *)
LEMMA SendUpcomingStep ==
  ASSUME IInv, SendUpcoming PROVE [Contract!Next]_(Contract!vars)
<1> DEFINE time == Head(upcoming)
<1>1. hpc = "flushing" /\ Ready /\ UNCHANGED <<prev_deadline, next_deadline>>
  BY DEF SendUpcoming, timeVars
<1>2. CASE EndBecause("write") /\ UNCHANGED wire
  BY <1>1, <1>2, EndStep DEF EndBecause, Slice
<1>3. CASE wire' = wire \cup {time} /\ UNCHANGED hpc
  <2>1. upcoming \in Seq(Nat) /\ upcoming # <<>> /\ prev_deadline \in Nat
    BY <1>1 DEF Ready, IInv, TypeOK
  <2>2. time \in Nat /\ time = upcoming[1] /\ 1 \in 1..Len(upcoming)
    BY <2>1
  <2>3. prev_deadline <= time /\ time <= next_deadline
    BY <1>1, <2>1, <2>2 DEF Ready, IInv, FifoInv, Started
  <2>4. Slice = "running" /\ Slice' = Slice
    BY <1>1, <1>3 DEF Slice
  <2> HIDE DEF time
  <2> QED
    BY <1>1, <1>3, <2>2, <2>3, <2>4, SendStep
<1> QED
  BY <1>2, <1>3 DEF SendUpcoming

LEMMA StartStep ==
  ASSUME IInv, IInv', NEW length \in Lengths, QemuStart(length) \/ KvmStart(length)
  PROVE  [Contract!Next]_(Contract!vars)
<1>1. hpc = "init" /\ wire = {} /\ wire' = wire
  BY DEF QemuStart, KvmStart, msgVars, IInv, DeadlineInv
<1>2. CASE hpc' = "running"
  <2>1. prev_deadline' = next_deadline
    BY <1>2 DEF QemuStart, KvmStart, set_next_deadline
  <2> QED
    BY <1>1, <1>2, <2>1, GotoStep DEF Slice
<1>3. CASE hpc' # "running"
  <2>1. hpc' = "panicked" /\ UNCHANGED <<prev_deadline, next_deadline>>
    BY <1>3 DEF QemuStart, KvmStart
  <2> QED
    BY <1>1, <2>1, EndStep DEF Slice
<1> QED
  BY <1>2, <1>3

LEMMA RefinementStep ==
  ASSUME IInv, IInv', [Next]_vars PROVE [Contract!Next]_(Contract!vars)
<1>1. ASSUME NEW length \in Lengths, QemuStart(length) \/ KvmStart(length)
      PROVE  [Contract!Next]_(Contract!vars)
  BY <1>1, StartStep
<1>2. ASSUME NEW length \in Lengths, NextDeadline(length)
      PROVE  [Contract!Next]_(Contract!vars)
  <2>1. Slice = "reached" /\ Slice' = "running" /\ wire' = {} /\ prev_deadline' = next_deadline
    BY <1>2 DEF NextDeadline, set_next_deadline, Slice
  <2> QED
    BY <2>1, GotoStep
<1>3. CASE QemuStop \/ KvmStop
  BY SMTT(30), <1>3, EndStep DEF QemuStop, KvmStop, Slice, timeVars, msgVars
<1>4. CASE Cleanup \/ Tick \/ Emulate \/ Stamp \/ Finish \/ Drained \/ UNCHANGED vars
  BY <1>4, StutterStep
     DEF Cleanup, Tick, Emulate, Stamp, Finish, Drained, Slice, timeVars, msgVars, vars
<1>5. CASE Drain
  BY <1>5, StutterStep DEF Drain, Slice, timeVars
<1>6. CASE QemuHandler /\ ~Drain
  BY <1>6, EndStep DEF QemuHandler, Slice, timeVars, msgVars
<1>7. CASE SendPacket \/ SendUpcoming
  BY <1>7, SendPacketStep, SendUpcomingStep
<1>8. CASE AtDeadline
  <2>1. CASE hpc' = "reached"
    <3>1. Contract!AtDeadline
      BY <1>8, <2>1 DEF AtDeadline, Contract!AtDeadline, Slice, timeVars, msgVars
    <3> QED
      BY <3>1 DEF Contract!Next
  <2>2. CASE hpc' # "reached"
    BY <1>8, <2>2, EndStep DEF AtDeadline, EndBecause, Slice, timeVars, msgVars
  <2> QED
    BY <2>1, <2>2
<1>9. CASE End
  BY <1>9, EndStep DEF End, EndBecause, Slice, timeVars, msgVars
<1> QED
  BY <1>1, <1>2, <1>3, <1>4, <1>5, <1>6, <1>7, <1>8, <1>9 DEF Next, KvmHandler

(* The client of a virtual machine keeps the contract the coordinator      *)
(* relies on, for all slices, frequencies, clocks and numbers of packets:  *)
(* at_deadline sends only times of the current slice.                      *)
THEOREM KeepsVmContract == Spec => ImplementsVmContract
<1>1. Init => Contract!Init
  BY DEF Init, Contract!Init, Slice
<1>2. IInv /\ IInv' /\ [Next]_vars => [Contract!Next]_(Contract!vars)
  BY RefinementStep
<1> QED
  BY <1>1, <1>2, Invariance, PTL DEF Spec, Contract!Spec, ImplementsVmContract

-----------------------------------------------------------------------------
(* The conversions: what cutting off loses never exceeds what was asked.   *)
LEMMA DivMonotone ==
  ASSUME NEW a \in Nat, NEW b \in Nat, NEW n \in Nat \ {0}, a <= b
  PROVE  a \div n <= b \div n
  BY SMTT(30)

LEMMA DivShift ==
  ASSUME NEW a \in Nat, NEW d \in Nat, NEW n \in Nat \ {0}
  PROVE  (a + d * n) \div n = a \div n + d
<1> DEFINE q == a \div n
           r == a % n
<1>1. q \in Nat /\ r \in Nat /\ r < n /\ a = n * q + r
  BY SMTT(30)
<1>2. a + d * n = n * (q + d) + r
  BY <1>1, SMTT(30)
<1> HIDE DEF q, r
<1>3. \A m \in Nat, s \in Nat : s < n => (n * m + s) \div n = m
  BY SMTT(30)
<1>4. (a + d * n) \div n = q + d
  BY <1>1, <1>2, <1>3
<1> QED
  BY <1>4 DEF q

LEMMA DivTimes ==
  ASSUME NEW a \in Nat, NEW n \in Nat \ {0}
  PROVE  (a \div n) * n <= a
  BY SMTT(30)

LEMMA NsMonotone ==
  ASSUME NEW s \in Nat, NEW t \in Nat, s <= t
  PROVE  ToNs(s) <= ToNs(t)
<1>1. s * FreqDen \in Nat /\ t * FreqDen \in Nat /\ s * FreqDen <= t * FreqDen
  BY FreqAssumption, SMTT(30)
<1> QED
  BY <1>1, DivMonotone, FreqAssumption DEF ToNs

(* A slice of d nanoseconds from t on, in ticks, is not longer than d.     *)
LEMMA SliceInTicks ==
  ASSUME NEW t \in Nat, NEW d \in Nat
  PROVE  ToNs(t + ToTsc(d)) <= ToNs(t) + d
<1> DEFINE ticks == ToTsc(d)
<1>1. ticks \in Nat /\ d * FreqNum \in Nat /\ t * FreqDen \in Nat /\ ticks * FreqDen \in Nat
  BY ConvertNat, FreqAssumption
<1>2. ticks * FreqDen <= d * FreqNum
  BY <1>1, DivTimes, FreqAssumption DEF ToTsc
<1> HIDE DEF ticks
<1>3. (t + ticks) * FreqDen = t * FreqDen + ticks * FreqDen
  BY <1>1, FreqAssumption, SMTT(30)
<1>4. (t + ticks) * FreqDen <= t * FreqDen + d * FreqNum
  BY <1>1, <1>2, <1>3
<1>5. ((t + ticks) * FreqDen) \div FreqNum <= (t * FreqDen + d * FreqNum) \div FreqNum
  BY <1>1, <1>3, <1>4, DivMonotone, FreqAssumption
<1>6. (t * FreqDen + d * FreqNum) \div FreqNum = (t * FreqDen) \div FreqNum + d
  BY <1>1, DivShift, FreqAssumption
<1> QED
  BY <1>5, <1>6 DEF ToNs, ticks

(* The clock has passed the previous deadline: with qemu on the virtual    *)
(* clock, with qemukvm as simulation_now converts it.  During the handler  *)
(* it has passed the timer.                                                *)
SliceInv ==
  /\ Started => IF Kvm THEN ToNs(timer) + prev_deadline <= ToNs(clock) + next_deadline
                ELSE offset + prev_deadline <= clock
  /\ hpc \in {"draining", "flushing", "reached"} => timer <= clock

LEMMA SliceInit == Init => SliceInv
  BY DEF Init, SliceInv, Started

LEMMA SliceKept ==
  ASSUME SliceInv, UNCHANGED <<backend, timeVars>>, Started' => Started,
         hpc' \in {"draining", "flushing", "reached"} =>
           hpc \in {"draining", "flushing", "reached"} \/ timer <= clock
  PROVE  SliceInv'
  BY DEF SliceInv, Kvm, timeVars, ToNs

LEMMA SliceNext == ASSUME IInv, IInv', SliceInv, [Next]_vars PROVE SliceInv'
<1>1. ASSUME NEW length \in Lengths, QemuStart(length) PROVE SliceInv'
  BY <1>1 DEF IInv, TypeOK, QemuStart, set_next_deadline, SliceInv, Kvm, DeadlineInv
<1>2. ASSUME NEW length \in Lengths, KvmStart(length) PROVE SliceInv'
  <2>1. CASE hpc' = "running"
    <3>1. /\ hpc = "init" /\ Kvm /\ Kvm' /\ prev_deadline' = 0 /\ next_deadline' = length
          /\ timer' = clock + ToTsc(length) /\ clock' = clock
      BY <1>2, <2>1, LengthsAssumption
         DEF KvmStart, set_next_deadline, KvmTimer, IInv, DeadlineInv, Kvm
    <3>2. clock \in Nat /\ length \in Nat /\ ToNs(timer') \in Nat /\ ToNs(clock') \in Nat
      BY <3>1, LengthsAssumption, ConvertNat DEF IInv, TypeOK
    <3>3. ToNs(timer') <= ToNs(clock) + length
      BY <3>1, <3>2, SliceInTicks
    <3> QED
      BY <2>1, <3>1, <3>2, <3>3 DEF SliceInv, ToNs
  <2>2. CASE hpc' # "running"
    BY <1>2, <2>2 DEF KvmStart, SliceInv, Started
  <2> QED
    BY <2>1, <2>2
<1>3. ASSUME NEW length \in Lengths, NextDeadline(length) PROVE SliceInv'
  <2>1. /\ length \in Nat /\ timer \in Nat /\ clock \in Nat /\ next_deadline \in Nat
        /\ hpc = "reached" /\ hpc' = "running" /\ timer <= clock
        /\ prev_deadline' = next_deadline /\ next_deadline' = next_deadline + length
        /\ UNCHANGED <<backend, offset>> /\ offset \in Nat
    BY <1>3, LengthsAssumption DEF NextDeadline, set_next_deadline, IInv, TypeOK, SliceInv
  <2>2. CASE Kvm
    <3>1. timer' = timer + ToTsc(length) /\ clock' \in Nat /\ timer <= clock'
      BY <1>3, <2>1, <2>2 DEF NextDeadline, set_next_deadline, KvmTimer
    <3>2. ToTsc(length) \in Nat
      BY <2>1, ConvertNat
    <3>3. ToNs(timer) \in Nat /\ ToNs(clock') \in Nat /\ ToNs(timer') \in Nat
      BY <2>1, <3>1, <3>2, ConvertNat
    <3>4. ToNs(timer') <= ToNs(timer) + length /\ ToNs(timer) <= ToNs(clock')
      BY <2>1, <3>1, SliceInTicks, NsMonotone
    <3>5. ToNs(timer') + next_deadline <= ToNs(clock') + (next_deadline + length)
      BY <2>1, <3>3, <3>4
    <3> QED
      BY <2>1, <2>2, <3>5 DEF SliceInv, Kvm, ToNs
  <2>3. CASE ~Kvm
    <3>1. clock' = clock /\ timer = offset + next_deadline
      BY <1>3, <2>1, <2>3 DEF NextDeadline, IInv, ClockInv
    <3> QED
      BY <2>1, <2>3, <3>1 DEF SliceInv, Kvm
  <2> QED
    BY <2>2, <2>3
<1>4. CASE Tick
  <2>1. /\ clock \in Nat /\ clock' = clock + 1 /\ timer \in Nat /\ offset \in Nat
        /\ prev_deadline \in Nat /\ next_deadline \in Nat
        /\ UNCHANGED <<backend, offset, prev_deadline, next_deadline, timer, hpc>>
    BY <1>4 DEF Tick, IInv, TypeOK
  <2>2. ToNs(clock) \in Nat /\ ToNs(clock') \in Nat /\ ToNs(timer) \in Nat
    BY <2>1, ConvertNat
  <2>3. ToNs(clock) <= ToNs(clock')
    BY <2>1, NsMonotone
  <2>4. ToNs(timer') = ToNs(timer)
    BY <2>1
  <2>5. Started' <=> Started
    BY <2>1 DEF Started
  <2>6. Started => IF Kvm THEN ToNs(timer) + prev_deadline <= ToNs(clock') + next_deadline
                ELSE offset + prev_deadline <= clock'
    BY <2>1, <2>2, <2>3 DEF SliceInv
  <2>7. hpc \in {"draining", "flushing", "reached"} => timer <= clock'
    BY <2>1 DEF SliceInv
  <2> QED
    BY <2>1, <2>5, <2>6, <2>7 DEF SliceInv, Kvm, ToNs
<1>5. CASE QemuStop \/ KvmStop \/ Cleanup
  BY <1>5, SliceKept DEF QemuStop, KvmStop, Cleanup, Started
<1>6. CASE Emulate \/ Stamp \/ Finish
  BY <1>6, SliceKept DEF Emulate, Stamp, Finish, Started
<1>7. CASE Drain
  BY <1>7, SliceKept DEF Drain, Started, timeVars, IInv, TypeOK
<1>8. CASE QemuHandler /\ ~Drain
  BY <1>8, SliceKept DEF QemuHandler, Started
<1>9. CASE SendPacket \/ Drained \/ SendUpcoming \/ AtDeadline \/ End
  BY <1>9, SliceKept
     DEF SendPacket, Drained, SendUpcoming, AtDeadline, End, EndBecause, Started
<1>10. CASE UNCHANGED vars
  BY <1>10, SliceKept DEF vars, Started
<1> QED
  BY <1>1, <1>2, <1>3, <1>4, <1>5, <1>6, <1>7, <1>8, <1>9, <1>10 DEF Next, KvmHandler

(* Until the timer is due, every time stamp lies in the current slice, for *)
(* every frequency of the TSC and all slices: with qemu the offset taken   *)
(* at start makes up for late handlers, and with qemukvm cutting off       *)
(* fractions of ticks makes a slice shorter, never longer.                 *)
THEOREM StampsStayInSlice == Spec => []StampsInSlice
<1>1. IInv /\ SliceInv => StampsInSlice
  <2> SUFFICES ASSUME IInv, SliceInv, hpc = "running", clock <= timer
               PROVE  prev_deadline <= simulation_now(clock)
                      /\ simulation_now(clock) <= next_deadline
    BY DEF StampsInSlice
  <2>1. /\ clock \in Nat /\ timer \in Nat /\ offset \in Nat
        /\ prev_deadline \in Nat /\ next_deadline \in Nat
    BY DEF IInv, TypeOK
  <2>2. CASE Kvm
    <3>1. ToNs(clock) \in Nat /\ ToNs(timer) \in Nat /\ ToNs(clock) <= ToNs(timer)
      BY <2>1, ConvertNat, NsMonotone
    <3>2. ToNs(timer) + prev_deadline <= ToNs(clock) + next_deadline
      BY <2>2 DEF SliceInv, Started
    <3>3. simulation_now(clock) = Larger(0, ToNs(clock) - (ToNs(timer) - next_deadline))
      BY <2>2 DEF simulation_now, KvmNow
    <3> QED
      BY <2>1, <3>1, <3>2, <3>3 DEF Larger
  <2>3. CASE ~Kvm
    BY <2>1, <2>3 DEF simulation_now, QemuNow, SliceInv, Started, IInv, ClockInv
  <2> QED
    BY <2>2, <2>3
<1>2. IInv /\ IInv' /\ SliceInv /\ [Next]_vars => SliceInv'
  BY SliceNext
<1> QED
  BY <1>1, <1>2, SliceInit, Invariance, PTL DEF Spec
=============================================================================
