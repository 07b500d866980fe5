------------------------ MODULE VmsCoordinator_proofs ------------------------
(***************************************************************************)
(* Proofs about VmsCoordinator, for any number of VMs, packets and slices, *)
(* any latencies and any congestion.                                       *)
(***************************************************************************)
EXTENDS VmsCoordinator, WellFoundedInduction, TLAPS

-----------------------------------------------------------------------------
(* Minimum and maximum.                                                    *)
Below == {p \in Nat \X Nat : p[1] < p[2]}

LEMMA BelowWellFounded == IsWellFoundedOn(Below, Nat)
  BY Zenon, NatLessThanWellFounded DEF OpToRel, Below

LEMMA BelowIsLess == \A x, y \in Nat : x < y => <<x, y>> \in Below
  BY Zenon DEF Below

LEMMA MinNat ==
  ASSUME NEW S \in SUBSET Nat, S # {}
  PROVE  Min(S) \in S /\ \A y \in S : Min(S) <= y
<1>1. \E x \in S : \A y \in S : ~(<<y, x>> \in Below)
  BY Zenon, BelowWellFounded, WFMin
<1>2. PICK x \in S : \A y \in S : ~(<<y, x>> \in Below)
  BY Zenon, <1>1
<1>3. \A y \in S : ~(y < x)
  BY Zenon, <1>2, BelowIsLess
<1>4. \A y \in S : x <= y
  BY <1>3
<1> QED
  BY Zenon, <1>4 DEF Min

LEMMA MaxOfTwo ==
  ASSUME NEW x \in Nat, NEW y \in Nat
  PROVE  Max({x, y}) \in Nat /\ Max({x, y}) = IF x >= y THEN x ELSE y
  BY DEF Max

-----------------------------------------------------------------------------
(* The time a VM is told is the nanosecond SimGrid's time lies in.         *)
LEMMA FloorType == ASSUME NEW t \in Nat PROVE simgridToVmTime(t) \in Nat
  BY GrainAssumption, BoundsAssumption DEF simgridToVmTime

LEMMA FloorBounds ==
  ASSUME NEW t \in Nat, t # Infinity
  PROVE  simgridToVmTime(t) <= t /\ t < simgridToVmTime(t) + Grain
  BY GrainAssumption, BoundsAssumption, SMTT(20) DEF simgridToVmTime

LEMMA FloorMonotone ==
  ASSUME NEW s \in Nat, NEW t \in Nat, s <= t, t < Infinity
  PROVE  simgridToVmTime(s) <= simgridToVmTime(t)
<1>1. s \div Grain <= t \div Grain /\ s \div Grain \in Nat /\ t \div Grain \in Nat
  BY GrainAssumption, SMTT(20)
<1> QED
  BY <1>1, GrainAssumption, BoundsAssumption, SMTT(20) DEF simgridToVmTime

LEMMA FloorWhole ==
  ASSUME NEW t \in Nat, t % Grain = 0
  PROVE  simgridToVmTime(t) = t
  BY GrainAssumption, BoundsAssumption, SMTT(20) DEF simgridToVmTime

LEMMA FloorGrain ==
  ASSUME NEW t \in Nat, Grain <= t, t # Infinity
  PROVE  Grain <= simgridToVmTime(t)
  BY GrainAssumption, BoundsAssumption, SMTT(20) DEF simgridToVmTime

-----------------------------------------------------------------------------
(* The deadline vm_coordinator picks.                                      *)
Lat(v, w) == Latency[<<HostOf[v], HostOf[w]>>]

LEMMA MinLatency ==
  ASSUME NEW actors \in SUBSET VMs
  PROVE  /\ compute_min_latency(actors) \in Nat
         /\ ForceMinLatency >= 0 => compute_min_latency(actors) = ForceMinLatency
         /\ ForceMinLatency < 0 =>
              /\ \A v, w \in actors : v # w => compute_min_latency(actors) <= Lat(v, w)
              /\ \/ compute_min_latency(actors) = Infinity
                 \/ \E v, w \in actors : v # w /\ compute_min_latency(actors) = Lat(v, w)
<1> DEFINE pairs == {q \in actors \X actors : q[1] # q[2]}
           lats == {Latency[<<HostOf[p[1]], HostOf[p[2]]>>] : p \in pairs}
           all == {Infinity} \cup lats
<1>1. CASE ForceMinLatency >= 0
  BY <1>1, ForceAssumption DEF compute_min_latency
<1>2. CASE ForceMinLatency < 0
  <2>1. compute_min_latency(actors) = Min(all)
    BY <1>2, ForceAssumption DEF compute_min_latency
  <2>2. \A p \in pairs : /\ p[1] \in actors /\ p[2] \in actors /\ p[1] # p[2]
                         /\ Latency[<<HostOf[p[1]], HostOf[p[2]]>>] = Lat(p[1], p[2])
    BY Zenon DEF Lat
  <2>3. all \in SUBSET Nat /\ all # {}
    BY Zenon, <2>2, LatencyAssumption, BoundsAssumption DEF Lat
  <2>4. Min(all) \in all /\ \A y \in all : Min(all) <= y
    <3> HIDE DEF all
    <3> QED BY Zenon, <2>3, MinNat
  <2>5. \A v, w \in actors : v # w => Lat(v, w) \in all
    <3> SUFFICES ASSUME NEW v \in actors, NEW w \in actors, v # w
                 PROVE  Lat(v, w) \in lats
      BY Zenon
    <3> DEFINE p == <<v, w>>
    <3>1. p \in pairs /\ p[1] = v /\ p[2] = w
      BY Zenon
    <3>2. Latency[<<HostOf[p[1]], HostOf[p[2]]>>] \in lats
      BY Zenon, <3>1
    <3> QED
      BY <3>1, <3>2, Zenon DEF Lat
  <2>6. \A y \in all : y = Infinity \/ \E v, w \in actors : v # w /\ y = Lat(v, w)
    BY Zenon, <2>2
  <2> HIDE DEF all
  <2>7. \A v, w \in actors : v # w => Min(all) <= Lat(v, w)
    BY Zenon, <2>4, <2>5
  <2>8. Min(all) = Infinity \/ \E v, w \in actors : v # w /\ Min(all) = Lat(v, w)
    BY Zenon, <2>4, <2>6
  <2>9. Min(all) \in Nat
    BY Zenon, <2>3, <2>4
  <2>10. ~(ForceMinLatency >= 0)
    BY <1>2, ForceAssumption
  <2> QED
    BY Zenon, <2>1, <2>7, <2>8, <2>9, <2>10
<1> QED
  BY <1>1, <1>2, ForceAssumption

LEMMA NextEvent ==
  ASSUME clock \in Nat, pending_comms \subseteq Comms, NEW event \in get_next_event
  PROVE  /\ event \in Nat
         /\ event > clock \/ event = Infinity
         /\ \A c \in pending_comms : event <= c.due
         /\ pending_comms = {} => event = Infinity
<1> DEFINE ends == {c.due : c \in pending_comms}
<1>1. ends \in SUBSET Nat
  BY Zenon DEF Comms
<1>2. CASE ends = {}
  BY Zenon, <1>2, BoundsAssumption DEF get_next_event
<1>3. CASE ends # {}
  <2>1. Min(ends) \in Nat /\ \A y \in ends : Min(ends) <= y
    <3> HIDE DEF ends
    <3> QED BY Zenon, <1>1, <1>3, MinNat
  <2>2. event \in clock + 1 .. Min(ends)
    BY Zenon, <1>3 DEF get_next_event
  <2>3. event \in Nat /\ event > clock /\ event <= Min(ends)
    BY <2>1, <2>2
  <2>4. \A c \in pending_comms : c.due \in ends /\ c.due \in Nat
    BY Zenon DEF Comms
  <2>5. pending_comms # {}
    BY Zenon, <1>3
  <2> HIDE DEF ends
  <2> QED
    BY <2>1, <2>3, <2>4, <2>5
<1> QED
  BY Zenon, <1>2, <1>3

LEMMA DeadlineChosen ==
  ASSUME clock \in Nat, tansiv_actors \subseteq VMs, pending_comms \subseteq Comms,
         clock < Infinity, goTo
  PROVE  /\ deadline' \in Nat
         /\ clock <= deadline' /\ deadline' <= Infinity
         /\ deadline' <= clock + compute_min_latency(LiveActors)
         /\ \A c \in pending_comms : deadline' <= c.due
         /\ pending_comms = {} =>
              deadline' \in {Infinity, clock + compute_min_latency(LiveActors)}
<1> DEFINE d == clock + compute_min_latency(LiveActors)
<1>1. PICK event \in get_next_event : deadline' = Min({event, Infinity, d})
  BY Zenon DEF goTo
<1>2. d \in Nat /\ clock <= d
  <2>1. LiveActors \in SUBSET VMs
    BY Zenon DEF LiveActors
  <2> QED
    BY <2>1, MinLatency
<1>3. /\ event \in Nat
      /\ event > clock \/ event = Infinity
      /\ \A c \in pending_comms : event <= c.due
      /\ pending_comms = {} => event = Infinity
  BY Zenon, NextEvent
<1> HIDE DEF d
<1>4. /\ Min({event, Infinity, d}) \in {event, Infinity, d}
      /\ \A y \in {event, Infinity, d} : Min({event, Infinity, d}) <= y
  BY Zenon, <1>2, <1>3, BoundsAssumption, MinNat
<1>5. \A c \in pending_comms : c.due \in Nat
  BY Zenon DEF Comms
<1>6. /\ deadline' \in {event, Infinity, d}
      /\ deadline' <= event /\ deadline' <= Infinity /\ deadline' <= d
  BY Zenon, <1>1, <1>4
<1>7. deadline' \in Nat /\ clock <= deadline'
  BY <1>2, <1>3, <1>6, BoundsAssumption
<1>8. \A c \in pending_comms : deadline' <= c.due
  BY <1>3, <1>5, <1>6, <1>7
<1> QED
  BY Zenon, <1>3, <1>6, <1>7, <1>8 DEF d

-----------------------------------------------------------------------------
(* Messages.                                                               *)
LEMMA ToVmKinds ==
  ASSUME NEW x \in ToVmMsgs
  PROVE  \/ x.type = "GotoDeadline" /\ x.deadline \in Nat /\ x = GotoDeadlineMsg(x.deadline)
         \/ x.type = "DeliverPacket" /\ x.packet \in Comms /\ x = DeliverPacketMsg(x.packet)
  BY Zenon DEF ToVmMsgs, GotoDeadlineMsg, DeliverPacketMsg

LEMMA FromVmKinds ==
  ASSUME NEW x \in FromVmMsgs
  PROVE  \/ x.type = "AtDeadline" /\ x = AtDeadlineMsg
         \/ x.type = "SendPacket" /\ x.packet \in Messages /\ x = SendPacketMsg(x.packet)
  BY DEF FromVmMsgs, AtDeadlineMsg, SendPacketMsg

LEMMA MsgTypes ==
  /\ \A d \in Nat : GotoDeadlineMsg(d) \in ToVmMsgs
  /\ \A c \in Comms : DeliverPacketMsg(c) \in ToVmMsgs
  /\ \A m \in Messages : SendPacketMsg(m) \in FromVmMsgs
  /\ AtDeadlineMsg \in FromVmMsgs
  BY Zenon DEF ToVmMsgs, FromVmMsgs, GotoDeadlineMsg, DeliverPacketMsg, SendPacketMsg

LEMMA MessageFields ==
  /\ \A m \in Messages : /\ m.src \in VMs /\ m.dst \in VMs \cup {Unknown}
                         /\ m.sent_time \in Nat /\ m.id \in 0..MaxSends
  /\ \A c \in Comms : c.msg \in Messages /\ c.due \in Nat
  BY Zenon DEF Messages, Comms

-----------------------------------------------------------------------------
(* Types.                                                                  *)
VmStates == [slice : Slices, prev : Nat, deadline : Nat]

CoordTypes ==
  /\ clock \in Nat
  /\ pc \in {"register", "loop", "collect", "send", "deliver", "aborted", "done"}
  /\ deadline \in Nat
  /\ todo \subseteq VMs
  /\ cur \in VMs \cup {Unknown}

SetTypes ==
  /\ vm_sockets \subseteq VMs
  /\ vm_sockets_trash \subseteq VMs
  /\ a_vm_stopped \in BOOLEAN /\ simulate_until_any_stop \in BOOLEAN
  /\ tansiv_actors \subseteq VMs

MsgSetTypes == messages \subseteq Messages /\ lost \subseteq Messages /\ pending_comms \subseteq Comms

ToTypes == to_vm \in [VMs -> Seq(ToVmMsgs)]
FromTypes == from_vm \in [VMs -> Seq(FromVmMsgs)]
VmTypes == vm \in [VMs -> VmStates]
HistoryTypes == inbox \in [VMs -> SUBSET Messages] /\ sent \in Seq(Messages) /\ Len(sent) <= MaxSends

LEMMA TypeParts ==
  TypeOK <=> CoordTypes /\ SetTypes /\ MsgSetTypes /\ ToTypes /\ FromTypes /\ VmTypes /\ HistoryTypes
  BY Zenon DEF TypeOK, CoordTypes, SetTypes, MsgSetTypes, ToTypes, FromTypes, VmTypes, HistoryTypes, VmStates

LEMMA TypePartsNext ==
  TypeOK' <=> CoordTypes' /\ SetTypes' /\ MsgSetTypes' /\ ToTypes' /\ FromTypes' /\ VmTypes' /\ HistoryTypes'
  BY Zenon DEF TypeOK, CoordTypes, SetTypes, MsgSetTypes, ToTypes, FromTypes, VmTypes, HistoryTypes, VmStates

LEMMA Bounds ==
  /\ MaxTime \in Nat /\ MaxSends \in Nat /\ Infinity \in Nat /\ MaxTime < Infinity
  /\ Grain \in Nat /\ Grain > 0
  BY BoundsAssumption, GrainAssumption

LEMMA EmptyLen ==
  ASSUME NEW S, NEW q \in Seq(S)
  PROVE  (q = <<>> <=> Len(q) = 0) /\ DOMAIN q = 1..Len(q) /\ Len(q) \in Nat
  OBVIOUS

LEMMA TailFacts ==
  ASSUME NEW S, NEW q \in Seq(S), q # <<>>
  PROVE  /\ Tail(q) \in Seq(S) /\ Len(q) \in Nat \ {0} /\ Len(Tail(q)) = Len(q) - 1
         /\ \A i \in DOMAIN Tail(q) : i + 1 \in DOMAIN q /\ Tail(q)[i] = q[i + 1]
         /\ Len(q) = 1 <=> Tail(q) = <<>>
         /\ Len(q) # 1 => Tail(q)[Len(Tail(q))] = q[Len(q)]
<1>1. Tail(q) \in Seq(S) /\ Len(q) \in Nat \ {0} /\ Len(Tail(q)) = Len(q) - 1
  OBVIOUS
<1>2. \A i \in DOMAIN Tail(q) : i + 1 \in DOMAIN q /\ Tail(q)[i] = q[i + 1]
  OBVIOUS
<1>3. Len(q) # 1 => Tail(q) # <<>> /\ Len(Tail(q)) \in DOMAIN Tail(q)
  <2>1. (Tail(q) = <<>> <=> Len(Tail(q)) = 0) /\ DOMAIN Tail(q) = 1..Len(Tail(q))
    BY Zenon, <1>1, EmptyLen
  <2> QED
    BY <1>1, <2>1
<1>4. Len(q) = 1 => Tail(q) = <<>>
  <2> SUFFICES ASSUME Len(q) = 1 PROVE Tail(q) = <<>>
    BY Zenon
  <2>1. Len(Tail(q)) = 0
    BY <1>1
  <2> QED
    BY Zenon, <1>1, <2>1, EmptyLen
<1>5. Len(q) # 1 => Tail(q)[Len(Tail(q))] = q[Len(q)]
  BY <1>1, <1>2, <1>3
<1> QED
  BY Zenon, <1>1, <1>2, <1>3, <1>4, <1>5

LEMMA TypeInit == Init => TypeOK
<1> SUFFICES ASSUME Init PROVE TypeOK
  BY Zenon
<1>1. CoordTypes
  BY Zenon DEF Init, CoordTypes
<1>2. SetTypes
  BY Zenon DEF Init, SetTypes
<1>3. MsgSetTypes /\ ToTypes /\ FromTypes
  BY DEF Init, MsgSetTypes, ToTypes, FromTypes
<1>4. VmTypes
  BY Zenon DEF Init, VmTypes, VmStates, Slices
<1>5. HistoryTypes
  BY Bounds DEF Init, HistoryTypes
<1> QED
  BY Zenon, <1>1, <1>2, <1>3, <1>4, <1>5, TypeParts

LEMMA Frames ==
  /\ UNCHANGED coordVars /\ CoordTypes => CoordTypes'
  /\ UNCHANGED setVars /\ SetTypes => SetTypes'
  /\ UNCHANGED msgVars /\ MsgSetTypes => MsgSetTypes'
  /\ UNCHANGED to_vm /\ ToTypes => ToTypes'
  /\ UNCHANGED from_vm /\ FromTypes => FromTypes'
  /\ UNCHANGED vm /\ VmTypes => VmTypes'
  /\ UNCHANGED <<inbox, sent>> /\ HistoryTypes => HistoryTypes'
  BY Zenon DEF coordVars, CoordTypes, setVars, SetTypes, msgVars, MsgSetTypes, ToTypes, FromTypes,
         VmTypes, HistoryTypes

(* What Becomes does to the VMs.                                           *)
LEMMA BecomesFields ==
  ASSUME VmTypes, NEW v \in VMs, NEW s \in Slices, Becomes(v, s)
  PROVE  /\ VmTypes'
         /\ vm'[v].slice = s /\ vm'[v].prev = vm[v].prev /\ vm'[v].deadline = vm[v].deadline
         /\ \A w \in VMs \ {v} : vm'[w] = vm[w]
  BY Zenon DEF VmTypes, VmStates, Becomes

(* What VmReceive does, for each kind of message.                          *)
LEMMA ReceiveFields ==
  ASSUME TypeOK, NEW v \in VMs, VmReceive(v)
  PROVE  /\ to_vm[v] # <<>> /\ Head(to_vm[v]) = to_vm[v][1] /\ to_vm[v][1] \in ToVmMsgs
         /\ ToTypes' /\ VmTypes' /\ HistoryTypes'
         /\ to_vm'[v] = Tail(to_vm[v])
         /\ \A w \in VMs \ {v} : to_vm'[w] = to_vm[w] /\ vm'[w] = vm[w] /\ inbox'[w] = inbox[w]
         /\ to_vm[v][1].type = "DeliverPacket" =>
              /\ to_vm[v][1].packet \in Comms
              /\ inbox'[v] = inbox[v] \cup {to_vm[v][1].packet.msg}
              /\ vm' = vm
         /\ to_vm[v][1].type # "DeliverPacket" =>
              /\ inbox' = inbox
              /\ to_vm[v][1].deadline \in Nat
              /\ to_vm[v][1] = GotoDeadlineMsg(to_vm[v][1].deadline)
              /\ IF to_vm[v][1].deadline = Infinity
                 THEN /\ vm'[v].slice = "ended" /\ vm'[v].prev = vm[v].prev
                      /\ vm'[v].deadline = vm[v].deadline
                 ELSE /\ vm'[v].slice = "running" /\ vm'[v].prev = vm[v].deadline
                      /\ vm'[v].deadline = to_vm[v][1].deadline
<1> DEFINE msg == to_vm[v][1]
<1>0. ToTypes /\ VmTypes /\ HistoryTypes
  BY Zenon, TypeParts
<1>1. to_vm[v] # <<>> /\ Head(to_vm[v]) = msg /\ msg \in ToVmMsgs /\ to_vm' = [to_vm EXCEPT ![v] = Tail(@)]
  BY <1>0 DEF VmReceive, ToTypes
<1>2. /\ ToTypes' /\ to_vm'[v] = Tail(to_vm[v])
      /\ \A w \in VMs \ {v} : to_vm'[w] = to_vm[w]
  BY <1>0, <1>1 DEF ToTypes
<1>3. \/ msg.type = "GotoDeadline" /\ msg.deadline \in Nat /\ msg = GotoDeadlineMsg(msg.deadline)
      \/ msg.type = "DeliverPacket" /\ msg.packet \in Comms
  BY Zenon, <1>1, ToVmKinds
<1> HIDE DEF msg
<1>4. CASE msg.type = "DeliverPacket"
  <2>1. msg.packet \in Comms /\ msg.packet.msg \in Messages
    BY Zenon, <1>3, <1>4, MessageFields
  <2>2. inbox' = [inbox EXCEPT ![v] = @ \cup {msg.packet.msg}] /\ vm' = vm /\ sent' = sent
    BY Zenon, <1>1, <1>4 DEF VmReceive
  <2>3. /\ HistoryTypes' /\ inbox'[v] = inbox[v] \cup {msg.packet.msg}
        /\ \A w \in VMs \ {v} : inbox'[w] = inbox[w]
    BY Zenon, <1>0, <2>1, <2>2 DEF HistoryTypes
  <2>4. VmTypes'
    BY Zenon, <1>0, <2>2, Frames
  <2> QED
    BY Zenon, <1>1, <1>2, <1>4, <2>1, <2>2, <2>3, <2>4 DEF msg
<1>5. CASE msg.type # "DeliverPacket"
  <2>1. msg.deadline \in Nat /\ msg = GotoDeadlineMsg(msg.deadline)
    BY Zenon, <1>3, <1>5
  <2>2. /\ inbox' = inbox /\ sent' = sent
        /\ vm' = [vm EXCEPT ![v] = IF msg.deadline = Infinity
                                   THEN [@ EXCEPT !.slice = "ended"]
                                   ELSE [slice |-> "running", prev |-> @.deadline,
                                         deadline |-> msg.deadline]]
    BY Zenon, <1>1, <1>5 DEF VmReceive
  <2>3. HistoryTypes'
    BY Zenon, <1>0, <2>2, Frames
  <2>4. /\ VmTypes'
        /\ \A w \in VMs \ {v} : vm'[w] = vm[w]
        /\ IF msg.deadline = Infinity
           THEN vm'[v].slice = "ended" /\ vm'[v].prev = vm[v].prev /\ vm'[v].deadline = vm[v].deadline
           ELSE vm'[v].slice = "running" /\ vm'[v].prev = vm[v].deadline /\ vm'[v].deadline = msg.deadline
    BY Zenon, <1>0, <2>1, <2>2 DEF VmTypes, VmStates, Slices
  <2> QED
    BY Zenon, <1>1, <1>2, <1>5, <2>1, <2>2, <2>3, <2>4 DEF msg
<1> QED
  BY Zenon, <1>4, <1>5

LEMMA TypeNext ==
  ASSUME TypeOK, clock < Infinity, \A m \in messages : m.src # m.dst, [Next]_vars
  PROVE  TypeOK'
<1>0. CoordTypes /\ SetTypes /\ MsgSetTypes /\ ToTypes /\ FromTypes /\ VmTypes /\ HistoryTypes
  BY Zenon, TypeParts
<1> DEFINE Parts == CoordTypes' /\ SetTypes' /\ MsgSetTypes' /\ ToTypes' /\ FromTypes' /\ VmTypes' /\ HistoryTypes'
<1> SUFFICES Parts
  BY Zenon, TypePartsNext
<1>1. ASSUME NEW v \in VMs, register_vm(v) PROVE Parts
  <2>1. Becomes(v, "forked") /\ "forked" \in Slices
    BY Zenon, <1>1 DEF register_vm, Becomes, Slices
  <2>2. VmTypes'
    BY Zenon, <1>0, <2>1, BecomesFields
  <2>3. CoordTypes'
    BY Zenon, <1>0, <1>1 DEF register_vm, CoordTypes
  <2> QED
    BY Zenon, <1>0, <1>1, <2>2, <2>3, Frames DEF register_vm
<1>2. ASSUME NEW v \in VMs, Listen(v) PROVE Parts
  <2>1. CoordTypes'
    BY Zenon, <1>0, <1>2 DEF Listen, CoordTypes
  <2> QED
    BY Zenon, <1>0, <1>2, <2>1, Frames DEF Listen, vmVars
<1>3. CASE Accept
  <2>1. CoordTypes'
    BY Zenon, <1>0, <1>3 DEF Accept, CoordTypes
  <2>2. SetTypes'
    BY Zenon, <1>0, <1>3 DEF Accept, CoordTypes, SetTypes
  <2> QED
    BY Zenon, <1>0, <1>3, <2>1, <2>2, Frames DEF Accept, vmVars
<1>4. CASE goTo
  <2>1. deadline' \in Nat
    BY Zenon, <1>0, <1>4, DeadlineChosen DEF CoordTypes, SetTypes, MsgSetTypes
  <2>2. GotoDeadlineMsg(simgridToVmTime(deadline')) \in ToVmMsgs
    BY Zenon, <2>1, FloorType, MsgTypes
  <2>3. ToTypes'
    BY <1>0, <1>4, <2>2 DEF goTo, ToTypes
  <2>4. CoordTypes'
    BY Zenon, <1>0, <1>4, <2>1 DEF goTo, CoordTypes, SetTypes
  <2>5. SetTypes'
    BY Zenon, <1>0, <1>4 DEF goTo, SetTypes, LiveActors
  <2> QED
    BY Zenon, <1>0, <1>4, <2>3, <2>4, <2>5, Frames DEF goTo
<1>5. CASE Receive
  <2>1. cur \in VMs /\ from_vm[cur] \in Seq(FromVmMsgs) /\ from_vm[cur] # <<>>
    BY Zenon, <1>0, <1>5 DEF Receive, CoordTypes, FromTypes
  <2>2. FromTypes'
    BY <1>0, <1>5, <2>1 DEF Receive, FromTypes
  <2>3. Head(from_vm[cur]) \in FromVmMsgs
    BY <2>1
  <2>4. CoordTypes'
    BY Zenon, <1>0, <1>5 DEF Receive, CoordTypes
  <2>5. MsgSetTypes'
    BY <1>0, <1>5, <2>3, FromVmKinds DEF Receive, MsgSetTypes
  <2> QED
    BY Zenon, <1>0, <1>5, <2>2, <2>4, <2>5, Frames DEF Receive
<1>6. CASE close_vm_socket
  <2>1. CoordTypes'
    BY Zenon, <1>0, <1>6 DEF close_vm_socket, CoordTypes
  <2>2. SetTypes'
    BY Zenon, <1>0, <1>6 DEF close_vm_socket, CoordTypes, SetTypes
  <2> QED
    BY Zenon, <1>0, <1>6, <2>1, <2>2, Frames DEF close_vm_socket, vmVars
<1>7. CASE EndGoTo
  <2>1. CoordTypes'
    BY Zenon, <1>0, <1>7 DEF EndGoTo, CoordTypes
  <2>2. SetTypes'
    BY Zenon, <1>0, <1>7 DEF EndGoTo, SetTypes
  <2> QED
    BY Zenon, <1>0, <1>7, <2>1, <2>2, Frames DEF EndGoTo, vmVars
<1>8. ASSUME NEW m \in messages, sendto_async(m) PROVE Parts
  <2>1. m \in Messages /\ m.sent_time \in Nat /\ m.src \in VMs /\ m.src # m.dst
    BY Zenon, <1>0, MessageFields DEF MsgSetTypes
  <2>2. clock' \in Nat
    BY Zenon, <1>0, <1>8, <2>1, MaxOfTwo DEF CoordTypes, sendto_async
  <2>3. CoordTypes'
    BY Zenon, <1>0, <1>8, <2>2 DEF CoordTypes, sendto_async
  <2>4. MsgSetTypes'
    <3>1. CASE m.dst \in VMs
      <4>1. PICK slack \in Slack : pending_comms' = pending_comms \cup
               {[msg |-> m, due |-> clock' + slack + Latency[<<HostOf[m.src], HostOf[m.dst]>>]]}
        BY Zenon, <1>8, <3>1 DEF sendto_async
      <4>2. slack \in Nat /\ Latency[<<HostOf[m.src], HostOf[m.dst]>>] \in Nat
        BY Zenon, <2>1, <3>1, SlackAssumption, LatencyAssumption
      <4>3. [msg |-> m, due |-> clock' + slack + Latency[<<HostOf[m.src], HostOf[m.dst]>>]] \in Comms
        BY <2>1, <2>2, <4>2 DEF Comms
      <4> QED
        BY Zenon, <1>0, <1>8, <3>1, <4>1, <4>3 DEF MsgSetTypes, sendto_async
    <3>2. CASE m.dst \notin VMs
      BY Zenon, <1>0, <1>8, <2>1, <3>2 DEF MsgSetTypes, sendto_async
    <3> QED
      BY Zenon, <3>1, <3>2
  <2> QED
    BY Zenon, <1>0, <1>8, <2>3, <2>4, Frames DEF sendto_async, vmVars
<1>9. CASE SleepUntilDeadline
  <2>1. CoordTypes'
    BY Zenon, <1>0, <1>9, MaxOfTwo DEF SleepUntilDeadline, CoordTypes
  <2> QED
    BY Zenon, <1>0, <1>9, <2>1, Frames DEF SleepUntilDeadline, vmVars
<1>10. ASSUME NEW c \in pending_comms, deliverMessage(c) PROVE Parts
  <2>1. c \in Comms /\ c.msg \in Messages /\ DeliverPacketMsg(c) \in ToVmMsgs
    BY Zenon, <1>0, MessageFields, MsgTypes DEF MsgSetTypes
  <2>2. MsgSetTypes'
    BY Zenon, <1>0, <1>10, <2>1 DEF MsgSetTypes, deliverMessage
  <2>3. ToTypes'
    <3>1. CASE c.msg.dst \in vm_sockets
      <4>1. c.msg.dst \in VMs /\ to_vm[c.msg.dst] \in Seq(ToVmMsgs)
        BY Zenon, <1>0, <3>1 DEF SetTypes, ToTypes
      <4>2. Append(to_vm[c.msg.dst], DeliverPacketMsg(c)) \in Seq(ToVmMsgs)
        BY <2>1, <4>1
      <4> QED
        BY Zenon, <1>0, <1>10, <3>1, <4>1, <4>2 DEF ToTypes, deliverMessage
    <3>2. CASE c.msg.dst \notin vm_sockets
      BY Zenon, <1>0, <1>10, <3>2 DEF ToTypes, deliverMessage
    <3> QED
      BY Zenon, <3>1, <3>2
  <2> QED
    BY Zenon, <1>0, <1>10, <2>2, <2>3, Frames DEF deliverMessage
<1>11. CASE EndSlice \/ end_simulation
  <2>1. CoordTypes'
    BY Zenon, <1>0, <1>11 DEF EndSlice, end_simulation, CoordTypes
  <2> QED
    BY Zenon, <1>0, <1>11, <2>1, Frames DEF EndSlice, end_simulation, vmVars
<1>12. ASSUME NEW v \in VMs, Vm(v) PROVE Parts
  <2> USE DEF Slices
  <2>1. CASE VmConnect(v)
    BY Zenon, <1>0, <2>1, Frames, BecomesFields DEF VmConnect
  <2>2. CASE VmReceive(v)
    BY Zenon, <1>0, <2>2, Frames, ReceiveFields DEF VmReceive
  <2>3. CASE VmSend(v)
    <3>1. PICK time \in vm[v].prev .. vm[v].deadline, dst \in (VMs \cup {Unknown}) \ {v} :
            /\ from_vm' = [from_vm EXCEPT ![v] = Append(@, SendPacketMsg(
                 [id |-> Len(sent), src |-> v, dst |-> dst, sent_time |-> time]))]
            /\ sent' = Append(sent, [id |-> Len(sent), src |-> v, dst |-> dst, sent_time |-> time])
      BY Zenon, <2>3 DEF VmSend
    <3> DEFINE m == [id |-> Len(sent), src |-> v, dst |-> dst, sent_time |-> time]
    <3>2. vm[v].prev \in Nat /\ vm[v].deadline \in Nat
      BY Zenon, <1>0 DEF VmTypes, VmStates
    <3>3. Len(sent) < MaxSends /\ Len(sent) \in Nat
      BY <1>0, <2>3 DEF VmSend, HistoryTypes
    <3>4. m \in Messages
      BY <3>2, <3>3, Bounds DEF Messages
    <3> HIDE DEF m
    <3>5. HistoryTypes'
      BY <1>0, <2>3, <3>1, <3>3, <3>4, Bounds DEF HistoryTypes, VmSend, m
    <3>6. FromTypes'
      BY <1>0, <3>1, <3>4, MsgTypes DEF FromTypes, m
    <3> QED
      BY Zenon, <1>0, <2>3, <3>5, <3>6, Frames DEF VmSend
  <2>4. CASE VmAtDeadline(v)
    <3>1. FromTypes'
      BY <1>0, <2>4, MsgTypes DEF FromTypes, VmAtDeadline
    <3> QED
      BY Zenon, <1>0, <2>4, <3>1, Frames, BecomesFields DEF VmAtDeadline
  <2>5. CASE VmEnd(v) \/ VmExit(v)
    BY Zenon, <1>0, <2>5, Frames, BecomesFields DEF VmEnd, VmExit
  <2> QED
    BY Zenon, <1>12, <2>1, <2>2, <2>3, <2>4, <2>5 DEF Vm
<1>13. CASE UNCHANGED vars
  BY Zenon, <1>0, <1>13, Frames DEF vars, vmVars
<1> HIDE DEF Parts
<1> QED
  BY Zenon, <1>1, <1>2, <1>3, <1>4, <1>5, <1>6, <1>7, <1>8, <1>9, <1>10, <1>11, <1>12, <1>13
  DEF Next, Coordinator

-----------------------------------------------------------------------------
(* The inductive invariant.  Where the coordinator is: goTo listens to one *)
(* socket at a time and never again in the slice, and a VM without a       *)
(* socket has exited or is not registered yet.                             *)
Control ==
  /\ pc = "register" =>
       /\ clock = 0 /\ deadline = 0
       /\ messages = {} /\ pending_comms = {} /\ lost = {}
       /\ vm_sockets_trash = {}
       /\ \A v \in VMs : v \in vm_sockets <=> v \notin todo
       /\ cur # Unknown => cur \in todo
       /\ \A v \in todo \ {cur} : vm[v].slice = "off"
  /\ pc = "collect" => cur \notin todo
  /\ pc \notin {"register", "collect"} => cur = Unknown
  /\ \A v \in VMs \ vm_sockets : pc = "register" \/ vm[v].slice = "exited"
  /\ \A v \in vm_sockets_trash : vm[v].slice = "exited"
  /\ pc # "collect" => vm_sockets \cap vm_sockets_trash = {}

(* SimGrid's clock is behind the deadline while the VMs and their messages *)
(* are looked after, and at the deadline otherwise.                        *)
Clocks ==
  /\ clock < Infinity
  /\ deadline <= Infinity
  /\ deadline # Infinity =>
       /\ clock <= deadline
       /\ pc \notin {"collect", "send", "aborted"} => clock = deadline

(* goTo has yet to hear the AtDeadline of VM v.                            *)
Awaited(v) == pc = "collect" /\ (v \in todo \/ v = cur)

(* Packet m was sent in the slice that ends at the deadline.               *)
InSlice(m) ==
  /\ deadline # Infinity
  /\ m.sent_time % Grain = 0
  /\ simgridToVmTime(clock) <= m.sent_time /\ m.sent_time <= simgridToVmTime(deadline)

(* What the coordinator has yet to read from VM v: packets of this slice,  *)
(* then AtDeadline, and nothing once the VM is not awaited.                *)
FromVm(v) ==
  /\ ~Awaited(v) => from_vm[v] = <<>>
  /\ \A i \in DOMAIN from_vm[v] :
       IF from_vm[v][i].type = "AtDeadline" THEN i = Len(from_vm[v])
       ELSE /\ InSlice(from_vm[v][i].packet)
            /\ from_vm[v][i].packet.src = v /\ from_vm[v][i].packet.dst # v

(* A VM that has not connected.                                            *)
OffVm(v) ==
  /\ pc = "register" /\ v \notin vm_sockets
  /\ to_vm[v] = <<>> /\ from_vm[v] = <<>>
  /\ vm[v].deadline = 0
  /\ vm[v].slice = "forked" <=> v = cur

(* A VM that waits for its first deadline.                                 *)
InitVm(v) ==
  /\ pc \in {"register", "loop", "collect", "done"}
  /\ clock = 0 /\ vm[v].deadline = 0
  /\ from_vm[v] = <<>>
  /\ pc = "collect" => Awaited(v) /\ to_vm[v] = <<GotoDeadlineMsg(simgridToVmTime(deadline))>>
  /\ pc # "collect" => to_vm[v] = <<>>
  /\ v \notin vm_sockets => v = cur

(* A VM that runs.                                                         *)
RunningVm(v) ==
  /\ Awaited(v)
  /\ to_vm[v] = <<>>
  /\ deadline # Infinity
  /\ vm[v].prev = simgridToVmTime(clock) /\ vm[v].deadline = simgridToVmTime(deadline)
  /\ \A i \in DOMAIN from_vm[v] : from_vm[v][i].type # "AtDeadline"

(* A VM at a deadline: it has still to read the next one, ...              *)
ToldVm(v) ==
  /\ Awaited(v)
  /\ to_vm[v] # <<>>
  /\ \A i \in DOMAIN to_vm[v] :
       IF i = Len(to_vm[v]) THEN to_vm[v][i] = GotoDeadlineMsg(simgridToVmTime(deadline))
       ELSE to_vm[v][i].type = "DeliverPacket"
  /\ from_vm[v] = <<>>
  /\ vm[v].deadline = simgridToVmTime(clock)

(* ... or has run this slice and goTo does not know, ...                   *)
HeardVm(v) ==
  /\ Awaited(v)
  /\ to_vm[v] = <<>>
  /\ from_vm[v] # <<>> /\ from_vm[v][Len(from_vm[v])].type = "AtDeadline"
  /\ deadline # Infinity /\ vm[v].deadline = simgridToVmTime(deadline)

(* ... or waits for the next slice.                                        *)
WaitingVm(v) ==
  /\ ~Awaited(v)
  /\ pc \in {"collect", "send"} => to_vm[v] = <<>>
  /\ \A i \in DOMAIN to_vm[v] : to_vm[v][i].type = "DeliverPacket"
  /\ deadline # Infinity /\ vm[v].deadline = simgridToVmTime(deadline)

VmInv(v) ==
  /\ FromVm(v)
  /\ vm[v].slice \in {"off", "forked"} => OffVm(v)
  /\ vm[v].slice = "init" => InitVm(v)
  /\ vm[v].slice = "running" => RunningVm(v)
  /\ vm[v].slice = "reached" => ToldVm(v) \/ HeardVm(v) \/ WaitingVm(v)

(* The messages goTo has collected and the communications of SimGrid.      *)
MsgInv ==
  /\ messages # {} => pc \in {"collect", "send", "aborted"}
  /\ \A m \in messages : InSlice(m) /\ m.src # m.dst
  /\ pc \in {"loop", "done"} => \A c \in pending_comms : c.due > clock

Inv == TypeOK /\ Control /\ Clocks /\ (\A v \in VMs : VmInv(v)) /\ MsgInv

LEMMA ControlNext ==
  ASSUME TypeOK, Control, [Next]_vars
  PROVE  Control'
<1>0. CoordTypes /\ SetTypes /\ MsgSetTypes /\ VmTypes
  BY Zenon, TypeParts
<1> USE DEF coordVars, setVars, msgVars, vmVars, CoordTypes, SetTypes
<1>1. ASSUME NEW v \in VMs, register_vm(v) PROVE Control'
  <2>1. Becomes(v, "forked") /\ "forked" \in Slices
    BY Zenon, <1>1 DEF register_vm, Becomes, Slices
  <2>2. \A w \in VMs \ {v} : vm'[w] = vm[w]
    BY Zenon, <1>0, <2>1, BecomesFields
  <2> QED
    BY <1>0, <1>1, <2>2, UnknownAssumption DEF register_vm, Control
<1>2. ASSUME NEW v \in VMs, Listen(v) PROVE Control'
  BY Zenon, <1>0, <1>2 DEF Listen, Control
<1>3. CASE Accept
  <2>1. cur \in VMs /\ cur \in todo /\ cur \notin vm_sockets /\ Unknown \notin todo
    BY Zenon, <1>0, <1>3, UnknownAssumption DEF Accept, Control
  <2>2. \A v \in VMs : v \in vm_sockets' <=> v \notin todo'
    BY Zenon, <1>3, <2>1 DEF Accept, Control
  <2>3. vm_sockets' \cap vm_sockets_trash' = {}
    BY Zenon, <1>3, <2>1 DEF Accept, Control
  <2>4. \A v \in VMs \ vm_sockets' : pc' = "register" \/ vm'[v].slice = "exited"
    BY Zenon, <1>3, <2>1, <2>2 DEF Accept
  <2> QED
    BY Zenon, <1>3, <2>1, <2>2, <2>3, <2>4 DEF Accept, Control
<1>4. CASE goTo
  BY Zenon, <1>0, <1>4, UnknownAssumption DEF goTo, Control
<1>5. CASE Receive
  BY Zenon, <1>0, <1>5, UnknownAssumption DEF Receive, Control
<1>6. CASE close_vm_socket
  BY Zenon, <1>0, <1>6, UnknownAssumption DEF close_vm_socket, Control
<1>7. CASE EndGoTo
  BY <1>0, <1>7 DEF EndGoTo, Control
<1>8. ASSUME NEW m \in messages, sendto_async(m) PROVE Control'
  BY Zenon, <1>0, <1>8 DEF sendto_async, Control
<1>9. CASE SleepUntilDeadline
  BY Zenon, <1>0, <1>9 DEF SleepUntilDeadline, Control
<1>10. ASSUME NEW c \in pending_comms, deliverMessage(c) PROVE Control'
  BY Zenon, <1>0, <1>10 DEF deliverMessage, Control
<1>11. CASE EndSlice \/ end_simulation
  BY Zenon, <1>0, <1>11 DEF EndSlice, end_simulation, Control
<1>12. ASSUME NEW v \in VMs, Vm(v) PROVE Control'
  <2>1. UNCHANGED <<coordVars, setVars, msgVars>>
    BY Zenon, <1>12 DEF Vm, VmConnect, VmReceive, VmSend, VmAtDeadline, VmEnd, VmExit
  <2>2. \A w \in VMs : vm[w].slice \in {"off", "exited"} => vm'[w].slice = vm[w].slice
    <3> USE DEF Slices
    <3>1. CASE VmConnect(v)
      BY Zenon, <1>0, <3>1, BecomesFields DEF VmConnect
    <3>2. CASE VmReceive(v)
      BY Zenon, <1>0, <3>2, ReceiveFields DEF VmReceive
    <3>3. CASE VmSend(v)
      BY Zenon, <3>3 DEF VmSend
    <3>4. CASE VmAtDeadline(v)
      BY Zenon, <1>0, <3>4, BecomesFields DEF VmAtDeadline
    <3>5. CASE VmEnd(v) \/ VmExit(v)
      BY Zenon, <1>0, <3>5, BecomesFields DEF VmEnd, VmExit
    <3> QED
      BY Zenon, <1>12, <3>1, <3>2, <3>3, <3>4, <3>5 DEF Vm
  <2> QED
    BY Zenon, <1>0, <2>1, <2>2 DEF Control
<1>13. CASE UNCHANGED vars
  BY Zenon, <1>13 DEF vars, Control
<1> QED
  BY Zenon, <1>1, <1>2, <1>3, <1>4, <1>5, <1>6, <1>7, <1>8, <1>9, <1>10, <1>11, <1>12, <1>13
  DEF Next, Coordinator

LEMMA VmFrame ==
  ASSUME NEW v \in VMs, Vm(v)
  PROVE  UNCHANGED <<coordVars, setVars, msgVars>>
  BY Zenon DEF Vm, VmConnect, VmReceive, VmSend, VmAtDeadline, VmEnd, VmExit

(* A message starts its communication between the clock and the deadline.  *)
LEMMA SendTimes ==
  ASSUME TypeOK, Clocks, MsgInv, NEW m \in messages, sendto_async(m)
  PROVE  /\ m \in Messages /\ m.sent_time \in Nat /\ deadline # Infinity
         /\ clock' = (IF clock >= m.sent_time THEN clock ELSE m.sent_time)
         /\ clock' \in Nat /\ clock <= clock' /\ clock' <= deadline /\ clock' < Infinity
         /\ \A n \in messages : m.sent_time <= n.sent_time /\ simgridToVmTime(clock') <= n.sent_time
<1>1. m \in Messages /\ m.sent_time \in Nat /\ clock \in Nat /\ deadline \in Nat
  BY Zenon, MessageFields DEF TypeOK
<1>2. /\ deadline # Infinity /\ clock <= deadline /\ deadline <= Infinity
      /\ m.sent_time <= simgridToVmTime(deadline) /\ m.sent_time % Grain = 0
  BY Zenon DEF Clocks, MsgInv, InSlice
<1>3. clock' = (IF clock >= m.sent_time THEN clock ELSE m.sent_time)
  BY Zenon, <1>1, MaxOfTwo DEF sendto_async
<1>4. simgridToVmTime(deadline) <= deadline /\ simgridToVmTime(deadline) \in Nat
  BY Zenon, <1>1, <1>2, FloorBounds, FloorType
<1>5. m.sent_time <= deadline /\ deadline < Infinity
  BY <1>1, <1>2, <1>4, Bounds
<1>6. clock' \in Nat /\ clock <= clock' /\ clock' <= deadline /\ clock' < Infinity
  BY <1>1, <1>2, <1>3, <1>5, Bounds
<1>7. ASSUME NEW n \in messages
      PROVE  m.sent_time <= n.sent_time /\ simgridToVmTime(clock') <= n.sent_time
  <2>1. m.sent_time <= n.sent_time
    BY Zenon DEF sendto_async, Earliest
  <2>2. simgridToVmTime(clock) <= n.sent_time
    BY Zenon DEF MsgInv, InSlice
  <2>3. simgridToVmTime(m.sent_time) = m.sent_time
    BY Zenon, <1>1, <1>2, FloorWhole
  <2> QED
    BY Zenon, <1>3, <2>1, <2>2, <2>3
<1> QED
  BY Zenon, <1>1, <1>2, <1>3, <1>6, <1>7

LEMMA ClocksNext ==
  ASSUME TypeOK, Control, Clocks, MsgInv, [Next]_vars
  PROVE  Clocks'
<1>0. CoordTypes /\ SetTypes /\ MsgSetTypes /\ VmTypes
  BY Zenon, TypeParts
<1> USE DEF coordVars, setVars, msgVars, vmVars, CoordTypes
<1>4. CASE goTo
  <2>1. deadline' \in Nat /\ clock <= deadline' /\ deadline' <= Infinity
    BY Zenon, <1>0, <1>4, DeadlineChosen DEF Clocks, SetTypes, MsgSetTypes
  <2> QED
    BY Zenon, <1>0, <1>4, <2>1 DEF goTo, Clocks
<1>8. ASSUME NEW m \in messages, sendto_async(m) PROVE Clocks'
  <2>1. clock' \in Nat /\ clock' <= deadline /\ clock' < Infinity
    BY Zenon, <1>8, SendTimes
  <2> QED
    BY Zenon, <1>8, <2>1 DEF sendto_async, Clocks
<1>9. CASE SleepUntilDeadline
  BY <1>0, <1>9, MaxOfTwo, Bounds DEF SleepUntilDeadline, Clocks
<1>10. CASE \/ \E v \in VMs : register_vm(v) \/ Listen(v)
            \/ Accept \/ Receive \/ close_vm_socket \/ EndGoTo
  BY Zenon, <1>0, <1>10 DEF register_vm, Listen, Accept, Receive, close_vm_socket, EndGoTo, Clocks, Control
<1>11. CASE (\E c \in pending_comms : deliverMessage(c)) \/ EndSlice \/ end_simulation
  BY Zenon, <1>0, <1>11 DEF deliverMessage, EndSlice, end_simulation, Clocks
<1>12. ASSUME NEW v \in VMs, Vm(v) PROVE Clocks'
  BY Zenon, <1>12, VmFrame DEF Clocks
<1>13. CASE UNCHANGED vars
  BY Zenon, <1>13 DEF vars, Clocks
<1> QED
  BY Zenon, <1>4, <1>8, <1>9, <1>10, <1>11, <1>12, <1>13 DEF Next, Coordinator

(* What goTo reads next.                                                   *)
LEMMA HeadFrom ==
  ASSUME TypeOK, \A v \in VMs : VmInv(v), Receive
  PROVE  /\ cur \in VMs /\ from_vm[cur] \in Seq(FromVmMsgs) /\ from_vm[cur] # <<>>
         /\ Head(from_vm[cur]) = from_vm[cur][1]
         /\ from_vm'[cur] = Tail(from_vm[cur])
         /\ \A v \in VMs \ {cur} : from_vm'[v] = from_vm[v]
         /\ from_vm[cur][1].type = "AtDeadline" =>
              Len(from_vm[cur]) = 1 /\ cur' = Unknown /\ messages' = messages
         /\ from_vm[cur][1].type # "AtDeadline" =>
              /\ from_vm[cur][1] = SendPacketMsg(from_vm[cur][1].packet)
              /\ from_vm[cur][1].packet \in Messages
              /\ InSlice(from_vm[cur][1].packet)
              /\ from_vm[cur][1].packet.src = cur /\ from_vm[cur][1].packet.dst # cur
              /\ cur' = cur /\ messages' = messages \cup {from_vm[cur][1].packet}
<1>0. CoordTypes /\ FromTypes
  BY Zenon, TypeParts
<1>1. cur \in VMs /\ from_vm[cur] \in Seq(FromVmMsgs) /\ from_vm[cur] # <<>>
  BY Zenon, <1>0 DEF Receive, CoordTypes, FromTypes
<1>2. Head(from_vm[cur]) = from_vm[cur][1] /\ 1 \in DOMAIN from_vm[cur] /\ from_vm[cur][1] \in FromVmMsgs
  BY <1>1
<1>3. from_vm'[cur] = Tail(from_vm[cur]) /\ \A v \in VMs \ {cur} : from_vm'[v] = from_vm[v]
  BY Zenon, <1>0, <1>1 DEF Receive, FromTypes
<1>4. FromVm(cur)
  BY Zenon, <1>1 DEF VmInv
<1>5. CASE from_vm[cur][1].type = "AtDeadline"
  BY ZenonT(30), <1>1, <1>2, <1>3, <1>4, <1>5 DEF Receive, FromVm
<1>6. CASE from_vm[cur][1].type # "AtDeadline"
  <2>1. /\ InSlice(from_vm[cur][1].packet)
        /\ from_vm[cur][1].packet.src = cur /\ from_vm[cur][1].packet.dst # cur
    BY Zenon, <1>2, <1>4, <1>6 DEF FromVm
  <2>2. from_vm[cur][1] = SendPacketMsg(from_vm[cur][1].packet) /\ from_vm[cur][1].packet \in Messages
    BY Zenon, <1>2, <1>6, FromVmKinds
  <2>3. cur' = cur /\ messages' = messages \cup {from_vm[cur][1].packet}
    BY Zenon, <1>2, <1>6 DEF Receive
  <2> QED
    BY Zenon, <1>1, <1>2, <1>3, <1>6, <2>1, <2>2, <2>3
<1> QED
  BY Zenon, <1>5, <1>6

LEMMA MsgInvNext ==
  ASSUME Inv, [Next]_vars
  PROVE  MsgInv'
<1>0. TypeOK /\ Control /\ Clocks /\ MsgInv /\ (\A v \in VMs : VmInv(v)) /\ CoordTypes /\ MsgSetTypes
  BY Zenon, TypeParts DEF Inv
<1> USE DEF coordVars, setVars, msgVars, vmVars
<1>1. ASSUME UNCHANGED <<clock, deadline>>, messages' = messages
      PROVE  \A m \in messages' : InSlice(m)' /\ m.src # m.dst
  BY Zenon, <1>0, <1>1 DEF MsgInv, InSlice, simgridToVmTime
<1>4. CASE goTo
  BY Zenon, <1>0, <1>4 DEF goTo, MsgInv
<1>5. CASE Receive
  <2>1. UNCHANGED <<clock, deadline, pc, pending_comms>> /\ pc = "collect"
    BY Zenon, <1>5 DEF Receive
  <2>2. \A m \in messages' : InSlice(m) /\ m.src # m.dst
    BY Zenon, <1>0, <1>5, HeadFrom DEF MsgInv
  <2>3. \A m \in messages' : InSlice(m)' /\ m.src # m.dst
    BY Zenon, <2>1, <2>2 DEF InSlice, simgridToVmTime
  <2> QED
    BY Zenon, <2>1, <2>3 DEF MsgInv
<1>8. ASSUME NEW m \in messages, sendto_async(m) PROVE MsgInv'
  <2>1. /\ deadline' = deadline /\ deadline # Infinity
        /\ messages' \subseteq messages
        /\ \A n \in messages : simgridToVmTime(clock') <= n.sent_time
    BY Zenon, <1>0, <1>8, SendTimes DEF sendto_async
  <2>2. \A n \in messages' : InSlice(n)' /\ n.src # n.dst
    BY Zenon, <1>0, <2>1 DEF MsgInv, InSlice, simgridToVmTime
  <2>3. pc' \in {"send", "aborted"}
    BY Zenon, <1>8 DEF sendto_async
  <2> QED
    BY Zenon, <2>2, <2>3 DEF MsgInv
<1>9. CASE SleepUntilDeadline
  BY Zenon, <1>9 DEF SleepUntilDeadline, MsgInv
<1>10. CASE (\E v \in VMs : register_vm(v) \/ Listen(v)) \/ close_vm_socket \/ EndGoTo
  <2>1. UNCHANGED <<clock, deadline, messages, pending_comms>>
    BY Zenon, <1>10 DEF register_vm, Listen, close_vm_socket, EndGoTo
  <2>2. pc' = pc \/ (pc = "collect" /\ pc' = "send")
    BY Zenon, <1>10 DEF register_vm, Listen, close_vm_socket, EndGoTo
  <2> QED
    BY Zenon, <1>0, <1>1, <2>1, <2>2 DEF MsgInv
<1>3. CASE Accept
  BY Zenon, <1>0, <1>3 DEF Accept, MsgInv, Control
<1>11. CASE EndSlice \/ end_simulation
  <2>1. UNCHANGED <<clock, deadline, messages, pending_comms>> /\ messages = {}
    BY Zenon, <1>0, <1>11 DEF EndSlice, end_simulation, MsgInv
  <2> QED
    BY Zenon, <1>0, <1>11, <2>1 DEF MsgInv, EndSlice, end_simulation
<1>14. ASSUME NEW c \in pending_comms, deliverMessage(c) PROVE MsgInv'
  <2>1. UNCHANGED <<clock, deadline, messages, pc>> /\ pc = "deliver" /\ messages = {}
    BY Zenon, <1>0, <1>14 DEF deliverMessage, MsgInv
  <2> QED
    BY Zenon, <2>1 DEF MsgInv
<1>12. CASE (\E v \in VMs : Vm(v)) \/ UNCHANGED vars
  <2>1. UNCHANGED <<clock, deadline, pc, messages, pending_comms>>
    BY Zenon, <1>12, VmFrame DEF vars
  <2> QED
    BY Zenon, <1>0, <1>1, <2>1 DEF MsgInv
<1> QED
  BY <1>3, <1>4, <1>5, <1>8, <1>9, <1>10, <1>11, <1>12, <1>14 DEF Next, Coordinator

-----------------------------------------------------------------------------
(* The VMs, action by action.                                              *)
LEMMA VmInvFrame ==
  ASSUME NEW w \in VMs, VmInv(w), UNCHANGED <<clock, deadline, pc, todo, cur, vm_sockets>>,
         vm'[w] = vm[w], to_vm'[w] = to_vm[w], from_vm'[w] = from_vm[w]
  PROVE  VmInv(w)'
<1>1. Awaited(w)' <=> Awaited(w)
  BY Zenon DEF Awaited
<1>2. FromVm(w)'
  BY ZenonT(30), <1>1 DEF VmInv, FromVm, InSlice, simgridToVmTime
<1>3. vm[w].slice \in {"off", "forked"} => OffVm(w)'
  BY ZenonT(30) DEF VmInv, OffVm
<1>4. vm[w].slice = "init" => InitVm(w)'
  BY ZenonT(30), <1>1 DEF VmInv, InitVm, simgridToVmTime
<1>5. vm[w].slice = "running" => RunningVm(w)'
  BY ZenonT(30), <1>1 DEF VmInv, RunningVm, simgridToVmTime
<1>6. ToldVm(w) => ToldVm(w)'
  BY Zenon, <1>1 DEF ToldVm, simgridToVmTime
<1>7. HeardVm(w) => HeardVm(w)'
  BY Zenon, <1>1 DEF HeardVm, simgridToVmTime
<1>8. WaitingVm(w) => WaitingVm(w)'
  BY Zenon, <1>1 DEF WaitingVm, simgridToVmTime
<1> QED
  BY Zenon, <1>2, <1>3, <1>4, <1>5, <1>6, <1>7, <1>8 DEF VmInv

LEMMA QuietFrom ==
  ASSUME NEW v \in VMs, FromVm(v), ~Awaited(v), from_vm' = from_vm PROVE FromVm(v)'
<1>1. from_vm'[v] = <<>>
  BY Zenon DEF FromVm
<1>2. DOMAIN from_vm'[v] = {}
  BY <1>1
<1> QED
  BY Zenon, <1>1, <1>2 DEF FromVm

LEMMA VmInvRegister ==
  ASSUME Inv, NEW v \in VMs, register_vm(v) \/ Accept
  PROVE  \A w \in VMs : VmInv(w)'
<1>0. TypeOK /\ Control /\ VmTypes /\ CoordTypes /\ SetTypes
  BY Zenon, TypeParts DEF Inv
<1> SUFFICES ASSUME NEW w \in VMs PROVE VmInv(w)'
  BY Zenon
<1>1. VmInv(w)
  BY Zenon DEF Inv
<1>2. /\ pc = "register" /\ pc' \in {"register", "loop"} /\ ~Awaited(w) /\ ~Awaited(w)'
      /\ UNCHANGED <<clock, deadline, to_vm, from_vm>>
  BY Zenon DEF register_vm, Accept, vmVars, Awaited
<1>3. from_vm[w] = <<>> /\ FromVm(w)'
  <2>1. from_vm[w] = <<>>
    BY Zenon, <1>1, <1>2 DEF VmInv, FromVm
  <2>2. FromVm(w)'
    BY Zenon, <1>1, <1>2, QuietFrom DEF VmInv
  <2> QED
    BY Zenon, <2>1, <2>2
<1>4. vm[w].slice \notin {"running"}
  BY Zenon, <1>1, <1>2 DEF VmInv, RunningVm
<1>5. vm[w].slice = "reached" => WaitingVm(w)
  BY Zenon, <1>1, <1>2 DEF VmInv, ToldVm, HeardVm
<1>6. CASE register_vm(v)
  <2>1. Becomes(v, "forked") /\ "forked" \in Slices
    BY Zenon, <1>6 DEF register_vm, Becomes, Slices
  <2>2. /\ vm'[v].slice = "forked" /\ vm'[v].deadline = vm[v].deadline
        /\ \A x \in VMs \ {v} : vm'[x] = vm[x]
    BY Zenon, <1>0, <2>1, BecomesFields
  <2>3. pc' = "register" /\ cur = Unknown /\ cur' = v /\ vm_sockets' = vm_sockets /\ v \in todo
    BY Zenon, <1>6 DEF register_vm, setVars
  <2>4. CASE w = v
    <3>1. vm[v].slice = "off" /\ v \notin vm_sockets
      BY Zenon, <1>0, <1>2, <2>3, UnknownAssumption DEF Control
    <3>2. OffVm(w)
      BY Zenon, <1>1, <2>4, <3>1 DEF VmInv
    <3>3. OffVm(w)'
      BY Zenon, <1>2, <2>2, <2>3, <2>4, <3>2 DEF OffVm
    <3> QED
      BY Zenon, <1>3, <2>2, <2>4, <3>3 DEF VmInv
  <2>5. CASE w # v
    <3>1. vm'[w] = vm[w]
      BY Zenon, <2>2, <2>5
    <3>2. vm[w].slice \in {"off", "forked"} => OffVm(w)'
      BY Zenon, <1>1, <1>2, <2>3, <2>5, <3>1, UnknownAssumption DEF VmInv, OffVm
    <3>3. vm[w].slice = "init" => InitVm(w)'
      BY Zenon, <1>1, <1>2, <2>3, <3>1, UnknownAssumption DEF VmInv, InitVm
    <3>4. vm[w].slice = "reached" => WaitingVm(w)'
      BY ZenonT(30), <1>2, <1>5, <2>3, <3>1 DEF WaitingVm, simgridToVmTime
    <3> QED
      BY Zenon, <1>3, <1>4, <3>1, <3>2, <3>3, <3>4 DEF VmInv
  <2> QED
    BY Zenon, <2>4, <2>5
<1>7. CASE Accept
  <2>1. /\ vm' = vm /\ cur \in VMs /\ cur \in todo /\ cur' = Unknown
        /\ vm_sockets' = vm_sockets \cup {cur} /\ vm[cur].slice \in {"init", "exited"}
        /\ pc' = IF todo = {cur} THEN "loop" ELSE "register"
    BY Zenon, <1>0, <1>7 DEF Accept, vmVars, CoordTypes, Control
  <2>2. vm[w].slice \in {"off", "forked"} => OffVm(w)'
    <3> SUFFICES ASSUME vm[w].slice \in {"off", "forked"} PROVE OffVm(w)'
      BY Zenon
    <3>1. OffVm(w) /\ w # cur
      BY Zenon, <1>1, <2>1 DEF VmInv
    <3>2. w \in todo
      BY Zenon, <1>0, <3>1 DEF OffVm, Control
    <3>3. pc' = "register"
      BY Zenon, <2>1, <3>1, <3>2
    <3> QED
      BY Zenon, <1>2, <2>1, <3>1, <3>3, UnknownAssumption DEF OffVm
  <2>3. vm[w].slice = "init" => InitVm(w)'
    BY ZenonT(30), <1>1, <1>2, <2>1 DEF VmInv, InitVm
  <2>4. vm[w].slice = "reached" => WaitingVm(w)'
    BY ZenonT(30), <1>2, <1>5, <2>1 DEF WaitingVm, simgridToVmTime
  <2> QED
    BY Zenon, <1>3, <1>4, <2>1, <2>2, <2>3, <2>4 DEF VmInv
<1> QED
  BY Zenon, <1>6, <1>7

LEMMA VmInvGoTo ==
  ASSUME Inv, goTo
  PROVE  \A w \in VMs : VmInv(w)'
<1>0. TypeOK /\ Control /\ Clocks /\ ToTypes /\ VmTypes /\ CoordTypes /\ SetTypes /\ MsgSetTypes
  BY Zenon, TypeParts DEF Inv
<1> SUFFICES ASSUME NEW w \in VMs PROVE VmInv(w)'
  BY Zenon
<1>1. VmInv(w)
  BY Zenon DEF Inv
<1>2. /\ pc = "loop" /\ pc' = "collect" /\ ~Awaited(w) /\ todo' = vm_sockets /\ cur' = Unknown
      /\ UNCHANGED <<clock, vm, from_vm, vm_sockets>>
  BY Zenon, <1>0 DEF goTo, Awaited, Control
<1>3. deadline' \in Nat /\ simgridToVmTime(deadline') \in Nat
  BY Zenon, <1>0, DeadlineChosen, FloorType DEF Clocks, CoordTypes, SetTypes, MsgSetTypes
<1> DEFINE g == GotoDeadlineMsg(simgridToVmTime(deadline'))
<1>4. to_vm'[w] = IF w \in vm_sockets THEN Append(to_vm[w], g) ELSE to_vm[w]
  BY Zenon DEF goTo
<1>5. FromVm(w)'
  BY Zenon, <1>1, <1>2, QuietFrom DEF VmInv
<1>6. vm[w].slice \notin {"off", "forked", "running"}
  BY Zenon, <1>1, <1>2 DEF VmInv, OffVm, RunningVm
<1>7. vm[w].slice # "exited" => w \in vm_sockets /\ Awaited(w)'
  BY Zenon, <1>0, <1>2 DEF Control, Awaited
<1>8. to_vm[w] \in Seq(ToVmMsgs)
  BY Zenon, <1>0 DEF ToTypes
<1> HIDE DEF g
<1>9. vm[w].slice = "init" => InitVm(w)'
  <2> SUFFICES ASSUME vm[w].slice = "init" PROVE InitVm(w)'
    BY Zenon
  <2>1. InitVm(w)
    BY Zenon, <1>1 DEF VmInv
  <2>2. to_vm'[w] = <<g>>
    <3>1. to_vm[w] = <<>> /\ w \in vm_sockets
      BY Zenon, <1>2, <1>7, <2>1 DEF InitVm
    <3>2. to_vm'[w] = Append(<<>>, g)
      BY Zenon, <1>4, <3>1
    <3> QED
      BY <3>2
  <2> QED
    BY Zenon, <1>2, <1>7, <2>1, <2>2 DEF InitVm, g, simgridToVmTime
<1>10. vm[w].slice = "reached" => ToldVm(w)'
  <2> SUFFICES ASSUME vm[w].slice = "reached" PROVE ToldVm(w)'
    BY Zenon
  <2>1. WaitingVm(w)
    BY Zenon, <1>1, <1>2 DEF VmInv, ToldVm, HeardVm
  <2>2. vm[w].deadline = simgridToVmTime(clock)
    BY Zenon, <1>0, <1>2, <2>1 DEF Clocks, WaitingVm
  <2>3. to_vm'[w] = Append(to_vm[w], g)
    BY Zenon, <1>4, <1>7
  <2>4. \A i \in DOMAIN to_vm'[w] :
          IF i = Len(to_vm'[w]) THEN to_vm'[w][i] = g ELSE to_vm'[w][i].type = "DeliverPacket"
    BY <1>8, <2>1, <2>3 DEF WaitingVm
  <2>5. to_vm'[w] # <<>> /\ from_vm'[w] = <<>>
    BY <1>1, <1>2, <1>8, <2>3 DEF VmInv, FromVm
  <2> QED
    BY Zenon, <1>2, <1>7, <2>2, <2>4, <2>5 DEF ToldVm, g, simgridToVmTime
<1> QED
  BY Zenon, <1>2, <1>5, <1>6, <1>9, <1>10 DEF VmInv

LEMMA VmInvListen ==
  ASSUME Inv, NEW v \in VMs, Listen(v)
  PROVE  \A w \in VMs : VmInv(w)'
<1> SUFFICES ASSUME NEW w \in VMs PROVE VmInv(w)'
  BY Zenon
<1>1. VmInv(w)
  BY Zenon DEF Inv
<1>2. /\ pc = "collect" /\ pc' = "collect" /\ (Awaited(w)' <=> Awaited(w))
      /\ UNCHANGED <<clock, deadline, vm, to_vm, from_vm, vm_sockets>>
  BY Zenon, UnknownAssumption DEF Listen, Awaited, setVars, vmVars
<1>3. FromVm(w)'
  BY Zenon, <1>1, <1>2 DEF VmInv, FromVm, InSlice, simgridToVmTime
<1>4. vm[w].slice \notin {"off", "forked"}
  BY Zenon, <1>1, <1>2 DEF VmInv, OffVm
<1>5. vm[w].slice = "init" => InitVm(w)'
  <2>1. cur = Unknown
    BY Zenon DEF Listen
  <2> QED
    BY Zenon, <1>1, <1>2, <2>1, UnknownAssumption DEF VmInv, InitVm, simgridToVmTime
<1>6. vm[w].slice = "running" => RunningVm(w)'
  BY Zenon, <1>1, <1>2 DEF VmInv, RunningVm, simgridToVmTime
<1>7. ToldVm(w) => ToldVm(w)'
  BY Zenon, <1>2 DEF ToldVm, simgridToVmTime
<1>8. HeardVm(w) => HeardVm(w)'
  BY Zenon, <1>2 DEF HeardVm, simgridToVmTime
<1>9. WaitingVm(w) => WaitingVm(w)'
  BY Zenon, <1>2 DEF WaitingVm, simgridToVmTime
<1> QED
  BY Zenon, <1>1, <1>2, <1>3, <1>4, <1>5, <1>6, <1>7, <1>8, <1>9 DEF VmInv

LEMMA VmInvReceive ==
  ASSUME Inv, Receive
  PROVE  \A w \in VMs : VmInv(w)'
<1>0. TypeOK /\ Control /\ (\A v \in VMs : VmInv(v)) /\ cur \in VMs
  BY Zenon, HeadFrom DEF Inv
<1> SUFFICES ASSUME NEW w \in VMs PROVE VmInv(w)'
  BY Zenon
<1>1. VmInv(w)
  BY Zenon, <1>0
<1>2. /\ pc = "collect" /\ pc' = "collect" /\ Awaited(cur)
      /\ UNCHANGED <<clock, deadline, vm, to_vm, todo, vm_sockets>>
  BY Zenon DEF Receive, Awaited, setVars
<1>3. vm[w].slice \notin {"off", "forked"}
  BY Zenon, <1>1, <1>2 DEF VmInv, OffVm
<1>4. CASE w # cur
  <2>1. from_vm'[w] = from_vm[w] /\ (cur' = cur \/ cur' = Unknown)
    BY Zenon, <1>0, <1>4, HeadFrom
  <2>2. Awaited(w)' <=> Awaited(w)
    BY Zenon, <1>2, <1>4, <2>1, UnknownAssumption DEF Awaited
  <2>3. FromVm(w)'
    BY Zenon, <1>1, <1>2, <2>1, <2>2 DEF VmInv, FromVm, InSlice, simgridToVmTime
  <2>4. vm[w].slice = "init" => InitVm(w)'
    BY Zenon, <1>1, <1>2, <1>4, <2>1, <2>2 DEF VmInv, InitVm, simgridToVmTime
  <2>5. vm[w].slice = "running" => RunningVm(w)'
    BY Zenon, <1>1, <1>2, <2>1, <2>2 DEF VmInv, RunningVm, simgridToVmTime
  <2>6. ToldVm(w) => ToldVm(w)'
    BY Zenon, <1>2, <2>1, <2>2 DEF ToldVm, simgridToVmTime
  <2>7. HeardVm(w) => HeardVm(w)'
    BY Zenon, <1>2, <2>1, <2>2 DEF HeardVm, simgridToVmTime
  <2>8. WaitingVm(w) => WaitingVm(w)'
    BY Zenon, <1>2, <2>1, <2>2 DEF WaitingVm, simgridToVmTime
  <2> QED
    BY Zenon, <1>1, <1>2, <1>3, <2>3, <2>4, <2>5, <2>6, <2>7, <2>8 DEF VmInv
<1>5. CASE w = cur
  <2> DEFINE q == from_vm[w]
  <2>1. q \in Seq(FromVmMsgs) /\ q # <<>> /\ from_vm'[w] = Tail(q)
    BY Zenon, <1>0, <1>5, HeadFrom
  <2>2. FromVm(w) /\ vm[w].slice # "init" /\ ~ToldVm(w) /\ ~WaitingVm(w)
    BY Zenon, <1>1, <1>2, <1>5, <2>1 DEF VmInv, InitVm, ToldVm, WaitingVm
  <2>3. CASE q[1].type = "AtDeadline"
    <3>1. Len(q) = 1 /\ cur' = Unknown
      BY Zenon, <1>0, <1>5, <2>3, HeadFrom
    <3>2. Tail(q) = <<>>
      BY Zenon, <2>1, <3>1, TailFacts
    <3>3. ~Awaited(w)'
      BY Zenon, <1>0, <1>2, <1>5, <3>1, UnknownAssumption DEF Awaited, Control
    <3>4. FromVm(w)'
      BY <2>1, <3>2 DEF FromVm
    <3>5. vm[w].slice # "running"
      BY <1>1, <2>1, <2>3 DEF VmInv, RunningVm
    <3>6. HeardVm(w) => WaitingVm(w)'
      BY <1>2, <3>3 DEF HeardVm, WaitingVm, simgridToVmTime
    <3> QED
      BY Zenon, <1>1, <1>2, <1>3, <2>2, <3>4, <3>5, <3>6 DEF VmInv
  <2>4. CASE q[1].type # "AtDeadline"
    <3>1. cur' = cur /\ Awaited(w)'
      BY Zenon, <1>0, <1>2, <1>5, <2>4, HeadFrom DEF Awaited
    <3>2. /\ Tail(q) \in Seq(FromVmMsgs) /\ Len(Tail(q)) = Len(q) - 1
          /\ \A i \in DOMAIN Tail(q) : i + 1 \in DOMAIN q /\ Tail(q)[i] = q[i + 1]
      BY <2>1
    <3>3. \A i \in DOMAIN Tail(q) :
            IF Tail(q)[i].type = "AtDeadline" THEN i = Len(Tail(q))
            ELSE InSlice(Tail(q)[i].packet) /\ Tail(q)[i].packet.src = w /\ Tail(q)[i].packet.dst # w
      BY <2>1, <2>2, <3>2 DEF FromVm
    <3>4. FromVm(w)'
      BY Zenon, <1>2, <2>1, <3>1, <3>3 DEF FromVm, InSlice, simgridToVmTime
    <3>5. vm[w].slice = "running" => RunningVm(w)'
      BY Zenon, <1>1, <1>2, <2>1, <3>1, <3>2 DEF VmInv, RunningVm, simgridToVmTime
    <3>6. HeardVm(w) => HeardVm(w)'
      <4> SUFFICES ASSUME HeardVm(w) PROVE HeardVm(w)'
        BY Zenon
      <4>1. q[Len(q)].type = "AtDeadline" /\ Len(q) # 1 /\ Len(q) \in Nat /\ Len(q) # 0
        BY <2>1, <2>4 DEF HeardVm
      <4>2. Tail(q) # <<>> /\ Tail(q)[Len(Tail(q))] = q[Len(q)]
        BY Zenon, <2>1, <4>1, TailFacts
      <4> QED
        BY Zenon, <1>2, <2>1, <3>1, <4>1, <4>2 DEF HeardVm, simgridToVmTime
    <3> QED
      BY <1>1, <1>2, <1>3, <2>2, <3>4, <3>5, <3>6 DEF VmInv
  <2> QED
    BY Zenon, <2>3, <2>4
<1> QED
  BY Zenon, <1>4, <1>5

LEMMA VmInvClose ==
  ASSUME Inv, close_vm_socket
  PROVE  \A w \in VMs : VmInv(w)'
<1>0. TypeOK /\ Control /\ CoordTypes
  BY Zenon, TypeParts DEF Inv
<1> SUFFICES ASSUME NEW w \in VMs PROVE VmInv(w)'
  BY Zenon
<1>1. VmInv(w)
  BY Zenon DEF Inv
<1>2. /\ pc = "collect" /\ pc' = "collect" /\ cur \in VMs /\ cur' = Unknown
      /\ UNCHANGED <<clock, deadline, vm, to_vm, from_vm, todo, vm_sockets>>
  BY Zenon, <1>0 DEF close_vm_socket, vmVars, CoordTypes
<1>3. CASE w # cur
  <2>2. Awaited(w)' <=> Awaited(w)
    BY Zenon, <1>2, <1>3, UnknownAssumption DEF Awaited
  <2>3. FromVm(w)'
    BY Zenon, <1>1, <1>2, <2>2 DEF VmInv, FromVm, InSlice, simgridToVmTime
  <2>4. vm[w].slice = "init" => InitVm(w)'
    BY Zenon, <1>1, <1>2, <1>3, <2>2 DEF VmInv, InitVm, simgridToVmTime
  <2>5. vm[w].slice = "running" => RunningVm(w)'
    BY Zenon, <1>1, <1>2, <2>2 DEF VmInv, RunningVm, simgridToVmTime
  <2>6. ToldVm(w) => ToldVm(w)'
    BY Zenon, <1>2, <2>2 DEF ToldVm, simgridToVmTime
  <2>7. HeardVm(w) => HeardVm(w)'
    BY Zenon, <1>2, <2>2 DEF HeardVm, simgridToVmTime
  <2>8. WaitingVm(w) => WaitingVm(w)'
    BY Zenon, <1>2, <2>2 DEF WaitingVm, simgridToVmTime
  <2>9. vm[w].slice \notin {"off", "forked"}
    BY Zenon, <1>1, <1>2 DEF VmInv, OffVm
  <2> QED
    BY <1>1, <1>2, <2>3, <2>4, <2>5, <2>6, <2>7, <2>8, <2>9 DEF VmInv
<1>4. CASE w = cur
  <2>1. vm[w].slice = "exited" /\ from_vm[w] = <<>>
    BY Zenon, <1>4 DEF close_vm_socket
  <2> QED
    BY <1>2, <2>1 DEF VmInv, FromVm
<1> QED
  BY Zenon, <1>3, <1>4

(* After goTo no VM is awaited; the coordinator's other steps leave the    *)
(* VMs and the deadline alone.                                             *)
LEMMA VmInvQuiet ==
  ASSUME Inv, EndGoTo \/ SleepUntilDeadline \/ EndSlice \/ end_simulation
              \/ \E m \in messages : sendto_async(m)
  PROVE  \A w \in VMs : VmInv(w)'
<1>0. TypeOK /\ Control
  BY Zenon DEF Inv
<1> SUFFICES ASSUME NEW w \in VMs PROVE VmInv(w)'
  BY Zenon
<1>1. VmInv(w)
  BY Zenon DEF Inv
<1> USE DEF setVars, vmVars
<1>2. /\ pc # "register" /\ pc' \in {"send", "deliver", "loop", "done", "aborted"}
      /\ UNCHANGED <<deadline, vm, to_vm, from_vm, cur>>
      /\ vm_sockets' \subseteq vm_sockets
      /\ ~Awaited(w) /\ ~Awaited(w)'
  BY Zenon, <1>0, UnknownAssumption
  DEF EndGoTo, SleepUntilDeadline, EndSlice, end_simulation, sendto_async, Control, Awaited
<1>3. from_vm'[w] = <<>> /\ FromVm(w)'
  <2>1. from_vm'[w] = <<>>
    BY Zenon, <1>1, <1>2 DEF VmInv, FromVm
  <2>2. FromVm(w)'
    BY Zenon, <1>1, <1>2, QuietFrom DEF VmInv
  <2> QED
    BY Zenon, <2>1, <2>2
<1>4. vm[w].slice \notin {"off", "forked", "running"}
  BY Zenon, <1>1, <1>2 DEF VmInv, OffVm, RunningVm
<1>5. vm[w].slice = "init" => InitVm(w)'
  <2> SUFFICES ASSUME vm[w].slice = "init" PROVE InitVm(w)'
    BY Zenon
  <2>1. InitVm(w) /\ pc \in {"loop", "done"}
    BY Zenon, <1>1, <1>2 DEF VmInv, InitVm
  <2>2. end_simulation
    BY Zenon, <2>1 DEF EndGoTo, SleepUntilDeadline, EndSlice, end_simulation, sendto_async
  <2> QED
    BY Zenon, <2>1, <2>2 DEF InitVm, end_simulation
<1>6. vm[w].slice = "reached" => WaitingVm(w)'
  <2> SUFFICES ASSUME vm[w].slice = "reached" PROVE WaitingVm(w)'
    BY Zenon
  <2>1. WaitingVm(w)
    BY Zenon, <1>1, <1>2 DEF VmInv, ToldVm, HeardVm
  <2>2. pc' = "send" => pc \in {"collect", "send"}
    BY Zenon DEF EndGoTo, SleepUntilDeadline, EndSlice, end_simulation, sendto_async
  <2> QED
    BY Zenon, <1>2, <2>1, <2>2 DEF WaitingVm, simgridToVmTime
<1> QED
  BY Zenon, <1>2, <1>3, <1>4, <1>5, <1>6 DEF VmInv

LEMMA VmInvDeliver ==
  ASSUME Inv, NEW c \in pending_comms, deliverMessage(c)
  PROVE  \A w \in VMs : VmInv(w)'
<1>0. TypeOK /\ ToTypes /\ MsgSetTypes /\ SetTypes
  BY Zenon, TypeParts DEF Inv
<1> SUFFICES ASSUME NEW w \in VMs PROVE VmInv(w)'
  BY Zenon
<1>1. VmInv(w)
  BY Zenon DEF Inv
<1>2. /\ pc = "deliver" /\ UNCHANGED <<clock, deadline, pc, todo, cur, vm_sockets, vm, from_vm>>
  BY Zenon DEF deliverMessage, coordVars, setVars
<1>3. to_vm'[w] = to_vm[w] \/ to_vm'[w] = Append(to_vm[w], DeliverPacketMsg(c))
  BY Zenon, <1>0 DEF deliverMessage, ToTypes, SetTypes
<1>4. CASE to_vm'[w] = to_vm[w]
  BY Zenon, <1>1, <1>2, <1>4, VmInvFrame
<1>5. CASE to_vm'[w] = Append(to_vm[w], DeliverPacketMsg(c))
  <2>1. ~Awaited(w) /\ ~Awaited(w)' /\ FromVm(w)'
    BY <1>1, <1>2 DEF VmInv, FromVm, Awaited
  <2>2. vm[w].slice \notin {"off", "forked", "init", "running"}
    BY Zenon, <1>1, <1>2 DEF VmInv, OffVm, InitVm, RunningVm, Awaited
  <2>3. DeliverPacketMsg(c).type = "DeliverPacket" /\ to_vm[w] \in Seq(ToVmMsgs)
    BY Zenon, <1>0 DEF DeliverPacketMsg, ToTypes
  <2>4. vm[w].slice = "reached" => WaitingVm(w)'
    <3> SUFFICES ASSUME vm[w].slice = "reached" PROVE WaitingVm(w)'
      BY Zenon
    <3>1. WaitingVm(w)
      BY Zenon, <1>1, <2>1 DEF VmInv, ToldVm, HeardVm
    <3>2. \A i \in DOMAIN to_vm'[w] : to_vm'[w][i].type = "DeliverPacket"
      <4> HIDE DEF DeliverPacketMsg
      <4> QED
        BY <1>5, <2>3, <3>1 DEF WaitingVm
    <3> QED
      BY Zenon, <1>2, <2>1, <3>1, <3>2 DEF WaitingVm, simgridToVmTime
  <2> QED
    BY Zenon, <1>2, <2>1, <2>2, <2>4 DEF VmInv
<1> QED
  BY Zenon, <1>3, <1>4, <1>5

(* What the rest of the state knows of the VMs is left alone by a step of  *)
(* one of them.                                                            *)
LEMMA VmInvOthers ==
  ASSUME Inv, NEW v \in VMs, Vm(v), NEW w \in VMs \ {v}
  PROVE  VmInv(w)'
<1>0. TypeOK /\ ToTypes /\ FromTypes /\ VmTypes /\ VmInv(w)
  BY Zenon, TypeParts DEF Inv
<1>1. UNCHANGED <<clock, deadline, pc, todo, cur, vm_sockets>>
  BY Zenon, VmFrame DEF coordVars, setVars
<1>2. vm'[w] = vm[w] /\ to_vm'[w] = to_vm[w] /\ from_vm'[w] = from_vm[w]
  <2> USE DEF Slices
  <2>1. CASE VmConnect(v)
    BY Zenon, <1>0, <2>1, BecomesFields DEF VmConnect
  <2>2. CASE VmReceive(v)
    BY Zenon, <1>0, <2>2, ReceiveFields DEF VmReceive
  <2>3. CASE VmSend(v)
    BY Zenon, <1>0, <2>3 DEF VmSend, FromTypes
  <2>4. CASE VmAtDeadline(v)
    BY Zenon, <1>0, <2>4, BecomesFields DEF VmAtDeadline, FromTypes
  <2>5. CASE VmEnd(v) \/ VmExit(v)
    BY Zenon, <1>0, <2>5, BecomesFields DEF VmEnd, VmExit
  <2> QED
    BY Zenon, <2>1, <2>2, <2>3, <2>4, <2>5 DEF Vm
<1> QED
  BY Zenon, <1>0, <1>1, <1>2, VmInvFrame

(* The deadline a VM reads is the one of this slice, and it was at the     *)
(* time SimGrid's clock had when the slice began.                          *)
LEMMA NextDeadlineRead ==
  ASSUME Inv, NEW v \in VMs, VmReceive(v), to_vm[v][1].type # "DeliverPacket"
  PROVE  /\ Len(to_vm[v]) = 1 /\ to_vm[v][1] = GotoDeadlineMsg(simgridToVmTime(deadline))
         /\ Awaited(v) /\ from_vm[v] = <<>> /\ vm[v].deadline = simgridToVmTime(clock)
<1>0. TypeOK /\ ToTypes /\ VmInv(v)
  BY Zenon, TypeParts DEF Inv
<1> DEFINE q == to_vm[v]
<1>1. q \in Seq(ToVmMsgs) /\ q # <<>> /\ vm[v].slice \in {"init", "reached"}
  BY Zenon, <1>0 DEF ToTypes, VmReceive
<1>2. Len(q) \in Nat \ {0} /\ DOMAIN q = 1..Len(q)
  BY Zenon, <1>1, TailFacts, EmptyLen
<1>3. CASE vm[v].slice = "init"
  <2>1. InitVm(v)
    BY Zenon, <1>0, <1>3 DEF VmInv
  <2>2. pc = "collect" /\ q = <<GotoDeadlineMsg(simgridToVmTime(deadline))>> /\ Awaited(v)
    BY Zenon, <1>1, <2>1 DEF InitVm
  <2>3. simgridToVmTime(0) = 0
    BY Bounds, SMTT(20) DEF simgridToVmTime
  <2> QED
    BY <2>1, <2>2, <2>3 DEF InitVm
<1>4. CASE vm[v].slice = "reached"
  <2>1. ~HeardVm(v)
    BY Zenon, <1>1 DEF HeardVm
  <2>2. 1 \in DOMAIN q
    BY <1>2
  <2>3. ~WaitingVm(v)
    BY Zenon, <2>2 DEF WaitingVm
  <2>4. ToldVm(v)
    BY Zenon, <1>0, <1>4, <2>1, <2>3 DEF VmInv
  <2>5. Len(q) = 1
    BY ZenonT(30), <2>2, <2>4 DEF ToldVm
  <2> QED
    BY Zenon, <2>2, <2>4, <2>5 DEF ToldVm
<1> QED
  BY Zenon, <1>1, <1>3, <1>4

LEMMA VmInvReads ==
  ASSUME Inv, NEW v \in VMs, VmReceive(v)
  PROVE  VmInv(v)'
<1>0. TypeOK /\ Control /\ ToTypes /\ VmTypes /\ CoordTypes /\ VmInv(v)
  BY Zenon, TypeParts DEF Inv
<1> DEFINE q == to_vm[v]
<1>1. /\ q \in Seq(ToVmMsgs) /\ q # <<>> /\ to_vm'[v] = Tail(q) /\ q[1] \in ToVmMsgs
      /\ vm[v].slice \in {"init", "reached"}
  BY Zenon, <1>0, ReceiveFields DEF ToTypes, VmReceive
<1>2. /\ UNCHANGED <<clock, deadline, pc, todo, cur, vm_sockets>> /\ from_vm' = from_vm
      /\ (Awaited(v)' <=> Awaited(v))
  BY Zenon DEF VmReceive, coordVars, setVars, Awaited
<1>3. FromVm(v)'
  BY <1>0, <1>2 DEF VmInv, FromVm, InSlice, simgridToVmTime
<1>4. CASE q[1].type = "DeliverPacket"
  <2>1. vm' = vm
    BY Zenon, <1>0, <1>4, ReceiveFields
  <2>2. vm[v].slice # "init"
    <3> SUFFICES ASSUME vm[v].slice = "init" PROVE FALSE
      BY Zenon
    <3>1. q = <<GotoDeadlineMsg(simgridToVmTime(deadline))>>
      BY Zenon, <1>0, <1>1 DEF VmInv, InitVm
    <3>2. q[1].type = "GotoDeadline"
      BY <3>1 DEF GotoDeadlineMsg
    <3> QED
      BY Zenon, <1>4, <3>2
  <2>3. ~HeardVm(v)
    BY Zenon, <1>1 DEF HeardVm
  <2>4. /\ Len(q) \in Nat \ {0} /\ Len(Tail(q)) = Len(q) - 1
        /\ \A i \in DOMAIN Tail(q) : i + 1 \in DOMAIN q /\ Tail(q)[i] = q[i + 1]
        /\ (Len(q) = 1 <=> Tail(q) = <<>>) /\ DOMAIN q = 1..Len(q)
    BY Zenon, <1>1, TailFacts, EmptyLen
  <2>5. ToldVm(v) => ToldVm(v)'
    <3> SUFFICES ASSUME ToldVm(v) PROVE ToldVm(v)'
      BY Zenon
    <3>1. Len(q) # 1
      <4> SUFFICES ASSUME Len(q) = 1 PROVE FALSE
        BY Zenon
      <4>1. q[1] = GotoDeadlineMsg(simgridToVmTime(deadline))
        BY <2>4 DEF ToldVm
      <4> QED
        BY <1>4, <4>1 DEF GotoDeadlineMsg
    <3>2. \A i \in DOMAIN Tail(q) :
            IF i = Len(Tail(q)) THEN Tail(q)[i] = GotoDeadlineMsg(simgridToVmTime(deadline))
            ELSE Tail(q)[i].type = "DeliverPacket"
      BY <2>4 DEF ToldVm
    <3> QED
      BY Zenon, <1>1, <1>2, <2>1, <2>4, <3>1, <3>2 DEF ToldVm, simgridToVmTime
  <2>6. WaitingVm(v) => WaitingVm(v)'
    <3> SUFFICES ASSUME WaitingVm(v) PROVE WaitingVm(v)'
      BY Zenon
    <3>1. \A i \in DOMAIN Tail(q) : Tail(q)[i].type = "DeliverPacket"
      BY Zenon, <2>4 DEF WaitingVm
    <3> QED
      BY Zenon, <1>1, <1>2, <2>1, <3>1 DEF WaitingVm, simgridToVmTime
  <2> QED
    BY ZenonT(30), <1>0, <1>1, <1>3, <2>1, <2>2, <2>3, <2>5, <2>6 DEF VmInv
<1>5. CASE q[1].type # "DeliverPacket"
  <2>1. Len(q) = 1 /\ q[1] = GotoDeadlineMsg(simgridToVmTime(deadline)) /\ Awaited(v)
        /\ from_vm[v] = <<>> /\ vm[v].deadline = simgridToVmTime(clock)
    BY Zenon, <1>5, NextDeadlineRead
  <2>2. to_vm'[v] = <<>>
    BY Zenon, <1>1, <2>1, TailFacts
  <2>3. q[1].deadline = simgridToVmTime(deadline)
    BY <2>1 DEF GotoDeadlineMsg
  <2>4. CASE q[1].deadline = Infinity
    <3>1. vm'[v].slice = "ended"
      BY Zenon, <1>0, <1>5, <2>4, ReceiveFields
    <3> QED
      BY Zenon, <1>3, <3>1 DEF VmInv
  <2>5. CASE q[1].deadline # Infinity
    <3>1. vm'[v].slice = "running" /\ vm'[v].prev = vm[v].deadline /\ vm'[v].deadline = q[1].deadline
      BY Zenon, <1>0, <1>5, <2>5, ReceiveFields
    <3>2. deadline # Infinity
      BY Zenon, <2>3, <2>5 DEF simgridToVmTime
    <3>3. RunningVm(v)'
      BY <1>2, <2>1, <2>2, <2>3, <3>1, <3>2 DEF RunningVm, simgridToVmTime
    <3> QED
      BY Zenon, <1>3, <3>1, <3>3 DEF VmInv
  <2> QED
    BY Zenon, <2>4, <2>5
<1> QED
  BY Zenon, <1>4, <1>5

LEMMA VmInvSends ==
  ASSUME Inv, NEW v \in VMs, VmSend(v)
  PROVE  VmInv(v)'
<1>0. TypeOK /\ FromTypes /\ VmTypes /\ VmInv(v)
  BY Zenon, TypeParts DEF Inv
<1>1. /\ UNCHANGED <<clock, deadline, pc, todo, cur, vm_sockets>> /\ to_vm' = to_vm /\ vm' = vm
      /\ (Awaited(v)' <=> Awaited(v)) /\ vm[v].slice = "running"
  BY Zenon DEF VmSend, coordVars, setVars, Awaited
<1>2. PICK time \in vm[v].prev .. vm[v].deadline, dst \in (VMs \cup {Unknown}) \ {v} :
        /\ time % Grain = 0
        /\ from_vm' = [from_vm EXCEPT ![v] = Append(@, SendPacketMsg(
             [id |-> Len(sent), src |-> v, dst |-> dst, sent_time |-> time]))]
  BY Zenon DEF VmSend
<1> DEFINE m == [id |-> Len(sent), src |-> v, dst |-> dst, sent_time |-> time]
           q == from_vm[v]
           q2 == from_vm'[v]
<1>3. RunningVm(v) /\ FromVm(v) /\ q \in Seq(FromVmMsgs)
  BY Zenon, <1>0, <1>1 DEF VmInv, FromTypes
<1>4. q2 = Append(q, SendPacketMsg(m))
  BY Zenon, <1>0, <1>2 DEF FromTypes
<1>5. m.src = v /\ m.dst # v /\ InSlice(m)
  BY <1>2, <1>3 DEF RunningVm, InSlice
<1>6. SendPacketMsg(m).type = "SendPacket" /\ SendPacketMsg(m).packet = m
  BY Zenon DEF SendPacketMsg
<1> HIDE DEF m, q, q2
<1>7. /\ Len(q) \in Nat /\ DOMAIN q = 1..Len(q) /\ DOMAIN q2 = 1..(Len(q) + 1)
      /\ (\A i \in 1..Len(q) : q2[i] = q[i]) /\ q2[Len(q) + 1] = SendPacketMsg(m)
  BY <1>3, <1>4 DEF q
<1>8. \A i \in DOMAIN q : q[i].type # "AtDeadline" /\ InSlice(q[i].packet) /\ q[i].packet.src = v /\ q[i].packet.dst # v
  BY Zenon, <1>3 DEF RunningVm, FromVm, q
<1>9. \A i \in DOMAIN q2 : q2[i].type # "AtDeadline" /\ InSlice(q2[i].packet) /\ q2[i].packet.src = v /\ q2[i].packet.dst # v
  <2> SUFFICES ASSUME NEW i \in DOMAIN q2
               PROVE  q2[i].type # "AtDeadline" /\ InSlice(q2[i].packet) /\ q2[i].packet.src = v /\ q2[i].packet.dst # v
    BY Zenon
  <2>1. CASE i \in 1..Len(q)
    BY Zenon, <1>7, <1>8, <2>1
  <2>2. CASE i = Len(q) + 1
    BY Zenon, <1>5, <1>6, <1>7, <2>2
  <2> QED
    BY <1>7, <2>1, <2>2
<1>10. FromVm(v)'
  BY Zenon, <1>1, <1>3, <1>9 DEF RunningVm, FromVm, InSlice, simgridToVmTime, q2
<1>11. RunningVm(v)'
  BY Zenon, <1>1, <1>3, <1>9 DEF RunningVm, simgridToVmTime, q2
<1> QED
  BY Zenon, <1>1, <1>10, <1>11 DEF VmInv

LEMMA VmInvOwn ==
  ASSUME Inv, NEW v \in VMs, VmConnect(v) \/ VmAtDeadline(v) \/ VmEnd(v) \/ VmExit(v)
  PROVE  VmInv(v)'
<1>0. TypeOK /\ Control /\ FromTypes /\ VmTypes /\ VmInv(v)
  BY Zenon, TypeParts DEF Inv
<1>1. /\ UNCHANGED <<clock, deadline, pc, todo, cur, vm_sockets>> /\ to_vm' = to_vm
      /\ (Awaited(v)' <=> Awaited(v))
  BY Zenon DEF VmConnect, VmAtDeadline, VmEnd, VmExit, coordVars, setVars, Awaited
<1>2. CASE VmConnect(v)
  <2>1. vm[v].slice = "forked" /\ vm'[v].slice = "init" /\ vm'[v].deadline = vm[v].deadline /\ from_vm' = from_vm
    BY Zenon, <1>0, <1>2, BecomesFields DEF VmConnect, Slices
  <2>2. OffVm(v) /\ v = cur /\ clock = 0
    BY Zenon, <1>0, <2>1 DEF VmInv, OffVm, Control
  <2>3. FromVm(v)'
    BY <2>1, <2>2 DEF OffVm, FromVm
  <2>4. InitVm(v)'
    BY ZenonT(30), <1>1, <2>1, <2>2 DEF OffVm, InitVm
  <2> QED
    BY Zenon, <2>1, <2>3, <2>4 DEF VmInv
<1>3. CASE VmAtDeadline(v)
  <2>1. vm[v].slice = "running" /\ vm'[v].slice = "reached" /\ vm'[v].deadline = vm[v].deadline
    BY Zenon, <1>0, <1>3, BecomesFields DEF VmAtDeadline, Slices
  <2> DEFINE q == from_vm[v]
             q2 == from_vm'[v]
  <2>2. RunningVm(v) /\ FromVm(v) /\ q \in Seq(FromVmMsgs)
    BY Zenon, <1>0, <2>1 DEF VmInv, FromTypes
  <2>3. q2 = Append(q, AtDeadlineMsg) /\ AtDeadlineMsg.type = "AtDeadline"
    BY Zenon, <1>0, <1>3 DEF FromTypes, VmAtDeadline, AtDeadlineMsg
  <2> HIDE DEF q, q2
  <2>4. /\ Len(q) \in Nat /\ DOMAIN q = 1..Len(q) /\ DOMAIN q2 = 1..(Len(q) + 1) /\ Len(q2) = Len(q) + 1
        /\ (\A i \in 1..Len(q) : q2[i] = q[i]) /\ q2[Len(q) + 1] = AtDeadlineMsg /\ q2 # <<>>
    BY <2>2, <2>3 DEF q
  <2>5. \A i \in DOMAIN q : q[i].type # "AtDeadline" /\ InSlice(q[i].packet) /\ q[i].packet.src = v /\ q[i].packet.dst # v
    BY Zenon, <2>2 DEF RunningVm, FromVm, q
  <2>6. \A i \in DOMAIN q2 : IF q2[i].type = "AtDeadline" THEN i = Len(q2)
           ELSE InSlice(q2[i].packet) /\ q2[i].packet.src = v /\ q2[i].packet.dst # v
    <3> SUFFICES ASSUME NEW i \in DOMAIN q2
                 PROVE  IF q2[i].type = "AtDeadline" THEN i = Len(q2)
                        ELSE InSlice(q2[i].packet) /\ q2[i].packet.src = v /\ q2[i].packet.dst # v
      BY Zenon
    <3>1. CASE i \in 1..Len(q)
      BY Zenon, <2>4, <2>5, <3>1
    <3>2. CASE i = Len(q) + 1
      BY Zenon, <2>3, <2>4, <3>2
    <3> QED
      BY <2>4, <3>1, <3>2
  <2>7. FromVm(v)'
    BY Zenon, <1>1, <2>2, <2>6 DEF RunningVm, FromVm, InSlice, simgridToVmTime, q2
  <2>8. HeardVm(v)'
    BY Zenon, <1>1, <2>1, <2>2, <2>3, <2>4 DEF RunningVm, HeardVm, simgridToVmTime, q2
  <2> QED
    BY Zenon, <2>1, <2>7, <2>8 DEF VmInv
<1>4. CASE VmEnd(v) \/ VmExit(v)
  <2>1. vm'[v].slice \in {"ended", "exited"} /\ from_vm' = from_vm
    BY ZenonT(30), <1>0, <1>4, BecomesFields DEF VmEnd, VmExit, Slices
  <2>2. FromVm(v)'
    BY Zenon, <1>0, <1>1, <2>1 DEF VmInv, FromVm, InSlice, simgridToVmTime
  <2> QED
    BY Zenon, <2>1, <2>2 DEF VmInv
<1> QED
  BY Zenon, <1>2, <1>3, <1>4

LEMMA VmInvNext ==
  ASSUME Inv, [Next]_vars
  PROVE  \A w \in VMs : VmInv(w)'
<1>1. ASSUME NEW v \in VMs, register_vm(v) \/ Listen(v) PROVE \A w \in VMs : VmInv(w)'
  BY Zenon, <1>1, VmInvRegister, VmInvListen
<1>2. CASE Accept
  <2> SUFFICES ASSUME NEW w \in VMs PROVE VmInv(w)'
    BY Zenon
  <2> QED
    BY Zenon, <1>2, VmInvRegister
<1>3. CASE goTo \/ Receive \/ close_vm_socket
  BY Zenon, <1>3, VmInvGoTo, VmInvReceive, VmInvClose
<1>4. CASE EndGoTo \/ SleepUntilDeadline \/ EndSlice \/ end_simulation
           \/ \E m \in messages : sendto_async(m)
  BY Zenon, <1>4, VmInvQuiet
<1>5. ASSUME NEW c \in pending_comms, deliverMessage(c) PROVE \A w \in VMs : VmInv(w)'
  BY Zenon, <1>5, VmInvDeliver
<1>6. ASSUME NEW v \in VMs, Vm(v) PROVE \A w \in VMs : VmInv(w)'
  <2>1. VmInv(v)'
    BY Zenon, <1>6, VmInvReads, VmInvSends, VmInvOwn DEF Vm
  <2>2. \A w \in VMs \ {v} : VmInv(w)'
    BY Zenon, <1>6, VmInvOthers
  <2> QED
    BY Zenon, <2>1, <2>2
<1>7. CASE UNCHANGED vars
  <2> SUFFICES ASSUME NEW w \in VMs PROVE VmInv(w)'
    BY Zenon
  <2>1. VmInv(w)
    BY Zenon DEF Inv
  <2> QED
    BY Zenon, <1>7, <2>1, VmInvFrame DEF vars, coordVars, setVars, vmVars
<1> QED
  BY <1>1, <1>2, <1>3, <1>4, <1>5, <1>6, <1>7 DEF Next, Coordinator

LEMMA InvInit == Init => Inv
<1> SUFFICES ASSUME Init PROVE Inv
  BY Zenon
<1>1. TypeOK
  BY Zenon, TypeInit
<1>2. Control
  BY Zenon, UnknownAssumption DEF Init, Control
<1>3. Clocks
  BY Bounds DEF Init, Clocks
<1>4. \A v \in VMs : VmInv(v)
  <2> SUFFICES ASSUME NEW v \in VMs PROVE VmInv(v)
    BY Zenon
  <2>1. vm[v].slice = "off" /\ vm[v].deadline = 0 /\ from_vm[v] = <<>> /\ to_vm[v] = <<>>
    BY Zenon DEF Init
  <2>2. OffVm(v)
    BY Zenon, <2>1, UnknownAssumption DEF Init, OffVm
  <2>3. FromVm(v)
    BY <2>1 DEF FromVm
  <2> QED
    BY Zenon, <2>1, <2>2, <2>3 DEF VmInv
<1>5. MsgInv
  BY Zenon DEF Init, MsgInv
<1> QED
  BY Zenon, <1>1, <1>2, <1>3, <1>4, <1>5 DEF Inv

LEMMA InvNext == Inv /\ [Next]_vars => Inv'
<1> SUFFICES ASSUME Inv, [Next]_vars PROVE Inv'
  BY Zenon
<1>1. TypeOK /\ Control /\ Clocks /\ MsgInv
  BY Zenon DEF Inv
<1>2. TypeOK'
  BY Zenon, <1>1, TypeNext DEF Clocks, MsgInv
<1>3. Control' /\ Clocks' /\ MsgInv'
  BY Zenon, <1>1, ControlNext, ClocksNext, MsgInvNext
<1>4. \A w \in VMs : VmInv(w)'
  BY Zenon, VmInvNext
<1> QED
  BY Zenon, <1>2, <1>3, <1>4 DEF Inv

LEMMA AlwaysInv == Spec => []Inv
<1>1. Init => Inv
  BY Zenon, InvInit
<1>2. Inv /\ [Next]_vars => Inv'
  BY Zenon, InvNext
<1> QED
  BY <1>1, <1>2, PTL DEF Spec

(* The variables of the coordinator, the sockets and the VMs keep their    *)
(* types whatever the VMs do: SimGrid's clock and the deadlines are never  *)
(* negative, and a socket carries nothing but the messages of the schema.  *)
THEOREM CoordinatorTypes == Spec => []TypeOK
<1>1. Inv => TypeOK
  BY Zenon DEF Inv
<1> QED
  BY <1>1, AlwaysInv, PTL

(* VmsInterface::goTo is a barrier: when it returns, and until the next    *)
(* one, no VM with a socket is still in its slice and nothing is left to   *)
(* read from any of them, however the VMs' messages, exits and sends were  *)
(* interleaved.                                                            *)
THEOREM GoToBarrier == Spec => []GoToIsABarrier
<1>1. Inv => GoToIsABarrier
  <2> SUFFICES ASSUME Inv, pc \in {"send", "deliver"}, NEW v \in vm_sockets
               PROVE  vm[v].slice \notin {"init", "running"} /\ from_vm[v] = <<>>
    BY Zenon DEF GoToIsABarrier
  <2>1. VmInv(v) /\ ~Awaited(v)
    BY Zenon DEF Inv, TypeOK, Awaited
  <2> QED
    BY Zenon, <2>1 DEF VmInv, FromVm, InitVm, RunningVm
<1> QED
  BY <1>1, AlwaysInv, PTL

-----------------------------------------------------------------------------
(* Causality.  No route is faster than a nanosecond, and neither is the    *)
(* latency that --force gives, if it is given.                             *)
NanosecondLatencies ==
  /\ \A v, w \in VMs : v # w => Lat(v, w) >= Grain
  /\ ForceMinLatency < 0 \/ ForceMinLatency >= Grain

(* SimGrid's clock leaves 0 for a time no VM is told is 0: as long as it   *)
(* is 0 nothing is under way that could end the first nanosecond early.    *)
FirstNanosecond ==
  \/ clock >= Grain
  \/ /\ clock = 0
     /\ (deadline = Infinity \/ pc \in {"register", "loop", "done"}) => pending_comms = {}
     /\ pc \in {"collect", "send", "deliver", "aborted"} => deadline = Infinity \/ deadline >= Grain

LEMMA FirstNanosecondNext ==
  ASSUME NanosecondLatencies, Inv, FirstNanosecond, [Next]_vars
  PROVE  FirstNanosecond'
<1>0. /\ TypeOK /\ Control /\ Clocks /\ MsgInv /\ CoordTypes /\ SetTypes /\ MsgSetTypes
      /\ Grain \in Nat /\ Grain > 0 /\ Infinity \in Nat /\ clock \in Nat /\ deadline \in Nat
      /\ clock < Infinity
  BY Zenon, TypeParts, Bounds DEF Inv, CoordTypes, Clocks
<1> USE DEF coordVars, setVars, msgVars, vmVars
<1>4. CASE goTo
  <2>1. /\ deadline' \in Nat /\ clock <= deadline' /\ deadline' <= Infinity
        /\ pending_comms = {} =>
             deadline' \in {Infinity, clock + compute_min_latency(LiveActors)}
    BY Zenon, <1>0, <1>4, DeadlineChosen DEF SetTypes, MsgSetTypes
  <2>2. clock' = clock /\ pending_comms' = pending_comms /\ pc = "loop" /\ pc' = "collect"
    BY Zenon, <1>4 DEF goTo
  <2>3. CASE clock >= Grain
    BY Zenon, <2>2, <2>3 DEF FirstNanosecond
  <2>4. CASE clock = 0
    <3>1. pending_comms = {}
      BY <1>0, <2>2, <2>4 DEF FirstNanosecond
    <3>2. LiveActors \in SUBSET VMs
      BY Zenon, <1>0 DEF LiveActors, SetTypes
    <3>3. compute_min_latency(LiveActors) >= Grain \/ compute_min_latency(LiveActors) = Infinity
      <4>1. CASE ForceMinLatency >= 0
        BY Zenon, <3>2, <4>1, MinLatency, ForceAssumption, <1>0 DEF NanosecondLatencies
      <4>2. CASE ForceMinLatency < 0
        BY Zenon, <3>2, <4>2, MinLatency DEF NanosecondLatencies
      <4> QED
        BY <4>1, <4>2, ForceAssumption
    <3>4. compute_min_latency(LiveActors) \in Nat
      BY Zenon, <3>2, MinLatency
    <3>5. deadline' = Infinity \/ deadline' >= Grain
      BY <1>0, <2>1, <2>4, <3>1, <3>3, <3>4
    <3> QED
      BY Zenon, <2>2, <2>4, <3>1, <3>5 DEF FirstNanosecond
  <2> QED
    BY Zenon, <2>3, <2>4 DEF FirstNanosecond
<1>8. ASSUME NEW m \in messages, sendto_async(m) PROVE FirstNanosecond'
  <2>1. /\ m.sent_time \in Nat /\ deadline # Infinity /\ clock' \in Nat /\ clock <= clock'
        /\ clock' = (IF clock >= m.sent_time THEN clock ELSE m.sent_time)
    BY Zenon, <1>0, <1>8, SendTimes
  <2>2. m.sent_time % Grain = 0
    BY Zenon, <1>0 DEF MsgInv, InSlice
  <2>3. m.sent_time = 0 \/ m.sent_time >= Grain
    BY <1>0, <2>1, <2>2, SMTT(20)
  <2>4. pc = "send" /\ pc' \in {"send", "aborted"} /\ deadline' = deadline
    BY Zenon, <1>8 DEF sendto_async
  <2>5. CASE clock >= Grain
    BY <1>0, <2>1, <2>5 DEF FirstNanosecond
  <2>6. CASE clock = 0
    BY Zenon, <1>0, <2>1, <2>3, <2>4, <2>6 DEF FirstNanosecond
  <2> QED
    BY Zenon, <2>5, <2>6 DEF FirstNanosecond
<1>9. CASE SleepUntilDeadline
  <2>1. /\ clock' = (IF deadline = Infinity \/ clock >= deadline THEN clock ELSE deadline)
        /\ pc = "send" /\ pc' = "deliver" /\ deadline' = deadline /\ pending_comms' = pending_comms
    BY Zenon, <1>0, <1>9, MaxOfTwo DEF SleepUntilDeadline
  <2> QED
    BY <1>0, <2>1 DEF FirstNanosecond
<1>10. CASE \/ \E v \in VMs : register_vm(v) \/ Listen(v)
            \/ Accept \/ Receive \/ close_vm_socket \/ EndGoTo
  <2>1. /\ UNCHANGED <<clock, deadline, pending_comms>>
        /\ \/ pc' = pc
           \/ pc = "register" /\ pc' = "loop"
           \/ pc = "collect" /\ pc' = "send"
    BY Zenon, <1>10 DEF register_vm, Listen, Accept, Receive, close_vm_socket, EndGoTo
  <2> QED
    BY Zenon, <2>1 DEF FirstNanosecond
<1>11. CASE (\E c \in pending_comms : deliverMessage(c)) \/ EndSlice \/ end_simulation
  <2>1. /\ UNCHANGED <<clock, deadline>>
        /\ pending_comms' \subseteq pending_comms
        /\ \/ pc' = pc
           \/ pc = "deliver" /\ pc' = "loop"
           \/ pc = "loop" /\ pc' = "done"
    BY Zenon, <1>11 DEF deliverMessage, EndSlice, end_simulation
  <2>2. pc = "deliver" /\ deadline # Infinity => clock = deadline
    BY Zenon, <1>0 DEF Clocks
  <2> QED
    BY Zenon, <1>0, <2>1, <2>2 DEF FirstNanosecond
<1>12. CASE (\E v \in VMs : Vm(v)) \/ UNCHANGED vars
  <2>1. UNCHANGED <<clock, deadline, pc, pending_comms>>
    BY Zenon, <1>12, VmFrame DEF vars
  <2> QED
    BY Zenon, <2>1 DEF FirstNanosecond
<1> QED
  BY Zenon, <1>4, <1>8, <1>9, <1>10, <1>11, <1>12 DEF Next, Coordinator

LEMMA AssertionHolds ==
  ASSUME Inv, FirstNanosecond, NEW m \in messages, sendto_async(m)
  PROVE  CausalityAssertion(m)
<1>1. /\ clock \in Nat /\ m.sent_time \in Nat /\ clock < Infinity /\ simgridToVmTime(clock) <= m.sent_time
      /\ simgridToVmTime(clock) \in Nat
  BY Zenon, SendTimes, FloorType DEF Inv, TypeOK, Clocks, MsgInv, InSlice
<1>2. clock < simgridToVmTime(clock) + Grain
  BY <1>1, FloorBounds, Bounds
<1>3. CASE clock >= Grain
  <2>1. Grain <= simgridToVmTime(clock)
    BY <1>1, <1>3, FloorGrain, Bounds
  <2> QED
    BY <1>1, <1>2, <2>1, Bounds DEF CausalityAssertion
<1>4. CASE clock = 0
  BY <1>1, <1>4 DEF CausalityAssertion
<1> QED
  BY Zenon, <1>3, <1>4 DEF FirstNanosecond

(* The xbt_assert of vm_coordinator on the send times never fails, for any *)
(* platform whose routes take a nanosecond or more: the deadlines told to  *)
(* the VMs are rounded down, so a message may be stamped before SimGrid's  *)
(* clock, but by less than a nanosecond.                                   *)
THEOREM Causality ==
  ASSUME NanosecondLatencies
  PROVE  Spec => []CausalityAssertionHolds
<1>1. Init => FirstNanosecond /\ CausalityAssertionHolds
  BY Zenon DEF Init, FirstNanosecond, CausalityAssertionHolds
<1>2. Inv /\ FirstNanosecond /\ [Next]_vars => FirstNanosecond'
  BY Zenon, FirstNanosecondNext
<1>3. Inv /\ FirstNanosecond /\ CausalityAssertionHolds /\ [Next]_vars => CausalityAssertionHolds'
  <2> SUFFICES ASSUME Inv, FirstNanosecond, CausalityAssertionHolds, [Next]_vars
               PROVE  CausalityAssertionHolds'
    BY Zenon
  <2>1. ASSUME NEW m \in messages, sendto_async(m) PROVE CausalityAssertionHolds'
    <3>1. CausalityAssertion(m)
      BY Zenon, <2>1, AssertionHolds
    <3> QED
      BY Zenon, <2>1, <3>1 DEF sendto_async, CausalityAssertionHolds
  <2>2. CASE Coordinator /\ ~(\E m \in messages : sendto_async(m))
    BY Zenon, <2>2 DEF Coordinator, register_vm, Listen, Accept, goTo, Receive, close_vm_socket, EndGoTo,
                SleepUntilDeadline, deliverMessage, EndSlice, end_simulation, coordVars,
                CausalityAssertionHolds
  <2>3. CASE (\E v \in VMs : Vm(v)) \/ UNCHANGED vars
    BY Zenon, <2>3, VmFrame DEF vars, coordVars, CausalityAssertionHolds
  <2> QED
    BY Zenon, <2>1, <2>2, <2>3 DEF Next
<1> QED
  BY <1>1, <1>2, <1>3, AlwaysInv, PTL DEF Spec

-----------------------------------------------------------------------------
(* The contract with each VM, step by step.                                *)
Keeps(v) == Contract(v)!Next \/ UNCHANGED Contract(v)!vars

LEMMA KeepsFrame ==
  ASSUME NEW v, vm'[v].slice = vm[v].slice, vm'[v].prev = vm[v].prev, vm'[v].deadline = vm[v].deadline
  PROVE  Keeps(v)
  BY Zenon DEF Keeps, Contract!vars

LEMMA KeepsGoto ==
  ASSUME NEW v, vm[v].slice \in {"init", "reached"}, vm'[v].slice = "running",
         vm'[v].prev = vm[v].deadline, vm'[v].deadline \in Nat, vm'[v].deadline >= vm[v].deadline
  PROVE  Keeps(v)
  BY Zenon DEF Keeps, Contract!Next, Contract!GotoDeadline

LEMMA KeepsAtDeadline ==
  ASSUME NEW v, vm[v].slice = "running", vm'[v].slice = "reached",
         vm'[v].prev = vm[v].prev, vm'[v].deadline = vm[v].deadline
  PROVE  Keeps(v)
  BY Zenon DEF Keeps, Contract!Next, Contract!AtDeadline

LEMMA KeepsEnd ==
  ASSUME NEW v, vm'[v].slice \in {"ended", "exited"},
         vm'[v].prev = vm[v].prev, vm'[v].deadline = vm[v].deadline
  PROVE  Keeps(v)
  BY Zenon DEF Keeps, Contract!Next, Contract!End

LEMMA KeepsStart ==
  ASSUME NEW v, vm[v].slice \in {"off", "forked", "init"}, vm'[v].slice \in {"off", "forked", "init"},
         vm'[v].prev = vm[v].prev, vm'[v].deadline = vm[v].deadline
  PROVE  Keeps(v)
  BY Zenon DEF Keeps, Contract!vars

LEMMA KeepsNext == ASSUME Inv, [Next]_vars, NEW w \in VMs PROVE Keeps(w)
<1>0. TypeOK /\ Control /\ Clocks /\ VmTypes /\ CoordTypes /\ VmInv(w)
  BY Zenon, TypeParts DEF Inv
<1> USE DEF Slices
<1>1. CASE vm' = vm
  BY Zenon, <1>1, KeepsFrame
<1>2. ASSUME NEW v \in VMs, register_vm(v) PROVE Keeps(w)
  <2>1. Becomes(v, "forked")
    BY Zenon, <1>2 DEF register_vm, Becomes
  <2>2. CASE w = v
    <3>1. vm[v].slice = "off"
      BY Zenon, <1>0, <1>2, UnknownAssumption DEF Control, register_vm
    <3>2. vm'[v].slice = "forked" /\ vm'[v].prev = vm[v].prev /\ vm'[v].deadline = vm[v].deadline
      BY Zenon, <1>0, <2>1, BecomesFields
    <3> QED
      BY <2>2, <3>1, <3>2, KeepsStart
  <2>3. CASE w # v
    BY Zenon, <1>0, <2>1, <2>3, BecomesFields, KeepsFrame
  <2> QED
    BY Zenon, <2>2, <2>3
<1>3. CASE (Coordinator /\ ~\E v \in VMs : register_vm(v)) \/ UNCHANGED vars
  <2>1. vm' = vm
    BY Zenon, <1>3 DEF Coordinator, Listen, Accept, goTo, Receive, close_vm_socket, EndGoTo, sendto_async,
                SleepUntilDeadline, deliverMessage, EndSlice, end_simulation, vmVars, vars
  <2> QED
    BY Zenon, <1>1, <2>1
<1>4. ASSUME NEW v \in VMs, Vm(v), w # v PROVE Keeps(w)
  <2>1. vm'[w] = vm[w]
    <3>1. CASE VmConnect(v) \/ VmAtDeadline(v) \/ VmEnd(v) \/ VmExit(v)
      <4>1. \E s \in Slices : Becomes(v, s)
        BY ZenonT(30), <3>1 DEF VmConnect, VmAtDeadline, VmEnd, VmExit
      <4> QED
        BY Zenon, <1>0, <1>4, <4>1, BecomesFields
    <3>2. CASE VmReceive(v)
      BY ZenonT(30), <1>0, <1>4, <3>2, ReceiveFields
    <3>3. CASE VmSend(v)
      BY Zenon, <3>3 DEF VmSend
    <3> QED
      BY Zenon, <1>4, <3>1, <3>2, <3>3 DEF Vm
  <2> QED
    BY Zenon, <2>1, KeepsFrame
<1>5. CASE VmConnect(w)
  BY <1>0, <1>5, BecomesFields, KeepsStart DEF VmConnect
<1>6. CASE VmSend(w)
  BY Zenon, <1>1, <1>6 DEF VmSend
<1>7. CASE VmAtDeadline(w)
  BY Zenon, <1>0, <1>7, BecomesFields, KeepsAtDeadline DEF VmAtDeadline
<1>8. CASE VmEnd(w) \/ VmExit(w)
  <2>1. CASE VmEnd(w)
    <3>1. Becomes(w, "ended")
      BY Zenon, <2>1 DEF VmEnd
    <3>2. vm'[w].slice = "ended" /\ vm'[w].prev = vm[w].prev /\ vm'[w].deadline = vm[w].deadline
      BY Zenon, <1>0, <3>1, BecomesFields
    <3> QED
      BY <3>2, KeepsEnd
  <2>2. CASE VmExit(w)
    <3>1. Becomes(w, "exited")
      BY Zenon, <2>2 DEF VmExit
    <3>2. vm'[w].slice = "exited" /\ vm'[w].prev = vm[w].prev /\ vm'[w].deadline = vm[w].deadline
      BY Zenon, <1>0, <3>1, BecomesFields
    <3> QED
      BY <3>2, KeepsEnd
  <2> QED
    BY Zenon, <1>8, <2>1, <2>2
<1>9. CASE VmReceive(w)
  <2>1. CASE to_vm[w][1].type = "DeliverPacket"
    BY Zenon, <1>0, <1>1, <1>9, <2>1, ReceiveFields
  <2>2. CASE to_vm[w][1].type # "DeliverPacket"
    <3>1. to_vm[w][1].deadline = simgridToVmTime(deadline) /\ vm[w].deadline = simgridToVmTime(clock)
      BY <1>9, <2>2, NextDeadlineRead DEF GotoDeadlineMsg
    <3>2. CASE to_vm[w][1].deadline = Infinity
      <4>1. vm'[w].slice = "ended" /\ vm'[w].prev = vm[w].prev /\ vm'[w].deadline = vm[w].deadline
        BY Zenon, <1>0, <1>9, <2>2, <3>2, ReceiveFields
      <4> QED
        BY <4>1, KeepsEnd
    <3>3. CASE to_vm[w][1].deadline # Infinity
      <4>1. deadline # Infinity
        BY Zenon, <3>1, <3>3 DEF simgridToVmTime
      <4>2. clock \in Nat /\ deadline \in Nat /\ clock <= deadline /\ deadline < Infinity
        BY <1>0, <4>1, Bounds DEF Clocks, CoordTypes
      <4>3. /\ simgridToVmTime(clock) <= simgridToVmTime(deadline)
            /\ simgridToVmTime(clock) \in Nat /\ simgridToVmTime(deadline) \in Nat
        BY Zenon, <4>2, FloorMonotone, FloorType
      <4>4. /\ vm'[w].slice = "running" /\ vm'[w].prev = vm[w].deadline
            /\ vm'[w].deadline = simgridToVmTime(deadline)
        BY Zenon, <1>0, <1>9, <2>2, <3>1, <3>3, ReceiveFields
      <4>5. vm[w].slice \in {"init", "reached"}
        BY Zenon, <1>9 DEF VmReceive
      <4>6. vm'[w].deadline \in Nat /\ vm'[w].deadline >= vm[w].deadline
        BY Zenon, <3>1, <4>3, <4>4
      <4> QED
        BY <4>4, <4>5, <4>6, KeepsGoto
    <3> QED
      BY Zenon, <3>2, <3>3
  <2> QED
    BY Zenon, <2>1, <2>2
<1>10. ASSUME NEW v \in VMs, Vm(v) PROVE Keeps(w)
  BY Zenon, <1>4, <1>5, <1>6, <1>7, <1>8, <1>9, <1>10 DEF Vm
<1> QED
  BY Zenon, <1>2, <1>3, <1>10 DEF Next

(* Every VM sees the coordinator VmContract describes: the deadlines that  *)
(* goTo tells it never decrease, although they are rounded, and a slice    *)
(* begins where the previous one ended.                                    *)
THEOREM CoordinatorKeepsContract == Spec => DeadlinesNeverDecrease
<1>1. Inv /\ [Next]_vars => [\A v \in VMs : Keeps(v)]_vars
  BY Zenon, KeepsNext
<1>2. Spec => [][\A v \in VMs : Keeps(v)]_vars
  BY <1>1, AlwaysInv, PTL DEF Spec
<1> QED
  BY Zenon, <1>2 DEF Keeps, DeadlinesNeverDecrease

-----------------------------------------------------------------------------
(***************************************************************************)
(* The packets: when a VM reads them, and that the coordinator neither     *)
(* loses one nor delivers one twice.                                       *)
(***************************************************************************)
(* Arrivals.  Each host of the deployment has one VM, ...                  *)
OneVmPerHost == \A v, w \in VMs : HostOf[v] = HostOf[w] => v = w

(* ... and the latency that --force gives, if it is given, is not above    *)
(* that of any route.                                                      *)
ForceIsSafe == \A v, w \in VMs : v # w => ForceMinLatency <= Lat(v, w)

(* The senders are all counted in the minimum latency, so no communication *)
(* to a counted VM ends before the deadline.                               *)
Arrivals ==
  /\ vm_sockets \subseteq tansiv_actors
  /\ \A m \in messages : m.src \in tansiv_actors
  /\ \A v \in VMs : from_vm[v] # <<>> => v \in tansiv_actors
  /\ pc \in {"collect", "send"} =>
       \A v, w \in tansiv_actors : v # w => deadline <= clock + Lat(v, w)
  /\ pc \in {"collect", "send", "deliver"} =>
       \A c \in pending_comms : c.msg.dst \in tansiv_actors => deadline <= c.due

Punctual(v) ==
  vm[v].slice = "reached" =>
    \A i \in DOMAIN to_vm[v] : to_vm[v][i].type = "DeliverPacket" =>
      simgridToVmTime(to_vm[v][i].packet.due) = vm[v].deadline

LEMMA ArrivalsGoTo ==
  ASSUME OneVmPerHost, ForceIsSafe, Inv, Arrivals, goTo
  PROVE  Arrivals'
<1>0. /\ TypeOK /\ Control /\ Clocks /\ MsgInv /\ CoordTypes /\ SetTypes /\ MsgSetTypes
      /\ clock \in Nat /\ clock < Infinity
  BY Zenon, TypeParts DEF Inv, CoordTypes, Clocks
<1>1. /\ pc = "loop" /\ pc' = "collect" /\ tansiv_actors' = LiveActors
      /\ UNCHANGED <<clock, vm_sockets, messages, pending_comms, from_vm>>
  BY Zenon DEF goTo, msgVars
<1>2. /\ deadline' \in Nat
      /\ deadline' <= clock + compute_min_latency(LiveActors)
      /\ \A c \in pending_comms : deadline' <= c.due
  BY Zenon, <1>0, DeadlineChosen DEF SetTypes, MsgSetTypes
<1>3. vm_sockets \subseteq LiveActors
  <2> SUFFICES ASSUME NEW v \in vm_sockets PROVE v \in LiveActors
    BY Zenon
  <2>1. v \in VMs /\ v \in tansiv_actors /\ v \notin vm_sockets_trash /\ vm_sockets_trash \subseteq VMs
    BY Zenon, <1>0, <1>1 DEF Arrivals, Control, SetTypes
  <2>2. HostOf[v] \notin {HostOf[w] : w \in vm_sockets_trash}
    BY Zenon, <2>1 DEF OneVmPerHost
  <2> QED
    BY Zenon, <2>1, <2>2 DEF LiveActors
<1>4. messages' = {} /\ \A v \in VMs : from_vm'[v] = <<>>
  <2>1. \A v \in VMs : FromVm(v) /\ ~Awaited(v)
    BY Zenon, <1>1 DEF Inv, VmInv, Awaited
  <2> QED
    BY Zenon, <1>0, <1>1, <2>1 DEF MsgInv, FromVm
<1>5. ASSUME NEW v \in LiveActors, NEW w \in LiveActors, v # w
      PROVE  deadline' <= clock + Lat(v, w)
  <2>1. LiveActors \in SUBSET VMs /\ v \in VMs /\ w \in VMs
    BY Zenon, <1>0 DEF LiveActors, SetTypes
  <2>2. compute_min_latency(LiveActors) \in Nat /\ Lat(v, w) \in Nat
    BY Zenon, <1>5, <2>1, MinLatency, LatencyAssumption DEF Lat
  <2>3. compute_min_latency(LiveActors) <= Lat(v, w)
    <3>1. CASE ForceMinLatency >= 0
      BY Zenon, <1>5, <2>1, <3>1, MinLatency DEF ForceIsSafe
    <3>2. CASE ForceMinLatency < 0
      BY Zenon, <1>5, <2>1, <3>2, MinLatency
    <3> QED
      BY <3>1, <3>2, ForceAssumption
  <2> QED
    BY <1>0, <1>2, <2>2, <2>3
<1> QED
  BY Zenon, <1>1, <1>2, <1>3, <1>4, <1>5 DEF Arrivals

LEMMA ArrivalsSend ==
  ASSUME Inv, Arrivals, NEW m \in messages, sendto_async(m)
  PROVE  Arrivals'
<1>0. /\ TypeOK /\ Clocks /\ MsgInv /\ CoordTypes /\ SetTypes /\ MsgSetTypes
      /\ clock \in Nat /\ deadline \in Nat
  BY Zenon, TypeParts DEF Inv, CoordTypes
<1>1. /\ m \in Messages /\ m.src \in VMs /\ m.src # m.dst /\ clock' \in Nat /\ clock <= clock'
  BY Zenon, <1>0, SendTimes, MessageFields DEF MsgInv
<1>2. /\ pc = "send" /\ pc' \in {"send", "aborted"} /\ messages' \subseteq messages
      /\ UNCHANGED <<deadline, vm_sockets, tansiv_actors, from_vm>>
  BY Zenon DEF sendto_async, setVars, vmVars
<1>3. \A v, w \in tansiv_actors : v # w => deadline <= clock' + Lat(v, w)
  <2> SUFFICES ASSUME NEW v \in tansiv_actors, NEW w \in tansiv_actors, v # w
               PROVE  deadline <= clock' + Lat(v, w)
    BY Zenon
  <2>1. Lat(v, w) \in Nat /\ deadline <= clock + Lat(v, w)
    BY Zenon, <1>0, <1>2, LatencyAssumption DEF Arrivals, SetTypes, Lat
  <2> QED
    BY <1>0, <1>1, <2>1
<1>4. ASSUME NEW c \in pending_comms', c.msg.dst \in tansiv_actors
      PROVE  deadline <= c.due
  <2>1. CASE c \in pending_comms
    BY Zenon, <1>2, <1>4, <2>1 DEF Arrivals
  <2>2. CASE c \notin pending_comms
    <3>1. m.dst \in VMs
      BY Zenon, <2>2 DEF sendto_async
    <3>2. PICK slack \in Slack : pending_comms' = pending_comms \cup
             {[msg |-> m, due |-> clock' + slack + Lat(m.src, m.dst)]}
      BY Zenon, <3>1 DEF sendto_async, Lat
    <3>3. c.msg = m /\ c.due = clock' + slack + Lat(m.src, m.dst)
      BY <2>2, <3>2
    <3>4. slack \in Nat /\ Lat(m.src, m.dst) \in Nat
      BY Zenon, <1>1, <3>1, SlackAssumption, LatencyAssumption DEF Lat
    <3>5. deadline <= clock' + Lat(m.src, m.dst)
      BY Zenon, <1>1, <1>3, <1>4, <3>3 DEF Arrivals
    <3> QED
      BY <1>0, <1>1, <3>3, <3>4, <3>5
  <2> QED
    BY Zenon, <2>1, <2>2
<1> QED
  BY Zenon, <1>2, <1>3, <1>4 DEF Arrivals

LEMMA ArrivalsNext ==
  ASSUME OneVmPerHost, ForceIsSafe, Inv, Arrivals, [Next]_vars
  PROVE  Arrivals'
<1>0. /\ TypeOK /\ Control /\ MsgInv /\ CoordTypes /\ SetTypes /\ FromTypes
      /\ \A v \in VMs : VmInv(v)
  BY Zenon, TypeParts DEF Inv
<1> USE DEF coordVars, setVars, msgVars, vmVars
<1>1. CASE (\E v \in VMs : register_vm(v) \/ Listen(v)) \/ close_vm_socket
           \/ EndSlice \/ end_simulation
  <2>1. /\ UNCHANGED <<clock, deadline, vm_sockets, tansiv_actors, messages, pending_comms, from_vm>>
        /\ pc' = pc \/ pc' \in {"loop", "done"}
    BY Zenon, <1>1 DEF register_vm, Listen, close_vm_socket, EndSlice, end_simulation
  <2> QED
    BY Zenon, <2>1 DEF Arrivals
<1>2. CASE Accept
  BY Zenon, <1>0, <1>2 DEF Accept, Arrivals, Control
<1>3. CASE goTo
  BY Zenon, <1>3, ArrivalsGoTo
<1>4. CASE Receive
  <2>1. /\ UNCHANGED <<clock, deadline, pc, vm_sockets, tansiv_actors, pending_comms>>
        /\ from_vm[cur] # <<>> /\ cur \in VMs
    BY Zenon, <1>0, <1>4, HeadFrom DEF Receive
  <2>2. cur \in tansiv_actors
    BY Zenon, <2>1 DEF Arrivals
  <2>3. \A m \in messages' : m \in messages \/ m.src = cur
    BY Zenon, <1>0, <1>4, HeadFrom
  <2>4. \A v \in VMs : v = cur \/ from_vm'[v] = from_vm[v]
    BY Zenon, <1>0, <1>4, HeadFrom
  <2> QED
    BY Zenon, <2>1, <2>2, <2>3, <2>4 DEF Arrivals
<1>5. CASE EndGoTo
  BY Zenon, <1>5 DEF EndGoTo, Arrivals
<1>6. ASSUME NEW m \in messages, sendto_async(m) PROVE Arrivals'
  BY Zenon, <1>6, ArrivalsSend
<1>7. CASE SleepUntilDeadline
  BY Zenon, <1>7 DEF SleepUntilDeadline, Arrivals
<1>8. ASSUME NEW c \in pending_comms, deliverMessage(c) PROVE Arrivals'
  BY Zenon, <1>8 DEF deliverMessage, Arrivals
<1>9. ASSUME NEW v \in VMs, Vm(v) PROVE Arrivals'
  <2>1. UNCHANGED <<clock, deadline, pc, vm_sockets, tansiv_actors, messages, pending_comms>>
    BY Zenon, <1>9, VmFrame
  <2>2. \A w \in VMs : from_vm'[w] # <<>> => w \in tansiv_actors
    <3> SUFFICES ASSUME NEW w \in VMs, from_vm'[w] # <<>> PROVE w \in tansiv_actors
      BY Zenon
    <3>1. CASE from_vm'[w] = from_vm[w]
      BY Zenon, <3>1 DEF Arrivals
    <3>2. CASE from_vm'[w] # from_vm[w]
      <4>1. w = v /\ vm[w].slice = "running"
        BY Zenon, <1>0, <1>9, <3>2
        DEF Vm, VmConnect, VmReceive, VmSend, VmAtDeadline, VmEnd, VmExit, FromTypes
      <4>2. RunningVm(w)
        BY Zenon, <1>0, <4>1 DEF VmInv
      <4>3. w \in vm_sockets
        BY Zenon, <1>0, <4>1, <4>2 DEF RunningVm, Awaited, Control
      <4> QED
        BY Zenon, <4>3 DEF Arrivals
    <3> QED
      BY Zenon, <3>1, <3>2
  <2> QED
    BY Zenon, <2>1, <2>2 DEF Arrivals
<1>10. CASE UNCHANGED vars
  BY Zenon, <1>10 DEF vars, Arrivals
<1> QED
  BY <1>1, <1>2, <1>3, <1>4, <1>5, <1>6, <1>7, <1>8, <1>9, <1>10 DEF Next, Coordinator

LEMMA PunctualNext ==
  ASSUME Inv, Arrivals, [Next]_vars, NEW w \in VMs, Punctual(w)
  PROVE  Punctual(w)'
<1>0. /\ TypeOK /\ Control /\ Clocks /\ CoordTypes /\ SetTypes /\ ToTypes /\ VmTypes /\ MsgSetTypes
      /\ VmInv(w) /\ to_vm[w] \in Seq(ToVmMsgs)
  BY Zenon, TypeParts DEF Inv, ToTypes
<1> USE DEF coordVars, setVars, msgVars, vmVars
<1>1. ASSUME vm'[w] = vm[w], to_vm'[w] = to_vm[w] PROVE Punctual(w)'
  BY Zenon, <1>1 DEF Punctual, simgridToVmTime
<1>2. CASE (\E v \in VMs : Listen(v)) \/ Accept \/ Receive \/ close_vm_socket \/ EndGoTo
           \/ (\E m \in messages : sendto_async(m)) \/ SleepUntilDeadline \/ EndSlice
           \/ end_simulation \/ UNCHANGED vars
  <2>1. UNCHANGED <<vm, to_vm>>
    BY Zenon, <1>2 DEF Listen, Accept, Receive, close_vm_socket, EndGoTo, sendto_async,
                SleepUntilDeadline, EndSlice, end_simulation, vars
  <2> QED
    BY Zenon, <1>1, <2>1
<1>3. ASSUME NEW v \in VMs, register_vm(v) PROVE Punctual(w)'
  <2>1. Becomes(v, "forked") /\ "forked" \in Slices /\ to_vm' = to_vm
    BY Zenon, <1>3 DEF register_vm, Becomes, Slices
  <2>2. vm'[v].slice = "forked" /\ \A x \in VMs \ {v} : vm'[x] = vm[x]
    BY Zenon, <1>0, <2>1, BecomesFields
  <2> QED
    BY Zenon, <1>1, <2>1, <2>2 DEF Punctual
<1>4. CASE goTo
  <2> DEFINE g == GotoDeadlineMsg(simgridToVmTime(deadline'))
  <2>1. vm' = vm /\ (to_vm'[w] = to_vm[w] \/ to_vm'[w] = Append(to_vm[w], g))
    BY Zenon, <1>4 DEF goTo
  <2>2. g.type # "DeliverPacket"
    BY Zenon DEF GotoDeadlineMsg
  <2> HIDE DEF g
  <2>3. CASE to_vm'[w] = Append(to_vm[w], g)
    <3>1. \A i \in DOMAIN to_vm'[w] : (i \in DOMAIN to_vm[w] /\ to_vm'[w][i] = to_vm[w][i]) \/ to_vm'[w][i] = g
      BY <1>0, <2>3
    <3> QED
      BY Zenon, <2>1, <2>2, <3>1 DEF Punctual, simgridToVmTime
  <2> QED
    BY Zenon, <1>1, <2>1, <2>3
<1>5. ASSUME NEW k \in pending_comms, deliverMessage(k) PROVE Punctual(w)'
  <2>1. vm' = vm /\ pc = "deliver" /\ k.due <= clock /\ k \in Comms /\ k.due \in Nat
    BY Zenon, <1>0, <1>5, MessageFields DEF deliverMessage, MsgSetTypes
  <2>2. CASE to_vm'[w] # to_vm[w]
    <3>1. k.msg.dst = w /\ w \in vm_sockets /\ to_vm'[w] = Append(to_vm[w], DeliverPacketMsg(k))
      BY Zenon, <1>0, <1>5, <2>2 DEF deliverMessage, ToTypes
    <3>2. deadline <= k.due
      BY Zenon, <2>1, <3>1 DEF Arrivals
    <3>3. k.due = deadline
      <4>1. /\ clock \in Nat /\ deadline \in Nat /\ Infinity \in Nat /\ clock < Infinity
            /\ deadline # Infinity => clock = deadline
        BY Zenon, <1>0, <2>1, Bounds DEF Clocks, CoordTypes
      <4> QED
        BY <2>1, <3>2, <4>1
    <3> SUFFICES ASSUME vm[w].slice = "reached", NEW i \in DOMAIN to_vm'[w],
                        to_vm'[w][i].type = "DeliverPacket"
                 PROVE  simgridToVmTime(to_vm'[w][i].packet.due) = vm[w].deadline
      BY Zenon, <2>1 DEF Punctual, simgridToVmTime
    <3>4. WaitingVm(w)
      BY Zenon, <1>0, <2>1 DEF VmInv, ToldVm, HeardVm, Awaited
    <3>5. DeliverPacketMsg(k).packet = k
      BY Zenon DEF DeliverPacketMsg
    <3>6. (i \in DOMAIN to_vm[w] /\ to_vm'[w][i] = to_vm[w][i]) \/ to_vm'[w][i] = DeliverPacketMsg(k)
      <4> HIDE DEF DeliverPacketMsg
      <4> QED
        BY <1>0, <3>1
    <3>7. CASE i \in DOMAIN to_vm[w] /\ to_vm'[w][i] = to_vm[w][i]
      BY Zenon, <3>7 DEF Punctual
    <3>8. CASE to_vm'[w][i] = DeliverPacketMsg(k)
      BY Zenon, <3>3, <3>4, <3>5, <3>8 DEF WaitingVm
    <3> QED
      BY Zenon, <3>6, <3>7, <3>8
  <2> QED
    BY Zenon, <1>1, <2>1, <2>2
<1>6. ASSUME NEW v \in VMs, Vm(v) PROVE Punctual(w)'
  <2> USE DEF Slices
  <2>1. CASE VmSend(v)
    BY Zenon, <1>1, <2>1 DEF VmSend
  <2>2. CASE VmConnect(v) \/ VmEnd(v) \/ VmExit(v)
    <3>1. to_vm' = to_vm /\ \E s \in {"init", "ended", "exited"} : Becomes(v, s)
      BY Zenon, <2>2 DEF VmConnect, VmEnd, VmExit
    <3>2. (w = v /\ vm'[w].slice # "reached") \/ vm'[w] = vm[w]
      BY Zenon, <1>0, <3>1, BecomesFields
    <3> QED
      BY Zenon, <1>1, <3>1, <3>2 DEF Punctual
  <2>3. CASE VmAtDeadline(v)
    <3>1. to_vm' = to_vm /\ vm[v].slice = "running" /\ Becomes(v, "reached")
      BY Zenon, <2>3 DEF VmAtDeadline
    <3>2. CASE w = v
      <4>1. to_vm[w] = <<>>
        BY Zenon, <1>0, <3>1, <3>2 DEF VmInv, RunningVm
      <4> QED
        BY <3>1, <4>1 DEF Punctual
    <3>3. CASE w # v
      BY <1>0, <1>1, <3>1, <3>3, BecomesFields
    <3> QED
      BY Zenon, <3>2, <3>3
  <2>4. CASE VmReceive(v)
    <3>1. CASE w # v
      BY <1>0, <1>1, <2>4, <3>1, ReceiveFields
    <3>2. CASE w = v /\ vm'[w].slice # "reached"
      BY Zenon, <3>2 DEF Punctual
    <3>3. CASE w = v /\ vm'[w].slice = "reached"
      <4>1. vm' = vm /\ to_vm'[w] = Tail(to_vm[w]) /\ to_vm[w] # <<>>
        BY Zenon, <1>0, <2>4, <3>3, ReceiveFields
      <4>2. \A i \in DOMAIN Tail(to_vm[w]) : i + 1 \in DOMAIN to_vm[w] /\ Tail(to_vm[w])[i] = to_vm[w][i + 1]
        BY Zenon, <1>0, <4>1, TailFacts
      <4> QED
        BY <4>1, <4>2 DEF Punctual, simgridToVmTime
    <3> QED
      BY Zenon, <3>1, <3>2, <3>3
  <2> QED
    BY Zenon, <1>6, <2>1, <2>2, <2>3, <2>4 DEF Vm
<1> QED
  BY Zenon, <1>2, <1>3, <1>4, <1>5, <1>6 DEF Next, Coordinator

(* A VM is given a packet at the deadline at which SimGrid's communication *)
(* ends, to the nanosecond, for any routes, congestion and order of the    *)
(* sends: the minimum latency and the next event leave no packet to arrive *)
(* inside a slice that the VMs have already run.  The hosts must have one  *)
(* VM each, because vm_coordinator stops counting every VM on the host of  *)
(* one that exits.                                                         *)
THEOREM ArrivalsOnTime ==
  ASSUME OneVmPerHost, ForceIsSafe
  PROVE  Spec => []DeliveredOnArrival
<1> DEFINE OnTime == \A v \in VMs : Punctual(v)
<1>1. Init => Arrivals /\ OnTime
  BY DEF Init, Arrivals, Punctual
<1>2. Inv /\ Arrivals /\ [Next]_vars => Arrivals'
  BY Zenon, ArrivalsNext
<1>3. Inv /\ Arrivals /\ OnTime /\ [Next]_vars => OnTime'
  BY Zenon, PunctualNext
<1>4. Inv /\ OnTime => DeliveredOnArrival
  <2> SUFFICES ASSUME Inv, OnTime, NEW v \in VMs, vm[v].slice = "reached", to_vm[v] # <<>>,
                      Head(to_vm[v]).type = "DeliverPacket"
               PROVE  simgridToVmTime(Head(to_vm[v]).packet.due) = vm[v].deadline
    BY Zenon DEF DeliveredOnArrival
  <2>1. to_vm[v] \in Seq(ToVmMsgs)
    BY Zenon DEF Inv, TypeOK
  <2>2. Head(to_vm[v]) = to_vm[v][1] /\ 1 \in DOMAIN to_vm[v]
    BY <2>1
  <2> QED
    BY Zenon, <2>2 DEF Punctual
<1> HIDE DEF OnTime
<1> QED
  BY <1>1, <1>2, <1>3, <1>4, AlwaysInv, PTL DEF Spec

-----------------------------------------------------------------------------
(* Packets.  Packet m is at place k, of VM v and number n.                 *)
At(k, v, n, m) ==
  \/ k = "messages" /\ v = 0 /\ n = 0 /\ m \in messages
  \/ k = "pending_comms" /\ v = 0 /\ \E c \in pending_comms : c.msg = m /\ c.due = n
  \/ k = "lost" /\ v = 0 /\ n = 0 /\ m \in lost
  \/ k = "from_vm" /\ v \in VMs /\ n \in DOMAIN from_vm[v] /\ from_vm[v][n] = SendPacketMsg(m)
  \/ /\ k = "to_vm" /\ v \in VMs /\ n \in DOMAIN to_vm[v]
     /\ to_vm[v][n].type = "DeliverPacket" /\ to_vm[v][n].packet.msg = m
  \/ k = "inbox" /\ v \in VMs /\ n = 0 /\ m \in inbox[v]

LEMMA PlacesAt ==
  ASSUME NEW m
  PROVE  /\ \A p \in Places(m) : \E k, v, n : p = <<k, v, n>> /\ At(k, v, n, m)
         /\ \A k, v, n : At(k, v, n, m) => <<k, v, n>> \in Places(m)
<1> DEFINE A == {<<"messages", 0, 0>> : x \in {m} \cap messages}
           B == {<<"pending_comms", 0, c.due>> : c \in {d \in pending_comms : d.msg = m}}
           C == {<<"lost", 0, 0>> : x \in {m} \cap lost}
           D(v) == {<<"from_vm", v, i>> : i \in {j \in DOMAIN from_vm[v] : from_vm[v][j] = SendPacketMsg(m)}}
           E(v) == {<<"to_vm", v, i>> : i \in {j \in DOMAIN to_vm[v] :
                                           /\ to_vm[v][j].type = "DeliverPacket"
                                           /\ to_vm[v][j].packet.msg = m}}
           G(v) == {<<"inbox", v, 0>> : x \in {m} \cap inbox[v]}
<1>1. Places(m) = A \cup B \cup C \cup UNION {D(v) \cup E(v) \cup G(v) : v \in VMs}
  BY Zenon DEF Places
<1>2. \A p : p \in Places(m) <=> p \in A \/ p \in B \/ p \in C
                                 \/ \E v \in VMs : p \in D(v) \/ p \in E(v) \/ p \in G(v)
  <2> HIDE DEF A, B, C, D, E, G
  <2> QED BY <1>1
<1>3. /\ \A p \in A : p = <<"messages", 0, 0>> /\ m \in messages
      /\ m \in messages => <<"messages", 0, 0>> \in A
  BY Zenon
<1>4. /\ \A p \in B : \E c \in pending_comms : c.msg = m /\ p = <<"pending_comms", 0, c.due>>
      /\ \A c \in pending_comms : c.msg = m => <<"pending_comms", 0, c.due>> \in B
  BY Zenon
<1>5. /\ \A p \in C : p = <<"lost", 0, 0>> /\ m \in lost
      /\ m \in lost => <<"lost", 0, 0>> \in C
  BY Zenon
<1>6. \A v \in VMs :
        /\ \A p \in D(v) : \E i \in DOMAIN from_vm[v] : from_vm[v][i] = SendPacketMsg(m) /\ p = <<"from_vm", v, i>>
        /\ \A i \in DOMAIN from_vm[v] : from_vm[v][i] = SendPacketMsg(m) => <<"from_vm", v, i>> \in D(v)
  <2> HIDE DEF SendPacketMsg
  <2> QED BY Zenon
<1>7. \A v \in VMs :
        /\ \A p \in E(v) : \E i \in DOMAIN to_vm[v] :
             to_vm[v][i].type = "DeliverPacket" /\ to_vm[v][i].packet.msg = m /\ p = <<"to_vm", v, i>>
        /\ \A i \in DOMAIN to_vm[v] :
             to_vm[v][i].type = "DeliverPacket" /\ to_vm[v][i].packet.msg = m => <<"to_vm", v, i>> \in E(v)
  OBVIOUS
<1>8. \A v \in VMs : /\ \A p \in G(v) : p = <<"inbox", v, 0>> /\ m \in inbox[v]
                     /\ m \in inbox[v] => <<"inbox", v, 0>> \in G(v)
  BY Zenon
<1> HIDE DEF A, B, C, D, E, G
<1>9. ASSUME NEW p \in Places(m)
      PROVE  \E k, v, n : p = <<k, v, n>> /\ At(k, v, n, m)
  <2>1. CASE p \in A
    BY Zenon, <1>3, <2>1 DEF At
  <2>2. CASE p \in B
    BY Zenon, <1>4, <2>2 DEF At
  <2>3. CASE p \in C
    BY Zenon, <1>5, <2>3 DEF At
  <2>4. ASSUME NEW v \in VMs, p \in D(v) PROVE \E k, w, n : p = <<k, w, n>> /\ At(k, w, n, m)
    BY <1>6, <2>4 DEF At
  <2>5. ASSUME NEW v \in VMs, p \in E(v) PROVE \E k, w, n : p = <<k, w, n>> /\ At(k, w, n, m)
    BY <1>7, <2>5 DEF At
  <2>6. ASSUME NEW v \in VMs, p \in G(v) PROVE \E k, w, n : p = <<k, w, n>> /\ At(k, w, n, m)
    BY Zenon, <1>8, <2>6 DEF At
  <2> QED
    BY Zenon, <1>2, <2>1, <2>2, <2>3, <2>4, <2>5, <2>6
<1>10. ASSUME NEW k, NEW v, NEW n, At(k, v, n, m)
       PROVE  <<k, v, n>> \in Places(m)
  BY <1>2, <1>3, <1>4, <1>5, <1>6, <1>7, <1>8, <1>10 DEF At
<1> QED
  BY Zenon, <1>9, <1>10

Sent(m) == \E j \in DOMAIN sent : sent[j] = m

One(m) ==
  \E k, v, n : /\ At(k, v, n, m)
               /\ \A k2, v2, n2 : At(k2, v2, n2, m) => k2 = k /\ v2 = v /\ n2 = n

LEMMA OnePlace ==
  ASSUME NEW m, One(m)
  PROVE  \E p \in Places(m) : Places(m) = {p}
<1>1. PICK k, v, n : /\ At(k, v, n, m)
                     /\ \A k2, v2, n2 : At(k2, v2, n2, m) => k2 = k /\ v2 = v /\ n2 = n
  BY Zenon DEF One
<1>2. <<k, v, n>> \in Places(m)
  BY Zenon, <1>1, PlacesAt
<1>3. ASSUME NEW p \in Places(m) PROVE p = <<k, v, n>>
  <2>1. PICK k2, v2, n2 : p = <<k2, v2, n2>> /\ At(k2, v2, n2, m)
    BY Zenon, PlacesAt
  <2>2. k2 = k /\ v2 = v /\ n2 = n
    BY Zenon, <1>1, <2>1
  <2> QED
    BY Zenon, <2>1, <2>2
<1> QED
  BY Zenon, <1>2, <1>3

(* Where the packets are after each action.                                *)
LEMMA AtFrame ==
  ASSUME UNCHANGED <<messages, pending_comms, lost, to_vm, from_vm, inbox>>, NEW k, NEW v, NEW n, NEW m
  PROVE  At(k, v, n, m)' <=> At(k, v, n, m)
  BY Zenon DEF At

LEMMA SendPacketInjective ==
  ASSUME NEW x, NEW y, SendPacketMsg(x) = SendPacketMsg(y)
  PROVE  x = y
<1>1. SendPacketMsg(x).packet = x /\ SendPacketMsg(y).packet = y
  BY Zenon DEF SendPacketMsg
<1> QED
  BY Zenon, <1>1

(* An element at the end of a queue.                                       *)
LEMMA AppendFacts ==
  ASSUME NEW S, NEW q \in Seq(S), NEW x, NEW q2, q2 = Append(q, x)
  PROVE  /\ DOMAIN q = 1..Len(q) /\ Len(q) \in Nat /\ DOMAIN q2 = 1..(Len(q) + 1)
         /\ \A i \in DOMAIN q : q2[i] = q[i]
         /\ q2[Len(q) + 1] = x
  OBVIOUS

LEMMA AtGoTo ==
  ASSUME TypeOK, goTo, NEW k, NEW v, NEW n, NEW m
  PROVE  At(k, v, n, m)' <=> At(k, v, n, m)
<1> DEFINE g == GotoDeadlineMsg(simgridToVmTime(deadline'))
<1>1. UNCHANGED <<messages, pending_comms, lost, from_vm, inbox>>
  BY Zenon DEF goTo, msgVars
<1>2. g.type # "DeliverPacket"
  BY Zenon DEF GotoDeadlineMsg
<1>3. \A w \in VMs : to_vm'[w] = to_vm[w] \/ to_vm'[w] = Append(to_vm[w], g)
  BY Zenon DEF goTo
<1> HIDE DEF g
<1>4. \A w \in VMs : to_vm[w] \in Seq(ToVmMsgs)
  BY Zenon DEF TypeOK
<1>5. ASSUME NEW w \in VMs
      PROVE  n \in DOMAIN to_vm'[w] /\ to_vm'[w][n].type = "DeliverPacket" /\ to_vm'[w][n].packet.msg = m
             <=> n \in DOMAIN to_vm[w] /\ to_vm[w][n].type = "DeliverPacket" /\ to_vm[w][n].packet.msg = m
  <2>1. CASE to_vm'[w] = Append(to_vm[w], g)
    <3>1. /\ DOMAIN to_vm[w] = 1..Len(to_vm[w]) /\ Len(to_vm[w]) \in Nat
          /\ DOMAIN to_vm'[w] = 1..(Len(to_vm[w]) + 1)
          /\ \A i \in DOMAIN to_vm[w] : to_vm'[w][i] = to_vm[w][i]
          /\ to_vm'[w][Len(to_vm[w]) + 1] = g
      BY <1>4, <2>1, AppendFacts
    <3>2. n \in DOMAIN to_vm'[w] => n \in DOMAIN to_vm[w] \/ n = Len(to_vm[w]) + 1
      BY <3>1
    <3>3. n \in DOMAIN to_vm[w] => n \in DOMAIN to_vm'[w]
      BY <3>1
    <3> QED
      BY Zenon, <1>2, <3>1, <3>2, <3>3
  <2> QED
    BY Zenon, <1>3, <2>1
<1> QED
  BY <1>1, <1>5 DEF At

LEMMA AtReceive ==
  ASSUME TypeOK, \A w \in VMs : VmInv(w), Receive, NEW k, NEW v, NEW n, NEW m
  PROVE  At(k, v, n, m)' <=>
           \/ k = "from_vm" /\ v = cur /\ n \in Nat \ {0} /\ At("from_vm", cur, n + 1, m)
           \/ (k # "from_vm" \/ v # cur) /\ At(k, v, n, m)
           \/ k = "messages" /\ v = 0 /\ n = 0 /\ At("from_vm", cur, 1, m)
<1> DEFINE q == from_vm[cur]
<1>1. UNCHANGED <<pending_comms, lost, to_vm, inbox>>
  BY Zenon DEF Receive
<1>2. /\ cur \in VMs /\ q \in Seq(FromVmMsgs) /\ q # <<>> /\ from_vm'[cur] = Tail(q)
      /\ \A w \in VMs \ {cur} : from_vm'[w] = from_vm[w]
  BY Zenon, HeadFrom
<1>3. \A x : x \in messages' <=> x \in messages \/ (q[1] = SendPacketMsg(x))
  <2>1. CASE q[1].type = "AtDeadline"
    <3>1. messages' = messages
      BY Zenon, <2>1, HeadFrom
    <3>2. \A x : SendPacketMsg(x).type = "SendPacket"
      BY Zenon DEF SendPacketMsg
    <3> QED
      BY Zenon, <2>1, <3>1, <3>2
  <2>2. CASE q[1].type # "AtDeadline"
    <3>1. messages' = messages \cup {q[1].packet} /\ q[1] = SendPacketMsg(q[1].packet)
      BY Zenon, <2>2, HeadFrom
    <3>2. \A x : q[1] = SendPacketMsg(x) => x = q[1].packet
      BY Zenon, <3>1, SendPacketInjective
    <3> QED
      BY Zenon, <3>1, <3>2
  <2> QED
    BY Zenon, <2>1, <2>2
<1>4. DOMAIN q = 1..Len(q) /\ Len(q) \in Nat \ {0} /\ DOMAIN Tail(q) = 1..(Len(q) - 1)
      /\ \A i \in DOMAIN Tail(q) : Tail(q)[i] = q[i + 1]
  BY Zenon, <1>2, TailFacts, EmptyLen
<1>5. n \in DOMAIN Tail(q) <=> n \in Nat \ {0} /\ n + 1 \in DOMAIN q
  BY <1>4
<1>6. 1 \in DOMAIN q
  BY <1>4
<1> HIDE DEF q
<1>7. CASE k = "from_vm"
  <2>1. CASE v = cur
    BY Zenon, <1>2, <1>4, <1>5, <1>7, <2>1 DEF At, q
  <2>2. CASE v # cur
    BY Zenon, <1>2, <1>7, <2>2 DEF At
  <2> QED
    BY Zenon, <2>1, <2>2
<1>8. CASE k = "messages"
  BY Zenon, <1>2, <1>3, <1>6, <1>8 DEF At, q
<1>9. CASE k \notin {"from_vm", "messages"}
  BY Zenon, <1>1, <1>9 DEF At
<1> QED
  BY Zenon, <1>7, <1>8, <1>9

LEMMA AtSend ==
  ASSUME NEW x \in messages, sendto_async(x)
  PROVE  \E due : \A k, v, n, m :
           At(k, v, n, m)' <=>
             \/ At(k, v, n, m) /\ ~(k = "messages" /\ m = x)
             \/ /\ m = x /\ v = 0
                /\ IF x.dst \in VMs THEN k = "pending_comms" /\ n = due ELSE k = "lost" /\ n = 0
<1>1. UNCHANGED <<to_vm, from_vm, inbox>> /\ messages' = messages \ {x}
  BY Zenon DEF sendto_async, vmVars
<1>2. CASE x.dst \in VMs
  <2>1. PICK slack \in Slack : pending_comms' = pending_comms \cup
           {[msg |-> x, due |-> clock' + slack + Latency[<<HostOf[x.src], HostOf[x.dst]>>]]}
    BY Zenon, <1>2 DEF sendto_async
  <2> DEFINE d == clock' + slack + Latency[<<HostOf[x.src], HostOf[x.dst]>>]
  <2>2. lost' = lost
    BY Zenon, <1>2 DEF sendto_async
  <2> HIDE DEF d
  <2>3. ASSUME NEW k, NEW v, NEW n, NEW m
        PROVE  (\E c \in pending_comms' : c.msg = m /\ c.due = n)
               <=> (\E c \in pending_comms : c.msg = m /\ c.due = n) \/ (m = x /\ n = d)
    <3>1. pending_comms' = pending_comms \cup {[msg |-> x, due |-> d]}
      BY Zenon, <2>1 DEF d
    <3> DEFINE e == [msg |-> x, due |-> d]
    <3>2. e.msg = x /\ e.due = d
      BY Zenon
    <3> HIDE DEF e
    <3>3. \A c : c \in pending_comms' <=> c \in pending_comms \/ c = e
      BY Zenon, <3>1 DEF e
    <3>4. CASE m = x /\ n = d
      BY Zenon, <3>2, <3>3, <3>4
    <3>5. CASE ~(m = x /\ n = d)
      BY Zenon, <3>2, <3>3, <3>5
    <3> QED
      BY Zenon, <3>4, <3>5
  <2>4. ASSUME NEW k, NEW v, NEW n, NEW m
        PROVE  At(k, v, n, m)' <=>
                 \/ At(k, v, n, m) /\ ~(k = "messages" /\ m = x)
                 \/ m = x /\ v = 0 /\ k = "pending_comms" /\ n = d
    <3>1. CASE k = "messages"
      BY Zenon, <1>1, <3>1 DEF At
    <3>2. CASE k = "pending_comms"
      BY Zenon, <2>3, <3>2 DEF At
    <3>3. CASE k \notin {"messages", "pending_comms"}
      BY Zenon, <1>1, <2>2, <3>3 DEF At
    <3> QED
      BY Zenon, <3>1, <3>2, <3>3
  <2> QED
    BY Zenon, <1>2, <2>4
<1>3. CASE x.dst \notin VMs
  <2>1. pending_comms' = pending_comms /\ lost' = lost \cup {x}
    BY Zenon, <1>3 DEF sendto_async
  <2>2. ASSUME NEW k, NEW v, NEW n, NEW m
        PROVE  At(k, v, n, m)' <=>
                 \/ At(k, v, n, m) /\ ~(k = "messages" /\ m = x)
                 \/ m = x /\ v = 0 /\ k = "lost" /\ n = 0
    <3>1. CASE k = "messages"
      BY Zenon, <1>1, <3>1 DEF At
    <3>2. CASE k = "lost"
      BY Zenon, <2>1, <3>2 DEF At
    <3>3. CASE k \notin {"messages", "lost"}
      BY <1>1, <2>1, <3>3 DEF At
    <3> QED
      BY Zenon, <3>1, <3>2, <3>3
  <2> QED
    BY Zenon, <1>3, <2>2
<1> QED
  BY Zenon, <1>2, <1>3

LEMMA AtDeliver ==
  ASSUME TypeOK, NEW x \in pending_comms, deliverMessage(x), NEW k, NEW v, NEW n, NEW m
  PROVE  At(k, v, n, m)' <=>
           \/ At(k, v, n, m) /\ ~(k = "pending_comms" /\ m = x.msg /\ n = x.due)
           \/ /\ m = x.msg
              /\ IF x.msg.dst \in vm_sockets
                 THEN k = "to_vm" /\ v = x.msg.dst /\ n = Len(to_vm[x.msg.dst]) + 1
                 ELSE k = "lost" /\ v = 0 /\ n = 0
<1>1. /\ UNCHANGED <<messages, from_vm, inbox>> /\ pending_comms' = pending_comms \ {x}
      /\ x \in Comms /\ pending_comms \subseteq Comms /\ vm_sockets \subseteq VMs
  BY Zenon DEF deliverMessage, TypeOK
<1>2. \A c, d \in Comms : c.msg = d.msg /\ c.due = d.due => c = d
  BY DEF Comms
<1>3. (\E c \in pending_comms' : c.msg = m /\ c.due = n)
      <=> (\E c \in pending_comms : c.msg = m /\ c.due = n) /\ ~(m = x.msg /\ n = x.due)
  BY Zenon, <1>1, <1>2
<1>4. CASE x.msg.dst \in vm_sockets
  <2> DEFINE w == x.msg.dst
             q == to_vm[w]
             q2 == to_vm'[w]
  <2>1. /\ lost' = lost /\ w \in VMs /\ q \in Seq(ToVmMsgs) /\ q2 = Append(q, DeliverPacketMsg(x))
        /\ \A u \in VMs \ {w} : to_vm'[u] = to_vm[u]
    BY Zenon, <1>1, <1>4 DEF deliverMessage, TypeOK
  <2>2. DeliverPacketMsg(x).type = "DeliverPacket" /\ DeliverPacketMsg(x).packet.msg = x.msg
    BY Zenon DEF DeliverPacketMsg
  <2> HIDE DEF q, q2, w
  <2>3. /\ DOMAIN q = 1..Len(q) /\ Len(q) \in Nat /\ DOMAIN q2 = 1..(Len(q) + 1)
        /\ \A i \in DOMAIN q : q2[i] = q[i]
        /\ q2[Len(q) + 1] = DeliverPacketMsg(x)
    BY <2>1, AppendFacts
  <2>4. /\ n \in DOMAIN q2 <=> n \in DOMAIN q \/ n = Len(q) + 1
        /\ ~(Len(q) + 1 \in DOMAIN q)
    BY <2>3
  <2>5. n \in DOMAIN q2 /\ q2[n].type = "DeliverPacket" /\ q2[n].packet.msg = m
        <=> \/ n \in DOMAIN q /\ q[n].type = "DeliverPacket" /\ q[n].packet.msg = m
            \/ n = Len(q) + 1 /\ m = x.msg
    BY Zenon, <2>2, <2>3, <2>4
  <2>6. CASE k = "to_vm" /\ v = w
    BY ZenonT(30), <1>4, <2>1, <2>5, <2>6 DEF At, q, q2, w
  <2>7. CASE k = "to_vm" /\ v # w
    BY Zenon, <1>4, <2>1, <2>7 DEF At, w
  <2>8. CASE k = "pending_comms"
    BY Zenon, <1>3, <1>4, <2>8 DEF At
  <2>9. CASE k \notin {"to_vm", "pending_comms"}
    BY Zenon, <1>1, <1>4, <2>1, <2>9 DEF At
  <2> QED
    BY Zenon, <2>6, <2>7, <2>8, <2>9
<1>5. CASE x.msg.dst \notin vm_sockets
  <2>1. to_vm' = to_vm /\ lost' = lost \cup {x.msg}
    BY Zenon, <1>5 DEF deliverMessage
  <2>2. CASE k = "lost"
    BY Zenon, <1>5, <2>1, <2>2 DEF At
  <2>3. CASE k = "pending_comms"
    BY Zenon, <1>3, <1>5, <2>3 DEF At
  <2>4. CASE k \notin {"lost", "pending_comms"}
    BY Zenon, <1>1, <1>5, <2>1, <2>4 DEF At
  <2> QED
    BY Zenon, <2>2, <2>3, <2>4
<1> QED
  BY Zenon, <1>4, <1>5

LEMMA AtVmReceive ==
  ASSUME TypeOK, NEW w \in VMs, VmReceive(w), NEW k, NEW v, NEW n, NEW m
  PROVE  At(k, v, n, m)' <=>
           \/ k = "to_vm" /\ v = w /\ n \in Nat \ {0} /\ At("to_vm", w, n + 1, m)
           \/ (k # "to_vm" \/ v # w) /\ At(k, v, n, m)
           \/ k = "inbox" /\ v = w /\ n = 0 /\ At("to_vm", w, 1, m)
<1> DEFINE q == to_vm[w]
<1>1. UNCHANGED <<messages, pending_comms, lost, from_vm>>
  BY Zenon DEF VmReceive, msgVars
<1>2. /\ q \in Seq(ToVmMsgs) /\ q # <<>> /\ to_vm'[w] = Tail(q)
      /\ \A u \in VMs \ {w} : to_vm'[u] = to_vm[u] /\ inbox'[u] = inbox[u]
  BY ReceiveFields DEF TypeOK
<1>3. m \in inbox'[w] <=> m \in inbox[w] \/ (q[1].type = "DeliverPacket" /\ q[1].packet.msg = m)
  <2>1. CASE q[1].type = "DeliverPacket"
    <3>1. inbox'[w] = inbox[w] \cup {q[1].packet.msg}
      BY Zenon, <2>1, ReceiveFields
    <3> QED
      BY Zenon, <2>1, <3>1
  <2>2. CASE q[1].type # "DeliverPacket"
    <3>1. inbox' = inbox
      BY ZenonT(30), <2>2, ReceiveFields
    <3> QED
      BY Zenon, <2>2, <3>1
  <2> QED
    BY Zenon, <2>1, <2>2
<1>4. DOMAIN q = 1..Len(q) /\ Len(q) \in Nat \ {0} /\ DOMAIN Tail(q) = 1..(Len(q) - 1)
      /\ \A i \in DOMAIN Tail(q) : Tail(q)[i] = q[i + 1]
  BY <1>2, TailFacts, EmptyLen
<1>5. n \in DOMAIN Tail(q) <=> n \in Nat \ {0} /\ n + 1 \in DOMAIN q
  BY <1>4
<1>6. 1 \in DOMAIN q
  BY <1>4
<1> HIDE DEF q
<1>7. CASE k = "to_vm"
  <2>1. CASE v = w
    BY ZenonT(30), <1>2, <1>4, <1>5, <1>7, <2>1 DEF At, q
  <2>2. CASE v # w
    BY Zenon, <1>2, <1>7, <2>2 DEF At
  <2> QED
    BY Zenon, <2>1, <2>2
<1>8. CASE k = "inbox"
  <2>1. CASE v = w
    BY Zenon, <1>3, <1>6, <1>8, <2>1 DEF At, q
  <2>2. CASE v # w
    BY Zenon, <1>2, <1>8, <2>2 DEF At
  <2> QED
    BY Zenon, <2>1, <2>2
<1>9. CASE k \notin {"to_vm", "inbox"}
  BY Zenon, <1>1, <1>9 DEF At
<1> QED
  BY Zenon, <1>7, <1>8, <1>9

(* A message x of VM w put into its socket.                                *)
LEMMA AtPut ==
  ASSUME TypeOK, NEW w \in VMs, NEW x, from_vm' = [from_vm EXCEPT ![w] = Append(@, x)],
         UNCHANGED <<messages, pending_comms, lost, to_vm, inbox>>, NEW k, NEW v, NEW n, NEW m
  PROVE  At(k, v, n, m)' <=>
           \/ At(k, v, n, m)
           \/ k = "from_vm" /\ v = w /\ n = Len(from_vm[w]) + 1 /\ x = SendPacketMsg(m)
<1> DEFINE q == from_vm[w]
           q2 == from_vm'[w]
<1>1. q \in Seq(FromVmMsgs) /\ q2 = Append(q, x) /\ \A u \in VMs \ {w} : from_vm'[u] = from_vm[u]
  BY Zenon DEF TypeOK
<1> HIDE DEF q, q2
<1>2. /\ DOMAIN q = 1..Len(q) /\ Len(q) \in Nat /\ DOMAIN q2 = 1..(Len(q) + 1)
      /\ \A i \in DOMAIN q : q2[i] = q[i]
      /\ q2[Len(q) + 1] = x
  BY <1>1, AppendFacts
<1>3. /\ n \in DOMAIN q2 <=> n \in DOMAIN q \/ n = Len(q) + 1
      /\ ~(Len(q) + 1 \in DOMAIN q)
  BY <1>2
<1>4. n \in DOMAIN q2 /\ q2[n] = SendPacketMsg(m)
      <=> \/ n \in DOMAIN q /\ q[n] = SendPacketMsg(m)
          \/ n = Len(q) + 1 /\ x = SendPacketMsg(m)
  BY Zenon, <1>2, <1>3
<1>5. CASE k = "from_vm" /\ v = w
  BY Zenon, <1>4, <1>5 DEF At, q, q2
<1>6. CASE k = "from_vm" /\ v # w
  BY Zenon, <1>1, <1>6 DEF At
<1>7. CASE k # "from_vm"
  BY Zenon, <1>7 DEF At
<1> QED
  BY Zenon, <1>5, <1>6, <1>7

LEMMA AtVmAtDeadline ==
  ASSUME TypeOK, NEW w \in VMs, VmAtDeadline(w), NEW k, NEW v, NEW n, NEW m
  PROVE  At(k, v, n, m)' <=> At(k, v, n, m)
<1>1. /\ from_vm' = [from_vm EXCEPT ![w] = Append(@, AtDeadlineMsg)]
      /\ UNCHANGED <<messages, pending_comms, lost, to_vm, inbox>>
  BY Zenon DEF VmAtDeadline, msgVars
<1>2. AtDeadlineMsg # SendPacketMsg(m)
  <2>1. AtDeadlineMsg.type = "AtDeadline" /\ SendPacketMsg(m).type = "SendPacket"
    BY Zenon DEF AtDeadlineMsg, SendPacketMsg
  <2> QED
    BY Zenon, <2>1
<1> QED
  BY Zenon, <1>1, <1>2, AtPut

LEMMA AtVmSend ==
  ASSUME TypeOK, NEW w \in VMs, VmSend(w)
  PROVE  \E x \in Messages :
           /\ x.id = Len(sent) /\ sent' = Append(sent, x)
           /\ \A k, v, n, m :
                At(k, v, n, m)' <=>
                  \/ At(k, v, n, m)
                  \/ m = x /\ k = "from_vm" /\ v = w /\ n = Len(from_vm[w]) + 1
<1>1. PICK time \in vm[w].prev .. vm[w].deadline, dst \in (VMs \cup {Unknown}) \ {w} :
        /\ from_vm' = [from_vm EXCEPT ![w] = Append(@, SendPacketMsg(
             [id |-> Len(sent), src |-> w, dst |-> dst, sent_time |-> time]))]
        /\ sent' = Append(sent, [id |-> Len(sent), src |-> w, dst |-> dst, sent_time |-> time])
  BY Zenon DEF VmSend
<1> DEFINE x == [id |-> Len(sent), src |-> w, dst |-> dst, sent_time |-> time]
<1>2. vm[w].prev \in Nat /\ vm[w].deadline \in Nat /\ Len(sent) \in Nat /\ Len(sent) < MaxSends
  BY DEF TypeOK, VmSend
<1>3. x \in Messages /\ x.id = Len(sent)
  BY <1>2, Bounds DEF Messages
<1> HIDE DEF x
<1>4. /\ from_vm' = [from_vm EXCEPT ![w] = Append(@, SendPacketMsg(x))]
      /\ UNCHANGED <<messages, pending_comms, lost, to_vm, inbox>>
      /\ sent' = Append(sent, x)
  BY ZenonT(30), <1>1 DEF VmSend, msgVars, x
<1>5. ASSUME NEW k, NEW v, NEW n, NEW m
      PROVE  At(k, v, n, m)' <=>
               \/ At(k, v, n, m)
               \/ m = x /\ k = "from_vm" /\ v = w /\ n = Len(from_vm[w]) + 1
  <2>1. SendPacketMsg(x) = SendPacketMsg(m) <=> m = x
    BY Zenon, SendPacketInjective
  <2>2. At(k, v, n, m)' <=>
           \/ At(k, v, n, m)
           \/ k = "from_vm" /\ v = w /\ n = Len(from_vm[w]) + 1 /\ SendPacketMsg(x) = SendPacketMsg(m)
    BY ZenonT(30), <1>4, AtPut
  <2> QED
    BY Zenon, <2>1, <2>2
<1> QED
  BY Zenon, <1>3, <1>4, <1>5

(* Packets are numbered as they are sent; what is anywhere was sent, and   *)
(* what was sent is somewhere, once.                                       *)
Conserved ==
  /\ \A j \in DOMAIN sent : sent[j].id = j - 1
  /\ \A k, v, n, m : At(k, v, n, m) => Sent(m)
  /\ \A m : Sent(m) => One(m)

Addressed ==
  /\ \A k, v, n, m : At(k, v, n, m) /\ k \in {"to_vm", "inbox"} => m.dst = v
  /\ \A m \in lost : m.dst \notin vm_sockets

LEMMA ConservedSame ==
  ASSUME Conserved, sent' = sent, \A k, v, n, m : At(k, v, n, m)' <=> At(k, v, n, m)
  PROVE  Conserved'
<1>1. \A m : Sent(m)' <=> Sent(m)
  BY Zenon DEF Sent
<1>2. \A m : One(m) => One(m)'
  BY DEF One
<1> QED
  BY Zenon, <1>1, <1>2 DEF Conserved

(* Packet x goes from place <<a, b, i>> to place <<c, d, j>>.              *)
Moved(x, a, b, i, c, d, j) ==
  /\ At(a, b, i, x)
  /\ \A k, v, n, m : At(k, v, n, m)' <=>
       \/ At(k, v, n, m) /\ ~(m = x /\ k = a /\ v = b /\ n = i)
       \/ m = x /\ k = c /\ v = d /\ n = j

LEMMA ConservedMoved ==
  ASSUME Conserved, sent' = sent, NEW a, NEW b, NEW i, NEW c, NEW d, NEW j, NEW x,
         Moved(x, a, b, i, c, d, j)
  PROVE  Conserved'
<1> USE DEF Moved
<1>1. \A m : Sent(m)' <=> Sent(m)
  BY Zenon DEF Sent
<1>2. ASSUME NEW m, One(m) PROVE One(m)'
  <2>1. PICK k, v, n : /\ At(k, v, n, m)
                       /\ \A k2, v2, n2 : At(k2, v2, n2, m) => k2 = k /\ v2 = v /\ n2 = n
    BY Zenon, <1>2 DEF One
  <2>2. CASE m = x
    <3>1. At(c, d, j, m)'
      BY Zenon, <2>2
    <3>2. \A k2, v2, n2 : At(k2, v2, n2, m)' => k2 = c /\ v2 = d /\ n2 = j
      BY <2>1, <2>2
    <3> QED
      BY <3>1, <3>2 DEF One
  <2>3. CASE m # x
    <3>1. \A k2, v2, n2 : At(k2, v2, n2, m)' <=> At(k2, v2, n2, m)
      BY Zenon, <2>3
    <3> QED
      BY <2>1, <3>1 DEF One
  <2> QED
    BY Zenon, <2>2, <2>3
<1>3. \A k, v, n, m : At(k, v, n, m)' => Sent(m)
  BY DEF Conserved
<1> QED
  BY Zenon, <1>1, <1>2, <1>3 DEF Conserved

(* The packet at the head of queue a of b goes to place <<c, d, 0>>, and    *)
(* those behind it move up.                                                *)
LEMMA ConservedShifted ==
  ASSUME Conserved, sent' = sent, NEW a, NEW b, NEW c, NEW d, a # c,
         \A n, m : At(a, b, n, m) => n \in Nat \ {0},
         \A k, v, n, m : At(k, v, n, m)' <=>
           \/ k = a /\ v = b /\ n \in Nat \ {0} /\ At(a, b, n + 1, m)
           \/ (k # a \/ v # b) /\ At(k, v, n, m)
           \/ k = c /\ v = d /\ n = 0 /\ At(a, b, 1, m)
  PROVE  Conserved'
<1>1. \A m : Sent(m)' <=> Sent(m)
  BY Zenon DEF Sent
<1>2. ASSUME NEW m, One(m) PROVE One(m)'
  <2>1. PICK k, v, n : /\ At(k, v, n, m)
                       /\ \A k2, v2, n2 : At(k2, v2, n2, m) => k2 = k /\ v2 = v /\ n2 = n
    BY Zenon, <1>2 DEF One
  <2>2. CASE k = a /\ v = b /\ n = 1
    <3>1. At(c, d, 0, m)'
      BY Zenon, <2>1, <2>2
    <3>2. ASSUME NEW k2, NEW v2, NEW n2, At(k2, v2, n2, m)' PROVE k2 = c /\ v2 = d /\ n2 = 0
      <4>1. ~(k2 = a /\ v2 = b /\ n2 \in Nat \ {0} /\ At(a, b, n2 + 1, m))
        <5> SUFFICES ASSUME n2 \in Nat \ {0}, At(a, b, n2 + 1, m) PROVE FALSE
          BY Zenon
        <5>1. n2 + 1 = 1
          BY <2>1, <2>2
        <5> QED
          BY <5>1
      <4>2. ~((k2 # a \/ v2 # b) /\ At(k2, v2, n2, m))
        BY Zenon, <2>1, <2>2
      <4> QED
        BY Zenon, <3>2, <4>1, <4>2
    <3> QED
      BY Zenon, <3>1, <3>2 DEF One
  <2>3. CASE k = a /\ v = b /\ n # 1
    <3>1. n \in Nat /\ n - 1 \in Nat \ {0} /\ (n - 1) + 1 = n
      BY <2>1, <2>3
    <3>2. At(a, b, n - 1, m)'
      BY Zenon, <2>1, <2>3, <3>1
    <3>3. ASSUME NEW k2, NEW v2, NEW n2, At(k2, v2, n2, m)' PROVE k2 = a /\ v2 = b /\ n2 = n - 1
      <4>1. ~(k2 = c /\ v2 = d /\ n2 = 0 /\ At(a, b, 1, m))
        BY <2>1, <2>3
      <4>2. ~((k2 # a \/ v2 # b) /\ At(k2, v2, n2, m))
        BY Zenon, <2>1, <2>3
      <4>3. k2 = a /\ v2 = b /\ n2 \in Nat \ {0} /\ At(a, b, n2 + 1, m)
        BY Zenon, <3>3, <4>1, <4>2
      <4>4. n2 + 1 = n
        BY Zenon, <2>1, <4>3
      <4> QED
        BY <3>1, <4>3, <4>4
    <3> QED
      BY <3>2, <3>3 DEF One
  <2>4. CASE ~(k = a /\ v = b)
    <3>1. At(k, v, n, m)'
      BY Zenon, <2>1, <2>4
    <3>2. \A i : ~At(a, b, i, m)
      BY Zenon, <2>1, <2>4
    <3>3. \A k2, v2, n2 : At(k2, v2, n2, m)' => k2 = k /\ v2 = v /\ n2 = n
      BY Zenon, <2>1, <3>2
    <3> QED
      BY Zenon, <3>1, <3>3 DEF One
  <2> QED
    BY Zenon, <2>2, <2>3, <2>4
<1>3. \A k, v, n, m : At(k, v, n, m)' => Sent(m)
  BY ZenonT(30) DEF Conserved
<1> QED
  BY Zenon, <1>1, <1>2, <1>3 DEF Conserved

(* A packet that was nowhere is sent.                                      *)
PutAt(x, c, d, j) ==
  /\ x \in Messages /\ x.id = Len(sent) /\ sent' = Append(sent, x)
  /\ \A k, v, n, m : At(k, v, n, m)' <=>
       \/ At(k, v, n, m)
       \/ m = x /\ k = c /\ v = d /\ n = j

LEMMA ConservedSent ==
  ASSUME TypeOK, Conserved, NEW x, NEW c, NEW d, NEW j, PutAt(x, c, d, j)
  PROVE  Conserved'
<1> USE DEF PutAt
<1>1. sent \in Seq(Messages)
  BY Zenon DEF TypeOK
<1>2. /\ DOMAIN sent = 1..Len(sent) /\ Len(sent) \in Nat /\ DOMAIN sent' = 1..(Len(sent) + 1)
      /\ \A i \in DOMAIN sent : sent'[i] = sent[i]
      /\ sent'[Len(sent) + 1] = x
  BY <1>1, AppendFacts
<1>3. ~Sent(x)
  BY <1>2 DEF Sent, Conserved
<1>4. \A i \in DOMAIN sent' : i \in DOMAIN sent \/ i = Len(sent) + 1
  BY <1>2
<1>5. \A m : Sent(m)' <=> Sent(m) \/ m = x
  <2>1. \A i \in DOMAIN sent : i \in DOMAIN sent'
    BY <1>2
  <2>2. Len(sent) + 1 \in DOMAIN sent'
    BY <1>2
  <2> QED
    BY Zenon, <1>2, <1>4, <2>1, <2>2 DEF Sent
<1>6. \A i \in DOMAIN sent' : sent'[i].id = i - 1
  BY <1>2, <1>4 DEF Conserved
<1>7. \A k, v, n, m : At(k, v, n, m)' => Sent(m)'
  BY <1>5 DEF Conserved
<1>8. ASSUME NEW m, Sent(m)' PROVE One(m)'
  <2>1. CASE m = x
    <3>1. \A k, v, n : ~At(k, v, n, m)
      BY Zenon, <1>3, <2>1 DEF Conserved
    <3>2. At(c, d, j, m)' /\ \A k2, v2, n2 : At(k2, v2, n2, m)' => k2 = c /\ v2 = d /\ n2 = j
      BY <2>1, <3>1
    <3> QED
      BY <3>2 DEF One
  <2>2. CASE m # x
    <3>1. One(m)
      BY Zenon, <1>5, <1>8, <2>2 DEF Conserved
    <3>2. \A k2, v2, n2 : At(k2, v2, n2, m)' <=> At(k2, v2, n2, m)
      BY Zenon, <2>2
    <3> QED
      BY <3>1, <3>2 DEF One
  <2> QED
    BY Zenon, <2>1, <2>2
<1> QED
  BY Zenon, <1>6, <1>7, <1>8 DEF Conserved

LEMMA QueueNumbers ==
  ASSUME TypeOK, NEW k \in {"to_vm", "from_vm"}, NEW w \in VMs, NEW n, NEW m, At(k, w, n, m)
  PROVE  n \in Nat \ {0}
<1>1. /\ to_vm[w] \in Seq(ToVmMsgs) /\ from_vm[w] \in Seq(FromVmMsgs)
      /\ n \in DOMAIN to_vm[w] \/ n \in DOMAIN from_vm[w]
  BY Zenon DEF TypeOK, At
<1> QED
  BY <1>1, EmptyLen

LEMMA QuietAt ==
  ASSUME \/ (\E v \in VMs : register_vm(v) \/ Listen(v)) \/ Accept \/ close_vm_socket \/ EndGoTo
         \/ SleepUntilDeadline \/ EndSlice \/ end_simulation \/ UNCHANGED vars
         \/ (\E v \in VMs : VmConnect(v) \/ VmEnd(v) \/ VmExit(v))
  PROVE  UNCHANGED <<messages, pending_comms, lost, to_vm, from_vm, inbox, sent>>
  BY Zenon DEF register_vm, Listen, Accept, close_vm_socket, EndGoTo, SleepUntilDeadline, EndSlice,
         end_simulation, VmConnect, VmEnd, VmExit, msgVars, vmVars, vars

LEMMA ConservedNext ==
  ASSUME Inv, Conserved, [Next]_vars
  PROVE  Conserved'
<1>0. TypeOK /\ \A w \in VMs : VmInv(w)
  BY Zenon DEF Inv
<1>1. CASE \/ (\E v \in VMs : register_vm(v) \/ Listen(v)) \/ Accept \/ close_vm_socket \/ EndGoTo
           \/ SleepUntilDeadline \/ EndSlice \/ end_simulation \/ UNCHANGED vars
           \/ (\E v \in VMs : VmConnect(v) \/ VmEnd(v) \/ VmExit(v))
  <2>1. UNCHANGED <<messages, pending_comms, lost, to_vm, from_vm, inbox, sent>>
    BY Zenon, <1>1, QuietAt
  <2>2. \A k, v, n, m : At(k, v, n, m)' <=> At(k, v, n, m)
    BY Zenon, <2>1, AtFrame
  <2> QED
    BY Zenon, <2>1, <2>2, ConservedSame
<1>2. CASE goTo
  <2>1. \A k, v, n, m : At(k, v, n, m)' <=> At(k, v, n, m)
    BY <1>0, <1>2, AtGoTo
  <2> QED
    BY Zenon, <1>2, <2>1, ConservedSame DEF goTo
<1>3. CASE Receive
  <2>1. \A k, v, n, m : At(k, v, n, m)' <=>
           \/ k = "from_vm" /\ v = cur /\ n \in Nat \ {0} /\ At("from_vm", cur, n + 1, m)
           \/ (k # "from_vm" \/ v # cur) /\ At(k, v, n, m)
           \/ k = "messages" /\ v = 0 /\ n = 0 /\ At("from_vm", cur, 1, m)
    BY Zenon, <1>0, <1>3, AtReceive
  <2>2. cur \in VMs /\ sent' = sent
    BY <1>0, <1>3, HeadFrom DEF Receive
  <2>3. \A n, m : At("from_vm", cur, n, m) => n \in Nat \ {0}
    BY Zenon, <1>0, <2>2, QueueNumbers
  <2> QED
    BY <2>1, <2>2, <2>3, ConservedShifted
<1>4. ASSUME NEW x \in messages, sendto_async(x) PROVE Conserved'
  <2>1. PICK due : \A k, v, n, m :
           At(k, v, n, m)' <=>
             \/ At(k, v, n, m) /\ ~(k = "messages" /\ m = x)
             \/ /\ m = x /\ v = 0
                /\ IF x.dst \in VMs THEN k = "pending_comms" /\ n = due ELSE k = "lost" /\ n = 0
    BY Zenon, <1>4, AtSend
  <2>2. At("messages", 0, 0, x) /\ \A v, n, m : At("messages", v, n, m) => v = 0 /\ n = 0
    BY Zenon DEF At
  <2>3. sent' = sent
    BY Zenon, <1>4 DEF sendto_async, vmVars
  <2>4. CASE x.dst \in VMs
    <3>1. Moved(x, "messages", 0, 0, "pending_comms", 0, due)
      BY <2>1, <2>2, <2>4 DEF Moved
    <3> QED
      BY Zenon, <2>3, <3>1, ConservedMoved
  <2>5. CASE x.dst \notin VMs
    <3>1. Moved(x, "messages", 0, 0, "lost", 0, 0)
      BY <2>1, <2>2, <2>5 DEF Moved
    <3> QED
      BY <2>3, <3>1, ConservedMoved
  <2> QED
    BY Zenon, <2>4, <2>5
<1>5. ASSUME NEW x \in pending_comms, deliverMessage(x) PROVE Conserved'
  <2>1. \A k, v, n, m : At(k, v, n, m)' <=>
           \/ At(k, v, n, m) /\ ~(k = "pending_comms" /\ m = x.msg /\ n = x.due)
           \/ /\ m = x.msg
              /\ IF x.msg.dst \in vm_sockets
                 THEN k = "to_vm" /\ v = x.msg.dst /\ n = Len(to_vm[x.msg.dst]) + 1
                 ELSE k = "lost" /\ v = 0 /\ n = 0
    BY Zenon, <1>0, <1>5, AtDeliver
  <2>2. /\ At("pending_comms", 0, x.due, x.msg)
        /\ \A v, n, m : At("pending_comms", v, n, m) => v = 0
    BY Zenon DEF At
  <2>3. sent' = sent
    BY Zenon, <1>5 DEF deliverMessage
  <2>4. CASE x.msg.dst \in vm_sockets
    <3>1. Moved(x.msg, "pending_comms", 0, x.due, "to_vm", x.msg.dst, Len(to_vm[x.msg.dst]) + 1)
      BY <2>1, <2>2, <2>4 DEF Moved
    <3> QED
      BY Zenon, <2>3, <3>1, ConservedMoved
  <2>5. CASE x.msg.dst \notin vm_sockets
    <3>1. Moved(x.msg, "pending_comms", 0, x.due, "lost", 0, 0)
      BY Zenon, <2>1, <2>2, <2>5 DEF Moved
    <3> QED
      BY Zenon, <2>3, <3>1, ConservedMoved
  <2> QED
    BY Zenon, <2>4, <2>5
<1>6. ASSUME NEW w \in VMs, VmReceive(w) PROVE Conserved'
  <2>1. \A k, v, n, m : At(k, v, n, m)' <=>
           \/ k = "to_vm" /\ v = w /\ n \in Nat \ {0} /\ At("to_vm", w, n + 1, m)
           \/ (k # "to_vm" \/ v # w) /\ At(k, v, n, m)
           \/ k = "inbox" /\ v = w /\ n = 0 /\ At("to_vm", w, 1, m)
    BY Zenon, <1>0, <1>6, AtVmReceive
  <2>2. \A n, m : At("to_vm", w, n, m) => n \in Nat \ {0}
    BY Zenon, <1>0, QueueNumbers
  <2>3. sent' = sent
    BY Zenon, <1>6 DEF VmReceive
  <2> QED
    BY Zenon, <2>1, <2>2, <2>3, ConservedShifted
<1>7. ASSUME NEW w \in VMs, VmAtDeadline(w) PROVE Conserved'
  <2>1. \A k, v, n, m : At(k, v, n, m)' <=> At(k, v, n, m)
    BY Zenon, <1>0, <1>7, AtVmAtDeadline
  <2> QED
    BY Zenon, <1>7, <2>1, ConservedSame DEF VmAtDeadline
<1>8. ASSUME NEW w \in VMs, VmSend(w) PROVE Conserved'
  <2>1. PICK x \in Messages :
           /\ x.id = Len(sent) /\ sent' = Append(sent, x)
           /\ \A k, v, n, m :
                At(k, v, n, m)' <=>
                  \/ At(k, v, n, m)
                  \/ m = x /\ k = "from_vm" /\ v = w /\ n = Len(from_vm[w]) + 1
    BY Zenon, <1>0, <1>8, AtVmSend
  <2>2. PutAt(x, "from_vm", w, Len(from_vm[w]) + 1)
    BY Zenon, <2>1 DEF PutAt
  <2> QED
    BY <1>0, <2>2, ConservedSent
<1> QED
  BY SMTT(30), <1>1, <1>2, <1>3, <1>4, <1>5, <1>6, <1>7, <1>8 DEF Next, Coordinator, Vm

LEMMA AddressedNext ==
  ASSUME Inv, Addressed, [Next]_vars
  PROVE  Addressed'
<1>0. TypeOK /\ Control /\ vm_sockets \subseteq VMs /\ \A w \in VMs : VmInv(w)
  BY Zenon DEF Inv, TypeOK
<1> USE DEF setVars, msgVars, vmVars
<1>a. \A k, v, n, m : At(k, v, n, m) /\ k \in {"to_vm", "inbox"} => m.dst = v
  BY Zenon DEF Addressed
<1>b. \A m \in lost : m.dst \notin vm_sockets
  BY Zenon DEF Addressed
<1>1. CASE \/ (\E v \in VMs : register_vm(v) \/ Listen(v)) \/ Accept \/ close_vm_socket \/ EndGoTo
           \/ SleepUntilDeadline \/ EndSlice \/ end_simulation \/ UNCHANGED vars
           \/ (\E v \in VMs : VmConnect(v) \/ VmEnd(v) \/ VmExit(v))
  <2>1. UNCHANGED <<messages, pending_comms, lost, to_vm, from_vm, inbox, sent>>
    BY Zenon, <1>1, QuietAt
  <2>2. \A k, v, n, m : At(k, v, n, m)' <=> At(k, v, n, m)
    BY Zenon, <2>1, AtFrame
  <2>3. vm_sockets' \subseteq vm_sockets \/ lost = {}
    BY Zenon, <1>0, <1>1 DEF register_vm, Listen, Accept, close_vm_socket, EndGoTo, SleepUntilDeadline, EndSlice,
         end_simulation, VmConnect, VmEnd, VmExit, vars, Control
  <2> QED
    BY Zenon, <1>a, <1>b, <2>1, <2>2, <2>3 DEF Addressed
<1>2. CASE goTo
  <2>1. \A k, v, n, m : At(k, v, n, m)' <=> At(k, v, n, m)
    BY Zenon, <1>0, <1>2, AtGoTo
  <2>2. UNCHANGED <<lost, vm_sockets>>
    BY Zenon, <1>2 DEF goTo
  <2> QED
    BY Zenon, <1>a, <1>b, <2>1, <2>2 DEF Addressed
<1>3. CASE Receive
  <2>1. \A k, v, n, m : k \in {"to_vm", "inbox"} => (At(k, v, n, m)' <=> At(k, v, n, m))
    BY Zenon, <1>0, <1>3, AtReceive
  <2>2. UNCHANGED <<lost, vm_sockets>>
    BY Zenon, <1>3 DEF Receive
  <2> QED
    BY <1>a, <1>b, <2>1, <2>2 DEF Addressed
<1>4. ASSUME NEW x \in messages, sendto_async(x) PROVE Addressed'
  <2>1. \A k, v, n, m : k \in {"to_vm", "inbox"} => (At(k, v, n, m)' => At(k, v, n, m))
    BY Zenon, <1>4, AtSend
  <2>2. vm_sockets' = vm_sockets /\ (lost' = lost \/ (lost' = lost \cup {x} /\ x.dst \notin VMs))
    BY Zenon, <1>4 DEF sendto_async
  <2>3. \A m \in lost' : m.dst \notin vm_sockets'
    BY Zenon, <1>0, <1>b, <2>2
  <2> QED
    BY <1>a, <2>1, <2>3 DEF Addressed
<1>5. ASSUME NEW x \in pending_comms, deliverMessage(x) PROVE Addressed'
  <2>1. \A k, v, n, m : k \in {"to_vm", "inbox"} /\ At(k, v, n, m)' =>
            At(k, v, n, m) \/ (m = x.msg /\ v = x.msg.dst)
    BY Zenon, <1>0, <1>5, AtDeliver
  <2>2. /\ vm_sockets' = vm_sockets
        /\ lost' = lost \/ (lost' = lost \cup {x.msg} /\ x.msg.dst \notin vm_sockets)
    BY Zenon, <1>5 DEF deliverMessage
  <2>3. \A m \in lost' : m.dst \notin vm_sockets'
    BY Zenon, <1>b, <2>2
  <2> QED
    BY <1>a, <2>1, <2>3 DEF Addressed
<1>6. ASSUME NEW w \in VMs, VmReceive(w) PROVE Addressed'
  <2>1. \A k, v, n, m : At(k, v, n, m)' <=>
           \/ k = "to_vm" /\ v = w /\ n \in Nat \ {0} /\ At("to_vm", w, n + 1, m)
           \/ (k # "to_vm" \/ v # w) /\ At(k, v, n, m)
           \/ k = "inbox" /\ v = w /\ n = 0 /\ At("to_vm", w, 1, m)
    BY Zenon, <1>0, <1>6, AtVmReceive
  <2>2. UNCHANGED <<lost, vm_sockets>>
    BY Zenon, <1>6 DEF VmReceive
  <2>3. \A k, v, n, m : At(k, v, n, m)' /\ k \in {"to_vm", "inbox"} => m.dst = v
    BY Zenon, <1>a, <2>1
  <2> QED
    BY Zenon, <1>b, <2>2, <2>3 DEF Addressed
<1>7. ASSUME NEW w \in VMs, VmAtDeadline(w) PROVE Addressed'
  <2>1. \A k, v, n, m : At(k, v, n, m)' <=> At(k, v, n, m)
    BY Zenon, <1>0, <1>7, AtVmAtDeadline
  <2>2. UNCHANGED <<lost, vm_sockets>>
    BY Zenon, <1>7 DEF VmAtDeadline
  <2> QED
    BY Zenon, <1>a, <1>b, <2>1, <2>2 DEF Addressed
<1>8. ASSUME NEW w \in VMs, VmSend(w) PROVE Addressed'
  <2>1. \A k, v, n, m : k \in {"to_vm", "inbox"} => (At(k, v, n, m)' => At(k, v, n, m))
    BY Zenon, <1>0, <1>8, AtVmSend
  <2>2. UNCHANGED <<lost, vm_sockets>>
    BY Zenon, <1>8 DEF VmSend
  <2> QED
    BY <1>a, <1>b, <2>1, <2>2 DEF Addressed
<1> QED
  BY <1>1, <1>2, <1>3, <1>4, <1>5, <1>6, <1>7, <1>8 DEF Next, Coordinator, Vm

(* No packet of a VM is lost or doubled on its way through the sockets,    *)
(* goTo, SimGrid and deliverMessage, whatever VMs exit meanwhile: it is in *)
(* one place at any time, reaches nobody but the VM it was sent to, and is *)
(* given up only if that VM is unknown or has no socket any more.          *)
THEOREM PacketsAreConserved == Spec => []PacketsConserved
<1>1. Init => Conserved /\ Addressed
  <2> SUFFICES ASSUME Init PROVE Conserved /\ Addressed
    BY Zenon
  <2>1. \A k, v, n, m : ~At(k, v, n, m)
    BY DEF Init, At
  <2>2. \A m : ~Sent(m)
    BY DEF Init, Sent
  <2> QED
    BY <2>1, <2>2 DEF Init, Conserved, Addressed
<1>2. Inv /\ Conserved /\ [Next]_vars => Conserved'
  BY Zenon, ConservedNext
<1>3. Inv /\ Addressed /\ [Next]_vars => Addressed'
  BY Zenon, AddressedNext
<1>4. Inv /\ Conserved /\ Addressed => PacketsConserved
  <2> SUFFICES ASSUME Inv, Conserved, Addressed PROVE PacketsConserved
    BY Zenon
  <2>1. \A k \in DOMAIN sent : \E p \in Places(sent[k]) : Places(sent[k]) = {p}
    BY Zenon, OnePlace DEF Conserved, Sent
  <2>2. ASSUME NEW v \in VMs, NEW m \in inbox[v]
        PROVE  m.dst = v /\ \E k \in DOMAIN sent : sent[k] = m
    <3>1. At("inbox", v, 0, m)
      BY Zenon DEF At
    <3> QED
      BY Zenon, <3>1 DEF Addressed, Conserved, Sent
  <2> QED
    BY Zenon, <2>1, <2>2 DEF Addressed, PacketsConserved
<1> QED
  BY <1>1, <1>2, <1>3, <1>4, AlwaysInv, PTL DEF Spec
=============================================================================
