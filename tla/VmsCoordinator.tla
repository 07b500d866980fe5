--------------------------- MODULE VmsCoordinator ---------------------------
(***************************************************************************)
(* The coordinator: vm_coordinator (VmsCoordinator.cpp) and VmsInterface   *)
(* (VmsInterface.cpp), with the VMs at the other end of their sockets.     *)
(* Every turn of the loop picks a deadline no message can arrive before,   *)
(* lets all the VMs run to it, hands what they sent to SimGrid in the      *)
(* order of the send times, moves SimGrid's clock to the deadline and      *)
(* delivers what has arrived.                                              *)
(*                                                                         *)
(* Two parts are not in the repository's coordinator.  SimGrid (external)  *)
(* ends a communication at some time after the latency of its route, the   *)
(* more so the busier the links, and knows its next event.  A VM behaves   *)
(* as VmContract says, and its process may exit at any time.               *)
(*                                                                         *)
(* SimGrid's time is a double: it has a finer grain than the nanoseconds   *)
(* of the messages.  Times here are in units of 1/Grain of a nanosecond.   *)
(***************************************************************************)
EXTENDS Integers, Sequences, FiniteSets, FiniteSetsExt

CONSTANTS
  VMs,              \* the VMs of the deployment file
  Unknown,          \* an address that belongs to none
  HostOf,           \* vm_deployments: the host of every VM
  Latency,          \* of the route between two hosts
  ForceMinLatency,  \* --force, or -1
  Grain,            \* units of SimGrid's time in a nanosecond
  Infinity,         \* the floating-point infinity
  Slack,            \* how much longer than the latency a communication takes
  MaxTime,          \* bound: SimGrid's clock when a slice begins
  MaxSends          \* bound: packets sent by the VMs

ASSUME GrainAssumption == Grain \in Nat \ {0}
ASSUME LatencyAssumption ==
  \A v, w \in VMs : v # w => Latency[<<HostOf[v], HostOf[w]>>] \in Nat \ {0}
ASSUME ForceAssumption == ForceMinLatency \in Int
ASSUME SlackAssumption == Slack \subseteq Nat
ASSUME BoundsAssumption ==
  /\ MaxTime \in Nat /\ MaxSends \in Nat
  /\ Infinity \in Nat /\ MaxTime < Infinity
  /\ \A v, w \in VMs, s \in Slack :
       v # w => MaxTime + 2 * Latency[<<HostOf[v], HostOf[w]>>] + s < Infinity
ASSUME UnknownAssumption == Unknown \notin VMs

VARIABLES
  clock,              \* Engine::get_clock
  pc,                 \* where vm_coordinator is
  vm_sockets,         \* VMs with an open socket
  vm_sockets_trash,   \* VMs whose socket failed in the last goTo
  a_vm_stopped,
  simulate_until_any_stop,  \* stop_at_any_stop of the constructor
  tansiv_actors,      \* VMs that count for the minimum latency
  deadline,
  todo,               \* VMs goTo has yet to hear from
  cur,                \* the VM it listens to, or Unknown
  messages,           \* SendPackets collected and not given to SimGrid yet
  pending_comms,      \* communications, with their messages and ends
  to_vm, from_vm,     \* the two directions of every socket
  vm,                 \* every VM: [slice, prev, deadline]
  inbox,              \* history: packets every VM was given
  sent,               \* history: packets sent by the VMs
  lost                \* history: packets that will not be delivered

coordVars == <<clock, deadline, pc, todo, cur>>
setVars == <<vm_sockets, vm_sockets_trash, a_vm_stopped, simulate_until_any_stop,
             tansiv_actors>>
msgVars == <<messages, pending_comms, lost>>
vmVars == <<to_vm, from_vm, vm, inbox, sent>>
vars == <<coordVars, setVars, msgVars, vmVars>>

AtDeadlineMsg == [type |-> "AtDeadline"]
GotoDeadlineMsg(d) == [type |-> "GotoDeadline", deadline |-> d]
DeliverPacketMsg(c) == [type |-> "DeliverPacket", packet |-> c]
SendPacketMsg(m) == [type |-> "SendPacket", packet |-> m]

Init ==
  /\ clock = 0
  /\ pc = "register"
  /\ vm_sockets = {} /\ vm_sockets_trash = {} /\ tansiv_actors = {}
  /\ a_vm_stopped = FALSE
  /\ simulate_until_any_stop \in BOOLEAN
  /\ deadline = 0
  /\ todo = VMs
  /\ cur = Unknown
  /\ messages = {} /\ pending_comms = {} /\ lost = {}
  /\ to_vm = [v \in VMs |-> <<>>]
  /\ from_vm = [v \in VMs |-> <<>>]
  /\ vm = [v \in VMs |-> [slice |-> "off", prev |-> 0, deadline |-> 0]]
  /\ inbox = [v \in VMs |-> {}]
  /\ sent = <<>>

-----------------------------------------------------------------------------
(* register_vm of the actors, one after the other: fork the VM ...         *)
register_vm(v) ==
  /\ pc = "register"
  /\ cur = Unknown
  /\ v \in todo
  /\ cur' = v
  /\ vm' = [vm EXCEPT ![v].slice = "forked"]
  /\ UNCHANGED <<clock, deadline, pc, todo, setVars, msgVars, to_vm, from_vm, inbox, sent>>

(* ... and wait in accept for its connection.                              *)
Accept ==
  /\ pc = "register"
  /\ cur # Unknown
  /\ vm[cur].slice \in {"init", "exited"}
  /\ vm_sockets' = vm_sockets \cup {cur}
  /\ tansiv_actors' = tansiv_actors \cup {cur}
  /\ todo' = todo \ {cur}
  /\ cur' = Unknown
  /\ pc' = IF todo = {cur} THEN "loop" ELSE "register"
  /\ UNCHANGED <<clock, deadline, vm_sockets_trash, a_vm_stopped,
                 simulate_until_any_stop, msgVars, vmVars>>

vmActive == IF simulate_until_any_stop THEN ~a_vm_stopped ELSE vm_sockets # {}

(* Mutant: the default of --force is taken for a latency.                  *)
compute_min_latency_forced(actors) ==
  IF ForceMinLatency # 0 THEN ForceMinLatency
  ELSE Min({Infinity} \cup
           {Latency[<<HostOf[p[1]], HostOf[p[2]]>>] :
              p \in {q \in actors \X actors : q[1] # q[2]}})

compute_min_latency(actors) ==
  IF ForceMinLatency >= 0 THEN ForceMinLatency
  ELSE Min({Infinity} \cup
           {Latency[<<HostOf[p[1]], HostOf[p[2]]>>] :
              p \in {q \in actors \X actors : q[1] # q[2]}})

(* Mutant: the messages under way are not looked at.                       *)
get_next_event_none == {Infinity}

(* SimGrid's next event, none of them later than the end of a              *)
(* communication.                                                          *)
get_next_event ==
  LET ends == {c.due : c \in pending_comms}
  IN IF ends = {} THEN {Infinity} ELSE clock + 1 .. Min(ends)

(* Mutant: the seconds are dropped, two nanoseconds to a second.           *)
simgridToVmTimeNsec(time) ==
  IF time = Infinity THEN Infinity ELSE ((time % (2 * Grain)) \div Grain) * Grain

(* The VMs are told whole nanoseconds.                                     *)
simgridToVmTime(time) == IF time = Infinity THEN Infinity ELSE (time \div Grain) * Grain

(* vm_coordinator drops the actors on the hosts of the dead VMs, ...       *)
LiveActors ==
  {v \in tansiv_actors : HostOf[v] \notin {HostOf[w] : w \in vm_sockets_trash}}

(* ... picks the deadline, and goTo sends it to all the VMs.               *)
goTo ==
  /\ pc = "loop"
  /\ vmActive
  /\ clock < MaxTime
  /\ tansiv_actors' = LiveActors
  /\ \E event \in get_next_event :
       deadline' = Min({event, Infinity, clock + compute_min_latency(LiveActors)})
  /\ vm_sockets_trash' = {}
  /\ to_vm' = [v \in VMs |->
                 IF v \in vm_sockets
                 THEN Append(to_vm[v], GotoDeadlineMsg(simgridToVmTime(deadline')))
                 ELSE to_vm[v]]
  /\ todo' = vm_sockets
  /\ pc' = "collect"
  /\ UNCHANGED <<clock, cur, vm_sockets, a_vm_stopped, simulate_until_any_stop,
                 msgVars, from_vm, vm, inbox, sent>>

(* goTo goes round the sockets; it listens to one until its AtDeadline.    *)
Listen(v) ==
  /\ pc = "collect"
  /\ cur = Unknown
  /\ v \in todo
  /\ cur' = v
  /\ todo' = todo \ {v}
  /\ UNCHANGED <<clock, deadline, pc, setVars, msgVars, vmVars>>

Receive ==
  /\ pc = "collect"
  /\ cur # Unknown
  /\ from_vm[cur] # <<>>
  /\ from_vm' = [from_vm EXCEPT ![cur] = Tail(@)]
  /\ LET msg == Head(from_vm[cur])
     IN IF msg.type = "AtDeadline"
        THEN /\ cur' = Unknown
             /\ UNCHANGED messages
        ELSE /\ messages' = messages \cup {msg.packet}
             /\ UNCHANGED cur
  /\ UNCHANGED <<clock, deadline, pc, todo, setVars, pending_comms, lost,
                 to_vm, vm, inbox, sent>>

(* Mutant: goTo does not leave the loop of this socket.                    *)
close_vm_socket_stay ==
  /\ pc = "collect"
  /\ cur # Unknown
  /\ from_vm[cur] = <<>>
  /\ vm[cur].slice = "exited"
  /\ vm_sockets_trash' = vm_sockets_trash \cup {cur}
  /\ a_vm_stopped' = TRUE
  /\ UNCHANGED <<clock, deadline, pc, todo, cur, vm_sockets, simulate_until_any_stop,
                 tansiv_actors, msgVars, vmVars>>

(* fb_recv fails: close_vm_socket.                                         *)
close_vm_socket ==
  /\ pc = "collect"
  /\ cur # Unknown
  /\ from_vm[cur] = <<>>
  /\ vm[cur].slice = "exited"
  /\ vm_sockets_trash' = vm_sockets_trash \cup {cur}
  /\ a_vm_stopped' = TRUE
  /\ cur' = Unknown
  /\ UNCHANGED <<clock, deadline, pc, todo, vm_sockets, simulate_until_any_stop,
                 tansiv_actors, msgVars, vmVars>>

(* Mutant: goTo returns after the first socket.                            *)
EndGoToEarly ==
  /\ pc = "collect"
  /\ cur = Unknown
  /\ vm_sockets' = vm_sockets \ vm_sockets_trash
  /\ pc' = "send"
  /\ UNCHANGED <<clock, deadline, todo, cur, vm_sockets_trash, a_vm_stopped,
                 simulate_until_any_stop, tansiv_actors, msgVars, vmVars>>

(* The sockets in the trash are forgotten and the messages are sorted.     *)
EndGoTo ==
  /\ pc = "collect"
  /\ cur = Unknown
  /\ todo = {}
  /\ vm_sockets' = vm_sockets \ vm_sockets_trash
  /\ pc' = "send"
  /\ UNCHANGED <<clock, deadline, todo, cur, vm_sockets_trash, a_vm_stopped,
                 simulate_until_any_stop, tansiv_actors, msgVars, vmVars>>

-----------------------------------------------------------------------------
(* The messages in the order of sortMessages, which leaves equal send      *)
(* times in any order.                                                     *)
Earliest(m) == m \in messages /\ \A n \in messages : m.sent_time <= n.sent_time

(* Mutant: the send time is added once.                                    *)
CausalityAssertionOnce(m) == m.sent_time >= clock

(* The assertion of vm_coordinator (send_timeeps already holds sent_time). *)
CausalityAssertion(m) == m.sent_time + m.sent_time >= clock

(* A failed assertion aborts.  Otherwise sleep until the send time, unless *)
(* it is past, and start a communication, unless the destination is        *)
(* unknown.                                                                *)
sendto_async(m) ==
  /\ pc = "send"
  /\ Earliest(m)
  /\ pc' = IF CausalityAssertion(m) THEN "send" ELSE "aborted"
  /\ clock' = Max({clock, m.sent_time})
  /\ messages' = messages \ {m}
  /\ IF m.dst \in VMs
     THEN /\ \E slack \in Slack :
               pending_comms' = pending_comms \cup
                 {[msg |-> m, due |-> clock' + slack + Latency[<<HostOf[m.src], HostOf[m.dst]>>]]}
          /\ UNCHANGED lost
     ELSE /\ lost' = lost \cup {m}
          /\ UNCHANGED pending_comms
  /\ UNCHANGED <<deadline, todo, cur, setVars, vmVars>>

SleepUntilDeadline ==
  /\ pc = "send"
  /\ messages = {}
  /\ clock' = IF deadline = Infinity THEN clock ELSE Max({clock, deadline})
  /\ pc' = "deliver"
  /\ UNCHANGED <<deadline, todo, cur, setVars, msgVars, vmVars>>

(* Mutant: the communication is not erased.                                *)
deliverMessageKept(c) ==
  /\ pc = "deliver"
  /\ c \in pending_comms
  /\ c.due <= clock
  /\ IF c.msg.dst \in vm_sockets
     THEN /\ to_vm' = [to_vm EXCEPT ![c.msg.dst] = Append(@, DeliverPacketMsg(c))]
          /\ UNCHANGED lost
     ELSE /\ lost' = lost \cup {c.msg}
          /\ UNCHANGED to_vm
  /\ UNCHANGED <<coordVars, setVars, messages, pending_comms, from_vm, vm, inbox, sent>>

(* test_any finds a communication that has ended: deliverMessage.          *)
deliverMessage(c) ==
  /\ pc = "deliver"
  /\ c \in pending_comms
  /\ c.due <= clock
  /\ pending_comms' = pending_comms \ {c}
  /\ IF c.msg.dst \in vm_sockets
     THEN /\ to_vm' = [to_vm EXCEPT ![c.msg.dst] = Append(@, DeliverPacketMsg(c))]
          /\ UNCHANGED lost
     ELSE /\ lost' = lost \cup {c.msg}
          /\ UNCHANGED to_vm
  /\ UNCHANGED <<coordVars, setVars, messages, from_vm, vm, inbox, sent>>

EndSlice ==
  /\ pc = "deliver"
  /\ \A c \in pending_comms : c.due > clock
  /\ pc' = "loop"
  /\ UNCHANGED <<clock, deadline, todo, cur, setVars, msgVars, vmVars>>

end_simulation ==
  /\ pc = "loop"
  /\ ~vmActive
  /\ pc' = "done"
  /\ UNCHANGED <<clock, deadline, todo, cur, setVars, msgVars, vmVars>>

-----------------------------------------------------------------------------
(* The VMs (external).  Connector::new connects; start and at_deadline     *)
(* read what the coordinator wrote.                                        *)
Becomes(v, slice) == vm' = [vm EXCEPT ![v].slice = slice]

VmConnect(v) ==
  /\ vm[v].slice = "forked"
  /\ Becomes(v, "init")
  /\ UNCHANGED <<coordVars, setVars, msgVars, to_vm, from_vm, inbox, sent>>

VmReceive(v) ==
  /\ vm[v].slice \in {"init", "reached"}
  /\ to_vm[v] # <<>>
  /\ to_vm' = [to_vm EXCEPT ![v] = Tail(@)]
  /\ LET msg == Head(to_vm[v])
     IN IF msg.type = "DeliverPacket"
        THEN /\ inbox' = [inbox EXCEPT ![v] = @ \cup {msg.packet.msg}]
             /\ UNCHANGED vm
        ELSE \* MsgIn::recv refuses the nseconds of infinity
             /\ vm' = [vm EXCEPT ![v] = IF msg.deadline = Infinity
                          THEN [@ EXCEPT !.slice = "ended"]
                          ELSE [slice |-> "running", prev |-> @.deadline,
                                deadline |-> msg.deadline]]
             /\ UNCHANGED inbox
  /\ UNCHANGED <<coordVars, setVars, msgVars, from_vm, sent>>

VmSend(v) ==
  /\ vm[v].slice = "running"
  /\ Len(sent) < MaxSends
  /\ \E time \in vm[v].prev .. vm[v].deadline, dst \in (VMs \cup {Unknown}) \ {v} :
       LET m == [id |-> Len(sent), src |-> v, dst |-> dst, sent_time |-> time] IN
       /\ time % Grain = 0
       /\ from_vm' = [from_vm EXCEPT ![v] = Append(@, SendPacketMsg(m))]
       /\ sent' = Append(sent, m)
  /\ UNCHANGED <<coordVars, setVars, msgVars, to_vm, vm, inbox>>

VmAtDeadline(v) ==
  /\ vm[v].slice = "running"
  /\ from_vm' = [from_vm EXCEPT ![v] = Append(@, AtDeadlineMsg)]
  /\ Becomes(v, "reached")
  /\ UNCHANGED <<coordVars, setVars, msgVars, to_vm, inbox, sent>>

(* The client gives up, before it is at the deadline (SendAbort of Client) *)
(* or when it waits for the next one (RecvEnd); the process is still there *)
(* and its end of the socket open.                                         *)
VmEnd(v) ==
  /\ vm[v].slice \in {"running", "reached"}
  /\ Becomes(v, "ended")
  /\ UNCHANGED <<coordVars, setVars, msgVars, to_vm, from_vm, inbox, sent>>

VmExit(v) ==
  /\ vm[v].slice \in {"init", "running", "reached", "ended"}
  /\ Becomes(v, "exited")
  /\ UNCHANGED <<coordVars, setVars, msgVars, to_vm, from_vm, inbox, sent>>

Coordinator ==
  \/ (\E v \in VMs : register_vm(v) \/ Listen(v))
  \/ Accept \/ goTo \/ Receive \/ close_vm_socket \/ EndGoTo
  \/ (\E m \in messages : sendto_async(m))
  \/ SleepUntilDeadline
  \/ (\E c \in pending_comms : deliverMessage(c))
  \/ EndSlice \/ end_simulation

(* What a VM is bound to do: read, reach the deadline it was given, leave  *)
(* when its simulation has ended.                                          *)
VmProgress(v) ==
  VmReceive(v) \/ VmAtDeadline(v) \/ (vm[v].slice = "ended" /\ VmExit(v))

Vm(v) ==
  VmConnect(v) \/ VmReceive(v) \/ VmSend(v) \/ VmAtDeadline(v) \/ VmEnd(v) \/ VmExit(v)

Next == Coordinator \/ (\E v \in VMs : Vm(v))

Spec == Init /\ [][Next]_vars

(* The coordinator is one process that is not descheduled for ever; a VM   *)
(* reaches its deadline (DeadlineIsReached of Client) or its process       *)
(* exits.                                                                  *)
Fairness ==
  /\ WF_vars(Coordinator)
  /\ \A v \in VMs : WF_vars(VmProgress(v))

FairSpec == Spec /\ Fairness

-----------------------------------------------------------------------------
Slices == {"off", "forked", "init", "running", "reached", "ended", "exited"}
Messages == [id : 0..MaxSends, src : VMs, dst : VMs \cup {Unknown}, sent_time : Nat]
Comms == [msg : Messages, due : Nat]
ToVmMsgs == [type : {"GotoDeadline"}, deadline : Nat] \cup [type : {"DeliverPacket"}, packet : Comms]
FromVmMsgs == {AtDeadlineMsg} \cup [type : {"SendPacket"}, packet : Messages]

TypeOK ==
  /\ clock \in Nat
  /\ pc \in {"register", "loop", "collect", "send", "deliver", "aborted", "done"}
  /\ vm_sockets \subseteq VMs
  /\ vm_sockets_trash \subseteq VMs
  /\ a_vm_stopped \in BOOLEAN /\ simulate_until_any_stop \in BOOLEAN
  /\ tansiv_actors \subseteq VMs
  /\ deadline \in Nat
  /\ todo \subseteq VMs
  /\ cur \in VMs \cup {Unknown}
  /\ messages \subseteq Messages /\ lost \subseteq Messages
  /\ pending_comms \subseteq Comms
  /\ to_vm \in [VMs -> Seq(ToVmMsgs)]
  /\ from_vm \in [VMs -> Seq(FromVmMsgs)]
  /\ vm \in [VMs -> [slice : Slices, prev : Nat, deadline : Nat]]
  /\ inbox \in [VMs -> SUBSET Messages]
  /\ sent \in Seq(Messages) /\ Len(sent) <= MaxSends

(* A packet reaches a VM at the very deadline at which its communication   *)
(* ends, to the nanosecond: the deadlines vm_coordinator picks leave no    *)
(* message to arrive inside a slice that the VMs have already run.         *)
DeliveredOnArrival ==
  \A v \in VMs : vm[v].slice = "reached" /\ to_vm[v] # <<>> =>
    LET msg == Head(to_vm[v])
    IN msg.type = "DeliverPacket" => simgridToVmTime(msg.packet.due) = vm[v].deadline

(* The assertion of vm_coordinator on the send times never fails.          *)
CausalityAssertionHolds == pc # "aborted"

(* No message is sent before SimGrid's present.                            *)
SentInTheFuture ==
  \A m \in messages : pc = "send" => m.sent_time >= clock

(* goTo is a barrier: when SimGrid moves on, no VM is still in its slice   *)
(* and nothing is left in a socket.                                        *)
GoToIsABarrier ==
  pc \in {"send", "deliver"} =>
    \A v \in vm_sockets : vm[v].slice \notin {"init", "running"} /\ from_vm[v] = <<>>

(* The places that packet m is in.                                         *)
Places(m) ==
  {<<"messages", 0, 0>> : x \in {m} \cap messages}
    \cup {<<"pending_comms", 0, c.due>> : c \in {d \in pending_comms : d.msg = m}}
    \cup {<<"lost", 0, 0>> : x \in {m} \cap lost}
    \cup UNION {
      {<<"from_vm", v, i>> : i \in {j \in DOMAIN from_vm[v] : from_vm[v][j] = SendPacketMsg(m)}}
        \cup {<<"to_vm", v, i>> : i \in {j \in DOMAIN to_vm[v] :
                                           /\ to_vm[v][j].type = "DeliverPacket"
                                           /\ to_vm[v][j].packet.msg = m}}
        \cup {<<"inbox", v, 0>> : x \in {m} \cap inbox[v]} : v \in VMs}

(* Every packet sent is in exactly one place: in a socket, collected, in   *)
(* SimGrid, with its receiver, or lost.  A VM is given nothing but packets *)
(* that were sent to it, and a packet is lost only when its receiver is    *)
(* unknown or gone.                                                        *)
PacketsConserved ==
  /\ \A k \in DOMAIN sent : \E p \in Places(sent[k]) : Places(sent[k]) = {p}
  /\ \A v \in VMs : \A m \in inbox[v] : m.dst = v /\ \E k \in DOMAIN sent : sent[k] = m
  /\ \A m \in lost : m.dst \notin vm_sockets

(* When the deadline is infinite there is only one remaining VM.           *)
InfiniteDeadlineMeansLastVm ==
  pc = "collect" /\ deadline = Infinity => Cardinality(vm_sockets) = 1

(* The VMs see what VmContract says of the coordinator: the deadlines they *)
(* are told never decrease.                                                *)
Contract(v) == INSTANCE VmContract
  WITH slice <- CASE vm[v].slice \in {"off", "forked"} -> "init"
                  [] vm[v].slice = "exited" -> "ended"
                  [] OTHER -> vm[v].slice,
       prev <- vm[v].prev,
       deadline <- vm[v].deadline,
       sends <- {}

DeadlinesNeverDecrease ==
  [][\A v \in VMs : Contract(v)!Next \/ UNCHANGED Contract(v)!vars]_vars

(* Every slice ends: goTo returns, whatever VMs exit meanwhile.            *)
EverySliceEnds == pc = "collect" ~> pc \in {"loop", "aborted"}
=============================================================================
