------------------------------ MODULE ClientApi ------------------------------
(***************************************************************************)
(* The C interface of the library (capi/src/lib.rs) over Context (lib.rs)  *)
(* and the connector: the life of a context from vsg_init to vsg_cleanup,  *)
(* and the way of a packet from the socket through the input queue to the  *)
(* buffer of the caller of vsg_recv.  One thread of the application makes  *)
(* the calls, and the deadline handler runs beside it.  The clocks, the    *)
(* timer, recv_callback and the set of outgoing messages are Client's and  *)
(* SendPath's; here a deadline comes at any time while the context runs.   *)
(*                                                                         *)
(* The peer is the coordinator, or a TestActor that sends what it likes.   *)
(***************************************************************************)
EXTENDS Connector, Integers, FiniteSets

CONSTANTS
  Argvs,       \* command lines
  PacketLens,  \* payload lengths of the packets of the peer
  Lens,        \* lengths of the caller's messages and buffers
  Times,       \* deadlines of the peer, in nanoseconds
  OtherMsgs,   \* what is no message to a client: the flatbuffer's kind and time
  Offsets,     \* what TimerContext::start returns
  MaxMsgs,     \* bound: messages of the peer
  MaxSends     \* bound: packets sent in a slice

ASSUME NumBuffersAssumption == NumBuffers \in Nat \ {0}
ASSUME SizeAssumption == BufferSize \in Nat \ {0} /\ NsPerSec \in Nat \ {0}
ASSUME BoundsAssumption == MaxMsgs \in Nat /\ MaxSends \in Nat
ASSUME InputsAssumption ==
  /\ PacketLens \subseteq Nat /\ Lens \subseteq Nat /\ Times \subseteq Nat /\ Offsets \subseteq Int
  /\ OtherMsgs \subseteq {"GotoDeadline", "Malformed"} \X Timespecs
  /\ \A m \in OtherMsgs : m[1] = "GotoDeadline" => m[2][2] >= NsPerSec

VARIABLES
  state,       \* of the context
  refs,        \* strong references to it
  pointer,     \* the application holds one of them
  registered,  \* INIT of timer/process.rs has been used up
  input_queue, \* packets received, as the buffer and its size
  app,         \* the call in progress: where it is, buffer and size, bytes copied
  next_arg,    \* what vsg_init stored, or -1
  started,     \* the code of vsg_start and what it stored
  polled,      \* history: vsg_poll returned 0, and no packet was popped since
  starved,     \* history: vsg_recv returned EAGAIN nevertheless
  outgoing,    \* payload lengths of the packets to be sent
  refused,     \* history: the peer gave up on a message
  asked,       \* history: the messages of the peer,
  packets,     \*          the payloads of the packets among them,
  deadlines,   \*          and the times of the deadlines
  called,      \* history: the deadlines deadline_callback was called with
  taken        \* history: the payloads of the packets popped, or Lost

ctxVars == <<state, refs, pointer, registered, next_arg, started>>
recvVars == <<input_queue, app, polled, starved, taken>>
sendVars == <<outgoing, refused>>
peerVars == <<asked, packets, deadlines>>
vars == <<connectorVars, ctxVars, recvVars, sendVars, peerVars, called>>

Lost == <<<<"lost">>>>
Idle == [pc |-> "idle", buffer |-> 0, size |-> 0, copy |-> <<>>]
Started == {"running", "deadline"}

Init ==
  /\ ConnectorInit
  /\ state = "none"
  /\ refs = 0
  /\ pointer = FALSE
  /\ registered = FALSE
  /\ input_queue = <<>>
  /\ app = Idle
  /\ next_arg = -1
  /\ started = [code |-> "none", offset |-> <<>>]
  /\ polled = FALSE /\ starved = FALSE
  /\ outgoing = <<>>
  /\ refused = FALSE
  /\ asked = <<>> /\ packets = <<>> /\ deadlines = <<>>
  /\ called = <<>> /\ taken = <<>>

-----------------------------------------------------------------------------
(* parse_os_args: the options before "--", and where the application's own *)
(* arguments begin.                                                        *)
parse_os_args(argv) ==
  LET dashes == {k \in DOMAIN argv : argv[k] = "--"}
      first == CHOOSE k \in dashes : \A j \in dashes : k <= j
  IN IF dashes = {} THEN [args |-> argv, next_arg |-> Len(argv)]
     ELSE [args |-> SubSeq(argv, 1, first - 1), next_arg |-> first]

(* Config: the actor, the name and the initial time must be given.         *)
Config(args) == {"-a", "-n", "-t"} \subseteq {args[k] : k \in DOMAIN args}

duration_to_timespec(t) == <<t \div NsPerSec, t % NsPerSec>>

(* Mutant: the nanoseconds are those of a time after the epoch.            *)
OffsetTimespecUnsigned(o) ==
  IF o >= 0 THEN duration_to_timespec(o)
  ELSE <<-((-o) \div NsPerSec), (-o) % NsPerSec>>

(* num_seconds rounds towards zero, so that the nanoseconds of a negative  *)
(* offset are negative.                                                    *)
OffsetTimespec(o) ==
  IF o >= 0 THEN duration_to_timespec(o)
  ELSE <<-((-o) \div NsPerSec), -((-o) % NsPerSec)>>

(* A call that fails and changes nothing is a stuttering step: those with a *)
(* NULL context (EINVAL) or a NULL message of some length (EINVAL), a       *)
(* second vsg_start (EALREADY), a vsg_send that is too long (EMSGSIZE) or  *)
(* finds no buffer (ENOMEM).                                               *)

(* tansiv_client::init gets as far as timer::register, which lets only one *)
(* context of the process through.                                         *)
init(args, connected) == Config(args) /\ connected
register == ~registered

(* vsg_init: the options, the connection, the timer and its only context.  *)
(* Any of them failing gives NULL; the last one works once per process.    *)
vsg_init(argv, connected) ==
  LET parsed == parse_os_args(argv)
      new == init(parsed.args, connected)
      ok == new /\ register
  IN
  /\ app.pc = "idle"
  /\ ~pointer
  /\ registered' = (registered \/ new)
  /\ IF ok
     THEN state' = "new" /\ refs' = 1 /\ pointer' = TRUE /\ next_arg' = parsed.next_arg
     ELSE UNCHANGED <<state, refs, pointer, next_arg>>
  /\ UNCHANGED <<connectorVars, started, recvVars, sendVars, peerVars, called>>

(* A reference to the context is dropped; with the last one the timer is   *)
(* deleted and the connection closed.                                      *)
DropContext(next) ==
  /\ refs' = refs - 1
  /\ state' = IF refs = 1 THEN "dropped" ELSE next

vsg_cleanup ==
  /\ app.pc = "idle"
  /\ pointer
  /\ pointer' = FALSE
  /\ DropContext(state)
  /\ UNCHANGED <<connectorVars, registered, next_arg, started, recvVars, sendVars, peerVars, called>>

-----------------------------------------------------------------------------
(* vsg_start: start_once lets the first call through.                      *)
vsg_start ==
  /\ app.pc = "idle"
  /\ pointer
  /\ state = "new"
  /\ state' = "starting"
  /\ app' = [Idle EXCEPT !.pc = "start"]
  /\ rx' = Receiving
  /\ UNCHANGED <<stream, link, memory, poolVars, refs, pointer, registered, next_arg, started,
                 input_queue, polled, starved, taken, sendVars, peerVars, called>>

(* The error of Context::start for another message, as its code: all the   *)
(* errors of connector.recv have become an io::Error.                      *)
StartCode(out) == IF out \in {"DeliverPacket", "EndSimulation"} THEN "EPROTO" ELSE "EIO"

(* Context::start has a message: with a deadline, deadline_callback is     *)
(* called and the timer started, which may fail.                           *)
StartReturn ==
  LET deadline == rx.out = "GoToDeadline" IN
  /\ state = "starting"
  /\ rx.pc = "done"
  /\ \/ /\ deadline
        /\ state' = "running"
        /\ \E o \in Offsets : started' = [code |-> "0", offset |-> OffsetTimespec(o)]
     \/ /\ state' = "failed"
        /\ started' = [code |-> StartCode(rx.out), offset |-> <<>>]
  /\ called' = IF deadline THEN Append(called, duration_to_timespec(rx.time)) ELSE called
  /\ IF rx.out = "DeliverPacket" THEN Pool!free_buffer(got[Receiver]) ELSE UNCHANGED poolVars
  /\ rx' = NotReceiving
  /\ app' = Idle
  /\ UNCHANGED <<stream, link, memory, refs, pointer, registered, next_arg, input_queue, polled,
                 starved, taken, sendVars, peerVars>>

(* vsg_stop spins until the simulation has ended.                          *)
vsg_stop ==
  /\ app.pc = "idle"
  /\ pointer
  /\ state \in Started
  /\ app' = [Idle EXCEPT !.pc = "stop"]
  /\ UNCHANGED <<connectorVars, ctxVars, input_queue, polled, starved, taken, sendVars, peerVars,
                 called>>

StopReturn ==
  /\ app.pc = "stop"
  /\ state \notin Started
  /\ app' = Idle
  /\ UNCHANGED <<connectorVars, ctxVars, input_queue, polled, starved, taken, sendVars, peerVars,
                 called>>

(* vsg_send: allocate_buffer checks the length of the payload.  What a     *)
(* vsg_send does during the deadline handler is Client's and VmClient's.   *)
vsg_send(len) ==
  /\ app.pc = "idle"
  /\ pointer
  /\ state = "running"
  /\ Len(outgoing) < MaxSends
  /\ len <= BufferSize
  /\ outgoing' = Append(outgoing, len)
  /\ UNCHANGED <<connectorVars, ctxVars, recvVars, refused, peerVars, called>>

(* vsg_recv, len being 0 when msglen is NULL.  Context::recv pops a packet, *)
(* and gives it up if it is too long.                                      *)
vsg_recv(len) ==
  LET packet == Head(input_queue) IN
  /\ app.pc = "idle"
  /\ pointer
  /\ \/ /\ input_queue = <<>>
        /\ starved' = (starved \/ polled)
        /\ UNCHANGED <<poolVars, input_queue, app, polled, taken>>
     \/ /\ input_queue # <<>>
        /\ packet.size - 1 <= len
        /\ input_queue' = Tail(input_queue)
        /\ app' = [pc |-> "copy", buffer |-> packet.buffer, size |-> packet.size,
                   copy |-> <<>>]
        /\ polled' = FALSE
        /\ UNCHANGED <<poolVars, starved, taken>>
     \/ /\ input_queue # <<>>
        /\ packet.size - 1 > len
        /\ input_queue' = Tail(input_queue)
        /\ Pool!free_buffer(packet.buffer)
        /\ taken' = Append(taken, Lost)
        /\ polled' = FALSE
        /\ UNCHANGED <<app, starved>>
  /\ UNCHANGED <<stream, link, memory, rx, ctxVars, sendVars, peerVars, called>>

(* copy_from_slice copies the next byte of the payload.                    *)
RecvCopy ==
  /\ app.pc = "copy"
  /\ Len(app.copy) < app.size - 1
  /\ app' = [app EXCEPT !.copy = Append(@, payload(app.buffer, app.size)[Len(@) + 1])]
  /\ UNCHANGED <<connectorVars, ctxVars, input_queue, polled, starved, taken, sendVars, peerVars,
                 called>>

(* The packet is dropped, and its buffer freed.                            *)
RecvReturn ==
  /\ app.pc = "copy"
  /\ Len(app.copy) = app.size - 1
  /\ Pool!free_buffer(app.buffer)
  /\ taken' = Append(taken, app.copy)
  /\ app' = Idle
  /\ UNCHANGED <<stream, link, memory, rx, ctxVars, input_queue, polled, starved, sendVars,
                 peerVars, called>>

(* Mutant: the answer is the wrong way round.                              *)
poll_inverted == input_queue = <<>>

(* Context::poll finds a packet.                                           *)
poll == input_queue # <<>>

vsg_poll ==
  /\ app.pc = "idle"
  /\ pointer
  /\ polled' = poll
  /\ UNCHANGED <<connectorVars, ctxVars, input_queue, app, starved, taken, sendVars, peerVars,
                 called>>

-----------------------------------------------------------------------------
(* A SendPacket carries a time, which makes it longer than a DeliverPacket. *)
SendPacketSize(len) == 2 + len
AtDeadlineSize == 1

(* The messages at_deadline writes.                                        *)
MsgOutSizes ==
  Append([k \in DOMAIN outgoing |-> SendPacketSize(outgoing[k])], AtDeadlineSize)

(* MsgOut::recv of a TestActor, and fb_recv of the coordinator: a message  *)
(* that does not fit in their buffer is an error.                          *)
PeerRefuses == \E k \in DOMAIN MsgOutSizes : MsgOutSizes[k] > BufferSize

(* Mutant: the handler uses the context without a reference of its own.    *)
deadline_handler_borrowed ==
  /\ state = "running"
  /\ link # "gone"
  /\ outgoing' = <<>>
  /\ state' = "deadline"
  /\ rx' = Receiving
  /\ UNCHANGED <<stream, link, memory, poolVars, refs, pointer, registered, next_arg, started,
                 recvVars, refused, peerVars, called>>

(* The timer expires and deadline_handler gets a reference to the context. *)
(* at_deadline writes what there is to send, then AtDeadline; a write      *)
(* fails if the peer is gone.  The peer closes the connection when it      *)
(* refuses a message.                                                      *)
deadline_handler ==
  /\ state = "running"
  /\ outgoing' = <<>>
  /\ \/ /\ link = "gone"
        /\ state' = "ended"
        /\ UNCHANGED <<link, refs, rx, refused>>
     \/ /\ link # "gone"
        /\ state' = "deadline"
        /\ refs' = refs + 1
        /\ rx' = Receiving
        /\ refused' = PeerRefuses
        /\ link' = IF PeerRefuses THEN "gone" ELSE link
  /\ UNCHANGED <<stream, memory, poolVars, pointer, registered, next_arg, started, recvVars, peerVars,
                 called>>

(* handle_actor_msg, DeliverPacket: the packet is queued, or dropped when  *)
(* the queue is full, and the next message is received.                    *)
handle_actor_msg ==
  /\ state = "deadline"
  /\ rx.pc = "done"
  /\ rx.out = "DeliverPacket"
  /\ IF Len(input_queue) < NumBuffers
     THEN /\ input_queue' = Append(input_queue, [buffer |-> got[Receiver], size |-> rx.size])
          /\ UNCHANGED poolVars
     ELSE /\ Pool!free_buffer(got[Receiver])
          /\ UNCHANGED input_queue
  /\ rx' = Receiving
  /\ UNCHANGED <<stream, link, memory, ctxVars, app, polled, starved, taken, sendVars, peerVars, called>>

(* Mutant: an error of recv is taken for a message to skip.                *)
HandlerReturnRetry ==
  /\ state = "deadline"
  /\ rx.pc = "done"
  /\ rx.out # "DeliverPacket"
  /\ IF rx.out = "GoToDeadline"
     THEN /\ DropContext("running")
          /\ called' = Append(called, duration_to_timespec(rx.time))
          /\ rx' = NotReceiving
     ELSE /\ IF rx.out = "EndSimulation" THEN DropContext("ended") ELSE UNCHANGED <<state, refs>>
          /\ rx' = IF rx.out = "EndSimulation" THEN NotReceiving ELSE Receiving
          /\ UNCHANGED called
  /\ UNCHANGED <<stream, link, memory, poolVars, pointer, registered, next_arg, started, recvVars,
                 sendVars, peerVars>>

(* GoToDeadline, after deadline_callback, starts the next slice;           *)
(* EndSimulation and every error of recv end the simulation.  The handler  *)
(* drops its reference.                                                    *)
HandlerReturn ==
  /\ state = "deadline"
  /\ rx.pc = "done"
  /\ rx.out # "DeliverPacket"
  /\ IF rx.out = "GoToDeadline"
     THEN /\ DropContext("running")
          /\ called' = Append(called, duration_to_timespec(rx.time))
     ELSE /\ DropContext("ended")
          /\ UNCHANGED called
  /\ rx' = NotReceiving
  /\ UNCHANGED <<stream, link, memory, poolVars, pointer, registered, next_arg, started, recvVars,
                 sendVars, peerVars>>

-----------------------------------------------------------------------------
(* The context is connected and not at its end.                            *)
Connected == state \in {"new", "starting"} \cup Started

(* After its message the client reads on; after another, nothing is read.  *)
ReadsOn(msg) ==
  /\ Len(msg) - 1 <= BufferSize
  /\ \/ msg[2][2] = "DeliverPacket"
     \/ msg[2][2] = "GotoDeadline" /\ msg[2][3][2] < NsPerSec

PeerSend(msg) ==
  /\ Connected
  /\ \A k \in DOMAIN asked : ReadsOn(asked[k])
  /\ Len(asked) < MaxMsgs
  /\ PeerWrite(msg)
  /\ asked' = Append(asked, msg)
  /\ UNCHANGED <<ctxVars, recvVars, sendVars, called>>

(* MsgIn::send of the next packet, or of a deadline: they never decrease.  *)
PeerPacket(len) ==
  LET packet == Payload(Len(packets) + 1, len) IN
  /\ PeerSend(deliver_packet(packet))
  /\ packets' = Append(packets, packet)
  /\ UNCHANGED deadlines

PeerDeadline(t) ==
  /\ \A k \in DOMAIN deadlines : deadlines[k] <= t
  /\ PeerSend(goto_deadline(t))
  /\ deadlines' = Append(deadlines, t)
  /\ UNCHANGED packets

PeerMessage ==
  \/ \E len \in PacketLens : PeerPacket(len)
  \/ \E t \in Times : PeerDeadline(t)
  \/ PeerSend(end_simulation) /\ UNCHANGED <<packets, deadlines>>
  \/ \E m \in OtherMsgs : PeerSend(Message(m[1], m[2], <<>>)) /\ UNCHANGED <<packets, deadlines>>

(* The peer dies in the middle of a message, or shuts its half down.       *)
PeerEnd ==
  /\ Connected
  /\ \/ \E n \in 0..BufferSize :
          PeerDies(deliver_packet(Payload(0, BufferSize - 1)), n)
     \/ PeerShutdown
  /\ UNCHANGED <<ctxVars, recvVars, sendVars, peerVars, called>>

ReceiveStep == recv /\ UNCHANGED <<ctxVars, recvVars, sendVars, peerVars, called>>

Handler == ReceiveStep \/ StartReturn \/ handle_actor_msg \/ HandlerReturn

Next ==
  \/ \E argv \in Argvs, connected \in BOOLEAN : vsg_init(argv, connected)
  \/ vsg_cleanup \/ vsg_start \/ vsg_stop \/ StopReturn
  \/ \E len \in Lens : vsg_send(len) \/ vsg_recv(len)
  \/ RecvCopy \/ RecvReturn \/ vsg_poll
  \/ deadline_handler \/ Handler
  \/ PeerMessage \/ PeerEnd

Spec == Init /\ [][Next]_vars

(* The receiver goes on while there are bytes to read, and the peer sooner *)
(* or later writes, shuts down or dies.                                    *)
Fairness == WF_vars(Handler) /\ WF_vars(PeerMessage \/ PeerEnd)

FairSpec == Spec /\ Fairness

-----------------------------------------------------------------------------
(* What a byte of the socket or of a buffer may be.                        *)
Kinds == {"DeliverPacket", "GotoDeadline", "EndSimulation", "Malformed"}
Bytes ==
  {Zero} \cup ({"size"} \X (Nat \ {0}))
    \cup ({"flatbuffer"} \X Kinds \X Timespecs) \cup ({"byte"} \X Nat)

RxTypes ==
  [pc : {"idle", "size", "allocate", "body", "done"}, size : 0..BufferSize, read : 0..BufferSize,
   out : {"none", "DeliverPacket", "GoToDeadline", "EndSimulation", "Malformed", "SizeTooBig",
          "NoBufferAvailable", "UnexpectedEof", "TimeOutOfBounds"},
   time : Nat]

AppTypes ==
  [pc : {"idle", "start", "copy", "stop"}, buffer : 0..NumBuffers, size : 0..BufferSize,
   copy : Seq(Bytes)]

TypeOK ==
  /\ state \in {"none", "new", "starting", "running", "deadline", "ended", "failed", "dropped"}
  /\ refs \in 0..2
  /\ pointer \in BOOLEAN /\ registered \in BOOLEAN
  /\ polled \in BOOLEAN /\ starved \in BOOLEAN /\ refused \in BOOLEAN
  /\ link \in {"open", "shut", "gone"}
  /\ stream \in Seq(Bytes)
  /\ memory \in [1..NumBuffers * BufferSize -> Bytes]
  /\ Pool!TypeOK
  /\ rx \in RxTypes /\ rx.read <= rx.size
  /\ input_queue \in Seq([buffer : 1..NumBuffers, size : 1..BufferSize])
  /\ app \in AppTypes
  /\ asked \in Seq(Seq(Bytes)) /\ Len(asked) <= MaxMsgs
  /\ packets \in Seq(Seq(Bytes)) /\ deadlines \in Seq(Nat)
  /\ taken \in Seq(Seq(Bytes) \cup {Lost}) /\ called \in Seq(Timespecs)

(* What the k-th successful vsg_recv copies out is the payload of the k-th *)
(* packet the peer sent: none is lost on the way, doubled, overtaken or    *)
(* overwritten by a message received meanwhile, although messages share    *)
(* one memory (buffer_bounds) and the copy is not atomic.  Only a packet   *)
(* too long for the caller is lost ("The message is lost").                *)
PacketsIntact ==
  \A k \in DOMAIN taken : taken[k] \in {Lost, packets[k]}

(* The receiver stays in step with the frames: whenever MsgIn::recv is     *)
(* about to read a size, what comes next in the socket is a size, however  *)
(* earlier messages were cut, refused for their size or not decoded.       *)
InSync ==
  rx.pc = "size" /\ stream # <<>> => Head(stream)[1] = "size"

(* The owners of buffer b: recv, an entry of the input queue, vsg_recv.    *)
Owners(b) ==
  {<<"recv", 0>> : x \in {y \in {0} : /\ got[Receiver] = b
                                     /\ \/ rx.pc = "body"
                                        \/ rx.pc = "done" /\ rx.out = "DeliverPacket"}}
    \cup {<<"queue", k>> : k \in {j \in DOMAIN input_queue : input_queue[j].buffer = b}}
    \cup {<<"vsg_recv", 0>> : x \in {y \in {0} : app.pc = "copy" /\ app.buffer = b}}

(* A buffer of the input pool is busy exactly as long as one of them has   *)
(* it, on every path: the decoding of other messages, refused and broken   *)
(* messages, packets given up by vsg_recv.  So the pool does not run dry,  *)
(* and there is always room in the input queue for the packet received     *)
(* ("Dropping input packet" never happens).                                *)
BuffersConserved ==
  /\ \A b \in 1..NumBuffers : Cardinality(Owners(b)) = IF buffer_busy[b] THEN 1 ELSE 0
  /\ rx.pc = "done" /\ rx.out = "DeliverPacket" => Len(input_queue) < NumBuffers

(* deadline_callback is called with the deadlines of the peer, all of them *)
(* in turn and no other, whatever becomes of them in the flatbuffer, the   *)
(* Duration and the timespec; the infinite deadline never gets to it.  The *)
(* timespec vsg_start stores is the offset, before the epoch too.          *)
TimesExact ==
  /\ Len(called) <= Len(deadlines)
  /\ \A k \in DOMAIN called : called[k] = duration_to_timespec(deadlines[k])
  /\ started.code = "0" => started.offset[1] * NsPerSec + started.offset[2] \in Offsets

(* deadline_handler never works on a context that is gone, although        *)
(* vsg_cleanup may drop the application's reference in the middle of it.   *)
HandlerKeepsContext ==
  rx.pc # "idle" => refs > 0 /\ Connected

(* vsg_poll: "If `0` is returned a message can be read": the next vsg_recv *)
(* does not find the queue empty.                                          *)
PollThenRecv == ~starved

(* vsg_start and at_deadline do not wait for ever for a message: whether   *)
(* the peer goes on, dies or shuts down, what they receive ends.           *)
ReceiveEnds == rx.pc # "idle" ~> rx.pc = "idle"

(* vsg_send: "Fails with `libc::EMSGSIZE` whenever the payload is bigger   *)
(* than the maximum message size that vsg can handle": a packet it accepts *)
(* is not too big for the peer.                                            *)
AcceptedIsCarried == ~refused
=============================================================================
