---------------------- MODULE ClientApiSteps_proofs -------------------------
(***************************************************************************)
(* The invariant of ClientApi, and the lemmas on its steps that do not     *)
(* follow the receiver: messages and their bytes, types, references to the *)
(* context, owners of the buffers, and what the peer writes.               *)
(*                                                                         *)
(* What the packets and deadlines need is that the receiver stays in step  *)
(* with the peer.  The bytes in the socket are the end of all the messages *)
(* the peer wrote, one after the other: message k begins at starts[k],     *)
(* which falls with every byte read.  Of the first k messages np[k] are    *)
(* packets and nd[k] deadlines.  In step, the receiver has read h of them, *)
(* the last one in part.                                                   *)
(***************************************************************************)
EXTENDS ClientApi, TLAPS

(* Who refers to the context, and when a message is received.              *)
ContextInv ==
  /\ refs = (IF pointer THEN 1 ELSE 0) + (IF state = "deadline" THEN 1 ELSE 0)
  /\ rx.pc # "idle" <=> state \in {"starting", "deadline"}
  /\ state = "starting" => pointer
  /\ app.pc = "start" <=> state = "starting"
  /\ ~registered => state = "none"
  /\ pointer => registered

PollInv == ~starved /\ (polled => input_queue # <<>>)

(* Who has which buffer of the input pool.                                 *)
RecvHolds == rx.pc = "body" \/ (rx.pc = "done" /\ rx.out = "DeliverPacket")
RecvHas(b) == RecvHolds /\ got[Receiver] = b
QueueHas(b) == \E k \in DOMAIN input_queue : input_queue[k].buffer = b
AppHas(b) == app.pc = "copy" /\ app.buffer = b

(* With a buffer in recv, not all of them are in the queue.                *)
QueueHasRoom == RecvHolds => Len(input_queue) < NumBuffers

QueuedOnce ==
  \A j, k \in DOMAIN input_queue : input_queue[j].buffer = input_queue[k].buffer => j = k

OwnInv ==
  /\ QueuedOnce
  /\ \A b \in 1..NumBuffers : /\ buffer_busy[b] <=> RecvHas(b) \/ QueueHas(b) \/ AppHas(b)
                              /\ ~(RecvHas(b) /\ QueueHas(b))
                              /\ ~(RecvHas(b) /\ AppHas(b))
                              /\ ~(QueueHas(b) /\ AppHas(b))

(* What MsgIn::recv has in its local variables.                            *)
RxInv ==
  /\ rx.pc = "size" => rx.read = 0
  /\ rx.pc = "allocate" => rx.read = 0 /\ rx.size > 0
  /\ RecvHolds => got[Receiver] # 0 /\ rx.size > 0

(* The packets that vsg_recv has popped, and those that got to the queue.  *)
Popped == Len(taken) + (IF app.pc = "copy" THEN 1 ELSE 0)
Delivered == Popped + Len(input_queue)

(* A buffer holds a packet.                                                *)
Carries(b, size, packet) ==
  /\ size = 1 + Len(packet)
  /\ \A j \in 1..Len(packet) : memory[Byte(b, size, 1 + j)] = packet[j]

TakenInv == \A k \in DOMAIN taken : taken[k] \in {Lost, packets[k]}

QueueInv ==
  \A k \in DOMAIN input_queue :
    Carries(input_queue[k].buffer, input_queue[k].size, packets[Popped + k])

Copies(packet) ==
  /\ Carries(app.buffer, app.size, packet)
  /\ Len(app.copy) <= app.size - 1
  /\ \A j \in 1..Len(app.copy) : app.copy[j] = packet[j]

CopyInv == app.pc = "copy" => app.buffer # 0 /\ Copies(packets[Len(taken) + 1])

PacketInv ==
  Delivered <= Len(packets) /\ TakenInv /\ QueueInv /\ CopyInv

CalledInv ==
  /\ Len(called) <= Len(deadlines)
  /\ \A k \in DOMAIN called : called[k] = duration_to_timespec(deadlines[k])

OffsetInv ==
  started.code = "0" => started.offset[1] * NsPerSec + started.offset[2] \in Offsets

(* The socket holds the last bytes of the messages.  Beyond them there may *)
(* be the beginning of one that the peer did not finish.                   *)
Content(starts) ==
  /\ \A k \in 1..Len(asked) : starts[k + 1] = starts[k] + Len(asked[k])
  /\ \A k \in 1..Len(asked), j \in Nat \ {0} :
       j <= Len(asked[k]) /\ starts[k] + j > 1 =>
         /\ starts[k] + j <= Len(stream) + 1
         /\ stream[starts[k] + j - 1] = asked[k][j]
  /\ starts[Len(asked) + 1] <= Len(stream) + 1
  /\ starts[Len(asked) + 1] <= Len(stream) =>
       /\ link = "gone"
       /\ starts[Len(asked) + 1] >= 1 => stream[starts[Len(asked) + 1]] = <<"size", BufferSize>>
       /\ Len(stream) < starts[Len(asked) + 1] + BufferSize

(* Message k is a packet, a deadline, or one after which nothing is read.  *)
IsPacket(k, np, nd, msgs, payloads) ==
  /\ np[k] = np[k - 1] + 1 /\ nd[k] = nd[k - 1]
  /\ np[k] \in 1..Len(payloads)
  /\ msgs[k] = deliver_packet(payloads[np[k]])

IsDeadline(k, np, nd, msgs, times) ==
  /\ np[k] = np[k - 1] /\ nd[k] = nd[k - 1] + 1
  /\ nd[k] \in 1..Len(times)
  /\ msgs[k] = goto_deadline(times[nd[k]])

IsLast(k, np, nd, msgs) ==
  /\ np[k] = np[k - 1] /\ nd[k] = nd[k - 1]
  /\ \/ msgs[k] = end_simulation
     \/ \E m \in OtherMsgs : msgs[k] = Message(m[1], m[2], <<>>)

Numbered(np, nd) ==
  /\ np[0] = 0 /\ nd[0] = 0
  /\ np[Len(asked)] = Len(packets) /\ nd[Len(asked)] = Len(deadlines)
  /\ \A k \in 1..Len(asked) : \/ IsPacket(k, np, nd, asked, packets)
                               \/ IsDeadline(k, np, nd, asked, deadlines)
                               \/ IsLast(k, np, nd, asked)

(* The bytes of the message being received that are still to be read.      *)
Off == IF rx.pc \in {"allocate", "body"} THEN rx.size - rx.read ELSE 0

(* The message is one that the peer did not finish.                        *)
Cut == rx.pc \in {"allocate", "body"} /\ Len(stream) < Off /\ link = "gone"

(* The receiver has still to deal with message h, ...                      *)
Receives(h, np, nd) ==
  /\ h > 0
  /\ Delivered = np[h - 1] /\ Len(called) = nd[h - 1]
  /\ rx.pc \in {"allocate", "body"} => rx.size + 1 = Len(asked[h])
  /\ rx.pc = "body" =>
       \A j \in 1..rx.read : memory[Byte(got[Receiver], rx.size, j)] = asked[h][j + 1]
  /\ rx.pc = "done" /\ rx.out = "DeliverPacket" =>
       IsPacket(h, np, nd, asked, packets) /\ Carries(got[Receiver], rx.size, packets[np[h]])
  /\ rx.pc = "done" /\ rx.out = "GoToDeadline" =>
       IsDeadline(h, np, nd, asked, deadlines) /\ rx.time = deadlines[nd[h]]

(* ... or is between two messages.                                         *)
Between(h, np, nd) == Delivered = np[h] /\ Len(called) = nd[h]

InStep(h, starts, np, nd) ==
  /\ starts[h + 1] = Off + 1
  /\ rx.pc \in {"allocate", "body", "done"} => Receives(h, np, nd)
  /\ rx.pc \notin {"allocate", "body", "done"} => Between(h, np, nd)

(* There will be more messages to receive.                                 *)
Listening ==
  /\ state \in {"none", "new", "starting", "running", "deadline"}
  /\ rx.pc = "done" => rx.out \in {"DeliverPacket", "GoToDeadline"}

Counts(np, nd) == np \in [Nat -> Nat] /\ nd \in [Nat -> Nat]
Positions(starts) == starts \in [Nat -> Int]

Synced(h, starts, np, nd) ==
  /\ h \in 0..Len(asked) /\ Positions(starts) /\ Counts(np, nd)
  /\ Content(starts) /\ Numbered(np, nd) /\ InStep(h, starts, np, nd)

StreamInv ==
  Listening =>
    \/ Cut
    \/ \E h, starts, np, nd : Synced(h, starts, np, nd)

IInv ==
  /\ TypeOK /\ ContextInv /\ PollInv /\ OwnInv /\ RxInv
  /\ PacketInv /\ CalledInv /\ OffsetInv /\ StreamInv

-----------------------------------------------------------------------------
(* Zenon tries every leaf that does not name another prover.               *)
USE Zenon

(* Where the buffers lie in the memory.                                    *)
LEMMA Sizes == /\ NumBuffers \in Nat /\ NumBuffers > 0
               /\ BufferSize \in Nat /\ BufferSize > 0
               /\ NsPerSec \in Nat /\ NsPerSec > 0
  BY SMT, NumBuffersAssumption, SizeAssumption

LEMMA Blocks ==
  ASSUME NEW m \in Nat, NEW n \in Nat, m < n
  PROVE  /\ BufferSize * m \in Nat /\ BufferSize * n \in Nat
         /\ BufferSize * m + BufferSize <= BufferSize * n
<1>1. BufferSize * n = BufferSize * m + BufferSize * (n - m) /\ n - m >= 1 /\ n - m \in Nat
  BY Sizes, SMTT(20)
<1>2. \A d \in Nat : d >= 1 => BufferSize * d >= BufferSize /\ BufferSize * d \in Nat
  BY Sizes, SMTT(20)
<1>3. BufferSize * m \in Nat
  BY Sizes, SMTT(20)
<1> QED
  BY SMT, Sizes, <1>1, <1>2, <1>3

LEMMA ByteInMemory ==
  ASSUME NEW i \in 1..NumBuffers, NEW k \in 1..BufferSize, NEW s
  PROVE  Byte(i, s, k) \in 1..NumBuffers * BufferSize
<1>1. i - 1 \in Nat /\ k \in Nat /\ k <= BufferSize /\ k > 0 /\ i - 1 < NumBuffers
  BY SMT, Sizes
<1>2. BufferSize * (i - 1) + BufferSize <= BufferSize * NumBuffers /\ BufferSize * (i - 1) \in Nat
      /\ BufferSize * NumBuffers \in Nat
  BY SMT, Sizes, <1>1, Blocks
<1>3. BufferSize * NumBuffers = NumBuffers * BufferSize
  BY Sizes, SMTT(20)
<1> QED
  BY SMT, Sizes, <1>1, <1>2, <1>3 DEF Byte, BufferStart

LEMMA ResetType ==
  ASSUME memory \in [1..NumBuffers * BufferSize -> Bytes], NEW i, NEW s
  PROVE  reset(i, s) \in [1..NumBuffers * BufferSize -> Bytes]
  BY SMT DEF reset, Bytes

(* duration_to_timespec and back.                                          *)
LEMMA TimespecExact ==
  ASSUME NEW t \in Nat
  PROVE  /\ t \div NsPerSec \in Nat /\ t % NsPerSec \in Nat /\ t % NsPerSec < NsPerSec
         /\ (t \div NsPerSec) * NsPerSec + (t % NsPerSec) = t
<1>1. t \div NsPerSec \in Nat /\ t % NsPerSec \in Nat /\ t % NsPerSec < NsPerSec
  BY Sizes, SMTT(30)
<1>2. t = NsPerSec * (t \div NsPerSec) + (t % NsPerSec)
  BY Sizes, SMTT(30)
<1>3. NsPerSec * (t \div NsPerSec) = (t \div NsPerSec) * NsPerSec
  BY Sizes, <1>1, SMTT(30)
<1> QED
  BY SMT, <1>1, <1>2, <1>3

-----------------------------------------------------------------------------
LEMMA SeqElem == ASSUME NEW S, NEW s \in Seq(S), NEW i \in 1..Len(s) PROVE s[i] \in S
  BY SMT

LEMMA LenNat == ASSUME NEW S, NEW s \in Seq(S) PROVE Len(s) \in Nat /\ DOMAIN s = 1..Len(s)
  BY SMT

(* What a message is made of.                                              *)
LEMMA BytesMade ==
  /\ Zero \in Bytes
  /\ \A n \in Nat : n > 0 => <<"size", n>> \in Bytes
  /\ \A kind \in Kinds, time \in Timespecs : <<"flatbuffer", kind, time>> \in Bytes
  /\ \A id \in Nat : <<"byte", id>> \in Bytes
  BY SMT DEF Bytes

LEMMA PayloadType ==
  ASSUME NEW id \in Nat, NEW len \in Nat
  PROVE  Payload(id, len) \in Seq(Bytes) /\ Len(Payload(id, len)) = len
  BY SMT, BytesMade DEF Payload

LEMMA MessageShape ==
  ASSUME NEW kind \in Kinds, NEW time \in Timespecs, NEW pl \in Seq(Bytes)
  PROVE  /\ Message(kind, time, pl) \in Seq(Bytes)
         /\ Len(Message(kind, time, pl)) = 2 + Len(pl)
         /\ Message(kind, time, pl)[1] = <<"size", 1 + Len(pl)>>
         /\ Message(kind, time, pl)[2] = <<"flatbuffer", kind, time>>
         /\ \A j \in 1..Len(pl) : Message(kind, time, pl)[2 + j] = pl[j]
<1> DEFINE a == <<"size", 1 + Len(pl)>>
           b == <<"flatbuffer", kind, time>>
<1>1. a \in Bytes /\ b \in Bytes
  BY SMT, BytesMade
<1>2. Message(kind, time, pl) = <<a, b>> \o pl
  BY SMT DEF Message
<1> HIDE DEF a, b
<1>3. <<a, b>> \in Seq(Bytes) /\ Len(<<a, b>>) = 2 /\ <<a, b>>[1] = a /\ <<a, b>>[2] = b
  BY SMT, <1>1
<1>4. /\ Message(kind, time, pl) \in Seq(Bytes)
      /\ Len(Message(kind, time, pl)) = 2 + Len(pl)
      /\ Message(kind, time, pl)[1] = a
      /\ Message(kind, time, pl)[2] = b
      /\ \A j \in 1..Len(pl) : Message(kind, time, pl)[2 + j] = pl[j]
  BY SMT, <1>2, <1>3
<1> QED
  BY SMT, <1>4 DEF a, b

LEMMA DeliverShape ==
  ASSUME NEW pl \in Seq(Bytes)
  PROVE  /\ deliver_packet(pl) \in Seq(Bytes)
         /\ Len(deliver_packet(pl)) = 2 + Len(pl)
         /\ deliver_packet(pl)[1] = <<"size", 1 + Len(pl)>>
         /\ deliver_packet(pl)[2] = <<"flatbuffer", "DeliverPacket", <<0, 0>>>>
         /\ \A j \in 1..Len(pl) : deliver_packet(pl)[2 + j] = pl[j]
<1>1. "DeliverPacket" \in Kinds /\ <<0, 0>> \in Timespecs
  BY SMT DEF Kinds, Timespecs
<1> QED
  BY SMT, <1>1, MessageShape DEF deliver_packet

LEMMA EmptyShape ==
  ASSUME NEW kind \in Kinds, NEW time \in Timespecs
  PROVE  /\ Message(kind, time, <<>>) \in Seq(Bytes)
         /\ Len(Message(kind, time, <<>>)) = 2
         /\ Message(kind, time, <<>>)[1] = <<"size", 1>>
         /\ Message(kind, time, <<>>)[2] = <<"flatbuffer", kind, time>>
<1> DEFINE empty == <<>>
<1>1. empty \in Seq(Bytes) /\ Len(empty) = 0
  BY SMT
<1> HIDE DEF empty
<1>2. /\ Message(kind, time, empty) \in Seq(Bytes)
      /\ Len(Message(kind, time, empty)) = 2
      /\ Message(kind, time, empty)[1] = <<"size", 1>>
      /\ Message(kind, time, empty)[2] = <<"flatbuffer", kind, time>>
  <2>1. /\ Message(kind, time, empty) \in Seq(Bytes)
        /\ Len(Message(kind, time, empty)) = 2 + Len(empty)
        /\ Message(kind, time, empty)[1] = <<"size", 1 + Len(empty)>>
        /\ Message(kind, time, empty)[2] = <<"flatbuffer", kind, time>>
    BY <1>1, MessageShape
  <2> QED
    BY SMT, <1>1, <2>1
<1> QED
  BY SMT, <1>2 DEF empty

LEMMA GotoShape ==
  ASSUME NEW t \in Nat
  PROVE  /\ goto_deadline(t) \in Seq(Bytes)
         /\ Len(goto_deadline(t)) = 2
         /\ goto_deadline(t)[1] = <<"size", 1>>
         /\ goto_deadline(t)[2] = <<"flatbuffer", "GotoDeadline", <<t \div NsPerSec, t % NsPerSec>>>>
<1>1. "GotoDeadline" \in Kinds /\ <<t \div NsPerSec, t % NsPerSec>> \in Timespecs
  BY SMT, TimespecExact DEF Kinds, Timespecs
<1> QED
  BY <1>1, EmptyShape DEF goto_deadline

LEMMA EndShape ==
  /\ end_simulation \in Seq(Bytes)
  /\ Len(end_simulation) = 2
  /\ end_simulation[1] = <<"size", 1>>
  /\ end_simulation[2] = <<"flatbuffer", "EndSimulation", <<0, 0>>>>
<1>1. "EndSimulation" \in Kinds /\ <<0, 0>> \in Timespecs
  BY SMT DEF Kinds, Timespecs
<1> QED
  BY SMT, <1>1, EmptyShape DEF end_simulation

LEMMA OtherShape ==
  ASSUME NEW m \in OtherMsgs
  PROVE  /\ m[1] \in {"GotoDeadline", "Malformed"} /\ m[2] \in Timespecs
         /\ m[1] = "GotoDeadline" => m[2][2] >= NsPerSec
         /\ Message(m[1], m[2], <<>>) \in Seq(Bytes)
         /\ Len(Message(m[1], m[2], <<>>)) = 2
         /\ Message(m[1], m[2], <<>>)[1] = <<"size", 1>>
         /\ Message(m[1], m[2], <<>>)[2] = <<"flatbuffer", m[1], m[2]>>
<1>1. /\ m[1] \in {"GotoDeadline", "Malformed"} /\ m[2] \in Timespecs
      /\ m[1] = "GotoDeadline" => m[2][2] >= NsPerSec
  <2>1. /\ m \in {"GotoDeadline", "Malformed"} \X Timespecs
        /\ m[1] = "GotoDeadline" => m[2][2] >= NsPerSec
    BY InputsAssumption
  <2> QED
    BY SMT, <2>1
<1>2. m[1] \in Kinds
  BY SMT, <1>1 DEF Kinds
<1> QED
  BY SMT, <1>1, <1>2, EmptyShape

(* The types of sequences, by themselves.                                  *)
LEMMA SeqTypes ==
  ASSUME TypeOK
  PROVE  /\ stream \in Seq(Bytes)
         /\ asked \in Seq(Seq(Bytes)) /\ Len(asked) <= MaxMsgs
         /\ packets \in Seq(Seq(Bytes)) /\ deadlines \in Seq(Nat)
         /\ taken \in Seq(Seq(Bytes) \cup {Lost}) /\ called \in Seq(Timespecs)
         /\ input_queue \in Seq([buffer : 1..NumBuffers, size : 1..BufferSize])
  BY DEF TypeOK

LEMMA RecvTypes ==
  ASSUME TypeOK
  PROVE  /\ rx \in RxTypes /\ rx.read <= rx.size
         /\ memory \in [1..NumBuffers * BufferSize -> Bytes]
         /\ Pool!TypeOK
  BY DEF TypeOK

LEMMA TailBytes ==
  ASSUME stream \in Seq(Bytes), stream # <<>>, stream' = Tail(stream)
  PROVE  /\ Len(stream) \in Nat /\ Len(stream) > 0 /\ Len(stream') = Len(stream) - 1
         /\ \A i \in Nat : i >= 1 /\ i < Len(stream) => stream'[i] = stream[i + 1]
         /\ Head(stream) = stream[1]
         /\ stream' \in Seq(Bytes)
  BY SMT

LEMMA ConcatBytes ==
  ASSUME stream \in Seq(Bytes), NEW msg \in Seq(Bytes), stream' = stream \o msg
  PROVE  /\ Len(stream) \in Nat /\ Len(msg) \in Nat /\ Len(stream') = Len(stream) + Len(msg)
         /\ \A i \in 1..Len(stream) : stream'[i] = stream[i]
         /\ \A j \in 1..Len(msg) : stream'[Len(stream) + j] = msg[j]
         /\ stream' \in Seq(Bytes)
  BY SMT

(* One element more.                                                       *)
LEMMA AppendSeq ==
  ASSUME NEW S, NEW s \in Seq(S), NEW e \in S, NEW t, t = Append(s, e)
  PROVE  /\ t \in Seq(S) /\ Len(s) \in Nat /\ Len(t) = Len(s) + 1 /\ Len(t) \in Nat /\ Len(s) <= Len(t)
         /\ t[Len(s) + 1] = e /\ \A i \in 1..Len(s) : t[i] = s[i]
  BY SMT

OneMore(s, e, t) ==
  /\ Len(s) \in Nat /\ Len(t) = Len(s) + 1 /\ Len(t) \in Nat /\ Len(s) <= Len(t)
  /\ t[Len(s) + 1] = e /\ \A i \in 1..Len(s) : t[i] = s[i]

LEMMA AppendOneMore ==
  ASSUME NEW S, NEW s \in Seq(S), NEW e \in S, NEW t, t = Append(s, e)
  PROVE  OneMore(s, e, t)
  BY SMT DEF OneMore

(* What MsgIn::recv returns.                                               *)
LEMMA ResultFields ==
  ASSUME NEW out, NEW time
  PROVE  /\ Result(out, time).pc = "done"
         /\ Result(out, time).out = out
         /\ Result(out, time).time = time
  BY SMT DEF NotReceiving, Result

LEMMA RxFields ==
  /\ NotReceiving.pc = "idle" /\ NotReceiving.size = 0 /\ NotReceiving.read = 0
  /\ NotReceiving.out = "none" /\ NotReceiving.time = 0
  /\ Receiving.pc = "size" /\ Receiving.size = 0 /\ Receiving.read = 0
  /\ Receiving.out = "none" /\ Receiving.time = 0
  /\ \A out, time : /\ Result(out, time).pc = "done" /\ Result(out, time).size = 0
                    /\ Result(out, time).read = 0
                    /\ Result(out, time).out = out /\ Result(out, time).time = time
  BY SMT DEF NotReceiving, Receiving, Result

LEMMA RxUpdates ==
  ASSUME rx \in RxTypes, NEW s
  PROVE  /\ [rx EXCEPT !.pc = "allocate", !.size = s].pc = "allocate"
         /\ [rx EXCEPT !.pc = "allocate", !.size = s].size = s
         /\ [rx EXCEPT !.pc = "allocate", !.size = s].read = rx.read
         /\ [rx EXCEPT !.pc = "body"].pc = "body"
         /\ [rx EXCEPT !.pc = "body"].size = rx.size
         /\ [rx EXCEPT !.pc = "body"].read = rx.read
         /\ [rx EXCEPT !.read = s].pc = rx.pc
         /\ [rx EXCEPT !.read = s].size = rx.size
         /\ [rx EXCEPT !.read = s].read = s
         /\ new_deliver_packet.pc = "done"
         /\ new_deliver_packet.size = rx.size
         /\ new_deliver_packet.read = rx.read
         /\ new_deliver_packet.out = "DeliverPacket"
  BY SMT DEF RxTypes, new_deliver_packet

LEMMA RxNats ==
  ASSUME TypeOK
  PROVE  /\ rx.size \in Nat /\ rx.read \in Nat /\ rx.time \in Nat
         /\ rx.size <= BufferSize /\ rx.read <= rx.size
<1>1. rx \in RxTypes /\ rx.read <= rx.size
  BY RecvTypes
<1>2. rx.size \in 0..BufferSize /\ rx.read \in 0..BufferSize /\ rx.time \in Nat
  BY SMT, <1>1 DEF RxTypes
<1> QED
  BY SMT, <1>1, <1>2, Sizes

(* All of message h is in the buffer when it is decoded.                   *)
LEMMA MessageRead ==
  ASSUME TypeOK, RxInv, Decode, NEW h, NEW starts, NEW np, NEW nd, Synced(h, starts, np, nd)
  PROVE  /\ h \in 1..Len(asked) /\ starts[h + 1] = 1
         /\ Len(asked[h]) = rx.size + 1
         /\ memory[Byte(got[Receiver], rx.size, 1)] = asked[h][2]
         /\ \A j \in Nat : j >= 1 /\ j <= rx.size =>
              memory[Byte(got[Receiver], rx.size, j)] = asked[h][j + 1]
<1>1. rx.pc = "body" /\ rx.read = rx.size
  BY DEF Decode
<1>2. Receives(h, np, nd) /\ h \in 0..Len(asked) /\ starts[h + 1] = Off + 1
  BY <1>1 DEF Synced, InStep
<1>3. /\ h > 0 /\ rx.size + 1 = Len(asked[h])
      /\ \A j \in 1..rx.read : memory[Byte(got[Receiver], rx.size, j)] = asked[h][j + 1]
  BY <1>1, <1>2 DEF Receives
<1>4. Len(asked) \in Nat
  BY SeqTypes, LenNat
<1>5. h \in 1..Len(asked)
  BY SMT, <1>2, <1>3, <1>4
<1>6. rx.size \in Nat /\ rx.size > 0
  BY <1>1, RxNats DEF RxInv, RecvHolds
<1>7. Off = rx.size - rx.size
  BY <1>1 DEF Off
<1>8. starts[h + 1] = 1
  BY SMT, <1>2, <1>6, <1>7
<1>9. ASSUME NEW j \in Nat, j >= 1, j <= rx.size
      PROVE  memory[Byte(got[Receiver], rx.size, j)] = asked[h][j + 1]
  <2>1. j \in 1..rx.read
    BY SMT, <1>1, <1>6, <1>9
  <2> QED
    BY <1>3, <2>1
<1>10. memory[Byte(got[Receiver], rx.size, 1)] = asked[h][2]
  <2>1. 1 <= rx.size /\ 1 >= 1 /\ 1 \in Nat /\ 1 + 1 = 2
    BY SMT, <1>6
  <2> QED
    BY <1>9, <2>1
<1> QED
  BY <1>3, <1>5, <1>8, <1>9, <1>10

-----------------------------------------------------------------------------
(* The life of the context.                                                *)
LEMMA RecvStepsRx ==
  ASSUME TypeOK, recv
  PROVE  rx.pc # "idle" /\ rx'.pc # "idle"
<1>1. rx \in RxTypes
  BY RecvTypes
<1>2. CASE read_prefixed_size
  BY SMT, <1>1, <1>2, RxFields, RxUpdates DEF read_prefixed_size
<1>3. CASE Allocated
  BY SMT, <1>1, <1>3, RxFields, RxUpdates DEF Allocated
<1>4. CASE AllocateScan
  BY SMT, <1>1, <1>4, RxFields, RxUpdates DEF AllocateScan
<1>5. CASE read_exact
  BY SMT, <1>1, <1>5, RxFields, RxUpdates DEF read_exact
<1>6. CASE UnexpectedEof
  BY SMT, <1>1, <1>6, RxFields, RxUpdates DEF UnexpectedEof
<1>7. CASE Decode
  <2>1. rx.pc = "body"
    BY <1>7 DEF Decode
  <2>2. \/ rx' = new_deliver_packet
        \/ \E out, time : rx' = Result(out, time)
    BY <1>7 DEF Decode, DecodedTime
  <2> QED
    BY SMT, <1>1, <2>1, <2>2, RxFields, RxUpdates
<1> QED
  BY <1>2, <1>3, <1>4, <1>5, <1>6, <1>7 DEF recv

LEMMA ContextSteps == ASSUME TypeOK, ContextInv, Next PROVE ContextInv'
<1> USE DEF ContextInv
<1>1. CASE \E argv \in Argvs, connected \in BOOLEAN : vsg_init(argv, connected)
  <2>1. PICK argv \in Argvs, connected \in BOOLEAN : vsg_init(argv, connected)
    BY <1>1
  <2>2. /\ app.pc = "idle" /\ ~pointer /\ rx' = rx /\ app' = app /\ (registered => registered')
        /\ \/ state' = "new" /\ refs' = 1 /\ pointer' /\ registered' /\ ~registered
           \/ state' = state /\ refs' = refs /\ pointer' = pointer
    BY <2>1 DEF vsg_init, register, connectorVars, recvVars
  <2>3. CASE state' = "new" /\ refs' = 1 /\ pointer' /\ registered' /\ ~registered
    BY SMT, <2>2, <2>3
  <2>4. CASE state' = state /\ refs' = refs /\ pointer' = pointer
    BY <2>2, <2>4
  <2> QED
    BY <2>2, <2>3, <2>4
<1>2. CASE vsg_cleanup
  BY SMT, <1>2 DEF vsg_cleanup, DropContext, connectorVars, recvVars
<1>3. CASE vsg_start
  BY SMT, <1>3, RxFields DEF vsg_start, Idle
<1>4. CASE vsg_stop \/ StopReturn
  BY SMT, <1>4 DEF vsg_stop, StopReturn, Idle, connectorVars, ctxVars, Started
<1>5. CASE \E len \in Lens : vsg_send(len)
  BY SMT, <1>5 DEF vsg_send, connectorVars, ctxVars, recvVars
<1>6. CASE \E len \in Lens : vsg_recv(len)
  BY SMT, <1>6 DEF vsg_recv, ctxVars
<1>7. CASE RecvCopy
  <2>1. app \in AppTypes
    BY DEF TypeOK
  <2>2. app'.pc = app.pc
    BY SMT, <1>7, <2>1 DEF RecvCopy, AppTypes
  <2> QED
    BY <1>7, <2>2 DEF RecvCopy, connectorVars, ctxVars
<1>8. CASE RecvReturn
  BY SMT, <1>8 DEF RecvReturn, ctxVars, Idle
<1>9. CASE vsg_poll
  BY <1>9 DEF vsg_poll, connectorVars, ctxVars
<1>10. CASE deadline_handler
  BY SMT, <1>10, RxFields DEF deadline_handler, recvVars
<1>11. CASE ReceiveStep
  <2>1. state' = state /\ refs' = refs /\ pointer' = pointer /\ registered' = registered /\ app' = app
    BY <1>11 DEF ReceiveStep, ctxVars, recvVars
  <2>2. rx.pc # "idle" /\ rx'.pc # "idle"
    BY <1>11, RecvStepsRx DEF ReceiveStep
  <2> QED
    BY <2>1, <2>2
<1>12. CASE StartReturn
  BY SMT, <1>12, RxFields DEF StartReturn, Idle
<1>13. CASE handle_actor_msg
  BY SMT, <1>13, RxFields DEF handle_actor_msg, ctxVars
<1>14. CASE HandlerReturn
  BY SMT, <1>14, RxFields DEF HandlerReturn, DropContext, recvVars
<1>15. CASE PeerMessage
  <2>1. PICK msg : PeerSend(msg)
    BY <1>15 DEF PeerMessage, PeerPacket, PeerDeadline
  <2> QED
    BY <2>1 DEF PeerSend, PeerWrite, ctxVars, recvVars
<1>16. CASE PeerEnd
  BY <1>16 DEF PeerEnd, PeerDies, PeerShutdown, ctxVars, recvVars
<1> QED
  BY <1>1, <1>2, <1>3, <1>4, <1>5, <1>6, <1>7, <1>8, <1>9, <1>10, <1>11, <1>12, <1>13, <1>14,
     <1>15, <1>16 DEF Next, Handler

LEMMA PollSteps == ASSUME TypeOK, PollInv, Next PROVE PollInv'
<1> USE DEF PollInv
<1>1. CASE \E len \in Lens : vsg_recv(len)
  <2>1. PICK len \in Lens : vsg_recv(len)
    BY <1>1
  <2>2. CASE input_queue = <<>>
    <3>1. ~starved /\ ~polled
      BY <2>2
    <3>2. starved' = (starved \/ polled) /\ polled' = polled
      BY <2>1, <2>2 DEF vsg_recv
    <3> QED
      BY <3>1, <3>2
  <2>3. CASE input_queue # <<>>
    <3>1. ~polled' /\ starved' = starved
      BY <2>1, <2>3 DEF vsg_recv
    <3> QED
      BY <3>1
  <2> QED
    BY <2>2, <2>3
<1>2. CASE vsg_poll
  BY <1>2 DEF vsg_poll, poll
<1>3. CASE handle_actor_msg
  <2>1. input_queue \in Seq([buffer : 1..NumBuffers, size : 1..BufferSize])
    BY SeqTypes
  <2>2. input_queue' = input_queue \/ input_queue' # <<>>
    <3>1. CASE input_queue' = Append(input_queue, [buffer |-> got[Receiver], size |-> rx.size])
      BY SMT, <2>1, <3>1
    <3> QED
      BY <1>3, <3>1 DEF handle_actor_msg
  <2> QED
    BY <1>3, <2>2 DEF handle_actor_msg
<1>4. CASE UNCHANGED <<input_queue, polled, starved>>
  BY <1>4
<1>5. PeerMessage => UNCHANGED <<input_queue, polled, starved>>
  BY DEF PeerMessage, PeerPacket, PeerDeadline, PeerSend, recvVars
<1> QED
  BY <1>1, <1>2, <1>3, <1>4, <1>5 DEF Next, Handler, vsg_init, vsg_cleanup, vsg_start, vsg_stop,
     StopReturn, vsg_send, RecvCopy, RecvReturn, deadline_handler, ReceiveStep, StartReturn,
     HandlerReturn, PeerEnd, recvVars

(* Type correctness.                                                       *)
LEMMA PoolTyped ==
  ASSUME Pool!TypeOK,
         \/ \E fits \in BOOLEAN : Pool!allocate_buffer(Receiver, fits)
         \/ Pool!SwapFree(Receiver) \/ Pool!SwapBusy(Receiver)
         \/ \E b \in 1..NumBuffers : Pool!free_buffer(b)
         \/ UNCHANGED poolVars
  PROVE  Pool!TypeOK'
<1> USE DEF Pool!TypeOK
<1>0. Pool!Observe => contended' \in [{Receiver} -> BOOLEAN]
  BY SMT DEF Pool!Observe
<1>1. CASE \E fits \in BOOLEAN : Pool!allocate_buffer(Receiver, fits)
  BY SMT, <1>0, <1>1, Sizes DEF Pool!allocate_buffer, Pool!Outcomes
<1>2. CASE Pool!SwapFree(Receiver)
  <2>1. PICK i : i = scan[Receiver] /\ i # 0
    BY <1>2 DEF Pool!SwapFree
  <2>2. i \in 1..NumBuffers /\ i \in 0..NumBuffers /\ 0 \in 0..NumBuffers
    BY SMT, <2>1, Sizes
  <2>3. live[i] + 1 \in Nat
    BY SMT, <2>2 DEF Pool!Index
  <2>4. "Ok" \in Pool!Outcomes
    BY SMT DEF Pool!Outcomes
  <2>5. /\ buffer_busy' = [buffer_busy EXCEPT ![i] = TRUE] /\ live' = [live EXCEPT ![i] = live[i] + 1]
        /\ scan' = [scan EXCEPT ![Receiver] = 0] /\ got' = [got EXCEPT ![Receiver] = i]
        /\ outcome' = [outcome EXCEPT ![Receiver] = "Ok"] /\ Pool!Observe
    BY <1>2, <2>1 DEF Pool!SwapFree
  <2> QED
    BY <1>0, <2>2, <2>3, <2>4, <2>5
<1>3. CASE Pool!SwapBusy(Receiver)
  BY SMT, <1>0, <1>3, Sizes DEF Pool!SwapBusy, Pool!Outcomes
<1>4. CASE \E b \in 1..NumBuffers : Pool!free_buffer(b)
  BY SMT, <1>0, <1>4, Sizes DEF Pool!free_buffer, Pool!Index
<1>5. CASE UNCHANGED poolVars
  BY <1>5 DEF poolVars
<1> QED
  BY <1>1, <1>2, <1>3, <1>4, <1>5

LEMMA SizeByte ==
  ASSUME NEW b \in Bytes, b[1] = "size"
  PROVE  b[2] \in Nat /\ b[2] > 0
  BY SMT DEF Bytes, Zero

LEMMA AskedFlatbuffer ==
  ASSUME TypeOK, NEW np, NEW nd, Numbered(np, nd), NEW k \in 1..Len(asked)
  PROVE  asked[k][2][2] \in Kinds /\ asked[k][2][3] \in Timespecs
<1>0. packets \in Seq(Seq(Bytes)) /\ deadlines \in Seq(Nat) /\ <<0, 0>> \in Timespecs
  BY SMT, SeqTypes DEF Timespecs
<1>1. CASE IsPacket(k, np, nd, asked, packets)
  <2>1. PICK packet : packet = packets[np[k]] /\ asked[k] = deliver_packet(packet)
    BY <1>1 DEF IsPacket
  <2>2. packet \in Seq(Bytes)
    BY <1>0, <1>1, <2>1, SeqElem DEF IsPacket
  <2>3. asked[k][2] = <<"flatbuffer", "DeliverPacket", <<0, 0>>>>
    BY SMT, <2>1, <2>2, DeliverShape
  <2> QED
    BY SMT, <1>0, <2>3 DEF Kinds
<1>2. CASE IsDeadline(k, np, nd, asked, deadlines)
  <2>1. PICK t : t = deadlines[nd[k]] /\ asked[k] = goto_deadline(t)
    BY <1>2 DEF IsDeadline
  <2>2. t \in Nat
    BY <1>0, <1>2, <2>1, SeqElem DEF IsDeadline
  <2>3. asked[k][2] = <<"flatbuffer", "GotoDeadline", <<t \div NsPerSec, t % NsPerSec>>>>
    BY <2>1, <2>2, GotoShape
  <2>4. t \div NsPerSec \in Nat /\ t % NsPerSec \in Nat
    BY <2>2, TimespecExact
  <2> QED
    BY SMT, <2>3, <2>4 DEF Kinds, Timespecs
<1>3. CASE IsLast(k, np, nd, asked)
  <2>1. CASE asked[k] = end_simulation
    BY SMT, <1>0, <2>1, EndShape DEF Kinds
  <2>2. CASE \E m \in OtherMsgs : asked[k] = Message(m[1], m[2], <<>>)
    <3>1. PICK m \in OtherMsgs : asked[k] = Message(m[1], m[2], <<>>)
      BY <2>2
    <3>2. asked[k][2] = <<"flatbuffer", m[1], m[2]>> /\ m[1] \in {"GotoDeadline", "Malformed"}
          /\ m[2] \in Timespecs
      BY <3>1, OtherShape
    <3> QED
      BY SMT, <3>2 DEF Kinds
  <2> QED
    BY <1>3, <2>1, <2>2 DEF IsLast
<1> QED
  BY <1>1, <1>2, <1>3 DEF Numbered

(* What is decoded is the flatbuffer of a message.                         *)
LEMMA DecodedKind ==
  ASSUME TypeOK, ContextInv, RxInv, StreamInv, Decode
  PROVE  /\ memory[Byte(got[Receiver], rx.size, 1)][2] \in Kinds
         /\ memory[Byte(got[Receiver], rx.size, 1)][3] \in Timespecs
<1>1. rx.pc = "body" /\ rx.read = rx.size
  BY DEF Decode
<1>2. Listening
  BY SMT, <1>1 DEF ContextInv, Listening
<1>3. ~Cut
  <2>1. Off = rx.size - rx.size /\ rx.size \in Nat
    BY <1>1, RxNats DEF Off
  <2>2. Len(stream) \in Nat
    BY SeqTypes, LenNat
  <2>3. ~(Len(stream) < Off)
    BY SMT, <2>1, <2>2
  <2> QED
    BY <2>3 DEF Cut
<1>4. PICK h, starts, np, nd : Synced(h, starts, np, nd)
  BY <1>2, <1>3 DEF StreamInv
<1>5. h \in 1..Len(asked) /\ memory[Byte(got[Receiver], rx.size, 1)] = asked[h][2]
  BY <1>4, MessageRead
<1>6. Numbered(np, nd)
  BY <1>4 DEF Synced
<1> QED
  BY <1>5, <1>6, AskedFlatbuffer

LEMMA RecordUpdates ==
  ASSUME NEW A, NEW B, NEW C, NEW D, NEW E,
         NEW r \in [pc : A, size : B, read : C, out : D, time : E]
  PROVE  /\ r.size \in B /\ r.read \in C
         /\ \A x \in A : /\ [r EXCEPT !.pc = x] \in [pc : A, size : B, read : C, out : D, time : E]
                         /\ [r EXCEPT !.pc = x].read = r.read /\ [r EXCEPT !.pc = x].size = r.size
         /\ \A x \in B : /\ [r EXCEPT !.size = x] \in [pc : A, size : B, read : C, out : D, time : E]
                         /\ [r EXCEPT !.size = x].read = r.read /\ [r EXCEPT !.size = x].size = x
         /\ \A x \in C : /\ [r EXCEPT !.read = x] \in [pc : A, size : B, read : C, out : D, time : E]
                         /\ [r EXCEPT !.read = x].read = x /\ [r EXCEPT !.read = x].size = r.size
         /\ \A x \in D : /\ [r EXCEPT !.out = x] \in [pc : A, size : B, read : C, out : D, time : E]
                         /\ [r EXCEPT !.out = x].read = r.read /\ [r EXCEPT !.out = x].size = r.size
         /\ \A x \in E : /\ [r EXCEPT !.time = x] \in [pc : A, size : B, read : C, out : D, time : E]
                         /\ [r EXCEPT !.time = x].read = r.read /\ [r EXCEPT !.time = x].size = r.size
  BY SMT

RxPcs == {"idle", "size", "allocate", "body", "done"}
RxOuts ==
  {"none", "DeliverPacket", "GoToDeadline", "EndSimulation", "Malformed", "SizeTooBig",
   "NoBufferAvailable", "UnexpectedEof", "TimeOutOfBounds"}

LEMMA RxMade ==
  ASSUME NEW r \in RxTypes
  PROVE  /\ r.size \in 0..BufferSize /\ r.read \in 0..BufferSize
         /\ \A x \in RxPcs : /\ [r EXCEPT !.pc = x] \in RxTypes
                             /\ [r EXCEPT !.pc = x].read = r.read /\ [r EXCEPT !.pc = x].size = r.size
         /\ \A x \in 0..BufferSize : /\ [r EXCEPT !.size = x] \in RxTypes
                         /\ [r EXCEPT !.size = x].read = r.read /\ [r EXCEPT !.size = x].size = x
         /\ \A x \in 0..BufferSize : /\ [r EXCEPT !.read = x] \in RxTypes
                         /\ [r EXCEPT !.read = x].read = x /\ [r EXCEPT !.read = x].size = r.size
         /\ \A x \in RxOuts : /\ [r EXCEPT !.out = x] \in RxTypes
                         /\ [r EXCEPT !.out = x].read = r.read /\ [r EXCEPT !.out = x].size = r.size
         /\ \A x \in Nat : /\ [r EXCEPT !.time = x] \in RxTypes
                         /\ [r EXCEPT !.time = x].read = r.read /\ [r EXCEPT !.time = x].size = r.size
<1>1. RxTypes = [pc : RxPcs, size : 0..BufferSize, read : 0..BufferSize, out : RxOuts, time : Nat]
  BY DEF RxTypes, RxPcs, RxOuts
<1> QED
  BY <1>1, RecordUpdates

LEMMA RxTyped ==
  ASSUME TypeOK, ContextInv, RxInv, StreamInv, recv
  PROVE  rx' \in RxTypes /\ rx'.read <= rx'.size
<1>0. rx \in RxTypes /\ rx.read <= rx.size /\ stream \in Seq(Bytes)
  BY RecvTypes, SeqTypes
<1>1. ASSUME NEW out \in {"GoToDeadline", "EndSimulation", "Malformed", "SizeTooBig",
                          "NoBufferAvailable", "UnexpectedEof", "TimeOutOfBounds"},
             NEW time \in Nat, rx' = Result(out, time)
      PROVE  rx' \in RxTypes /\ rx'.read <= rx'.size
  <2>1. NotReceiving \in RxTypes
    BY SMT, Sizes DEF NotReceiving, RxTypes
  <2>2. "done" \in RxPcs /\ out \in RxOuts
    BY SMT DEF RxPcs, RxOuts
  <2>3. PICK r1 : r1 = [NotReceiving EXCEPT !.pc = "done"]
    OBVIOUS
  <2>4. r1 \in RxTypes
    BY <2>1, <2>2, <2>3, RxMade
  <2>5. PICK r2 : r2 = [r1 EXCEPT !.out = out]
    OBVIOUS
  <2>6. r2 \in RxTypes
    BY <2>2, <2>4, <2>5, RxMade
  <2>7. rx' = [r2 EXCEPT !.time = time]
    BY <1>1, <2>3, <2>5 DEF Result
  <2>8. rx' \in RxTypes
    BY <2>6, <2>7, RxMade
  <2>9. rx'.read = 0 /\ rx'.size = 0
    BY SMT, <1>1, RxFields
  <2> QED
    BY SMT, <2>8, <2>9
<1>2. CASE read_prefixed_size
  <2>1. CASE rx' = Result("SizeTooBig", 0)
    BY SMT, <1>1, <2>1
  <2>2. CASE rx' # Result("SizeTooBig", 0)
    <3>1. PICK size : /\ rx' = [rx EXCEPT !.pc = "allocate", !.size = size]
                      /\ size <= BufferSize /\ size = Head(stream)[2]
      BY <1>2, <2>2 DEF read_prefixed_size
    <3>2. stream # <<>> /\ Head(stream)[1] = "size" /\ rx.pc = "size" /\ rx.read = 0
      BY <1>2 DEF read_prefixed_size, RxInv
    <3>3. Head(stream) \in Bytes
      BY SMT, <1>0, <3>2
    <3>4. size \in Nat /\ size > 0
      BY <3>1, <3>2, <3>3, SizeByte
    <3> QED
      <4>1. size \in 0..BufferSize /\ "allocate" \in RxPcs
        BY SMT, <3>1, <3>4, Sizes DEF RxPcs
      <4>2. PICK r : r = [rx EXCEPT !.pc = "allocate"]
        OBVIOUS
      <4>3. r \in RxTypes /\ r.read = 0
        BY <1>0, <3>2, <4>1, <4>2, RxMade
      <4>4. rx' = [r EXCEPT !.size = size]
        BY <3>1, <4>2
      <4>5. rx' \in RxTypes /\ rx'.read = 0 /\ rx'.size = size
        BY <4>1, <4>3, <4>4, RxMade
      <4> QED
        BY SMT, <3>4, <4>5
  <2> QED
    BY <2>1, <2>2
<1>3. CASE Allocated
  BY SMT, <1>0, <1>3 DEF Allocated, RxTypes
<1>4. CASE AllocateScan
  BY SMT, <1>0, <1>1, <1>4 DEF AllocateScan
<1>5. CASE read_exact
  <2>1. PICK next : next = rx.read + 1
    OBVIOUS
  <2>2. rx' = [rx EXCEPT !.read = next] /\ rx.read < rx.size
    BY <1>5, <2>1 DEF read_exact
  <2>3. rx.size \in 0..BufferSize /\ rx.read \in 0..BufferSize
    BY <1>0, RxMade
  <2>4. next \in 0..BufferSize /\ next <= rx.size
    BY SMT, <2>1, <2>2, <2>3, Sizes
  <2> QED
    BY <1>0, <2>2, <2>4, RxMade
<1>6. CASE UnexpectedEof
  BY SMT, <1>1, <1>6 DEF UnexpectedEof
<1>7. CASE Decode
  <2>1. PICK fb : fb = memory[Byte(got[Receiver], rx.size, 1)]
    OBVIOUS
  <2>2. fb[2] \in Kinds /\ fb[3] \in Timespecs
    BY <1>7, <2>1, DecodedKind
  <2>3. CASE fb[2] = "DeliverPacket"
    <3>1. rx' = new_deliver_packet
      BY <1>7, <2>1, <2>3 DEF Decode
    <3> QED
      <4>1. "done" \in RxPcs /\ "DeliverPacket" \in RxOuts
        BY SMT DEF RxPcs, RxOuts
      <4>2. PICK r : r = [rx EXCEPT !.pc = "done"]
        OBVIOUS
      <4>3. r \in RxTypes /\ r.read = rx.read /\ r.size = rx.size
        BY <1>0, <4>1, <4>2, RxMade
      <4>4. rx' = [r EXCEPT !.out = "DeliverPacket"]
        BY <3>1, <4>2 DEF new_deliver_packet
      <4>5. rx' \in RxTypes /\ rx'.read = rx.read /\ rx'.size = rx.size
        BY <4>1, <4>3, <4>4, RxMade
      <4> QED
        BY <1>0, <4>5
  <2>4. CASE fb[2] = "GotoDeadline"
    <3>1. rx' = DecodedTime(fb[3])
      BY SMT, <1>7, <2>1, <2>4 DEF Decode
    <3>2. fb[3][1] \in Nat /\ fb[3][2] \in Nat
      BY SMT, <2>2 DEF Timespecs
    <3>3. fb[3][1] * NsPerSec + fb[3][2] \in Nat
      BY SMT, <3>2, Sizes
    <3> QED
      BY SMT, <1>1, <3>1, <3>3 DEF DecodedTime
  <2>5. CASE fb[2] \in {"EndSimulation", "Malformed"}
    <3>1. rx' = Result(fb[2], 0)
      BY SMT, <1>7, <2>1, <2>5 DEF Decode
    <3> QED
      BY SMT, <1>1, <2>5, <3>1
  <2> QED
    BY <2>2, <2>3, <2>4, <2>5 DEF Kinds
<1> QED
  BY <1>2, <1>3, <1>4, <1>5, <1>6, <1>7 DEF recv

(* The local variables of MsgIn::recv along its steps, ...                 *)
LEMMA RxSteps ==
  ASSUME TypeOK, RxInv, recv
  PROVE  RxInv'
<1>0. rx \in RxTypes /\ stream \in Seq(Bytes) /\ got \in [{Receiver} -> 0..NumBuffers]
  BY RecvTypes, SeqTypes DEF Pool!TypeOK
<1>1. ASSUME NEW out, NEW time, out # "DeliverPacket", rx' = Result(out, time) PROVE RxInv'
  <2>1. rx'.pc = "done" /\ rx'.out # "DeliverPacket"
    BY <1>1, ResultFields
  <2> QED
    BY SMT, <2>1 DEF RxInv, RecvHolds
<1>2. CASE read_prefixed_size
  <2>1. CASE rx' = Result("SizeTooBig", 0)
    BY SMT, <1>1, <2>1
  <2>2. CASE rx' # Result("SizeTooBig", 0)
    <3>1. PICK size : /\ rx' = [rx EXCEPT !.pc = "allocate", !.size = size]
                      /\ size = Head(stream)[2]
      BY <1>2, <2>2 DEF read_prefixed_size
    <3>2. stream # <<>> /\ Head(stream)[1] = "size" /\ rx.pc = "size" /\ rx.read = 0
      BY <1>2 DEF read_prefixed_size, RxInv
    <3>3. Head(stream) \in Bytes
      BY SMT, <1>0, <3>2
    <3>4. size \in Nat /\ size > 0
      BY <3>1, <3>2, <3>3, SizeByte
    <3>5. rx'.pc = "allocate" /\ rx'.size = size /\ rx'.read = 0
      BY SMT, <1>0, <3>1, <3>2, RxUpdates
    <3> QED
      BY SMT, <3>4, <3>5 DEF RxInv, RecvHolds
  <2> QED
    BY <2>1, <2>2
<1>3. CASE Allocated
  <2>1. rx.pc = "allocate" /\ rx' = [rx EXCEPT !.pc = "body"] /\ scan[Receiver] # 0
        /\ got' = [got EXCEPT ![Receiver] = scan[Receiver]]
    BY <1>3 DEF Allocated, Pool!SwapFree
  <2>2. rx'.pc = "body" /\ rx'.size = rx.size
    BY <1>0, <2>1, RxUpdates
  <2>3. got'[Receiver] # 0
    BY SMT, <1>0, <2>1
  <2> QED
    BY SMT, <2>1, <2>2, <2>3 DEF RxInv, RecvHolds
<1>4. CASE AllocateScan
  <2>1. CASE rx' = rx
    BY SMT, <1>4, <2>1 DEF AllocateScan, RxInv, RecvHolds
  <2>2. CASE rx' = Result("NoBufferAvailable", 0)
    BY SMT, <1>1, <2>2
  <2> QED
    BY <1>4, <2>1, <2>2 DEF AllocateScan
<1>5. CASE read_exact
  <2>1. rx.pc = "body" /\ rx' = [rx EXCEPT !.read = rx.read + 1] /\ got' = got
    BY <1>5 DEF read_exact, poolVars
  <2>2. rx'.pc = "body" /\ rx'.size = rx.size
    BY <1>0, <2>1, RxUpdates
  <2> QED
    BY SMT, <2>1, <2>2 DEF RxInv, RecvHolds
<1>6. CASE UnexpectedEof
  BY SMT, <1>1, <1>6 DEF UnexpectedEof
<1>7. CASE Decode
  <2>1. PICK fb : fb = memory[Byte(got[Receiver], rx.size, 1)]
    OBVIOUS
  <2>2. rx.pc = "body" /\ got' = got
    BY <1>7 DEF Decode, poolVars, Pool!free_buffer
  <2>3. CASE fb[2] = "DeliverPacket"
    <3>1. rx' = new_deliver_packet
      BY <1>7, <2>1, <2>3 DEF Decode
    <3>2. rx'.pc = "done" /\ rx'.size = rx.size
      BY <1>0, <3>1, RxUpdates
    <3> QED
      BY SMT, <2>2, <3>2 DEF RxInv, RecvHolds
  <2>4. CASE fb[2] # "DeliverPacket"
    <3>1. \/ rx' = DecodedTime(fb[3])
          \/ rx' = Result(fb[2], 0)
      BY <1>7, <2>1, <2>4 DEF Decode
    <3>2. CASE rx' = DecodedTime(fb[3])
      BY SMT, <1>1, <3>2 DEF DecodedTime
    <3>3. CASE rx' = Result(fb[2], 0)
      BY <1>1, <2>4, <3>3
    <3> QED
      BY <3>1, <3>2, <3>3
  <2> QED
    BY <2>3, <2>4
<1> QED
  BY <1>2, <1>3, <1>4, <1>5, <1>6, <1>7 DEF recv

(* ... and what the other steps do to them.                                *)
LEMMA RxOthers ==
  ASSUME Next, ~recv
  PROVE  /\ rx' = rx \/ rx' = Receiving \/ rx' = NotReceiving
         /\ got' = got
<1>1. CASE PeerMessage
  BY <1>1 DEF PeerMessage, PeerPacket, PeerDeadline, PeerSend, PeerWrite, poolVars
<1>2. CASE PeerEnd
  BY <1>2 DEF PeerEnd, PeerDies, PeerShutdown, poolVars
<1>3. CASE \E argv \in Argvs, connected \in BOOLEAN : vsg_init(argv, connected)
  BY <1>3 DEF vsg_init, connectorVars, poolVars
<1>4. CASE \E len \in Lens : vsg_send(len) \/ vsg_recv(len)
  BY <1>4 DEF vsg_send, vsg_recv, connectorVars, poolVars, Pool!free_buffer
<1>5. CASE StartReturn
  BY <1>5 DEF StartReturn, poolVars, Pool!free_buffer
<1>6. CASE handle_actor_msg
  BY <1>6 DEF handle_actor_msg, poolVars, Pool!free_buffer
<1>7. CASE RecvReturn
  BY <1>7 DEF RecvReturn, poolVars, Pool!free_buffer
<1>8. CASE deadline_handler
  BY <1>8 DEF deadline_handler, poolVars
<1>9. CASE HandlerReturn
  BY <1>9 DEF HandlerReturn, poolVars
<1>10. CASE vsg_cleanup \/ vsg_start \/ vsg_stop \/ StopReturn \/ RecvCopy \/ vsg_poll
  BY <1>10 DEF vsg_cleanup, vsg_start, vsg_stop, StopReturn, RecvCopy, vsg_poll, connectorVars,
     poolVars
<1> QED
  BY <1>1, <1>2, <1>3, <1>4, <1>5, <1>6, <1>7, <1>8, <1>9, <1>10 DEF Next, Handler, ReceiveStep

LEMMA RxInvStep == ASSUME TypeOK, RxInv, Next PROVE RxInv'
<1>1. CASE recv
  BY <1>1, RxSteps
<1>2. CASE ~recv
  <2>1. CASE rx' = rx
    BY <1>2, <2>1, RxOthers DEF RxInv, RecvHolds
  <2>2. CASE rx' = Receiving \/ rx' = NotReceiving
    <3>1. rx'.pc \in {"size", "idle"} /\ rx'.read = 0
      BY <2>2, RxFields
    <3> QED
      BY SMT, <3>1 DEF RxInv, RecvHolds
  <2> QED
    BY <1>2, <2>1, <2>2, RxOthers
<1> QED
  BY <1>1, <1>2

(* Type correctness, one group of variables after the other.               *)
LEMMA AppTyped ==
  ASSUME TypeOK
  PROVE  /\ app \in AppTypes /\ app.buffer \in 0..NumBuffers /\ app.size \in 0..BufferSize
         /\ app.copy \in Seq(Bytes)
<1>1. app \in AppTypes
  BY DEF TypeOK
<1> QED
  BY SMT, <1>1 DEF AppTypes

LEMMA TypeControl ==
  ASSUME TypeOK, Next
  PROVE  /\ state' \in {"none", "new", "starting", "running", "deadline", "ended", "failed", "dropped"}
         /\ pointer' \in BOOLEAN /\ registered' \in BOOLEAN
         /\ polled' \in BOOLEAN /\ starved' \in BOOLEAN /\ refused' \in BOOLEAN
         /\ link' \in {"open", "shut", "gone"}
<1> DEFINE States == {"none", "new", "starting", "running", "deadline", "ended", "failed", "dropped"}
           Booleans == /\ pointer \in BOOLEAN /\ registered \in BOOLEAN
                       /\ polled \in BOOLEAN /\ starved \in BOOLEAN /\ refused \in BOOLEAN
           Links == {"open", "shut", "gone"}
<1>0. state \in States /\ Booleans /\ link \in Links
  BY DEF TypeOK
<1>1. CASE \E argv \in Argvs, connected \in BOOLEAN : vsg_init(argv, connected)
  <2>1. PICK argv \in Argvs, connected \in BOOLEAN : vsg_init(argv, connected)
    BY <1>1
  <2>2. /\ state' = "new" \/ state' = state
        /\ pointer' = TRUE \/ pointer' = pointer
        /\ registered' \in BOOLEAN /\ polled' = polled /\ starved' = starved /\ refused' = refused
        /\ link' = link
    BY <2>1 DEF vsg_init, connectorVars, recvVars, sendVars
  <2> QED
    BY <1>0, <2>2
<1>2. CASE vsg_cleanup
  BY <1>0, <1>2 DEF vsg_cleanup, DropContext, connectorVars, recvVars, sendVars
<1>3. CASE vsg_start
  BY <1>0, <1>3 DEF vsg_start, sendVars
<1>4. CASE vsg_stop \/ StopReturn \/ RecvCopy
  BY <1>0, <1>4 DEF vsg_stop, StopReturn, RecvCopy, connectorVars, ctxVars, sendVars
<1>5. CASE \E len \in Lens : vsg_send(len)
  BY <1>0, <1>5 DEF vsg_send, connectorVars, ctxVars, recvVars
<1>6. CASE \E len \in Lens : vsg_recv(len)
  <2>1. PICK len \in Lens : vsg_recv(len)
    BY <1>6
  <2>2. /\ UNCHANGED <<state, pointer, registered, refused, link>>
        /\ polled' = polled \/ polled' = FALSE
        /\ starved' = starved \/ starved' \in BOOLEAN
    BY <2>1 DEF vsg_recv, ctxVars, sendVars
  <2> QED
    BY <1>0, <2>2
<1>7. CASE RecvReturn
  BY <1>0, <1>7 DEF RecvReturn, ctxVars, sendVars
<1>8. CASE vsg_poll
  BY <1>0, <1>8 DEF vsg_poll, poll, connectorVars, ctxVars, sendVars
<1>9. CASE deadline_handler
  <2>1. UNCHANGED <<pointer, registered, polled, starved>>
    BY <1>9 DEF deadline_handler, recvVars
  <2>2. /\ state' \in {"ended", "deadline"} /\ (refused' = refused \/ refused' = PeerRefuses)
        /\ link' = link \/ link' = "gone"
    BY <1>9 DEF deadline_handler
  <2>3. PeerRefuses \in BOOLEAN
    BY DEF PeerRefuses
  <2> QED
    BY <1>0, <2>1, <2>2, <2>3
<1>10. CASE ReceiveStep
  <2>1. link' = link
    BY <1>10 DEF ReceiveStep, recv, read_prefixed_size, Allocated, AllocateScan, read_exact,
       UnexpectedEof, Decode
  <2> QED
    BY <1>0, <1>10, <2>1 DEF ReceiveStep, ctxVars, recvVars, sendVars
<1>11. CASE StartReturn
  BY <1>0, <1>11 DEF StartReturn, sendVars
<1>12. CASE handle_actor_msg
  BY <1>0, <1>12 DEF handle_actor_msg, ctxVars, sendVars
<1>13. CASE HandlerReturn
  BY <1>0, <1>13 DEF HandlerReturn, DropContext, recvVars, sendVars
<1>14. CASE PeerMessage
  <2>1. PICK msg : PeerSend(msg)
    BY <1>14 DEF PeerMessage, PeerPacket, PeerDeadline
  <2> QED
    BY <1>0, <2>1 DEF PeerSend, PeerWrite, ctxVars, recvVars, sendVars
<1>15. CASE PeerEnd
  BY <1>0, <1>15 DEF PeerEnd, PeerDies, PeerShutdown, ctxVars, recvVars, sendVars
<1> QED
  BY <1>1, <1>2, <1>3, <1>4, <1>5, <1>6, <1>7, <1>8, <1>9, <1>10, <1>11, <1>12, <1>13, <1>14,
     <1>15 DEF Next, Handler

(* The peer and the receiver share the socket, and only they.              *)
LEMMA PeerTyped ==
  ASSUME TypeOK, PeerMessage
  PROVE  /\ stream' \in Seq(Bytes) /\ memory' = memory
         /\ asked' \in Seq(Seq(Bytes)) /\ Len(asked') <= MaxMsgs
         /\ packets' \in Seq(Seq(Bytes)) /\ deadlines' \in Seq(Nat)
<1>0. /\ stream \in Seq(Bytes) /\ asked \in Seq(Seq(Bytes))
      /\ packets \in Seq(Seq(Bytes)) /\ deadlines \in Seq(Nat)
  BY SeqTypes
<1>1. ASSUME NEW msg \in Seq(Bytes), PeerSend(msg)
      PROVE  /\ stream' \in Seq(Bytes) /\ memory' = memory
             /\ asked' \in Seq(Seq(Bytes)) /\ Len(asked') <= MaxMsgs
  <2>1. /\ Len(asked) < MaxMsgs /\ stream' = stream \o msg /\ asked' = Append(asked, msg)
        /\ memory' = memory
    BY <1>1 DEF PeerSend, PeerWrite
  <2>2. stream' \in Seq(Bytes)
    BY <1>0, <2>1, ConcatBytes
  <2>3. asked' \in Seq(Seq(Bytes)) /\ Len(asked) \in Nat /\ Len(asked') = Len(asked) + 1
    BY SMT, <1>0, <2>1
  <2>4. Len(asked') <= MaxMsgs
    BY SMT, <2>1, <2>3, BoundsAssumption
  <2> QED
    BY <2>1, <2>2, <2>3, <2>4
<1>2. CASE \E len \in PacketLens : PeerPacket(len)
  <2>1. PICK len \in PacketLens : PeerPacket(len)
    BY <1>2
  <2>2. PICK packet : packet = Payload(Len(packets) + 1, len)
    OBVIOUS
  <2>3. Len(packets) + 1 \in Nat /\ len \in Nat
    BY SMT, <1>0, InputsAssumption
  <2>4. packet \in Seq(Bytes)
    BY <2>2, <2>3, PayloadType
  <2>5. deliver_packet(packet) \in Seq(Bytes)
    BY <2>4, DeliverShape
  <2>6. /\ PeerSend(deliver_packet(packet)) /\ packets' = Append(packets, packet)
        /\ deadlines' = deadlines
    BY <2>1, <2>2 DEF PeerPacket
  <2>7. packets' \in Seq(Seq(Bytes))
    BY SMT, <1>0, <2>4, <2>6
  <2> QED
    BY <1>0, <1>1, <2>5, <2>6, <2>7
<1>3. CASE \E t \in Times : PeerDeadline(t)
  <2>1. PICK t \in Times : PeerDeadline(t)
    BY <1>3
  <2>2. t \in Nat
    BY InputsAssumption
  <2>3. goto_deadline(t) \in Seq(Bytes)
    BY <2>2, GotoShape
  <2>4. PeerSend(goto_deadline(t)) /\ deadlines' = Append(deadlines, t) /\ packets' = packets
    BY <2>1 DEF PeerDeadline
  <2>5. deadlines' \in Seq(Nat)
    BY SMT, <1>0, <2>2, <2>4
  <2> QED
    BY <1>0, <1>1, <2>3, <2>4, <2>5
<1>4. CASE PeerSend(end_simulation) /\ UNCHANGED <<packets, deadlines>>
  BY <1>0, <1>1, <1>4, EndShape
<1>5. CASE \E m \in OtherMsgs : PeerSend(Message(m[1], m[2], <<>>)) /\ UNCHANGED <<packets, deadlines>>
  <2>1. PICK m \in OtherMsgs : PeerSend(Message(m[1], m[2], <<>>)) /\ UNCHANGED <<packets, deadlines>>
    BY <1>5
  <2>2. Message(m[1], m[2], <<>>) \in Seq(Bytes)
    BY OtherShape
  <2> QED
    BY <1>0, <1>1, <2>1, <2>2
<1> QED
  BY <1>2, <1>3, <1>4, <1>5 DEF PeerMessage

LEMMA GotIndex ==
  ASSUME TypeOK, RxInv, RecvHolds
  PROVE  /\ got[Receiver] \in 1..NumBuffers
         /\ rx.size \in 1..BufferSize
<1>1. got[Receiver] # 0 /\ rx.size > 0
  BY DEF RxInv
<1>2. got[Receiver] \in 0..NumBuffers
  BY RecvTypes DEF Pool!TypeOK
<1> QED
  BY SMT, <1>1, <1>2, RxNats, Sizes

LEMMA HeadPacket ==
  ASSUME TypeOK, input_queue # <<>>
  PROVE  /\ Head(input_queue) = input_queue[1] /\ 1 \in 1..Len(input_queue)
         /\ input_queue[1].buffer \in 1..NumBuffers /\ input_queue[1].size \in 1..BufferSize
         /\ Tail(input_queue) \in Seq([buffer : 1..NumBuffers, size : 1..BufferSize])
         /\ Len(input_queue) \in Nat /\ Len(Tail(input_queue)) = Len(input_queue) - 1
         /\ \A k \in 1..Len(input_queue) - 1 : Tail(input_queue)[k] = input_queue[k + 1]
<1>1. input_queue \in Seq([buffer : 1..NumBuffers, size : 1..BufferSize])
  BY SeqTypes
<1>2. /\ Head(input_queue) = input_queue[1] /\ 1 \in 1..Len(input_queue)
      /\ Tail(input_queue) \in Seq([buffer : 1..NumBuffers, size : 1..BufferSize])
      /\ Len(input_queue) \in Nat /\ Len(Tail(input_queue)) = Len(input_queue) - 1
      /\ \A k \in 1..Len(input_queue) - 1 : Tail(input_queue)[k] = input_queue[k + 1]
  BY SMT, <1>1
<1>3. input_queue[1] \in [buffer : 1..NumBuffers, size : 1..BufferSize]
  BY <1>1, <1>2, SeqElem
<1>4. input_queue[1].buffer \in 1..NumBuffers /\ input_queue[1].size \in 1..BufferSize
  BY SMT, <1>3
<1> QED
  BY <1>2, <1>4

LEMMA RecvTyped ==
  ASSUME TypeOK, RxInv, recv
  PROVE  /\ stream' \in Seq(Bytes)
         /\ memory' \in [1..NumBuffers * BufferSize -> Bytes]
         /\ Pool!TypeOK'
<1>0. /\ stream \in Seq(Bytes) /\ memory \in [1..NumBuffers * BufferSize -> Bytes] /\ Pool!TypeOK
  BY SeqTypes, RecvTypes
<1>1. CASE read_prefixed_size
  <2>1. stream # <<>> /\ stream' = Tail(stream) /\ memory' = memory
    BY <1>1 DEF read_prefixed_size
  <2>2. \E fits \in BOOLEAN : Pool!allocate_buffer(Receiver, fits)
    <3>1. PICK fits : fits = (Head(stream)[2] <= BufferSize)
      OBVIOUS
    <3>2. fits \in BOOLEAN
      BY SMT, <3>1
    <3>3. Pool!allocate_buffer(Receiver, fits)
      BY <1>1, <3>1 DEF read_prefixed_size
    <3> QED
      BY <3>2, <3>3
  <2>3. Pool!TypeOK'
    BY <1>0, <2>2, PoolTyped
  <2> QED
    BY <1>0, <2>1, <2>3, TailBytes
<1>2. CASE Allocated
  <2>1. memory' = reset(got'[Receiver], rx.size) /\ stream' = stream /\ Pool!SwapFree(Receiver)
    BY <1>2 DEF Allocated
  <2>2. memory' \in [1..NumBuffers * BufferSize -> Bytes]
    BY <1>0, <2>1, ResetType
  <2> QED
    BY <1>0, <2>1, <2>2, PoolTyped
<1>3. CASE AllocateScan
  BY <1>0, <1>3, PoolTyped DEF AllocateScan
<1>4. CASE read_exact
  <2>1. PICK a : /\ memory' = [memory EXCEPT ![a] = Head(stream)]
                 /\ stream # <<>> /\ stream' = Tail(stream) /\ UNCHANGED poolVars
    BY <1>4 DEF read_exact
  <2>2. Head(stream) \in Bytes
    BY SMT, <1>0, <2>1
  <2>3. memory' \in [1..NumBuffers * BufferSize -> Bytes]
    BY <1>0, <2>1, <2>2
  <2> QED
    BY <1>0, <2>1, <2>3, TailBytes, PoolTyped
<1>5. CASE UnexpectedEof \/ Decode
  <2>1. memory' = memory /\ stream' = stream
    BY <1>5 DEF UnexpectedEof, Decode
  <2>2. UNCHANGED poolVars \/ (RecvHolds /\ Pool!free_buffer(got[Receiver]))
    BY <1>5 DEF UnexpectedEof, Decode, RecvHolds
  <2> QED
    BY <1>0, <2>1, <2>2, GotIndex, PoolTyped
<1> QED
  BY <1>1, <1>2, <1>3, <1>4, <1>5 DEF recv

LEMMA CutBytes ==
  ASSUME NEW msg \in Seq(Bytes), NEW n \in 0..Len(msg)
  PROVE  SubSeq(msg, 1, n) \in Seq(Bytes)
  BY SMT

LEMMA PeerEndTyped ==
  ASSUME TypeOK, PeerEnd
  PROVE  stream' \in Seq(Bytes) /\ memory' = memory
<1>0. stream \in Seq(Bytes)
  BY SeqTypes
<1>1. CASE PeerShutdown
  BY <1>0, <1>1 DEF PeerShutdown
<1>2. CASE \E n \in 0..BufferSize : PeerDies(deliver_packet(Payload(0, BufferSize - 1)), n)
  <2>0. PICK msg : msg = deliver_packet(Payload(0, BufferSize - 1))
    OBVIOUS
  <2>1. PICK n \in 0..BufferSize : PeerDies(msg, n)
    BY <1>2, <2>0
  <2>2. BufferSize - 1 \in Nat /\ 0 \in Nat
    BY SMT, Sizes
  <2>3. PICK pl : pl = Payload(0, BufferSize - 1)
    OBVIOUS
  <2>4. pl \in Seq(Bytes) /\ Len(pl) = BufferSize - 1
    BY <2>2, <2>3, PayloadType
  <2>5. msg \in Seq(Bytes) /\ Len(msg) = 2 + Len(pl)
    BY SMT, <2>0, <2>3, <2>4, DeliverShape
  <2>6. n \in 0..Len(msg)
    BY SMT, <2>4, <2>5, Sizes
  <2>7. SubSeq(msg, 1, n) \in Seq(Bytes)
    BY <2>5, <2>6, CutBytes
  <2>8. stream' = stream \o SubSeq(msg, 1, n) /\ memory' = memory
    BY <2>1 DEF PeerDies
  <2> QED
    BY <1>0, <2>7, <2>8, ConcatBytes
<1> QED
  BY <1>1, <1>2 DEF PeerEnd

(* Buffers given back outside of recv.                                     *)
LEMMA OthersPool ==
  ASSUME TypeOK, RxInv, PacketInv, Next, ~recv
  PROVE  UNCHANGED poolVars \/ \E b \in 1..NumBuffers : Pool!free_buffer(b)
<1>1. CASE \E len \in Lens : vsg_recv(len)
  <2>1. UNCHANGED poolVars \/ (input_queue # <<>> /\ Pool!free_buffer(Head(input_queue).buffer))
    BY <1>1 DEF vsg_recv
  <2> QED
    BY <2>1, HeadPacket
<1>2. CASE RecvReturn
  <2>1. app.pc = "copy" /\ Pool!free_buffer(app.buffer)
    BY <1>2 DEF RecvReturn
  <2>2. app.buffer # 0 /\ app.buffer \in 0..NumBuffers
    BY <2>1, AppTyped DEF PacketInv, CopyInv
  <2>3. app.buffer \in 1..NumBuffers
    BY SMT, <2>2, Sizes
  <2> QED
    BY <2>1, <2>3
<1>3. CASE StartReturn
  <2>1. UNCHANGED poolVars \/ (RecvHolds /\ Pool!free_buffer(got[Receiver]))
    BY <1>3 DEF StartReturn, RecvHolds
  <2> QED
    BY <2>1, GotIndex
<1>4. CASE handle_actor_msg
  <2>1. UNCHANGED poolVars \/ (RecvHolds /\ Pool!free_buffer(got[Receiver]))
    BY <1>4 DEF handle_actor_msg, RecvHolds
  <2> QED
    BY <2>1, GotIndex
<1>5. CASE PeerMessage
  BY <1>5 DEF PeerMessage, PeerPacket, PeerDeadline, PeerSend, PeerWrite
<1>6. CASE PeerEnd
  BY <1>6 DEF PeerEnd, PeerDies, PeerShutdown
<1>7. CASE \E len \in Lens : vsg_send(len)
  BY <1>7 DEF vsg_send, connectorVars
<1>8. CASE \E argv \in Argvs, connected \in BOOLEAN : vsg_init(argv, connected)
  BY <1>8 DEF vsg_init, connectorVars
<1>9. CASE \/ vsg_cleanup \/ vsg_start \/ vsg_stop \/ StopReturn \/ RecvCopy \/ vsg_poll
           \/ deadline_handler \/ HandlerReturn
  BY <1>9 DEF vsg_cleanup, vsg_start, vsg_stop, StopReturn, RecvCopy, vsg_poll, deadline_handler,
     HandlerReturn, connectorVars
<1> QED
  BY <1>1, <1>2, <1>3, <1>4, <1>5, <1>6, <1>7, <1>8, <1>9 DEF Next, Handler, ReceiveStep

(* The steps that touch neither a buffer nor what vsg_recv has copied.     *)
Quiet ==
  /\ UNCHANGED <<memory, poolVars, input_queue, taken>>
  /\ app' = app \/ (app.pc # "copy" /\ app' \in AppTypes /\ app'.pc # "copy")
  /\ RecvHolds' <=> RecvHolds

LEMMA IdleApp ==
  /\ Idle \in AppTypes /\ Idle.pc = "idle"
  /\ [Idle EXCEPT !.pc = "start"] \in AppTypes /\ [Idle EXCEPT !.pc = "start"].pc = "start"
  /\ [Idle EXCEPT !.pc = "stop"] \in AppTypes /\ [Idle EXCEPT !.pc = "stop"].pc = "stop"
<1>0. PICK empty : empty = <<>>
  OBVIOUS
<1>1. empty \in Seq(Bytes)
  BY SMT, <1>0
<1>2. 0 \in 0..NumBuffers /\ 0 \in 0..BufferSize
  BY SMT, Sizes
<1>3. ASSUME NEW pc \in {"idle", "start", "copy", "stop"}
      PROVE  [pc |-> pc, buffer |-> 0, size |-> 0, copy |-> empty] \in AppTypes
  BY <1>1, <1>2, <1>3 DEF AppTypes
<1>4. /\ Idle = [pc |-> "idle", buffer |-> 0, size |-> 0, copy |-> empty]
      /\ [Idle EXCEPT !.pc = "start"] = [pc |-> "start", buffer |-> 0, size |-> 0, copy |-> empty]
      /\ [Idle EXCEPT !.pc = "stop"] = [pc |-> "stop", buffer |-> 0, size |-> 0, copy |-> empty]
  BY SMT, <1>0 DEF Idle
<1> QED
  BY SMT, <1>3, <1>4

LEMMA NothingHeld ==
  /\ Receiving.pc = "size" /\ NotReceiving.pc = "idle"
  /\ rx.pc \in {"idle", "size"} => ~RecvHolds
  /\ (rx.pc \in {"idle", "size"} => ~RecvHolds)'
  BY SMT DEF Receiving, NotReceiving, RecvHolds

LEMMA QuietSteps ==
  ASSUME ContextInv, Next
  PROVE  \/ ReceiveStep \/ StartReturn \/ handle_actor_msg
         \/ (\E len \in Lens : vsg_recv(len)) \/ RecvCopy \/ RecvReturn
         \/ Quiet
<1>0. ASSUME rx' = rx, UNCHANGED poolVars PROVE RecvHolds' <=> RecvHolds
  BY <1>0 DEF RecvHolds
<1>1. CASE \E argv \in Argvs, connected \in BOOLEAN : vsg_init(argv, connected)
  BY <1>0, <1>1 DEF Quiet, vsg_init, connectorVars, recvVars
<1>2. CASE vsg_cleanup
  BY <1>0, <1>2 DEF Quiet, vsg_cleanup, connectorVars, recvVars
<1>3. CASE vsg_start
  <2>1. state = "new" /\ app.pc = "idle" /\ rx' = Receiving /\ app' = [Idle EXCEPT !.pc = "start"]
        /\ UNCHANGED <<memory, poolVars, input_queue, taken>>
    BY <1>3 DEF vsg_start
  <2>2. rx.pc = "idle"
    BY <2>1 DEF ContextInv
  <2> QED
    BY SMT, <2>1, <2>2, NothingHeld, IdleApp DEF Quiet
<1>4. CASE vsg_stop
  <2>1. rx' = rx /\ app.pc = "idle" /\ app' = [Idle EXCEPT !.pc = "stop"]
        /\ UNCHANGED <<memory, poolVars, input_queue, taken>>
    BY <1>4 DEF vsg_stop, connectorVars
  <2> QED
    BY SMT, <1>0, <2>1, IdleApp DEF Quiet
<1>5. CASE StopReturn
  <2>1. rx' = rx /\ app.pc = "stop" /\ app' = Idle
        /\ UNCHANGED <<memory, poolVars, input_queue, taken>>
    BY <1>5 DEF StopReturn, connectorVars
  <2> QED
    BY SMT, <1>0, <2>1, IdleApp DEF Quiet
<1>6. CASE \E len \in Lens : vsg_send(len)
  BY <1>0, <1>6 DEF Quiet, vsg_send, connectorVars, recvVars
<1>7. CASE vsg_poll
  BY <1>0, <1>7 DEF Quiet, vsg_poll, connectorVars
<1>8. CASE deadline_handler
  <2>1. state = "running" /\ (rx' = rx \/ rx' = Receiving)
        /\ UNCHANGED <<memory, poolVars, input_queue, taken, app>>
    BY <1>8 DEF deadline_handler, recvVars
  <2>2. rx.pc = "idle"
    BY <2>1 DEF ContextInv
  <2> QED
    BY SMT, <1>0, <2>1, <2>2, NothingHeld DEF Quiet
<1>9. CASE HandlerReturn
  <2>1. rx.pc = "done" /\ rx.out # "DeliverPacket" /\ rx' = NotReceiving
        /\ UNCHANGED <<memory, poolVars, input_queue, taken, app>>
    BY <1>9 DEF HandlerReturn, recvVars
  <2>2. ~RecvHolds
    BY <2>1 DEF RecvHolds
  <2> QED
    BY SMT, <2>1, <2>2, NothingHeld DEF Quiet
<1>10. CASE PeerMessage
  <2>1. PICK msg : PeerSend(msg)
    BY <1>10 DEF PeerMessage, PeerPacket, PeerDeadline
  <2> QED
    BY <1>0, <2>1 DEF Quiet, PeerSend, PeerWrite, recvVars
<1>11. CASE PeerEnd
  BY <1>0, <1>11 DEF Quiet, PeerEnd, PeerDies, PeerShutdown, recvVars
<1> QED
  BY <1>1, <1>2, <1>3, <1>4, <1>5, <1>6, <1>7, <1>8, <1>9, <1>10, <1>11 DEF Next, Handler

(* The histories that only grow.                                           *)
LEMMA CalledSteps ==
  ASSUME Next
  PROVE  \/ called' = called
         \/ (StartReturn \/ HandlerReturn) /\ rx.pc = "done" /\ rx.out = "GoToDeadline"
            /\ called' = Append(called, duration_to_timespec(rx.time))
<1>1. CASE StartReturn
  BY <1>1 DEF StartReturn
<1>2. CASE HandlerReturn
  BY <1>2 DEF HandlerReturn
<1>3. CASE PeerMessage
  BY <1>3 DEF PeerMessage, PeerPacket, PeerDeadline, PeerSend
<1>4. CASE ReceiveStep \/ handle_actor_msg \/ PeerEnd
  BY <1>4 DEF ReceiveStep, handle_actor_msg, PeerEnd
<1>5. CASE \E argv \in Argvs, connected \in BOOLEAN : vsg_init(argv, connected)
  BY <1>5 DEF vsg_init
<1>6. CASE \E len \in Lens : vsg_send(len) \/ vsg_recv(len)
  BY <1>6 DEF vsg_send, vsg_recv
<1>7. CASE \/ vsg_cleanup \/ vsg_start \/ vsg_stop \/ StopReturn \/ RecvCopy \/ RecvReturn
           \/ vsg_poll \/ deadline_handler
  BY <1>7 DEF vsg_cleanup, vsg_start, vsg_stop, StopReturn, RecvCopy, RecvReturn, vsg_poll,
     deadline_handler
<1> QED
  BY <1>1, <1>2, <1>3, <1>4, <1>5, <1>6, <1>7 DEF Next, Handler

LEMMA PeerSteps ==
  ASSUME Next, ~PeerMessage
  PROVE  UNCHANGED peerVars /\ (PeerEnd \/ recv \/ stream' = stream)
<1>1. CASE Handler
  BY <1>1 DEF Handler, StartReturn, HandlerReturn, ReceiveStep, handle_actor_msg
<1>2. CASE PeerEnd
  BY <1>2 DEF PeerEnd
<1>3. CASE \E argv \in Argvs, connected \in BOOLEAN : vsg_init(argv, connected)
  BY <1>3 DEF vsg_init, connectorVars
<1>4. CASE \E len \in Lens : vsg_send(len) \/ vsg_recv(len)
  BY <1>4 DEF vsg_send, vsg_recv, connectorVars
<1>5. CASE \/ vsg_cleanup \/ vsg_start \/ vsg_stop \/ StopReturn \/ RecvCopy \/ RecvReturn
           \/ vsg_poll \/ deadline_handler
  BY <1>5 DEF vsg_cleanup, vsg_start, vsg_stop, StopReturn, RecvCopy, RecvReturn, vsg_poll,
     deadline_handler, connectorVars
<1> QED
  BY <1>1, <1>2, <1>3, <1>4, <1>5 DEF Next

LEMMA QueueTyped ==
  ASSUME TypeOK, ContextInv, RxInv, Next
  PROVE  input_queue' \in Seq([buffer : 1..NumBuffers, size : 1..BufferSize])
<1>0. input_queue \in Seq([buffer : 1..NumBuffers, size : 1..BufferSize])
  BY SeqTypes
<1>1. CASE \E len \in Lens : vsg_recv(len)
  <2>1. input_queue' = input_queue \/ (input_queue # <<>> /\ input_queue' = Tail(input_queue))
    BY <1>1 DEF vsg_recv
  <2> QED
    BY <1>0, <2>1, HeadPacket
<1>2. CASE handle_actor_msg
  <2>1. RecvHolds /\ \/ input_queue' = input_queue
                     \/ input_queue' = Append(input_queue, [buffer |-> got[Receiver], size |-> rx.size])
    BY <1>2 DEF handle_actor_msg, RecvHolds
  <2>2. got[Receiver] \in 1..NumBuffers /\ rx.size \in 1..BufferSize
    BY <2>1, GotIndex
  <2>3. PICK packet : packet = [buffer |-> got[Receiver], size |-> rx.size]
    OBVIOUS
  <2>4. packet \in [buffer : 1..NumBuffers, size : 1..BufferSize]
    BY SMT, <2>2, <2>3
  <2>5. Append(input_queue, packet) \in Seq([buffer : 1..NumBuffers, size : 1..BufferSize])
    BY <1>0, <2>4, AppendSeq
  <2> QED
    BY <1>0, <2>1, <2>3, <2>5
<1>3. CASE ReceiveStep \/ StartReturn \/ RecvCopy \/ RecvReturn \/ Quiet
  BY <1>0, <1>3 DEF ReceiveStep, recvVars, StartReturn, RecvCopy, RecvReturn, Quiet
<1> QED
  BY <1>1, <1>2, <1>3, QuietSteps

(* copy_from_slice reads bytes of its buffer.                              *)
LEMMA CopiedByte ==
  ASSUME TypeOK, PacketInv, RecvCopy
  PROVE  /\ Len(app.copy) + 1 \in 1..BufferSize - 1 /\ Len(app.copy) \in Nat
         /\ app'.copy = Append(app.copy, memory[Byte(app.buffer, app.size, 1 + (Len(app.copy) + 1))])
         /\ memory[Byte(app.buffer, app.size, 1 + (Len(app.copy) + 1))] \in Bytes
         /\ app.buffer \in 1..NumBuffers
         /\ app' = [app EXCEPT !.copy = app'.copy]
<1>0. app.pc = "copy" /\ Len(app.copy) < app.size - 1
  BY DEF RecvCopy
<1>1. app.buffer # 0
  BY <1>0 DEF PacketInv, CopyInv
<1>2. PICK n : n = Len(app.copy) + 1
  OBVIOUS
<1>3. PICK size : size = app.size
  OBVIOUS
<1>4. size \in 0..BufferSize /\ app.buffer \in 1..NumBuffers /\ Len(app.copy) \in Nat
  BY SMT, <1>1, <1>3, AppTyped, Sizes
<1>5. n \in 1..size - 1 /\ n \in 1..BufferSize - 1 /\ 1 + n \in 1..BufferSize
  BY SMT, <1>0, <1>2, <1>3, <1>4, Sizes
<1>6. memory[Byte(app.buffer, size, 1 + n)] \in Bytes
  <2>1. Byte(app.buffer, size, 1 + n) \in 1..NumBuffers * BufferSize
    BY <1>4, <1>5, ByteInMemory
  <2> QED
    BY <2>1, RecvTypes
<1>7. payload(app.buffer, size)[n] = memory[Byte(app.buffer, size, 1 + n)]
  BY <1>5 DEF payload
<1>8. app' = [app EXCEPT !.copy = Append(app.copy, payload(app.buffer, size)[n])]
  BY <1>2, <1>3 DEF RecvCopy
<1>9. PICK copy : copy = Append(app.copy, payload(app.buffer, size)[n])
  OBVIOUS
<1>10. app'.copy = copy /\ app' = [app EXCEPT !.copy = copy]
  BY SMT, <1>8, <1>9, AppTyped DEF AppTypes
<1> QED
  BY <1>2, <1>3, <1>4, <1>5, <1>6, <1>7, <1>9, <1>10

LEMMA AppStep ==
  ASSUME TypeOK, ContextInv, PacketInv, Next
  PROVE  app' \in AppTypes
<1>0. app \in AppTypes
  BY AppTyped
<1>1. CASE \E len \in Lens : vsg_recv(len)
  <2>1. \/ app' = app
        \/ input_queue # <<>> /\ app' = [pc |-> "copy", buffer |-> Head(input_queue).buffer,
                                         size |-> Head(input_queue).size, copy |-> <<>>]
    BY <1>1 DEF vsg_recv
  <2>2. CASE input_queue # <<>>
    <3>1. PICK b, size : b = Head(input_queue).buffer /\ size = Head(input_queue).size
      OBVIOUS
    <3>2. b \in 1..NumBuffers /\ size \in 1..BufferSize
      BY <2>2, <3>1, HeadPacket
    <3>3. b \in 0..NumBuffers /\ size \in 0..BufferSize
      BY SMT, <3>2, Sizes
    <3>4. PICK empty : empty = <<>>
      OBVIOUS
    <3>5. empty \in Seq(Bytes)
      BY SMT, <3>4
    <3>6. [pc |-> "copy", buffer |-> b, size |-> size, copy |-> empty] \in AppTypes
      BY <3>3, <3>5 DEF AppTypes
    <3> QED
      BY <1>0, <2>1, <3>1, <3>4, <3>6
  <2> QED
    BY <1>0, <2>1, <2>2
<1>2. CASE RecvCopy
  <2>1. PICK copy : copy = app'.copy
    OBVIOUS
  <2>2. app' = [app EXCEPT !.copy = copy]
    BY <1>2, <2>1, CopiedByte
  <2>3. copy \in Seq(Bytes)
    <3>1. PICK b \in Bytes : app'.copy = Append(app.copy, b)
      BY <1>2, CopiedByte
    <3> QED
      BY SMT, <2>1, <3>1, AppTyped
  <2> QED
    BY SMT, <1>0, <2>2, <2>3 DEF AppTypes
<1>3. CASE RecvReturn \/ StartReturn
  BY <1>3, IdleApp DEF RecvReturn, StartReturn
<1>4. CASE ReceiveStep \/ handle_actor_msg \/ Quiet
  BY <1>0, <1>4 DEF ReceiveStep, recvVars, handle_actor_msg, Quiet
<1> QED
  BY <1>1, <1>2, <1>3, <1>4, QuietSteps

LEMMA TakenCalledTyped ==
  ASSUME TypeOK, ContextInv, Next
  PROVE  taken' \in Seq(Seq(Bytes) \cup {Lost}) /\ called' \in Seq(Timespecs)
<1>0. taken \in Seq(Seq(Bytes) \cup {Lost}) /\ called \in Seq(Timespecs)
  BY SeqTypes
<1>1. taken' \in Seq(Seq(Bytes) \cup {Lost})
  <2>1. \/ taken' = taken
        \/ \E x \in Seq(Bytes) \cup {Lost} : taken' = Append(taken, x)
    <3>1. CASE \E len \in Lens : vsg_recv(len)
      <4>1. taken' = taken \/ taken' = Append(taken, Lost)
        BY <3>1 DEF vsg_recv
      <4> QED
        BY <4>1
    <3>2. CASE RecvReturn
      <4>1. taken' = Append(taken, app.copy) /\ app.copy \in Seq(Bytes)
        BY <3>2, AppTyped DEF RecvReturn
      <4> QED
        BY <4>1
    <3>3. CASE ReceiveStep \/ StartReturn \/ RecvCopy \/ handle_actor_msg \/ Quiet
      BY <3>3 DEF ReceiveStep, recvVars, StartReturn, RecvCopy, handle_actor_msg, Quiet
    <3> QED
      BY <3>1, <3>2, <3>3, QuietSteps
  <2>2. PICK S : S = Seq(Bytes) \cup {Lost}
    OBVIOUS
  <2> QED
    BY SMTT(30), <1>0, <2>1, <2>2
<1>2. called' \in Seq(Timespecs)
  <2>1. rx.time \in Nat
    BY SMT, RecvTypes DEF RxTypes
  <2>2. duration_to_timespec(rx.time) \in Timespecs
    BY SMT, <2>1, TimespecExact DEF duration_to_timespec, Timespecs
  <2>3. called' = called \/ called' = Append(called, duration_to_timespec(rx.time))
    BY CalledSteps
  <2> QED
    BY SMT, <1>0, <2>2, <2>3
<1> QED
  BY <1>1, <1>2

LEMMA TypeStep ==
  ASSUME TypeOK, ContextInv, RxInv, PacketInv, StreamInv, Next
  PROVE  TypeOK'
<1>1. refs' \in 0..2
  BY SMT, ContextSteps DEF ContextInv
<1>2. stream' \in Seq(Bytes)
  BY PeerTyped, PeerEndTyped, RecvTyped, PeerSteps, SeqTypes
<1>3. memory' \in [1..NumBuffers * BufferSize -> Bytes]
  <2>1. CASE recv
    BY <2>1, RecvTyped
  <2>2. CASE ~recv
    <3>1. memory' = memory
      BY <2>2, QuietSteps DEF ReceiveStep, StartReturn, handle_actor_msg, vsg_recv, RecvCopy,
         RecvReturn, Quiet, connectorVars
    <3> QED
      BY <3>1, RecvTypes
  <2> QED
    BY <2>1, <2>2
<1>4. Pool!TypeOK'
  BY RecvTyped, OthersPool, PoolTyped, RecvTypes
<1>5. rx' \in RxTypes /\ rx'.read <= rx'.size
  <2>1. CASE recv
    BY <2>1, RxTyped
  <2>2. CASE ~recv
    <3>1. rx' = rx \/ rx' = Receiving \/ rx' = NotReceiving
      BY <2>2, RxOthers
    <3>2. Receiving \in RxTypes /\ NotReceiving \in RxTypes
          /\ Receiving.read <= Receiving.size /\ NotReceiving.read <= NotReceiving.size
      BY SMT, Sizes DEF Receiving, NotReceiving, RxTypes
    <3> QED
      BY <3>1, <3>2, RecvTypes
  <2> QED
    BY <2>1, <2>2
<1>6. /\ asked' \in Seq(Seq(Bytes)) /\ Len(asked') <= MaxMsgs
      /\ packets' \in Seq(Seq(Bytes)) /\ deadlines' \in Seq(Nat)
  BY PeerTyped, PeerSteps, SeqTypes DEF peerVars
<1> QED
  BY <1>1, <1>2, <1>3, <1>4, <1>5, <1>6, TypeControl, QueueTyped, AppStep, TakenCalledTyped
     DEF TypeOK

(* A buffer changes hands.                                                 *)
LEMMA QueuePops ==
  ASSUME TypeOK, QueuedOnce, input_queue # <<>>, input_queue' = Tail(input_queue)
  PROVE  /\ QueuedOnce'
         /\ \A b : QueueHas(b)' <=> QueueHas(b) /\ b # Head(input_queue).buffer
         /\ QueueHas(Head(input_queue).buffer)
<1>1. PICK n : n = Len(input_queue)
  OBVIOUS
<1>2. /\ n \in Nat /\ n > 0 /\ DOMAIN input_queue = 1..n /\ DOMAIN input_queue' = 1..n - 1
      /\ Head(input_queue) = input_queue[1]
      /\ \A k \in 1..n - 1 : input_queue'[k] = input_queue[k + 1]
  BY SMT, <1>1, SeqTypes
<1>3. QueuedOnce'
  <2>1. SUFFICES ASSUME NEW j \in 1..n - 1, NEW k \in 1..n - 1,
                        input_queue'[j].buffer = input_queue'[k].buffer
                 PROVE  j = k
    BY <1>2 DEF QueuedOnce
  <2>2. j + 1 \in 1..n /\ k + 1 \in 1..n
    BY SMT, <1>2
  <2>3. input_queue[j + 1].buffer = input_queue[k + 1].buffer
    BY <1>2, <2>1
  <2>4. j + 1 = k + 1
    BY <1>2, <2>2, <2>3 DEF QueuedOnce
  <2> QED
    BY SMT, <2>4
<1>4. ASSUME NEW b, QueueHas(b)'
      PROVE  QueueHas(b) /\ b # Head(input_queue).buffer
  <2>1. PICK k \in 1..n - 1 : input_queue'[k].buffer = b
    BY <1>2, <1>4 DEF QueueHas
  <2>2. k + 1 \in 1..n /\ 1 \in 1..n /\ k + 1 # 1
    BY SMT, <1>2
  <2>3. input_queue[k + 1].buffer = b
    BY <1>2, <2>1
  <2> QED
    BY <1>2, <2>2, <2>3 DEF QueueHas, QueuedOnce
<1>5. ASSUME NEW b, QueueHas(b), b # Head(input_queue).buffer
      PROVE  QueueHas(b)'
  <2>1. PICK k \in 1..n : input_queue[k].buffer = b
    BY <1>2, <1>5 DEF QueueHas
  <2>2. k # 1
    BY <1>2, <1>5, <2>1
  <2>3. k - 1 \in 1..n - 1 /\ (k - 1) + 1 = k
    BY SMT, <1>2, <2>2
  <2>4. input_queue'[k - 1].buffer = b
    BY <1>2, <2>1, <2>3
  <2> QED
    BY <1>2, <2>3, <2>4 DEF QueueHas
<1>6. QueueHas(Head(input_queue).buffer)
  <2>1. 1 \in 1..n
    BY SMT, <1>2
  <2> QED
    BY <1>2, <2>1 DEF QueueHas
<1> QED
  BY <1>3, <1>4, <1>5, <1>6

LEMMA QueuePushes ==
  ASSUME TypeOK, QueuedOnce, NEW packet, input_queue' = Append(input_queue, packet),
         ~QueueHas(packet.buffer)
  PROVE  /\ QueuedOnce'
         /\ \A b : QueueHas(b)' <=> QueueHas(b) \/ b = packet.buffer
<1>1. PICK n : n = Len(input_queue)
  OBVIOUS
<1>2. /\ n \in Nat /\ DOMAIN input_queue = 1..n /\ DOMAIN input_queue' = 1..n + 1
      /\ input_queue'[n + 1] = packet
      /\ \A k \in 1..n : input_queue'[k] = input_queue[k]
  BY SMT, <1>1, SeqTypes
<1>3. /\ \A k \in 1..n + 1 : k \in 1..n \/ k = n + 1
      /\ \A k \in 1..n : k \in 1..n + 1
      /\ n + 1 \in 1..n + 1
  BY SMT, <1>2
<1>4. QueuedOnce'
  <2>1. SUFFICES ASSUME NEW j \in 1..n + 1, NEW k \in 1..n + 1,
                        input_queue'[j].buffer = input_queue'[k].buffer
                 PROVE  j = k
    BY <1>2 DEF QueuedOnce
  <2>2. CASE j \in 1..n /\ k \in 1..n
    BY <1>2, <2>1, <2>2 DEF QueuedOnce
  <2>3. CASE j \in 1..n /\ k = n + 1
    BY <1>2, <2>1, <2>3 DEF QueueHas
  <2>4. CASE j = n + 1 /\ k \in 1..n
    BY <1>2, <2>1, <2>4 DEF QueueHas
  <2> QED
    BY <1>3, <2>2, <2>3, <2>4
<1>5. ASSUME NEW b, QueueHas(b)'
      PROVE  QueueHas(b) \/ b = packet.buffer
  <2>1. PICK k \in 1..n + 1 : input_queue'[k].buffer = b
    BY <1>2, <1>5 DEF QueueHas
  <2> QED
    BY <1>2, <1>3, <2>1 DEF QueueHas
<1>6. ASSUME NEW b, QueueHas(b) PROVE QueueHas(b)'
  <2>1. PICK k \in 1..n : input_queue[k].buffer = b
    BY <1>2, <1>6 DEF QueueHas
  <2> QED
    BY <1>2, <1>3, <2>1 DEF QueueHas
<1>7. QueueHas(packet.buffer)'
  <2>1. PICK k \in 1..n + 1 : input_queue'[k].buffer = packet.buffer
    BY <1>2, <1>3
  <2>2. PICK b : b = packet.buffer
    OBVIOUS
  <2>3. QueueHas(b)'
    BY <1>2, <2>1, <2>2 DEF QueueHas
  <2> QED
    BY <2>2, <2>3
<1> QED
  BY <1>4, <1>5, <1>6, <1>7

BusyTyped == buffer_busy \in [1..NumBuffers -> BOOLEAN]

LEMMA Busy == ASSUME TypeOK PROVE BusyTyped
  BY RecvTypes DEF Pool!TypeOK, Pool!Index, BusyTyped

LEMMA Freed ==
  ASSUME BusyTyped, NEW i, Pool!free_buffer(i)
  PROVE  /\ \A b \in 1..NumBuffers : buffer_busy'[b] <=> buffer_busy[b] /\ b # i
         /\ got' = got
<1>1. buffer_busy' = [buffer_busy EXCEPT ![i] = FALSE] /\ got' = got
  BY DEF Pool!free_buffer
<1> QED
  BY <1>1 DEF BusyTyped

(* What recv and Context::start do to the buffers: nothing, or give back   *)
(* the one they have, or get one that nobody has.                          *)
Keeps ==
  /\ \A b \in 1..NumBuffers : buffer_busy'[b] <=> buffer_busy[b]
  /\ \A b \in 1..NumBuffers : RecvHas(b)' <=> RecvHas(b)

Gives ==
  /\ RecvHolds /\ ~RecvHolds'
  /\ \A b \in 1..NumBuffers : buffer_busy'[b] <=> buffer_busy[b] /\ b # got[Receiver]

Takes(i) ==
  /\ ~RecvHolds /\ ~buffer_busy[i]
  /\ \A b \in 1..NumBuffers : buffer_busy'[b] <=> buffer_busy[b] \/ b = i
  /\ \A b \in 1..NumBuffers : RecvHas(b)' <=> b = i

LEMMA KeepsFrame ==
  ASSUME UNCHANGED poolVars, RecvHolds' <=> RecvHolds
  PROVE  Keeps
  BY DEF Keeps, RecvHas, poolVars

LEMMA KeepsNothing ==
  ASSUME buffer_busy' = buffer_busy, ~RecvHolds, ~RecvHolds'
  PROVE  Keeps
  BY DEF Keeps, RecvHas

LEMMA GivesFreed ==
  ASSUME TypeOK, RecvHolds, Pool!free_buffer(got[Receiver]), ~RecvHolds'
  PROVE  Gives
<1>1. PICK i : i = got[Receiver]
  OBVIOUS
<1>2. \A b \in 1..NumBuffers : buffer_busy'[b] <=> buffer_busy[b] /\ b # i
  BY <1>1, Busy, Freed
<1> QED
  BY <1>1, <1>2 DEF Gives

(* Where recv is, whether it has a buffer.                                 *)
LEMMA Holding ==
  /\ \A out, time : Result(out, time).pc = "done" /\ Result(out, time).out = out
  /\ rx.pc = "body" => RecvHolds
  /\ (rx.pc = "body" => RecvHolds)'
  /\ rx.pc \in {"idle", "size", "allocate"} => ~RecvHolds
  /\ (rx.pc \in {"idle", "size", "allocate"} => ~RecvHolds)'
  /\ rx.pc = "done" => (RecvHolds <=> rx.out = "DeliverPacket")
  /\ (rx.pc = "done" => (RecvHolds <=> rx.out = "DeliverPacket"))'
  BY SMT DEF Result, NotReceiving, RecvHolds

LEMMA TakesAllocated ==
  ASSUME TypeOK, Allocated
  PROVE  \E i \in 1..NumBuffers : Takes(i) /\ memory' = reset(i, rx.size) /\ got'[Receiver] = i
<1>1. PICK i : i = scan[Receiver]
  OBVIOUS
<1>2. /\ i # 0 /\ ~buffer_busy[i] /\ buffer_busy' = [buffer_busy EXCEPT ![i] = TRUE]
      /\ got' = [got EXCEPT ![Receiver] = i]
      /\ rx.pc = "allocate" /\ rx' = [rx EXCEPT !.pc = "body"]
      /\ memory' = reset(got'[Receiver], rx.size)
  BY <1>1 DEF Allocated, Pool!SwapFree
<1>3. got \in [{Receiver} -> 0..NumBuffers] /\ i \in 0..NumBuffers
  BY <1>1, RecvTypes DEF Pool!TypeOK
<1>4. got'[Receiver] = i
  BY <1>2, <1>3
<1>5. rx'.pc = "body"
  BY <1>2, RecvTypes, RxUpdates
<1>6. ~RecvHolds /\ RecvHolds'
  BY <1>2, <1>5, Holding
<1>7. i \in 1..NumBuffers
  BY SMT, <1>2, <1>3, Sizes
<1>8. \A b \in 1..NumBuffers : buffer_busy'[b] <=> buffer_busy[b] \/ b = i
  BY <1>2, <1>7, Busy DEF BusyTyped
<1>9. \A b \in 1..NumBuffers : RecvHas(b)' <=> b = i
  BY <1>4, <1>6 DEF RecvHas
<1>10. Takes(i)
  BY <1>2, <1>6, <1>8, <1>9 DEF Takes
<1> QED
  BY <1>2, <1>4, <1>7, <1>10

LEMMA RecvMoves ==
  ASSUME TypeOK, recv
  PROVE  Keeps \/ Gives \/ \E i \in 1..NumBuffers : Takes(i)
<1>1. CASE read_prefixed_size
  <2>1. rx.pc = "size" /\ buffer_busy' = buffer_busy
    BY <1>1 DEF read_prefixed_size, Pool!allocate_buffer
  <2>2. rx'.pc = "allocate" \/ rx' = Result("SizeTooBig", 0)
    <3>1. PICK size : \/ rx' = [rx EXCEPT !.pc = "allocate", !.size = size]
                      \/ rx' = Result("SizeTooBig", 0)
      BY <1>1 DEF read_prefixed_size
    <3>2. rx \in RxTypes
      BY RecvTypes
    <3>3. [rx EXCEPT !.pc = "allocate", !.size = size].pc = "allocate"
      BY SMT, <3>2, RxUpdates
    <3> QED
      BY <3>1, <3>3
  <2>3. ~RecvHolds /\ ~RecvHolds'
    BY SMT, <2>1, <2>2, Holding
  <2> QED
    BY <2>1, <2>3, KeepsNothing
<1>2. CASE Allocated
  BY <1>2, TakesAllocated
<1>3. CASE AllocateScan
  <2>1. /\ rx.pc = "allocate" /\ buffer_busy' = buffer_busy
        /\ rx' = Result("NoBufferAvailable", 0) \/ rx' = rx
    BY <1>3 DEF AllocateScan, Pool!SwapBusy
  <2>2. ~RecvHolds /\ ~RecvHolds'
    BY SMT, <2>1, Holding
  <2> QED
    BY <2>1, <2>2, KeepsNothing
<1>4. CASE read_exact
  <2>1. PICK n : UNCHANGED poolVars /\ rx.pc = "body" /\ rx' = [rx EXCEPT !.read = n]
    BY <1>4 DEF read_exact
  <2>2. rx'.pc = "body"
    BY <2>1, RecvTypes, RxUpdates
  <2>3. RecvHolds /\ RecvHolds'
    BY <2>1, <2>2, Holding
  <2> QED
    BY <2>1, <2>3, KeepsFrame
<1>5. CASE UnexpectedEof
  <2>1. /\ rx' = Result("UnexpectedEof", 0)
        /\ \/ rx.pc = "size" /\ UNCHANGED poolVars
           \/ rx.pc = "body" /\ Pool!free_buffer(got[Receiver])
    BY <1>5 DEF UnexpectedEof
  <2>2. ~RecvHolds'
    BY SMT, <2>1, Holding
  <2>3. CASE rx.pc = "size" /\ UNCHANGED poolVars
    <3>1. ~RecvHolds /\ buffer_busy' = buffer_busy
      BY <2>3, Holding DEF poolVars
    <3> QED
      BY <2>2, <3>1, KeepsNothing
  <2>4. CASE rx.pc = "body" /\ Pool!free_buffer(got[Receiver])
    BY <2>2, <2>4, Holding, GivesFreed
  <2> QED
    BY <2>1, <2>3, <2>4
<1>6. CASE Decode
  <2>1. PICK fb : fb = memory[Byte(got[Receiver], rx.size, 1)]
    OBVIOUS
  <2>2. rx.pc = "body" /\ RecvHolds
    BY <1>6, Holding DEF Decode
  <2>3. CASE fb[2] = "DeliverPacket"
    <3>1. rx' = new_deliver_packet /\ UNCHANGED poolVars
      BY SMT, <1>6, <2>1, <2>3 DEF Decode
    <3>2. rx'.pc = "done" /\ rx'.out = "DeliverPacket"
      BY <3>1, RecvTypes, RxUpdates
    <3>3. RecvHolds'
      BY <3>2, Holding
    <3> QED
      BY <2>2, <3>1, <3>3, KeepsFrame
  <2>4. CASE fb[2] # "DeliverPacket"
    <3>1. Pool!free_buffer(got[Receiver])
      BY <1>6, <2>1, <2>4 DEF Decode
    <3>2. rx' = IF fb[2] = "GotoDeadline" THEN DecodedTime(fb[3]) ELSE Result(fb[2], 0)
      BY SMT, <1>6, <2>1, <2>4 DEF Decode
    <3>3. PICK out, time : rx' = Result(out, time) /\ out # "DeliverPacket"
      BY SMT, <2>4, <3>2 DEF DecodedTime
    <3>4. ~RecvHolds'
      BY <3>3, Holding
    <3> QED
      BY <2>2, <3>1, <3>4, GivesFreed
  <2> QED
    BY <2>3, <2>4
<1> QED
  BY <1>1, <1>2, <1>3, <1>4, <1>5, <1>6 DEF recv

(* The buffers that recv has, the queue and vsg_recv being as before.      *)
LEMMA OwnMoves ==
  ASSUME TypeOK, RxInv, OwnInv, Keeps \/ Gives \/ \E i \in 1..NumBuffers : Takes(i),
         input_queue' = input_queue, \A b \in 1..NumBuffers : AppHas(b)' <=> AppHas(b)
  PROVE  OwnInv'
<1>1. QueuedOnce'
  BY DEF OwnInv, QueuedOnce
<1>2. \A b \in 1..NumBuffers : QueueHas(b)' <=> QueueHas(b)
  BY DEF QueueHas
<1>3. CASE Keeps
  BY <1>1, <1>2, <1>3 DEF OwnInv, Keeps
<1>4. CASE Gives
  <2>1. PICK i : i = got[Receiver]
    OBVIOUS
  <2>2. i \in 1..NumBuffers /\ RecvHas(i) /\ ~RecvHolds'
        /\ \A b \in 1..NumBuffers : buffer_busy'[b] <=> buffer_busy[b] /\ b # i
    BY <1>4, <2>1, GotIndex DEF Gives, RecvHas
  <2>3. \A b \in 1..NumBuffers : ~RecvHas(b)' /\ (RecvHas(b) => b = i)
    BY <2>1, <2>2 DEF RecvHas
  <2>4. ~QueueHas(i) /\ ~AppHas(i)
    BY <2>2 DEF OwnInv
  <2> QED
    BY <1>1, <1>2, <2>2, <2>3, <2>4 DEF OwnInv
<1>5. CASE \E i \in 1..NumBuffers : Takes(i)
  <2>1. PICK i \in 1..NumBuffers : Takes(i)
    BY <1>5
  <2>2. ~QueueHas(i) /\ ~AppHas(i)
    BY <2>1 DEF OwnInv, Takes
  <2>3. \A b \in 1..NumBuffers : ~RecvHas(b)
    BY <2>1 DEF Takes, RecvHas
  <2> QED
    BY <1>1, <1>2, <2>1, <2>2, <2>3 DEF OwnInv, Takes
<1> QED
  BY <1>3, <1>4, <1>5

LEMMA OwnRecvCall ==
  ASSUME TypeOK, OwnInv, NEW len, vsg_recv(len)
  PROVE  OwnInv'
<1>0. rx' = rx /\ app.pc = "idle"
  BY DEF vsg_recv
<1>1. \A b \in 1..NumBuffers : ~AppHas(b)
  BY <1>0 DEF AppHas
<1>2. CASE UNCHANGED <<poolVars, input_queue, app>>
  BY <1>0, <1>2 DEF OwnInv, QueuedOnce, RecvHas, RecvHolds, QueueHas, AppHas, poolVars
<1>3. CASE ~UNCHANGED <<poolVars, input_queue, app>>
  <2>1. PICK i : i = Head(input_queue).buffer
    OBVIOUS
  <2>2. /\ input_queue # <<>> /\ input_queue' = Tail(input_queue)
        /\ \/ UNCHANGED poolVars /\ \E size : app' = [pc |-> "copy", buffer |-> i, size |-> size,
                                                       copy |-> <<>>]
           \/ Pool!free_buffer(i) /\ app' = app
    BY <1>3, <2>1 DEF vsg_recv
  <2>3. i \in 1..NumBuffers
    BY <2>1, <2>2, HeadPacket
  <2>4. QueuedOnce' /\ QueueHas(i) /\ \A b \in 1..NumBuffers : QueueHas(b)' <=> QueueHas(b) /\ b # i
    BY <2>1, <2>2, QueuePops DEF OwnInv
  <2>5. got' = got /\ \A b \in 1..NumBuffers : RecvHas(b)' <=> RecvHas(b)
    <3>1. got' = got
      BY <2>2, Busy, Freed DEF poolVars
    <3> QED
      BY <1>0, <3>1 DEF RecvHas, RecvHolds
  <2>6. CASE UNCHANGED poolVars /\ \E size : app' = [pc |-> "copy", buffer |-> i, size |-> size,
                                                     copy |-> <<>>]
    <3>1. app'.pc = "copy" /\ app'.buffer = i
      BY SMT, <2>6
    <3>2. \A b \in 1..NumBuffers : AppHas(b)' <=> b = i
      BY <3>1 DEF AppHas
    <3>3. buffer_busy' = buffer_busy
      BY <2>6 DEF poolVars
    <3> QED
      BY <1>1, <2>3, <2>4, <2>5, <3>2, <3>3 DEF OwnInv
  <2>7. CASE Pool!free_buffer(i) /\ app' = app
    <3>1. \A b \in 1..NumBuffers : buffer_busy'[b] <=> buffer_busy[b] /\ b # i
      BY <2>7, Busy, Freed
    <3>2. \A b \in 1..NumBuffers : ~AppHas(b)'
      BY <1>0, <2>7 DEF AppHas
    <3> QED
      BY <1>1, <2>3, <2>4, <2>5, <3>1, <3>2 DEF OwnInv
  <2> QED
    BY <2>2, <2>6, <2>7
<1> QED
  BY <1>2, <1>3

LEMMA OwnRecvReturn ==
  ASSUME TypeOK, OwnInv, PacketInv, RecvReturn
  PROVE  OwnInv'
<1>1. PICK i : i = app.buffer
  OBVIOUS
<1>2. /\ app.pc = "copy" /\ Pool!free_buffer(i) /\ app' = Idle /\ rx' = rx
      /\ input_queue' = input_queue
  BY <1>1 DEF RecvReturn
<1>3. i # 0 /\ i \in 0..NumBuffers
  BY <1>1, <1>2, AppTyped DEF PacketInv, CopyInv
<1>4. i \in 1..NumBuffers
  BY SMT, <1>3, Sizes
<1>5. /\ \A b \in 1..NumBuffers : buffer_busy'[b] <=> buffer_busy[b] /\ b # i
      /\ got' = got
  BY <1>2, Busy, Freed
<1>6. \A b \in 1..NumBuffers : AppHas(b) <=> b = i
  BY <1>1, <1>2 DEF AppHas
<1>7. \A b \in 1..NumBuffers : ~AppHas(b)'
  BY <1>2, IdleApp DEF AppHas
<1>8. \A b \in 1..NumBuffers : RecvHas(b)' <=> RecvHas(b)
  BY <1>2, <1>5 DEF RecvHas, RecvHolds
<1>9. QueuedOnce' /\ \A b \in 1..NumBuffers : QueueHas(b)' <=> QueueHas(b)
  BY <1>2 DEF OwnInv, QueuedOnce, QueueHas
<1> QED
  BY <1>4, <1>5, <1>6, <1>7, <1>8, <1>9 DEF OwnInv

LEMMA OwnQueued ==
  ASSUME TypeOK, RxInv, OwnInv, handle_actor_msg
  PROVE  OwnInv'
<1>1. PICK i : i = got[Receiver]
  OBVIOUS
<1>2. /\ rx.pc = "done" /\ rx.out = "DeliverPacket" /\ RecvHolds /\ rx' = Receiving /\ app' = app
  BY DEF handle_actor_msg, RecvHolds
<1>3. ~RecvHolds'
  BY <1>2, NothingHeld
<1>4. i \in 1..NumBuffers
  BY <1>1, <1>2, GotIndex
<1>5. \A b \in 1..NumBuffers : AppHas(b)' <=> AppHas(b)
  BY <1>2 DEF AppHas
<1>6. CASE input_queue' = input_queue /\ Pool!free_buffer(got[Receiver])
  BY <1>2, <1>3, <1>5, <1>6, GivesFreed, OwnMoves
<1>7. CASE /\ UNCHANGED poolVars
           /\ input_queue' = Append(input_queue, [buffer |-> got[Receiver], size |-> rx.size])
  <2>1. PICK packet : packet = [buffer |-> got[Receiver], size |-> rx.size]
    OBVIOUS
  <2>2. packet.buffer = i
    BY SMT, <1>1, <2>1
  <2>3. RecvHas(i) /\ ~QueueHas(i) /\ ~AppHas(i)
    <3>1. RecvHas(i)
      BY <1>1, <1>2 DEF RecvHas
    <3> QED
      BY <1>4, <3>1 DEF OwnInv
  <2>4. ~QueueHas(packet.buffer)
    BY <2>2, <2>3
  <2>5. QueuedOnce' /\ \A b : QueueHas(b)' <=> QueueHas(b) \/ b = i
    BY <1>7, <2>1, <2>2, <2>4, QueuePushes DEF OwnInv
  <2>6. \A b \in 1..NumBuffers : ~RecvHas(b)' /\ (RecvHas(b) => b = i)
    BY <1>1, <1>3 DEF RecvHas
  <2>7. buffer_busy' = buffer_busy
    BY <1>7 DEF poolVars
  <2> QED
    BY <1>4, <1>5, <2>3, <2>5, <2>6, <2>7 DEF OwnInv
<1> QED
  BY <1>6, <1>7 DEF handle_actor_msg

LEMMA OwnStep ==
  ASSUME TypeOK, ContextInv, RxInv, PacketInv, OwnInv, Next
  PROVE  OwnInv'
<1>1. CASE ReceiveStep
  <2>1. recv /\ input_queue' = input_queue /\ app' = app
    BY <1>1 DEF ReceiveStep, recvVars
  <2>2. \A b \in 1..NumBuffers : AppHas(b)' <=> AppHas(b)
    BY <2>1 DEF AppHas
  <2> QED
    BY <2>1, <2>2, RecvMoves, OwnMoves
<1>2. CASE StartReturn
  <2>1. /\ state = "starting" /\ rx.pc = "done" /\ rx' = NotReceiving /\ app' = Idle
        /\ input_queue' = input_queue
        /\ IF rx.out = "DeliverPacket" THEN Pool!free_buffer(got[Receiver]) ELSE UNCHANGED poolVars
    BY <1>2 DEF StartReturn
  <2>2. app.pc = "start"
    BY <2>1 DEF ContextInv
  <2>3. \A b \in 1..NumBuffers : ~AppHas(b) /\ ~AppHas(b)'
    BY <2>1, <2>2, IdleApp DEF AppHas
  <2>4. ~RecvHolds' /\ (RecvHolds <=> rx.out = "DeliverPacket")
    BY <2>1, NothingHeld, Holding
  <2>5. Keeps \/ Gives
    BY <2>1, <2>4, KeepsNothing, GivesFreed DEF poolVars
  <2> QED
    BY <2>1, <2>3, <2>5, OwnMoves
<1>3. CASE RecvCopy
  <2>1. UNCHANGED <<poolVars, rx, input_queue>>
    BY <1>3 DEF RecvCopy, connectorVars
  <2>2. app'.pc = app.pc /\ app'.buffer = app.buffer
    <3>1. PICK copy : app' = [app EXCEPT !.copy = copy]
      BY <1>3 DEF RecvCopy
    <3> QED
      BY SMT, <3>1, AppTyped DEF AppTypes
  <2>3. \A b \in 1..NumBuffers : AppHas(b)' <=> AppHas(b)
    BY <2>2 DEF AppHas
  <2>4. RecvHolds' <=> RecvHolds
    BY <2>1 DEF RecvHolds
  <2>5. Keeps
    BY <2>1, <2>4, KeepsFrame
  <2> QED
    BY <2>1, <2>3, <2>5, OwnMoves
<1>4. CASE Quiet
  <2>1. Keeps /\ input_queue' = input_queue
    BY <1>4, KeepsFrame DEF Quiet
  <2>2. \A b \in 1..NumBuffers : AppHas(b)' <=> AppHas(b)
    BY <1>4 DEF Quiet, AppHas
  <2> QED
    BY <2>1, <2>2, OwnMoves
<1> QED
  BY <1>1, <1>2, <1>3, <1>4, QuietSteps, OwnRecvCall, OwnRecvReturn, OwnQueued

LEMMA InitTypes == Init => TypeOK
<1>1. SUFFICES ASSUME Init PROVE TypeOK
  BY SMT
<1>2. PICK empty : empty = <<>>
  OBVIOUS
<1>3. \A S : empty \in Seq(S)
  BY SMT, <1>2
<1>4. Len(empty) <= MaxMsgs
  BY SMT, <1>2, BoundsAssumption
<1>5. memory \in [1..NumBuffers * BufferSize -> Bytes]
  BY <1>1, BytesMade DEF Init, ConnectorInit, calloc
<1>6. Pool!TypeOK
  <2>1. Pool!Init
    BY <1>1 DEF Init, ConnectorInit
  <2>2. 0 \in 0..NumBuffers /\ 0 \in Nat
    BY SMT, Sizes
  <2>3. "Pending" \in Pool!Outcomes
    BY SMT DEF Pool!Outcomes
  <2> QED
    BY <2>1, <2>2, <2>3 DEF Pool!Init, Pool!new, Pool!TypeOK
<1>7. rx \in RxTypes /\ rx.read <= rx.size
  <2>1. rx = NotReceiving
    BY <1>1 DEF Init, ConnectorInit
  <2> QED
    BY SMT, <2>1, Sizes DEF NotReceiving, RxTypes
<1>8. app \in AppTypes
  BY <1>1, IdleApp DEF Init
<1>9. refs \in 0..2
  BY SMT, <1>1 DEF Init
<1> QED
  BY <1>1, <1>2, <1>3, <1>4, <1>5, <1>6, <1>7, <1>8, <1>9 DEF Init, ConnectorInit, TypeOK

-----------------------------------------------------------------------------
(* The socket as bytes are read from it and written to it.                 *)
LEMMA PosInt == ASSUME NEW starts, Positions(starts), NEW k \in Nat PROVE starts[k] \in Int
  BY SMT DEF Positions

IsBytes(msg) == msg \in Seq(Bytes)

(* A message is written.                                                   *)
LEMMA ContentWrite ==
  ASSUME TypeOK, NEW msg, IsBytes(msg), NEW starts, Positions(starts), Content(starts),
         link = "open", link' = link, stream' = stream \o msg, asked' = Append(asked, msg)
  PROVE  \E st : Positions(st) /\ Content(st)' /\ \A k \in 0..Len(asked) + 1 : st[k] = starts[k]
<1> DEFINE n == Len(asked)
           L == Len(stream)
           M == Len(msg)
<1>1. n \in Nat /\ Len(asked') = n + 1 /\ asked'[n + 1] = msg /\ \A k \in 1..n : asked'[k] = asked[k]
  <2>1. asked \in Seq(Seq(Bytes)) /\ msg \in Seq(Bytes)
    BY SeqTypes DEF IsBytes
  <2> QED
    BY SMT, <2>1
<1>2. /\ L \in Nat /\ M \in Nat /\ Len(stream') = L + M
      /\ \A i \in 1..L : stream'[i] = stream[i]
      /\ \A j \in 1..M : stream'[L + j] = msg[j]
  BY ConcatBytes, SeqTypes DEF IsBytes
<1>3. \A k \in Nat : starts[k] \in Int
  BY PosInt
<1>4. \A k \in 1..n : Len(asked[k]) \in Nat
  BY SeqElem, LenNat, SeqTypes
<1>5. PICK st : st = [starts EXCEPT ![n + 2] = starts[n + 1] + M]
  OBVIOUS
<1>6. Positions(st) /\ st[n + 2] = starts[n + 1] + M /\ \A k \in Nat : k # n + 2 => st[k] = starts[k]
  BY SMTT(30), <1>1, <1>2, <1>3, <1>5 DEF Positions
<1>c. /\ \A k \in 1..n : starts[k + 1] = starts[k] + Len(asked[k])
      /\ \A k \in 1..n, j \in Nat \ {0} :
           j <= Len(asked[k]) /\ starts[k] + j > 1 =>
             starts[k] + j <= L + 1 /\ stream[starts[k] + j - 1] = asked[k][j]
      /\ starts[n + 1] <= L + 1
      /\ ~(starts[n + 1] <= L)
  BY DEF Content
<1> HIDE DEF n, L, M
<1>7. starts[n + 1] = L + 1 /\ n + 1 \in Nat
  BY SMT, <1>1, <1>2, <1>3, <1>c
<1>8. ASSUME NEW k \in 1..n + 1 PROVE st[k + 1] = st[k] + Len(asked'[k])
  <2>1. CASE k = n + 1
    BY SMT, <1>1, <1>6, <1>7, <2>1 DEF M
  <2>2. CASE k # n + 1
    <3>1. k \in 1..n /\ k \in Nat /\ k + 1 \in Nat /\ k # n + 2 /\ k + 1 # n + 2
      BY SMT, <1>1, <2>2
    <3> QED
      BY <1>1, <1>6, <1>c, <3>1
  <2> QED
    BY <2>1, <2>2
<1>9. ASSUME NEW k \in 1..n + 1, NEW j \in Nat \ {0}, j <= Len(asked'[k]), st[k] + j > 1
      PROVE  st[k] + j <= L + M + 1 /\ stream'[st[k] + j - 1] = asked'[k][j]
  <2>1. CASE k = n + 1
    <3>1. st[k] = L + 1 /\ j \in 1..M /\ asked'[k] = msg
      BY SMTT(30), <1>1, <1>2, <1>6, <1>7, <1>9, <2>1 DEF M
    <3>0. L \in Nat /\ M \in Nat
      BY <1>2
    <3>2. st[k] + j - 1 = L + j /\ st[k] + j <= L + M + 1
      BY SMT, <3>0, <3>1
    <3> QED
      BY <1>2, <3>1, <3>2
  <2>2. CASE k # n + 1
    <3>1. k \in 1..n /\ k \in Nat /\ k # n + 2
      BY SMT, <1>1, <2>2
    <3>2. asked'[k] = asked[k] /\ st[k] = starts[k] /\ starts[k] \in Int
      BY <1>1, <1>3, <1>6, <3>1
    <3>3. starts[k] + j <= L + 1 /\ stream[starts[k] + j - 1] = asked[k][j]
      BY <1>9, <1>c, <3>1, <3>2
    <3>a. starts[k] + j > 1 /\ L \in Nat /\ M \in Nat
      BY <1>2, <1>9, <3>2
    <3>4. starts[k] + j - 1 \in 1..L
      BY SMTT(30), <3>2, <3>3, <3>a
    <3>5. st[k] + j <= L + M + 1
      BY SMTT(30), <3>2, <3>3, <3>a
    <3> QED
      BY <1>2, <3>2, <3>3, <3>4, <3>5
  <2> QED
    BY <2>1, <2>2
<1>10. st[n + 2] <= L + M + 1 /\ ~(st[n + 2] <= L + M)
  BY SMT, <1>2, <1>6, <1>7
<1>11. n + 1 + 1 = n + 2
  BY SMT, <1>1
<1>12. Content(st)'
  BY <1>1, <1>2, <1>8, <1>9, <1>10, <1>11 DEF Content, L, M
<1>13. \A k \in 0..n + 1 : st[k] = starts[k]
  BY SMT, <1>1, <1>6
<1> QED
  BY <1>6, <1>12, <1>13 DEF n

(* The peer dies: what it has written of its last message has no end.      *)
LEMMA ContentCut ==
  ASSUME TypeOK, NEW n \in 0..BufferSize,
         NEW starts, Positions(starts), Content(starts),
         PeerDies(deliver_packet(Payload(0, BufferSize - 1)), n), asked' = asked
  PROVE  Content(starts)' /\ stream' \in Seq(Bytes)
<1> DEFINE msg == deliver_packet(Payload(0, BufferSize - 1))
           cut == SubSeq(msg, 1, n)
           N == Len(asked)
           L == Len(stream)
<1>1. Payload(0, BufferSize - 1) \in Seq(Bytes) /\ Len(Payload(0, BufferSize - 1)) = BufferSize - 1
  BY SMT, Sizes, PayloadType
<1>2. /\ msg \in Seq(Bytes) /\ Len(msg) = 2 + (BufferSize - 1)
      /\ msg[1] = <<"size", 1 + (BufferSize - 1)>>
  BY <1>1, DeliverShape
<1>3. msg \in Seq(Bytes) /\ Len(msg) = BufferSize + 1 /\ msg[1] = <<"size", BufferSize>>
  BY SMT, Sizes, <1>2
<1>4. link = "open" /\ link' = "gone" /\ stream' = stream \o cut
  BY DEF PeerDies
<1> HIDE DEF msg
<1>5. cut \in Seq(Bytes) /\ Len(cut) = n /\ (n > 0 => cut[1] = <<"size", BufferSize>>)
  BY SMT, Sizes, <1>3
<1> HIDE DEF cut
<1>6. /\ L \in Nat /\ Len(stream') = L + n
      /\ \A i \in 1..L : stream'[i] = stream[i]
      /\ \A j \in 1..n : stream'[L + j] = cut[j]
      /\ stream' \in Seq(Bytes)
  BY <1>4, <1>5, ConcatBytes, SeqTypes
<1>7. N \in Nat /\ \A k \in 1..N : Len(asked[k]) \in Nat
  BY SeqElem, LenNat, SeqTypes
<1>8. \A k \in Nat : starts[k] \in Int
  BY PosInt
<1>c. /\ \A k \in 1..N : starts[k + 1] = starts[k] + Len(asked[k])
      /\ \A k \in 1..N, j \in Nat \ {0} :
           j <= Len(asked[k]) /\ starts[k] + j > 1 =>
             starts[k] + j <= L + 1 /\ stream[starts[k] + j - 1] = asked[k][j]
      /\ starts[N + 1] <= L + 1
      /\ ~(starts[N + 1] <= L)
  BY <1>4 DEF Content
<1> HIDE DEF N, L
<1>9. starts[N + 1] = L + 1 /\ n \in Nat /\ n <= BufferSize
  <2>1. N + 1 \in Nat
    BY SMT, <1>7
  <2>2. starts[N + 1] \in Int /\ L \in Nat
    BY <1>6, <1>8, <2>1
  <2> QED
    BY SMT, Sizes, <1>c, <2>2
<1>10. ASSUME NEW k \in 1..N, NEW j \in Nat \ {0}, j <= Len(asked[k]), starts[k] + j > 1
       PROVE  starts[k] + j <= L + n + 1 /\ stream'[starts[k] + j - 1] = asked[k][j]
  <2>1. k \in Nat /\ starts[k] \in Int /\ L \in Nat
    BY SMT, <1>6, <1>7, <1>8
  <2>2. starts[k] + j <= L + 1 /\ stream[starts[k] + j - 1] = asked[k][j]
    BY <1>10, <1>c
  <2>3. starts[k] + j - 1 \in 1..L /\ starts[k] + j <= L + n + 1
    BY SMTT(30), <1>9, <1>10, <2>1, <2>2
  <2> QED
    BY <1>6, <2>2, <2>3
<1>11. /\ starts[N + 1] <= L + n + 1
       /\ L + n < starts[N + 1] + BufferSize \/ ~(starts[N + 1] <= L + n)
  BY SMT, Sizes, <1>6, <1>9
<1>12. ASSUME starts[N + 1] <= L + n
       PROVE  L + n < starts[N + 1] + BufferSize /\ stream'[starts[N + 1]] = <<"size", BufferSize>>
  <2>1. 1 \in 1..n /\ n > 0 /\ L \in Nat
    BY SMT, <1>6, <1>9, <1>12
  <2>2. stream'[L + 1] = <<"size", BufferSize>>
    BY <1>5, <1>6, <2>1
  <2> QED
    BY <1>9, <1>11, <1>12, <2>2
<1> QED
  BY <1>4, <1>6, <1>10, <1>11, <1>12, <1>c DEF Content, N

(* The numbers of packets and deadlines as the peer goes on.               *)
GoesOn(np, nd, np2, nd2) ==
  /\ Counts(np, nd) /\ Counts(np2, nd2)
  /\ \A k \in 0..Len(asked) : np2[k] = np[k] /\ nd2[k] = nd[k]
  /\ \A k \in 1..Len(asked) : asked'[k] = asked[k]
  /\ Len(packets) <= Len(packets') /\ \A i \in 1..Len(packets) : packets'[i] = packets[i]
  /\ Len(deadlines) <= Len(deadlines') /\ \A i \in 1..Len(deadlines) : deadlines'[i] = deadlines[i]
  /\ Len(packets') \in Nat /\ Len(deadlines') \in Nat

(* What message k was before it is still.                                  *)
SameMessage(k, np, nd, np2, nd2) ==
  /\ IsPacket(k, np, nd, asked, packets) =>
       IsPacket(k, np2, nd2, asked', packets') /\ packets'[np2[k]] = packets[np[k]]
  /\ IsDeadline(k, np, nd, asked, deadlines) =>
       IsDeadline(k, np2, nd2, asked', deadlines') /\ deadlines'[nd2[k]] = deadlines[nd[k]]
  /\ IsLast(k, np, nd, asked) => IsLast(k, np2, nd2, asked')

LEMMA NumbersKept ==
  ASSUME TypeOK, NEW np, NEW nd, NEW np2, NEW nd2, GoesOn(np, nd, np2, nd2), NEW k \in 1..Len(asked)
  PROVE  SameMessage(k, np, nd, np2, nd2)
<1>1. Len(asked) \in Nat /\ Len(packets) \in Nat /\ Len(deadlines) \in Nat
  BY SeqTypes, LenNat
<1>2. k \in 0..Len(asked) /\ k - 1 \in 0..Len(asked) /\ k \in Nat /\ k - 1 \in Nat
  BY SMT, <1>1
<1>3. /\ np2[k] = np[k] /\ nd2[k] = nd[k] /\ np2[k - 1] = np[k - 1] /\ nd2[k - 1] = nd[k - 1]
      /\ asked'[k] = asked[k]
      /\ Len(packets) <= Len(packets') /\ Len(deadlines) <= Len(deadlines')
      /\ Len(packets') \in Nat /\ Len(deadlines') \in Nat
      /\ \A i \in 1..Len(packets) : packets'[i] = packets[i]
      /\ \A i \in 1..Len(deadlines) : deadlines'[i] = deadlines[i]
  BY <1>2 DEF GoesOn
<1>4. ASSUME IsPacket(k, np, nd, asked, packets)
      PROVE  IsPacket(k, np2, nd2, asked', packets') /\ packets'[np2[k]] = packets[np[k]]
  <2>1. /\ np[k] = np[k - 1] + 1 /\ nd[k] = nd[k - 1] /\ np[k] \in 1..Len(packets)
        /\ asked[k] = deliver_packet(packets[np[k]])
    BY <1>4 DEF IsPacket
  <2>2. np[k] \in 1..Len(packets')
    BY SMT, <1>1, <1>3, <2>1
  <2>3. packets'[np2[k]] = packets[np[k]]
    <3>1. packets'[np[k]] = packets[np[k]]
      BY <1>3, <2>1
    <3> QED
      BY <1>3, <3>1
  <2>4. asked'[k] = deliver_packet(packets'[np2[k]])
    BY <1>3, <2>1, <2>3
  <2> QED
    BY <1>3, <2>1, <2>2, <2>3, <2>4 DEF IsPacket
<1>5. ASSUME IsDeadline(k, np, nd, asked, deadlines)
      PROVE  IsDeadline(k, np2, nd2, asked', deadlines') /\ deadlines'[nd2[k]] = deadlines[nd[k]]
  <2>1. /\ np[k] = np[k - 1] /\ nd[k] = nd[k - 1] + 1 /\ nd[k] \in 1..Len(deadlines)
        /\ asked[k] = goto_deadline(deadlines[nd[k]])
    BY <1>5 DEF IsDeadline
  <2>2. nd[k] \in 1..Len(deadlines')
    BY SMT, <1>1, <1>3, <2>1
  <2>3. deadlines'[nd2[k]] = deadlines[nd[k]]
    <3>1. deadlines'[nd[k]] = deadlines[nd[k]]
      BY <1>3, <2>1
    <3> QED
      BY <1>3, <3>1
  <2>4. asked'[k] = goto_deadline(deadlines'[nd2[k]])
    BY <1>3, <2>1, <2>3
  <2> QED
    BY <1>3, <2>1, <2>2, <2>3, <2>4 DEF IsDeadline
<1>6. ASSUME IsLast(k, np, nd, asked) PROVE IsLast(k, np2, nd2, asked')
  BY <1>3, <1>6 DEF IsLast
<1> QED
  BY <1>4, <1>5, <1>6 DEF SameMessage

(* The peer writes a message while the receiver is in step.                *)
LEMMA SyncedWrite ==
  ASSUME TypeOK, NEW h, NEW starts, NEW np, NEW nd, Synced(h, starts, np, nd),
         NEW np2, NEW nd2, GoesOn(np, nd, np2, nd2), NEW msg, IsBytes(msg),
         PeerWrite(msg), asked' = Append(asked, msg), UNCHANGED <<recvVars, called>>,
         NEW n, n = Len(asked) + 1, np2[n] = Len(packets'), nd2[n] = Len(deadlines'),
         \/ IsPacket(n, np2, nd2, asked', packets')
         \/ IsDeadline(n, np2, nd2, asked', deadlines')
         \/ IsLast(n, np2, nd2, asked')
  PROVE  \E st : Synced(h, st, np2, nd2)'
<1>1. /\ link = "open" /\ link' = link /\ stream' = stream \o msg
      /\ memory' = memory /\ got' = got /\ rx' = rx
      /\ called' = called /\ taken' = taken /\ app' = app /\ input_queue' = input_queue
  BY DEF PeerWrite, poolVars, recvVars
<1>2. /\ h \in 0..Len(asked) /\ Positions(starts) /\ Counts(np, nd)
      /\ Content(starts) /\ Numbered(np, nd) /\ InStep(h, starts, np, nd)
  BY DEF Synced
<1>3. PICK st : Positions(st) /\ Content(st)' /\ \A k \in 0..Len(asked) + 1 : st[k] = starts[k]
  BY <1>1, <1>2, ContentWrite
<1>4. Len(asked) \in Nat /\ Len(asked') = Len(asked) + 1
  <2>1. asked \in Seq(Seq(Bytes)) /\ msg \in Seq(Bytes)
    BY SeqTypes DEF IsBytes
  <2> QED
    BY SMT, <2>1
<1>5. \A k \in 0..Len(asked) : np2[k] = np[k] /\ nd2[k] = nd[k]
  BY DEF GoesOn
<1>6. Numbered(np2, nd2)'
  <2>1. np2[0] = 0 /\ nd2[0] = 0
    <3>1. 0 \in 0..Len(asked)
      BY SMT, <1>4
    <3> QED
      BY <1>2, <1>5, <3>1 DEF Numbered
  <2>2. ASSUME NEW k \in 1..Len(asked')
        PROVE  \/ IsPacket(k, np2, nd2, asked', packets')
               \/ IsDeadline(k, np2, nd2, asked', deadlines')
               \/ IsLast(k, np2, nd2, asked')
    <3>1. CASE k = Len(asked) + 1
      <4>1. k = n
        BY <3>1
      <4> QED
        BY <4>1 DEF IsPacket, IsDeadline, IsLast
    <3>2. CASE k # Len(asked) + 1
      <4>1. k \in 1..Len(asked)
        BY SMT, <1>4, <3>2
      <4>2. SameMessage(k, np, nd, np2, nd2)
        BY <4>1, NumbersKept
      <4> QED
        BY <1>2, <4>1, <4>2 DEF Numbered, SameMessage
    <3> QED
      BY SMT, <3>1, <3>2
  <2> QED
    BY <1>4, <2>1, <2>2 DEF Numbered
<1>7. InStep(h, st, np2, nd2)'
  <2>1. /\ h \in 0..Len(asked) + 1 /\ h + 1 \in 0..Len(asked) + 1
        /\ h > 0 => h - 1 \in 0..Len(asked) /\ h \in 1..Len(asked)
    BY SMT, <1>2, <1>4
  <2>2. st[h + 1] = Off' + 1
    BY <1>1, <1>2, <1>3, <2>1 DEF InStep, Off
  <2>3. Delivered' = Delivered
    BY <1>1 DEF Delivered, Popped
  <2>4. ASSUME Receives(h, np, nd) PROVE Receives(h, np2, nd2)'
    <3>1. h > 0 /\ h - 1 \in 0..Len(asked) /\ h \in 1..Len(asked)
      BY <2>1, <2>4 DEF Receives
    <3>2. asked'[h] = asked[h] /\ np2[h - 1] = np[h - 1] /\ nd2[h - 1] = nd[h - 1]
      BY <1>5, <3>1 DEF GoesOn
    <3>3. SameMessage(h, np, nd, np2, nd2)
      BY <3>1, NumbersKept
    <3>a. IsPacket(h, np, nd, asked, packets) =>
            IsPacket(h, np2, nd2, asked', packets') /\ packets'[np2[h]] = packets[np[h]]
      BY <3>3 DEF SameMessage
    <3>b. IsDeadline(h, np, nd, asked, deadlines) =>
            IsDeadline(h, np2, nd2, asked', deadlines') /\ deadlines'[nd2[h]] = deadlines[nd[h]]
      BY <3>3 DEF SameMessage
    <3>4. IsPacket(h, np, nd, asked, packets) /\ Carries(got[Receiver], rx.size, packets[np[h]])
            => /\ IsPacket(h, np2, nd2, asked', packets')
               /\ Carries(got[Receiver], rx.size, packets[np2[h]])'
      BY <1>1, <3>a DEF Carries, Byte, BufferStart
    <3>5. /\ Delivered' = np2[h - 1] /\ Len(called') = nd2[h - 1]
          /\ rx'.pc \in {"allocate", "body"} => rx'.size + 1 = Len(asked'[h])
          /\ rx'.pc = "body" =>
               \A j \in 1..rx'.read : memory'[Byte(got'[Receiver], rx'.size, j)] = asked'[h][j + 1]
      BY <1>1, <2>3, <2>4, <3>2 DEF Receives
    <3>6. /\ rx'.pc = "done" /\ rx'.out = "DeliverPacket" =>
               /\ IsPacket(h, np2, nd2, asked', packets')
               /\ Carries(got[Receiver], rx.size, packets[np2[h]])'
          /\ rx'.pc = "done" /\ rx'.out = "GoToDeadline" =>
               IsDeadline(h, np2, nd2, asked', deadlines') /\ rx'.time = deadlines'[nd2[h]]
      BY <1>1, <2>4, <3>b, <3>4 DEF Receives
    <3> QED
      BY <3>1, <3>5, <3>6 DEF Receives, Byte, BufferStart
  <2>5. Between(h, np, nd) => Between(h, np2, nd2)'
    BY <1>1, <1>2, <1>5, <2>3 DEF Between
  <2> QED
    BY <1>1, <1>2, <2>2, <2>4, <2>5 DEF InStep
<1>8. h \in 0..Len(asked')
  BY SMT, <1>2, <1>4
<1>9. Counts(np2, nd2)
  BY DEF GoesOn
<1> QED
  BY <1>3, <1>6, <1>7, <1>8, <1>9 DEF Synced, Positions, Counts

CountsOn(np, nd, np2, nd2, n, p, d) ==
  /\ Counts(np2, nd2) /\ np2[n + 1] = p /\ nd2[n + 1] = d
  /\ \A k \in 0..n : np2[k] = np[k] /\ nd2[k] = nd[k]

LEMMA CountsGoOn ==
  ASSUME NEW np, NEW nd, Counts(np, nd), NEW N \in Nat, NEW p \in Nat, NEW d \in Nat
  PROVE  \E np2, nd2 : CountsOn(np, nd, np2, nd2, N, p, d)
<1>0. PICK n : n = N + 1
  OBVIOUS
<1>1. n \in Nat /\ \A k \in 0..N : k \in Nat /\ k # n
  BY SMT, <1>0
<1>2. PICK np2, nd2 : np2 = [np EXCEPT ![n] = p] /\ nd2 = [nd EXCEPT ![n] = d]
  OBVIOUS
<1>3. np \in [Nat -> Nat] /\ nd \in [Nat -> Nat]
  BY DEF Counts
<1>4. np2 \in [Nat -> Nat] /\ np2[n] = p /\ \A k \in Nat : k # n => np2[k] = np[k]
  BY <1>1, <1>2, <1>3
<1>5. nd2 \in [Nat -> Nat] /\ nd2[n] = d /\ \A k \in Nat : k # n => nd2[k] = nd[k]
  BY <1>1, <1>2, <1>3
<1>6. Counts(np2, nd2)
  BY <1>4, <1>5 DEF Counts
<1>7. \A k \in 0..N : np2[k] = np[k] /\ nd2[k] = nd[k]
  BY <1>1, <1>4, <1>5
<1>8. CountsOn(np, nd, np2, nd2, N, p, d)
  BY <1>0, <1>4, <1>5, <1>6, <1>7 DEF CountsOn
<1> QED
  BY <1>8

LEMMA SyncedPacket ==
  ASSUME TypeOK, NEW h, NEW starts, NEW np, NEW nd, Synced(h, starts, np, nd),
         NEW len \in PacketLens, PeerPacket(len)
  PROVE  \E st, np2, nd2 : Synced(h, st, np2, nd2)'
<1>1. PICK packet : packet = Payload(Len(packets) + 1, len)
  OBVIOUS
<1>2. /\ PeerWrite(deliver_packet(packet)) /\ asked' = Append(asked, deliver_packet(packet))
      /\ packets' = Append(packets, packet) /\ deadlines' = deadlines
      /\ UNCHANGED <<recvVars, called>>
  BY <1>1 DEF PeerPacket, PeerSend
<1>3. packets \in Seq(Seq(Bytes)) /\ deadlines \in Seq(Nat) /\ asked \in Seq(Seq(Bytes))
  BY SeqTypes
<1>4. packet \in Seq(Bytes)
  <2>1. Len(packets) + 1 \in Nat
    BY SMT, <1>3
  <2>2. len \in Nat
    BY InputsAssumption
  <2> QED
    BY <1>1, <2>1, <2>2, PayloadType
<1>5. deliver_packet(packet) \in Seq(Bytes)
  BY <1>4, DeliverShape
<1>6. /\ Len(packets) \in Nat /\ Len(packets') = Len(packets) + 1 /\ Len(packets') \in Nat
      /\ Len(packets) <= Len(packets')
      /\ packets'[Len(packets) + 1] = packet /\ \A i \in 1..Len(packets) : packets'[i] = packets[i]
  <2>1. OneMore(packets, packet, packets')
    BY <1>2, <1>3, <1>4, AppendOneMore
  <2> QED
    BY <2>1 DEF OneMore
<1>7. /\ Len(asked) \in Nat /\ Len(asked') = Len(asked) + 1
      /\ asked'[Len(asked) + 1] = deliver_packet(packet)
      /\ \A i \in 1..Len(asked) : asked'[i] = asked[i]
  <2>1. OneMore(asked, deliver_packet(packet), asked')
    BY <1>2, <1>3, <1>5, AppendOneMore
  <2> QED
    BY <2>1 DEF OneMore
<1>8. Len(deadlines) \in Nat /\ Len(deadlines) <= Len(deadlines)
  BY SMT, <1>3
<1>9. /\ Counts(np, nd) /\ Numbered(np, nd)
      /\ np[Len(asked)] = Len(packets) /\ nd[Len(asked)] = Len(deadlines)
  BY DEF Synced, Numbered
<1>10. PICK np2, nd2 : CountsOn(np, nd, np2, nd2, Len(asked), Len(packets) + 1, Len(deadlines))
  <2>1. Len(packets) + 1 \in Nat
    BY SMT, <1>6
  <2> QED
    BY <1>7, <1>8, <1>9, <2>1, CountsGoOn
<1>11. PICK n : n = Len(asked) + 1
  OBVIOUS
<1>12. GoesOn(np, nd, np2, nd2)
  BY <1>2, <1>6, <1>7, <1>8, <1>9, <1>10 DEF GoesOn, CountsOn
<1>13. IsPacket(n, np2, nd2, asked', packets')
  <2>1. n - 1 = Len(asked) /\ Len(asked) \in 0..Len(asked)
    BY SMT, <1>7, <1>11
  <2>2. np2[n - 1] = Len(packets) /\ nd2[n - 1] = Len(deadlines)
    BY <1>9, <1>10, <2>1 DEF CountsOn
  <2>3. Len(packets) + 1 \in 1..Len(packets')
    BY SMT, <1>6
  <2> QED
    BY <1>6, <1>7, <1>10, <1>11, <2>2, <2>3 DEF IsPacket, CountsOn
<1>14. IsBytes(deliver_packet(packet))
  BY <1>5 DEF IsBytes
<1>15. np2[n] = Len(packets') /\ nd2[n] = Len(deadlines')
  BY <1>2, <1>6, <1>10, <1>11 DEF CountsOn
<1>16. \E st : Synced(h, st, np2, nd2)'
  BY <1>2, <1>11, <1>12, <1>13, <1>14, <1>15, SyncedWrite
<1> QED
  BY <1>16

LEMMA SyncedDeadline ==
  ASSUME TypeOK, NEW h, NEW starts, NEW np, NEW nd, Synced(h, starts, np, nd),
         NEW t \in Times, PeerDeadline(t)
  PROVE  \E st, np2, nd2 : Synced(h, st, np2, nd2)'
<1>2. /\ PeerWrite(goto_deadline(t)) /\ asked' = Append(asked, goto_deadline(t))
      /\ packets' = packets /\ deadlines' = Append(deadlines, t)
      /\ UNCHANGED <<recvVars, called>>
  BY DEF PeerDeadline, PeerSend
<1>3. packets \in Seq(Seq(Bytes)) /\ deadlines \in Seq(Nat) /\ asked \in Seq(Seq(Bytes))
  BY SeqTypes
<1>4. t \in Nat
  BY InputsAssumption
<1>5. goto_deadline(t) \in Seq(Bytes)
  BY <1>4, GotoShape
<1>6. /\ Len(deadlines) \in Nat /\ Len(deadlines') = Len(deadlines) + 1 /\ Len(deadlines') \in Nat
      /\ Len(deadlines) <= Len(deadlines')
      /\ deadlines'[Len(deadlines) + 1] = t
      /\ \A i \in 1..Len(deadlines) : deadlines'[i] = deadlines[i]
  <2>1. OneMore(deadlines, t, deadlines')
    BY <1>2, <1>3, <1>4, AppendOneMore
  <2> QED
    BY <2>1 DEF OneMore
<1>7. /\ Len(asked) \in Nat /\ Len(asked') = Len(asked) + 1
      /\ asked'[Len(asked) + 1] = goto_deadline(t) /\ \A i \in 1..Len(asked) : asked'[i] = asked[i]
  <2>1. OneMore(asked, goto_deadline(t), asked')
    BY <1>2, <1>3, <1>5, AppendOneMore
  <2> QED
    BY <2>1 DEF OneMore
<1>8. Len(packets) \in Nat /\ Len(packets) <= Len(packets)
  BY SMT, <1>3
<1>9. /\ Counts(np, nd) /\ Numbered(np, nd)
      /\ np[Len(asked)] = Len(packets) /\ nd[Len(asked)] = Len(deadlines)
  BY DEF Synced, Numbered
<1>10. PICK np2, nd2 : CountsOn(np, nd, np2, nd2, Len(asked), Len(packets), Len(deadlines) + 1)
  <2>1. Len(deadlines) + 1 \in Nat
    BY SMT, <1>6
  <2> QED
    BY <1>7, <1>8, <1>9, <2>1, CountsGoOn
<1>11. PICK n : n = Len(asked) + 1
  OBVIOUS
<1>12. GoesOn(np, nd, np2, nd2)
  BY <1>2, <1>6, <1>7, <1>8, <1>9, <1>10 DEF GoesOn, CountsOn
<1>13. IsDeadline(n, np2, nd2, asked', deadlines')
  <2>1. n - 1 = Len(asked) /\ Len(asked) \in 0..Len(asked)
    BY SMT, <1>7, <1>11
  <2>2. np2[n - 1] = Len(packets) /\ nd2[n - 1] = Len(deadlines)
    BY <1>9, <1>10, <2>1 DEF CountsOn
  <2>3. Len(deadlines) + 1 \in 1..Len(deadlines')
    BY SMT, <1>6
  <2> QED
    BY <1>6, <1>7, <1>10, <1>11, <2>2, <2>3 DEF IsDeadline, CountsOn
<1>14. IsBytes(goto_deadline(t))
  BY <1>5 DEF IsBytes
<1>15. np2[n] = Len(packets') /\ nd2[n] = Len(deadlines')
  BY <1>2, <1>6, <1>10, <1>11 DEF CountsOn
<1>16. \E st : Synced(h, st, np2, nd2)'
  BY <1>2, <1>11, <1>12, <1>13, <1>14, <1>15, SyncedWrite
<1> QED
  BY <1>16

LEMMA SyncedLast ==
  ASSUME TypeOK, NEW h, NEW starts, NEW np, NEW nd, Synced(h, starts, np, nd),
         NEW msg, IsBytes(msg), PeerSend(msg), UNCHANGED <<packets, deadlines>>,
         msg = end_simulation \/ \E m \in OtherMsgs : msg = Message(m[1], m[2], <<>>)
  PROVE  \E st, np2, nd2 : Synced(h, st, np2, nd2)'
<1>2. /\ PeerWrite(msg) /\ asked' = Append(asked, msg)
      /\ packets' = packets /\ deadlines' = deadlines
      /\ UNCHANGED <<recvVars, called>>
  BY DEF PeerSend
<1>3. packets \in Seq(Seq(Bytes)) /\ deadlines \in Seq(Nat) /\ asked \in Seq(Seq(Bytes))
  BY SeqTypes
<1>5. msg \in Seq(Bytes)
  BY DEF IsBytes
<1>6. Len(deadlines) \in Nat /\ Len(deadlines) <= Len(deadlines)
  BY SMT, <1>3
<1>7. /\ Len(asked) \in Nat /\ Len(asked') = Len(asked) + 1
      /\ asked'[Len(asked) + 1] = msg /\ \A i \in 1..Len(asked) : asked'[i] = asked[i]
  <2>1. OneMore(asked, msg, asked')
    BY <1>2, <1>3, <1>5, AppendOneMore
  <2> QED
    BY <2>1 DEF OneMore
<1>8. Len(packets) \in Nat /\ Len(packets) <= Len(packets)
  BY SMT, <1>3
<1>9. /\ Counts(np, nd) /\ Numbered(np, nd)
      /\ np[Len(asked)] = Len(packets) /\ nd[Len(asked)] = Len(deadlines)
  BY DEF Synced, Numbered
<1>10. PICK np2, nd2 : CountsOn(np, nd, np2, nd2, Len(asked), Len(packets), Len(deadlines))
  BY <1>6, <1>7, <1>8, <1>9, CountsGoOn
<1>11. PICK n : n = Len(asked) + 1
  OBVIOUS
<1>12. GoesOn(np, nd, np2, nd2)
  BY <1>2, <1>6, <1>7, <1>8, <1>9, <1>10 DEF GoesOn, CountsOn
<1>13. IsLast(n, np2, nd2, asked')
  <2>1. n - 1 = Len(asked) /\ Len(asked) \in 0..Len(asked)
    BY SMT, <1>7, <1>11
  <2>2. np2[n - 1] = Len(packets) /\ nd2[n - 1] = Len(deadlines)
    BY <1>9, <1>10, <2>1 DEF CountsOn
  <2> QED
    BY <1>7, <1>10, <1>11, <2>2 DEF IsLast, CountsOn
<1>15. np2[n] = Len(packets') /\ nd2[n] = Len(deadlines')
  BY <1>2, <1>10, <1>11 DEF CountsOn
<1>16. \E st : Synced(h, st, np2, nd2)'
  BY <1>2, <1>11, <1>12, <1>13, <1>15, SyncedWrite
<1> QED
  BY <1>16

LEMMA StreamPeerMessage == TypeOK /\ StreamInv /\ PeerMessage => StreamInv'
<1> SUFFICES ASSUME TypeOK, StreamInv, PeerMessage, Listening' PROVE StreamInv'
  BY DEF StreamInv
<1>1. PICK msg : PeerSend(msg)
  BY DEF PeerMessage, PeerPacket, PeerDeadline
<1>2. Listening /\ ~Cut
  BY <1>1 DEF Listening, Cut, PeerSend, PeerWrite, ctxVars
<1>3. PICK h, starts, np, nd : Synced(h, starts, np, nd)
  BY <1>2 DEF StreamInv
<1>4. \E st, np2, nd2 : Synced(h, st, np2, nd2)'
  <2>1. CASE \E len \in PacketLens : PeerPacket(len)
    BY <1>3, <2>1, SyncedPacket
  <2>2. CASE \E t \in Times : PeerDeadline(t)
    BY <1>3, <2>2, SyncedDeadline
  <2>3. CASE PeerSend(end_simulation) /\ UNCHANGED <<packets, deadlines>>
    <3>1. IsBytes(end_simulation)
      BY EndShape DEF IsBytes
    <3> QED
      BY <1>3, <2>3, <3>1, SyncedLast
  <2>4. CASE \E m \in OtherMsgs :
               PeerSend(Message(m[1], m[2], <<>>)) /\ UNCHANGED <<packets, deadlines>>
    <3>1. PICK m \in OtherMsgs : PeerSend(Message(m[1], m[2], <<>>)) /\ UNCHANGED <<packets, deadlines>>
      BY <2>4
    <3>2. IsBytes(Message(m[1], m[2], <<>>))
      BY OtherShape DEF IsBytes
    <3> QED
      BY <1>3, <3>1, <3>2, SyncedLast
  <2> QED
    BY <2>1, <2>2, <2>3, <2>4 DEF PeerMessage
<1> QED
  BY <1>4 DEF StreamInv

(* What is left of the stream invariant to show when the peer does nothing. *)
LEMMA ContentFrame ==
  ASSUME NEW starts, Content(starts), stream' = stream, asked' = asked, link = "gone" => link' = "gone"
  PROVE  Content(starts)'
  BY DEF Content

LEMMA NumberedFrame ==
  ASSUME NEW np, NEW nd, Numbered(np, nd), UNCHANGED peerVars
  PROVE  Numbered(np, nd)'
<1>1. asked' = asked /\ packets' = packets /\ deadlines' = deadlines
  BY DEF peerVars
<1> QED
  BY <1>1 DEF Numbered, IsPacket, IsDeadline, IsLast

LEMMA SyncedFrame ==
  ASSUME NEW h, NEW starts, NEW np, NEW nd, Synced(h, starts, np, nd),
         stream' = stream, link = "gone" => link' = "gone", UNCHANGED peerVars,
         InStep(h, starts, np, nd)'
  PROVE  Synced(h, starts, np, nd)'
<1>1. asked' = asked
  BY DEF peerVars
<1>2. Content(starts)' /\ Numbered(np, nd)'
  BY <1>1, ContentFrame, NumberedFrame DEF Synced
<1> QED
  BY <1>1, <1>2 DEF Synced

LEMMA InStepFrame ==
  ASSUME NEW h, NEW starts, NEW np, NEW nd, InStep(h, starts, np, nd),
         UNCHANGED <<rx, memory, called>>, UNCHANGED peerVars,
         got'[Receiver] = got[Receiver], Delivered' = Delivered
  PROVE  InStep(h, starts, np, nd)'
<1>1. asked' = asked /\ packets' = packets /\ deadlines' = deadlines /\ rx' = rx /\ memory' = memory
      /\ called' = called
  BY DEF peerVars
<1>2. Off' = Off
  BY <1>1 DEF Off
<1>3. Between(h, np, nd) => Between(h, np, nd)'
  BY <1>1 DEF Between
<1>4. Receives(h, np, nd) => Receives(h, np, nd)'
  BY <1>1 DEF Receives, Carries, IsPacket, IsDeadline
<1> QED
  BY <1>1, <1>2, <1>3, <1>4 DEF InStep

LEMMA StreamFrame ==
  ASSUME StreamInv, Listening' => Listening, UNCHANGED <<stream, rx, memory, called>>,
         UNCHANGED peerVars, link = "gone" => link' = "gone",
         got'[Receiver] = got[Receiver], Delivered' = Delivered
  PROVE  StreamInv'
<1>1. CASE Cut
  BY <1>1 DEF Cut, Off, StreamInv
<1>2. CASE \E h, starts, np, nd : Synced(h, starts, np, nd)
  <2>1. PICK h, starts, np, nd : Synced(h, starts, np, nd)
    BY <1>2
  <2>2. InStep(h, starts, np, nd)'
    BY <2>1, InStepFrame DEF Synced
  <2>3. Synced(h, starts, np, nd)'
    BY <2>1, <2>2, SyncedFrame
  <2> QED
    BY <2>3 DEF StreamInv
<1>3. CASE ~Listening
  BY <1>3 DEF StreamInv
<1> QED
  BY <1>1, <1>2, <1>3 DEF StreamInv

LEMMA StreamPeerEnd == TypeOK /\ StreamInv /\ PeerEnd => StreamInv'
<1> SUFFICES ASSUME TypeOK, StreamInv, PeerEnd PROVE StreamInv'
  BY SMT
<1>1. /\ UNCHANGED <<memory, rx, called>> /\ UNCHANGED peerVars /\ got' = got /\ link = "open"
      /\ UNCHANGED <<state, input_queue, app, taken>>
  BY DEF PeerEnd, PeerDies, PeerShutdown, poolVars, recvVars, ctxVars
<1>2. Delivered' = Delivered /\ (Listening' <=> Listening)
  BY <1>1 DEF Delivered, Popped, Listening
<1>3. CASE PeerShutdown
  <2>1. stream' = stream /\ link # "gone"
    BY <1>1, <1>3 DEF PeerShutdown
  <2> QED
    BY <1>1, <1>2, <2>1, StreamFrame
<1>4. CASE \E n \in 0..BufferSize : PeerDies(deliver_packet(Payload(0, BufferSize - 1)), n)
  <2> SUFFICES ASSUME Listening PROVE StreamInv'
    BY <1>2 DEF StreamInv
  <2>1. PICK n \in 0..BufferSize : PeerDies(deliver_packet(Payload(0, BufferSize - 1)), n)
    BY <1>4
  <2>2. PICK h, starts, np, nd : Synced(h, starts, np, nd)
    BY <1>1 DEF StreamInv, Cut
  <2>3. asked' = asked
    BY <1>1 DEF peerVars
  <2>4. Content(starts)'
    BY <2>1, <2>2, <2>3, ContentCut DEF Synced
  <2>5. Numbered(np, nd)'
    BY <1>1, <2>2, NumberedFrame DEF Synced
  <2>6. InStep(h, starts, np, nd)'
    BY <1>1, <1>2, <2>2, InStepFrame DEF Synced
  <2>7. Synced(h, starts, np, nd)'
    BY <2>2, <2>3, <2>4, <2>5, <2>6 DEF Synced
  <2> QED
    BY <2>7 DEF StreamInv
<1> QED
  BY <1>3, <1>4 DEF PeerEnd
=============================================================================
