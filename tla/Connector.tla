------------------------------ MODULE Connector ------------------------------
(***************************************************************************)
(* How a client receives a message: connector/mod.rs and connector/unix.rs *)
(* over the input pool (BufferPool) and its memory (bytes_buffer.rs).      *)
(* MsgIn::recv reads the size of the message from the socket, allocates a  *)
(* buffer, fills it byte by byte and decodes it.  A packet stays in its    *)
(* buffer until the application drops it; every other message gives it     *)
(* back at once, and so does every error.                                  *)
(*                                                                         *)
(* The bytes are those the properties tell apart: the size prefix, one     *)
(* byte for the flatbuffer around a payload, and payload bytes that bear   *)
(* the number of their packet.                                             *)
(***************************************************************************)
EXTENDS Naturals, Sequences

CONSTANTS
  NumBuffers,  \* Config::num_buffers
  BufferSize,  \* MAX_PACKET_SIZE
  NsPerSec,    \* nanoseconds in a second
  SocketRoom   \* bytes in the socket from which on a write blocks

VARIABLES
  stream,      \* bytes written by the peer and not yet read
  link,        \* "open"; "shut": the peer writes no more; "gone": nor does it read
  memory,      \* the bytes of all the buffers, one after the other
  buffer_busy, live, scan, got, outcome, contended,  \* the input pool
  rx           \* MsgIn::recv: where it is, the size, the bytes read, its result

poolVars == <<buffer_busy, live, scan, got, outcome, contended>>
connectorVars == <<stream, link, memory, poolVars, rx>>

Receiver == "receiver"
Pool == INSTANCE BufferPool WITH Users <- {Receiver}

Zero == <<"zero">>
NotReceiving == [pc |-> "idle", size |-> 0, read |-> 0, out |-> "none", time |-> 0]
Receiving == [NotReceiving EXCEPT !.pc = "size"]

(* recv returns: the message received or the error, and the deadline.      *)
Result(out, time) == [NotReceiving EXCEPT !.pc = "done", !.out = out, !.time = time]

(* Seconds and nanoseconds.                                                *)
Timespecs == Nat \X Nat

calloc == [a \in 1..NumBuffers * BufferSize |-> Zero]

ConnectorInit ==
  /\ stream = <<>>
  /\ link = "open"
  /\ memory = calloc
  /\ Pool!Init
  /\ rx = NotReceiving

-----------------------------------------------------------------------------
(* What create_deliver_packet, create_goto_deadline and                    *)
(* create_end_simulation make of a message.                                *)
Message(kind, time, payload) ==
  <<<<"size", 1 + Len(payload)>>, <<"flatbuffer", kind, time>>>> \o payload

deliver_packet(payload) == Message("DeliverPacket", <<0, 0>>, payload)
goto_deadline(t) == Message("GotoDeadline", <<t \div NsPerSec, t % NsPerSec>>, <<>>)
end_simulation == Message("EndSimulation", <<0, 0>>, <<>>)

Payload(id, len) == [k \in 1..len |-> <<"byte", id>>]

(* Mutant: the size of the buffer decides where it begins.                 *)
BufferStartBySize(i, size) == size * (i - 1)

(* buffer_bounds: every buffer has the same room, whatever its size.       *)
BufferStart(i, size) == BufferSize * (i - 1)
buffer_bounds(i, size) == (BufferStart(i, size) + 1)..(BufferStart(i, size) + size)

(* get, get_mut: where the k-th byte of buffer i is; reset clears them all. *)
Byte(i, size, k) == BufferStart(i, size) + k
reset(i, size) ==
  [a \in DOMAIN memory |-> IF a \in buffer_bounds(i, size) THEN Zero ELSE memory[a]]

(* DeliverPacket::payload: read from the buffer every time it is asked for. *)
payload(i, size) == [k \in 1..size - 1 |-> memory[Byte(i, size, 1 + k)]]

-----------------------------------------------------------------------------
(* read_prefixed_size, then allocate_buffer is called.                     *)
read_prefixed_size ==
  /\ rx.pc = "size"
  /\ stream # <<>>
  /\ Head(stream)[1] = "size"
  /\ LET size == Head(stream)[2] IN
     /\ Pool!allocate_buffer(Receiver, size <= BufferSize)
     /\ rx' = IF size <= BufferSize THEN [rx EXCEPT !.pc = "allocate", !.size = size]
              ELSE Result("SizeTooBig", 0)
  /\ stream' = Tail(stream)
  /\ UNCHANGED <<link, memory>>

(* The buffer is allocated and reset.                                      *)
Allocated ==
  /\ rx.pc = "allocate"
  /\ Pool!SwapFree(Receiver)
  /\ memory' = reset(got'[Receiver], rx.size)
  /\ rx' = [rx EXCEPT !.pc = "body"]
  /\ UNCHANGED <<stream, link>>

AllocateScan ==
  /\ rx.pc = "allocate"
  /\ Pool!SwapBusy(Receiver)
  /\ rx' = IF scan'[Receiver] = 0 THEN Result("NoBufferAvailable", 0) ELSE rx
  /\ UNCHANGED <<stream, link, memory>>

(* read_exact gets the next byte of the message.                           *)
read_exact ==
  /\ rx.pc = "body"
  /\ rx.read < rx.size
  /\ stream # <<>>
  /\ memory' = [memory EXCEPT ![Byte(got[Receiver], rx.size, 1 + rx.read)] = Head(stream)]
  /\ stream' = Tail(stream)
  /\ rx' = [rx EXCEPT !.read = @ + 1]
  /\ UNCHANGED <<link, poolVars>>

(* Mutant: the end of the stream between two messages goes unnoticed.      *)
UnexpectedEofInBody ==
  /\ link # "open"
  /\ stream = <<>>
  /\ rx.pc = "body" /\ rx.read < rx.size
  /\ Pool!free_buffer(got[Receiver])
  /\ rx' = Result("UnexpectedEof", 0)
  /\ UNCHANGED <<stream, link, memory>>

(* read_exact finds the end of the stream: UnexpectedEof.                  *)
UnexpectedEof ==
  /\ link # "open"
  /\ stream = <<>>
  /\ \/ rx.pc = "size" /\ UNCHANGED poolVars
     \/ rx.pc = "body" /\ rx.read < rx.size /\ Pool!free_buffer(got[Receiver])
  /\ rx' = Result("UnexpectedEof", 0)
  /\ UNCHANGED <<stream, link, memory>>

(* Seconds and nanoseconds become a Duration, unless they are out of       *)
(* bounds, as those of the coordinator's infinite deadline are.            *)
DecodedTime(time) ==
  IF time[2] < NsPerSec THEN Result("GoToDeadline", time[1] * NsPerSec + time[2])
  ELSE Result("TimeOutOfBounds", 0)

new_deliver_packet == [rx EXCEPT !.pc = "done", !.out = "DeliverPacket"]

(* Mutant: a packet leaves its buffer as the other messages do.            *)
DecodeFreed ==
  LET fb == memory[Byte(got[Receiver], rx.size, 1)] IN
  /\ rx.pc = "body"
  /\ rx.read = rx.size
  /\ rx' = CASE fb[2] = "DeliverPacket" -> new_deliver_packet
             [] fb[2] = "GotoDeadline" -> DecodedTime(fb[3])
             [] OTHER -> Result(fb[2], 0)
  /\ Pool!free_buffer(got[Receiver])
  /\ UNCHANGED <<stream, link, memory>>

(* The message is verified and taken apart; only a packet keeps its buffer. *)
Decode ==
  LET fb == memory[Byte(got[Receiver], rx.size, 1)] IN
  /\ rx.pc = "body"
  /\ rx.read = rx.size
  /\ rx' = CASE fb[2] = "DeliverPacket" -> new_deliver_packet
             [] fb[2] = "GotoDeadline" -> DecodedTime(fb[3])
             [] OTHER -> Result(fb[2], 0)
  /\ IF fb[2] = "DeliverPacket" THEN UNCHANGED poolVars ELSE Pool!free_buffer(got[Receiver])
  /\ UNCHANGED <<stream, link, memory>>

recv ==
  \/ read_prefixed_size \/ Allocated \/ AllocateScan
  \/ read_exact \/ UnexpectedEof \/ Decode

-----------------------------------------------------------------------------
(* MsgIn::send of the peer, in one write or cut short by its death.        *)
PeerWrite(msg) ==
  /\ link = "open"
  /\ Len(stream) < SocketRoom
  /\ stream' = stream \o msg
  /\ UNCHANGED <<link, memory, poolVars, rx>>

PeerDies(msg, n) ==
  /\ link = "open"
  /\ stream' = stream \o SubSeq(msg, 1, n)
  /\ link' = "gone"
  /\ UNCHANGED <<memory, poolVars, rx>>

(* TestActor::run after its actor: shutdown of the writing half.           *)
PeerShutdown ==
  /\ link = "open"
  /\ link' = "shut"
  /\ UNCHANGED <<stream, memory, poolVars, rx>>
=============================================================================
