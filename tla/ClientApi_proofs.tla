------------------------- MODULE ClientApi_proofs ---------------------------
(***************************************************************************)
(* Proofs about ClientApi, for any number and size of buffers, any command *)
(* lines, packets and deadlines, and any number of messages.  The receiver *)
(* stays in step with the peer (StreamInv), and the bytes of a packet stay *)
(* as they are until the application has them (PacketInv): with the lemmas *)
(* of ClientApiSteps_proofs this makes IInv inductive.                     *)
(***************************************************************************)
EXTENDS ClientApiSteps_proofs

(* Zenon tries every leaf that does not name another prover.               *)
USE Zenon

(* Every message begins with its size.                                     *)
LEMMA AskedShape ==
  ASSUME TypeOK, NEW np, NEW nd, Numbered(np, nd), NEW k \in 1..Len(asked)
  PROVE  /\ Len(asked[k]) \in Nat /\ Len(asked[k]) >= 2
         /\ asked[k][1] = <<"size", Len(asked[k]) - 1>>
<1>0. packets \in Seq(Seq(Bytes)) /\ deadlines \in Seq(Nat)
  BY SeqTypes
<1>1. CASE IsPacket(k, np, nd, asked, packets)
  <2>1. packets[np[k]] \in Seq(Bytes)
    BY <1>0, <1>1, SeqElem DEF IsPacket
  <2>2. /\ asked[k] = deliver_packet(packets[np[k]])
        /\ Len(deliver_packet(packets[np[k]])) = 2 + Len(packets[np[k]])
        /\ deliver_packet(packets[np[k]])[1] = <<"size", 1 + Len(packets[np[k]])>>
    BY <1>1, <2>1, DeliverShape DEF IsPacket
  <2>3. Len(packets[np[k]]) \in Nat
    BY <2>1, LenNat
  <2> QED
    BY SMT, <2>2, <2>3
<1>2. CASE IsDeadline(k, np, nd, asked, deadlines)
  <2>1. deadlines[nd[k]] \in Nat
    BY <1>0, <1>2, SeqElem DEF IsDeadline
  <2>2. Len(asked[k]) = 2 /\ asked[k][1] = <<"size", 1>>
    BY <1>2, <2>1, GotoShape DEF IsDeadline
  <2> QED
    BY SMT, <2>2
<1>3. CASE IsLast(k, np, nd, asked)
  <2>1. Len(asked[k]) = 2 /\ asked[k][1] = <<"size", 1>>
    BY <1>3, EndShape, OtherShape DEF IsLast
  <2> QED
    BY SMT, <2>1
<1> QED
  BY <1>1, <1>2, <1>3 DEF Numbered

(* A byte is read: every message is one byte nearer.                       *)
LEMMA ContentTail ==
  ASSUME TypeOK, NEW starts, Positions(starts), Content(starts),
         stream # <<>>, stream' = Tail(stream), asked' = asked, link' = link
  PROVE  \E st : Positions(st) /\ Content(st)' /\ \A k \in Nat : st[k] = starts[k] - 1
<1> DEFINE n == Len(asked)
           L == Len(stream)
<1>1. n \in Nat /\ DOMAIN asked = 1..n
  BY LenNat, SeqTypes
<1>2. /\ L \in Nat /\ L > 0 /\ Len(stream') = L - 1
      /\ \A i \in Nat : i >= 1 /\ i < L => stream'[i] = stream[i + 1]
  BY TailBytes, SeqTypes
<1>3. \A k \in Nat : starts[k] \in Int
  BY PosInt
<1>4. \A k \in 1..n : Len(asked[k]) \in Nat
  BY SeqElem, LenNat, SeqTypes
<1>5. PICK st : st = [k \in Nat |-> starts[k] - 1]
  OBVIOUS
<1>6. Positions(st) /\ \A k \in Nat : st[k] = starts[k] - 1
  BY SMT, <1>3, <1>5 DEF Positions
<1>c. /\ \A k \in 1..n : starts[k + 1] = starts[k] + Len(asked[k])
      /\ \A k \in 1..n, j \in Nat \ {0} :
           j <= Len(asked[k]) /\ starts[k] + j > 1 =>
             starts[k] + j <= L + 1 /\ stream[starts[k] + j - 1] = asked[k][j]
      /\ starts[n + 1] <= L + 1
      /\ starts[n + 1] <= L =>
           /\ link = "gone"
           /\ starts[n + 1] >= 1 => stream[starts[n + 1]] = <<"size", BufferSize>>
           /\ L < starts[n + 1] + BufferSize
  BY DEF Content
<1> HIDE DEF n, L
<1>7. ASSUME NEW k \in 1..n PROVE st[k + 1] = st[k] + Len(asked[k])
  <2>1. k \in Nat /\ k + 1 \in Nat
    BY SMT, <1>1
  <2>2. /\ starts[k + 1] = starts[k] + Len(asked[k]) /\ starts[k] \in Int /\ Len(asked[k]) \in Nat
        /\ st[k + 1] = starts[k + 1] - 1 /\ st[k] = starts[k] - 1
    BY <1>3, <1>4, <1>6, <1>c, <2>1
  <2>3. \A a \in Int, b \in Nat : (a + b) - 1 = (a - 1) + b
    BY SMT
  <2> QED
    BY <2>2, <2>3
<1>8. ASSUME NEW k \in 1..n, NEW j \in Nat \ {0}, j <= Len(asked[k]), st[k] + j > 1
      PROVE  st[k] + j <= (L - 1) + 1 /\ stream'[st[k] + j - 1] = asked[k][j]
  <2>1. k \in Nat /\ starts[k] \in Int /\ st[k] = starts[k] - 1
    BY SMT, <1>1, <1>3, <1>6
  <2>a. starts[k] + j > 1
    BY SMT, <1>8, <2>1
  <2>2. starts[k] + j <= L + 1 /\ stream[starts[k] + j - 1] = asked[k][j]
    BY <1>8, <1>c, <2>a
  <2>3. st[k] + j - 1 \in Nat /\ st[k] + j - 1 >= 1 /\ st[k] + j - 1 < L
        /\ st[k] + j - 1 + 1 = starts[k] + j - 1
    <3>1. PICK u, v, w : u = starts[k] /\ v = st[k] /\ w = j
      OBVIOUS
    <3>2. u \in Int /\ v = u - 1 /\ w \in Nat /\ L \in Nat /\ u + w <= L + 1
      BY SMT, <1>2, <1>8, <2>1, <2>2, <3>1
    <3>3. v + w > 1
      BY SMT, <1>8, <3>1
    <3>4. v + w - 1 \in Nat /\ v + w - 1 >= 1 /\ v + w - 1 < L /\ v + w - 1 + 1 = u + w - 1
      BY SMT, <3>2, <3>3
    <3> QED
      BY <3>1, <3>4
  <2>4. stream'[st[k] + j - 1] = stream[st[k] + j - 1 + 1]
    BY <1>2, <2>3
  <2> QED
    BY SMTT(30), <1>2, <2>1, <2>2, <2>3, <2>4
<1>9. n + 1 \in Nat /\ starts[n + 1] \in Int /\ st[n + 1] = starts[n + 1] - 1
  BY SMT, <1>1, <1>3, <1>6
<1>10. st[n + 1] <= (L - 1) + 1
  BY SMT, <1>2, <1>9, <1>c
<1>11. ASSUME st[n + 1] <= L - 1
       PROVE  /\ link = "gone"
              /\ st[n + 1] >= 1 => stream'[st[n + 1]] = <<"size", BufferSize>>
              /\ L - 1 < st[n + 1] + BufferSize
  <2>1. link = "gone" /\ L < starts[n + 1] + BufferSize
    BY SMT, <1>2, <1>9, <1>11, <1>c
  <2>2. ASSUME st[n + 1] >= 1 PROVE stream'[st[n + 1]] = <<"size", BufferSize>>
    <3>1. stream[starts[n + 1]] = <<"size", BufferSize>>
      BY SMTT(30), <1>2, <1>9, <1>11, <1>c, <2>2
    <3>2. st[n + 1] \in Nat /\ st[n + 1] < L /\ st[n + 1] + 1 = starts[n + 1]
      BY SMTT(30), <1>2, <1>9, <1>11, <2>2
    <3> QED
      BY <1>2, <2>2, <3>1, <3>2
  <2>3. L - 1 < st[n + 1] + BufferSize
    <3>1. L \in Nat
      BY <1>2
    <3> QED
      BY SMT, Sizes, <1>9, <2>1, <3>1
  <2> QED
    BY <2>1, <2>2, <2>3
<1>12. Content(st)'
  BY <1>2, <1>7, <1>8, <1>10, <1>11 DEF Content, n, L
<1> QED
  BY <1>6, <1>12

LEMMA ErrorEnds ==
  ASSUME NEW out, NEW time, out \notin {"DeliverPacket", "GoToDeadline"}, rx' = Result(out, time)
  PROVE  ~Listening'
<1>1. rx'.pc = "done" /\ rx'.out = out
  BY ResultFields
<1> QED
  BY <1>1 DEF Listening

(* What the next byte is when a size is read: that of message h + 1, or of *)
(* the message the peer did not finish.                                    *)
LEMMA NextSize ==
  ASSUME TypeOK, NEW h, NEW starts, NEW np, NEW nd, Synced(h, starts, np, nd),
         rx.pc = "size", stream # <<>>
  PROVE  \/ /\ h + 1 \in 1..Len(asked) /\ h \in Nat
            /\ Head(stream) = <<"size", Len(asked[h + 1]) - 1>>
            /\ starts[h + 2] = 1 + Len(asked[h + 1])
            /\ Len(asked[h + 1]) \in Nat /\ Len(asked[h + 1]) >= 2
         \/ /\ link = "gone" /\ Head(stream) = <<"size", BufferSize>>
            /\ Len(stream) <= BufferSize
<1>1. /\ h \in 0..Len(asked) /\ Positions(starts) /\ Numbered(np, nd)
      /\ Content(starts) /\ starts[h + 1] = Off + 1 /\ Off = 0
  BY DEF Synced, InStep, Off
<1>2. Len(asked) \in Nat
  BY SeqTypes, LenNat
<1>3. stream \in Seq(Bytes)
  BY SeqTypes
<1>4. Len(stream) \in Nat /\ Len(stream) > 0 /\ Head(stream) = stream[1]
  BY SMT, <1>3
<1>5. starts[h + 1] = 1 /\ h \in Nat
  BY SMT, <1>1, <1>2
<1>6. CASE h < Len(asked)
  <2>1. h + 1 \in 1..Len(asked) /\ (h + 1) + 1 = h + 2 /\ 1 \in Nat \ {0}
    BY SMT, <1>2, <1>5, <1>6
  <2>2. /\ Len(asked[h + 1]) \in Nat /\ Len(asked[h + 1]) >= 2
        /\ asked[h + 1][1] = <<"size", Len(asked[h + 1]) - 1>>
    BY <1>1, <2>1, AskedShape
  <2>3. starts[h + 2] = starts[h + 1] + Len(asked[h + 1])
    BY <1>1, <2>1 DEF Content
  <2>4. 1 <= Len(asked[h + 1]) /\ starts[h + 1] + 1 > 1 /\ starts[h + 1] + 1 - 1 = 1
    BY SMT, <1>5, <2>2
  <2>5. stream[starts[h + 1] + 1 - 1] = asked[h + 1][1]
    BY <1>1, <2>1, <2>4 DEF Content
  <2>6. Head(stream) = <<"size", Len(asked[h + 1]) - 1>>
    BY <1>4, <2>2, <2>4, <2>5
  <2> QED
    BY <1>5, <2>1, <2>2, <2>3, <2>6
<1>7. CASE ~(h < Len(asked))
  <2>1. h = Len(asked)
    BY SMT, <1>1, <1>2, <1>5, <1>7
  <2>2. starts[Len(asked) + 1] = 1
    BY <1>5, <2>1
  <2>3. starts[Len(asked) + 1] <= Len(stream) /\ starts[Len(asked) + 1] >= 1
    BY SMT, <1>4, <2>2
  <2>4. /\ link = "gone" /\ stream[starts[Len(asked) + 1]] = <<"size", BufferSize>>
        /\ Len(stream) < starts[Len(asked) + 1] + BufferSize
    BY <1>1, <2>3 DEF Content
  <2>5. Len(stream) < 1 + BufferSize
    BY <2>2, <2>4
  <2>6. Len(stream) <= BufferSize
    BY SMT, <1>4, <2>5, Sizes
  <2> QED
    BY <1>4, <2>2, <2>4, <2>6
<1> QED
  BY <1>6, <1>7

LEMMA StreamReadSize == TypeOK /\ RxInv /\ StreamInv /\ ReceiveStep /\ read_prefixed_size => StreamInv'
<1> SUFFICES ASSUME TypeOK, RxInv, StreamInv, ReceiveStep, read_prefixed_size, Listening'
             PROVE StreamInv'
  BY DEF StreamInv
<1> DEFINE size == Head(stream)[2]
<1>1. /\ rx.pc = "size" /\ stream # <<>> /\ stream' = Tail(stream) /\ link' = link
      /\ rx' = IF size <= BufferSize THEN [rx EXCEPT !.pc = "allocate", !.size = size]
               ELSE Result("SizeTooBig", 0)
  BY DEF read_prefixed_size
<1>2. /\ asked' = asked /\ packets' = packets /\ deadlines' = deadlines /\ called' = called
      /\ state' = state /\ taken' = taken /\ app' = app /\ input_queue' = input_queue
      /\ UNCHANGED peerVars
  BY DEF ReceiveStep, peerVars, ctxVars, recvVars
<1>3. rx.read = 0 /\ rx \in RxTypes /\ stream \in Seq(Bytes)
  BY <1>1, RecvTypes, SeqTypes DEF RxInv
<1>4. rx' = [rx EXCEPT !.pc = "allocate", !.size = size]
  <2>1. "SizeTooBig" \notin {"DeliverPacket", "GoToDeadline"}
    BY SMT
  <2> QED
    BY <1>1, <2>1, ErrorEnds
<1>5. rx'.pc = "allocate" /\ rx'.size = size /\ rx'.read = 0
  BY <1>3, <1>4, RxUpdates
<1>6. Listening /\ ~Cut
  BY <1>1, <1>2 DEF Listening, Cut
<1>7. PICK h, starts, np, nd : Synced(h, starts, np, nd)
  BY <1>6 DEF StreamInv
<1>8. Off' = size - 0
  BY <1>5 DEF Off
<1>9. /\ Len(stream) \in Nat /\ Len(stream') = Len(stream) - 1
  BY SMT, <1>1, <1>3, TailBytes
<1>10. CASE /\ link = "gone" /\ Head(stream) = <<"size", BufferSize>> /\ Len(stream) <= BufferSize
  <2>1. size = BufferSize
    BY SMT, <1>10
  <2>2. Len(stream') < size - 0
    BY SMT, <1>9, <1>10, <2>1, Sizes
  <2>3. Cut'
    BY <1>1, <1>5, <1>8, <1>10, <2>2 DEF Cut
  <2> QED
    BY <2>3 DEF StreamInv
<1>11. CASE /\ h + 1 \in 1..Len(asked) /\ h \in Nat
            /\ Head(stream) = <<"size", Len(asked[h + 1]) - 1>>
            /\ starts[h + 2] = 1 + Len(asked[h + 1])
            /\ Len(asked[h + 1]) \in Nat /\ Len(asked[h + 1]) >= 2
  <2>1. size = Len(asked[h + 1]) - 1
    BY SMT, <1>11
  <2>2. PICK st : Positions(st) /\ Content(st)' /\ \A k \in Nat : st[k] = starts[k] - 1
    BY <1>1, <1>2, <1>7, ContentTail DEF Synced
  <2>3. h + 2 \in Nat /\ h + 1 \in Nat /\ (h + 1) + 1 = h + 2 /\ h + 1 > 0 /\ (h + 1) - 1 = h
        /\ 0..Len(asked) = 0..Len(asked') /\ Len(asked) \in Nat
    BY SMT, <1>2, <1>11, SeqTypes, LenNat
  <2>4. st[h + 2] = starts[h + 2] - 1
    BY <2>2, <2>3
  <2>5. st[h + 2] = (size - 0) + 1
    BY SMT, <1>11, <2>1, <2>4
  <2>6. size + 1 = Len(asked[h + 1])
    BY SMT, <1>11, <2>1
  <2>7. Between(h, np, nd)
    BY <1>1, <1>7 DEF Synced, InStep
  <2>8. Delivered' = Delivered
    BY <1>2 DEF Delivered, Popped
  <2>9. PICK g : g = h + 1
    OBVIOUS
  <2>10. Receives(g, np, nd)'
    BY <1>2, <1>5, <2>3, <2>6, <2>7, <2>8, <2>9 DEF Receives, Between
  <2>11. InStep(g, st, np, nd)'
    BY <1>5, <1>8, <2>3, <2>5, <2>9, <2>10 DEF InStep
  <2>12. Numbered(np, nd)'
    BY <1>2, <1>7, NumberedFrame DEF Synced
  <2>13. g \in 0..Len(asked)
    BY SMT, <1>11, <2>3, <2>9
  <2>14. Synced(g, st, np, nd)'
    BY <1>2, <1>7, <2>2, <2>11, <2>12, <2>13 DEF Synced
  <2> QED
    BY <2>14 DEF StreamInv
<1> QED
  BY <1>1, <1>7, <1>10, <1>11, NextSize

LEMMA StreamAllocated == TypeOK /\ RxInv /\ StreamInv /\ ReceiveStep /\ Allocated => StreamInv'
<1> SUFFICES ASSUME TypeOK, RxInv, StreamInv, ReceiveStep, Allocated PROVE StreamInv'
  BY SMT
<1>1. /\ rx.pc = "allocate" /\ rx' = [rx EXCEPT !.pc = "body"] /\ stream' = stream /\ link' = link
      /\ rx.read = 0 /\ rx \in RxTypes
  BY RecvTypes DEF Allocated, RxInv
<1>2. /\ asked' = asked /\ packets' = packets /\ deadlines' = deadlines /\ called' = called
      /\ state' = state /\ taken' = taken /\ app' = app /\ input_queue' = input_queue
      /\ UNCHANGED peerVars
  BY DEF ReceiveStep, peerVars, ctxVars, recvVars
<1>3. rx'.pc = "body" /\ rx'.size = rx.size /\ rx'.read = rx.read
  BY <1>1, RxUpdates
<1>4. Off' = Off /\ Delivered' = Delivered
  <2>1. Off = rx.size - rx.read
    BY <1>1 DEF Off
  <2>2. Off' = rx.size - rx.read
    BY <1>3 DEF Off
  <2> QED
    BY <1>2, <2>1, <2>2 DEF Delivered, Popped
<1>5. Listening' => Listening
  BY <1>1, <1>2 DEF Listening
<1>6. CASE Cut
  BY <1>1, <1>3, <1>4, <1>6 DEF Cut, StreamInv
<1>7. CASE \E h, starts, np, nd : Synced(h, starts, np, nd)
  <2>1. PICK h, starts, np, nd : Synced(h, starts, np, nd)
    BY <1>7
  <2>2. \A j : j \in 1..rx'.read => FALSE
    BY SMT, <1>1, <1>3
  <2>3. Receives(h, np, nd)
    BY <1>1, <2>1 DEF Synced, InStep
  <2>4. Receives(h, np, nd)'
    BY <1>1, <1>2, <1>3, <1>4, <2>2, <2>3 DEF Receives
  <2>5. InStep(h, starts, np, nd)'
    BY <1>3, <1>4, <2>1, <2>4 DEF InStep, Synced
  <2>6. Synced(h, starts, np, nd)'
    BY <1>1, <1>2, <2>1, <2>5, SyncedFrame
  <2> QED
    BY <2>6 DEF StreamInv
<1> QED
  BY <1>5, <1>6, <1>7 DEF StreamInv

LEMMA StreamAllocateScan == TypeOK /\ StreamInv /\ ReceiveStep /\ AllocateScan => StreamInv'
<1> SUFFICES ASSUME TypeOK, StreamInv, ReceiveStep, AllocateScan PROVE StreamInv'
  BY SMT
<1>1. /\ stream' = stream /\ link' = link /\ memory' = memory /\ got' = got
      /\ rx' = rx \/ rx' = Result("NoBufferAvailable", 0)
  BY DEF AllocateScan, Pool!SwapBusy
<1>2. /\ called' = called /\ state' = state /\ taken' = taken /\ app' = app
      /\ input_queue' = input_queue /\ UNCHANGED peerVars
  BY DEF ReceiveStep, peerVars, ctxVars, recvVars
<1>3. CASE rx' = rx
  <2>1. Delivered' = Delivered /\ (Listening' => Listening)
    BY <1>2, <1>3 DEF Delivered, Popped, Listening
  <2> QED
    BY <1>1, <1>2, <1>3, <2>1, StreamFrame
<1>4. CASE rx' = Result("NoBufferAvailable", 0)
  <2>1. "NoBufferAvailable" \notin {"DeliverPacket", "GoToDeadline"}
    BY SMT
  <2> QED
    BY <1>4, <2>1, ErrorEnds DEF StreamInv
<1> QED
  BY <1>1, <1>3, <1>4

LEMMA StreamEof == UnexpectedEof => StreamInv'
<1>1. "UnexpectedEof" \notin {"DeliverPacket", "GoToDeadline"}
  BY SMT
<1> QED
  BY <1>1, ErrorEnds DEF UnexpectedEof, StreamInv

(* Two buffers have no byte in common.                                     *)
LEMMA ByteInjective ==
  ASSUME NEW i \in 1..NumBuffers, NEW j \in 1..NumBuffers,
         NEW k \in 1..BufferSize, NEW l \in 1..BufferSize, NEW s, NEW t,
         Byte(i, s, k) = Byte(j, t, l)
  PROVE  i = j /\ k = l
<1>1. i - 1 \in Nat /\ j - 1 \in Nat /\ i \in Nat /\ j \in Nat /\ k \in Nat /\ l \in Nat
      /\ k <= BufferSize /\ l <= BufferSize /\ k > 0 /\ l > 0
  BY SMT, Sizes
<1>2. BufferSize * (i - 1) + k = BufferSize * (j - 1) + l
  BY SMT DEF Byte, BufferStart
<1>3. BufferSize * (i - 1) \in Nat /\ BufferSize * (j - 1) \in Nat
  BY Sizes, <1>1, SMTT(20)
<1>4. ASSUME i < j PROVE FALSE
  <2>1. BufferSize * (i - 1) + BufferSize <= BufferSize * (j - 1)
    BY SMTT(30), <1>1, <1>4, Blocks
  <2> QED
    BY SMTT(30), Sizes, <1>1, <1>2, <1>3, <2>1
<1>5. ASSUME j < i PROVE FALSE
  <2>1. BufferSize * (j - 1) + BufferSize <= BufferSize * (i - 1)
    BY SMT, <1>1, <1>5, Blocks
  <2> QED
    BY SMTT(30), Sizes, <1>1, <1>2, <1>3, <2>1
<1>6. i = j
  BY SMT, <1>1, <1>4, <1>5
<1> QED
  BY SMTT(30), <1>1, <1>2, <1>3, <1>6

(* read_exact writes one byte of its own buffer.                           *)
LEMMA ReadByte ==
  ASSUME TypeOK, RxInv, read_exact
  PROVE  /\ got[Receiver] \in 1..NumBuffers
         /\ memory'[Byte(got[Receiver], rx.size, 1 + rx.read)] = Head(stream)
         /\ \A b \in 1..NumBuffers, k \in 1..BufferSize : \A s :
              b # got[Receiver] \/ k # 1 + rx.read => memory'[Byte(b, s, k)] = memory[Byte(b, s, k)]
<1> DEFINE a == Byte(got[Receiver], rx.size, 1 + rx.read)
<1>1. /\ rx.pc = "body" /\ rx.read < rx.size /\ memory' = [memory EXCEPT ![a] = Head(stream)]
      /\ memory \in [1..NumBuffers * BufferSize -> Bytes]
  BY RecvTypes DEF read_exact
<1>2. got[Receiver] \in 1..NumBuffers
  <2>1. got[Receiver] # 0
    BY <1>1 DEF RxInv, RecvHolds
  <2>2. got[Receiver] \in 0..NumBuffers
    BY RecvTypes DEF Pool!TypeOK
  <2> QED
    BY SMT, <2>1, <2>2, Sizes
<1>3. 1 + rx.read \in 1..BufferSize
  BY SMT, <1>1, RxNats, Sizes
<1>4. a \in 1..NumBuffers * BufferSize
  BY <1>2, <1>3, ByteInMemory
<1>5. memory'[a] = Head(stream)
  BY <1>1, <1>4
<1>6. ASSUME NEW b \in 1..NumBuffers, NEW k \in 1..BufferSize, NEW s,
             b # got[Receiver] \/ k # 1 + rx.read
      PROVE  memory'[Byte(b, s, k)] = memory[Byte(b, s, k)]
  <2>1. Byte(b, s, k) # a
    <3>1. PICK i, l : i = got[Receiver] /\ l = 1 + rx.read
      OBVIOUS
    <3>2. i \in 1..NumBuffers /\ l \in 1..BufferSize /\ (b # i \/ k # l)
      BY <1>2, <1>3, <1>6, <3>1
    <3>3. Byte(b, s, k) # Byte(i, rx.size, l)
      BY SMT, <3>2, ByteInjective
    <3> QED
      BY <3>1, <3>3
  <2>2. Byte(b, s, k) \in 1..NumBuffers * BufferSize
    BY ByteInMemory
  <2> QED
    BY <1>1, <2>1, <2>2
<1> QED
  BY <1>2, <1>5, <1>6

LEMMA StreamReadExact == TypeOK /\ RxInv /\ StreamInv /\ ReceiveStep /\ read_exact => StreamInv'
<1> SUFFICES ASSUME TypeOK, RxInv, StreamInv, ReceiveStep, read_exact PROVE StreamInv'
  BY SMT
<1>1. /\ rx.pc = "body" /\ rx.read < rx.size /\ stream # <<>> /\ stream' = Tail(stream) /\ link' = link
      /\ rx' = [rx EXCEPT !.read = rx.read + 1] /\ rx \in RxTypes /\ got' = got
  BY RecvTypes DEF read_exact, poolVars
<1>2. /\ asked' = asked /\ packets' = packets /\ deadlines' = deadlines /\ called' = called
      /\ state' = state /\ taken' = taken /\ app' = app /\ input_queue' = input_queue
      /\ UNCHANGED peerVars
  BY DEF ReceiveStep, peerVars, ctxVars, recvVars
<1>3. rx'.pc = "body" /\ rx'.size = rx.size /\ rx'.read = rx.read + 1
  BY <1>1, RxUpdates
<1>4. Off' = rx.size - (rx.read + 1) /\ Off = rx.size - rx.read /\ Delivered' = Delivered
  BY <1>1, <1>2, <1>3 DEF Off, Delivered, Popped
<1>5. Listening' => Listening
  BY <1>1, <1>2 DEF Listening
<1>6. stream \in Seq(Bytes)
  BY SeqTypes
<1>7. Len(stream) \in Nat /\ Len(stream') = Len(stream) - 1 /\ Head(stream) = stream[1]
  BY SMT, <1>1, <1>6, TailBytes
<1>8. CASE Cut
  <2>1. Len(stream') < Off'
    BY SMTT(30), <1>4, <1>7, <1>8, RxNats DEF Cut
  <2> QED
    BY <1>1, <1>3, <1>8, <2>1 DEF Cut, StreamInv
<1>9. CASE \E h, starts, np, nd : Synced(h, starts, np, nd)
  <2>1. PICK h, starts, np, nd : Synced(h, starts, np, nd)
    BY <1>9
  <2>2. PICK st : Positions(st) /\ Content(st)' /\ \A k \in Nat : st[k] = starts[k] - 1
    BY <1>1, <1>2, <2>1, ContentTail DEF Synced
  <2>3. Receives(h, np, nd)
    BY <1>1, <2>1 DEF Synced, InStep
  <2>4. /\ h > 0 /\ rx.size + 1 = Len(asked[h]) /\ h \in 0..Len(asked)
        /\ starts[h + 1] = Off + 1 /\ Content(starts) /\ Positions(starts) /\ Numbered(np, nd)
        /\ \A j \in 1..rx.read : memory[Byte(got[Receiver], rx.size, j)] = asked[h][j + 1]
    BY <1>1, <2>1, <2>3 DEF Receives, Synced, InStep
  <2>5. Len(asked) \in Nat
    BY SeqTypes, LenNat
  <2>6. h \in 1..Len(asked) /\ h \in Nat /\ h + 1 \in Nat
    BY SMT, <2>4, <2>5
  <2>7. starts[h + 1] = starts[h] + Len(asked[h])
    BY <2>4, <2>6 DEF Content
  <2>8. starts[h] \in Int /\ starts[h + 1] \in Int
    BY <2>4, <2>6, PosInt
  <2>9. PICK j : j = rx.read + 2
    OBVIOUS
  <2>a. /\ rx.read \in Nat /\ rx.size \in Nat /\ rx.read < rx.size /\ rx.size + 1 = Len(asked[h])
        /\ starts[h] \in Int /\ starts[h] + Len(asked[h]) = (rx.size - rx.read) + 1
    BY <1>1, <1>4, <2>4, <2>7, <2>8, RxNats
  <2>10. /\ j \in Nat \ {0} /\ j <= Len(asked[h]) /\ starts[h] + j > 1 /\ starts[h] + j - 1 = 1
         /\ (1 + rx.read) + 1 = j
    <3>1. PICK read, size, len, first :
            /\ read = rx.read /\ size = rx.size /\ len = Len(asked[h]) /\ first = starts[h]
      OBVIOUS
    <3>2. /\ read \in Nat /\ size \in Nat /\ read < size /\ size + 1 = len /\ first \in Int
          /\ first + len = (size - read) + 1 /\ j = read + 2
      BY <2>9, <2>a, <3>1
    <3>3. /\ j \in Nat \ {0} /\ j <= len /\ first + j > 1 /\ first + j - 1 = 1 /\ (1 + read) + 1 = j
      BY SMT, <3>2
    <3> QED
      BY <3>1, <3>3
  <2>11. Head(stream) = asked[h][(1 + rx.read) + 1]
    BY <1>7, <2>4, <2>6, <2>10 DEF Content
  <2>12. ASSUME NEW k \in 1..rx'.read
         PROVE  memory'[Byte(got[Receiver], rx.size, k)] = asked[h][k + 1]
    <3>1. CASE k = 1 + rx.read
      BY <2>11, <3>1, ReadByte
    <3>2. CASE k # 1 + rx.read
      <4>1. k \in 1..rx.read /\ k \in 1..BufferSize
        BY SMTT(30), <1>1, <1>3, <3>2, RxNats, Sizes
      <4>2. memory'[Byte(got[Receiver], rx.size, k)] = memory[Byte(got[Receiver], rx.size, k)]
        BY <3>2, <4>1, ReadByte
      <4> QED
        BY <2>4, <4>1, <4>2
    <3> QED
      BY <3>1, <3>2
  <2>13. Receives(h, np, nd)'
    BY <1>1, <1>2, <1>3, <1>4, <2>3, <2>4, <2>12 DEF Receives
  <2>14. st[h + 1] = Off' + 1
    <3>1. st[h + 1] = starts[h + 1] - 1
      BY <2>2, <2>6
    <3>2. rx.size \in Nat /\ rx.read \in Nat
      BY RxNats
    <3> QED
      BY SMTT(30), <1>4, <2>4, <3>1, <3>2
  <2>15. InStep(h, st, np, nd)'
    BY <1>3, <2>13, <2>14 DEF InStep
  <2>16. Numbered(np, nd)'
    BY <1>2, <2>4, NumberedFrame
  <2>17. Synced(h, st, np, nd)'
    BY <1>2, <2>1, <2>2, <2>4, <2>15, <2>16 DEF Synced
  <2> QED
    BY <2>17 DEF StreamInv
<1> QED
  BY <1>5, <1>8, <1>9 DEF StreamInv

LEMMA StreamDecode == TypeOK /\ RxInv /\ StreamInv /\ ReceiveStep /\ Decode => StreamInv'
<1> SUFFICES ASSUME TypeOK, RxInv, StreamInv, ReceiveStep, Decode, Listening' PROVE StreamInv'
  BY DEF StreamInv
<1> DEFINE fb == memory[Byte(got[Receiver], rx.size, 1)]
<1>1. /\ rx.pc = "body" /\ rx.read = rx.size /\ stream' = stream /\ link' = link /\ memory' = memory
      /\ got' = got /\ rx \in RxTypes
  BY RecvTypes DEF Decode, poolVars, Pool!free_buffer
<1>2. /\ asked' = asked /\ packets' = packets /\ deadlines' = deadlines /\ called' = called
      /\ state' = state /\ taken' = taken /\ app' = app /\ input_queue' = input_queue
      /\ UNCHANGED peerVars
  BY DEF ReceiveStep, peerVars, ctxVars, recvVars
<1>3. Listening
  BY <1>1, <1>2 DEF Listening
<1>4. ~Cut
  <2>1. Off = rx.size - rx.size /\ rx.size \in Nat
    BY <1>1, RxNats DEF Off
  <2>2. Len(stream) \in Nat
    BY SeqTypes, LenNat
  <2>3. ~(Len(stream) < Off)
    BY SMT, <2>1, <2>2
  <2> QED
    BY <2>3 DEF Cut
<1>5. PICK h, starts, np, nd : Synced(h, starts, np, nd)
  BY <1>3, <1>4 DEF StreamInv
<1>6. /\ h \in 1..Len(asked) /\ starts[h + 1] = 1
      /\ Len(asked[h]) = rx.size + 1 /\ fb = asked[h][2]
      /\ \A j \in Nat : j >= 1 /\ j <= rx.size =>
           memory[Byte(got[Receiver], rx.size, j)] = asked[h][j + 1]
  BY <1>5, MessageRead
<1>7. /\ Receives(h, np, nd) /\ Numbered(np, nd) /\ Counts(np, nd)
      /\ h > 0 /\ Delivered = np[h - 1] /\ Len(called) = nd[h - 1]
  BY <1>1, <1>5 DEF Synced, InStep, Receives
<1>8. Delivered' = Delivered
  BY <1>2 DEF Delivered, Popped
<1>9. packets \in Seq(Seq(Bytes)) /\ deadlines \in Seq(Nat)
  BY SeqTypes
<1>10. rx.size \in Nat
  BY RxNats
<1>11. ASSUME rx'.pc = "done", Receives(h, np, nd)' PROVE StreamInv'
  <2>1. Off' = 0
    BY <1>11 DEF Off
  <2>2. starts[h + 1] = 0 + 1
    BY SMT, <1>6
  <2>3. InStep(h, starts, np, nd)'
    BY <1>11, <2>1, <2>2 DEF InStep
  <2>4. Synced(h, starts, np, nd)'
    BY <1>1, <1>2, <1>5, <2>3, SyncedFrame
  <2> QED
    BY <2>4 DEF StreamInv
<1>12. CASE IsPacket(h, np, nd, asked, packets)
  <2>1. PICK packet : packet = packets[np[h]]
    OBVIOUS
  <2>2. np[h] \in 1..Len(packets) /\ asked[h] = deliver_packet(packet)
    BY <1>12, <2>1 DEF IsPacket
  <2>3. packet \in Seq(Bytes)
    BY <1>9, <2>1, <2>2, SeqElem
  <2>4. /\ Len(asked[h]) = 2 + Len(packet)
        /\ fb = <<"flatbuffer", "DeliverPacket", <<0, 0>>>>
        /\ \A j \in 1..Len(packet) : asked[h][2 + j] = packet[j]
    BY <1>6, <2>2, <2>3, DeliverShape
  <2>5. Len(packet) \in Nat
    BY <2>3, LenNat
  <2>6. fb[2] = "DeliverPacket"
    BY SMT, <2>4
  <2>7. rx' = new_deliver_packet
    BY <2>6 DEF Decode
  <2>8. rx'.pc = "done" /\ rx'.size = rx.size /\ rx'.out = "DeliverPacket"
    BY <1>1, <2>7, RxUpdates
  <2>9. rx.size = 1 + Len(packet)
    <3>1. 2 + Len(packet) = rx.size + 1
      BY <1>6, <2>4
    <3> QED
      BY SMT, <1>10, <2>5, <3>1
  <2>10. ASSUME NEW j \in 1..Len(packet)
         PROVE  memory[Byte(got[Receiver], rx.size, 1 + j)] = packet[j]
    <3>1. 1 + j \in Nat /\ 1 + j >= 1 /\ 1 + j <= rx.size /\ (1 + j) + 1 = 2 + j
      BY SMT, <2>5, <2>9
    <3> QED
      BY <1>6, <2>4, <3>1
  <2>11. Carries(got[Receiver], rx.size, packet)
    BY <2>9, <2>10 DEF Carries
  <2>12. Carries(got[Receiver], rx.size, packet)'
    BY <1>1, <2>8, <2>9, <2>10 DEF Carries
  <2>13. IsPacket(h, np, nd, asked', packets')
    BY <1>2, <1>12
  <2>14. Receives(h, np, nd)'
    BY <1>1, <1>2, <1>7, <1>8, <2>1, <2>8, <2>12, <2>13 DEF Receives
  <2> QED
    BY <1>11, <2>8, <2>14
<1>13. CASE IsDeadline(h, np, nd, asked, deadlines)
  <2>1. PICK t : t = deadlines[nd[h]]
    OBVIOUS
  <2>2. nd[h] \in 1..Len(deadlines) /\ asked[h] = goto_deadline(t)
    BY <1>13, <2>1 DEF IsDeadline
  <2>3. t \in Nat
    BY <1>9, <2>1, <2>2, SeqElem
  <2>4. fb = <<"flatbuffer", "GotoDeadline", <<t \div NsPerSec, t % NsPerSec>>>>
    BY <1>6, <2>2, <2>3, GotoShape
  <2>5. /\ fb[2] = "GotoDeadline" /\ fb[2] # "DeliverPacket"
        /\ fb[3][1] = t \div NsPerSec /\ fb[3][2] = t % NsPerSec
    BY SMT, <2>4
  <2>6. rx' = DecodedTime(fb[3])
    BY <2>5 DEF Decode
  <2>7. /\ t % NsPerSec < NsPerSec /\ (t \div NsPerSec) * NsPerSec + (t % NsPerSec) = t
    BY <2>3, TimespecExact
  <2>8. rx' = Result("GoToDeadline", t)
    BY <2>5, <2>6, <2>7 DEF DecodedTime
  <2>9. rx'.pc = "done" /\ rx'.out = "GoToDeadline" /\ rx'.time = t
    BY <2>8, ResultFields
  <2>10. IsDeadline(h, np, nd, asked', deadlines')
    BY <1>2, <1>13
  <2>11. Receives(h, np, nd)'
    BY <1>1, <1>2, <1>7, <1>8, <2>1, <2>9, <2>10 DEF Receives
  <2> QED
    BY <1>11, <2>9, <2>11
<1>14. CASE IsLast(h, np, nd, asked)
  <2>1. ASSUME NEW out, out \notin {"DeliverPacket", "GoToDeadline"}, rx' = Result(out, 0) PROVE FALSE
    BY <2>1, ErrorEnds
  <2>2. CASE asked[h] = end_simulation
    <3>1. fb = <<"flatbuffer", "EndSimulation", <<0, 0>>>>
      BY <1>6, <2>2, EndShape
    <3>2. fb[2] = "EndSimulation" /\ fb[2] \notin {"DeliverPacket", "GoToDeadline", "GotoDeadline"}
      BY SMT, <3>1
    <3>3. rx' = Result(fb[2], 0)
      BY <3>2 DEF Decode
    <3> QED
      BY <2>1, <3>2, <3>3
  <2>3. CASE \E m \in OtherMsgs : asked[h] = Message(m[1], m[2], <<>>)
    <3>1. PICK m \in OtherMsgs : asked[h] = Message(m[1], m[2], <<>>)
      BY <2>3
    <3>2. fb = <<"flatbuffer", m[1], m[2]>>
      BY <1>6, <3>1, OtherShape
    <3>3. fb[2] = m[1] /\ fb[3] = m[2]
      BY SMT, <3>2
    <3>4. CASE m[1] = "GotoDeadline"
      <4>1. m[2][2] \in Nat /\ m[2][2] >= NsPerSec
        BY SMT, <3>4, OtherShape DEF Timespecs
      <4>2. ~(m[2][2] < NsPerSec)
        BY SMT, <4>1, Sizes
      <4>3. fb[2] = "GotoDeadline" /\ fb[2] # "DeliverPacket"
        BY SMT, <3>3, <3>4
      <4>4. rx' = DecodedTime(m[2])
        BY <3>3, <4>3 DEF Decode
      <4>5. rx' = Result("TimeOutOfBounds", 0)
        BY <4>2, <4>4 DEF DecodedTime
      <4>6. "TimeOutOfBounds" \notin {"DeliverPacket", "GoToDeadline"}
        BY SMT
      <4> QED
        BY <2>1, <4>5, <4>6
    <3>5. CASE m[1] = "Malformed"
      <4>1. fb[2] = "Malformed" /\ fb[2] \notin {"DeliverPacket", "GoToDeadline", "GotoDeadline"}
        BY SMT, <3>3, <3>5
      <4>2. rx' = Result(fb[2], 0)
        BY <4>1 DEF Decode
      <4> QED
        BY <2>1, <4>1, <4>2
    <3> QED
      BY <3>4, <3>5, OtherShape
  <2> QED
    BY <1>14, <2>2, <2>3 DEF IsLast
<1> QED
  BY <1>6, <1>7, <1>12, <1>13, <1>14 DEF Numbered

(* The stream invariant along the calls and the handler.                   *)
LEMMA StreamCalls ==
  ASSUME TypeOK, ContextInv, StreamInv,
         \/ \E argv \in Argvs, connected \in BOOLEAN : vsg_init(argv, connected)
         \/ vsg_cleanup \/ vsg_stop \/ StopReturn \/ RecvCopy \/ vsg_poll
         \/ \E len \in Lens : vsg_send(len)
  PROVE  StreamInv'
<1>1. UNCHANGED <<stream, rx, memory, called>> /\ UNCHANGED peerVars /\ link' = link /\ got' = got
      /\ taken' = taken /\ input_queue' = input_queue
  BY DEF vsg_init, vsg_cleanup, vsg_stop, StopReturn, RecvCopy, vsg_poll, vsg_send, connectorVars,
     poolVars, recvVars
<1>2. app'.pc = "copy" <=> app.pc = "copy"
  <2>1. CASE vsg_stop \/ StopReturn
    BY SMT, <2>1 DEF vsg_stop, StopReturn, Idle
  <2>2. CASE RecvCopy
    <3>1. app \in AppTypes
      BY DEF TypeOK
    <3> QED
      BY SMT, <2>2, <3>1 DEF RecvCopy, AppTypes
  <2>3. CASE app' = app
    BY <2>3
  <2> QED
    BY <2>1, <2>2, <2>3 DEF vsg_init, vsg_cleanup, vsg_poll, vsg_send, recvVars
<1>3. Delivered' = Delivered
  BY <1>1, <1>2 DEF Delivered, Popped
<1>4. Listening' => Listening
  <2>1. state' = state \/ state' = "dropped" \/ (state = "none" /\ rx.pc = "idle")
    <3>1. CASE \E argv \in Argvs, connected \in BOOLEAN : vsg_init(argv, connected)
      <4>1. state = "none" => rx.pc = "idle"
        BY DEF ContextInv
      <4>2. PICK argv \in Argvs, connected \in BOOLEAN : vsg_init(argv, connected)
        BY <3>1
      <4>3. state' = state \/ register
        BY <4>2 DEF vsg_init
      <4> QED
        BY <4>1, <4>3 DEF ContextInv, register
    <3>2. CASE vsg_cleanup
      BY <3>2 DEF vsg_cleanup, DropContext
    <3> QED
      BY <3>1, <3>2 DEF vsg_stop, StopReturn, RecvCopy, vsg_poll, vsg_send, ctxVars
  <2>2. CASE state' = state
    BY <1>1, <2>2 DEF Listening
  <2>3. CASE state' = "dropped"
    BY SMT, <2>3 DEF Listening
  <2>4. CASE state = "none" /\ rx.pc = "idle"
    BY SMT, <2>4 DEF Listening
  <2> QED
    BY <2>1, <2>2, <2>3, <2>4
<1> QED
  BY <1>1, <1>3, <1>4, StreamFrame

(* Whatever becomes of a packet that is popped, its number is counted.     *)
LEMMA PoppedCounts ==
  ASSUME TypeOK, (\E len \in Lens : vsg_recv(len)) \/ RecvReturn
  PROVE  Delivered' = Delivered
<1>0. taken \in Seq(Seq(Bytes) \cup {Lost}) /\ app.copy \in Seq(Bytes)
      /\ input_queue \in Seq([buffer : 1..NumBuffers, size : 1..BufferSize])
  <2>1. app \in AppTypes
    BY DEF TypeOK
  <2> QED
    BY SMT, <2>1, SeqTypes DEF AppTypes
<1>1. CASE \E len \in Lens : vsg_recv(len)
  <2>1. PICK len \in Lens : vsg_recv(len)
    BY <1>1
  <2>2. CASE UNCHANGED <<input_queue, app, taken>>
    BY <2>2 DEF Delivered, Popped
  <2>3. CASE /\ input_queue # <<>> /\ input_queue' = Tail(input_queue) /\ taken' = taken
             /\ app'.pc = "copy"
    <3>1. app.pc = "idle"
      BY <2>1 DEF vsg_recv
    <3>2. Len(input_queue') = Len(input_queue) - 1 /\ Len(input_queue) \in Nat /\ Len(taken) \in Nat
      BY SMT, <1>0, <2>3
    <3> QED
      BY SMT, <2>3, <3>1, <3>2 DEF Delivered, Popped
  <2>4. CASE /\ input_queue # <<>> /\ input_queue' = Tail(input_queue) /\ taken' = Append(taken, Lost)
             /\ app' = app
    <3>1. app.pc = "idle"
      BY <2>1 DEF vsg_recv
    <3>2. Len(input_queue') = Len(input_queue) - 1 /\ Len(input_queue) \in Nat
      BY SMT, <1>0, <2>4
    <3>3. Len(taken') = Len(taken) + 1 /\ Len(taken) \in Nat
      BY SMT, <1>0, <2>4
    <3> QED
      BY SMT, <2>4, <3>1, <3>2, <3>3 DEF Delivered, Popped
  <2> QED
    BY SMT, <2>1, <2>2, <2>3, <2>4 DEF vsg_recv
<1>2. CASE RecvReturn
  <2>1. app.pc = "copy" /\ app'.pc = "idle" /\ taken' = Append(taken, app.copy)
        /\ input_queue' = input_queue
    BY SMT, <1>2 DEF RecvReturn, Idle
  <2>2. Len(taken') = Len(taken) + 1 /\ Len(taken) \in Nat /\ Len(input_queue) \in Nat
    BY SMT, <1>0, <2>1
  <2> QED
    BY SMT, <2>1, <2>2 DEF Delivered, Popped
<1> QED
  BY <1>1, <1>2

LEMMA StreamPops ==
  ASSUME TypeOK, StreamInv, (\E len \in Lens : vsg_recv(len)) \/ RecvReturn
  PROVE  StreamInv'
<1>1. /\ UNCHANGED <<stream, rx, memory, called>> /\ UNCHANGED peerVars /\ link' = link /\ got' = got
      /\ state' = state
  BY DEF vsg_recv, RecvReturn, poolVars, ctxVars, Pool!free_buffer
<1>2. Listening' => Listening
  BY <1>1 DEF Listening
<1> QED
  BY <1>1, <1>2, PoppedCounts, StreamFrame

(* recv is called: by vsg_start, or by deadline_handler.                   *)
LEMMA StreamBegins ==
  ASSUME TypeOK, ContextInv, StreamInv, vsg_start \/ deadline_handler
  PROVE  StreamInv'
<1>1. /\ stream' = stream /\ called' = called /\ UNCHANGED peerVars
      /\ taken' = taken /\ input_queue' = input_queue
      /\ asked' = asked /\ (link = "gone" => link' = "gone")
  BY DEF vsg_start, deadline_handler, recvVars, peerVars
<1>2. app'.pc = "copy" <=> app.pc = "copy"
  <2>1. CASE vsg_start
    BY SMT, <2>1 DEF vsg_start, Idle
  <2>2. CASE deadline_handler
    BY <2>2 DEF deadline_handler, recvVars
  <2> QED
    BY <2>1, <2>2
<1>3. Delivered' = Delivered
  BY <1>1, <1>2 DEF Delivered, Popped
<1>4. rx.pc = "idle" /\ state \in {"new", "running"}
  BY SMT DEF ContextInv, vsg_start, deadline_handler
<1>5. Listening /\ ~Cut
  BY SMT, <1>4 DEF Listening, Cut
<1>6. PICK h, starts, np, nd : Synced(h, starts, np, nd)
  BY <1>5 DEF StreamInv
<1>7. CASE rx' = Receiving
  <2>1. rx'.pc = "size"
    BY <1>7, RxFields
  <2>2. Off = 0 /\ Off' = 0
    BY SMT, <1>4, <2>1 DEF Off
  <2>3. Between(h, np, nd) /\ starts[h + 1] = Off + 1
    BY SMT, <1>4, <1>6 DEF Synced, InStep
  <2>4. Between(h, np, nd)'
    BY <1>1, <1>3, <2>3 DEF Between
  <2>5. InStep(h, starts, np, nd)'
    BY SMT, <2>1, <2>2, <2>3, <2>4 DEF InStep
  <2>6. Synced(h, starts, np, nd)'
    BY <1>1, <1>6, <2>5, SyncedFrame
  <2> QED
    BY <2>6 DEF StreamInv
<1>8. CASE state' = "ended"
  BY SMT, <1>8 DEF StreamInv, Listening
<1> QED
  BY <1>7, <1>8 DEF vsg_start, deadline_handler

(* A message has been dealt with.                                          *)
LEMMA StreamDone ==
  ASSUME TypeOK, StreamInv, Listening, rx.pc = "done",
         rx'.pc \in {"idle", "size"}, stream' = stream, link' = link, UNCHANGED peerVars,
         \/ /\ rx.out = "DeliverPacket"
            /\ Delivered' = Delivered + 1 /\ Len(called') = Len(called)
         \/ /\ rx.out = "GoToDeadline"
            /\ Delivered' = Delivered /\ Len(called') = Len(called) + 1
  PROVE  StreamInv'
<1>1. ~Cut
  BY SMT DEF Cut
<1>2. PICK h, starts, np, nd : Synced(h, starts, np, nd)
  BY <1>1 DEF StreamInv
<1>3. Receives(h, np, nd) /\ starts[h + 1] = Off + 1
  BY SMT, <1>2 DEF Synced, InStep
<1>4. Off = 0 /\ Off' = 0
  BY SMT DEF Off
<1>5. Delivered' = np[h] /\ Len(called') = nd[h]
  <2>1. Delivered = np[h - 1] /\ Len(called) = nd[h - 1]
    BY <1>3 DEF Receives
  <2>2. CASE rx.out = "DeliverPacket"
    <3>1. np[h] = np[h - 1] + 1 /\ nd[h] = nd[h - 1]
      BY <1>3, <2>2 DEF Receives, IsPacket
    <3>2. Delivered' = Delivered + 1 /\ Len(called') = Len(called)
      BY SMT, <2>2
    <3> QED
      BY <2>1, <3>1, <3>2
  <2>3. CASE rx.out = "GoToDeadline"
    <3>1. np[h] = np[h - 1] /\ nd[h] = nd[h - 1] + 1
      BY <1>3, <2>3 DEF Receives, IsDeadline
    <3>2. Delivered' = Delivered /\ Len(called') = Len(called) + 1
      BY SMT, <2>3
    <3> QED
      BY <2>1, <3>1, <3>2
  <2> QED
    BY <2>2, <2>3
<1>6. Between(h, np, nd)'
  BY <1>5 DEF Between
<1>7. rx'.pc \notin {"allocate", "body", "done"}
  BY SMT
<1>8. InStep(h, starts, np, nd)'
  BY <1>3, <1>4, <1>6, <1>7 DEF InStep
<1>9. Synced(h, starts, np, nd)'
  BY <1>2, <1>8, SyncedFrame
<1> QED
  BY <1>9 DEF StreamInv

LEMMA StreamStartReturn ==
  ASSUME TypeOK, ContextInv, StreamInv, StartReturn
  PROVE  StreamInv'
<1>1. CASE state' = "failed"
  BY SMT, <1>1 DEF StreamInv, Listening
<1>2. CASE state' # "failed"
  <2>1. /\ rx.out = "GoToDeadline" /\ state = "starting" /\ rx.pc = "done"
        /\ called' = Append(called, duration_to_timespec(rx.time))
        /\ rx' = NotReceiving /\ stream' = stream /\ link' = link /\ UNCHANGED peerVars
        /\ taken' = taken /\ input_queue' = input_queue /\ app' = Idle
    BY <1>2 DEF StartReturn
  <2>2. Listening
    BY SMT, <2>1 DEF Listening
  <2>3. app.pc # "copy" /\ app'.pc # "copy"
    BY SMT, <2>1 DEF ContextInv, Idle
  <2>4. Delivered' = Delivered
    BY <2>1, <2>3 DEF Delivered, Popped
  <2>5. called \in Seq(Timespecs)
    BY SeqTypes
  <2>6. Len(called') = Len(called) + 1
    BY SMT, <2>1, <2>5 DEF duration_to_timespec
  <2>7. rx'.pc \in {"idle", "size"}
    BY <2>1, RxFields
  <2> QED
    BY <2>1, <2>2, <2>4, <2>6, <2>7, StreamDone
<1> QED
  BY <1>1, <1>2

LEMMA StreamHandlerReturn ==
  ASSUME TypeOK, ContextInv, StreamInv, HandlerReturn
  PROVE  StreamInv'
<1>1. CASE rx.out # "GoToDeadline"
  <2>1. state' \in {"dropped", "ended"}
    BY SMT, <1>1 DEF HandlerReturn, DropContext
  <2> QED
    BY SMT, <2>1 DEF StreamInv, Listening
<1>2. CASE rx.out = "GoToDeadline"
  <2>1. /\ state = "deadline" /\ rx.pc = "done"
        /\ called' = Append(called, duration_to_timespec(rx.time))
        /\ rx' = NotReceiving /\ stream' = stream /\ link' = link /\ UNCHANGED peerVars
        /\ taken' = taken /\ input_queue' = input_queue /\ app' = app
    BY <1>2 DEF HandlerReturn, recvVars
  <2>2. Listening
    BY SMT, <1>2, <2>1 DEF Listening
  <2>4. Delivered' = Delivered
    BY <2>1 DEF Delivered, Popped
  <2>5. called \in Seq(Timespecs)
    BY SeqTypes
  <2>6. Len(called') = Len(called) + 1
    BY SMT, <2>1, <2>5 DEF duration_to_timespec
  <2>7. rx'.pc \in {"idle", "size"}
    BY <2>1, RxFields
  <2> QED
    BY <1>2, <2>1, <2>2, <2>4, <2>6, <2>7, StreamDone
<1> QED
  BY <1>1, <1>2

LEMMA StreamQueued ==
  ASSUME TypeOK, StreamInv, handle_actor_msg, Len(input_queue) < NumBuffers
  PROVE  StreamInv'
<1>1. /\ state = "deadline" /\ rx.pc = "done" /\ rx.out = "DeliverPacket" /\ rx' = Receiving
      /\ input_queue' = Append(input_queue, [buffer |-> got[Receiver], size |-> rx.size])
      /\ stream' = stream /\ link' = link /\ UNCHANGED peerVars
      /\ taken' = taken /\ app' = app /\ called' = called
  BY DEF handle_actor_msg
<1>2. Listening
  BY SMT, <1>1 DEF Listening
<1>3. input_queue \in Seq([buffer : 1..NumBuffers, size : 1..BufferSize])
      /\ taken \in Seq(Seq(Bytes) \cup {Lost})
  BY SeqTypes
<1>4. Len(input_queue') = Len(input_queue) + 1 /\ Len(input_queue) \in Nat /\ Len(taken) \in Nat
  BY SMT, <1>1, <1>3
<1>5. Delivered' = Delivered + 1
  <2>1. PICK c : c = IF app.pc = "copy" THEN 1 ELSE 0
    OBVIOUS
  <2>2. Delivered = (Len(taken) + c) + Len(input_queue) /\ c \in Nat
    BY SMT, <2>1 DEF Delivered, Popped
  <2>3. Delivered' = (Len(taken) + c) + Len(input_queue')
    BY <1>1, <2>1 DEF Delivered, Popped
  <2> QED
    BY SMT, <1>4, <2>2, <2>3
<1>6. rx'.pc \in {"idle", "size"} /\ Len(called') = Len(called)
  BY <1>1, RxFields
<1> QED
  BY <1>1, <1>2, <1>5, <1>6, StreamDone

(* The way of the packets.                                                 *)
LEMMA PacketIndex ==
  ASSUME TypeOK, PacketInv
  PROVE  /\ Len(taken) \in Nat /\ Popped \in Nat /\ Len(input_queue) \in Nat /\ Len(packets) \in Nat
         /\ DOMAIN taken = 1..Len(taken) /\ DOMAIN input_queue = 1..Len(input_queue)
         /\ \A k \in DOMAIN taken : k \in 1..Len(packets)
         /\ \A k \in DOMAIN input_queue : Popped + k \in 1..Len(packets)
         /\ app.pc = "copy" => Len(taken) + 1 \in 1..Len(packets)
<1>1. PICK nt, nq, np : nt = Len(taken) /\ nq = Len(input_queue) /\ np = Len(packets)
  OBVIOUS
<1>2. nt \in Nat /\ nq \in Nat /\ np \in Nat /\ DOMAIN taken = 1..nt /\ DOMAIN input_queue = 1..nq
  BY <1>1, SeqTypes, LenNat
<1>3. PICK n \in {0, 1} : n = (IF app.pc = "copy" THEN 1 ELSE 0)
  OBVIOUS
<1>4. Popped = nt + n /\ nt + n + nq <= np
  BY <1>1, <1>3 DEF PacketInv, Delivered, Popped
<1>5. app.pc = "copy" => n = 1
  BY <1>3
<1> QED
  BY SMTT(30), <1>1, <1>2, <1>4, <1>5

LEMMA PacketBytes ==
  ASSUME TypeOK, NEW k \in 1..Len(packets)
  PROVE  packets[k] \in Seq(Bytes) /\ Len(packets[k]) \in Nat
  BY SeqTypes, SeqElem, LenNat

LEMMA QueuedPacket ==
  ASSUME TypeOK, NEW k \in DOMAIN input_queue
  PROVE  input_queue[k].buffer \in 1..NumBuffers /\ input_queue[k].size \in 0..BufferSize
<1>1. input_queue[k] \in [buffer : 1..NumBuffers, size : 1..BufferSize]
  BY SeqTypes, LenNat, SeqElem
<1> QED
  BY SMT, <1>1, Sizes

(* The bytes of the buffers that the queue and vsg_recv have stay as they  *)
(* are.                                                                    *)
SameBytes(b) ==
  \A k \in 1..BufferSize : \A t : memory'[Byte(b, t, k)] = memory[Byte(b, t, k)]

BytesKept == \A b \in 1..NumBuffers : QueueHas(b) \/ AppHas(b) => SameBytes(b)

LEMMA CarriesKept ==
  ASSUME NEW b, NEW size \in 0..BufferSize, NEW packet \in Seq(Bytes),
         Carries(b, size, packet), SameBytes(b)
  PROVE  Carries(b, size, packet)'
<1>1. PICK n : n = Len(packet)
  OBVIOUS
<1>2. n \in Nat /\ size = 1 + n /\ \A j \in 1..n : memory[Byte(b, size, 1 + j)] = packet[j]
  BY <1>1, LenNat DEF Carries
<1>3. \A j \in 1..n : 1 + j \in 1..BufferSize
  BY SMT, <1>2, Sizes
<1>4. \A j \in 1..n : memory'[Byte(b, size, 1 + j)] = packet[j]
  BY <1>2, <1>3 DEF SameBytes
<1> QED
  BY <1>1, <1>2, <1>4 DEF Carries

(* The bytes that reset clears are those of its buffer.                    *)
LEMMA ResetOther ==
  ASSUME NEW i \in 1..NumBuffers, NEW j \in 1..NumBuffers, i # j,
         NEW s \in 0..BufferSize, NEW t, NEW k \in 1..BufferSize,
         memory \in [1..NumBuffers * BufferSize -> Bytes]
  PROVE  reset(i, s)[Byte(j, t, k)] = memory[Byte(j, t, k)]
<1>1. Byte(j, t, k) \in DOMAIN memory
  BY SMT, ByteInMemory
<1>2. ASSUME Byte(j, t, k) \in buffer_bounds(i, s) PROVE FALSE
  <2>1. BufferSize * (i - 1) \in Nat /\ BufferSize * (j - 1) \in Nat
    BY Sizes, SMTT(20)
  <2>2. PICK l \in 1..BufferSize : Byte(j, t, k) = Byte(i, s, l)
    <3>1. Byte(j, t, k) - BufferSize * (i - 1) \in 1..BufferSize
      BY SMT, Sizes, <1>2, <2>1 DEF buffer_bounds, BufferStart, Byte
    <3> QED
      BY SMT, Sizes, <2>1, <3>1 DEF buffer_bounds, BufferStart, Byte
  <2> QED
    BY SMT, <2>2, ByteInjective
<1> QED
  BY SMT, <1>1, <1>2 DEF reset

LEMMA RecvKeepsBytes ==
  ASSUME TypeOK, RxInv, OwnInv, recv
  PROVE  BytesKept
<1>1. CASE memory' = memory
  BY <1>1 DEF BytesKept, SameBytes
<1>2. CASE Allocated
  <2>1. PICK i \in 1..NumBuffers : Takes(i) /\ memory' = reset(i, rx.size)
    BY <1>2, TakesAllocated
  <2>2. PICK s : s = rx.size
    OBVIOUS
  <2>3. s \in 0..BufferSize
    BY SMT, <2>2, RxNats, Sizes
  <2>4. SUFFICES ASSUME NEW b \in 1..NumBuffers, QueueHas(b) \/ AppHas(b)
                 PROVE  SameBytes(b)
    BY DEF BytesKept
  <2>5. b # i
    BY <2>1, <2>4 DEF OwnInv, Takes
  <2>6. \A k \in 1..BufferSize : \A t : reset(i, s)[Byte(b, t, k)] = memory[Byte(b, t, k)]
    <3>1. memory \in [1..NumBuffers * BufferSize -> Bytes]
      BY RecvTypes
    <3> QED
      BY SMT, <2>3, <2>5, <3>1, ResetOther
  <2> QED
    BY <2>1, <2>2, <2>6 DEF SameBytes
<1>3. CASE read_exact
  <2>1. PICK i : i = got[Receiver]
    OBVIOUS
  <2>2. i \in 1..NumBuffers
    BY <1>3, <2>1, ReadByte
  <2>3. RecvHas(i)
    BY <1>3, <2>1 DEF read_exact, RecvHas, RecvHolds
  <2>4. SUFFICES ASSUME NEW b \in 1..NumBuffers, QueueHas(b) \/ AppHas(b)
                 PROVE  SameBytes(b)
    BY DEF BytesKept
  <2>5. b # i
    BY <2>2, <2>3, <2>4 DEF OwnInv
  <2> QED
    BY <1>3, <2>1, <2>5, ReadByte DEF SameBytes
<1> QED
  BY <1>1, <1>2, <1>3 DEF recv, read_prefixed_size, AllocateScan, UnexpectedEof, Decode

(* Packets may be added.                                                   *)
PacketsKept ==
  /\ Len(packets) <= Len(packets') /\ Len(packets') \in Nat
  /\ \A k \in 1..Len(packets) : packets'[k] = packets[k]

LEMMA PacketsGrow == ASSUME TypeOK, Next PROVE PacketsKept
<1>1. CASE packets' = packets
  <2>1. Len(packets) \in Nat
    BY SeqTypes, LenNat
  <2> QED
    BY SMT, <1>1, <2>1 DEF PacketsKept
<1>2. CASE \E len \in PacketLens : PeerPacket(len)
  <2>1. PICK len \in PacketLens : PeerPacket(len)
    BY <1>2
  <2>2. PICK packet : packets' = Append(packets, packet)
    BY <2>1 DEF PeerPacket
  <2> QED
    BY SMT, <2>2, SeqTypes DEF PacketsKept
<1> QED
  BY <1>1, <1>2, PeerSteps DEF PeerMessage, PeerDeadline, peerVars

LEMMA PacketFrame ==
  ASSUME TypeOK, PacketInv, PacketsKept, BytesKept, UNCHANGED <<input_queue, taken>>,
         app' = app \/ (app.pc # "copy" /\ app'.pc # "copy")
  PROVE  PacketInv'
<1>1. Popped' = Popped /\ Delivered' = Delivered
  <2>1. app'.pc = "copy" <=> app.pc = "copy"
    OBVIOUS
  <2> QED
    BY <2>1 DEF Delivered, Popped
<1>2. Delivered' <= Len(packets')
  <2>1. PICK d : d = Delivered
    OBVIOUS
  <2>2. d <= Len(packets) /\ d \in Nat
    BY SMT, <2>1, PacketIndex DEF PacketInv, Delivered
  <2>3. d <= Len(packets')
    BY SMT, <2>2, PacketIndex DEF PacketsKept
  <2> QED
    BY <1>1, <2>1, <2>3
<1>3. TakenInv'
  BY PacketIndex DEF PacketInv, TakenInv, PacketsKept
<1>4. QueueInv'
  <2>1. SUFFICES ASSUME NEW k \in DOMAIN input_queue
                 PROVE  Carries(input_queue[k].buffer, input_queue[k].size, packets[Popped + k])'
    BY DEF QueueInv
  <2>2. PICK b, size, packet : b = input_queue[k].buffer /\ size = input_queue[k].size
                               /\ packet = packets[Popped + k]
    OBVIOUS
  <2>3. Popped + k \in 1..Len(packets) /\ packet \in Seq(Bytes) /\ b \in 1..NumBuffers
        /\ size \in 0..BufferSize
    BY <2>2, PacketIndex, PacketBytes, QueuedPacket
  <2>4. Carries(b, size, packet) /\ QueueHas(b)
    BY <2>2 DEF PacketInv, QueueInv, QueueHas
  <2>5. Carries(b, size, packet)'
    BY <2>3, <2>4, CarriesKept DEF BytesKept
  <2>6. b = input_queue'[k].buffer /\ size = input_queue'[k].size /\ packet = packets'[Popped' + k]
    BY <1>1, <2>2, <2>3 DEF PacketsKept
  <2> QED
    BY <2>5, <2>6
<1>5. CopyInv'
  <2>1. SUFFICES ASSUME app'.pc = "copy"
                 PROVE  app'.buffer # 0 /\ Copies(packets[Len(taken) + 1])'
    BY DEF CopyInv
  <2>2. app' = app /\ app.pc = "copy"
    BY <2>1
  <2>3. PICK b, size, packet : b = app.buffer /\ size = app.size /\ packet = packets[Len(taken) + 1]
    OBVIOUS
  <2>4. Len(taken) + 1 \in 1..Len(packets) /\ packet \in Seq(Bytes) /\ size \in 0..BufferSize
        /\ b # 0 /\ b \in 0..NumBuffers /\ Copies(packet)
    BY <2>2, <2>3, PacketIndex, PacketBytes, AppTyped DEF PacketInv, CopyInv
  <2>5. b \in 1..NumBuffers
    BY SMT, <2>4, Sizes
  <2>6. Carries(b, size, packet) /\ AppHas(b)
    BY <2>2, <2>3, <2>4 DEF Copies, AppHas
  <2>7. Carries(b, size, packet)'
    BY <2>4, <2>5, <2>6, CarriesKept DEF BytesKept
  <2>8. packet = packets'[Len(taken') + 1]
    BY <2>3, <2>4 DEF PacketsKept
  <2>9. Copies(packet)'
    BY <2>2, <2>3, <2>4, <2>7 DEF Copies, Carries
  <2> QED
    BY <2>2, <2>3, <2>4, <2>8, <2>9
<1> QED
  BY <1>2, <1>3, <1>4, <1>5 DEF PacketInv

LEMMA Unread ==
  ASSUME memory' = memory
  PROVE  /\ BytesKept
         /\ \A b, size, packet : Carries(b, size, packet) => Carries(b, size, packet)'
  BY DEF BytesKept, SameBytes, Carries

LEMMA PacketCopied ==
  ASSUME TypeOK, PacketInv, RecvCopy
  PROVE  PacketInv'
<1>1. UNCHANGED <<memory, input_queue, taken, packets>> /\ app.pc = "copy"
      /\ Len(app.copy) < app.size - 1
  BY DEF RecvCopy, connectorVars, peerVars
<1>2. PICK copy : app' = [app EXCEPT !.copy = copy] /\ copy = app'.copy
  BY CopiedByte
<1>3. app'.pc = "copy" /\ app'.buffer = app.buffer /\ app'.size = app.size
  BY SMT, <1>1, <1>2, AppTyped DEF AppTypes
<1>4. Popped' = Popped
  BY <1>1, <1>3 DEF Popped
<1>5. Delivered' <= Len(packets') /\ TakenInv' /\ QueueInv'
  BY <1>1, <1>4 DEF PacketInv, Delivered, TakenInv, QueueInv, Carries
<1>6. PICK packet, size, n : packet = packets[Len(taken) + 1] /\ size = app.size
                             /\ n = Len(app.copy)
  OBVIOUS
<1>7. app.buffer # 0 /\ Copies(packet) /\ packet \in Seq(Bytes)
  BY <1>1, <1>6, PacketIndex, PacketBytes DEF PacketInv, CopyInv
<1>8. /\ n \in Nat /\ n < size - 1 /\ size = 1 + Len(packet) /\ Len(packet) \in Nat
      /\ \A j \in 1..Len(packet) : memory[Byte(app.buffer, size, 1 + j)] = packet[j]
      /\ \A j \in 1..n : app.copy[j] = packet[j]
  BY <1>1, <1>6, <1>7, CopiedByte, LenNat DEF Copies, Carries
<1>9. n + 1 \in 1..Len(packet) /\ n + 1 <= size - 1 /\ \A j \in 1..n + 1 : j \in 1..n \/ j = n + 1
  BY SMT, <1>8
<1>10. copy = Append(app.copy, packet[n + 1])
  BY <1>2, <1>6, <1>8, <1>9, CopiedByte
<1>11. Len(copy) = n + 1 /\ copy[n + 1] = packet[n + 1] /\ \A j \in 1..n : copy[j] = app.copy[j]
  BY SMT, <1>6, <1>10, AppTyped
<1>12. \A j \in 1..Len(copy) : copy[j] = packet[j]
  BY <1>8, <1>9, <1>11
<1>13. Carries(app.buffer, size, packet)'
  <2>1. PICK b : b = app.buffer
    OBVIOUS
  <2>2. Carries(b, size, packet)
    BY <1>6, <1>7, <2>1 DEF Copies
  <2>3. Carries(b, size, packet)'
    BY <1>1, <2>2, Unread
  <2> QED
    BY <1>3, <2>1, <2>3
<1>14. Copies(packet)'
  BY <1>2, <1>3, <1>6, <1>9, <1>11, <1>12, <1>13 DEF Copies
<1>15. CopyInv'
  BY <1>1, <1>3, <1>6, <1>7, <1>14 DEF CopyInv
<1> QED
  BY <1>5, <1>15 DEF PacketInv

LEMMA SameSequence ==
  ASSUME NEW S, NEW s \in Seq(S), NEW t \in Seq(S), Len(s) = Len(t), \A i \in 1..Len(s) : s[i] = t[i]
  PROVE  s = t
  BY SMT

(* One more packet is accounted for in taken.                              *)
LEMMA TakenGrows ==
  ASSUME TypeOK, TakenInv, packets' = packets, NEW x, taken' = Append(taken, x),
         x \in {Lost, packets[Len(taken) + 1]}
  PROVE  TakenInv' /\ Len(taken') = Len(taken) + 1 /\ Len(taken) \in Nat
<1>1. PICK n : n = Len(taken)
  OBVIOUS
<1>2. /\ n \in Nat /\ DOMAIN taken = 1..n /\ DOMAIN taken' = 1..n + 1 /\ Len(taken') = n + 1
      /\ taken'[n + 1] = x /\ \A k \in 1..n : taken'[k] = taken[k]
  BY SMT, <1>1, SeqTypes
<1>3. \A k \in 1..n + 1 : k \in 1..n \/ k = n + 1
  BY SMT, <1>2
<1> QED
  BY <1>1, <1>2, <1>3 DEF TakenInv

LEMMA PacketTaken ==
  ASSUME TypeOK, PacketInv, RecvReturn
  PROVE  PacketInv'
<1>1. /\ UNCHANGED <<memory, input_queue, packets>> /\ app.pc = "copy" /\ app' = Idle
      /\ Len(app.copy) = app.size - 1 /\ taken' = Append(taken, app.copy)
  BY DEF RecvReturn, peerVars
<1>2. PICK packet : packet = packets[Len(taken) + 1]
  OBVIOUS
<1>3. Copies(packet) /\ packet \in Seq(Bytes) /\ Len(packet) \in Nat
  BY <1>1, <1>2, PacketIndex, PacketBytes DEF PacketInv, CopyInv
<1>4. PICK copy : copy = app.copy
  OBVIOUS
<1>5. copy \in Seq(Bytes) /\ Len(copy) = Len(packet) /\ \A j \in 1..Len(copy) : copy[j] = packet[j]
  <2>1. app.size = 1 + Len(packet) /\ \A j \in 1..Len(copy) : copy[j] = packet[j]
    BY <1>3, <1>4 DEF Copies, Carries
  <2> QED
    BY SMTT(30), <1>1, <1>3, <1>4, <2>1, AppTyped
<1>6. copy = packet
  BY <1>3, <1>5, SameSequence
<1>7. TakenInv' /\ Len(taken') = Len(taken) + 1 /\ Len(taken) \in Nat
  BY <1>1, <1>2, <1>4, <1>6, TakenGrows DEF PacketInv
<1>8. Popped' = Popped
  <2>1. Popped = Len(taken) + 1
    BY <1>1 DEF Popped
  <2>2. Popped' = Len(taken') + 0
    BY <1>1, IdleApp DEF Popped
  <2> QED
    BY SMT, <1>7, <2>1, <2>2
<1>9. Delivered' <= Len(packets') /\ QueueInv'
  BY <1>1, <1>8 DEF PacketInv, Delivered, QueueInv, Carries
<1>10. CopyInv'
  BY <1>1, IdleApp DEF CopyInv
<1> QED
  BY <1>7, <1>9, <1>10 DEF PacketInv

LEMMA PacketPopped ==
  ASSUME TypeOK, PacketInv, NEW len \in Lens, vsg_recv(len)
  PROVE  PacketInv'
<1>0. UNCHANGED <<memory, packets>> /\ app.pc = "idle"
  BY DEF vsg_recv, peerVars
<1>1. CASE UNCHANGED <<input_queue, taken, app>>
  <2>1. PacketsKept
    BY SMT, <1>0, PacketIndex DEF PacketsKept
  <2> QED
    BY <1>0, <1>1, <2>1, Unread, PacketFrame
<1>2. CASE ~UNCHANGED <<input_queue, taken, app>>
  <2>1. PICK b, size : b = Head(input_queue).buffer /\ size = Head(input_queue).size
    OBVIOUS
  <2>2. PICK empty : empty = <<>>
    OBVIOUS
  <2>3. /\ input_queue # <<>> /\ input_queue' = Tail(input_queue)
        /\ \/ taken' = taken /\ app' = [pc |-> "copy", buffer |-> b, size |-> size, copy |-> empty]
           \/ taken' = Append(taken, Lost) /\ app' = app
    BY <1>2, <2>1, <2>2 DEF vsg_recv
  <2>4. PICK nt, nq : nt = Len(taken) /\ nq = Len(input_queue)
    OBVIOUS
  <2>5. /\ nt \in Nat /\ nq \in Nat /\ nq > 0 /\ Popped = nt + 0
        /\ Len(packets) \in Nat /\ Delivered = nt + nq /\ nt + nq <= Len(packets)
    <3>1. Popped = nt + 0 /\ Delivered = Popped + nq /\ Delivered <= Len(packets)
      BY <1>0, <2>4 DEF Popped, Delivered, PacketInv
    <3> QED
      BY SMTT(30), <2>3, <2>4, <3>1, PacketIndex, HeadPacket
  <2>6. /\ Len(input_queue') = nq - 1 /\ DOMAIN input_queue' = 1..nq - 1
        /\ DOMAIN input_queue = 1..nq
        /\ \A k \in 1..nq - 1 : input_queue'[k] = input_queue[k + 1]
        /\ b \in 1..NumBuffers /\ size \in 1..BufferSize /\ 1 \in 1..nq
        /\ b = input_queue[1].buffer /\ size = input_queue[1].size
    <3>1. PICK q : q = Tail(input_queue)
      OBVIOUS
    <3>2. /\ q \in Seq([buffer : 1..NumBuffers, size : 1..BufferSize])
          /\ Len(q) = nq - 1 /\ \A k \in 1..nq - 1 : q[k] = input_queue[k + 1]
          /\ b \in 1..NumBuffers /\ size \in 1..BufferSize /\ 1 \in 1..nq
          /\ b = input_queue[1].buffer /\ size = input_queue[1].size
      BY <2>1, <2>3, <2>4, <3>1, HeadPacket
    <3>3. DOMAIN q = 1..Len(q)
      BY <3>2, LenNat
    <3> QED
      BY <2>3, <2>4, <3>1, <3>2, <3>3, PacketIndex
  <2>7. ASSUME Popped' = nt + 1 PROVE QueueInv' /\ Delivered' <= Len(packets')
    <3>1. Delivered' <= Len(packets')
      BY SMTT(30), <1>0, <2>5, <2>6, <2>7 DEF Delivered
    <3>2. ASSUME NEW k \in 1..nq - 1
          PROVE  Carries(input_queue[k].buffer, input_queue[k].size, packets[Popped + k])'
      <4>1. k + 1 \in 1..nq /\ Popped + (k + 1) = Popped' + k
        BY SMT, <2>5, <2>7
      <4>2. PICK c, s, packet : /\ c = input_queue[k + 1].buffer /\ s = input_queue[k + 1].size
                                /\ packet = packets[Popped + (k + 1)]
        OBVIOUS
      <4>3. Carries(c, s, packet)
        BY <2>6, <4>1, <4>2 DEF PacketInv, QueueInv
      <4>4. Carries(c, s, packet)'
        BY <1>0, <4>3, Unread
      <4> QED
        BY <1>0, <2>6, <4>1, <4>2, <4>4
    <3> QED
      BY <2>6, <3>1, <3>2 DEF QueueInv
  <2>8. CASE taken' = taken /\ app' = [pc |-> "copy", buffer |-> b, size |-> size, copy |-> empty]
    <3>1. app'.pc = "copy" /\ app'.buffer = b /\ app'.size = size /\ app'.copy = empty
      BY SMT, <2>8
    <3>2. Popped' = nt + 1
      BY <2>4, <2>8, <3>1 DEF Popped
    <3>3. TakenInv'
      BY <1>0, <2>8 DEF PacketInv, TakenInv
    <3>4. PICK packet : packet = packets[nt + 1]
      OBVIOUS
    <3>5. Popped + 1 = nt + 1
      BY SMT, <2>5
    <3>6. Carries(b, size, packet)
      BY <2>6, <3>4, <3>5 DEF PacketInv, QueueInv
    <3>7. Carries(b, size, packet)'
      BY <1>0, <3>6, Unread
    <3>8. Len(empty) = 0 /\ b # 0 /\ 0 <= size - 1 /\ 1..0 = {}
      BY SMT, <2>2, <2>6, Sizes
    <3>9. Copies(packet)'
      BY <3>1, <3>7, <3>8 DEF Copies
    <3>10. CopyInv'
      BY <1>0, <2>4, <2>8, <3>1, <3>4, <3>8, <3>9 DEF CopyInv
    <3> QED
      BY <2>7, <3>2, <3>3, <3>10 DEF PacketInv
  <2>9. CASE taken' = Append(taken, Lost) /\ app' = app
    <3>1. TakenInv' /\ Len(taken') = nt + 1
      BY <1>0, <2>4, <2>9, TakenGrows DEF PacketInv
    <3>2. Popped' = (nt + 1) + 0
      BY <1>0, <2>9, <3>1 DEF Popped
    <3>3. Popped' = nt + 1
      BY SMT, <2>5, <3>2
    <3>4. CopyInv'
      BY <1>0, <2>9 DEF CopyInv
    <3> QED
      BY <2>7, <3>1, <3>3, <3>4 DEF PacketInv
  <2> QED
    BY <2>3, <2>8, <2>9
<1> QED
  BY <1>1, <1>2

LEMMA CountNat ==
  ASSUME NEW np, NEW nd, Counts(np, nd), NEW k \in Nat
  PROVE  np[k] \in Nat /\ nd[k] \in Nat
  BY SMT DEF Counts

(* What recv returns is the next packet, or the next deadline, of the peer. *)
LEMMA Received ==
  ASSUME TypeOK, StreamInv, Listening, rx.pc = "done"
  PROVE  /\ rx.out = "DeliverPacket" =>
              /\ Delivered + 1 \in 1..Len(packets) /\ Delivered \in Nat
              /\ Carries(got[Receiver], rx.size, packets[Delivered + 1])
         /\ rx.out = "GoToDeadline" =>
              /\ Len(called) + 1 \in 1..Len(deadlines)
              /\ rx.time = deadlines[Len(called) + 1]
<1>1. ~Cut
  BY SMT DEF Cut
<1>2. PICK h, starts, np, nd : Synced(h, starts, np, nd)
  BY <1>1 DEF StreamInv
<1>3. Receives(h, np, nd)
  BY SMT, <1>2 DEF Synced, InStep
<1>4. h \in 0..Len(asked) /\ Counts(np, nd) /\ h > 0
  BY <1>2, <1>3 DEF Synced, Receives
<1>5. h - 1 \in Nat
  BY SMT, <1>4, SeqTypes
<1>6. np[h - 1] \in Nat /\ nd[h - 1] \in Nat /\ Delivered = np[h - 1] /\ Len(called) = nd[h - 1]
  BY <1>3, <1>4, <1>5, CountNat DEF Receives
<1>7. ASSUME rx.out = "DeliverPacket"
      PROVE  /\ Delivered + 1 \in 1..Len(packets)
             /\ Carries(got[Receiver], rx.size, packets[Delivered + 1])
  <2>1. IsPacket(h, np, nd, asked, packets) /\ Carries(got[Receiver], rx.size, packets[np[h]])
    BY <1>3, <1>7 DEF Receives
  <2>2. np[h] = Delivered + 1 /\ np[h] \in 1..Len(packets)
    BY <1>6, <2>1 DEF IsPacket
  <2> QED
    BY <2>1, <2>2
<1>8. ASSUME rx.out = "GoToDeadline"
      PROVE  Len(called) + 1 \in 1..Len(deadlines) /\ rx.time = deadlines[Len(called) + 1]
  <2>1. IsDeadline(h, np, nd, asked, deadlines) /\ rx.time = deadlines[nd[h]]
    BY <1>3, <1>8 DEF Receives
  <2>2. nd[h] = Len(called) + 1 /\ nd[h] \in 1..Len(deadlines)
    BY <1>6, <2>1 DEF IsDeadline
  <2> QED
    BY <2>1, <2>2
<1> QED
  BY <1>6, <1>7, <1>8

LEMMA PacketQueued ==
  ASSUME TypeOK, RxInv, OwnInv, StreamInv, PacketInv, QueueHasRoom, handle_actor_msg
  PROVE  PacketInv'
<1>1. /\ state = "deadline" /\ rx.pc = "done" /\ rx.out = "DeliverPacket" /\ RecvHolds
      /\ UNCHANGED <<memory, packets, taken, app>>
  BY DEF handle_actor_msg, RecvHolds, peerVars
<1>2. Listening
  BY SMT, <1>1 DEF Listening
<1>3. PICK b, size, packet, n : /\ b = got[Receiver] /\ size = rx.size
                                /\ packet = packets[Delivered + 1] /\ n = Len(input_queue)
  OBVIOUS
<1>4. Delivered + 1 \in 1..Len(packets) /\ Delivered \in Nat /\ Carries(b, size, packet)
  BY <1>1, <1>2, <1>3, Received
<1>5. PICK entry : entry = [buffer |-> b, size |-> size]
  OBVIOUS
<1>6. input_queue' = Append(input_queue, entry)
  BY <1>1, <1>3, <1>5 DEF handle_actor_msg, QueueHasRoom
<1>7. entry.buffer = b /\ entry.size = size
  BY SMT, <1>5
<1>8. /\ n \in Nat /\ DOMAIN input_queue = 1..n /\ DOMAIN input_queue' = 1..n + 1
      /\ Len(input_queue') = n + 1
      /\ input_queue'[n + 1] = entry
      /\ \A k \in 1..n : input_queue'[k] = input_queue[k]
  BY SMT, <1>3, <1>6, SeqTypes
<1>9. Popped' = Popped
  BY <1>1 DEF Popped
<1>10. Popped \in Nat /\ Delivered = Popped + n /\ Len(packets) \in Nat
  BY <1>3, PacketIndex DEF Delivered
<1>11. Delivered' <= Len(packets')
  <2>1. Delivered' = Popped + (n + 1) /\ packets' = packets
    BY <1>1, <1>8, <1>9 DEF Delivered
  <2> QED
    BY SMTT(30), <1>4, <1>8, <1>10, <2>1
<1>12. QueueInv'
  <2>1. SUFFICES ASSUME NEW k \in 1..n + 1
                 PROVE  Carries(input_queue[k].buffer, input_queue[k].size, packets[Popped + k])'
    BY <1>8 DEF QueueInv
  <2>2. CASE k \in 1..n
    <3>1. PICK c, s, p : /\ c = input_queue[k].buffer /\ s = input_queue[k].size
                         /\ p = packets[Popped + k]
      OBVIOUS
    <3>2. Carries(c, s, p)
      BY <1>8, <2>2, <3>1 DEF PacketInv, QueueInv
    <3>3. Carries(c, s, p)'
      BY <1>1, <3>2, Unread
    <3> QED
      BY <1>1, <1>8, <1>9, <2>2, <3>1, <3>3
  <2>3. CASE k = n + 1
    <3>1. Delivered + 1 = Popped' + (n + 1)
      BY SMT, <1>8, <1>9, <1>10
    <3>2. Carries(b, size, packet)'
      BY <1>1, <1>4, Unread
    <3>3. packet = packets'[Popped' + k]
      BY <1>1, <1>3, <2>3, <3>1
    <3>4. b = input_queue'[k].buffer /\ size = input_queue'[k].size
      BY <1>7, <1>8, <2>3
    <3> QED
      BY <3>2, <3>3, <3>4
  <2> QED
    BY SMT, <1>8, <2>2, <2>3
<1>13. TakenInv' /\ CopyInv'
  BY <1>1 DEF PacketInv, TakenInv, CopyInv, Copies, Carries
<1> QED
  BY <1>11, <1>12, <1>13 DEF PacketInv

LEMMA PacketStep ==
  ASSUME TypeOK, ContextInv, RxInv, OwnInv, StreamInv, PacketInv, QueueHasRoom, Next
  PROVE  PacketInv'
<1>0. PacketsKept
  BY PacketsGrow
<1>1. CASE ReceiveStep
  <2>1. recv /\ UNCHANGED <<input_queue, taken, app>>
    BY <1>1 DEF ReceiveStep, recvVars
  <2> QED
    BY <1>0, <2>1, RecvKeepsBytes, PacketFrame
<1>2. CASE StartReturn
  <2>1. state = "starting" /\ app' = Idle /\ UNCHANGED <<memory, input_queue, taken>>
    BY <1>2 DEF StartReturn
  <2>2. app.pc = "start" /\ app'.pc = "idle"
    BY <2>1, IdleApp DEF ContextInv
  <2>3. app.pc # "copy" /\ app'.pc # "copy"
    BY <2>2
  <2> QED
    BY <1>0, <2>1, <2>3, Unread, PacketFrame
<1>3. CASE Quiet
  BY <1>0, <1>3, Unread, PacketFrame DEF Quiet
<1> QED
  BY <1>1, <1>2, <1>3, QuietSteps, PacketCopied, PacketTaken, PacketPopped, PacketQueued

(* The deadlines, and the offset.                                          *)
LEMMA DeadlinesGrow ==
  ASSUME TypeOK, Next
  PROVE  /\ Len(deadlines) \in Nat /\ Len(deadlines') \in Nat /\ Len(deadlines) <= Len(deadlines')
         /\ \A k \in 1..Len(deadlines) : deadlines'[k] = deadlines[k]
<1>1. CASE deadlines' = deadlines
  <2>1. Len(deadlines) \in Nat
    BY SeqTypes, LenNat
  <2> QED
    BY SMT, <1>1, <2>1
<1>2. CASE \E t \in Times : PeerDeadline(t)
  <2>1. PICK t \in Times : PeerDeadline(t)
    BY <1>2
  <2>2. deadlines' = Append(deadlines, t)
    BY <2>1 DEF PeerDeadline
  <2> QED
    BY SMTT(30), <2>2, SeqTypes
<1> QED
  BY <1>1, <1>2, PeerSteps DEF PeerMessage, PeerPacket, peerVars

LEMMA CalledStep ==
  ASSUME TypeOK, StreamInv, CalledInv, Next
  PROVE  CalledInv'
<1>1. PICK n, m : n = Len(called) /\ m = Len(deadlines)
  OBVIOUS
<1>2. /\ n \in Nat /\ DOMAIN called = 1..n /\ m \in Nat /\ n <= m
      /\ \A k \in 1..n : called[k] = duration_to_timespec(deadlines[k])
  BY <1>1, SeqTypes, LenNat DEF CalledInv
<1>3. \A k \in 1..n : k \in 1..m
  BY SMT, <1>2
<1>4. CASE called' = called
  <2>1. n <= Len(deadlines')
    BY SMTT(30), <1>1, <1>2, DeadlinesGrow
  <2> QED
    BY <1>1, <1>2, <1>3, <1>4, <2>1, DeadlinesGrow DEF CalledInv
<1>5. CASE /\ StartReturn \/ HandlerReturn
           /\ rx.pc = "done" /\ rx.out = "GoToDeadline"
           /\ called' = Append(called, duration_to_timespec(rx.time))
  <2>1. deadlines' = deadlines /\ state \in {"starting", "deadline"}
    BY <1>5 DEF StartReturn, HandlerReturn, peerVars
  <2>2. Listening
    BY SMT, <1>5, <2>1 DEF Listening
  <2>3. n + 1 \in 1..m /\ rx.time = deadlines[n + 1]
    BY <1>1, <1>5, <2>2, Received
  <2>4. PICK t : t = duration_to_timespec(rx.time)
    OBVIOUS
  <2>5. /\ Len(called') = n + 1 /\ DOMAIN called' = 1..n + 1 /\ called'[n + 1] = t
        /\ \A k \in 1..n : called'[k] = called[k]
    BY SMTT(30), <1>1, <1>5, <2>4, SeqTypes
  <2>6. n + 1 <= m /\ \A k \in 1..n + 1 : k \in 1..n \/ k = n + 1
    BY SMT, <1>2, <2>3
  <2>7. \A k \in 1..n + 1 : called'[k] = duration_to_timespec(deadlines[k])
    BY <1>2, <2>3, <2>4, <2>5, <2>6
  <2> QED
    BY <1>1, <2>1, <2>5, <2>6, <2>7 DEF CalledInv
<1> QED
  BY <1>4, <1>5, CalledSteps

LEMMA StartedSteps ==
  ASSUME Next
  PROVE  \/ started' = started
         \/ \E o \in Offsets : started' = [code |-> "0", offset |-> OffsetTimespec(o)]
         \/ started' = [code |-> StartCode(rx.out), offset |-> <<>>]
<1>1. CASE StartReturn
  BY <1>1 DEF StartReturn
<1>2. CASE HandlerReturn \/ ReceiveStep \/ handle_actor_msg \/ PeerEnd
  BY <1>2 DEF HandlerReturn, ReceiveStep, handle_actor_msg, PeerEnd, ctxVars
<1>3. CASE PeerMessage
  <2>1. PICK msg : PeerSend(msg)
    BY <1>3 DEF PeerMessage, PeerPacket, PeerDeadline
  <2> QED
    BY <2>1 DEF PeerSend, ctxVars
<1>4. CASE \E argv \in Argvs, connected \in BOOLEAN : vsg_init(argv, connected)
  BY <1>4 DEF vsg_init
<1>5. CASE \E len \in Lens : vsg_send(len) \/ vsg_recv(len)
  BY <1>5 DEF vsg_send, vsg_recv, ctxVars
<1>6. CASE \/ vsg_cleanup \/ vsg_start \/ vsg_stop \/ StopReturn \/ RecvCopy \/ RecvReturn
           \/ vsg_poll \/ deadline_handler
  BY <1>6 DEF vsg_cleanup, vsg_start, vsg_stop, StopReturn, RecvCopy, RecvReturn, vsg_poll,
     deadline_handler, ctxVars
<1> QED
  BY <1>1, <1>2, <1>3, <1>4, <1>5, <1>6 DEF Next, Handler

LEMMA OffsetExact ==
  ASSUME NEW o \in Int
  PROVE  OffsetTimespec(o)[1] * NsPerSec + OffsetTimespec(o)[2] = o
<1>1. CASE o >= 0
  BY SMT, <1>1, TimespecExact DEF OffsetTimespec, duration_to_timespec
<1>2. CASE ~(o >= 0)
  <2> DEFINE q == (-o) \div NsPerSec
             r == (-o) % NsPerSec
  <2>1. q \in Nat /\ r \in Nat /\ q * NsPerSec + r = -o
    BY SMT, <1>2, TimespecExact
  <2>2. OffsetTimespec(o) = <<-q, -r>>
    BY SMT, <1>2 DEF OffsetTimespec
  <2> HIDE DEF q, r
  <2>3. (-q) * NsPerSec = -(q * NsPerSec) /\ q * NsPerSec \in Nat
    BY Sizes, <2>1, SMTT(30)
  <2>4. OffsetTimespec(o)[1] = -q /\ OffsetTimespec(o)[2] = -r
    BY SMT, <2>2
  <2> QED
    BY SMTT(30), <2>1, <2>3, <2>4
<1> QED
  BY SMT, <1>1, <1>2

LEMMA OffsetStep ==
  ASSUME OffsetInv, Next
  PROVE  OffsetInv'
<1>1. CASE started' = started
  BY <1>1 DEF OffsetInv
<1>2. CASE \E o \in Offsets : started' = [code |-> "0", offset |-> OffsetTimespec(o)]
  <2>1. PICK o \in Offsets : started' = [code |-> "0", offset |-> OffsetTimespec(o)]
    BY <1>2
  <2>2. PICK t : t = OffsetTimespec(o)
    OBVIOUS
  <2>3. t[1] * NsPerSec + t[2] = o
    BY <2>2, OffsetExact, InputsAssumption
  <2>4. started'.offset = t
    BY SMT, <2>1, <2>2
  <2> QED
    BY <2>3, <2>4 DEF OffsetInv
<1>3. CASE started' = [code |-> StartCode(rx.out), offset |-> <<>>]
  <2>1. started'.code # "0"
    BY SMT, <1>3 DEF StartCode
  <2> QED
    BY <2>1 DEF OffsetInv
<1> QED
  BY <1>1, <1>2, <1>3, StartedSteps

(* The stream in every step, and the initial state.                        *)
LEMMA StreamStep ==
  ASSUME TypeOK, ContextInv, RxInv, OwnInv, StreamInv, QueueHasRoom, Next
  PROVE  StreamInv'
<1>1. CASE ReceiveStep
  BY <1>1, StreamReadSize, StreamAllocated, StreamAllocateScan, StreamEof, StreamReadExact,
     StreamDecode DEF ReceiveStep, recv
<1>2. CASE handle_actor_msg
  BY <1>2, StreamQueued DEF handle_actor_msg, RecvHolds, QueueHasRoom
<1> QED
  BY <1>1, <1>2, StreamPeerMessage, StreamPeerEnd, StreamCalls, StreamPops, StreamBegins,
     StreamStartReturn, StreamHandlerReturn DEF Next, Handler

LEMMA StutterStep == ASSUME IInv, UNCHANGED vars PROVE IInv'
<1>1. /\ UNCHANGED <<stream, link, memory, rx, input_queue, app, polled, starved, taken>>
      /\ UNCHANGED <<state, refs, pointer, registered, started, refused, called>>
      /\ UNCHANGED poolVars /\ UNCHANGED peerVars
  BY DEF vars, connectorVars, ctxVars, recvVars, sendVars
<1>2. UNCHANGED <<buffer_busy, live, scan, got, outcome, contended>>
      /\ UNCHANGED <<asked, packets, deadlines>>
  BY <1>1 DEF poolVars, peerVars
<1>3. TypeOK'
  <2>1. Pool!TypeOK'
    BY <1>2 DEF IInv, TypeOK, Pool!TypeOK
  <2> QED
    BY <1>1, <1>2, <2>1 DEF IInv, TypeOK
<1>4. ContextInv' /\ PollInv'
  BY <1>1 DEF IInv, ContextInv, PollInv
<1>5. OwnInv' /\ RxInv'
  <2>1. OwnInv'
    BY <1>1, <1>2 DEF IInv, OwnInv, QueuedOnce, RecvHas, QueueHas, AppHas, RecvHolds
  <2>2. RxInv'
    BY <1>1, <1>2 DEF IInv, RxInv, RecvHolds
  <2> QED
    BY <2>1, <2>2
<1>6. Delivered' = Delivered /\ Popped' = Popped
  BY <1>1 DEF Delivered, Popped
<1>7. PacketInv'
  <2>1. TakenInv'
    BY <1>1, <1>2 DEF IInv, PacketInv, TakenInv
  <2>2. QueueInv'
    BY <1>1, <1>2, <1>6 DEF IInv, PacketInv, QueueInv, Carries
  <2>3. CopyInv'
    BY <1>1, <1>2 DEF IInv, PacketInv, CopyInv, Copies, Carries
  <2> QED
    BY <1>2, <1>6, <2>1, <2>2, <2>3 DEF IInv, PacketInv
<1>8. CalledInv' /\ OffsetInv'
  BY <1>1, <1>2 DEF IInv, CalledInv, OffsetInv
<1>9. StreamInv'
  <2>1. Listening' => Listening
    BY <1>1 DEF Listening
  <2> QED
    BY <1>1, <1>2, <1>6, <2>1, StreamFrame DEF IInv
<1> QED
  BY <1>3, <1>4, <1>5, <1>7, <1>8, <1>9 DEF IInv

LEMMA InitStream == ASSUME Init PROVE StreamInv
<1>1. PICK starts : starts = [k \in Nat |-> 1]
  OBVIOUS
<1>2. PICK np : np = [k \in Nat |-> 0]
  OBVIOUS
<1>3. /\ stream = <<>> /\ asked = <<>> /\ packets = <<>> /\ deadlines = <<>> /\ called = <<>>
      /\ taken = <<>> /\ input_queue = <<>> /\ app.pc = "idle" /\ rx.pc = "idle"
  BY IdleApp, NothingHeld DEF Init, ConnectorInit
<1>4. /\ Len(stream) = 0 /\ Len(asked) = 0 /\ Len(packets) = 0 /\ Len(deadlines) = 0
      /\ Len(called) = 0 /\ Len(taken) = 0 /\ Len(input_queue) = 0
  BY SMT, <1>3
<1>5. Positions(starts) /\ Counts(np, np) /\ starts[1] = 1 /\ np[0] = 0
  BY SMTT(30), <1>1, <1>2 DEF Positions, Counts
<1>6. Content(starts)
  BY SMTT(30), <1>4, <1>5 DEF Content
<1>7. Numbered(np, np)
  BY SMT, <1>4, <1>5 DEF Numbered
<1>8. Off = 0 /\ Delivered = 0
  BY SMTT(30), <1>3, <1>4 DEF Off, Delivered, Popped
<1>9. InStep(0, starts, np, np)
  BY SMTT(30), <1>3, <1>4, <1>5, <1>8 DEF InStep, Between
<1>10. 0 \in 0..Len(asked)
  BY SMT, <1>4
<1>11. Synced(0, starts, np, np)
  BY <1>5, <1>6, <1>7, <1>9, <1>10 DEF Synced
<1> QED
  BY <1>11 DEF StreamInv

LEMMA InitInv == Init => IInv
<1>1. SUFFICES ASSUME Init PROVE IInv
  BY SMT
<1>2. TypeOK /\ StreamInv
  BY <1>1, InitTypes, InitStream
<1>3. /\ packets = <<>> /\ deadlines = <<>> /\ called = <<>> /\ taken = <<>> /\ input_queue = <<>>
      /\ app.pc = "idle" /\ rx.pc = "idle" /\ state = "none" /\ refs = 0 /\ ~pointer /\ ~registered
      /\ ~starved /\ ~polled /\ Pool!Init
  BY <1>1, IdleApp, NothingHeld DEF Init, ConnectorInit
<1>4. Len(packets) = 0 /\ Len(deadlines) = 0 /\ Len(called) = 0 /\ DOMAIN called = {}
      /\ Len(taken) = 0 /\ DOMAIN taken = {} /\ Len(input_queue) = 0 /\ DOMAIN input_queue = {}
  BY SMT, <1>3
<1>5. ContextInv /\ PollInv
  BY SMT, <1>3 DEF ContextInv, PollInv
<1>6. ~RecvHolds
  BY <1>3, Holding
<1>7. OwnInv
  <2>1. \A b \in 1..NumBuffers : ~buffer_busy[b]
    BY <1>3 DEF Pool!Init, Pool!new, Pool!Index
  <2> QED
    BY <1>3, <1>4, <1>6, <2>1 DEF OwnInv, QueuedOnce, RecvHas, QueueHas, AppHas
<1>8. RxInv
  BY SMT, <1>3, <1>6 DEF RxInv
<1>9. PacketInv
  <2>1. Delivered <= Len(packets)
    BY SMT, <1>3, <1>4 DEF Delivered, Popped
  <2> QED
    BY <1>3, <1>4, <2>1 DEF PacketInv, TakenInv, QueueInv, CopyInv
<1>10. CalledInv
  <2>1. Len(called) <= Len(deadlines)
    BY SMT, <1>4
  <2> QED
    BY <1>4, <2>1 DEF CalledInv
<1>11. OffsetInv
  <2>1. started.code = "none"
    BY SMT, <1>1 DEF Init
  <2> QED
    BY SMT, <2>1 DEF OffsetInv
<1> QED
  BY <1>2, <1>5, <1>7, <1>8, <1>9, <1>10, <1>11 DEF IInv

Finite == INSTANCE FiniteSetTheorems

(* With recv holding a buffer, one at least is not in the queue.           *)
LEMMA RoomInQueue ==
  ASSUME TypeOK, RxInv, OwnInv
  PROVE  QueueHasRoom
<1>0. SUFFICES ASSUME RecvHolds PROVE Len(input_queue) < NumBuffers
  BY DEF QueueHasRoom
<1>1. PICK n, g : n = Len(input_queue) /\ g = got[Receiver]
  OBVIOUS
<1>2. n \in Nat /\ DOMAIN input_queue = 1..n
  BY <1>1, SeqTypes, LenNat
<1>3. g \in 1..NumBuffers /\ RecvHas(g)
  BY <1>0, <1>1, GotIndex DEF RecvHas
<1>4. ~QueueHas(g)
  BY <1>3 DEF OwnInv
<1>5. SUFFICES ASSUME n >= NumBuffers PROVE FALSE
  BY SMTT(30), <1>1, <1>2, Sizes
<1>6. PICK free : free = (1..NumBuffers) \ {g}
  OBVIOUS
<1>7. Finite!IsFiniteSet(1..NumBuffers) /\ Finite!Cardinality(1..NumBuffers) = NumBuffers
  BY SMTT(30), Sizes, Finite!FS_Interval
<1>8. Finite!IsFiniteSet(free) /\ Finite!Cardinality(free) = NumBuffers - 1
  BY <1>3, <1>6, <1>7, Finite!FS_RemoveElement
<1>9. Finite!IsFiniteSet(1..n) /\ Finite!Cardinality(1..n) = n
  BY SMTT(30), <1>2, Finite!FS_Interval
<1>10. Finite!Cardinality(free) < Finite!Cardinality(1..n)
  BY SMTT(30), <1>2, <1>5, <1>8, <1>9, Sizes
<1>11. PICK f : f = [k \in 1..n |-> input_queue[k].buffer]
  OBVIOUS
<1>12. ASSUME NEW k \in 1..n PROVE input_queue[k].buffer \in free
  <2>1. input_queue[k] \in [buffer : 1..NumBuffers, size : 1..BufferSize]
    BY <1>1, SeqTypes, SeqElem
  <2>2. input_queue[k].buffer \in 1..NumBuffers
    BY SMT, <2>1
  <2>3. input_queue[k].buffer # g
    BY <1>2, <1>4 DEF QueueHas
  <2> QED
    BY <1>6, <2>2, <2>3
<1>13. f \in [1..n -> free]
  BY <1>11, <1>12
<1>14. PICK S : S = 1..n
  OBVIOUS
<1>15. PICK j \in S, k \in S : j # k /\ f[j] = f[k]
  BY <1>8, <1>9, <1>10, <1>13, <1>14, Finite!FS_PigeonHole
<1> QED
  BY <1>2, <1>11, <1>14, <1>15 DEF OwnInv, QueuedOnce

LEMMA OwnersCounted ==
  ASSUME OwnInv, BusyTyped, NEW b \in 1..NumBuffers
  PROVE  Finite!Cardinality(Owners(b)) = IF buffer_busy[b] THEN 1 ELSE 0
<1>1. \A x : x \in Owners(b) <=> \/ x = <<"recv", 0>> /\ RecvHas(b)
                                 \/ \E k \in DOMAIN input_queue :
                                      x = <<"queue", k>> /\ input_queue[k].buffer = b
                                 \/ x = <<"vsg_recv", 0>> /\ AppHas(b)
  BY SMT DEF Owners, RecvHas, RecvHolds, AppHas
<1>2. CASE RecvHas(b)
  <2>1. buffer_busy[b] /\ ~QueueHas(b) /\ ~AppHas(b)
    BY <1>2 DEF OwnInv
  <2>2. \A x : x \in Owners(b) <=> x = <<"recv", 0>>
    BY <1>1, <1>2, <2>1 DEF QueueHas
  <2>3. Owners(b) = {<<"recv", 0>>}
    BY <2>2
  <2> QED
    BY <2>1, <2>3, Finite!FS_Singleton
<1>3. CASE QueueHas(b)
  <2>1. buffer_busy[b] /\ ~RecvHas(b) /\ ~AppHas(b)
    BY <1>3 DEF OwnInv
  <2>2. PICK k \in DOMAIN input_queue : input_queue[k].buffer = b
    BY <1>3 DEF QueueHas
  <2>3. \A j \in DOMAIN input_queue : input_queue[j].buffer = b => j = k
    BY <2>2 DEF OwnInv, QueuedOnce
  <2>4. \A x : x \in Owners(b) <=> x = <<"queue", k>>
    BY <1>1, <2>1, <2>2, <2>3
  <2>5. Owners(b) = {<<"queue", k>>}
    BY <2>4
  <2> QED
    BY <2>1, <2>5, Finite!FS_Singleton
<1>4. CASE AppHas(b)
  <2>1. buffer_busy[b] /\ ~QueueHas(b) /\ ~RecvHas(b)
    BY <1>4 DEF OwnInv
  <2>2. \A x : x \in Owners(b) <=> x = <<"vsg_recv", 0>>
    BY <1>1, <1>4, <2>1 DEF QueueHas
  <2>3. Owners(b) = {<<"vsg_recv", 0>>}
    BY <2>2
  <2> QED
    BY <2>1, <2>3, Finite!FS_Singleton
<1>5. CASE ~RecvHas(b) /\ ~QueueHas(b) /\ ~AppHas(b)
  <2>1. ~buffer_busy[b]
    BY <1>5 DEF OwnInv
  <2>2. \A x : x \notin Owners(b)
    BY <1>1, <1>5 DEF QueueHas
  <2>3. Owners(b) = {}
    BY <2>2
  <2> QED
    BY <2>1, <2>3, Finite!FS_EmptySet
<1> QED
  BY <1>2, <1>3, <1>4, <1>5

LEMMA Conserved ==
  ASSUME TypeOK, RxInv, OwnInv
  PROVE  BuffersConserved
<1>0. ASSUME NEW S PROVE Cardinality(S) = Finite!Cardinality(S)
  BY DEF Cardinality, Finite!Cardinality
<1>1. \A b \in 1..NumBuffers : Cardinality(Owners(b)) = IF buffer_busy[b] THEN 1 ELSE 0
  BY <1>0, Busy, OwnersCounted
<1>2. rx.pc = "done" /\ rx.out = "DeliverPacket" => Len(input_queue) < NumBuffers
  BY RoomInQueue DEF RecvHolds, QueueHasRoom
<1> QED
  BY <1>1, <1>2 DEF BuffersConserved

(* The invariant is inductive.                                             *)
LEMMA InvStep == IInv /\ [Next]_vars => IInv'
<1>1. ASSUME IInv, Next PROVE IInv'
  <2>1. /\ TypeOK /\ ContextInv /\ PollInv /\ OwnInv /\ RxInv /\ PacketInv /\ CalledInv /\ OffsetInv
        /\ StreamInv
    BY <1>1 DEF IInv
  <2>2. TypeOK' /\ ContextInv' /\ PollInv' /\ OwnInv' /\ RxInv'
    BY <1>1, <2>1, TypeStep, ContextSteps, PollSteps, OwnStep, RxInvStep
  <2>3. QueueHasRoom
    BY <2>1, RoomInQueue
  <2>4. PacketInv' /\ CalledInv' /\ OffsetInv' /\ StreamInv'
    BY <1>1, <2>1, <2>3, PacketStep, CalledStep, OffsetStep, StreamStep
  <2> QED
    BY <2>2, <2>4 DEF IInv
<1> QED
  BY <1>1, StutterStep

LEMMA Invariant == Spec => []IInv
  BY InitInv, InvStep, PTL DEF Spec

LEMMA InStepInSync == ASSUME TypeOK, ContextInv, StreamInv PROVE InSync
<1>1. SUFFICES ASSUME rx.pc = "size", stream # <<>> PROVE Head(stream)[1] = "size"
  BY DEF InSync
<1>2. Listening /\ ~Cut
  <2>1. rx.pc \notin {"done", "idle", "allocate", "body"}
    BY SMTT(30), <1>1
  <2>2. state \in {"starting", "deadline"}
    BY <2>1 DEF ContextInv
  <2> QED
    BY <2>1, <2>2 DEF Listening, Cut
<1>3. PICK h, starts, np, nd : Synced(h, starts, np, nd)
  BY <1>2 DEF StreamInv
<1>4. PICK n : Head(stream) = <<"size", n>>
  BY <1>1, <1>3, NextSize
<1> QED
  BY SMTT(30), <1>4

(* The variables keep their types: a buffer read or freed is one of the    *)
(* pool, a byte read or copied lies in its memory, and the size of what    *)
(* MsgIn::recv reads fits in the buffer.                                   *)
THEOREM ClientApiTypes == Spec => []TypeOK
<1>1. IInv => TypeOK
  BY DEF IInv
<1> QED
  BY <1>1, Invariant, PTL

(* What the k-th successful vsg_recv copies out is the payload of the k-th *)
(* packet the peer sent, whatever deadline_handler receives meanwhile.     *)
THEOREM PacketsStayIntact == Spec => []PacketsIntact
<1>1. IInv => PacketsIntact
  BY DEF IInv, PacketInv, TakenInv, PacketsIntact
<1> QED
  BY <1>1, Invariant, PTL

(* Whenever MsgIn::recv is about to read a size, a size comes next in the  *)
(* socket, also after messages refused, cut or not decoded.                *)
THEOREM ReceiverInSync == Spec => []InSync
<1>1. IInv => InSync
  BY InStepInSync DEF IInv
<1> QED
  BY <1>1, Invariant, PTL

(* A buffer of the input pool is busy exactly as long as recv, the input   *)
(* queue or vsg_recv has it, and no two of them have the same; the queue   *)
(* has room for every packet that handle_actor_msg gets.                   *)
THEOREM BuffersAreConserved == Spec => []BuffersConserved
<1>1. IInv => BuffersConserved
  BY Conserved DEF IInv
<1> QED
  BY <1>1, Invariant, PTL

(* deadline_callback is called with the deadlines of the peer, in turn and *)
(* to the nanosecond, and the timespec of vsg_start is the offset.         *)
THEOREM TimesAreExact == Spec => []TimesExact
<1>1. IInv => TimesExact
  BY DEF IInv, CalledInv, OffsetInv, TimesExact
<1> QED
  BY <1>1, Invariant, PTL

(* Context::start and at_deadline receive only while somebody refers to    *)
(* the context, whenever the application calls vsg_cleanup.                *)
THEOREM HandlerHasContext == Spec => []HandlerKeepsContext
<1>1. IInv => HandlerKeepsContext
  BY SMTT(30) DEF IInv, ContextInv, HandlerKeepsContext, Connected, Started
<1> QED
  BY <1>1, Invariant, PTL

(* After a vsg_poll that returned 0, vsg_recv does not return EAGAIN.      *)
THEOREM PolledCanRecv == Spec => []PollThenRecv
<1>1. IInv => PollThenRecv
  BY DEF IInv, PollInv, PollThenRecv
<1> QED
  BY <1>1, Invariant, PTL
=============================================================================
