--------------------------- MODULE SendPath_proofs --------------------------
(***************************************************************************)
(* Proofs about SendPath, for any number of threads and of buffers.        *)
(*                                                                         *)
(* The invariant has three parts.  SetInv is the one of the slot array.    *)
(* Ownership says that a buffer is in at most one place and that its flag  *)
(* says whether it is in one.  Room counts: at most NumBuffers - k + 1     *)
(* messages are in slot k or in a later one, or on their way there.  A     *)
(* scan that finds slot k taken leaves behind the message that takes it,   *)
(* so the count for k + 1 stays within its bound, and after the last slot  *)
(* there is nobody left.                                                   *)
(***************************************************************************)
EXTENDS SendPath, TLAPS

(* The pool by itself: what its steps preserve, whoever makes them.        *)
(* A scan that was not contended has a free buffer still ahead of it.      *)
ScanInv ==
  \A u \in Threads : scan[u] # 0 =>
    /\ outcome[u] = "Pending"
    /\ got[u] = 0
    /\ contended[u] \/ \E i \in Pool!Index : i >= scan[u] /\ ~buffer_busy[i]

PoolInv == Pool!TypeOK /\ Pool!BufferExclusive /\ ScanInv

(* Zenon tries every leaf that does not name another prover.               *)
USE Zenon

(* What Observe makes of the history of a scan that goes on.               *)
LEMMA ObserveLemma ==
  ASSUME Pool!Observe, NEW u \in Threads, scan'[u] # 0, ~contended'[u]
  PROVE  /\ scan[u] # 0 => ~contended[u]
         /\ \E i \in Pool!Index : ~buffer_busy'[i]
         /\ \A v \in Threads \ {u} : scan[v] # 0 => got'[v] = 0
  BY SMT DEF Pool!Observe, Pool!Full

LEMMA ObserveType == Pool!Observe => contended' \in [Threads -> BOOLEAN]
  BY SMT DEF Pool!Observe

LEMMA PoolInit == ASSUME NumBuffers \in Nat \ {0}, Pool!Init PROVE PoolInv
  BY SMT DEF Pool!Init, Pool!new, PoolInv, Pool!TypeOK, Pool!BufferExclusive, ScanInv, Pool!Index,
     Pool!Outcomes

(* allocate_buffer begins a scan at the first buffer.                      *)
LEMMA PoolAllocate ==
  ASSUME NumBuffers \in Nat \ {0}, PoolInv,
         NEW u \in Threads, NEW fits \in BOOLEAN, Pool!allocate_buffer(u, fits)
  PROVE  PoolInv'
<1> USE DEF PoolInv, Pool!allocate_buffer, Pool!Index
<1>1. Pool!TypeOK'
  <2>1. scan' \in [Threads -> 0..NumBuffers] /\ got' \in [Threads -> 0..NumBuffers]
    BY SMT DEF Pool!TypeOK
  <2>2. outcome' \in [Threads -> Pool!Outcomes]
    BY SMT DEF Pool!TypeOK, Pool!Outcomes
  <2> QED
    BY SMT, <2>1, <2>2, ObserveType DEF Pool!TypeOK
<1>2. Pool!BufferExclusive'
  BY SMT DEF Pool!BufferExclusive, Pool!TypeOK
<1>3. ScanInv'
  <2> SUFFICES ASSUME NEW w \in Threads, scan'[w] # 0
               PROVE  /\ outcome'[w] = "Pending"
                      /\ got'[w] = 0
                      /\ contended'[w] \/ \E i \in Pool!Index : i >= scan'[w] /\ ~buffer_busy'[i]
    BY SMT DEF ScanInv
  <2>1. CASE w = u
    <3>1. scan'[w] = 1 /\ outcome'[w] = "Pending" /\ got'[w] = 0
      BY SMT, <2>1 DEF Pool!TypeOK
    <3>2. contended'[w] \/ \E i \in Pool!Index : ~buffer_busy'[i]
      BY SMT, ObserveLemma
    <3> QED
      BY SMT, <3>1, <3>2
  <2>2. CASE w # u
    <3>1. scan'[w] = scan[w] /\ outcome'[w] = outcome[w] /\ got'[w] = got[w]
      BY SMT, <2>2 DEF Pool!TypeOK
    <3>2. contended[w] => contended'[w]
      BY SMT, <3>1, ObserveLemma
    <3> QED
      BY SMT, <3>1, <3>2 DEF ScanInv
  <2> QED
    BY SMT, <2>1, <2>2
<1> QED
  BY SMT, <1>1, <1>2, <1>3

(* A scan ends with a buffer; those it gets ahead of have been contended.  *)
LEMMA PoolSwapFree ==
  ASSUME NumBuffers \in Nat \ {0}, PoolInv, NEW u \in Threads, Pool!SwapFree(u)
  PROVE  PoolInv'
<1> USE DEF PoolInv, Pool!SwapFree, Pool!Index
<1>1. scan[u] \in Pool!Index
  BY SMT DEF Pool!TypeOK
<1>2. Pool!TypeOK'
  <2>1. scan' \in [Threads -> 0..NumBuffers] /\ got' \in [Threads -> 0..NumBuffers]
    BY SMT, <1>1 DEF Pool!TypeOK
  <2>2. outcome' \in [Threads -> Pool!Outcomes]
    BY SMT DEF Pool!TypeOK, Pool!Outcomes
  <2>3. live' \in [Pool!Index -> Nat]
    BY SMT, <1>1 DEF Pool!TypeOK
  <2>4. buffer_busy' \in [Pool!Index -> BOOLEAN]
    BY SMT, <1>1 DEF Pool!TypeOK
  <2> QED
    BY SMT, <2>1, <2>2, <2>3, <2>4, ObserveType DEF Pool!TypeOK
<1>3. Pool!BufferExclusive'
  BY SMT, <1>1 DEF Pool!BufferExclusive, Pool!TypeOK
<1>4. ScanInv'
  <2> SUFFICES ASSUME NEW w \in Threads, scan'[w] # 0
               PROVE  /\ outcome'[w] = "Pending"
                      /\ got'[w] = 0
                      /\ contended'[w]
    BY SMT DEF ScanInv
  <2>1. w # u
    BY SMT DEF Pool!TypeOK
  <2>2. scan'[w] = scan[w] /\ outcome'[w] = outcome[w] /\ got'[w] = got[w]
    BY SMT, <2>1 DEF Pool!TypeOK
  <2>3. scan[u] # 0 /\ got'[u] # 0
    BY SMT, <1>1 DEF Pool!TypeOK
  <2>4. contended'[w]
    BY SMT, <2>1, <2>3, ObserveLemma
  <2> QED
    BY SMT, <2>2, <2>4 DEF ScanInv
<1> QED
  BY SMT, <1>2, <1>3, <1>4

(* A scan passes over a busy buffer.                                       *)
LEMMA PoolSwapBusy ==
  ASSUME NumBuffers \in Nat \ {0}, PoolInv, NEW u \in Threads, Pool!SwapBusy(u)
  PROVE  PoolInv'
<1> USE DEF PoolInv, Pool!SwapBusy, Pool!Index
<1>1. scan[u] \in Pool!Index
  BY SMT DEF Pool!TypeOK
<1>2. Pool!TypeOK'
  <2>1. scan' \in [Threads -> 0..NumBuffers]
    <3>1. scan \in [Threads -> 0..NumBuffers]
      BY SMT DEF Pool!TypeOK
    <3>2. \E k \in 0..NumBuffers : scan' = [scan EXCEPT ![u] = k]
      BY SMT, <1>1
    <3> QED
      BY <3>1, <3>2
  <2>2. outcome' \in [Threads -> Pool!Outcomes]
    BY SMT DEF Pool!TypeOK, Pool!Outcomes
  <2> QED
    BY SMT, <2>1, <2>2, ObserveType DEF Pool!TypeOK
<1>3. Pool!BufferExclusive'
  BY SMT DEF Pool!BufferExclusive, Pool!TypeOK
<1>4. ScanInv'
  <2> SUFFICES ASSUME NEW w \in Threads, scan'[w] # 0
               PROVE  /\ outcome'[w] = "Pending"
                      /\ got'[w] = 0
                      /\ contended'[w] \/ \E i \in Pool!Index : i >= scan'[w] /\ ~buffer_busy'[i]
    BY SMT DEF ScanInv
  <2>1. scan[w] # 0 /\ outcome'[w] = outcome[w] /\ got'[w] = got[w]
    BY SMT, <1>1 DEF Pool!TypeOK
  <2>2. contended[w] => contended'[w]
    BY SMT, <2>1, ObserveLemma
  <2>3. CASE w = u
    <3>1. scan'[w] = scan[w] + 1
      BY SMT, <2>3 DEF Pool!TypeOK
    <3> QED
      BY SMT, <1>1, <2>1, <2>2, <2>3, <3>1 DEF ScanInv, Pool!TypeOK
  <2>4. CASE w # u
    <3>1. scan'[w] = scan[w]
      BY SMT, <2>4, <1>1 DEF Pool!TypeOK
    <3> QED
      BY SMT, <2>1, <2>2, <3>1 DEF ScanInv
  <2> QED
    BY SMT, <2>3, <2>4
<1> QED
  BY SMT, <1>2, <1>3, <1>4

(* free_buffer only adds to the free buffers.                              *)
LEMMA PoolFree ==
  ASSUME NumBuffers \in Nat \ {0}, PoolInv, NEW b \in Pool!Index, Pool!free_buffer(b)
  PROVE  PoolInv'
<1> USE DEF PoolInv, Pool!free_buffer
<1>1. Pool!TypeOK'
  BY SMT, ObserveType DEF Pool!TypeOK
<1>2. Pool!BufferExclusive'
  BY SMT DEF Pool!BufferExclusive, Pool!TypeOK
<1>3. ScanInv'
  <2> SUFFICES ASSUME NEW w \in Threads, scan[w] # 0
               PROVE  contended'[w] \/ \E i \in Pool!Index : i >= scan[w] /\ ~buffer_busy'[i]
    BY SMT DEF ScanInv
  <2>1. contended[w] => contended'[w]
    BY SMT, ObserveLemma
  <2>2. \A i \in Pool!Index : ~buffer_busy[i] => ~buffer_busy'[i]
    BY SMT DEF Pool!TypeOK
  <2> QED
    BY SMT, <2>1, <2>2 DEF ScanInv
<1> QED
  BY SMT, <1>1, <1>2, <1>3

LEMMA PoolNext ==
  ASSUME NumBuffers \in Nat \ {0}, PoolInv, [Pool!Next]_(Pool!vars)
  PROVE  PoolInv'
<1>1. CASE \E u \in Threads, fits \in BOOLEAN : Pool!allocate_buffer(u, fits)
  BY SMT, <1>1, PoolAllocate
<1>2. CASE \E u \in Threads : Pool!SwapFree(u)
  BY SMT, <1>2, PoolSwapFree
<1>3. CASE \E u \in Threads : Pool!SwapBusy(u)
  BY SMT, <1>3, PoolSwapBusy
<1>4. CASE \E i \in Pool!Index : Pool!free_buffer(i)
  BY SMT, <1>4, PoolFree
<1>5. CASE UNCHANGED Pool!vars
  BY SMT, <1>5 DEF Pool!vars, PoolInv, Pool!TypeOK, Pool!BufferExclusive, ScanInv
<1> QED
  BY SMT, <1>1, <1>2, <1>3, <1>4, <1>5 DEF Pool!Next

(* The step at which a scan gives up.                                      *)
LEMMA PoolGivesUp ==
  ASSUME NumBuffers \in Nat \ {0}, PoolInv, [Pool!Next]_(Pool!vars), NEW u \in Threads,
         scan[u] # 0, outcome'[u] = "NoBufferAvailable"
  PROVE  contended[u]
<1>1. scan[u] \in Pool!Index /\ outcome[u] = "Pending" /\ outcome \in [Threads -> Pool!Outcomes]
  BY SMT DEF PoolInv, Pool!TypeOK, ScanInv, Pool!Index
<1>2. PICK v \in Threads : \/ Pool!SwapBusy(v) \/ Pool!SwapFree(v)
                          \/ \E fits \in BOOLEAN : Pool!allocate_buffer(v, fits)
  BY SMT, <1>1 DEF Pool!Next, Pool!free_buffer, Pool!vars
<1>3. ~Pool!SwapFree(v) /\ ~\E fits \in BOOLEAN : Pool!allocate_buffer(v, fits)
  BY SMT, <1>1 DEF Pool!SwapFree, Pool!allocate_buffer
<1>4. Pool!SwapBusy(v) /\ outcome'[u] # outcome[u]
  BY SMT, <1>1, <1>2, <1>3
<1>5. ~(scan[v] < NumBuffers)
  BY SMT, <1>4 DEF Pool!SwapBusy
<1>6. v = u
  BY SMT, <1>1, <1>4, <1>5 DEF Pool!SwapBusy
<1>7. \A i \in Pool!Index : i >= scan[u] => i = scan[u]
  BY SMT, <1>1, <1>5, <1>6 DEF Pool!Index
<1>8. buffer_busy[scan[u]]
  BY SMT, <1>4, <1>6 DEF Pool!SwapBusy
<1> QED
  BY <1>7, <1>8 DEF PoolInv, ScanInv

-----------------------------------------------------------------------------
SetP == INSTANCE OutputMsgSet_proofs
          WITH NumSlots <- NumBuffers, Msgs <- Buffers, NoMsg <- NoBuffer

PoolTypes ==
  /\ buffer_busy \in [Buffers -> BOOLEAN]
  /\ live \in [Buffers -> Nat]
  /\ scan \in [Threads -> 0..NumBuffers]
  /\ got \in [Threads -> 0..NumBuffers]
  /\ upcoming \in SUBSET Buffers
  /\ phase \in [Threads -> {"out", "allocating", "built", "inserting"}]
  /\ handler \in {"running", "draining", "flushing", "ended"}

(* Where Context::send and at_deadline are agrees with where the calls     *)
(* they make are.                                                          *)
Phases ==
  /\ \A t \in Threads :
       /\ phase[t] = "allocating" => scan[t] \in Buffers
       /\ phase[t] = "built" => got[t] \in Buffers
       /\ phase[t] = "inserting" <=> inserting[t].pc \in {"swap", "write", "publish"}
  /\ handler = "draining" <=> draining.pc # "idle"

Built(t, b) == phase[t] = "built" /\ got[t] = b

(* A buffer is in at most one place.                                       *)
Unique ==
  \A b \in Buffers :
    /\ \A t \in Threads : Built(t, b) =>
         /\ \A u \in Threads \ {t} : ~Built(u, b)
         /\ \A u \in Threads : inserting[u].msg # b
         /\ \A i \in Buffers : slots[i] # b
         /\ draining.msg # b
         /\ b \notin upcoming
    /\ \A t \in Threads : inserting[t].msg = b =>
         /\ \A u \in Threads \ {t} : inserting[u].msg # b
         /\ \A i \in Buffers : slots[i] # b
         /\ draining.msg # b
         /\ b \notin upcoming
    /\ \A i \in Buffers : slots[i] = b =>
         /\ \A j \in Buffers \ {i} : slots[j] # b
         /\ draining.msg # b
         /\ b \notin upcoming
    /\ draining.msg = b => b \notin upcoming

Somewhere(b) ==
  \/ \E t \in Threads : Built(t, b)
  \/ \E t \in Threads : inserting[t].msg = b
  \/ \E i \in Buffers : slots[i] = b
  \/ draining.msg = b
  \/ b \in upcoming

(* The flag of a buffer says whether the buffer is in use.                 *)
BusyIffSomewhere == \A b \in Buffers : buffer_busy[b] <=> Somewhere(b)

(* The messages in slot k or beyond it, or headed there.                   *)
Beyond(k) ==
  {b \in Buffers :
     \/ \E t \in Threads : inserting[t].msg = b /\ inserting[t].idx >= k
     \/ \E i \in Buffers : i >= k /\ slots[i] = b
     \/ /\ draining.pc \in {"invalidate", "release"}
        /\ draining.msg = b
        /\ draining.idx >= k}

Room == \A k \in Buffers : SetP!Cardinality(Beyond(k)) <= NumBuffers - k + 1

SendInv ==
  /\ PoolTypes
  /\ SetP!SetInv
  /\ Phases
  /\ Unique
  /\ BusyIffSomewhere
  /\ Room
  /\ SlotAlwaysAvailable

-----------------------------------------------------------------------------
(* The set is one of NumBuffers slots for the indices of the buffers.      *)
LEMMA SetParams == NoBuffer \notin Buffers /\ NumBuffers \in Nat \ {0}
  BY SMT, NumBuffersAssumption DEF NoBuffer, Buffers

LEMMA BuffersFinite == SetP!IsFiniteSet(Buffers) /\ SetP!Cardinality(Buffers) = NumBuffers
<1>1. NumBuffers \in Nat
  BY NumBuffersAssumption
<1>2. SetP!IsFiniteSet(1..NumBuffers) /\ SetP!Cardinality(1..NumBuffers) = NumBuffers
  BY SMTT(30), <1>1, SetParams, SetP!FS_Interval
<1>3. QED
  BY <1>2 DEF Buffers

LEMMA SendInit == Init => SendInv
<1> SUFFICES ASSUME Init PROVE SendInv
  OBVIOUS
<1> USE NumBuffersAssumption
<1>1. PoolTypes
  BY SMT DEF Init, Pool!Init, Pool!new, PoolTypes, Pool!Index, Buffers
<1>2. SetP!SetInv
  <2>1. SetP!Init
    BY DEF Init, Set!Init, SetP!Init, Set!new, SetP!new, Set!Slot, SetP!Slot
  <2>2. QED
    BY SMTT(30), <2>1, SetP!SetInit DEF NoBuffer, Buffers
<1>3. Phases
  BY DEF Init, Phases, Set!Init
<1>4. Unique /\ BusyIffSomewhere
  BY SMT DEF Init, Pool!Init, Pool!new, Set!Init, Set!new, Unique, BusyIffSomewhere, Somewhere,
     Built, Pool!Index, Set!Slot, Buffers, NoBuffer
<1>5. Room
  <2>1. \A k \in Buffers : Beyond(k) = {}
    BY SMT DEF Init, Set!Init, Set!new, Beyond, Set!Slot, Buffers, NoBuffer
  <2>2. QED
    BY SMTT(30), <2>1, SetParams, SetP!FS_EmptySet DEF Room, Buffers
<1>6. SlotAlwaysAvailable
  BY DEF Init, Set!Init, SlotAlwaysAvailable
<1>7. QED
  BY <1>1, <1>2, <1>3, <1>4, <1>5, <1>6 DEF SendInv

-----------------------------------------------------------------------------
(* A step that moves no message leaves every buffer where it is.           *)
LEMMA PlacesUnchanged ==
  ASSUME Unique, BusyIffSomewhere,
         \A u \in Threads, b \in Buffers : Built(u, b)' <=> Built(u, b),
         \A u \in Threads : inserting'[u].msg = inserting[u].msg,
         draining'.msg = draining.msg,
         UNCHANGED <<slots, upcoming, buffer_busy>>
  PROVE  Unique' /\ BusyIffSomewhere'
<1>1. Unique'
  BY DEF Unique
<1>2. \A b \in Buffers : Somewhere(b)' <=> Somewhere(b)
  BY DEF Somewhere
<1>3. BusyIffSomewhere'
  BY <1>2 DEF BusyIffSomewhere
<1>4. QED
  BY <1>1, <1>3

(* A message in Beyond(k) after a step was there before it, when no        *)
(* message is new to the inserts, the slots and the handler's hand.        *)
LEMMA BeyondShrinks ==
  ASSUME \A u \in Threads : inserting'[u].msg \in Buffers =>
           inserting'[u].msg = inserting[u].msg /\ inserting'[u].idx = inserting[u].idx,
         slots' = slots,
         draining'.pc \in {"invalidate", "release"} =>
           /\ draining.pc \in {"invalidate", "release"}
           /\ draining'.msg = draining.msg
           /\ draining'.idx = draining.idx
  PROVE  \A k \in Buffers : Beyond(k)' \subseteq Beyond(k)
<1> SUFFICES ASSUME NEW k \in Buffers, NEW b \in Buffers, b \in Beyond(k)'
             PROVE  b \in Beyond(k)
  BY DEF Beyond
<1>1. CASE \E u \in Threads : inserting'[u].msg = b /\ inserting'[u].idx >= k
  BY <1>1 DEF Beyond
<1>2. CASE \E i \in Buffers : i >= k /\ slots'[i] = b
  BY <1>2 DEF Beyond
<1>3. CASE draining'.pc \in {"invalidate", "release"} /\ draining'.msg = b /\ draining'.idx >= k
  BY <1>3 DEF Beyond
<1>4. QED
  BY <1>1, <1>2, <1>3 DEF Beyond

(* Only an insertion at the first slot or a skip can add to Beyond(k), and *)
(* for k = 1 the bound is the number of buffers.                           *)
LEMMA RoomShrinks ==
  ASSUME Room, \A k \in Buffers : k > 1 => Beyond(k)' \subseteq Beyond(k)
  PROVE  Room'
<1> SUFFICES ASSUME NEW k \in Buffers PROVE SetP!Cardinality(Beyond(k)') <= NumBuffers - k + 1
  BY DEF Room, Buffers
<1> USE NumBuffersAssumption
<1>1. Beyond(k) \subseteq Buffers /\ Beyond(k)' \subseteq Buffers
  BY DEF Beyond, Buffers
<1>2. /\ SetP!IsFiniteSet(Beyond(k))
      /\ SetP!Cardinality(Beyond(k)') <= NumBuffers
  BY <1>1, BuffersFinite, SetParams, SetP!FS_Subset
<1>3. CASE k = 1
  BY SMTT(30), <1>2, <1>3 DEF Buffers
<1>4. CASE k > 1
  <2>1. Beyond(k)' \subseteq Beyond(k)
    BY <1>4
  <2>2. SetP!Cardinality(Beyond(k)') <= SetP!Cardinality(Beyond(k))
    BY <1>2, <2>1, SetParams, SetP!FS_Subset
  <2>3. SetP!Cardinality(Beyond(k)) <= NumBuffers - k + 1
    BY DEF Room
  <2>4. SetP!IsFiniteSet(Beyond(k)')
    BY <1>2, <2>1, SetParams, SetP!FS_Subset
  <2>5. SetP!Cardinality(Beyond(k)') \in Nat /\ SetP!Cardinality(Beyond(k)) \in Nat
    BY <1>2, <2>4, SetParams, SetP!FS_CardinalityType
  <2>6. QED
    BY SMTT(30), <2>2, <2>3, <2>5 DEF Buffers
<1>5. QED
  BY SMTT(30), <1>3, <1>4 DEF Buffers

LEMMA SetUnchanged ==
  ASSUME SendInv, UNCHANGED setVars
  PROVE  SetP!SetInv' /\ Room' /\ SlotAlwaysAvailable'
<1>1. SetP!SetInv'
  <2>1. UNCHANGED SetP!vars
    BY DEF setVars, SetP!vars
  <2>2. QED
    BY SMTT(30), <2>1, NumBuffersAssumption, SetP!SetNext DEF SendInv, NoBuffer, Buffers
<1>2. \A k \in Buffers : Beyond(k)' = Beyond(k)
  BY DEF setVars, Beyond
<1>3. Room'
  BY <1>2, RoomShrinks DEF SendInv
<1>4. SlotAlwaysAvailable'
  BY DEF setVars, SendInv, SlotAlwaysAvailable
<1>5. QED
  BY <1>1, <1>3, <1>4

LEMMA SendSteps ==
  ASSUME SendInv, NEW t \in Threads, NEW fits \in BOOLEAN, Send(t, fits)
  PROVE  SendInv'
<1> USE NumBuffersAssumption DEF SendInv, Send, Pool!allocate_buffer
<1>1. PoolTypes'
  BY SMT DEF PoolTypes, Buffers
<1>2. Phases'
  BY SMT DEF Phases, PoolTypes, setVars, Buffers
<1>3. \A u \in Threads, b \in Buffers : Built(u, b)' <=> Built(u, b)
  BY DEF Built, PoolTypes, Buffers
<1>4. Unique' /\ BusyIffSomewhere'
  BY SMT, <1>3 DEF setVars, Unique, BusyIffSomewhere, Somewhere
<1>5. QED
  BY <1>1, <1>2, <1>4, SetUnchanged

LEMMA SendScanSteps ==
  ASSUME SendInv, NEW t \in Threads, SendScan(t)
  PROVE  SendInv'
<1> USE NumBuffersAssumption DEF SendInv, SendScan, Pool!SwapBusy
<1>1. PoolTypes'
  BY SMT DEF PoolTypes, Buffers
<1>2. Phases'
  BY SMT DEF Phases, PoolTypes, setVars, Buffers
<1>3. \A u \in Threads, b \in Buffers : Built(u, b)' <=> Built(u, b)
  BY DEF Built, PoolTypes
<1>4. Unique' /\ BusyIffSomewhere'
  BY SMT, <1>3 DEF setVars, Unique, BusyIffSomewhere, Somewhere
<1>5. QED
  BY <1>1, <1>2, <1>4, SetUnchanged

LEMMA SendAllocatedSteps ==
  ASSUME SendInv, NEW t \in Threads, SendAllocated(t)
  PROVE  SendInv'
<1> USE NumBuffersAssumption DEF SendInv, SendAllocated, Pool!SwapFree
<1>1. PoolTypes'
  BY SMTT(30) DEF PoolTypes, Phases, Buffers
<1>2. Phases'
  BY DEF Phases, PoolTypes, setVars, Buffers
<1>3. /\ scan[t] \in Buffers
      /\ ~Somewhere(scan[t])
  BY DEF Phases, BusyIffSomewhere
<1>4. \A u \in Threads, b \in Buffers :
        Built(u, b)' <=> Built(u, b) \/ (u = t /\ b = scan[t])
  BY DEF Built, PoolTypes
<1>5. UNCHANGED <<setVars, upcoming>> /\ Unique
  OBVIOUS
<1>6. BusyIffSomewhere'
  BY <1>3, <1>4 DEF setVars, BusyIffSomewhere, Somewhere, PoolTypes
<1> HIDE DEF SendInv, SendAllocated, Pool!SwapFree
<1>7. Unique'
  BY SMTT(30), <1>3, <1>4, <1>5 DEF setVars, Unique, Somewhere
<1>8. QED
  BY <1>1, <1>2, <1>5, <1>6, <1>7, SetUnchanged DEF SendInv

LEMMA SendOverrunSteps ==
  ASSUME SendInv, NEW t \in Threads, SendOverrun(t)
  PROVE  SendInv'
<1> USE NumBuffersAssumption DEF SendInv, SendOverrun
<1>1. got[t] \in Buffers /\ Built(t, got[t])
  BY DEF Phases, Built
<1>2. PoolTypes'
  BY <1>1 DEF PoolTypes, poolVars
<1>3. Phases'
  BY DEF Phases, PoolTypes, poolVars, setVars
<1>4. \A u \in Threads, b \in Buffers : Built(u, b)' <=> Built(u, b) /\ u # t
  BY DEF Built, PoolTypes, poolVars
<1>5. Unique'
  BY SMTT(30), <1>1, <1>4 DEF setVars, Unique
<1>6. BusyIffSomewhere'
  BY SMTT(30), <1>1, <1>4 DEF setVars, poolVars, BusyIffSomewhere, Somewhere, Built
<1>7. QED
  BY <1>2, <1>3, <1>5, <1>6, SetUnchanged

LEMMA SendInsertSteps ==
  ASSUME SendInv, NEW t \in Threads, SendInsert(t)
  PROVE  SendInv'
<1> USE NumBuffersAssumption DEF SendInv, SendInsert, Set!insert
<1>1. got[t] \in Buffers /\ Built(t, got[t])
  BY DEF Phases, Built
<1>2. SetP!SetInv'
  <2>1. SetP!insert(t, got[t])
    BY DEF SetP!insert
  <2>2. QED
    BY SMTT(30), <1>1, <2>1, SetP!insertInv DEF NoBuffer, Buffers
<1> HIDE DEF SendInv
<1>3. /\ PoolTypes /\ Phases /\ Unique /\ BusyIffSomewhere /\ Room
      /\ SlotAlwaysAvailable /\ SetP!TypeOK
  BY DEF SendInv, SetP!SetInv
<1>4. PoolTypes'
  BY <1>3 DEF PoolTypes, poolVars
<1>5. Phases'
  BY <1>3 DEF Phases, PoolTypes, poolVars, SetP!TypeOK
<1>6. \A u \in Threads, b \in Buffers : Built(u, b)' <=> Built(u, b) /\ u # t
  BY <1>3 DEF Built, PoolTypes, poolVars
<1>7. /\ \A u \in Threads \ {t} : inserting'[u] = inserting[u]
      /\ inserting'[t].msg = got[t] /\ inserting'[t].idx = 1
  BY <1>3 DEF SetP!TypeOK
<1>8. UNCHANGED <<poolVars, slots, draining, upcoming>>
  OBVIOUS
<1>9. inserting[t].msg \notin Buffers
  BY SMT, <1>3 DEF SendInv, SetP!SetInv, SetP!InsertShape, NoBuffer, Buffers
<1>10. Unique' /\ BusyIffSomewhere' /\ Room'
  <2> HIDE DEF SendInsert, Set!insert
  <2>1. Unique'
    BY SMTT(30), <1>1, <1>3, <1>6, <1>7, <1>8 DEF Unique
  <2>2. ASSUME NEW b \in Buffers PROVE Somewhere(b)' <=> Somewhere(b)
    <3>1. CASE b = got[t]
      BY <1>1, <1>7, <3>1 DEF Somewhere
    <3>2. CASE b # got[t]
      <4>1. \A u \in Threads : Built(u, b)' <=> Built(u, b)
        BY <1>6, <3>2 DEF Built
      <4>2. \A u \in Threads : inserting'[u].msg = b <=> inserting[u].msg = b
        BY <1>7, <1>9, <3>2
      <4>3. QED
        BY <1>8, <4>1, <4>2 DEF Somewhere
    <3>3. QED
      BY <3>1, <3>2
  <2>3. BusyIffSomewhere'
    BY <1>3, <1>8, <2>2 DEF poolVars, BusyIffSomewhere
  <2>4. ASSUME NEW k \in Buffers, k > 1 PROVE Beyond(k)' \subseteq Beyond(k)
    <3>1. \A u \in Threads : inserting'[u].idx >= k => inserting'[u] = inserting[u]
      BY SMTT(30), <1>7, <2>4 DEF Buffers
    <3>2. QED
      BY <1>8, <3>1 DEF Beyond
  <2>5. QED
    BY <1>3, <2>1, <2>3, <2>4, RoomShrinks
<1>11. SlotAlwaysAvailable'
  BY <1>3 DEF SlotAlwaysAvailable, SetP!TypeOK
<1>12. QED
  BY <1>2, <1>4, <1>5, <1>10, <1>11 DEF SendInv

(* The heart of the argument: the slot a scan skips is held by a message   *)
(* other than the one being inserted, and that message is at that slot.    *)
LEMMA SkipLeavesOneBehind ==
  ASSUME SendInv, NEW t \in Threads,
         inserting[t].pc = "swap", slot_busy[inserting[t].idx]
  PROVE  \E m \in Buffers :
           /\ m \in Beyond(inserting[t].idx)
           /\ m # inserting[t].msg
           /\ \A k \in Buffers : k > inserting[t].idx => m \notin Beyond(k)
<1> DEFINE i == inserting[t].idx
<1> USE NumBuffersAssumption
<1>1. i \in Buffers /\ inserting[t].msg \in Buffers
  BY DEF SendInv, SetP!SetInv, SetP!InsertShape, SetP!Slot, Buffers
<1>2. CASE \E u \in Threads : inserting[u].pc = "write" /\ inserting[u].idx = i
  <2>1. PICK u \in Threads : inserting[u].pc = "write" /\ inserting[u].idx = i
    BY <1>2
  <2>2. inserting[u].msg \in Buffers /\ u # t
    BY <2>1 DEF SendInv, SetP!SetInv, SetP!InsertShape
  <2>3. /\ \A v \in Threads \ {u} : inserting[v].msg # inserting[u].msg
        /\ \A j \in Buffers : slots[j] # inserting[u].msg
        /\ draining.msg # inserting[u].msg
    BY <2>2 DEF SendInv, Unique
  <2>4. inserting[u].msg \in Beyond(i)
    BY SMTT(30), <1>1, <2>1, <2>2 DEF Beyond, Buffers
  <2>5. \A k \in Buffers : k > i => inserting[u].msg \notin Beyond(k)
    BY SMTT(30), <1>1, <2>1, <2>2, <2>3 DEF Beyond, Buffers
  <2>6. QED
    BY <2>2, <2>3, <2>4, <2>5
<1>3. CASE slots[i] \in Buffers
  <2>1. /\ \A u \in Threads : inserting[u].msg # slots[i]
        /\ \A j \in Buffers \ {i} : slots[j] # slots[i]
        /\ draining.msg # slots[i]
    BY <1>1, <1>3 DEF SendInv, Unique
  <2>2. slots[i] \in Beyond(i)
    BY SMTT(30), <1>1, <1>3 DEF Beyond, Buffers
  <2>3. \A k \in Buffers : k > i => slots[i] \notin Beyond(k)
    BY SMTT(30), <1>1, <1>3, <2>1 DEF Beyond, Buffers
  <2>4. QED
    BY <1>3, <2>1, <2>2, <2>3
<1>4. CASE draining.pc \in {"invalidate", "release"} /\ draining.idx = i
  <2>1. draining.msg \in Buffers
    BY <1>4 DEF SendInv, SetP!SetInv, SetP!DrainShape
  <2>2. /\ \A u \in Threads : inserting[u].msg # draining.msg
        /\ \A j \in Buffers : slots[j] # draining.msg
    BY <2>1 DEF SendInv, Unique
  <2>3. draining.msg \in Beyond(i)
    BY SMTT(30), <1>1, <1>4, <2>1 DEF Beyond, Buffers
  <2>4. \A k \in Buffers : k > i => draining.msg \notin Beyond(k)
    BY SMTT(30), <1>1, <1>4, <2>1, <2>2 DEF Beyond, Buffers
  <2>5. QED
    BY <2>1, <2>2, <2>3, <2>4
<1>5. \/ \E u \in Threads : inserting[u].pc = "write" /\ inserting[u].idx = i
      \/ slots[i] \in Buffers
      \/ draining.pc \in {"invalidate", "release"} /\ draining.idx = i
  BY SMT, <1>1 DEF SendInv, SetP!SetInv, SetP!SlotShape, SetP!FillerOwnsSlot, SetP!Filling,
     SetP!Slot, Buffers
<1>6. QED
  BY <1>2, <1>3, <1>4, <1>5

(* So the number of messages beyond a skipped slot is within the bound of  *)
(* the next one, and the last slot is never skipped.                       *)
LEMMA SkipKeepsRoom ==
  ASSUME SendInv, NEW t \in Threads, Set!InsertSkip(t)
  PROVE  /\ inserting[t].idx < NumBuffers
         /\ Room'
<1> DEFINE i == inserting[t].idx
           m == inserting[t].msg
<1> USE NumBuffersAssumption
<1>1. i \in Buffers /\ m \in Buffers /\ inserting[t].pc = "swap" /\ slot_busy[i]
  BY DEF SendInv, SetP!SetInv, SetP!InsertShape, SetP!Slot, Buffers, Set!InsertSkip
<1>2. PICK o \in Buffers : /\ o \in Beyond(i)
                           /\ o # m
                           /\ \A k \in Buffers : k > i => o \notin Beyond(k)
  BY <1>1, SkipLeavesOneBehind
<1>3. m \in Beyond(i)
  BY SMT, <1>1 DEF Beyond, Buffers
<1>4. /\ SetP!IsFiniteSet(Beyond(i))
      /\ SetP!Cardinality(Beyond(i)) \in Nat
      /\ SetP!Cardinality(Beyond(i)) <= NumBuffers - i + 1
  <2>1. Beyond(i) \subseteq Buffers
    BY DEF Beyond
  <2>2. SetP!IsFiniteSet(Beyond(i))
    BY <2>1, BuffersFinite, SetParams, SetP!FS_Subset
  <2>3. QED
    BY <1>1, <2>2, SetParams, SetP!FS_CardinalityType DEF SendInv, Room
<1>5. /\ SetP!IsFiniteSet(Beyond(i) \ {o})
      /\ SetP!Cardinality(Beyond(i) \ {o}) = SetP!Cardinality(Beyond(i)) - 1
  BY <1>2, <1>4, SetParams, SetP!FS_RemoveElement
<1>6. SetP!Cardinality(Beyond(i) \ {o}) >= 1
  <2>1. {m} \subseteq Beyond(i) \ {o}
    BY <1>2, <1>3
  <2>2. SetP!Cardinality({m}) = 1
    BY SetParams, SetP!FS_Singleton
  <2>3. SetP!Cardinality({m}) <= SetP!Cardinality(Beyond(i) \ {o})
    BY <1>5, <2>1, SetParams, SetP!FS_Subset
  <2>4. QED
    BY <1>4, <1>5, <2>2, <2>3
<1>7. i < NumBuffers
  BY SMTT(30), <1>1, <1>4, <1>5, <1>6 DEF Buffers
<1>8. inserting' = [inserting EXCEPT ![t] = [inserting[t] EXCEPT !.idx = i + 1]]
  BY <1>7 DEF Set!InsertSkip
<1>9. Room'
  <2> SUFFICES ASSUME NEW k \in Buffers PROVE SetP!Cardinality(Beyond(k)') <= NumBuffers - k + 1
    BY DEF Room, Buffers
  <2>1. inserting \in [Threads -> [pc : SetP!InsertPC, idx : 0..NumBuffers, msg : Buffers \cup {NoBuffer}]]
    BY DEF SendInv, SetP!SetInv, SetP!TypeOK
  <2>2. \A u \in Threads : inserting'[u].msg = inserting[u].msg
    BY <1>8, <2>1
  <2>3. inserting'[t].idx = i + 1 /\ \A u \in Threads \ {t} : inserting'[u].idx = inserting[u].idx
    BY <1>8, <2>1
  <2>4. Beyond(k)' \subseteq Beyond(k) \cup {m}
    BY SMTT(30), <2>2, <2>3 DEF Beyond, Buffers, Set!InsertSkip
  <2>5. CASE k <= i
    <3>1. Beyond(k)' \subseteq Beyond(k)
      BY <1>1, <2>4, <2>5 DEF Beyond, Buffers
    <3>2. Beyond(k) \subseteq Buffers
      BY DEF Beyond
    <3>3. SetP!IsFiniteSet(Beyond(k)) /\ SetP!IsFiniteSet(Beyond(k)')
      BY <3>1, <3>2, BuffersFinite, SetParams, SetP!FS_Subset
    <3>4. SetP!Cardinality(Beyond(k)') <= SetP!Cardinality(Beyond(k))
      BY <3>1, <3>3, SetParams, SetP!FS_Subset
    <3>5. SetP!Cardinality(Beyond(k)) \in Nat /\ SetP!Cardinality(Beyond(k)') \in Nat
      BY <3>3, SetParams, SetP!FS_CardinalityType
    <3>6. QED
      BY SMTT(30), <3>4, <3>5 DEF SendInv, Room, Buffers
  <2>6. CASE k = i + 1
    <3>1. Beyond(k) \subseteq Beyond(i) \ {o}
      <4>1. Beyond(k) \subseteq Beyond(i)
        BY SMTT(30), <1>1, <2>1, <2>6 DEF Beyond, Buffers, SendInv, SetP!SetInv, SetP!TypeOK
      <4>2. o \notin Beyond(k)
        BY SMTT(30), <1>1, <1>2, <2>6 DEF Buffers
      <4>3. QED
        BY <4>1, <4>2
    <3>2. Beyond(k)' \subseteq Beyond(i) \ {o}
      BY <1>2, <1>3, <2>4, <3>1
    <3>3. /\ SetP!IsFiniteSet(Beyond(k)')
          /\ SetP!Cardinality(Beyond(k)') <= SetP!Cardinality(Beyond(i) \ {o})
      BY <1>5, <3>2, SetParams, SetP!FS_Subset
    <3>4. SetP!Cardinality(Beyond(k)') \in Nat
      BY <3>3, SetParams, SetP!FS_CardinalityType
    <3>5. QED
      BY SMTT(30), <1>1, <1>4, <1>5, <2>6, <3>3, <3>4 DEF Buffers
  <2>7. CASE k > i + 1
    <3>1. Beyond(k)' \subseteq Beyond(k)
      <4>1. \A u \in Threads : inserting'[u].idx >= k => u # t
        BY SMTT(30), <1>1, <2>3, <2>7 DEF Buffers
      <4>2. QED
        BY <2>2, <2>3, <4>1 DEF Beyond, Buffers, Set!InsertSkip
    <3>2. Beyond(k) \subseteq Buffers
      BY DEF Beyond
    <3>3. SetP!IsFiniteSet(Beyond(k)) /\ SetP!IsFiniteSet(Beyond(k)')
      BY <3>1, <3>2, BuffersFinite, SetParams, SetP!FS_Subset
    <3>4. SetP!Cardinality(Beyond(k)') <= SetP!Cardinality(Beyond(k))
      BY <3>1, <3>3, SetParams, SetP!FS_Subset
    <3>5. SetP!Cardinality(Beyond(k)) \in Nat /\ SetP!Cardinality(Beyond(k)') \in Nat
      BY <3>3, SetParams, SetP!FS_CardinalityType
    <3>6. QED
      BY SMT, <3>4, <3>5 DEF SendInv, Room, Buffers
  <2>8. QED
    BY SMTT(30), <1>1, <2>5, <2>6, <2>7 DEF Buffers
<1>10. QED
  BY <1>7, <1>9

-----------------------------------------------------------------------------
LEMMA InsertClaimSteps ==
  ASSUME SendInv, NEW t \in Threads, SendInsertStep(t), Set!InsertClaim(t)
  PROVE  SendInv'
<1> USE NumBuffersAssumption DEF SendInsertStep, Set!InsertClaim
<1>1. /\ PoolTypes /\ Phases /\ Unique /\ BusyIffSomewhere /\ Room
      /\ SlotAlwaysAvailable /\ SetP!TypeOK
  BY DEF SendInv, SetP!SetInv
<1>2. SetP!SetInv'
  <2>1. SetP!InsertClaim(t)
    BY DEF SetP!InsertClaim
  <2>2. QED
    BY SMTT(30), <2>1, SetP!InsertClaimInv DEF SendInv, NoBuffer, Buffers
<1>3. /\ \A u \in Threads : /\ inserting'[u].msg = inserting[u].msg
                             /\ inserting'[u].idx = inserting[u].idx
                             /\ u # t => inserting'[u].pc = inserting[u].pc
      /\ inserting'[t].pc = "write"
  BY <1>1 DEF SetP!TypeOK
<1>4. UNCHANGED <<poolVars, upcoming, handler, phase>>
  BY <1>1, <1>3 DEF PoolTypes
<1>5. PoolTypes'
  BY <1>1, <1>4 DEF PoolTypes, poolVars
<1>6. Phases'
  BY SMTT(30), <1>1, <1>3, <1>4 DEF Phases, poolVars
<1>7. \A u \in Threads, b \in Buffers : Built(u, b)' <=> Built(u, b)
  BY <1>4 DEF Built, poolVars
<1>8. Unique' /\ BusyIffSomewhere'
  BY SMTT(30), <1>1, <1>3, <1>4, <1>7 DEF Unique, BusyIffSomewhere, Somewhere, poolVars
<1>9. \A k \in Buffers : Beyond(k)' = Beyond(k)
  BY SMT, <1>3 DEF Beyond
<1>10. Room'
  BY <1>1, <1>9, RoomShrinks
<1>11. SlotAlwaysAvailable'
  BY SMT, <1>1, <1>3 DEF SlotAlwaysAvailable
<1>12. QED
  BY SMTT(30), <1>2, <1>5, <1>6, <1>8, <1>10, <1>11 DEF SendInv

LEMMA InsertSkipSteps ==
  ASSUME SendInv, NEW t \in Threads, SendInsertStep(t), Set!InsertSkip(t)
  PROVE  SendInv'
<1> USE NumBuffersAssumption DEF SendInsertStep
<1>1. /\ PoolTypes /\ Phases /\ Unique /\ BusyIffSomewhere
      /\ SlotAlwaysAvailable /\ SetP!TypeOK
  BY DEF SendInv, SetP!SetInv
<1>2. SetP!SetInv'
  <2>1. SetP!InsertSkip(t)
    BY DEF SetP!InsertSkip, Set!InsertSkip
  <2>2. QED
    BY SMTT(30), <2>1, SetP!InsertSkipInv DEF SendInv, NoBuffer, Buffers
<1>3. inserting[t].idx < NumBuffers /\ Room'
  BY SkipKeepsRoom
<1>4. inserting' = [inserting EXCEPT ![t] = [inserting[t] EXCEPT !.idx = inserting[t].idx + 1]]
  BY <1>3 DEF Set!InsertSkip
<1>5. \A u \in Threads : /\ inserting'[u].msg = inserting[u].msg
                         /\ inserting'[u].pc = inserting[u].pc
  BY <1>1, <1>4 DEF SetP!TypeOK
<1>6. UNCHANGED <<poolVars, upcoming, handler, phase>>
  <2>1. inserting'[t].pc = "swap"
    BY <1>5 DEF Set!InsertSkip
  <2>2. QED
    BY <1>1, <2>1 DEF PoolTypes
<1>7. PoolTypes'
  BY <1>1, <1>6 DEF PoolTypes, poolVars
<1>8. Phases'
  BY SMTT(30), <1>1, <1>5, <1>6 DEF Phases, poolVars, Set!InsertSkip
<1>9. \A u \in Threads, b \in Buffers : Built(u, b)' <=> Built(u, b)
  BY <1>6 DEF Built, poolVars
<1>10. Unique' /\ BusyIffSomewhere'
  <2>1. UNCHANGED <<slots, draining>>
    BY DEF Set!InsertSkip
  <2> HIDE DEF SendInsertStep
  <2>2. UNCHANGED <<slots, upcoming, buffer_busy>> /\ draining'.msg = draining.msg
    BY <1>6, <2>1 DEF poolVars
  <2>3. \A u \in Threads : inserting'[u].msg = inserting[u].msg
    BY <1>5
  <2>4. QED
    BY <1>1, <1>9, <2>2, <2>3, PlacesUnchanged
<1>11. SlotAlwaysAvailable'
  BY <1>1, <1>5 DEF SlotAlwaysAvailable
<1>12. QED
  BY <1>2, <1>3, <1>7, <1>8, <1>10, <1>11 DEF SendInv

LEMMA InsertWriteSteps ==
  ASSUME SendInv, NEW t \in Threads, SendInsertStep(t), Set!InsertWrite(t)
  PROVE  SendInv'
<1> DEFINE i == inserting[t].idx
           m == inserting[t].msg
<1> USE NumBuffersAssumption DEF SendInsertStep, Set!InsertWrite
<1>1. /\ PoolTypes /\ Phases /\ Unique /\ BusyIffSomewhere /\ Room
      /\ SlotAlwaysAvailable /\ SetP!TypeOK
  BY DEF SendInv, SetP!SetInv
<1>2. SetP!SetInv'
  <2>1. SetP!InsertWrite(t)
    BY DEF SetP!InsertWrite
  <2>2. QED
    BY SMTT(30), <2>1, SetP!InsertWriteInv DEF SendInv, NoBuffer, Buffers
<1>3. i \in Buffers /\ m \in Buffers /\ slots[i] = NoBuffer /\ NoBuffer \notin Buffers
  <2>1. i \in Buffers /\ m \in Buffers /\ NoBuffer \notin Buffers
    BY SMT DEF SendInv, SetP!SetInv, SetP!InsertShape, SetP!Slot, Buffers, NoBuffer
  <2>2. slots[i] = NoBuffer
    BY DEF SendInv, SetP!SetInv, SetP!FillerOwnsSlot, SetP!Filling
  <2>3. QED
    BY <2>1, <2>2
<1>4. /\ \A u \in Threads \ {t} : inserting'[u] = inserting[u]
      /\ inserting'[t].pc = "publish" /\ inserting'[t].idx = i /\ inserting'[t].msg = NoBuffer
  BY <1>1 DEF SetP!TypeOK
<1>5. slots'[i] = m /\ \A j \in Buffers \ {i} : slots'[j] = slots[j]
  BY <1>1, <1>3 DEF SetP!TypeOK, SetP!Slot, Buffers
<1>6. UNCHANGED <<poolVars, upcoming, handler, phase>>
  BY <1>1, <1>4 DEF PoolTypes
<1>7. PoolTypes'
  BY <1>1, <1>6 DEF PoolTypes, poolVars
<1>8. Phases'
  BY SMTT(30), <1>1, <1>4, <1>6 DEF Phases, poolVars
<1>9. \A u \in Threads, b \in Buffers : Built(u, b)' <=> Built(u, b)
  BY <1>6 DEF Built, poolVars
<1>10. draining' = draining /\ inserting[t].msg = m /\ inserting[t].idx = i
  OBVIOUS
<1> HIDE DEF i, m, SendInsertStep, Set!InsertWrite
<1>11. Unique' /\ BusyIffSomewhere'
  <2>1. \A b \in Buffers : Somewhere(b)' <=> Somewhere(b)
    <3> SUFFICES ASSUME NEW b \in Buffers PROVE Somewhere(b)' <=> Somewhere(b)
      OBVIOUS
    <3>1. CASE b = m
      BY <1>3, <1>5, <1>10, <3>1 DEF Somewhere
    <3>2. CASE b # m
      <4>1. \A u \in Threads : inserting'[u].msg = b <=> inserting[u].msg = b
        BY <1>3, <1>4, <1>10, <3>2
      <4>2. \A j \in Buffers : slots'[j] = b <=> slots[j] = b
        BY <1>3, <1>5, <3>2
      <4>3. QED
        BY <1>6, <1>9, <1>10, <4>1, <4>2 DEF Somewhere
    <3>3. QED
      BY <3>1, <3>2
  <2>2. BusyIffSomewhere'
    BY <1>1, <1>6, <2>1 DEF BusyIffSomewhere, poolVars
  <2>3. ASSUME NEW b \in Buffers, NEW u \in Threads
        PROVE  inserting'[u].msg = b <=> inserting[u].msg = b /\ u # t
    BY <1>3, <1>4
  <2>4. ASSUME NEW b \in Buffers, NEW j \in Buffers
        PROVE  slots'[j] = b <=> IF j = i THEN b = m ELSE slots[j] = b
    BY <1>5
  <2>5. /\ \A u \in Threads : ~Built(u, m)
        /\ \A u \in Threads \ {t} : inserting[u].msg # m
        /\ \A j \in Buffers : slots[j] # m
        /\ draining.msg # m /\ m \notin upcoming
    BY <1>1, <1>3, <1>10 DEF Unique
  <2>6. slots[i] \notin Buffers
    BY <1>3
  <2>7. Unique'
    <3> SUFFICES ASSUME NEW b \in Buffers PROVE Unique!(b)'
      BY DEF Unique
    <3>1. CASE b = m
      BY SMTT(30), <1>6, <1>9, <1>10, <2>3, <2>4, <2>5, <3>1
    <3>2. CASE b # m
      <4>1. Unique!(b)
        BY <1>1 DEF Unique
      <4>2. \A u \in Threads : inserting'[u].msg = b <=> inserting[u].msg = b
        BY <1>10, <2>3, <3>2
      <4>3. \A j \in Buffers : slots'[j] = b <=> slots[j] = b
        BY <2>4, <2>6, <3>2
      <4>4. QED
        BY SMTT(30), <1>6, <1>9, <1>10, <4>1, <4>2, <4>3
    <3>3. QED
      BY <3>1, <3>2
  <2>8. QED
    BY <2>2, <2>7
<1>12. \A k \in Buffers : Beyond(k)' \subseteq Beyond(k)
  <2> SUFFICES ASSUME NEW k \in Buffers, NEW b \in Buffers, b \in Beyond(k)'
               PROVE  b \in Beyond(k)
    BY DEF Beyond
  <2>1. CASE \E u \in Threads : inserting'[u].msg = b /\ inserting'[u].idx >= k
    <3>1. \E u \in Threads : inserting[u].msg = b /\ inserting[u].idx >= k
      BY <1>3, <1>4, <2>1
    <3>2. QED
      BY <3>1 DEF Beyond
  <2>2. CASE \E j \in Buffers : j >= k /\ slots'[j] = b
    <3>1. PICK j \in Buffers : j >= k /\ slots'[j] = b
      BY <2>2
    <3>2. CASE j = i
      BY <1>5, <1>10, <3>1, <3>2 DEF Beyond
    <3>3. CASE j # i
      BY <1>5, <3>1, <3>3 DEF Beyond
    <3>4. QED
      BY <3>2, <3>3
  <2>3. CASE draining'.pc \in {"invalidate", "release"} /\ draining'.msg = b /\ draining'.idx >= k
    BY <1>10, <2>3 DEF Beyond
  <2>4. QED
    BY <2>1, <2>2, <2>3 DEF Beyond
<1>13. Room'
  BY <1>1, <1>12, RoomShrinks
<1>14. SlotAlwaysAvailable'
  BY <1>1, <1>4 DEF SlotAlwaysAvailable
<1>15. QED
  BY SMTT(30), <1>2, <1>7, <1>8, <1>11, <1>13, <1>14 DEF SendInv

LEMMA InsertPublishSteps ==
  ASSUME SendInv, NEW t \in Threads, SendInsertStep(t), Set!InsertPublish(t)
  PROVE  SendInv'
<1> USE NumBuffersAssumption DEF SendInsertStep, Set!InsertPublish
<1>1. /\ PoolTypes /\ Phases /\ Unique /\ BusyIffSomewhere /\ Room
      /\ SlotAlwaysAvailable /\ SetP!TypeOK
  BY DEF SendInv, SetP!SetInv
<1>2. SetP!SetInv'
  <2>1. SetP!InsertPublish(t)
    BY DEF SetP!InsertPublish
  <2>2. QED
    BY SMTT(30), <2>1, SetP!InsertPublishInv DEF SendInv, NoBuffer, Buffers
<1>3. inserting[t].msg = NoBuffer /\ NoBuffer \notin Buffers
  BY SMT DEF SendInv, SetP!SetInv, SetP!InsertShape, Buffers, NoBuffer
<1>4. /\ \A u \in Threads \ {t} : inserting'[u] = inserting[u]
      /\ inserting'[t].pc = "ok" /\ inserting'[t].idx = 0 /\ inserting'[t].msg = NoBuffer
  BY <1>1 DEF SetP!TypeOK
<1>5. /\ UNCHANGED <<poolVars, upcoming, handler, slots, draining>>
      /\ phase[t] = "inserting" /\ phase' = [phase EXCEPT ![t] = "out"]
  <2>1. UNCHANGED <<slots, draining>> /\ UNCHANGED <<upcoming, handler>> /\ phase[t] = "inserting"
    OBVIOUS
  <2> HIDE DEF Set!InsertPublish
  <2>2. inserting'[t].pc \in {"ok", "NoSlotAvailable"} /\ inserting'[t].pc # "NoSlotAvailable"
    BY <1>4
  <2>3. UNCHANGED poolVars
    BY <2>2
  <2>4. phase' = [phase EXCEPT ![t] = "out"]
    BY <2>2
  <2> HIDE DEF SendInsertStep
  <2>5. QED
    BY <2>1, <2>3, <2>4
<1> HIDE DEF SendInsertStep, Set!InsertPublish
<1>6. PoolTypes'
  BY <1>1, <1>5 DEF PoolTypes, poolVars
<1>7. Phases'
  <2>1. \A u \in Threads : phase'[u] = IF u = t THEN "out" ELSE phase[u]
    BY <1>1, <1>5 DEF PoolTypes
  <2>2. QED
    BY SMTT(30), <1>1, <1>4, <1>5, <2>1 DEF Phases, poolVars
<1>8. \A u \in Threads, b \in Buffers : Built(u, b)' <=> Built(u, b)
  BY <1>1, <1>5 DEF Built, PoolTypes, poolVars
<1>9. \A u \in Threads : inserting'[u].msg = inserting[u].msg
  BY <1>3, <1>4
<1>10. Unique' /\ BusyIffSomewhere'
  BY <1>1, <1>5, <1>8, <1>9, PlacesUnchanged DEF poolVars
<1>11. \A k \in Buffers : Beyond(k)' \subseteq Beyond(k)
  <2>1. \A u \in Threads : inserting'[u].msg \in Buffers =>
          inserting'[u].msg = inserting[u].msg /\ inserting'[u].idx = inserting[u].idx
    BY <1>3, <1>4
  <2>2. QED
    BY <1>5, <2>1, BeyondShrinks
<1>12. Room'
  BY <1>1, <1>11, RoomShrinks
<1>13. SlotAlwaysAvailable'
  BY <1>1, <1>4 DEF SlotAlwaysAvailable
<1>14. QED
  BY SMT, <1>2, <1>6, <1>7, <1>10, <1>12, <1>13 DEF SendInv

-----------------------------------------------------------------------------
(* Steps of the handler that move no message.                              *)
LEMMA QuietHandlerStep ==
  ASSUME SendInv, SetP!SetInv', UNCHANGED <<poolVars, upcoming, phase, slots, inserting>>,
         draining'.msg = draining.msg,
         draining'.pc \in {"invalidate", "release"} =>
           draining.pc \in {"invalidate", "release"} /\ draining'.idx = draining.idx,
         handler' \in {"running", "draining", "flushing", "ended"},
         handler' = "draining" <=> draining'.pc # "idle"
  PROVE  SendInv'
<1>1. PoolTypes'
  BY DEF SendInv, PoolTypes, poolVars
<1>2. Phases'
  BY DEF SendInv, Phases, poolVars
<1>3. \A u \in Threads, b \in Buffers : Built(u, b)' <=> Built(u, b)
  BY DEF Built, poolVars
<1>4. Unique' /\ BusyIffSomewhere'
  BY <1>3, PlacesUnchanged DEF SendInv, poolVars
<1>5. \A k \in Buffers : Beyond(k)' \subseteq Beyond(k)
  BY BeyondShrinks
<1>6. Room'
  BY <1>5, RoomShrinks DEF SendInv
<1>7. SlotAlwaysAvailable'
  BY DEF SendInv, SlotAlwaysAvailable
<1>8. QED
  BY <1>1, <1>2, <1>4, <1>6, <1>7 DEF SendInv

LEMMA AtDeadlineSteps ==
  ASSUME SendInv, AtDeadline
  PROVE  SendInv'
<1> USE NumBuffersAssumption DEF AtDeadline, Set!drain
<1>1. SetP!SetInv'
  <2>1. SetP!drain
    BY DEF SetP!drain, SetP!Published, Set!Published, SetP!Slot, Set!Slot
  <2>2. QED
    BY SMTT(30), <2>1, SetP!drainInv DEF SendInv, NoBuffer, Buffers
<1>2. draining.msg = NoBuffer
  BY DEF SendInv, SetP!SetInv, SetP!DrainShape
<1>3. QED
  BY <1>1, <1>2, QuietHandlerStep

LEMMA DrainSteps ==
  ASSUME SendInv, DrainStep, ~Set!TakeMessage
  PROVE  SendInv'
<1> USE NumBuffersAssumption DEF DrainStep
<1>1. SetP!DrainShape /\ SetP!TypeOK
  BY DEF SendInv, SetP!SetInv
<1>2. CASE Set!TakeValid
  <2>1. SetP!TakeValid
    BY <1>2 DEF Set!TakeValid, SetP!TakeValid
  <2>2. SetP!SetInv'
    BY SMTT(30), <2>1, SetP!TakeValidInv DEF SendInv, NoBuffer, Buffers
  <2>3. draining'.msg = draining.msg /\ draining'.pc = "take"
    BY <1>1, <1>2 DEF Set!TakeValid, SetP!TypeOK
  <2>4. QED
    BY <1>2, <2>2, <2>3, QuietHandlerStep DEF Set!TakeValid
<1>3. CASE Set!TakeInvalid
  <2>1. SetP!TakeInvalid
    BY <1>3 DEF Set!TakeInvalid, SetP!TakeInvalid
  <2>2. SetP!SetInv'
    BY SMT, <2>1, SetP!TakeInvalidInv DEF SendInv, NoBuffer, Buffers
  <2>3. draining'.msg = draining.msg /\ draining'.pc \in {"load", "idle"}
    <3>1. draining.msg = NoBuffer
      BY <1>1, <1>3 DEF Set!TakeInvalid, SetP!DrainShape
    <3>2. CASE draining.idx < NumBuffers
      <4>1. draining' = [draining EXCEPT !.idx = draining.idx + 1]
        BY <1>3, <3>2 DEF Set!TakeInvalid
      <4>2. QED
        BY <1>1, <1>3, <4>1 DEF Set!TakeInvalid, SetP!TypeOK
    <3>3. CASE ~(draining.idx < NumBuffers)
      BY <1>3, <3>1, <3>3 DEF Set!TakeInvalid
    <3>4. QED
      BY <3>2, <3>3
  <2>4. handler' = "draining" <=> draining'.pc # "idle"
    BY <1>3, <2>3
  <2>5. handler' \in {"running", "draining", "flushing", "ended"}
    OBVIOUS
  <2>6. UNCHANGED <<poolVars, upcoming, phase, slots, inserting>>
    BY <1>3 DEF Set!TakeInvalid
  <2>7. QED
    BY <2>2, <2>3, <2>4, <2>5, <2>6, QuietHandlerStep
<1>4. CASE Set!TakeInvalidate
  <2>1. SetP!TakeInvalidate
    BY <1>4 DEF Set!TakeInvalidate, SetP!TakeInvalidate
  <2>2. SetP!SetInv'
    BY SMT, <2>1, SetP!TakeInvalidateInv DEF SendInv, NoBuffer, Buffers
  <2>3. /\ draining'.msg = draining.msg
        /\ draining'.pc = "release"
        /\ draining'.idx = draining.idx
    BY <1>1, <1>4 DEF Set!TakeInvalidate, SetP!TypeOK
  <2>4. QED
    BY <1>4, <2>2, <2>3, QuietHandlerStep DEF Set!TakeInvalidate
<1>5. CASE Set!TakeRelease
  <2>1. SetP!TakeRelease
    BY <1>5 DEF Set!TakeRelease, SetP!TakeRelease
  <2>2. SetP!SetInv'
    BY SMT, <2>1, SetP!TakeReleaseInv DEF SendInv, NoBuffer, Buffers
  <2>3. draining'.msg = draining.msg /\ draining'.pc = "yield"
    BY <1>1, <1>5 DEF Set!TakeRelease, SetP!TypeOK
  <2>4. QED
    BY <1>5, <2>2, <2>3, QuietHandlerStep DEF Set!TakeRelease
<1>6. QED
  BY <1>2, <1>3, <1>4, <1>5 DEF Set!DrainStep

LEMMA TakeMessageSteps ==
  ASSUME SendInv, DrainStep, Set!TakeMessage
  PROVE  SendInv'
<1> DEFINE i == draining.idx
           m == slots[draining.idx]
<1> USE NumBuffersAssumption DEF DrainStep, Set!TakeMessage
<1>1. /\ PoolTypes /\ Phases /\ Unique /\ BusyIffSomewhere /\ Room
      /\ SlotAlwaysAvailable /\ SetP!TypeOK
  BY DEF SendInv, SetP!SetInv
<1>2. SetP!SetInv'
  <2>1. SetP!TakeMessage
    BY DEF SetP!TakeMessage
  <2>2. QED
    BY SMTT(30), <2>1, SetP!TakeMessageInv DEF SendInv, NoBuffer, Buffers
<1>3. i \in Buffers /\ m \in Buffers /\ draining.msg = NoBuffer /\ NoBuffer \notin Buffers
  BY SMT DEF SendInv, SetP!SetInv, SetP!DrainShape, SetP!DrainOwnsSlot, SetP!Slot, Buffers,
     NoBuffer
<1>4. draining'.pc = "invalidate" /\ draining'.idx = i /\ draining'.msg = m
  BY <1>1 DEF SetP!TypeOK
<1>5. slots'[i] = NoBuffer /\ \A j \in Buffers \ {i} : slots'[j] = slots[j]
  BY <1>1, <1>3 DEF SetP!TypeOK, SetP!Slot, Buffers
<1>6. UNCHANGED <<poolVars, upcoming, handler, phase, inserting>>
  BY <1>4
<1>7. PoolTypes' /\ Phases'
  BY <1>1, <1>4, <1>6 DEF PoolTypes, Phases, poolVars
<1>8. \A u \in Threads, b \in Buffers : Built(u, b)' <=> Built(u, b)
  BY <1>6 DEF Built, poolVars
<1>9. m = slots[i]
  OBVIOUS
<1> HIDE DEF i, m, Set!TakeMessage
<1>10. Unique'
  <2> SUFFICES ASSUME NEW b \in Buffers PROVE Unique!(b)'
    BY DEF Unique
  <2>1. Unique!(b)
    BY <1>1 DEF Unique
  <2>2. CASE b = m
    <3>1. /\ \A u \in Threads : ~Built(u, b) /\ inserting[u].msg # b
          /\ \A j \in Buffers \ {i} : slots[j] # b
          /\ b \notin upcoming
      BY <1>3, <1>9, <2>1, <2>2
    <3>2. \A j \in Buffers : slots'[j] # b
      BY <1>3, <1>5, <3>1
    <3>3. QED
      BY SMTT(30), <1>4, <1>6, <1>8, <2>2, <3>1, <3>2
  <2>3. CASE b # m
    <3>1. \A j \in Buffers : slots'[j] = b <=> slots[j] = b
      BY <1>3, <1>5, <1>9, <2>3
    <3>2. draining'.msg # b
      BY <1>4, <2>3
    <3>3. QED
      BY <1>6, <1>8, <2>1, <3>1, <3>2
  <2>4. QED
    BY <2>2, <2>3
<1>11. BusyIffSomewhere'
  <2>1. \A b \in Buffers : Somewhere(b)' <=> Somewhere(b)
    BY <1>3, <1>4, <1>5, <1>6, <1>8, <1>9 DEF Somewhere
  <2>2. QED
    BY <1>1, <1>6, <2>1 DEF BusyIffSomewhere, poolVars
<1>12. \A k \in Buffers : Beyond(k)' \subseteq Beyond(k)
  BY <1>3, <1>4, <1>5, <1>6, <1>9 DEF Beyond
<1>13. Room'
  BY <1>1, <1>12, RoomShrinks
<1>14. SlotAlwaysAvailable'
  BY <1>1, <1>6 DEF SlotAlwaysAvailable
<1>15. QED
  BY SMTT(30), <1>2, <1>7, <1>10, <1>11, <1>13, <1>14 DEF SendInv

-----------------------------------------------------------------------------
LEMMA FreeTypes ==
  ASSUME PoolTypes, NEW b \in Buffers, Pool!free_buffer(b)
  PROVE  /\ buffer_busy' = [buffer_busy EXCEPT ![b] = FALSE]
         /\ live' \in [Buffers -> Nat]
         /\ UNCHANGED <<scan, got>>
  BY SMT DEF PoolTypes, Pool!free_buffer

(* The message in hand is dropped.                                         *)
LEMMA DropInHand ==
  ASSUME SendInv, SetP!SetInv', draining.pc = "yield", Pool!free_buffer(draining.msg),
         UNCHANGED <<upcoming, phase, slots, inserting>>,
         draining'.msg = NoBuffer, draining'.pc \in {"load", "idle"},
         handler' \in {"running", "draining", "flushing", "ended"},
         handler' = "draining" <=> draining'.pc # "idle"
  PROVE  SendInv'
<1> DEFINE m == draining.msg
<1>1. /\ PoolTypes /\ Phases /\ Unique /\ BusyIffSomewhere /\ Room
      /\ SlotAlwaysAvailable /\ SetP!TypeOK
  BY DEF SendInv, SetP!SetInv
<1>2. m \in Buffers /\ NoBuffer \notin Buffers
  BY SMT DEF SendInv, SetP!SetInv, SetP!DrainShape, Buffers, NoBuffer
<1>3. /\ buffer_busy' = [buffer_busy EXCEPT ![m] = FALSE]
      /\ live' \in [Buffers -> Nat]
      /\ UNCHANGED <<scan, got>>
  BY <1>1, <1>2, FreeTypes
<1>4. PoolTypes' /\ Phases'
  <2>1. buffer_busy' \in [Buffers -> BOOLEAN]
    BY <1>1, <1>3 DEF PoolTypes
  <2>2. PoolTypes'
    BY <1>1, <1>3, <2>1 DEF PoolTypes
  <2>3. Phases'
    BY <1>1, <1>3 DEF Phases
  <2>4. QED
    BY <2>2, <2>3
<1>5. \A u \in Threads, b \in Buffers : Built(u, b)' <=> Built(u, b)
  BY <1>3 DEF Built
<1>6. Unique'
  BY <1>1, <1>2, <1>5 DEF Unique
<1>7. \A b \in Buffers : Somewhere(b)' <=> Somewhere(b) /\ b # m
  BY <1>1, <1>2, <1>5 DEF Unique, Somewhere
<1>8. BusyIffSomewhere'
  BY <1>1, <1>3, <1>7 DEF BusyIffSomewhere, PoolTypes
<1>9. \A k \in Buffers : Beyond(k)' \subseteq Beyond(k)
  BY DEF Beyond
<1>10. Room'
  BY <1>1, <1>9, RoomShrinks
<1>11. SlotAlwaysAvailable'
  BY <1>1 DEF SlotAlwaysAvailable
<1>12. QED
  BY <1>4, <1>6, <1>8, <1>10, <1>11 DEF SendInv

LEMMA SendPacketSteps ==
  ASSUME SendInv, SendPacket
  PROVE  SendInv'
<1> USE NumBuffersAssumption DEF SendPacket
<1>1. SetP!SetInv'
  <2>1. SetP!DrainNext
    BY DEF SetP!DrainNext, Set!DrainNext
  <2>2. QED
    BY SMTT(30), <2>1, SetP!DrainNextInv DEF SendInv, NoBuffer, Buffers
<1>2. draining'.msg = NoBuffer /\ draining'.pc \in {"load", "idle"}
  BY DEF Set!DrainNext
<1>3. QED
  BY <1>1, <1>2, DropInHand DEF Set!DrainNext

LEMMA AbortSteps ==
  ASSUME SendInv, Abort
  PROVE  SendInv'
<1> USE NumBuffersAssumption DEF Abort
<1>1. SetP!SetInv'
  <2>1. SetP!DrainAbort
    BY DEF SetP!DrainAbort, Set!DrainAbort
  <2>2. QED
    BY SMTT(30), <2>1, SetP!DrainAbortInv DEF SendInv, NoBuffer, Buffers
<1>2. draining'.msg = NoBuffer /\ draining'.pc = "idle"
  BY DEF Set!DrainAbort
<1>3. QED
  BY <1>1, <1>2, DropInHand DEF Set!DrainAbort

LEMMA SendUpcomingSteps ==
  ASSUME SendInv, SendUpcoming
  PROVE  SendInv'
<1> USE DEF SendUpcoming
<1>1. PoolTypes /\ Phases /\ Unique /\ BusyIffSomewhere
  BY DEF SendInv
<1>2. PICK b \in upcoming : Pool!free_buffer(b) /\ upcoming' = upcoming \ {b}
  OBVIOUS
<1>3. b \in Buffers
  BY <1>1 DEF PoolTypes
<1>4. /\ buffer_busy' = [buffer_busy EXCEPT ![b] = FALSE]
      /\ live' \in [Buffers -> Nat]
      /\ UNCHANGED <<scan, got>>
  BY <1>1, <1>2, <1>3, FreeTypes
<1>5. PoolTypes' /\ Phases'
  BY <1>1, <1>2, <1>4 DEF PoolTypes, Phases, setVars
<1>6. \A u \in Threads, c \in Buffers : Built(u, c)' <=> Built(u, c)
  BY <1>4 DEF Built
<1>7. Unique'
  <2>1. UNCHANGED <<slots, inserting, draining>> /\ upcoming' \subseteq upcoming
    BY <1>2 DEF setVars
  <2> HIDE DEF SendUpcoming
  <2>2. QED
    BY <1>1, <1>6, <2>1 DEF Unique
<1>8. \A c \in Buffers : Somewhere(c)' <=> Somewhere(c) /\ c # b
  BY <1>1, <1>2, <1>3, <1>6 DEF Unique, Somewhere, setVars
<1>9. BusyIffSomewhere'
  BY <1>1, <1>4, <1>8 DEF BusyIffSomewhere, PoolTypes
<1>10. QED
  BY <1>5, <1>7, <1>9, SetUnchanged DEF SendInv

-----------------------------------------------------------------------------
LEMMA SendNext == SendInv /\ [Next]_vars => SendInv'
<1> SUFFICES ASSUME SendInv, [Next]_vars PROVE SendInv'
  OBVIOUS
<1>1. ASSUME NEW t \in Threads, NEW fits \in BOOLEAN, Send(t, fits) PROVE SendInv'
  BY <1>1, SendSteps
<1>2. ASSUME NEW t \in Threads, SendAllocated(t) PROVE SendInv'
  BY <1>2, SendAllocatedSteps
<1>3. ASSUME NEW t \in Threads, SendScan(t) PROVE SendInv'
  BY <1>3, SendScanSteps
<1>4. ASSUME NEW t \in Threads, SendInsert(t) PROVE SendInv'
  BY <1>4, SendInsertSteps
<1>5. ASSUME NEW t \in Threads, SendOverrun(t) PROVE SendInv'
  BY <1>5, SendOverrunSteps
<1>6. ASSUME NEW t \in Threads, SendInsertStep(t) PROVE SendInv'
  <2>1. Set!InsertClaim(t) \/ Set!InsertSkip(t) \/ Set!InsertWrite(t) \/ Set!InsertPublish(t)
    BY <1>6 DEF SendInsertStep, Set!InsertStep
  <2>2. QED
    BY <1>6, <2>1, InsertClaimSteps, InsertSkipSteps, InsertWriteSteps, InsertPublishSteps
<1>7. CASE AtDeadline
  BY <1>7, AtDeadlineSteps
<1>8. CASE DrainStep
  BY <1>8, DrainSteps, TakeMessageSteps
<1>9. CASE SendPacket
  BY <1>9, SendPacketSteps
<1>10. CASE Abort
  BY <1>10, AbortSteps
<1>11. CASE SendUpcoming
  BY <1>11, SendUpcomingSteps
<1>12. CASE NextDeadline
  <2>1. SetP!SetInv'
    BY <1>12, SetUnchanged DEF NextDeadline
  <2>2. draining.pc = "idle"
    BY <1>12 DEF NextDeadline, SendInv, Phases
  <2>3. QED
    BY <1>12, <2>1, <2>2, QuietHandlerStep DEF NextDeadline, setVars
<1>13. CASE UNCHANGED vars
  <2>1. SetP!SetInv'
    BY <1>13, SetUnchanged DEF vars, setVars
  <2>2. /\ handler \in {"running", "draining", "flushing", "ended"}
        /\ handler = "draining" <=> draining.pc # "idle"
    BY DEF SendInv, PoolTypes, Phases
  <2>3. UNCHANGED <<poolVars, upcoming, phase, slots, inserting, draining, handler>>
    BY <1>13 DEF vars, poolVars
  <2>4. QED
    BY <2>1, <2>2, <2>3, QuietHandlerStep
<1>14. QED
  BY SMTT(30), <1>1, <1>2, <1>3, <1>4, <1>5, <1>6, <1>7, <1>8, <1>9, <1>10, <1>11, <1>12, <1>13
     DEF Next

(* SendInv is an invariant of the send path.                               *)
THEOREM SendInvariant == Spec => []SendInv
  BY SendInit, SendNext, PTL DEF Spec

(* The variables of the send path keep their types.                        *)
THEOREM SendTypeCorrect == Spec => []TypeOK
<1>1. SendInv => TypeOK
  <2> SUFFICES ASSUME SendInv PROVE TypeOK
    OBVIOUS
  <2>1. Buffers \cup {NoBuffer} = 0..NumBuffers
    BY SMTT(30), NumBuffersAssumption DEF Buffers, NoBuffer
  <2>2. PoolTypes /\ SetP!TypeOK
    BY DEF SendInv, SetP!SetInv
  <2>3. SetP!InsertPC = Set!InsertPC /\ SetP!DrainPC = Set!DrainPC
    BY DEF SetP!InsertPC, Set!InsertPC, SetP!DrainPC, Set!DrainPC
  <2>4. QED
    BY <2>1, <2>2, <2>3 DEF TypeOK, PoolTypes, SetP!TypeOK, SetP!Slot, Buffers
<1>2. QED
  BY <1>1, SendInvariant, PTL

(* A thread that holds a buffer of the pool always finds a free slot in    *)
(* outgoing_messages: NoSlotAvailable cannot happen, for any number of     *)
(* threads and buffers.                                                    *)
THEOREM SlotsSuffice == Spec => []SlotAlwaysAvailable
<1>1. SendInv => SlotAlwaysAvailable
  BY DEF SendInv
<1>2. QED
  BY <1>1, SendInvariant, PTL

(* No buffer of the pool is leaked, freed twice or shared between send and *)
(* at_deadline.                                                            *)
THEOREM BuffersHaveOneOwner == Spec => []BufferHasOneOwner
<1>1. SendInv => BufferHasOneOwner
  <2> SUFFICES ASSUME SendInv, NEW b \in Buffers
               PROVE  Cardinality(Places(b)) = IF buffer_busy[b] THEN 1 ELSE 0
    BY DEF BufferHasOneOwner
  <2>0. Cardinality(Places(b)) = SetP!Cardinality(Places(b))
    BY DEF Cardinality, SetP!Cardinality
  <2>1. CASE ~buffer_busy[b]
    <3>1. ~Somewhere(b)
      BY <2>1 DEF SendInv, BusyIffSomewhere
    <3>2. Places(b) = {}
      BY <3>1 DEF Places, Somewhere, Built
    <3>3. QED
      BY <2>0, <2>1, <3>2, SetParams, SetP!FS_EmptySet
  <2>2. CASE buffer_busy[b]
    <3>1. Somewhere(b)
      BY <2>2 DEF SendInv, BusyIffSomewhere
    <3>2. \E p : Places(b) = {p}
      <4>0. Unique
        BY DEF SendInv
      <4>1. ASSUME NEW t \in Threads, Built(t, b) PROVE Places(b) = {<<"sender", t>>}
        <5>1. /\ \A u \in Threads : (phase[u] = "built" /\ got[u] = b) <=> u = t
              /\ \A u \in Threads : inserting[u].msg # b
              /\ \A i \in Buffers : slots[i] # b
              /\ draining.msg # b /\ b \notin upcoming
          BY <4>0, <4>1 DEF Unique, Built
        <5>2. QED
          BY <5>1 DEF Places
      <4>2. ASSUME NEW t \in Threads, inserting[t].msg = b PROVE Places(b) = {<<"insert", t>>}
        <5>1. /\ \A u \in Threads : ~(phase[u] = "built" /\ got[u] = b)
              /\ \A u \in Threads : inserting[u].msg = b <=> u = t
              /\ \A i \in Buffers : slots[i] # b
              /\ draining.msg # b /\ b \notin upcoming
          BY <4>0, <4>2 DEF Unique, Built
        <5>2. QED
          BY <5>1 DEF Places
      <4>3. ASSUME NEW i \in Buffers, slots[i] = b PROVE Places(b) = {<<"slot", i>>}
        <5>1. /\ \A u \in Threads : ~(phase[u] = "built" /\ got[u] = b)
              /\ \A u \in Threads : inserting[u].msg # b
              /\ \A j \in Buffers : slots[j] = b <=> j = i
              /\ draining.msg # b /\ b \notin upcoming
          BY <4>0, <4>3 DEF Unique, Built
        <5>2. QED
          BY <5>1 DEF Places
      <4>4. ASSUME draining.msg = b PROVE Places(b) = {<<"hand", 0>>}
        <5>1. /\ \A u \in Threads : ~(phase[u] = "built" /\ got[u] = b)
              /\ \A u \in Threads : inserting[u].msg # b
              /\ \A i \in Buffers : slots[i] # b
              /\ b \notin upcoming
          BY <4>0, <4>4 DEF Unique, Built
        <5>2. QED
          BY <4>4, <5>1 DEF Places
      <4>5. ASSUME b \in upcoming PROVE Places(b) = {<<"fifo", 0>>}
        <5>1. /\ \A u \in Threads : ~(phase[u] = "built" /\ got[u] = b)
              /\ \A u \in Threads : inserting[u].msg # b
              /\ \A i \in Buffers : slots[i] # b
              /\ draining.msg # b
          BY <4>0, <4>5 DEF Unique, Built
        <5>2. QED
          BY <4>5, <5>1 DEF Places
      <4>6. QED
        BY <3>1, <4>1, <4>2, <4>3, <4>4, <4>5 DEF Somewhere
    <3>3. Cardinality(Places(b)) = 1
      BY <2>0, <3>2, SetParams, SetP!FS_Singleton
    <3>4. QED
      BY <2>2, <3>3
  <2>3. QED
    BY <2>1, <2>2
<1>2. QED
  BY <1>1, SendInvariant, PTL

-----------------------------------------------------------------------------
(* Every step of the send path is a step of the pool or leaves it alone:   *)
(* only buffers of the pool are given back.                                *)
LEMMA PoolStep == SendInv /\ SendInv' /\ [Next]_vars => [Pool!Next]_(Pool!vars)
<1> SUFFICES ASSUME SendInv, SendInv', [Next]_vars PROVE [Pool!Next]_(Pool!vars)
  OBVIOUS
<1>0. Pool!Index = Buffers
  BY DEF Pool!Index, Buffers
<1>1. ASSUME UNCHANGED poolVars PROVE [Pool!Next]_(Pool!vars)
  BY <1>1 DEF poolVars, Pool!vars
<1>2. ASSUME NEW t \in Threads, NEW fits \in BOOLEAN, Send(t, fits) PROVE Pool!Next
  BY <1>2 DEF Send, Pool!Next
<1>3. ASSUME NEW t \in Threads, SendAllocated(t) \/ SendScan(t) PROVE Pool!Next
  BY <1>3 DEF SendAllocated, SendScan, Pool!Next
<1>4. ASSUME NEW t \in Threads, SendInsert(t) \/ SendOverrun(t) \/ SendInsertStep(t)
      PROVE  UNCHANGED poolVars
  <2>1. inserting'[t].pc # "NoSlotAvailable"
    BY DEF SendInv, SlotAlwaysAvailable
  <2> QED
    BY <1>4, <2>1 DEF SendInsert, SendOverrun, SendInsertStep
<1>5. CASE SendPacket \/ Abort
  <2>1. draining.pc = "yield" /\ Pool!free_buffer(draining.msg)
    BY <1>5 DEF SendPacket, Abort, Set!DrainNext, Set!DrainAbort
  <2>2. draining.msg \in Buffers
    BY SMTT(30), <2>1, NumBuffersAssumption DEF SendInv, SetP!SetInv, SetP!DrainShape, Buffers,
       NoBuffer
  <2> QED
    BY <1>0, <2>1, <2>2 DEF Pool!Next
<1>6. CASE SendUpcoming
  <2>1. PICK b \in upcoming : Pool!free_buffer(b)
    BY <1>6 DEF SendUpcoming
  <2>2. b \in Buffers
    BY DEF SendInv, PoolTypes
  <2> QED
    BY <1>0, <2>1, <2>2 DEF Pool!Next
<1>7. CASE AtDeadline \/ DrainStep \/ NextDeadline
  BY <1>1, <1>7 DEF AtDeadline, DrainStep, NextDeadline
<1>8. CASE UNCHANGED vars
  BY <1>1, <1>8 DEF vars, poolVars
<1> QED
  BY <1>1, <1>2, <1>3, <1>4, <1>5, <1>6, <1>7, <1>8 DEF Next

LEMMA PoolInvariance == Spec => []PoolInv
<1>1. Init => PoolInv
  BY SMTT(30), PoolInit, NumBuffersAssumption DEF Init
<1>2. SendInv /\ SendInv' /\ PoolInv /\ [Next]_vars => PoolInv'
  BY PoolStep, PoolNext, NumBuffersAssumption
<1> QED
  BY <1>1, <1>2, SendInvariant, PTL DEF Spec

(* Context::send and at_deadline together use the pool as BufferPool says: *)
(* what they do to the flags, scan by scan, is a behaviour of it.          *)
THEOREM SendPathUsesPool == Spec => Pool!Spec
<1>1. Init => Pool!Init
  BY DEF Init
<1> QED
  BY <1>1, PoolStep, SendInvariant, PTL DEF Spec, Pool!Spec

(* allocate_buffer never puts a buffer behind two Buffer values, and the   *)
(* flag of a buffer says whether it is behind one.                         *)
THEOREM BuffersExclusive == Spec => []Pool!BufferExclusive
<1>1. PoolInv => Pool!BufferExclusive
  BY DEF PoolInv
<1> QED
  BY <1>1, PoolInvariance, PTL

(* Context::send answers NoMemoryAvailable only if, while allocate_buffer  *)
(* scanned the flags, the pool was full or another thread got a buffer,    *)
(* however the handler frees buffers behind the scan.                      *)
THEOREM NoMemoryOnlyWhenContended == Spec => FailsOnlyWhenContended
<1> DEFINE Justified == \A u \in Threads : scan[u] # 0 /\ outcome'[u] = "NoBufferAvailable"
                                            => contended[u]
<1>1. PoolInv /\ [Pool!Next]_(Pool!vars) => [Justified]_(Pool!vars)
  BY PoolGivesUp, NumBuffersAssumption
<1>2. SendInv /\ SendInv' /\ PoolInv /\ [Next]_vars => [Justified]_(Pool!vars)
  BY <1>1, PoolStep
<1> QED
  BY <1>2, SendInvariant, PoolInvariance, PTL DEF Spec, FailsOnlyWhenContended,
     Pool!FailsOnlyWhenContended
=============================================================================
