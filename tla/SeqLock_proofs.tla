--------------------------- MODULE SeqLock_proofs ---------------------------
(***************************************************************************)
(* Proof that SeqLock implements AtomicRegister, for any number of readers *)
(* and writers.  The invariant says what the count tells about the words:  *)
(* even, they both hold the last committed value; odd, exactly one writer  *)
(* is inside, one ahead of the count it entered with.  A reader whose      *)
(* count is still the current one has read committed words.                *)
(***************************************************************************)
EXTENDS SeqLock, TLAPS

(* A writer inside is alone and entered at an even count.                  *)
Exclusion ==
  \A w \in Writers : InCritical(w) =>
    /\ writer[w].count + 1 = seq_count
    /\ ~Odd(writer[w].count)
    /\ \A v \in Writers \ {w} : ~InCritical(v)

(* What the words hold at every point of a write.                          *)
WriterProgress ==
  \A w \in Writers :
    /\ writer[w].pc # "idle" => writer[w].delta \in Deltas
    /\ writer[w].pc = "swap" => ~Odd(writer[w].count)
    /\ writer[w].pc \in {"hi", "lo", "exit"} => writer[w].value = committed + writer[w].delta
    /\ writer[w].pc \in {"load", "hi"} => hi = committed /\ lo = committed
    /\ writer[w].pc \in {"lo", "exit"} => hi = writer[w].value
    /\ writer[w].pc = "exit" => lo = writer[w].value

EvenMeansCommitted ==
  ~Odd(seq_count) => hi = committed /\ lo = committed

(* What a reader knows if its count is still current.                      *)
ReaderProgress ==
  \A r \in Readers :
    /\ reader[r].pc \in {"hi", "lo", "check"} =>
         ~Odd(reader[r].count) /\ reader[r].count <= seq_count
    /\ reader[r].pc \in {"lo", "check"} /\ reader[r].count = seq_count =>
         reader[r].hi = committed
    /\ reader[r].pc = "check" /\ reader[r].count = seq_count =>
         reader[r].lo = committed
    /\ reader[r].pc # "idle" => result[r] = None

LockInv ==
  /\ TypeOK
  /\ Exclusion
  /\ WriterProgress
  /\ EvenMeansCommitted
  /\ ReaderProgress

-----------------------------------------------------------------------------
LEMMA OddStep == \A n \in Nat : Odd(n + 1) <=> ~Odd(n)
  BY DEF Odd

LEMMA LockInit == Init => LockInv
  BY NoneAssumption, MaxWritesAssumption
     DEF Init, new, LockInv, TypeOK, Exclusion, WriterProgress, EvenMeansCommitted,
         ReaderProgress, InCritical

LEMMA ReaderSteps ==
  ASSUME LockInv, NEW r \in Readers, read(r) \/ ReadStep(r)
  PROVE  LockInv'
<1> USE NoneAssumption DEF LockInv
<1>1. UNCHANGED <<seq_count, hi, lo, writer, writes, committed>>
  BY DEF read, ReadStep, ReadWait, ReadHi, ReadLo, ReadReturn, ReadRetry
<1>2. Exclusion' /\ WriterProgress' /\ EvenMeansCommitted'
  BY <1>1 DEF Exclusion, WriterProgress, EvenMeansCommitted, InCritical
<1>3. CASE read(r)
  <2>1. TypeOK'
    BY <1>3 DEF read, TypeOK
  <2>2. ReaderProgress'
    BY <1>3 DEF read, TypeOK, ReaderProgress
  <2>3. QED
    BY <1>2, <2>1, <2>2
<1>4. CASE ReadWait(r)
  <2>1. TypeOK'
    BY ZenonT(30), <1>4 DEF ReadWait, TypeOK
  <2>2. ReaderProgress'
    BY <1>4 DEF ReadWait, TypeOK, ReaderProgress
  <2>3. QED
    BY <1>2, <2>1, <2>2
<1>5. CASE ReadHi(r)
  <2>1. TypeOK'
    BY ZenonT(30), <1>5 DEF ReadHi, TypeOK
  <2>2. ReaderProgress'
    BY <1>5 DEF ReadHi, TypeOK, ReaderProgress, EvenMeansCommitted
  <2>3. QED
    BY <1>2, <2>1, <2>2
<1>6. CASE ReadLo(r)
  <2>1. TypeOK'
    BY ZenonT(30), <1>6 DEF ReadLo, TypeOK
  <2>2. ReaderProgress'
    BY <1>6 DEF ReadLo, TypeOK, ReaderProgress, EvenMeansCommitted
  <2>3. QED
    BY <1>2, <2>1, <2>2
<1>7. CASE ReadReturn(r)
  <2>1. reader[r].hi = committed /\ reader[r].lo = committed
    BY <1>7 DEF ReadReturn, ReaderProgress
  <2>2. TypeOK'
    BY <1>7, <2>1 DEF ReadReturn, TypeOK
  <2>3. ReaderProgress'
    BY <1>7 DEF ReadReturn, TypeOK, ReaderProgress
  <2>4. QED
    BY <1>2, <2>2, <2>3
<1>8. CASE ReadRetry(r)
  <2>1. TypeOK'
    BY <1>8 DEF ReadRetry, TypeOK
  <2>2. ReaderProgress'
    BY <1>8 DEF ReadRetry, TypeOK, ReaderProgress
  <2>3. QED
    BY <1>2, <2>1, <2>2
<1>9. QED
  BY <1>3, <1>4, <1>5, <1>6, <1>7, <1>8 DEF ReadStep

LEMMA CallStep ==
  ASSUME LockInv, NEW w \in Writers, NEW d \in Deltas, write(w, d)
  PROVE  LockInv'
<1> USE DEF LockInv
<1>1. d \in Int
  BY DeltasAssumption
<1>2. writes' \in 0..MaxWrites
  BY MaxWritesAssumption DEF write, TypeOK
<1>3. /\ writer'[w].pc = "wait" /\ writer'[w].delta = d
      /\ \A v \in Writers \ {w} : writer'[v] = writer[v]
      /\ writer' \in [Writers -> [pc : {"idle", "wait", "swap", "load", "hi", "lo", "exit"},
                                  count : Nat, delta : Int, value : Int]]
  BY <1>1 DEF write, TypeOK
<1>4. UNCHANGED <<seq_count, hi, lo, reader, result, committed>>
  BY DEF write
<1>5. TypeOK'
  BY <1>2, <1>3, <1>4 DEF TypeOK
<1>6. Exclusion'
  BY <1>3, <1>4 DEF Exclusion, InCritical
<1>7. WriterProgress'
  BY <1>3, <1>4 DEF WriterProgress
<1>8. EvenMeansCommitted' /\ ReaderProgress'
  BY <1>4 DEF EvenMeansCommitted, ReaderProgress
<1>9. QED
  BY <1>5, <1>6, <1>7, <1>8

(* Steps of a writer outside of its critical section.                      *)
LEMMA OutsideSteps ==
  ASSUME LockInv, NEW w \in Writers, WriteWait(w) \/ WriteRetry(w)
  PROVE  LockInv'
<1> USE DEF LockInv
<1>1. UNCHANGED <<seq_count, hi, lo, reader, result, committed>>
  BY DEF WriteWait, WriteRetry
<1>2. EvenMeansCommitted' /\ ReaderProgress'
  BY <1>1 DEF EvenMeansCommitted, ReaderProgress
<1>3. CASE WriteWait(w)
  <2>1. TypeOK'
    BY <1>3 DEF WriteWait, TypeOK
  <2>2. Exclusion'
    BY <1>3 DEF WriteWait, TypeOK, Exclusion, InCritical
  <2>3. WriterProgress'
    BY <1>3 DEF WriteWait, TypeOK, WriterProgress
  <2>4. QED
    BY <1>2, <2>1, <2>2, <2>3
<1>4. CASE WriteRetry(w)
  <2>1. TypeOK'
    BY <1>4 DEF WriteRetry, TypeOK
  <2>2. Exclusion'
    BY <1>4 DEF WriteRetry, TypeOK, Exclusion, InCritical
  <2>3. WriterProgress'
    BY <1>4 DEF WriteRetry, TypeOK, WriterProgress
  <2>4. QED
    BY <1>2, <2>1, <2>2, <2>3
<1>5. QED
  BY <1>3, <1>4

LEMMA EnterStep ==
  ASSUME LockInv, NEW w \in Writers, WriteEnter(w)
  PROVE  LockInv'
<1> USE DEF LockInv, WriteEnter
<1>1. ~Odd(seq_count) /\ Odd(seq_count + 1)
  BY OddStep DEF WriterProgress, TypeOK
<1>2. \A v \in Writers : ~InCritical(v)
  BY <1>1, OddStep DEF Exclusion, TypeOK
<1>3. TypeOK'
  BY DEF TypeOK
<1>4. Exclusion'
  BY <1>1, <1>2 DEF Exclusion, InCritical, TypeOK
<1>5. WriterProgress'
  BY <1>1 DEF WriterProgress, EvenMeansCommitted, TypeOK
<1>6. EvenMeansCommitted'
  BY <1>1 DEF EvenMeansCommitted
<1>7. ReaderProgress'
  BY DEF ReaderProgress, TypeOK
<1>8. QED
  BY <1>3, <1>4, <1>5, <1>6, <1>7

(* Steps of the writer inside: the count is odd, so no reader's is current. *)
LEMMA InsideSteps ==
  ASSUME LockInv, NEW w \in Writers, WriteLoad(w) \/ WriteHi(w) \/ WriteLo(w)
  PROVE  LockInv'
<1> USE DEF LockInv
<1>1. InCritical(w) /\ Odd(seq_count) /\ \A v \in Writers \ {w} : ~InCritical(v)
  BY OddStep DEF WriteLoad, WriteHi, WriteLo, InCritical, Exclusion, TypeOK
<1>2. UNCHANGED <<seq_count, reader, result, writes, committed>>
  BY DEF WriteLoad, WriteHi, WriteLo
<1>3. EvenMeansCommitted' /\ ReaderProgress'
  BY <1>1, <1>2 DEF EvenMeansCommitted, ReaderProgress
<1>4. CASE WriteLoad(w)
  <2>1. TypeOK'
    <3>1. hi + writer[w].delta \in Int
      BY DEF TypeOK
    <3>2. QED
      BY <1>4, <3>1 DEF WriteLoad, TypeOK
  <2>2. Exclusion'
    BY <1>4 DEF WriteLoad, TypeOK, Exclusion, InCritical
  <2>3. WriterProgress'
    BY <1>4 DEF WriteLoad, TypeOK, WriterProgress
  <2>4. QED
    BY <1>3, <2>1, <2>2, <2>3
<1>5. CASE WriteHi(w)
  <2>1. TypeOK'
    BY <1>5 DEF WriteHi, TypeOK
  <2>2. Exclusion'
    BY <1>5 DEF WriteHi, TypeOK, Exclusion, InCritical
  <2>3. WriterProgress'
    BY <1>1, <1>5 DEF WriteHi, TypeOK, WriterProgress, InCritical
  <2>4. QED
    BY <1>3, <2>1, <2>2, <2>3
<1>6. CASE WriteLo(w)
  <2>1. TypeOK'
    BY <1>6 DEF WriteLo, TypeOK
  <2>2. Exclusion'
    BY <1>6 DEF WriteLo, TypeOK, Exclusion, InCritical
  <2>3. WriterProgress'
    BY <1>1, <1>6 DEF WriteLo, TypeOK, WriterProgress, InCritical
  <2>4. QED
    BY <1>3, <2>1, <2>2, <2>3
<1>7. QED
  BY <1>4, <1>5, <1>6

LEMMA ExitStep ==
  ASSUME LockInv, NEW w \in Writers, WriteExit(w)
  PROVE  LockInv'
<1> USE DEF LockInv, WriteExit
<1>1. InCritical(w) /\ Odd(seq_count) /\ \A v \in Writers \ {w} : ~InCritical(v)
  BY OddStep DEF InCritical, Exclusion, TypeOK
<1>2. hi = writer[w].value /\ lo = writer[w].value
  BY DEF WriterProgress
<1>3. TypeOK'
  BY DEF TypeOK
<1>4. Exclusion'
  BY <1>1 DEF Exclusion, InCritical, TypeOK
<1>5. WriterProgress'
  BY <1>1 DEF WriterProgress, InCritical, TypeOK
<1>6. EvenMeansCommitted'
  BY <1>2 DEF EvenMeansCommitted
<1>7. ReaderProgress'
  <2>1. \A r \in Readers : reader[r].pc \in {"hi", "lo", "check"} => reader[r].count < seq_count + 1
    BY DEF ReaderProgress, TypeOK
  <2>2. QED
    BY <2>1 DEF ReaderProgress, TypeOK
<1>8. QED
  BY <1>3, <1>4, <1>5, <1>6, <1>7

LEMMA LockNext == LockInv /\ [Next]_vars => LockInv'
<1> SUFFICES ASSUME LockInv, [Next]_vars PROVE LockInv'
  OBVIOUS
<1>1. ASSUME NEW r \in Readers, read(r) \/ ReadStep(r) PROVE LockInv'
  BY <1>1, ReaderSteps
<1>2. ASSUME NEW w \in Writers, WriteStep(w) \/ \E d \in Deltas : write(w, d) PROVE LockInv'
  BY <1>2, CallStep, OutsideSteps, EnterStep, InsideSteps, ExitStep DEF WriteStep
<1>3. CASE UNCHANGED vars
  BY <1>3 DEF vars, LockInv, TypeOK, Exclusion, WriterProgress, EvenMeansCommitted,
              ReaderProgress, InCritical
<1>4. QED
  BY <1>1, <1>2, <1>3 DEF Next

(* LockInv is an invariant of the lock.                                    *)
THEOREM LockInvariant == Spec => []LockInv
  BY LockInit, LockNext, PTL DEF Spec

(* The variables of the lock keep their types; in particular read never    *)
(* returns words of two different writes.                                  *)
THEOREM LockTypeCorrect == Spec => []TypeOK
<1>1. LockInv => TypeOK
  BY DEF LockInv
<1>2. QED
  BY <1>1, LockInvariant, PTL

(* The assertions at the end of write never fail.                          *)
THEOREM WriteAssertionsHold == Spec => []ExitAssertions
<1>1. LockInv => ExitAssertions
  BY OddStep DEF LockInv, ExitAssertions, Exclusion, InCritical, TypeOK
<1>2. QED
  BY <1>1, LockInvariant, PTL

-----------------------------------------------------------------------------
LEMMA RegisterStep == LockInv /\ [Next]_vars => [Register!Next]_(Register!vars)
<1> SUFFICES ASSUME LockInv, [Next]_vars PROVE Register!Next \/ UNCHANGED Register!vars
  OBVIOUS
<1> USE DEF Register!vars
<1>1. ASSUME NEW r \in Readers, read(r) PROVE Register!Next
  <2>1. Register!Call(r)
    BY <1>1 DEF read, Register!Call
  <2>2. QED
    BY <2>1 DEF Register!Next
<1>2. ASSUME NEW r \in Readers, ReadReturn(r) PROVE Register!Next
  <2>1. /\ reader[r].hi = committed /\ reader[r].lo = committed
        /\ result[r] = None
    BY <1>2 DEF ReadReturn, LockInv, ReaderProgress
  <2>2. Register!Read(r)
    BY <1>2, <2>1 DEF ReadReturn, Register!Read
  <2>3. QED
    BY <2>2 DEF Register!Next
<1>3. ASSUME NEW r \in Readers, ReadWait(r) \/ ReadHi(r) \/ ReadLo(r) \/ ReadRetry(r)
      PROVE  UNCHANGED Register!vars
  BY <1>3 DEF ReadWait, ReadHi, ReadLo, ReadRetry
<1>4. ASSUME NEW w \in Writers, WriteExit(w) PROVE Register!Next
  <2>1. /\ writer[w].delta \in Deltas
        /\ committed' = committed + writer[w].delta
    BY <1>4 DEF WriteExit, LockInv, WriterProgress
  <2>2. Register!Update
    BY SMTT(30), <1>4, <2>1 DEF WriteExit, Register!Update
  <2>3. QED
    BY <2>2 DEF Register!Next
<1>5. ASSUME NEW w \in Writers,
             \/ \E d \in Deltas : write(w, d)
             \/ WriteWait(w) \/ WriteEnter(w) \/ WriteRetry(w)
             \/ WriteLoad(w) \/ WriteHi(w) \/ WriteLo(w)
      PROVE  UNCHANGED Register!vars
  BY <1>5 DEF write, WriteWait, WriteEnter, WriteRetry, WriteLoad, WriteHi, WriteLo
<1>6. CASE UNCHANGED vars
  BY <1>6 DEF vars
<1>7. QED
  BY <1>1, <1>2, <1>3, <1>4, <1>5, <1>6 DEF Next, ReadStep, WriteStep

(* SeqLock implements an atomic register: every read returns the value of  *)
(* one moment of the call and no update is lost, for any number of readers *)
(* and writers.                                                            *)
THEOREM LockImplementsRegister == Spec => ImplementsRegister
<1>1. Init => Register!Init
  BY DEF Init, Register!Init
<1>2. QED
  BY <1>1, RegisterStep, LockInvariant, PTL DEF Spec, ImplementsRegister, Register!Spec
=============================================================================
