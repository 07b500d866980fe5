------------------------------ MODULE SeqLock -------------------------------
(***************************************************************************)
(* seq_lock/src/lib.rs: the lock around the two clock offsets of the       *)
(* process timer.  The value is a chrono::Duration, two machine words that *)
(* are copied one after the other, so a reader can see half of a write.    *)
(* A writer makes seq_count odd while it works; a reader starts over when  *)
(* the count it saw before reading is not the count after.                 *)
(*                                                                         *)
(* One step is one access to shared memory, in program order (what the     *)
(* orderings of the code give on x86-64, where the timers are built).      *)
(* seq_count is a usize; 2^64 writes are out of reach and it is not        *)
(* wrapped.                                                                *)
(***************************************************************************)
EXTENDS Integers

CONSTANTS
  Readers,    \* threads in read
  Writers,    \* threads in write
  Deltas,     \* write_fn adds one of these: adjust(|offset| offset - elapsed)
  MaxWrites,  \* bound: calls of write
  None,       \* no value
  Torn        \* what the words of two different writes make: any other value

ASSUME DeltasAssumption == Deltas \subseteq Int
ASSUME MaxWritesAssumption == MaxWrites \in Nat
ASSUME NoneAssumption == None \notin Int
ASSUME TornAssumption == Torn \notin Int \cup {None}

VARIABLES
  seq_count,
  hi, lo,     \* the two words of value
  reader,     \* per reader: [pc, count, hi, lo]
  writer,     \* per writer: [pc, count, delta, value]
  result,     \* per reader, what its read returned, or None
  writes,     \* calls of write so far
  committed   \* history: the value the last finished write left

vars == <<seq_count, hi, lo, reader, writer, result, writes, committed>>

Odd(n) == n % 2 = 1

(* SeqLock::new(0): what AdjustedTime::new gets.                           *)
new ==
  /\ seq_count = 0
  /\ hi = 0
  /\ lo = 0

Init ==
  /\ new
  /\ reader = [r \in Readers |-> [pc |-> "idle", count |-> 0, hi |-> 0, lo |-> 0]]
  /\ writer = [w \in Writers |-> [pc |-> "idle", count |-> 0, delta |-> 0, value |-> 0]]
  /\ result = [r \in Readers |-> None]
  /\ writes = 0
  /\ committed = 0

-----------------------------------------------------------------------------
(* read is called.                                                         *)
read(r) ==
  /\ reader[r].pc = "idle"
  /\ reader' = [reader EXCEPT ![r].pc = "wait"]
  /\ result' = [result EXCEPT ![r] = None]
  /\ UNCHANGED <<seq_count, hi, lo, writer, writes, committed>>

(* Mutant: the reader does not wait for the writer to leave.               *)
ReadWaitNot(r) ==
  /\ reader[r].pc = "wait"
  /\ reader' = [reader EXCEPT ![r] = [@ EXCEPT !.pc = "hi", !.count = seq_count]]
  /\ UNCHANGED <<seq_count, hi, lo, writer, result, writes, committed>>

(* wait_released of a reader: it spins while the count is odd.             *)
ReadWait(r) ==
  /\ reader[r].pc = "wait"
  /\ ~Odd(seq_count)
  /\ reader' = [reader EXCEPT ![r] = [@ EXCEPT !.pc = "hi", !.count = seq_count]]
  /\ UNCHANGED <<seq_count, hi, lo, writer, result, writes, committed>>

(* read_volatile, one word and then the other.                             *)
ReadHi(r) ==
  /\ reader[r].pc = "hi"
  /\ reader' = [reader EXCEPT ![r] = [@ EXCEPT !.pc = "lo", !.hi = hi]]
  /\ UNCHANGED <<seq_count, hi, lo, writer, result, writes, committed>>

ReadLo(r) ==
  /\ reader[r].pc = "lo"
  /\ reader' = [reader EXCEPT ![r] = [@ EXCEPT !.pc = "check", !.lo = lo]]
  /\ UNCHANGED <<seq_count, hi, lo, writer, result, writes, committed>>

(* check_concurrent_write gives None: read returns what the words say.     *)
(* Words of two different writes say nothing that was ever written.        *)
ReadReturn(r) ==
  /\ reader[r].pc = "check"
  /\ reader[r].count = seq_count
  /\ reader' = [reader EXCEPT ![r].pc = "idle"]
  /\ result' = [result EXCEPT ![r] = IF reader[r].hi = reader[r].lo
                                     THEN reader[r].hi ELSE Torn]
  /\ UNCHANGED <<seq_count, hi, lo, writer, writes, committed>>

(* check_concurrent_write saw another count: the loop starts over.         *)
ReadRetry(r) ==
  /\ reader[r].pc = "check"
  /\ reader[r].count # seq_count
  /\ reader' = [reader EXCEPT ![r].pc = "wait"]
  /\ UNCHANGED <<seq_count, hi, lo, writer, result, writes, committed>>

-----------------------------------------------------------------------------
(* write is called with |v| v + d.                                         *)
write(w, d) ==
  /\ writer[w].pc = "idle"
  /\ writes < MaxWrites
  /\ writes' = writes + 1
  /\ writer' = [writer EXCEPT ![w] = [@ EXCEPT !.pc = "wait", !.delta = d]]
  /\ UNCHANGED <<seq_count, hi, lo, reader, result, committed>>

WriteWait(w) ==
  /\ writer[w].pc = "wait"
  /\ ~Odd(seq_count)
  /\ writer' = [writer EXCEPT ![w] = [@ EXCEPT !.pc = "swap", !.count = seq_count]]
  /\ UNCHANGED <<seq_count, hi, lo, reader, result, writes, committed>>

(* Mutant: the count is stored without being compared.                     *)
WriteEnterUnchecked(w) ==
  /\ writer[w].pc = "swap"
  /\ seq_count' = writer[w].count + 1
  /\ writer' = [writer EXCEPT ![w].pc = "load"]
  /\ UNCHANGED <<hi, lo, reader, result, writes, committed>>

(* compare_and_swap(count, count + 1) succeeds.                            *)
WriteEnter(w) ==
  /\ writer[w].pc = "swap"
  /\ seq_count = writer[w].count
  /\ seq_count' = seq_count + 1
  /\ writer' = [writer EXCEPT ![w].pc = "load"]
  /\ UNCHANGED <<hi, lo, reader, result, writes, committed>>

(* It fails: back to wait_released.                                        *)
WriteRetry(w) ==
  /\ writer[w].pc = "swap"
  /\ seq_count # writer[w].count
  /\ writer' = [writer EXCEPT ![w].pc = "wait"]
  /\ UNCHANGED <<seq_count, hi, lo, reader, result, writes, committed>>

(* inner.read() and write_fn: nobody else writes meanwhile.                *)
WriteLoad(w) ==
  /\ writer[w].pc = "load"
  /\ writer' = [writer EXCEPT ![w] = [@ EXCEPT !.pc = "hi", !.value = hi + writer[w].delta]]
  /\ UNCHANGED <<seq_count, hi, lo, reader, result, writes, committed>>

(* inner.write(value), one word and then the other.                        *)
WriteHi(w) ==
  /\ writer[w].pc = "hi"
  /\ hi' = writer[w].value
  /\ writer' = [writer EXCEPT ![w].pc = "lo"]
  /\ UNCHANGED <<seq_count, lo, reader, result, writes, committed>>

WriteLo(w) ==
  /\ writer[w].pc = "lo"
  /\ lo' = writer[w].value
  /\ writer' = [writer EXCEPT ![w].pc = "exit"]
  /\ UNCHANGED <<seq_count, hi, reader, result, writes, committed>>

(* Mutant: the writer leaves without making the count even again.          *)
WriteExitOdd(w) ==
  /\ writer[w].pc = "exit"
  /\ committed' = writer[w].value
  /\ writer' = [writer EXCEPT ![w].pc = "idle"]
  /\ UNCHANGED <<seq_count, hi, lo, reader, result, writes>>

(* fetch_add(1), whose two assertions are ExitAssertions below.            *)
WriteExit(w) ==
  /\ writer[w].pc = "exit"
  /\ seq_count' = seq_count + 1
  /\ committed' = writer[w].value
  /\ writer' = [writer EXCEPT ![w].pc = "idle"]
  /\ UNCHANGED <<hi, lo, reader, result, writes>>

-----------------------------------------------------------------------------
ReadStep(r) == ReadWait(r) \/ ReadHi(r) \/ ReadLo(r) \/ ReadReturn(r) \/ ReadRetry(r)

WriteStep(w) ==
  \/ WriteWait(w) \/ WriteEnter(w) \/ WriteRetry(w) \/ WriteLoad(w)
  \/ WriteHi(w) \/ WriteLo(w) \/ WriteExit(w)

Next ==
  \/ \E r \in Readers : read(r) \/ ReadStep(r)
  \/ \E w \in Writers : WriteStep(w) \/ \E d \in Deltas : write(w, d)

Spec == Init /\ [][Next]_vars

(* A thread inside read or write keeps running: no step of theirs blocks   *)
(* in the kernel.                                                          *)
Fairness ==
  /\ \A r \in Readers : WF_vars(ReadStep(r))
  /\ \A w \in Writers : WF_vars(WriteStep(w))

FairSpec == Spec /\ Fairness

-----------------------------------------------------------------------------
InCritical(w) == writer[w].pc \in {"load", "hi", "lo", "exit"}

TypeOK ==
  /\ seq_count \in Nat
  /\ hi \in Int /\ lo \in Int /\ committed \in Int
  /\ reader \in [Readers -> [pc : {"idle", "wait", "hi", "lo", "check"},
                             count : Nat, hi : Int, lo : Int]]
  /\ writer \in [Writers -> [pc : {"idle", "wait", "swap", "load", "hi", "lo", "exit"},
                             count : Nat, delta : Int, value : Int]]
  /\ result \in [Readers -> Int \cup {None}]
  /\ writes \in 0..MaxWrites

(* read_fn is only ever applied to a value some write has left (read calls *)
(* it before check_concurrent_write has vouched for the value).            *)
ReadFnGetsAWrittenValue ==
  \A r \in Readers : reader[r].pc = "check" => reader[r].hi = reader[r].lo

(* The two assert_eq! after fetch_add in write hold: the count a writer    *)
(* leaves is odd and is the one it entered with, plus one.  Another writer *)
(* that got in meanwhile would break them.                                 *)
ExitAssertions ==
  \A w \in Writers : writer[w].pc = "exit" =>
    Odd(seq_count) /\ writer[w].count + 1 = seq_count

(* read returns a value that was the whole value at one moment of the call *)
(* and write updates the value it found: no torn read, no lost update.     *)
Register == INSTANCE AtomicRegister WITH reg <- committed

ImplementsRegister == Register!Spec

(* Every read returns: a writer makes it start over only finitely often,   *)
(* as the deadline handler writes twice per time slice.                    *)
ReadReturns ==
  \A r \in Readers : reader[r].pc # "idle" ~> reader[r].pc = "idle"
=============================================================================
