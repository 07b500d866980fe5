----------------------------- MODULE BufferPool -----------------------------
(***************************************************************************)
(* buffer_pool.rs: a fixed pool of buffers handed out without a lock.      *)
(* Every thread scans the flags buffer_busy from the first one on, with    *)
(* one atomic swap per flag, and the owner of a buffer frees it by storing *)
(* false.  One step of the model is one atomic access.                     *)
(*                                                                         *)
(* The client holds two pools: output_buffer_pool (packets to send) and    *)
(* the connector's input_buffer_pool (messages received).                  *)
(***************************************************************************)
EXTENDS Naturals, FiniteSets

CONSTANTS
  NumBuffers,  \* Config::num_buffers, a NonZeroUsize
  Users        \* threads that allocate, the deadline handler included

VARIABLES
  buffer_busy, \* the flags, one per buffer
  live,        \* per buffer, how many Buffer<T> values refer to it
  scan,        \* per user, the next flag its allocate_buffer looks at, 0 outside
  got,         \* per user, the buffer its last allocate_buffer returned, or 0
  outcome,     \* per user, how its last allocate_buffer ended
  contended    \* history: per user, during its current scan the pool was full
               \* or another user got a buffer

vars == <<buffer_busy, live, scan, got, outcome, contended>>

Index == 1..NumBuffers

Outcomes == {"Pending", "Ok", "NoBufferAvailable", "SizeTooBig"}

Full(busy) == \A i \in Index : busy[i]

-----------------------------------------------------------------------------
(* BufferPool::new: no buffer is in use.                                   *)
new ==
  /\ buffer_busy = [i \in Index |-> FALSE]
  /\ live = [i \in Index |-> 0]
  /\ scan = [u \in Users |-> 0]
  /\ got = [u \in Users |-> 0]
  /\ outcome = [u \in Users |-> "Pending"]
  /\ contended = [u \in Users |-> FALSE]

Init == new

(* The history of every scan that goes on after the step.                  *)
Observe ==
  contended' = [u \in Users |->
                  /\ scan'[u] # 0
                  /\ \/ scan[u] # 0 /\ contended[u]
                     \/ Full(buffer_busy')
                     \/ \E v \in Users \ {u} : scan[v] # 0 /\ got'[v] # 0]

(* allocate_buffer is called: the size is checked before any flag.         *)
allocate_buffer(u, fits) ==
  /\ scan[u] = 0
  /\ scan' = [scan EXCEPT ![u] = IF fits THEN 1 ELSE 0]
  /\ got' = [got EXCEPT ![u] = 0]
  /\ outcome' = [outcome EXCEPT ![u] = IF fits THEN "Pending" ELSE "SizeTooBig"]
  /\ UNCHANGED <<buffer_busy, live>>
  /\ Observe

(* One swap(true) of the scan finds the flag clear: the buffer is built.   *)
SwapFree(u) ==
  LET i == scan[u] IN
  /\ i # 0
  /\ ~buffer_busy[i]
  /\ buffer_busy' = [buffer_busy EXCEPT ![i] = TRUE]
  /\ live' = [live EXCEPT ![i] = @ + 1]
  /\ scan' = [scan EXCEPT ![u] = 0]
  /\ got' = [got EXCEPT ![u] = i]
  /\ outcome' = [outcome EXCEPT ![u] = "Ok"]
  /\ Observe

(* A scan step over a set flag that gives up after flag number last.       *)
SwapBusyUpTo(u, last) ==
  LET i == scan[u] IN
  /\ i # 0
  /\ buffer_busy[i]
  /\ scan' = [scan EXCEPT ![u] = IF i < last THEN i + 1 ELSE 0]
  /\ outcome' = [outcome EXCEPT ![u] = IF i < last THEN @ ELSE "NoBufferAvailable"]
  /\ UNCHANGED <<buffer_busy, live, got>>
  /\ Observe

(* Mutants: the scan goes one flag too far, or one flag short.             *)
SwapBusyPastEnd(u) == SwapBusyUpTo(u, NumBuffers + 1)
SwapBusyShort(u) == SwapBusyUpTo(u, NumBuffers - 1)

(* One swap(true) finds the flag already set: next flag, or the error.     *)
SwapBusy(u) ==
  LET i == scan[u] IN
  /\ i # 0
  /\ buffer_busy[i]
  /\ IF i < NumBuffers
     THEN /\ scan' = [scan EXCEPT ![u] = i + 1]
          /\ UNCHANGED outcome
     ELSE /\ scan' = [scan EXCEPT ![u] = 0]
          /\ outcome' = [outcome EXCEPT ![u] = "NoBufferAvailable"]
  /\ UNCHANGED <<buffer_busy, live, got>>
  /\ Observe

(* Buffer::drop: free_buffer clears the flag of a buffer that is alive.    *)
free_buffer(i) ==
  /\ live[i] > 0
  /\ live' = [live EXCEPT ![i] = @ - 1]
  /\ buffer_busy' = [buffer_busy EXCEPT ![i] = FALSE]
  /\ UNCHANGED <<scan, got, outcome>>
  /\ Observe

Next ==
  \/ \E u \in Users, fits \in BOOLEAN : allocate_buffer(u, fits)
  \/ \E u \in Users : SwapFree(u)
  \/ \E u \in Users : SwapBusy(u)
  \/ \E i \in Index : free_buffer(i)

Spec == Init /\ [][Next]_vars

-----------------------------------------------------------------------------
TypeOK ==
  /\ buffer_busy \in [Index -> BOOLEAN]
  /\ live \in [Index -> Nat]
  /\ scan \in [Users -> 0..NumBuffers]
  /\ got \in [Users -> 0..NumBuffers]
  /\ outcome \in [Users -> Outcomes]
  /\ contended \in [Users -> BOOLEAN]

(* A buffer is never behind two Buffer values, and its flag says whether   *)
(* it is behind one, whatever the scans of the other threads do.           *)
BufferExclusive ==
  \A i \in Index : live[i] = IF buffer_busy[i] THEN 1 ELSE 0

(* allocate_buffer answers NoBufferAvailable only if, at some moment of    *)
(* the call, all buffers were in use, or another thread got one meanwhile. *)
(* The scan is not atomic: a buffer freed behind it is missed, and without *)
(* the second case this would not hold.                                    *)
FailsOnlyWhenContended ==
  [][\A u \in Users :
       scan[u] # 0 /\ outcome'[u] = "NoBufferAvailable" => contended[u]]_vars
=============================================================================
