----------------------------- MODULE LocalMutex -----------------------------
(* coev::co_mutex (src/src/coev/co_mutex.cpp), the lock of one thread:          *)
(* unlock() clears the flag and runs the first waiter on the spot, which sets    *)
(* it again.                                                                      *)
EXTENDS LocalAsync

CONSTANT MaxLocks \* bound on the locks each coroutine takes

ASSUME LocalMutexAssumption == MaxLocks \in Nat

on == 1
off == 0

VARIABLES m_flag, \* on or off
          owner,  \* coroutines between lock() and unlock()
          taken   \* taken[c]: locks c took so far

muVars == <<m_flag, owner, taken>>
allMutexVars == <<localVars, muVars>>

MutexTypeOK ==
  /\ LocalTypeOK
  /\ m_flag \in {on, off}
  /\ owner \subseteq Co
  /\ taken \in [Co -> 0..MaxLocks]

MutexInit == LocalInit /\ m_flag = off /\ owner = {} /\ taken = [c \in Co |-> 0]

MayLock(c) == Runs(c) /\ pc[c] = "run" /\ c \notin owner /\ taken[c] < MaxLocks

Take(c) ==
  /\ m_flag' = on
  /\ owner' = owner \cup {c}
  /\ taken' = [taken EXCEPT ![c] = @ + 1]

\* lock(): wait while the flag is on, else set it.
Lock(c) ==
  /\ MayLock(c)
  /\ \/ m_flag = on /\ Suspend(c) /\ UNCHANGED muVars
     \/ m_flag = off /\ Take(c) /\ UNCHANGED localVars

\* lock() after its wait: assert(m_flag == off), then set it.
LockWoken(c) ==
  /\ Runs(c) /\ pc[c] = "back"
  /\ Take(c)
  /\ Goto(c, "run")
  /\ UNCHANGED <<stack, waiters, next, phase>>

\* try_lock().
TryLock(c) == MayLock(c) /\ m_flag = off /\ Take(c) /\ UNCHANGED localVars

\* Mutant: unlock() leaves the waiter for the end of the callback.
UnlockLater(c) ==
  /\ Runs(c) /\ pc[c] = "run" /\ c \in owner
  /\ m_flag' = off
  /\ owner' = owner \ {c}
  /\ ResumeNextLoop
  /\ UNCHANGED <<pc, stack, phase, taken>>

\* Mutant: unlock() wakes nobody.
UnlockSilent(c) ==
  /\ Runs(c) /\ pc[c] = "run" /\ c \in owner
  /\ m_flag' = off
  /\ owner' = owner \ {c}
  /\ UNCHANGED <<localVars, taken>>

\* unlock(): clear the flag, run the first waiter.
Unlock(c) ==
  /\ Runs(c) /\ pc[c] = "run" /\ c \in owner
  /\ m_flag' = off
  /\ owner' = owner \ {c}
  /\ ResumeInline(c)
  /\ UNCHANGED taken

MutexStep(c) ==
  \/ (Start(c) \/ IoReady(c) \/ IoWait(c)) /\ UNCHANGED muVars
  \/ c \notin owner /\ Finish(c) /\ UNCHANGED muVars
  \/ Lock(c) \/ LockWoken(c) \/ TryLock(c) \/ Unlock(c)

MutexNext == (\E c \in Co : MutexStep(c)) \/ (LoopStep /\ UNCHANGED muVars)

MutexSpec == MutexInit /\ [][MutexNext]_allMutexVars

(***************************************************************************)
(* Properties                                                                *)
(***************************************************************************)

(* Mutual exclusion between coroutines that await I/O while they own the lock.  *)
MutualExclusion ==
  /\ \A c, d \in owner : c = d
  /\ owner # {} => m_flag = on

(* assert(m_flag == off) after the wait in lock() and assert(m_flag == on) in     *)
(* unlock() hold: nobody takes the lock between unlock() and the waiter it runs.  *)
AssertsHold ==
  \A c \in Co : /\ pc[c] = "back" => m_flag = off
                /\ c \in owner => m_flag = on

(* Nobody waits for a free lock: a free flag with somebody queued lasts only as  *)
(* long as unlock() runs the waiter.                                               *)
FreeMeansNobodyWaits ==
  m_flag = off => waiters = <<>> \/ \E c \in Co : pc[c] = "back"

(* The lock as a whole, the types included: it is exclusive, its asserts hold and  *)
(* nobody waits for it while it is free.                                             *)
LockSafe ==
  /\ MutexTypeOK
  /\ MutualExclusion
  /\ AssertsHold
  /\ FreeMeansNobodyWaits

\* Running code goes on, timers fire, owners unlock.
MutexFairness ==
  /\ WF_allMutexVars((\E c \in Co : Runs(c) /\ MutexStep(c)) \/ (LoopStep /\ UNCHANGED muVars))
  /\ \A c \in Co : SF_allMutexVars(IoReady(c) /\ UNCHANGED muVars) /\ SF_allMutexVars(Unlock(c))

FairMutexSpec == MutexSpec /\ MutexFairness

(* Every lock() that waits returns.                                              *)
LockGranted == \A c \in Co : pc[c] = "parked" ~> c \in owner
=============================================================================
