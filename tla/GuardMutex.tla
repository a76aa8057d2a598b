----------------------------- MODULE GuardMutex -----------------------------
(* guard::co_mutex (src/src/coev/co_mutex.cpp): a lock for coroutines of     *)
(* several threads. unlock() clears m_flag and, still under m_mutex, the      *)
(* first waiter's getter sets it again on the waiter's behalf; the waiter      *)
(* learns of it later, through its own event loop (deliver) or by being        *)
(* resumed on the unlocking thread (resume).                                    *)
EXTENDS GuardAsync

VARIABLE m_flag

mutexVars == <<asyncVars, m_flag>>

Flag == {"on", "off"}

MutexTypeOK == AsyncTypeOK /\ m_flag \in Flag

MutexInit == AsyncInit /\ m_flag = "off"

\* lock(): wait while the flag is on, else take it.
Lock(c, t) ==
  \/ m_flag = "on" /\ Enqueue(c, t) /\ UNCHANGED m_flag
  \/ m_flag = "off" /\ PassThrough(c, t) /\ m_flag' = "on"

\* Mutant: try_lock() looks at the flag only after unlock() cleared it for a waiter.
TryLockBarging(c, t) == waiting # <<>> /\ PassThrough(c, t) /\ m_flag' = "on"

\* try_lock(): take the flag if it is off, else return false.
TryLock(c, t) ==
  /\ m_flag = "off"
  /\ PassThrough(c, t)
  /\ m_flag' = "on"

\* Mutant: unlock() pops a waiter without letting its getter take the flag.
UnlockNoHandOff(c, t, how) ==
  /\ pc[c] = "back"
  /\ m_flag' = "off"
  /\ PopWaiter(c, t, how) \/ NoWaiter(c, t)

\* unlock(deliver): flag off; if a waiter is queued its getter turns it on again.
Unlock(c, t, how) ==
  /\ pc[c] = "back"
  /\ \/ PopWaiter(c, t, how) /\ m_flag' = "on"
     \/ NoWaiter(c, t) /\ m_flag' = "off"

MutexStep(c, t) ==
  \/ IoReady(c, t) /\ UNCHANGED m_flag
  \/ IoWait(c, t) /\ UNCHANGED m_flag
  \/ Lock(c, t)
  \/ TryLock(c, t)
  \/ \E how \in {"deliver", "resume"} : Unlock(c, t, how)
  \/ AsyncStep(c, t) /\ UNCHANGED m_flag

MutexNext ==
  \/ \E c \in Co, t \in Thread : MutexStep(c, t)
  \/ \E t \in Thread : LoopStep(t) /\ UNCHANGED m_flag

MutexSpec == MutexInit /\ [][MutexNext]_mutexVars

(***************************************************************************)
(* Properties                                                                *)
(***************************************************************************)

(* Mutual exclusion across threads: at most one coroutine owns the lock,      *)
(* the one it was handed to but that is still travelling to its thread         *)
(* included, and m_flag is on exactly while someone owns it.                   *)
MutualExclusion ==
  /\ \A c, d \in Co : Holds(c) /\ Holds(d) => c = d
  /\ m_flag = "on" <=> \E c \in Co : Holds(c)

(* Hand-off is first come, first served: nobody barges past a queued waiter,   *)
(* a coroutine becomes the owner without queueing only when nobody queues.     *)
NoBarging ==
  [][\A c \in Co : pc[c] = "run" /\ pc'[c] = "back" => waiting = <<>>]_mutexVars

(***************************************************************************)
(* Liveness: every queued lock() returns, provided the threads run, libev     *)
(* serves every pending watcher (ev_async, the I/O an owner awaits), running  *)
(* code comes to its next await, and owners unlock.                            *)
(***************************************************************************)
Releases(c) == \E t \in Thread, how \in {"deliver", "resume"} : Unlock(c, t, how)

MutexThreadRuns(t) ==
  \/ \E c \in Co : AsyncStep(c, t) \/ (pc[c] = "run" /\ IoWait(c, t))
  \/ ResumeNext(t)

MutexFairness ==
  /\ \A c \in Co :
       /\ SF_mutexVars(\E t \in Thread : IoReady(c, t) /\ UNCHANGED m_flag)
       /\ SF_mutexVars(Releases(c))
  /\ \A t \in Thread :
       /\ WF_mutexVars(MutexThreadRuns(t) /\ UNCHANGED m_flag)
       /\ SF_mutexVars(Collect(t) /\ UNCHANGED m_flag)

MutexFairSpec == MutexSpec /\ MutexFairness

(* A coroutine that waits in lock() gets the lock: no wake-up is lost between  *)
(* enqueueing the event, the status word, the co_deliver queue and the         *)
(* coalesced ev_async signal.                                                   *)
LockGranted == \A c \in Co : Awaiting(c) ~> pc[c] = "back"
=============================================================================
