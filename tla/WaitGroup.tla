----------------------------- MODULE WaitGroup ------------------------------
(* co_waitgroup (src/src/coev/co_waitgroup.cpp): coroutines of several        *)
(* threads count work in and out; wait() returns when none is left. m_count   *)
(* is an atomic outside m_mutex; done() wakes waiters one critical section at  *)
(* a time.                                                                      *)
EXTENDS GuardAsync, FiniteSets

CONSTANT MaxAdds \* bound on the calls of add() in a behaviour

ASSUME WaitGroupAssumption == MaxAdds \in Nat

VARIABLES m_count, \* the atomic counter
          waking,  \* coroutines in the while loop of done()
          owes,    \* owes[c]: add()s of c without their done()
          adds,    \* add()s so far
          sawZero, \* waiters for which m_count was 0 at some time of their wait()
          reused   \* an add() came while an earlier done() was still waking waiters

wgVars == <<m_count, waking, owes, adds, sawZero, reused>>
groupVars == <<asyncVars, wgVars>>

GroupTypeOK ==
  /\ AsyncTypeOK
  /\ m_count \in 0..MaxAdds
  /\ waking \subseteq Co
  /\ owes \in [Co -> 0..MaxAdds]
  /\ adds \in 0..MaxAdds
  /\ sawZero \subseteq Co
  /\ reused \in BOOLEAN

GroupInit ==
  /\ AsyncInit
  /\ m_count = 0 /\ waking = {} /\ adds = 0 /\ sawZero = {} /\ reused = FALSE
  /\ owes = [c \in Co |-> 0]

\* User code of c outside done().
Free(c, t) == Runs(c, t) /\ pc[c] = "run" /\ c \notin waking

\* add(): one more piece of work, which c will report done.
Add(c, t) ==
  /\ Free(c, t) /\ adds < MaxAdds
  /\ m_count' = m_count + 1
  /\ owes' = [owes EXCEPT ![c] = @ + 1]
  /\ adds' = adds + 1
  /\ reused' = (reused \/ waking # {})
  /\ UNCHANGED <<asyncVars, waking, sawZero>>

\* Mutant: done() wakes although work is left.
DoneEarly(c, t) ==
  /\ Free(c, t) /\ owes[c] > 0
  /\ m_count' = m_count - 1
  /\ owes' = [owes EXCEPT ![c] = @ - 1]
  /\ waking' = waking \cup {c}
  /\ UNCHANGED <<asyncVars, adds, sawZero, reused>>

\* done(): --m_count, and the wake-up loop if nothing is left.
Done(c, t) ==
  /\ Free(c, t) /\ owes[c] > 0
  /\ m_count' = m_count - 1
  /\ owes' = [owes EXCEPT ![c] = @ - 1]
  /\ waking' = IF m_count' > 0 THEN waking ELSE waking \cup {c}
  /\ sawZero' = IF m_count' > 0 THEN sawZero ELSE sawZero \cup {d \in Co : Awaiting(d)}
  /\ UNCHANGED <<asyncVars, adds, reused>>

\* Mutant: done() wakes one waiter only.
WakeOne(c, t) ==
  /\ Runs(c, t) /\ pc[c] = "run" /\ c \in waking
  /\ PopWaiter(c, t, "deliver") \/ NoWaiter(c, t)
  /\ waking' = waking \ {c}
  /\ UNCHANGED <<m_count, owes, adds, sawZero, reused>>

\* while (m_waiter.deliver(0)): one turn of the loop, which ends when nobody waits.
WakeLoop(c, t) ==
  /\ Runs(c, t) /\ pc[c] = "run" /\ c \in waking
  /\ \/ PopWaiter(c, t, "deliver") /\ UNCHANGED waking
     \/ NoWaiter(c, t) /\ waking' = waking \ {c}
  /\ UNCHANGED <<m_count, owes, adds, sawZero, reused>>

\* wait(): the counter is read under m_mutex. A coroutine does not wait for itself.
Wait(c, t) ==
  /\ c \notin waking /\ owes[c] = 0
  /\ \/ m_count > 0 /\ Enqueue(c, t) /\ sawZero' = sawZero \ {c}
     \/ m_count = 0 /\ PassThrough(c, t) /\ sawZero' = sawZero \cup {c}
  /\ UNCHANGED <<m_count, waking, owes, adds, reused>>

\* wait() returned to its caller.
GroupReturn(c, t) ==
  /\ Runs(c, t) /\ pc[c] = "back"
  /\ pc' = [pc EXCEPT ![c] = "run"]
  /\ UNCHANGED <<status, tid, waiting, hand, stack, deliverq, signal, batch, open, live>>
  /\ UNCHANGED wgVars

GroupStep(c, t) ==
  \/ IoReady(c, t) /\ UNCHANGED wgVars
  \/ Free(c, t) /\ IoWait(c, t) /\ UNCHANGED wgVars
  \/ Add(c, t) \/ Done(c, t) \/ WakeLoop(c, t) \/ Wait(c, t) \/ GroupReturn(c, t)
  \/ AsyncStep(c, t) /\ UNCHANGED wgVars

GroupNext ==
  \/ \E c \in Co, t \in Thread : GroupStep(c, t)
  \/ \E t \in Thread : LoopStep(t) /\ UNCHANGED wgVars

GroupSpec == GroupInit /\ [][GroupNext]_groupVars

(***************************************************************************)
(* Properties                                                                *)
(***************************************************************************)

(* wait() returns only after the counter was zero at some time between its     *)
(* call and its return: nobody is woken while work it waits for is left, as     *)
(* long as no add() starts a new round while done() still wakes the old one.     *)
ReturnsAfterZero == reused \/ \A c \in Co : pc[c] = "back" => c \in sawZero

(* No waiter is left behind: when no work is left and no done() is waking      *)
(* waiters any more, nobody is queued. The test of m_count in wait() and the    *)
(* decrement in done() do not share a lock, so this rests on their order.       *)
NobodyLeftBehind == m_count = 0 /\ waking = {} => waiting = <<>>

(* The group of waiters as a whole, the types included: no event is resumed        *)
(* twice or while it is not waiting, and no waiter is left behind.                  *)
WaitersSafe ==
  /\ GroupTypeOK
  /\ NoAssert
  /\ NobodyLeftBehind

\* Fairness: running threads run, running code comes to an await now and then, libev
\* serves a pending ev_async.
GroupThreadRuns(t) ==
  \/ ResumeNext(t) /\ UNCHANGED wgVars
  \/ \E c \in Co : \/ AsyncStep(c, t) /\ UNCHANGED wgVars
                   \/ WakeLoop(c, t) \/ GroupReturn(c, t)

GroupFairness ==
  \A t \in Thread :
    /\ WF_groupVars(GroupThreadRuns(t))
    /\ SF_groupVars(Collect(t) /\ UNCHANGED wgVars)
    /\ SF_groupVars(\E c \in Co : Free(c, t) /\ IoWait(c, t) /\ UNCHANGED wgVars)

GroupFairSpec == GroupSpec /\ GroupFairness

(* Once the work is done every wait() returns, unless a new round of work starts  *)
(* first: the loop of done() reaches every waiter, and no wake-up is lost on its   *)
(* way to the waiter's thread.                                                      *)
WaitReturns == \A c \in Co : m_count = 0 /\ Awaiting(c) ~> pc[c] = "back" \/ m_count > 0
=============================================================================
