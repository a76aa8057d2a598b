----------------------------- MODULE GuardAsync -----------------------------
(* guard::co_async, co_deliver and the threads' event loops: how a           *)
(* coroutine waits for a condition of an object shared by several threads    *)
(* and how another coroutine, on the same thread or on another one, hands     *)
(* it what it waits for.                                                      *)
(*                                                                             *)
(* A coroutine awaits one event at a time, so an event is named by the        *)
(* coroutine that owns it. Each thread runs a nest of coroutines: resuming    *)
(* one runs it on top of the resumer until it suspends again. Every critical  *)
(* section of m_mutex, of m_lock and of g_mutex, and every compare-exchange   *)
(* on an event's status, is one step.                                         *)
EXTENDS CoEvent, Queues, Functions

CONSTANTS Thread, \* gtid of the threads that run an event loop
          Co      \* coroutines

VARIABLES
  pc,       \* pc[c]: where coroutine c stands
  status,   \* status[c]: m_status of the co_event c owns
  tid,      \* tid[c]: m_tid of that event, the thread c was on
  waiting,  \* the intrusive queue of guard::co_async
  hand,     \* hand[c]: the event c popped in __ev and has not passed on
  stack,    \* stack[t]: nest of coroutines running on t, innermost first
  deliverq, \* co_deliver::m_waiter of t
  signal,   \* ev_async of t is pending
  batch,    \* the local _waiter of __resume_ev on t
  open,     \* threads whose co_deliver is in all_delivers
  live      \* threads whose ev_run has not returned

asyncVars == <<pc, status, tid, waiting, hand, stack, deliverq, signal, batch, open, live>>

(* "io": suspended on a timer or a socket of its thread; "run": running user *)
(* code; "ioback": as "io", with what suspend() gave it; "queued": event enqueued, mutex released; "unready": await_ready     *)
(* returned false; "parked": suspended on its event; "back": suspend()        *)
(* returned; "deliver"/"resume": popped a waiter and is about to wake it;      *)
(* "dead": destroyed with the co_task of its thread.                           *)
Pc == {"io", "run", "ioback", "queued", "unready", "parked", "back", "deliver", "resume", "dead"}

AsyncTypeOK ==
  /\ pc \in [Co -> Pc]
  /\ status \in [Co -> EventStatus \cup {"ASSERT"}]
  /\ tid \in [Co -> Thread]
  /\ waiting \in Seq(Co)
  /\ hand \in [Co -> Co]
  /\ stack \in [Thread -> Seq(Co)]
  /\ deliverq \in [Thread -> Seq(Co)]
  /\ signal \in [Thread -> BOOLEAN]
  /\ batch \in [Thread -> Seq(Co)]
  /\ open \subseteq Thread
  /\ live \subseteq Thread

AsyncInit ==
  /\ pc = [c \in Co |-> "io"]
  /\ status = [c \in Co |-> "FINISHED"]
  /\ tid \in [Co -> Thread]
  /\ waiting = <<>>
  /\ hand = [c \in Co |-> c]
  /\ stack = [t \in Thread |-> <<>>]
  /\ deliverq = [t \in Thread |-> <<>>]
  /\ signal = [t \in Thread |-> FALSE]
  /\ batch = [t \in Thread |-> <<>>]
  /\ open = Thread
  /\ live = Thread

(***************************************************************************)
(* Coroutines on threads                                                    *)
(***************************************************************************)

\* c is the innermost coroutine of thread t: the one executing.
Runs(c, t) == stack[t] # <<>> /\ Head(stack[t]) = c

\* The loop of t is between two libev callbacks.
Idle(t) == t \in live /\ stack[t] = <<>> /\ batch[t] = <<>>

\* libev calls the watcher c waits for on its thread.
IoReady(c, t) ==
  /\ Idle(t) /\ tid[c] = t
  /\ \/ pc[c] = "io" /\ pc' = [pc EXCEPT ![c] = "run"]
     \/ pc[c] = "ioback" /\ pc' = [pc EXCEPT ![c] = "back"]
  /\ stack' = [stack EXCEPT ![t] = <<c>>]
  /\ UNCHANGED <<status, tid, waiting, hand, deliverq, signal, batch, open, live>>

\* c awaits a watcher of thread t: control returns to whoever resumed it.
IoWait(c, t) ==
  /\ Runs(c, t)
  /\ \/ pc[c] = "run" /\ pc' = [pc EXCEPT ![c] = "io"]
     \/ pc[c] = "back" /\ pc' = [pc EXCEPT ![c] = "ioback"]
  /\ tid' = [tid EXCEPT ![c] = t]
  /\ stack' = [stack EXCEPT ![t] = Tail(@)]
  /\ UNCHANGED <<status, waiting, hand, deliverq, signal, batch, open, live>>

(***************************************************************************)
(* guard::co_async::suspend                                                 *)
(***************************************************************************)

\* _suspend() holds under m_mutex: enqueue a fresh co_event_f, unlock. (The wait ends
\* with INVALID only when ~co_async runs with waiters queued, in a thread that ends, co_async.cpp 72-86;
\* here the shared objects outlive the coroutines that wait in them.)
Enqueue(c, t) ==
  /\ Runs(c, t) /\ pc[c] = "run"
  /\ waiting' = Append(waiting, c)
  /\ status' = [status EXCEPT ![c] = "INIT"]
  /\ tid' = [tid EXCEPT ![c] = t]
  /\ pc' = [pc EXCEPT ![c] = "queued"]
  /\ UNCHANGED <<hand, stack, deliverq, signal, batch, open, live>>

\* _suspend() does not hold under m_mutex: the getter runs at once.
PassThrough(c, t) ==
  /\ Runs(c, t) /\ pc[c] = "run"
  /\ pc' = [pc EXCEPT ![c] = "back"]
  /\ UNCHANGED <<status, tid, waiting, hand, stack, deliverq, signal, batch, open, live>>

\* co_await ev, first half: await_ready.
CheckReady(c, t) ==
  /\ Runs(c, t) /\ pc[c] = "queued"
  /\ pc' = [pc EXCEPT ![c] = IF AwaitReady(status[c]) THEN "back" ELSE "unready"]
  /\ UNCHANGED <<status, tid, waiting, hand, stack, deliverq, signal, batch, open, live>>

\* co_await ev, second half: await_suspend; c suspends unless it was resumed meanwhile.
CheckSuspend(c, t) ==
  /\ Runs(c, t) /\ pc[c] = "unready"
  /\ LET s == AwaitSuspend(status[c]) IN
       /\ status' = [status EXCEPT ![c] = s]
       /\ pc' = [pc EXCEPT ![c] = IF s = "SUSPEND" THEN "parked" ELSE "back"]
       /\ stack' = [stack EXCEPT ![t] = IF s = "SUSPEND" THEN Tail(@) ELSE @]
  /\ UNCHANGED <<tid, waiting, hand, deliverq, signal, batch, open, live>>

(***************************************************************************)
(* guard::co_async::deliver and resume, co_deliver                           *)
(***************************************************************************)

\* Mutant: the waiter is read but stays linked.
PeekWaiter(c, t, how) ==
  /\ Runs(c, t) /\ waiting # <<>>
  /\ hand' = [hand EXCEPT ![c] = Head(waiting)]
  /\ pc' = [pc EXCEPT ![c] = how]
  /\ UNCHANGED <<status, tid, waiting, stack, deliverq, signal, batch, open, live>>

\* __ev with a waiter: pop it under m_mutex, go on to wake it with "how".
PopWaiter(c, t, how) ==
  /\ Runs(c, t) /\ waiting # <<>>
  /\ hand' = [hand EXCEPT ![c] = Head(waiting)]
  /\ waiting' = Tail(waiting)
  /\ pc' = [pc EXCEPT ![c] = how]
  /\ UNCHANGED <<status, tid, stack, deliverq, signal, batch, open, live>>

\* __ev with an empty queue: deliver returns false.
NoWaiter(c, t) ==
  /\ Runs(c, t) /\ waiting = <<>>
  /\ pc' = [pc EXCEPT ![c] = "run"]
  /\ UNCHANGED <<status, tid, waiting, hand, stack, deliverq, signal, batch, open, live>>

\* co_event::resume of w's event on thread t, where the rest of t's nest is s and pcs are p.
ResumeOn(w, t, p, s) ==
  /\ status' = [status EXCEPT ![w] = Resume(@)]
  /\ IF RunsInResumer(status[w])
       THEN /\ pc' = [p EXCEPT ![w] = "back"]
            /\ stack' = [stack EXCEPT ![t] = <<w>> \o s]
       ELSE /\ pc' = p
            /\ stack' = [stack EXCEPT ![t] = s]
  /\ UNCHANGED tid

\* c->resume() by the thread that popped the event: its own thread, or any for guard resume.
WakeInline(c, t) ==
  /\ Runs(c, t)
  /\ \/ pc[c] = "deliver" /\ tid[hand[c]] = t
     \/ pc[c] = "resume"
  /\ ResumeOn(hand[c], t, [pc EXCEPT ![c] = "run"], stack[t])
  /\ hand' = [hand EXCEPT ![c] = c]
  /\ UNCHANGED <<waiting, deliverq, signal, batch, open, live>>

\* Mutant: the event is dropped when its thread is another one.
WakeDropped(c, t) ==
  /\ Runs(c, t) /\ pc[c] = "deliver" /\ tid[hand[c]] # t
  /\ pc' = [pc EXCEPT ![c] = "run"]
  /\ hand' = [hand EXCEPT ![c] = c]
  /\ UNCHANGED <<status, tid, waiting, stack, deliverq, signal, batch, open, live>>

\* co_deliver::resume, __call_resume and __done: the event goes to its thread, if that is still open.
WakeRemote(c, t) ==
  /\ Runs(c, t) /\ pc[c] = "deliver"
  /\ LET w == hand[c]
         u == tid[w]
     IN /\ u # t
        /\ \/ /\ u \in open
              /\ deliverq' = [deliverq EXCEPT ![u] = Append(@, w)]
              /\ signal' = [signal EXCEPT ![u] = TRUE]
           \/ /\ u \notin open
              /\ UNCHANGED <<deliverq, signal>>
  /\ pc' = [pc EXCEPT ![c] = "run"]
  /\ hand' = [hand EXCEPT ![c] = c]
  /\ UNCHANGED <<status, tid, waiting, stack, batch, open, live>>

\* Mutant: the signal is cleared after the queue was moved, losing one raised in between.
CollectNothing(t) ==
  /\ Idle(t) /\ t \in open /\ signal[t]
  /\ signal' = [signal EXCEPT ![t] = FALSE]
  /\ UNCHANGED <<pc, status, tid, waiting, hand, stack, deliverq, batch, open, live>>

\* cb_async, first half: the queue moves to a local list under m_lock.
Collect(t) ==
  /\ Idle(t) /\ t \in open /\ signal[t]
  /\ signal' = [signal EXCEPT ![t] = FALSE]
  /\ batch' = [batch EXCEPT ![t] = deliverq[t]]
  /\ deliverq' = [deliverq EXCEPT ![t] = <<>>]
  /\ UNCHANGED <<pc, status, tid, waiting, hand, stack, open, live>>

\* cb_async, second half: resume_all pops and resumes one event after the other.
ResumeNext(t) ==
  /\ stack[t] = <<>> /\ batch[t] # <<>>
  /\ ResumeOn(Head(batch[t]), t, pc, <<>>)
  /\ batch' = [batch EXCEPT ![t] = Tail(@)]
  /\ UNCHANGED <<waiting, hand, deliverq, signal, open, live>>

(***************************************************************************)
(* The end of a thread: cosys::stop, then co_start.destroy()                 *)
(***************************************************************************)

\* cosys::stop called by c: the thread's co_deliver leaves all_delivers, its watcher stops.
StopLoop(c, t) ==
  /\ Runs(c, t) /\ pc[c] = "run" /\ t \in open
  /\ open' = open \ {t}
  /\ signal' = [signal EXCEPT ![t] = FALSE]
  /\ UNCHANGED <<pc, status, tid, waiting, hand, stack, deliverq, batch, live>>

\* ev_run has returned: the thread's suspended coroutines are destroyed, and ~co_event
\* takes each event out of whatever queue it is linked in, without that queue's lock.
ThreadExit(t) ==
  /\ Idle(t) /\ t \notin open
  /\ LET dying == {c \in Co : tid[c] = t /\ pc[c] \in {"io", "ioback", "parked"}}
         Unlinked(q) == Only(q, Co \ dying)
     IN /\ pc' = [c \in Co |-> IF c \in dying THEN "dead" ELSE pc[c]]
        /\ waiting' = Unlinked(waiting)
        /\ deliverq' = [deliverq EXCEPT ![t] = Unlinked(@)]
  /\ live' = live \ {t}
  /\ UNCHANGED <<status, tid, hand, stack, signal, batch, open>>

\* The steps of the machinery itself, whatever object is being waited for.
AsyncStep(c, t) ==
  \/ CheckReady(c, t) \/ CheckSuspend(c, t)
  \/ WakeInline(c, t) \/ WakeRemote(c, t)

LoopStep(t) == Collect(t) \/ ResumeNext(t)

(***************************************************************************)
(* What the machinery promises                                              *)
(***************************************************************************)
InSeq(x, s) == \E i \in DOMAIN s : s[i] = x

\* c is waiting for its event.
Awaiting(c) == pc[c] \in {"queued", "unready", "parked"}

\* The event was popped from the object's queue (its getter has run) and c has not noticed.
Served(c) == Awaiting(c) /\ ~InSeq(c, waiting)

\* c was given what it waited for: suspend() returned, or its event was popped and it will.
Holds(c) == pc[c] \in {"back", "ioback"} \/ Served(c)

\* d popped an event and is about to wake its owner, or to pass it to its thread.
Waking(d) == pc[d] \in {"deliver", "resume"}

\* The event of c waits to be resumed: in a hand, a co_deliver queue or a batch.
Carried(c) ==
  \/ \E d \in Co : Waking(d) /\ hand[d] = c
  \/ \E t \in Thread : InSeq(c, deliverq[t]) \/ InSeq(c, batch[t])

(* No interleaving drives an event into one of the assert(false) branches of *)
(* await_suspend and resume: an event is resumed exactly once per wait.       *)
NoAssert == \A c \in Co : status[c] # "ASSERT"

(* No wake-up is lost: a coroutine whose event was popped is on its way back, *)
(* carried by another coroutine or by its thread's queue, or already resumed,  *)
(* and is never queued a second time.                                           *)
WakeInFlight ==
  \A c \in Co : Served(c) => Carried(c) \/ status[c] = "RESUMED"

(***************************************************************************)
(* The inductive invariant of the machinery, threads that stop included      *)
(***************************************************************************)

\* The status word agrees with where the owner stands.
StatusOK ==
  \A c \in Co :
    /\ status[c] # "ASSERT"
    /\ pc[c] \in {"queued", "unready"} => status[c] \in {"INIT", "RESUMED"}
    /\ pc[c] = "parked" => status[c] = "SUSPEND"

\* An event that is queued or carried has an owner that awaits it and was not resumed.
Unresumed(c) == Awaiting(c) /\ status[c] # "RESUMED"

WaitingOK ==
  /\ IsInjective(waiting)
  /\ \A c \in Co : InSeq(c, waiting) => Unresumed(c)

\* d is about to pass on the event of a coroutine that was destroyed with its thread.
Orphaned(d) == pc[d] = "deliver" /\ pc[hand[d]] = "dead"

HandOK ==
  /\ \A d \in Co :
       Waking(d) => (Unresumed(hand[d]) \/ Orphaned(d)) /\ ~InSeq(hand[d], waiting)
  /\ \A d, e \in Co : Waking(d) /\ Waking(e) /\ hand[d] = hand[e] => d = e
  /\ \A d \in Co, t \in Thread :
       Waking(d) => ~InSeq(hand[d], deliverq[t]) /\ ~InSeq(hand[d], batch[t])

QueuesOK ==
  \A t \in Thread :
    /\ IsInjective(deliverq[t]) /\ IsInjective(batch[t])
    /\ \A c \in Co : ~(InSeq(c, deliverq[t]) /\ InSeq(c, batch[t]))
    /\ \A c \in Co :
         InSeq(c, deliverq[t]) \/ InSeq(c, batch[t]) =>
           Unresumed(c) /\ ~InSeq(c, waiting) /\ tid[c] = t

\* Nothing runs on a thread that has ended; whoever was destroyed belongs to one.
LiveOK ==
  /\ \A t \in Thread : stack[t] # <<>> \/ batch[t] # <<>> \/ t \in open => t \in live
  /\ \A c \in Co : pc[c] = "dead" => tid[c] \notin live

\* As WakeInFlight, but a thread that has stopped takes no more events.
WakeKept ==
  \A c \in Co : Served(c) => Carried(c) \/ status[c] = "RESUMED" \/ tid[c] \notin open

AsyncInv ==
  AsyncTypeOK /\ StatusOK /\ WaitingOK /\ HandOK /\ QueuesOK /\ LiveOK /\ WakeKept
=============================================================================
