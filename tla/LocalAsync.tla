----------------------------- MODULE LocalAsync -----------------------------
(* One thread's coroutines with the unguarded co_async and the thread's        *)
(* local_async queue (src/src/coev/co_async.cpp, local_resume.cpp): resume()   *)
(* runs the waiter inside the resumer, resume_next_loop() leaves it for the     *)
(* end of the current libev callback. Coroutines that runnable starts run       *)
(* before ev_run, outside any callback.                                          *)
EXTENDS Naturals, Sequences

CONSTANT Co \* coroutines of the thread

VARIABLES
  pc,     \* pc[c]: where coroutine c stands
  stack,  \* nest of running coroutines, innermost first
  waiters,\* the intrusive queue of the object's co_async
  next,   \* local_async::instance()
  phase   \* "start": before ev_run; "loop": ev_run polls; "callback": inside one

localVars == <<pc, stack, waiters, next, phase>>

LocalPc == {"new", "run", "io", "parked", "back", "done", "gone"}

LocalTypeOK ==
  /\ pc \in [Co -> LocalPc]
  /\ stack \in Seq(Co) /\ waiters \in Seq(Co) /\ next \in Seq(Co)
  /\ phase \in {"start", "loop", "callback"}

LocalInit ==
  /\ pc = [c \in Co |-> "new"]
  /\ stack = <<>> /\ waiters = <<>> /\ next = <<>>
  /\ phase = "start"

Runs(c) == stack # <<>> /\ Head(stack) = c

Goto(c, where) == pc' = [pc EXCEPT ![c] = where]

\* co_start << c while the thread sets up: runs until c first suspends.
Start(c) ==
  /\ phase = "start" /\ stack = <<>> /\ pc[c] = "new"
  /\ Goto(c, "run") /\ stack' = <<c>>
  /\ UNCHANGED <<waiters, next, phase>>

\* cosys::start: ev_run polls from now on; nothing drains local_async here.
EnterLoop ==
  /\ phase = "start" /\ stack = <<>>
  /\ phase' = "loop"
  /\ UNCHANGED <<pc, stack, waiters, next>>

\* A timer or a socket c awaits fires: the callback resumes c.
IoReady(c) ==
  /\ phase = "loop" /\ pc[c] = "io"
  /\ Goto(c, "run") /\ stack' = <<c>>
  /\ phase' = "callback"
  /\ UNCHANGED <<waiters, next>>

\* c awaits a timer or a socket.
IoWait(c) ==
  /\ Runs(c) /\ pc[c] = "run"
  /\ Goto(c, "io") /\ stack' = Tail(stack)
  /\ UNCHANGED <<waiters, next, phase>>

\* c returns.
Finish(c) ==
  /\ Runs(c) /\ pc[c] = "run"
  /\ Goto(c, "done") /\ stack' = Tail(stack)
  /\ UNCHANGED <<waiters, next, phase>>

\* co_await m_waiter.suspend().
Suspend(c) ==
  /\ Runs(c) /\ pc[c] = "run"
  /\ waiters' = Append(waiters, c)
  /\ Goto(c, "parked") /\ stack' = Tail(stack)
  /\ UNCHANGED <<next, phase>>

\* m_waiter.resume(): the first waiter runs now, on top of c.
ResumeInline(c) ==
  /\ Runs(c)
  /\ IF waiters = <<>>
       THEN Goto(c, "run") /\ UNCHANGED <<stack, waiters>>
       ELSE /\ pc' = [pc EXCEPT ![c] = "run", ![Head(waiters)] = "back"]
            /\ stack' = <<Head(waiters)>> \o stack
            /\ waiters' = Tail(waiters)
  /\ UNCHANGED <<next, phase>>

\* m_waiter.resume_next_loop(): the first waiter moves to local_async.
ResumeNextLoop ==
  IF waiters = <<>>
    THEN UNCHANGED <<waiters, next>>
    ELSE waiters' = Tail(waiters) /\ next' = Append(next, Head(waiters))

\* local_resume() at the end of a callback: one turn of its loops.
LocalResume ==
  /\ phase = "callback" /\ stack = <<>> /\ next # <<>>
  /\ Goto(Head(next), "back")
  /\ stack' = <<Head(next)>> /\ next' = Tail(next)
  /\ UNCHANGED <<waiters, phase>>

\* Mutant: the callback returns without draining local_async.
EndCallbackEarly ==
  /\ phase = "callback" /\ stack = <<>>
  /\ phase' = "loop"
  /\ UNCHANGED <<pc, stack, waiters, next>>

\* local_resume() found nothing more: the callback returns to ev_run.
EndCallback ==
  /\ phase = "callback" /\ stack = <<>> /\ next = <<>>
  /\ phase' = "loop"
  /\ UNCHANGED <<pc, stack, waiters, next>>

LoopStep == EnterLoop \/ LocalResume \/ EndCallback
=============================================================================
