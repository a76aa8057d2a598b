------------------------------- MODULE CoTask -------------------------------
(* coev::co_task with wait_for_any and wait_for_all (src/src/coev/co_task.cpp,   *)
(* wait_for.h, promise.cpp). A parent coroutine loads tasks, which run inside     *)
(* load() until they first suspend, and waits for one or for all of them. The     *)
(* end of a task, ~promise(), unloads it and runs the waiting parent on the spot. *)
EXTENDS LocalAsync, Queues, Functions

CONSTANTS parent,    \* the coroutine that owns the co_task
          MaxLoads   \* bound on load()

Tasks == Co \ {parent}

ASSUME CoTaskAssumption == parent \in Co /\ MaxLoads \in Nat

VARIABLES m_promises, \* promise -> id, of the tasks loaded and not unloaded
          m_ids,      \* ids in use
          m_id,       \* the last id given
          m_waiter,   \* the parent is in the co_async of the co_task
          mode,       \* what the parent does: "load", "any", "all", "returned"
          completed,  \* tasks that ran to their end since they were loaded
          winner,     \* id of the task whose end woke the parent
          result      \* what wait() returned

taskVars == <<m_promises, m_ids, m_id, m_waiter, mode, completed, winner, result>>
groupVars == <<localVars, taskVars>>

Ids == 0..MaxLoads

TaskTypeOK ==
  /\ LocalTypeOK
  /\ DOMAIN m_promises \subseteq Tasks /\ \A t \in DOMAIN m_promises : m_promises[t] \in Ids
  /\ m_ids \subseteq Ids /\ m_id \in Ids
  /\ m_waiter \in BOOLEAN
  /\ mode \in {"load", "any", "all", "returned"}
  /\ completed \subseteq Tasks
  /\ winner \in Ids /\ result \in Ids

TaskInit ==
  /\ LocalInit
  /\ m_promises = <<>> /\ m_ids = {} /\ m_id = 0 /\ m_waiter = FALSE
  /\ mode = "load" /\ completed = {} /\ winner = 0 /\ result = 0

Loaded == DOMAIN m_promises

\* __increase(): the next id that is not in use.
Increase == m_id' = m_id + 1

\* co_task::load: enter the promise under a fresh id, then run it inside load().
Load(t) ==
  /\ Runs(parent) /\ pc[parent] = "run" /\ mode = "load"
  /\ m_id < MaxLoads /\ t \notin Loaded /\ pc[t] \in {"new", "done", "gone"}
  /\ Increase
  /\ m_ids' = m_ids \cup {m_id'}
  /\ m_promises' = [u \in Loaded \cup {t} |-> IF u = t THEN m_id' ELSE m_promises[u]]
  /\ completed' = completed \ {t}
  /\ Goto(t, "run") /\ stack' = <<t>> \o stack
  /\ UNCHANGED <<waiters, next, phase, m_waiter, mode, winner, result>>

\* __destroy() of the tasks in T: their frames go, and with each frame the
\* co_event or the watcher it waited on.
DestroyTasks(T) ==
  /\ pc' = [c \in Co |-> IF c \in T THEN "gone" ELSE pc[c]]
  /\ waiters' = Only(waiters, Co \ T)
  /\ m_promises' = Restrict(m_promises, Loaded \ T)

\* co_task::destroy(id): the id itself stays in m_ids.
DestroyById(t) ==
  /\ Runs(parent) /\ pc[parent] = "run" /\ mode = "load" /\ t \in Loaded
  /\ DestroyTasks({t})
  /\ UNCHANGED <<stack, next, phase, m_ids, m_id, m_waiter, mode, completed, winner, result>>

\* Mutant: wait() suspends whether or not there is a task.
WaitBlind(how) ==
  /\ mode' = how /\ m_waiter' = TRUE
  /\ Goto(parent, "parked") /\ stack' = Tail(stack)
  /\ UNCHANGED <<waiters, next, phase, m_promises, m_ids, m_id, completed, winner, result>>

\* co_task::wait(): suspend if there is a task, else return 0.
Wait(how) ==
  /\ IF Loaded # {}
       THEN /\ mode' = how /\ m_waiter' = TRUE
            /\ Goto(parent, "parked") /\ stack' = Tail(stack)
            /\ UNCHANGED result
       ELSE /\ mode' = "returned" /\ result' = 0
            /\ Goto(parent, "done") /\ stack' = Tail(stack)
            /\ UNCHANGED m_waiter
  /\ UNCHANGED <<waiters, next, phase, m_promises, m_ids, m_id, completed, winner>>

\* wait_for_any() or wait_for_all() once every task is loaded.
WaitFor(how) ==
  /\ Runs(parent) /\ pc[parent] = "run" /\ mode = "load"
  /\ Wait(how)

\* Mutant: wait_for_any() leaves the other tasks alone.
ReturnAnyOnly ==
  /\ Runs(parent) /\ pc[parent] = "back" /\ mode = "any"
  /\ mode' = "returned"
  /\ Goto(parent, "done") /\ stack' = Tail(stack)
  /\ UNCHANGED <<waiters, next, phase, m_promises, m_ids, m_id, m_waiter, completed, winner, result>>

\* wait_for_any() woken: destroy() the other tasks and return.
ReturnAny ==
  /\ Runs(parent) /\ pc[parent] = "back" /\ mode = "any"
  /\ pc' = [c \in Co |-> IF c = parent THEN "done" ELSE IF c \in Loaded THEN "gone" ELSE pc[c]]
  /\ waiters' = Only(waiters, Co \ Loaded)
  /\ m_promises' = <<>>
  /\ mode' = "returned" /\ stack' = Tail(stack)
  /\ UNCHANGED <<next, phase, m_ids, m_id, m_waiter, completed, winner, result>>

\* wait_for_all() woken: wait again while there is a task, else return.
ReturnAll ==
  /\ Runs(parent) /\ pc[parent] = "back" /\ mode = "all"
  /\ Wait("all")

\* A task returns: ~promise() unloads it and m_waiter.resume(id) runs the parent
\* in its place. co_event::resume() has the default x = 0 and overwrites the id
\* that co_async::resume() stored.
End(t) ==
  /\ Runs(t) /\ pc[t] = "run" /\ t \in Loaded
  /\ m_promises' = Restrict(m_promises, Loaded \ {t})
  /\ m_ids' = m_ids \ {m_promises[t]}
  /\ completed' = completed \cup {t}
  /\ IF m_waiter
       THEN /\ m_waiter' = FALSE /\ winner' = m_promises[t] /\ result' = 0
            /\ pc' = [pc EXCEPT ![t] = "done", ![parent] = "back"]
            /\ stack' = <<parent>> \o Tail(stack)
       ELSE /\ Goto(t, "done") /\ stack' = Tail(stack)
            /\ UNCHANGED <<m_waiter, winner, result>>
  /\ UNCHANGED <<waiters, next, phase, m_id, mode>>

\* A task that waits on the co_async goes on.
Back(t) ==
  /\ Runs(t) /\ pc[t] = "back" /\ Goto(t, "run")
  /\ UNCHANGED <<stack, waiters, next, phase>>

ParentStep ==
  \/ (Start(parent) \/ IoReady(parent)) /\ UNCHANGED taskVars
  \/ mode = "load" /\ IoWait(parent) /\ UNCHANGED taskVars
  \/ \E t \in Tasks : Load(t) \/ DestroyById(t)
  \/ \E how \in {"any", "all"} : WaitFor(how)
  \/ ReturnAny \/ ReturnAll

TaskStep(t) ==
  \/ (IoReady(t) \/ IoWait(t) \/ Suspend(t) \/ Back(t)) /\ UNCHANGED taskVars
  \/ pc[t] = "run" /\ waiters # <<>> /\ ResumeInline(t) /\ UNCHANGED taskVars
  \/ End(t)

\* Another object's callback resumes a parked task.
External ==
  /\ phase = "loop" /\ waiters # <<>>
  /\ Goto(Head(waiters), "back") /\ stack' = <<Head(waiters)>>
  /\ waiters' = Tail(waiters) /\ phase' = "callback"
  /\ UNCHANGED <<next, taskVars>>

TaskNext ==
  \/ ParentStep
  \/ \E t \in Tasks : TaskStep(t)
  \/ External
  \/ LoopStep /\ UNCHANGED taskVars

TaskSpec == TaskInit /\ [][TaskNext]_groupVars

(***************************************************************************)
(* Properties                                                                *)
(***************************************************************************)

(* Structured concurrency: when wait_for_any or wait_for_all returns, no task   *)
(* of the group is running, waits for I/O or sits in another object's queue.     *)
NothingSurvives ==
  mode = "returned" =>
    /\ \A t \in Tasks : pc[t] \in {"new", "done", "gone"}
    /\ waiters = <<>>

(* A parent in wait() always has a task left whose end will wake it.            *)
WaiterHasTask == m_waiter => Loaded # {}

(* Two tasks of the group never share an id, nor is the next id one in use:     *)
(* destroy(id) hits the task load() returned id for.                             *)
IdsIdentify ==
  /\ \A t, u \in Loaded : m_promises[t] = m_promises[u] => t = u
  /\ \A t \in Loaded : m_promises[t] \in m_ids
  /\ \A i \in m_ids : i <= m_id

(* The group as a whole, the types included: its ids identify its tasks, whoever   *)
(* waits has a task to wait for, and no task outlives the wait.                      *)
GroupSafe ==
  /\ TaskTypeOK
  /\ IdsIdentify
  /\ WaiterHasTask
  /\ NothingSurvives

(* destroy() never destroys the frame of a task that is on the stack.           *)
DestroysOnlySuspended == \A t \in Tasks : pc[t] = "gone" => \A i \in DOMAIN stack : stack[i] # t

(* wait_for_any returns as soon as any one task completes.                       *)
ReturnsWithFirst == mode = "any" /\ m_waiter => completed = {}

(* wait() returns the id of the task that completed.                              *)
ReturnsItsId == winner # 0 => result = winner

TaskFairness ==
  /\ WF_groupVars(ParentStep /\ Runs(parent) /\ pc[parent] = "back")
  /\ WF_groupVars(LoopStep /\ UNCHANGED taskVars)
  /\ WF_groupVars(External)
  /\ \A t \in Tasks :
       /\ WF_groupVars(IoReady(t) /\ UNCHANGED taskVars)
       /\ WF_groupVars(Back(t) /\ UNCHANGED taskVars)
       /\ SF_groupVars(End(t))

TaskFairSpec == TaskSpec /\ TaskFairness

(* A wait() whose tasks keep going returns.                                       *)
WaitReturns == m_waiter ~> mode = "returned"
=============================================================================
