------------------------------ MODULE CoEvent ------------------------------
(* The status word of a co_event (src/src/coev/co_event.cpp): one atomic    *)
(* integer on which the coroutine that awaits the event and the party that  *)
(* resumes it meet, on one thread or on two.                                 *)

\* enum of details::CORO_* values a co_event goes through (co_event.h).
EventStatus == {"INIT", "SUSPEND", "RESUMED", "FINISHED"}

\* await_ready: nonzero status, the resumer was first, do not suspend.
AwaitReady(s) == s # "INIT"

\* await_suspend: CAS INIT -> SUSPEND, else CAS RESUMED -> FINISHED, else assert(false).
AwaitSuspend(s) ==
  CASE s = "INIT"    -> "SUSPEND"
    [] s = "RESUMED" -> "FINISHED"
    [] OTHER         -> "ASSERT"

\* Mutant: resume stores another value of the enum.
ResumeRunning(s) == IF s = "FINISHED" THEN "ASSERT" ELSE "RUNNING"

\* resume: CAS INIT -> RESUMED, else CAS SUSPEND -> FINISHED, else assert(false).
Resume(s) ==
  CASE s = "INIT"    -> "RESUMED"
    [] s = "SUSPEND" -> "FINISHED"
    [] OTHER         -> "ASSERT"

\* __resume is called on the spot: the coroutine continues inside the resumer.
RunsInResumer(s) == s = "SUSPEND"
=============================================================================
