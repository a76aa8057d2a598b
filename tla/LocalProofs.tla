----------------------------- MODULE LocalProofs -----------------------------
(* Theorems about the objects of one thread: co_mutex (LocalMutex), co_channel     *)
(* (LocalChannel), client_pool (ClientPool) and co_task (CoTask), for any number of   *)
(* coroutines. All share the run-to-suspension machinery of LocalAsync: what it keeps *)
(* is proved once, LocalInv, and each object adds what its own operations need.       *)
EXTENDS LocalMutex, LocalChannel, ClientPool, CoTask, QueueLemmas

(***************************************************************************)
(* The machinery: who is on the stack, who waits where                       *)
(***************************************************************************)

\* The nest of running coroutines: each of them once, only the innermost just woken.
StackOK ==
  /\ \A i \in 1..Len(stack) : pc[stack[i]] \in {"run", "back"}
  /\ Distinct(stack)
  /\ \A c \in Co : pc[c] = "back" => stack # <<>> /\ Head(stack) = c
  /\ phase = "loop" => stack = <<>>

\* Whoever is queued is suspended, in one queue and once.
QueuesOK ==
  /\ \A i \in 1..Len(waiters) : pc[waiters[i]] = "parked"
  /\ \A i \in 1..Len(next) : pc[next[i]] = "parked"
  /\ Distinct(waiters) /\ Distinct(next)
  /\ \A i \in 1..Len(waiters), j \in 1..Len(next) : waiters[i] # next[j]

LocalInv == LocalTypeOK /\ StackOK /\ QueuesOK

(* What pushing on a sequence does: a waiter that runs inside its resumer.        *)
LEMMA Push ==
  ASSUME NEW S, NEW x \in S, NEW s \in Seq(S)
  PROVE  /\ <<x>> \o s \in Seq(S) /\ Len(<<x>> \o s) = Len(s) + 1
         /\ (<<x>> \o s)[1] = x /\ Head(<<x>> \o s) = x
         /\ \A i \in 2..Len(s) + 1 : (<<x>> \o s)[i] = s[i - 1]
         /\ <<x>> \o s # <<>>
  OBVIOUS

(* What appending does: a coroutine joins a queue.                                 *)
LEMMA Join ==
  ASSUME NEW S, NEW x \in S, NEW s \in Seq(S)
  PROVE  /\ Append(s, x) \in Seq(S) /\ Len(Append(s, x)) = Len(s) + 1
         /\ Append(s, x)[Len(s) + 1] = x
         /\ \A i \in 1..Len(s) : Append(s, x)[i] = s[i]
         /\ Append(s, x) # <<>>
  OBVIOUS

(* What taking the first off does.                                                 *)
LEMMA Pop ==
  ASSUME NEW S, NEW s \in Seq(S), s # <<>>
  PROVE  /\ Tail(s) \in Seq(S) /\ Len(s) \in Nat \ {0} /\ Len(Tail(s)) = Len(s) - 1
         /\ Head(s) = s[1] /\ s[1] \in S
         /\ \A i \in 1..Len(s) - 1 : Tail(s)[i] = s[i + 1]
         /\ \A i \in 1..Len(s) : s[i] \in S
  OBVIOUS

(* The machinery before the first coroutine starts.                                *)
LEMMA LocalInitially == LocalInit => LocalInv
  BY DEF LocalInit, LocalInv, LocalTypeOK, StackOK, QueuesOK, Distinct, LocalPc

(* A running coroutine awaits a timer or a socket, or returns.                      *)
LEMMA Leaves ==
  ASSUME LocalInv, NEW c \in Co, Runs(c), NEW w \in {"io", "done"},
         pc' = [pc EXCEPT ![c] = w], stack' = Tail(stack),
         UNCHANGED <<waiters, next, phase>>
  PROVE  LocalInv'
<1>1. /\ stack \in Seq(Co) /\ stack # <<>> /\ Head(stack) = c /\ pc \in [Co -> LocalPc]
  BY DEF LocalInv, LocalTypeOK, Runs
<1>2. /\ Tail(stack) \in Seq(Co) /\ Len(stack) \in Nat \ {0} /\ Len(Tail(stack)) = Len(stack) - 1
      /\ stack[1] = c
      /\ \A i \in 1..Len(stack) - 1 : Tail(stack)[i] = stack[i + 1]
      /\ \A i \in 1..Len(stack) : stack[i] \in Co
  BY <1>1, Pop
<1>3. LocalTypeOK'
  BY <1>1, <1>2 DEF LocalInv, LocalTypeOK, LocalPc
<1>4. \A d \in Co : d # c => pc'[d] = pc[d]
  BY <1>1
<1>5. \A i \in 2..Len(stack) : stack[i] # c
  BY <1>2 DEF LocalInv, StackOK, Distinct
<1>6. StackOK'
  <2>1. \A i \in 1..Len(stack') : pc'[stack'[i]] \in {"run", "back"}
    BY <1>2, <1>4, <1>5 DEF LocalInv, StackOK
  <2>2. Distinct(stack')
    BY <1>2 DEF LocalInv, StackOK, Distinct
  <2>3. \A d \in Co : pc'[d] # "back"
    BY <1>1, <1>4 DEF LocalInv, StackOK
  <2>4. phase' = "loop" => stack' = <<>>
    BY <1>1 DEF LocalInv, StackOK
  <2> QED BY <2>1, <2>2, <2>3, <2>4 DEF StackOK
<1>7. pc[c] # "parked"
  BY <1>2 DEF LocalInv, StackOK
<1>8. QueuesOK'
  <2>1. \A d \in Co : pc[d] = "parked" => pc'[d] = "parked"
    BY <1>4, <1>7
  <2> QED BY <2>1 DEF LocalInv, LocalTypeOK, QueuesOK
<1> QED BY <1>3, <1>6, <1>8 DEF LocalInv

(* The running coroutine goes on.                                                  *)
LEMMA GoesOn ==
  ASSUME LocalInv, NEW c \in Co, Runs(c), pc' = [pc EXCEPT ![c] = "run"],
         UNCHANGED <<stack, waiters, next, phase>>
  PROVE  LocalInv'
<1>1. /\ stack \in Seq(Co) /\ stack # <<>> /\ Head(stack) = c /\ pc \in [Co -> LocalPc]
  BY DEF LocalInv, LocalTypeOK, Runs
<1>2. /\ Len(stack) \in Nat \ {0} /\ stack[1] = c /\ \A i \in 1..Len(stack) : stack[i] \in Co
  BY <1>1, Pop
<1>3. LocalTypeOK'
  BY <1>1 DEF LocalInv, LocalTypeOK, LocalPc
<1>4. /\ \A d \in Co : d # c => pc'[d] = pc[d]
      /\ pc'[c] = "run"
  BY <1>1
<1>5. StackOK'
  <2>1. \A i \in 1..Len(stack') : pc'[stack'[i]] \in {"run", "back"}
    BY <1>2, <1>4 DEF LocalInv, StackOK
  <2>2. \A d \in Co : pc'[d] # "back"
    BY <1>1, <1>4 DEF LocalInv, StackOK
  <2> QED BY <2>1, <2>2 DEF LocalInv, StackOK
<1>6. \A d \in Co : pc[d] = "parked" => pc'[d] = "parked"
  BY <1>2, <1>4 DEF LocalInv, StackOK
<1>7. QueuesOK'
  BY <1>6 DEF LocalInv, LocalTypeOK, QueuesOK
<1> QED BY <1>3, <1>5, <1>7 DEF LocalInv

(* A coroutine starts, or its timer or socket fires, with nobody on the stack.      *)
LEMMA Begins ==
  ASSUME LocalInv, NEW c \in Co, stack = <<>>, pc[c] # "parked", phase' # "loop",
         phase' \in {"start", "callback"},
         pc' = [pc EXCEPT ![c] = "run"], stack' = <<c>>, UNCHANGED <<waiters, next>>
  PROVE  LocalInv'
<1>1. LocalTypeOK'
  BY DEF LocalInv, LocalTypeOK, LocalPc
<1>2. \A d \in Co : d # c => pc'[d] = pc[d]
  BY DEF LocalInv, LocalTypeOK
<1>3. pc'[c] = "run"
  BY DEF LocalInv, LocalTypeOK
<1>4. StackOK'
  BY <1>2, <1>3 DEF LocalInv, StackOK, Distinct
<1>5. \A d \in Co : pc[d] = "parked" => pc'[d] = "parked"
  BY <1>2
<1>6. QueuesOK'
  BY <1>5 DEF LocalInv, LocalTypeOK, QueuesOK
<1> QED BY <1>1, <1>4, <1>6 DEF LocalInv

(* The running coroutine waits in the object's queue.                               *)
LEMMA Parks ==
  ASSUME LocalInv, NEW c \in Co, Runs(c), waiters' = Append(waiters, c),
         pc' = [pc EXCEPT ![c] = "parked"], stack' = Tail(stack), UNCHANGED <<next, phase>>
  PROVE  LocalInv'
<1>1. /\ stack \in Seq(Co) /\ stack # <<>> /\ Head(stack) = c /\ pc \in [Co -> LocalPc]
      /\ waiters \in Seq(Co) /\ next \in Seq(Co)
  BY DEF LocalInv, LocalTypeOK, Runs
<1>2. /\ Tail(stack) \in Seq(Co) /\ Len(stack) \in Nat \ {0} /\ Len(Tail(stack)) = Len(stack) - 1
      /\ stack[1] = c
      /\ \A i \in 1..Len(stack) - 1 : Tail(stack)[i] = stack[i + 1]
      /\ \A i \in 1..Len(stack) : stack[i] \in Co
  BY <1>1, Pop
<1>3. /\ waiters' \in Seq(Co) /\ Len(waiters') = Len(waiters) + 1
      /\ waiters'[Len(waiters) + 1] = c
      /\ \A i \in 1..Len(waiters) : waiters'[i] = waiters[i]
  BY <1>1, Join
<1>4. LocalTypeOK'
  BY <1>1, <1>2, <1>3 DEF LocalInv, LocalTypeOK, LocalPc
<1>5. /\ \A d \in Co : d # c => pc'[d] = pc[d]
      /\ pc'[c] = "parked"
  BY <1>1
<1>6. \A i \in 2..Len(stack) : stack[i] # c
  BY <1>2 DEF LocalInv, StackOK, Distinct
<1>7. StackOK'
  <2>1. \A i \in 1..Len(stack') : pc'[stack'[i]] \in {"run", "back"}
    BY <1>2, <1>5, <1>6 DEF LocalInv, StackOK
  <2>2. Distinct(stack')
    BY <1>2 DEF LocalInv, StackOK, Distinct
  <2>3. \A d \in Co : pc'[d] # "back"
    BY <1>1, <1>5 DEF LocalInv, StackOK
  <2>4. phase' = "loop" => stack' = <<>>
    BY <1>1 DEF LocalInv, StackOK
  <2> QED BY <2>1, <2>2, <2>3, <2>4 DEF StackOK
<1>8. pc[c] # "parked"
  BY <1>2 DEF LocalInv, StackOK
<1>9. /\ \A i \in 1..Len(waiters) : waiters[i] \in Co /\ waiters[i] # c
      /\ \A i \in 1..Len(next) : next[i] \in Co /\ next[i] # c
      /\ Len(waiters) \in Nat /\ Len(next) \in Nat
  BY <1>1, <1>8 DEF LocalInv, QueuesOK
<1>10. QueuesOK'
  <2>1. \A i \in 1..Len(waiters') : pc'[waiters'[i]] = "parked"
    <3> TAKE i \in 1..Len(waiters')
    <3>1. CASE i = Len(waiters) + 1
      BY <3>1, <1>3, <1>5
    <3>2. CASE i \in 1..Len(waiters)
      BY <3>2, <1>3, <1>5, <1>9 DEF LocalInv, QueuesOK
    <3> QED BY <3>1, <3>2, <1>3, <1>9
  <2>2. \A i \in 1..Len(next') : pc'[next'[i]] = "parked"
    BY <1>5, <1>9 DEF LocalInv, QueuesOK
  <2>3. Distinct(waiters')
    BY <1>3, <1>9 DEF LocalInv, QueuesOK, Distinct
  <2>4. Distinct(next')
    BY DEF LocalInv, QueuesOK, Distinct
  <2>5. \A i \in 1..Len(waiters'), j \in 1..Len(next') : waiters'[i] # next'[j]
    BY <1>3, <1>9 DEF LocalInv, QueuesOK
  <2> QED BY <2>1, <2>2, <2>3, <2>4, <2>5 DEF QueuesOK
<1> QED BY <1>4, <1>7, <1>10 DEF LocalInv

(* resume(): the first waiter runs inside the resumer, which is there once more      *)
(* when the waiter suspends.                                                            *)
LEMMA Wakes ==
  ASSUME LocalInv, NEW c \in Co, ResumeInline(c)
  PROVE  LocalInv'
<1>1. /\ stack \in Seq(Co) /\ stack # <<>> /\ Head(stack) = c /\ pc \in [Co -> LocalPc]
      /\ waiters \in Seq(Co) /\ Runs(c)
  BY DEF LocalInv, LocalTypeOK, ResumeInline, Runs
<1>2. CASE waiters = <<>>
  BY <1>1, <1>2, GoesOn DEF ResumeInline, Goto
<1>3. CASE waiters # <<>>
  <2> DEFINE h == Head(waiters)
  <2>1. /\ pc' = [pc EXCEPT ![c] = "run", ![h] = "back"]
        /\ stack' = <<h>> \o stack /\ waiters' = Tail(waiters)
        /\ UNCHANGED <<next, phase>>
    BY <1>3 DEF ResumeInline
  <2>2. /\ Tail(waiters) \in Seq(Co) /\ Len(waiters) \in Nat \ {0}
        /\ Len(Tail(waiters)) = Len(waiters) - 1
        /\ h = waiters[1] /\ h \in Co
        /\ \A i \in 1..Len(waiters) - 1 : Tail(waiters)[i] = waiters[i + 1]
        /\ \A i \in 1..Len(waiters) : waiters[i] \in Co
    BY <1>1, <1>3, Pop
  <2>3. /\ stack' \in Seq(Co) /\ Len(stack') = Len(stack) + 1 /\ stack'[1] = h
        /\ Head(stack') = h /\ \A i \in 2..Len(stack) + 1 : stack'[i] = stack[i - 1]
        /\ stack' # <<>>
    BY <1>1, <2>1, <2>2, Push
  <2>4. /\ Len(stack) \in Nat \ {0} /\ stack[1] = c /\ \A i \in 1..Len(stack) : stack[i] \in Co
    BY <1>1, Pop
  <2>5. pc[h] = "parked" /\ pc[c] # "parked"
    BY <2>2, <2>4 DEF LocalInv, QueuesOK, StackOK
  <2> HIDE DEF h
  <2>6. /\ \A d \in Co : d # c /\ d # h => pc'[d] = pc[d]
        /\ pc'[c] = "run" /\ pc'[h] = "back"
    BY <1>1, <2>1, <2>2, <2>5
  <2>7. LocalTypeOK'
    BY <1>1, <2>1, <2>2, <2>3 DEF LocalInv, LocalTypeOK, LocalPc
  <2>8. \A i \in 1..Len(stack) : stack[i] # h
    BY <2>5 DEF LocalInv, StackOK
  <2>9. StackOK'
    <3>1. \A i \in 1..Len(stack') : pc'[stack'[i]] \in {"run", "back"}
      <4> TAKE i \in 1..Len(stack')
      <4>1. CASE i = 1
        BY <4>1, <2>3, <2>6
      <4>2. CASE i \in 2..Len(stack) + 1
        <5>1. i - 1 \in 1..Len(stack)
          BY <4>2, <2>4
        <5>2. stack[i - 1] \in Co /\ stack[i - 1] # h /\ pc[stack[i - 1]] \in {"run", "back"}
          BY <5>1, <2>4, <2>8 DEF LocalInv, StackOK
        <5> QED BY <4>2, <5>2, <2>3, <2>6
      <4> QED BY <4>1, <4>2, <2>3, <2>4
    <3>2. Distinct(stack')
      <4> SUFFICES ASSUME NEW i \in 1..Len(stack'), NEW j \in 1..Len(stack'), stack'[i] = stack'[j]
                   PROVE  i = j
        BY DEF Distinct
      <4>1. CASE i = 1 /\ j \in 2..Len(stack) + 1
        BY <4>1, <2>3, <2>4, <2>8
      <4>2. CASE j = 1 /\ i \in 2..Len(stack) + 1
        BY <4>2, <2>3, <2>4, <2>8
      <4>3. CASE i \in 2..Len(stack) + 1 /\ j \in 2..Len(stack) + 1
        <5>1. i - 1 \in 1..Len(stack) /\ j - 1 \in 1..Len(stack) /\ stack[i - 1] = stack[j - 1]
          BY <4>3, <2>3, <2>4
        <5>2. i - 1 = j - 1
          BY <5>1 DEF LocalInv, StackOK, Distinct
        <5> QED BY <5>2
      <4> QED BY <4>1, <4>2, <4>3, <2>3, <2>4
    <3>3. \A d \in Co : pc'[d] = "back" => d = h
      BY <1>1, <2>6 DEF LocalInv, StackOK
    <3>4. phase' # "loop"
      BY <1>1, <2>1 DEF LocalInv, StackOK
    <3> QED BY <3>1, <3>2, <3>3, <3>4, <2>3 DEF StackOK
  <2>10. \A d \in Co : pc[d] = "parked" /\ d # h => pc'[d] = "parked"
    BY <2>5, <2>6
  <2>11. \A i \in 2..Len(waiters) : waiters[i] # h
    BY <2>2 DEF LocalInv, QueuesOK, Distinct
  <2>12. /\ \A i \in 1..Len(next) : next[i] \in Co /\ next[i] # h
         /\ Len(next) \in Nat
    BY <2>2 DEF LocalInv, LocalTypeOK, QueuesOK
  <2>13. QueuesOK'
    <3>1. \A i \in 1..Len(waiters') : pc'[waiters'[i]] = "parked"
      <4> TAKE i \in 1..Len(waiters')
      <4>1. waiters'[i] = waiters[i + 1] /\ i + 1 \in 2..Len(waiters) /\ i + 1 \in 1..Len(waiters)
        BY <2>1, <2>2
      <4>2. pc[waiters[i + 1]] = "parked"
        BY <4>1 DEF LocalInv, QueuesOK
      <4> QED BY <4>1, <4>2, <2>2, <2>10, <2>11
    <3>2. \A i \in 1..Len(next') : pc'[next'[i]] = "parked"
      BY <2>1, <2>10, <2>12 DEF LocalInv, QueuesOK
    <3>3. Distinct(waiters') /\ Distinct(next')
      BY <2>1, <2>2 DEF LocalInv, QueuesOK, Distinct
    <3>4. \A i \in 1..Len(waiters'), j \in 1..Len(next') : waiters'[i] # next'[j]
      BY <2>1, <2>2, <2>12 DEF LocalInv, QueuesOK
    <3> QED BY <3>1, <3>2, <3>3, <3>4 DEF QueuesOK
  <2> QED BY <2>7, <2>9, <2>13 DEF LocalInv
<1> QED BY <1>2, <1>3

(* resume_next_loop(): the first waiter moves on to local_async.                    *)
LEMMA Moves ==
  ASSUME LocalInv, ResumeNextLoop, UNCHANGED <<pc, stack, phase>>
  PROVE  LocalInv'
<1>1. CASE waiters = <<>>
  BY <1>1 DEF ResumeNextLoop, LocalInv, LocalTypeOK, StackOK, QueuesOK, Distinct
<1>2. CASE waiters # <<>>
  <2> DEFINE h == Head(waiters)
  <2>1. waiters' = Tail(waiters) /\ next' = Append(next, h)
    BY <1>2 DEF ResumeNextLoop
  <2>2. /\ Tail(waiters) \in Seq(Co) /\ Len(waiters) \in Nat \ {0}
        /\ Len(Tail(waiters)) = Len(waiters) - 1
        /\ h = waiters[1] /\ h \in Co
        /\ \A i \in 1..Len(waiters) - 1 : Tail(waiters)[i] = waiters[i + 1]
        /\ \A i \in 1..Len(waiters) : waiters[i] \in Co
    BY <1>2, Pop DEF LocalInv, LocalTypeOK
  <2>3. pc[h] = "parked"
    BY <2>2 DEF LocalInv, QueuesOK
  <2> HIDE DEF h
  <2>4. /\ next' \in Seq(Co) /\ Len(next') = Len(next) + 1 /\ next'[Len(next) + 1] = h
        /\ \A i \in 1..Len(next) : next'[i] = next[i]
        /\ Len(next) \in Nat
    BY <2>1, <2>2, Join DEF LocalInv, LocalTypeOK
  <2>5. LocalTypeOK'
    BY <2>1, <2>2, <2>4 DEF LocalInv, LocalTypeOK
  <2>6. StackOK'
    BY DEF LocalInv, StackOK, Distinct
  <2>7. \A i \in 2..Len(waiters) : waiters[i] # h
    BY <2>2 DEF LocalInv, QueuesOK, Distinct
  <2>8. \A i \in 1..Len(next) : next[i] # h
    BY <2>2 DEF LocalInv, QueuesOK
  <2>9. QueuesOK'
    <3>1. \A i \in 1..Len(waiters') : pc'[waiters'[i]] = "parked"
      BY <2>1, <2>2 DEF LocalInv, QueuesOK
    <3>2. \A i \in 1..Len(next') : pc'[next'[i]] = "parked"
      BY <2>3, <2>4 DEF LocalInv, QueuesOK
    <3>3. Distinct(waiters')
      BY <2>1, <2>2 DEF LocalInv, QueuesOK, Distinct
    <3>4. Distinct(next')
      BY <2>4, <2>8 DEF LocalInv, QueuesOK, Distinct
    <3>5. \A i \in 1..Len(waiters'), j \in 1..Len(next') : waiters'[i] # next'[j]
      <4> TAKE i \in 1..Len(waiters'), j \in 1..Len(next')
      <4>1. waiters'[i] = waiters[i + 1] /\ i + 1 \in 2..Len(waiters)
        BY <2>1, <2>2
      <4>2. CASE j = Len(next) + 1
        BY <4>1, <4>2, <2>4, <2>7
      <4>3. CASE j \in 1..Len(next)
        BY <4>1, <4>3, <2>4 DEF LocalInv, QueuesOK
      <4> QED BY <4>2, <4>3, <2>4
    <3> QED BY <3>1, <3>2, <3>3, <3>4, <3>5 DEF QueuesOK
  <2> QED BY <2>5, <2>6, <2>9 DEF LocalInv
<1> QED BY <1>1, <1>2

(* The event loop: it starts, drains local_async after a callback and polls again.  *)
LEMMA Loops ==
  ASSUME LocalInv, LoopStep
  PROVE  LocalInv'
<1>1. CASE EnterLoop \/ EndCallback
  BY SMTT(60), <1>1 DEF EnterLoop, EndCallback, LocalInv, LocalTypeOK, StackOK, QueuesOK, Distinct
<1>2. CASE LocalResume
  <2> DEFINE h == Head(next)
  <2>1. /\ stack = <<>> /\ phase = "callback" /\ next # <<>>
        /\ pc' = [pc EXCEPT ![h] = "back"] /\ stack' = <<h>> /\ next' = Tail(next)
        /\ UNCHANGED <<waiters, phase>>
    BY <1>2 DEF LocalResume, Goto
  <2>2. /\ Tail(next) \in Seq(Co) /\ Len(next) \in Nat \ {0}
        /\ Len(Tail(next)) = Len(next) - 1
        /\ h = next[1] /\ h \in Co
        /\ \A i \in 1..Len(next) - 1 : Tail(next)[i] = next[i + 1]
        /\ \A i \in 1..Len(next) : next[i] \in Co
    BY <2>1, Pop DEF LocalInv, LocalTypeOK
  <2> HIDE DEF h
  <2>3. /\ \A d \in Co : d # h => pc'[d] = pc[d]
        /\ pc'[h] = "back"
    BY <2>1, <2>2 DEF LocalInv, LocalTypeOK
  <2>4. LocalTypeOK'
    BY <2>1, <2>2 DEF LocalInv, LocalTypeOK, LocalPc
  <2>5. StackOK'
    BY <2>1, <2>2, <2>3 DEF LocalInv, StackOK, Distinct
  <2>6. /\ \A i \in 2..Len(next) : next[i] # h
        /\ \A i \in 1..Len(waiters) : waiters[i] # h /\ waiters[i] \in Co
    BY <2>2 DEF LocalInv, LocalTypeOK, QueuesOK, Distinct
  <2>7. QueuesOK'
    <3>1. \A i \in 1..Len(waiters') : pc'[waiters'[i]] = "parked"
      BY <2>1, <2>3, <2>6 DEF LocalInv, QueuesOK
    <3>2. \A i \in 1..Len(next') : pc'[next'[i]] = "parked"
      BY <2>1, <2>2, <2>3, <2>6 DEF LocalInv, QueuesOK
    <3>3. Distinct(waiters') /\ Distinct(next')
      BY <2>1, <2>2 DEF LocalInv, QueuesOK, Distinct
    <3>4. \A i \in 1..Len(waiters'), j \in 1..Len(next') : waiters'[i] # next'[j]
      BY <2>1, <2>2 DEF LocalInv, QueuesOK
    <3> QED BY <3>1, <3>2, <3>3, <3>4 DEF QueuesOK
  <2> QED BY <2>4, <2>5, <2>7 DEF LocalInv
<1> QED BY <1>1, <1>2 DEF LoopStep

(* While c runs and goes on or suspends outside the queue, nobody else is woken.         *)
LEMMA Alone ==
  ASSUME LocalInv, NEW c \in Co, Runs(c), NEW w \in {"run", "io"}, pc' = [pc EXCEPT ![c] = w]
  PROVE  /\ \A d \in Co : pc'[d] # "back"
         /\ \A i \in 1..Len(waiters) : waiters[i] \in Co /\ waiters[i] # c
         /\ pc[c] # "back" => \A d \in Co : pc[d] # "back"
<1>1. /\ stack \in Seq(Co) /\ stack # <<>> /\ Head(stack) = c /\ pc \in [Co -> LocalPc]
      /\ waiters \in Seq(Co)
  BY DEF LocalInv, LocalTypeOK, Runs
<1>2. stack[1] = c /\ 1 \in 1..Len(stack)
  BY <1>1, Pop
<1>3. pc[c] # "parked"
  BY <1>2 DEF LocalInv, StackOK
<1>4. \A d \in Co : pc'[d] # "back"
  BY <1>1 DEF LocalInv, StackOK
<1>5. \A i \in 1..Len(waiters) : waiters[i] \in Co /\ waiters[i] # c
  BY <1>1, <1>3 DEF LocalInv, QueuesOK
<1>6. pc[c] # "back" => \A d \in Co : pc[d] # "back"
  BY <1>1 DEF LocalInv, StackOK
<1> QED BY <1>4, <1>5, <1>6

(***************************************************************************)
(* co_mutex                                                                  *)
(***************************************************************************)

(* LockSafe is not inductive: it needs that only the innermost coroutine was woken    *)
(* (LocalInv), that nobody goes through local_async, and that whoever waits has a       *)
(* lock left to take.                                                                   *)
MutexInv ==
  /\ LocalInv /\ next = <<>>
  /\ LockSafe
  /\ m_flag = 1 => owner # {}
  /\ \A c \in Co : pc[c] \in {"parked", "back"} => taken[c] < MaxLocks

(* Where a coroutine stands changes, but not between waiting, woken and neither, and  *)
(* no other than c changes.                                                              *)
LEMMA MutexPasses ==
  ASSUME MutexInv, LocalInv', UNCHANGED <<m_flag, owner, taken, waiters, next>>,
         NEW c \in Co, pc[c] \notin {"parked", "back"}, NEW w \in LocalPc \ {"parked", "back"},
         pc' = [pc EXCEPT ![c] = w]
  PROVE  MutexInv'
<1>1. \A d \in Co : /\ pc'[d] \in {"parked", "back"} <=> pc[d] \in {"parked", "back"}
                    /\ pc'[d] = "back" <=> pc[d] = "back"
  BY DEF MutexInv, LocalInv, LocalTypeOK
<1> QED
  BY <1>1 DEF MutexInv, LocalInv, LockSafe, MutexTypeOK, LocalTypeOK, LocalPc,
         MutualExclusion, AssertsHold, FreeMeansNobodyWaits, on, off

(* Somebody takes a lock that is free, nobody being left to be woken.                   *)
LEMMA MutexTaken ==
  ASSUME MutexInv, LocalInv', NEW c \in Co, Take(c), m_flag = 0, taken[c] < MaxLocks,
         UNCHANGED <<waiters, next>>,
         \A d \in Co : pc'[d] # "back",
         \A d \in Co : pc'[d] = "parked" => pc[d] = "parked" /\ d # c
  PROVE  MutexInv'
<1>1. m_flag' = 1 /\ owner' = owner \cup {c} /\ taken' = [taken EXCEPT ![c] = @ + 1]
  BY DEF Take, on
<1>2. owner = {} /\ owner \subseteq Co /\ taken \in [Co -> 0..MaxLocks]
  BY DEF MutexInv, LockSafe, MutexTypeOK, MutualExclusion, on
<1>3. MutexTypeOK'
  BY <1>1, <1>2, LocalMutexAssumption DEF MutexTypeOK, LocalTypeOK, LocalInv, LocalPc, on, off
<1>4. MutualExclusion' /\ AssertsHold' /\ FreeMeansNobodyWaits'
  BY <1>1, <1>2 DEF MutualExclusion, AssertsHold, FreeMeansNobodyWaits, on, off
<1> QED
  <2>1. \A d \in Co : d # c => taken'[d] = taken[d]
    BY <1>1, <1>2
  <2>2. \A d \in Co : pc'[d] \in {"parked", "back"} => taken'[d] < MaxLocks
    BY <2>1 DEF MutexInv
  <2> QED BY <1>1, <1>3, <1>4, <2>2 DEF MutexInv, LockSafe

LEMMA MutexStepInv ==
  ASSUME MutexInv, NEW c \in Co, MutexStep(c)
  PROVE  MutexInv'
<1> USE DEF Runs, Goto
<1>1. LocalInv /\ pc \in [Co -> LocalPc] /\ waiters \in Seq(Co) /\ stack \in Seq(Co) /\ next = <<>>
      /\ MaxLocks \in Nat
  BY LocalMutexAssumption DEF MutexInv, LocalInv, LocalTypeOK
<1>2. CASE Start(c) /\ UNCHANGED muVars
  <2>1. pc[c] = "new" /\ pc' = [pc EXCEPT ![c] = "run"] /\ UNCHANGED <<waiters, next>>
        /\ UNCHANGED <<m_flag, owner, taken>>
    BY <1>2 DEF Start, muVars
  <2>2. LocalInv'
    BY <1>1, <1>2, Begins DEF Start
  <2> QED BY <2>1, <2>2, MutexPasses DEF LocalPc
<1>3. CASE IoReady(c) /\ UNCHANGED muVars
  <2>1. pc[c] = "io" /\ pc' = [pc EXCEPT ![c] = "run"] /\ UNCHANGED <<waiters, next>>
        /\ UNCHANGED <<m_flag, owner, taken>>
    BY <1>3 DEF IoReady, muVars
  <2>2. LocalInv'
    BY <1>1, <1>3, <2>1, Begins DEF IoReady, LocalInv, StackOK
  <2> QED BY <2>1, <2>2, MutexPasses DEF LocalPc
<1>4. CASE IoWait(c) /\ UNCHANGED muVars
  <2>1. pc[c] = "run" /\ pc' = [pc EXCEPT ![c] = "io"] /\ UNCHANGED <<waiters, next>>
        /\ UNCHANGED <<m_flag, owner, taken>>
    BY <1>4 DEF IoWait, muVars
  <2>2. LocalInv'
    BY <1>1, <1>4, Leaves DEF IoWait, Runs
  <2> QED BY <2>1, <2>2, MutexPasses DEF LocalPc
<1>5. CASE Finish(c) /\ UNCHANGED muVars
  <2>1. pc[c] = "run" /\ pc' = [pc EXCEPT ![c] = "done"] /\ UNCHANGED <<waiters, next>>
        /\ UNCHANGED <<m_flag, owner, taken>>
    BY <1>5 DEF Finish, muVars
  <2>2. LocalInv'
    BY <1>1, <1>5, Leaves DEF Finish, Runs
  <2> QED BY <2>1, <2>2, MutexPasses DEF LocalPc
<1>6. ASSUME MayLock(c), m_flag = 0, Take(c), UNCHANGED localVars
      PROVE  MutexInv'
  <2>1. Runs(c) /\ pc[c] = "run" /\ taken[c] < MaxLocks /\ UNCHANGED <<pc, stack, waiters, next, phase>>
    BY <1>6 DEF MayLock, Runs, localVars
  <2>2. LocalInv'
    BY <1>1, <2>1 DEF LocalInv, LocalTypeOK, StackOK, QueuesOK, Distinct
  <2>3. \A d \in Co : pc[d] # "back"
    BY <1>1, <2>1 DEF LocalInv, StackOK, Runs
  <2> QED BY <1>6, <2>1, <2>2, <2>3, MutexTaken
<1>7. CASE TryLock(c)
  BY <1>6, <1>7 DEF TryLock, off, localVars
<1>8. CASE Lock(c) /\ m_flag = 0
  BY <1>6, <1>8 DEF Lock, off, on, localVars
<1>9. CASE Lock(c) /\ m_flag # 0
  <2>1. /\ m_flag = 1 /\ Suspend(c) /\ UNCHANGED <<m_flag, owner, taken>>
        /\ Runs(c) /\ pc[c] = "run" /\ taken[c] < MaxLocks
    BY <1>9 DEF Lock, on, off, MayLock, muVars, Runs
  <2>2. LocalInv'
    BY <1>1, <2>1, Parks DEF Suspend
  <2>3. /\ next' = <<>> /\ pc'[c] = "parked"
        /\ \A d \in Co : d # c => pc'[d] = pc[d]
    BY <1>1, <2>1 DEF Suspend
  <2>4. LockSafe'
    BY <2>1, <2>2, <2>3 DEF MutexInv, LocalInv, LockSafe, MutexTypeOK, LocalTypeOK, LocalPc,
         MutualExclusion, AssertsHold, FreeMeansNobodyWaits, on, off
  <2> QED BY <2>1, <2>2, <2>3, <2>4 DEF MutexInv
<1>10. CASE LockWoken(c)
  <2>1. /\ Runs(c) /\ pc[c] = "back" /\ Take(c) /\ pc' = [pc EXCEPT ![c] = "run"]
        /\ UNCHANGED <<stack, waiters, next, phase>>
    BY <1>10 DEF LockWoken, Runs
  <2>2. LocalInv'
    BY <1>1, <2>1, GoesOn
  <2>3. /\ \A d \in Co : pc'[d] # "back"
        /\ \A d \in Co : pc'[d] = "parked" => pc[d] = "parked" /\ d # c
    BY <1>1, <2>1 DEF LocalInv, StackOK, Runs
  <2>4. m_flag = 0 /\ taken[c] < MaxLocks
    BY <2>1 DEF MutexInv, LockSafe, AssertsHold, off
  <2> QED BY <2>1, <2>2, <2>3, <2>4, MutexTaken
<1>11. CASE Unlock(c)
  <2>1. /\ Runs(c) /\ pc[c] = "run" /\ c \in owner /\ m_flag' = 0 /\ owner' = owner \ {c}
        /\ ResumeInline(c) /\ UNCHANGED taken
    BY <1>11 DEF Unlock, off, Runs
  <2>2. ResumeInline(c)
    BY <2>1 DEF ResumeInline, Runs, Goto
  <2>3. LocalInv'
    BY <1>1, <2>2, Wakes
  <2>4. owner' = {}
    BY <2>1 DEF MutexInv, LockSafe, MutualExclusion
  <2>5. \A d \in Co : pc[d] # "back"
    BY <1>1, <2>1 DEF LocalInv, StackOK, Runs
  <2>6. MutexTypeOK'
    BY <2>1, <2>3, <2>4 DEF MutexInv, LocalInv, LockSafe, MutexTypeOK, LocalTypeOK, LocalPc, on,
         off
  <2>7. MutualExclusion' /\ AssertsHold'
    BY <2>1, <2>4 DEF MutualExclusion, AssertsHold, on, off
  <2>8. CASE waiters = <<>>
    <3>1. waiters' = <<>> /\ pc' = [pc EXCEPT ![c] = "run"] /\ next' = next
      BY <2>2, <2>8 DEF ResumeInline, Goto
    <3>2. pc' = pc
      BY <1>1, <2>1, <3>1
    <3> QED BY <3>1, <3>2, <2>1, <2>3, <2>4, <2>6, <2>7
          DEF MutexInv, LockSafe, FreeMeansNobodyWaits
  <2>9. CASE waiters # <<>>
    <3> DEFINE h == Head(waiters)
    <3>1. h \in Co /\ pc[h] = "parked"
      BY <1>1, <2>9, Pop DEF LocalInv, QueuesOK
    <3>2. pc' = [pc EXCEPT ![c] = "run", ![h] = "back"] /\ next' = next
      BY <2>2, <2>9 DEF ResumeInline
    <3> HIDE DEF h
    <3>3. /\ pc'[h] = "back"
          /\ \A d \in Co : pc'[d] \in {"parked", "back"} => pc[d] \in {"parked", "back"}
      BY <1>1, <3>1, <3>2
    <3>4. FreeMeansNobodyWaits'
      BY <3>1, <3>3 DEF FreeMeansNobodyWaits
    <3>5. \A d \in Co : pc'[d] \in {"parked", "back"} => taken'[d] < MaxLocks
      BY <2>1, <3>3 DEF MutexInv
    <3>6. next' = <<>> /\ ~(m_flag' = 1)
      BY <1>1, <2>1, <3>2
    <3> QED BY <3>4, <3>5, <3>6, <2>3, <2>6, <2>7 DEF MutexInv, LockSafe
  <2> QED BY <2>8, <2>9
<1> QED
  BY <1>2, <1>3, <1>4, <1>5, <1>7, <1>8, <1>9, <1>10, <1>11 DEF MutexStep

(* coev::co_mutex: the lock is exclusive, the asserts of lock() and unlock() hold and  *)
(* nobody waits for a free lock, for any number of coroutines that await I/O while they *)
(* own it, try it and take it again.                                                     *)
THEOREM LockKept == MutexSpec => []LockSafe
<1>1. MutexInit => MutexInv
  <2> SUFFICES ASSUME MutexInit
               PROVE  MutexInv
    OBVIOUS
  <2>1. LocalInv
    BY LocalInitially DEF MutexInit, LocalInit
  <2>2. /\ m_flag = 0 /\ owner = {} /\ taken \in [Co -> 0..MaxLocks] /\ waiters = <<>> /\ next = <<>>
        /\ \A c \in Co : pc[c] = "new"
    BY LocalMutexAssumption DEF MutexInit, LocalInit, off
  <2> QED
    BY <2>1, <2>2 DEF MutexInv, LocalInv, LockSafe, MutexTypeOK, LocalTypeOK, LocalPc,
         MutualExclusion, AssertsHold, FreeMeansNobodyWaits, on, off
<1>2. MutexInv /\ [MutexNext]_allMutexVars => MutexInv'
  <2> SUFFICES ASSUME MutexInv, [MutexNext]_allMutexVars
               PROVE  MutexInv'
    OBVIOUS
  <2>1. ASSUME NEW c \in Co, MutexStep(c)
        PROVE  MutexInv'
    BY <2>1, MutexStepInv
  <2>2. CASE LoopStep /\ UNCHANGED muVars
    <3>1. LoopStep
      BY <2>2 DEF LoopStep, EnterLoop, LocalResume, EndCallback, Goto
    <3>2. LocalInv'
      BY <3>1, Loops DEF MutexInv
    <3>3. UNCHANGED <<m_flag, owner, taken, pc, waiters, next>>
      BY <2>2, <3>1 DEF LoopStep, EnterLoop, LocalResume, EndCallback, muVars, MutexInv
    <3> QED
      BY <3>2, <3>3 DEF MutexInv, LocalInv, LockSafe, MutexTypeOK, LocalTypeOK, LocalPc,
         MutualExclusion, AssertsHold, FreeMeansNobodyWaits
  <2>3. CASE UNCHANGED allMutexVars
    BY <2>3 DEF allMutexVars, localVars, muVars, MutexInv, LocalInv, StackOK, QueuesOK,
         Distinct, LockSafe, MutexTypeOK, LocalTypeOK, MutualExclusion,
         AssertsHold, FreeMeansNobodyWaits
  <2> QED BY <2>1, <2>2, <2>3 DEF MutexNext
<1>3. MutexInv => LockSafe
  BY DEF MutexInv
<1> QED BY <1>1, <1>2, <1>3, PTL DEF MutexSpec

(***************************************************************************)
(* co_channel                                                                *)
(***************************************************************************)

\* The channel has one getter, which may also try_get().
OneGetter == \A c, d \in Getters \cup TryGetters : c = d

\* Items are numbered: the queue holds the run that follows what was received.
ItemsInOrder ==
  /\ sent \in 0..MaxItems
  /\ m_data \in Seq(1..MaxItems) /\ received \in Seq(1..MaxItems)
  /\ Len(received) + Len(m_data) = sent
  /\ \A i \in 1..Len(received) : received[i] = i
  /\ \A i \in 1..Len(m_data) : m_data[i] = Len(received) + i

\* Only the getter waits; it sleeps next to no item, and once it was chosen to be woken
\* there is an item for it.
GetterOK ==
  /\ \A i \in 1..Len(waiters) : waiters[i] \in Getters
  /\ \A i \in 1..Len(next) : next[i] \in Getters
  /\ \A c \in Co : pc[c] = "back" => c \in Getters
  /\ Len(m_data) # 0 => waiters = <<>>
  /\ next # <<>> => Len(m_data) # 0
  /\ (\E c \in Co : pc[c] = "back") => Len(m_data) # 0

ChannelInv == LocalInv /\ ItemsInOrder /\ GetterOK /\ undefined = FALSE

(* __pop_front() on a queue that is not empty takes the next item.                      *)
LEMMA PopsInOrder ==
  ASSUME OneGetter, ItemsInOrder, undefined = FALSE, Len(m_data) # 0, PopFront, UNCHANGED sent
  PROVE  ItemsInOrder' /\ undefined' = FALSE
<1>1. /\ m_data \in Seq(1..MaxItems) /\ received \in Seq(1..MaxItems) /\ Len(m_data) \in Nat /\ Len(received) \in Nat
  BY DEF ItemsInOrder
<1>2. m_data # <<>>
  BY <1>1
<1>3. /\ received' = Append(received, Head(m_data)) /\ m_data' = Tail(m_data) /\ undefined' = undefined
  BY <1>2 DEF PopFront
<1>4. /\ Tail(m_data) \in Seq(1..MaxItems) /\ Len(Tail(m_data)) = Len(m_data) - 1
      /\ Head(m_data) = m_data[1] /\ m_data[1] \in 1..MaxItems
      /\ \A i \in 1..Len(m_data) - 1 : Tail(m_data)[i] = m_data[i + 1]
  BY <1>1, <1>2, Pop
<1>5. /\ received' \in Seq(1..MaxItems) /\ Len(received') = Len(received) + 1
      /\ received'[Len(received) + 1] = m_data[1]
      /\ \A i \in 1..Len(received) : received'[i] = received[i]
  BY <1>1, <1>3, <1>4, Join
<1>6. m_data[1] = Len(received) + 1
  BY <1>1 DEF ItemsInOrder
<1>7. \A i \in 1..Len(received') : received'[i] = i
  BY SMTT(60), <1>1, <1>5, <1>6 DEF ItemsInOrder
<1>8. \A i \in 1..Len(m_data') : m_data'[i] = Len(received') + i
  BY <1>1, <1>3, <1>4, <1>5 DEF ItemsInOrder
<1>9. Len(received') + Len(m_data') = sent'
  <2>1. Len(received) + Len(m_data) = sent
    BY DEF ItemsInOrder
  <2>2. Len(m_data') = Len(m_data) - 1
    BY <1>3, <1>4
  <2>3. Len(received') = Len(received) + 1
    BY <1>5
  <2> QED BY <1>1, <2>1, <2>2, <2>3
<1> QED BY <1>3, <1>4, <1>5, <1>7, <1>8, <1>9 DEF ItemsInOrder

(* A step that leaves items and queues alone and wakes nobody.                           *)
LEMMA ChannelPasses ==
  ASSUME ChannelInv, LocalInv', UNCHANGED <<waiters, next, m_data, sent, received, undefined>>,
         \A d \in Co : pc'[d] = "back" => pc[d] = "back"
  PROVE  ChannelInv'
  BY DEF ChannelInv, ItemsInOrder, GetterOK

LEMMA ChannelStepInv ==
  ASSUME OneGetter, ChannelInv, NEW c \in Co, ChannelStep(c)
  PROVE  ChannelInv'
<1> USE DEF Runs, Goto
<1>1. /\ LocalInv /\ ItemsInOrder /\ GetterOK /\ undefined = FALSE
      /\ pc \in [Co -> LocalPc] /\ waiters \in Seq(Co) /\ next \in Seq(Co) /\ stack \in Seq(Co)
      /\ Len(m_data) \in Nat /\ m_data \in Seq(1..MaxItems) /\ MaxItems \in Nat
  BY LocalChannelAssumption DEF ChannelInv, LocalInv, LocalTypeOK, ItemsInOrder, OneGetter
<1>2. CASE (Start(c) \/ IoReady(c)) /\ UNCHANGED chVars
  <2>1. /\ pc[c] \in {"new", "io"} /\ stack = <<>> /\ pc' = [pc EXCEPT ![c] = "run"]
        /\ UNCHANGED <<waiters, next>> /\ stack' = <<c>> /\ phase' \in {"start", "callback"}
        /\ UNCHANGED <<m_data, sent, received, undefined>>
    BY <1>1, <1>2 DEF Start, IoReady, chVars, LocalInv, StackOK
  <2>2. LocalInv'
    BY <1>1, <2>1, Begins
  <2>3. \A d \in Co : pc'[d] = "back" => pc[d] = "back"
    BY <1>1, <2>1
  <2> QED BY <2>1, <2>2, <2>3, ChannelPasses
<1>3. CASE (IoWait(c) \/ Finish(c)) /\ UNCHANGED chVars
  <2>1. PICK w \in {"io", "done"} :
           /\ Runs(c) /\ pc' = [pc EXCEPT ![c] = w] /\ stack' = Tail(stack)
           /\ UNCHANGED <<waiters, next, phase>> /\ UNCHANGED <<m_data, sent, received, undefined>>
    BY <1>3 DEF IoWait, Finish, chVars, Runs
  <2>2. LocalInv'
    BY <1>1, <2>1, Leaves
  <2>3. \A d \in Co : pc'[d] = "back" => pc[d] = "back"
    BY <1>1, <2>1
  <2> QED BY <2>1, <2>2, <2>3, ChannelPasses
<1>4. CASE Set(c)
  <2>1. /\ Runs(c) /\ pc[c] = "run" /\ sent < MaxItems /\ sent' = sent + 1
        /\ m_data' = Append(m_data, sent + 1) /\ ResumeNextLoop
        /\ UNCHANGED <<pc, stack, phase, received, undefined>>
    BY <1>4 DEF Set, ResumeNextLoop, Runs
  <2>2. LocalInv'
    BY <1>1, <2>1, Moves
  <2>3. /\ sent + 1 \in 1..MaxItems /\ sent \in Nat /\ Len(received) \in Nat
        /\ Len(received) + Len(m_data) = sent
    BY <1>1, <2>1 DEF ItemsInOrder
  <2>4. /\ m_data' \in Seq(1..MaxItems) /\ Len(m_data') = Len(m_data) + 1
        /\ m_data'[Len(m_data) + 1] = sent + 1
        /\ \A i \in 1..Len(m_data) : m_data'[i] = m_data[i]
    BY <1>1, <2>1, <2>3, Join
  <2>5. ItemsInOrder'
    <3>1. sent' \in 0..MaxItems /\ Len(received') + Len(m_data') = sent'
      <4>1. Len(received') = Len(received) /\ sent' = sent + 1
        BY <2>1
      <4>2. Len(m_data') = Len(m_data) + 1
        BY <2>4
      <4> QED BY <1>1, <2>3, <4>1, <4>2
    <3>2. \A i \in 1..Len(m_data') : m_data'[i] = Len(received') + i
      <4> TAKE i \in 1..Len(m_data')
      <4>1. CASE i \in 1..Len(m_data)
        BY <1>1, <2>1, <2>4, <4>1 DEF ItemsInOrder
      <4>2. CASE i = Len(m_data) + 1
        <5>1. m_data'[i] = sent + 1 /\ Len(received') = Len(received)
          BY <2>1, <2>4, <4>2
        <5>2. PICK r \in Nat, m \in Nat : r = Len(received) /\ m = Len(m_data) /\ r + m = sent
          BY <1>1, <2>3
        <5>3. sent + 1 = r + i
          BY <4>2, <5>2
        <5> QED BY <5>1, <5>2, <5>3, Zenon
      <4> QED BY <1>1, <2>4, <4>1, <4>2
    <3> QED BY <1>1, <2>1, <2>4, <3>1, <3>2 DEF ItemsInOrder
  <2>6. \A d \in Co : pc[d] # "back"
    BY <1>1, <2>1 DEF LocalInv, StackOK, Runs
  <2>7. CASE waiters = <<>>
    <3>1. UNCHANGED <<waiters, next>>
      BY <2>1, <2>7 DEF ResumeNextLoop
    <3>2. GetterOK'
      BY <1>1, <2>1, <2>4, <2>6, <2>7, <3>1 DEF GetterOK
    <3> QED BY <1>1, <2>1, <2>2, <2>5, <3>2 DEF ChannelInv
  <2>8. CASE waiters # <<>>
    <3>1. waiters' = Tail(waiters) /\ next' = Append(next, Head(waiters))
      BY <2>1, <2>8 DEF ResumeNextLoop
    <3>2. /\ Tail(waiters) \in Seq(Co) /\ Len(waiters) \in Nat \ {0} /\ Len(Tail(waiters)) = Len(waiters) - 1
          /\ Head(waiters) = waiters[1] /\ waiters[1] \in Co
      BY <1>1, <2>8, Pop
    <3>3. Len(waiters) = 1
      <4> SUFFICES ASSUME Len(waiters) # 1
                   PROVE  FALSE
        OBVIOUS
      <4>1. 1 \in 1..Len(waiters) /\ 2 \in 1..Len(waiters)
        BY <3>2
      <4>2. waiters[1] = waiters[2]
        BY <1>1, <4>1, LocalChannelAssumption DEF GetterOK, OneGetter
      <4> QED BY <1>1, <4>1, <4>2 DEF LocalInv, QueuesOK, Distinct
    <3>4. waiters' = <<>> /\ Len(waiters') = 0
      BY <3>1, <3>2, <3>3
    <3>5. waiters[1] \in Getters
      BY <1>1, <3>2 DEF GetterOK
    <3>6. /\ Len(next') = Len(next) + 1 /\ next'[Len(next) + 1] = waiters[1]
          /\ \A i \in 1..Len(next) : next'[i] = next[i]
          /\ Len(next) \in Nat
      BY <1>1, <3>1, <3>2, Join
    <3>7. \A i \in 1..Len(next') : next'[i] \in Getters
      <4> TAKE i \in 1..Len(next')
      <4>1. CASE i \in 1..Len(next)
        BY <1>1, <3>6, <4>1 DEF GetterOK
      <4>2. CASE i = Len(next) + 1
        BY <3>5, <3>6, <4>2
      <4> QED BY <3>6, <4>1, <4>2
    <3>8. GetterOK'
      BY SMTT(60), <1>1, <2>1, <2>4, <2>6, <3>4, <3>7 DEF GetterOK
    <3> QED BY <1>1, <2>1, <2>2, <2>5, <3>8 DEF ChannelInv
  <2> QED BY <2>7, <2>8
<1>5. ASSUME Runs(c), c \in Getters \cup TryGetters
      PROVE  next = <<>> /\ waiters = <<>>
  <2>1. pc[c] # "parked"
    <3>1. stack[1] = c /\ 1 \in 1..Len(stack)
      BY <1>1, <1>5, Pop DEF Runs
    <3> QED BY <1>1, <3>1 DEF LocalInv, StackOK
  <2>2. ASSUME next # <<>>
        PROVE  FALSE
    <3>1. 1 \in 1..Len(next)
      BY <1>1, <2>2, Pop
    <3>2. next[1] = c
      BY <1>1, <1>5, <3>1, LocalChannelAssumption DEF GetterOK, OneGetter
    <3> QED BY <1>1, <2>1, <3>1, <3>2 DEF LocalInv, QueuesOK
  <2>3. ASSUME waiters # <<>>
        PROVE  FALSE
    <3>1. 1 \in 1..Len(waiters)
      BY <1>1, <2>3, Pop
    <3>2. waiters[1] = c
      BY <1>1, <1>5, <3>1, LocalChannelAssumption DEF GetterOK, OneGetter
    <3> QED BY <1>1, <2>1, <3>1, <3>2 DEF LocalInv, QueuesOK
  <2> QED BY <2>2, <2>3
<1>6. ASSUME Runs(c), c \in Getters \cup TryGetters, Len(m_data) # 0, PopFront,
             pc' = [pc EXCEPT ![c] = "run"], UNCHANGED <<stack, waiters, next, phase, sent>>
      PROVE  ChannelInv'
  <2>1. LocalInv'
    BY <1>1, <1>6, GoesOn
  <2>2. ItemsInOrder' /\ undefined' = FALSE
    BY <1>1, <1>6, PopsInOrder
  <2>3. next' = <<>> /\ waiters' = <<>>
    BY <1>5, <1>6
  <2>4. \A d \in Co : pc'[d] # "back"
    BY <1>1, <1>6, Alone
  <2>5. GetterOK'
    BY <2>3, <2>4 DEF GetterOK
  <2> QED BY <2>1, <2>2, <2>5 DEF ChannelInv
<1>7. CASE (Get(c) /\ Len(m_data) # 0) \/ TryGet(c)
  <2>1. m_data # <<>> => Len(m_data) # 0
    BY <1>1
  <2>2. Len(m_data) # 0 => m_data # <<>>
    BY <1>1
  <2>3. /\ Runs(c) /\ c \in Getters \cup TryGetters /\ Len(m_data) # 0 /\ PopFront
        /\ pc[c] = "run" /\ UNCHANGED <<pc, stack, waiters, next, phase, sent>>
    BY <1>7, <2>1, <2>2 DEF Get, TryGet, localVars, Runs
  <2>4. pc' = [pc EXCEPT ![c] = "run"]
    BY <1>1, <2>3
  <2> QED BY <1>6, <2>3, <2>4
<1>8. CASE Get(c) /\ Len(m_data) = 0
  <2>1. /\ Runs(c) /\ c \in Getters /\ waiters' = Append(waiters, c) /\ pc' = [pc EXCEPT ![c] = "parked"]
        /\ stack' = Tail(stack) /\ UNCHANGED <<next, phase, m_data, sent, received, undefined>>
    BY <1>1, <1>8 DEF Get, Suspend, chVars, Runs
  <2>2. LocalInv'
    BY <1>1, <2>1, Parks
  <2>3. next = <<>> /\ waiters = <<>>
    BY <1>5, <2>1
  <2>4. Len(waiters') = 1 /\ waiters'[1] = c
    BY <2>1, <2>3
  <2>5. \A d \in Co : pc'[d] = "back" => pc[d] = "back"
    BY <1>1, <2>1
  <2>6. GetterOK'
    BY <1>1, <1>8, <2>1, <2>3, <2>4, <2>5 DEF GetterOK
  <2> QED BY <1>1, <2>1, <2>2, <2>6 DEF ChannelInv, ItemsInOrder
<1>9. CASE GetWoken(c)
  <2>1. /\ Runs(c) /\ pc[c] = "back" /\ PopFront /\ pc' = [pc EXCEPT ![c] = "run"]
        /\ UNCHANGED <<stack, waiters, next, phase, sent>>
    BY <1>9 DEF GetWoken, Runs
  <2>2. c \in Getters \cup TryGetters /\ Len(m_data) # 0
    BY <1>1, <2>1 DEF GetterOK
  <2> QED BY <1>6, <2>1, <2>2
<1> QED BY <1>2, <1>3, <1>4, <1>7, <1>8, <1>9 DEF ChannelStep

LEMMA ChannelInvariant == OneGetter => (ChannelSpec => []ChannelInv)
<1> SUFFICES ASSUME OneGetter
             PROVE  ChannelSpec => []ChannelInv
  OBVIOUS
<1>1. ChannelInit => ChannelInv
  <2> SUFFICES ASSUME ChannelInit
               PROVE  ChannelInv
    OBVIOUS
  <2>1. LocalInv /\ waiters = <<>> /\ next = <<>> /\ \A c \in Co : pc[c] = "new"
    BY LocalInitially DEF ChannelInit, LocalInit
  <2>2. m_data = <<>> /\ sent = 0 /\ received = <<>> /\ undefined = FALSE
    BY DEF ChannelInit
  <2>3. Len(m_data) = 0 /\ Len(received) = 0 /\ m_data \in Seq(1..MaxItems) /\ received \in Seq(1..MaxItems)
    BY <2>2
  <2>4. ItemsInOrder
    BY <2>2, <2>3, LocalChannelAssumption DEF ItemsInOrder, OneGetter
  <2>5. GetterOK
    BY <2>1, <2>3 DEF GetterOK
  <2> QED BY <2>1, <2>2, <2>4, <2>5 DEF ChannelInv
<1>2. ChannelInv /\ [ChannelNext]_allChannelVars => ChannelInv'
  <2> SUFFICES ASSUME ChannelInv, [ChannelNext]_allChannelVars
               PROVE  ChannelInv'
    OBVIOUS
  <2>1. ASSUME NEW c \in Co, ChannelStep(c)
        PROVE  ChannelInv'
    BY <2>1, ChannelStepInv
  <2>2. CASE LoopStep /\ UNCHANGED chVars
    <3>1. LoopStep /\ UNCHANGED <<m_data, sent, received, undefined>>
      BY <2>2 DEF LoopStep, EnterLoop, LocalResume, EndCallback, Goto, chVars
    <3>2. LocalInv'
      BY <3>1, Loops DEF ChannelInv
    <3>3. CASE EnterLoop \/ EndCallback
      BY <3>1, <3>2, <3>3, ChannelPasses DEF EnterLoop, EndCallback
    <3>4. CASE LocalResume
      <4>1. /\ next # <<>> /\ pc' = [pc EXCEPT ![Head(next)] = "back"] /\ next' = Tail(next) /\ waiters' = waiters
        BY <3>4 DEF LocalResume, Goto
      <4>2. next \in Seq(Co) /\ pc \in [Co -> LocalPc]
        BY DEF ChannelInv, LocalInv, LocalTypeOK
      <4>3. /\ Len(next) \in Nat \ {0} /\ Head(next) = next[1] /\ next[1] \in Co
            /\ Len(Tail(next)) = Len(next) - 1
            /\ \A i \in 1..Len(next) - 1 : Tail(next)[i] = next[i + 1]
        BY <4>1, <4>2, Pop
      <4>4. Len(m_data) # 0 /\ next[1] \in Getters
        BY <4>1, <4>3 DEF ChannelInv, GetterOK
      <4>5. \A d \in Co : pc'[d] = "back" => d \in Getters
        BY <4>1, <4>2, <4>3, <4>4 DEF ChannelInv, GetterOK
      <4>6. \A i \in 1..Len(next') : next'[i] \in Getters
        BY <4>1, <4>3 DEF ChannelInv, GetterOK
      <4>7. GetterOK'
        BY <3>1, <4>1, <4>4, <4>5, <4>6 DEF ChannelInv, GetterOK
      <4> QED BY <3>1, <3>2, <4>7 DEF ChannelInv, ItemsInOrder
    <3> QED BY <3>1, <3>3, <3>4 DEF LoopStep
  <2>3. CASE UNCHANGED allChannelVars
    <3>1. UNCHANGED <<pc, stack, waiters, next, phase, m_data, sent, received, undefined>>
      BY <2>3 DEF allChannelVars, localVars, chVars
    <3>2. LocalInv'
      BY <3>1 DEF ChannelInv, LocalInv, LocalTypeOK, StackOK, QueuesOK, Distinct
    <3> QED BY <3>1, <3>2, ChannelPasses
  <2> QED BY <2>1, <2>2, <2>3 DEF ChannelNext
<1> QED BY <1>1, <1>2, PTL DEF ChannelSpec

(* coev::co_channel with one getter and any number of setters: a woken get() finds an item, *)
(* and items are received in the order they were set, each once.                             *)
THEOREM QueueKept == OneGetter => (ChannelSpec => []QueueSafe)
<1> SUFFICES ASSUME OneGetter
             PROVE  ChannelSpec => []QueueSafe
  OBVIOUS
<1>1. ChannelInv => QueueSafe
  <2> SUFFICES ASSUME ChannelInv
               PROVE  QueueSafe
    OBVIOUS
  <2>1. /\ sent \in 0..MaxItems /\ m_data \in Seq(1..MaxItems) /\ received \in Seq(1..MaxItems)
        /\ Len(m_data) \in Nat /\ Len(received) \in Nat /\ sent = Len(received) + Len(m_data)
    BY DEF ChannelInv, ItemsInOrder
  <2>2. PopsAnItem /\ undefined \in BOOLEAN
    BY Zenon DEF ChannelInv, PopsAnItem
  <2>3. ChannelTypeOK
    BY <2>1, <2>2 DEF ChannelTypeOK, Items, ChannelInv, LocalInv, LocalTypeOK, LocalPc
  <2>4. Fifo
    <3>1. /\ received \o m_data \in Seq(1..MaxItems)
          /\ Len(received \o m_data) = sent
      BY <2>1
    <3>2. \A i \in 1..sent : (received \o m_data)[i] = i
      <4> TAKE i \in 1..sent
      <4>1. CASE i \in 1..Len(received)
        BY <2>1, <4>1 DEF ChannelInv, ItemsInOrder
      <4>2. CASE i \in Len(received) + 1..sent
        <5>1. i - Len(received) \in 1..Len(m_data)
          BY <2>1, <4>2
        <5>2. (received \o m_data)[i] = m_data[i - Len(received)]
          BY <2>1, <4>2
        <5> QED BY <2>1, <4>2, <5>1, <5>2 DEF ChannelInv, ItemsInOrder
      <4> QED BY <2>1, <4>1, <4>2
    <3>3. \A q \in Seq(1..MaxItems) :
            Len(q) = sent /\ (\A i \in 1..sent : q[i] = i) => q = [i \in 1..sent |-> i]
      BY <2>1
    <3>4. received \o m_data = [i \in 1..sent |-> i]
      BY <3>1, <3>2, <3>3, Zenon
    <3> QED BY <3>4 DEF Fifo
  <2> QED BY <2>2, <2>3, <2>4 DEF QueueSafe
<1> QED BY <1>1, ChannelInvariant, PTL

(* coev::co_channel with one getter: no item lies in the queue while the getter sleeps      *)
(* without a wake-up on its way.                                                              *)
THEOREM GetterNotLost == OneGetter => (ChannelSpec => []NoSleeperWithItem)
<1> SUFFICES ASSUME OneGetter
             PROVE  ChannelSpec => []NoSleeperWithItem
  OBVIOUS
<1>1. ChannelInv => NoSleeperWithItem
  BY DEF ChannelInv, ItemsInOrder, GetterOK, NoSleeperWithItem
<1> QED BY <1>1, ChannelInvariant, PTL

(***************************************************************************)
(* client_pool                                                               *)
(***************************************************************************)

Held == Cardinality(Holders)
Making == Cardinality(Connecting)

\* The counters, open or stopped. Once stopped, m_connected and m_used only grow, by the
\* connections that were being made: hence the two sums.
PoolCounts ==
  /\ max_connections \in {0, MaxClients} /\ m_connected \in Nat /\ m_used \in Nat
  /\ idle \in Nat /\ uncounted \in 0..MaxDead
  /\ m_connecting = Making
  /\ Held + idle + Making <= MaxClients + uncounted
  /\ m_connected + Making <= MaxClients
  /\ m_used + Making <= Cardinality(Co)
  /\ max_connections = MaxClients =>
       /\ m_used = Held
       /\ m_connected <= Held + idle /\ Held + idle <= m_connected + uncounted
  /\ max_connections = 0 => idle = 0

\* m_connected is exact, and no connection was lost since the waiters queue.
Exact == ~lost /\ uncounted = 0

\* The waiters: each is at the head of its loop, and as long as m_connected is exact and
\* no connection was lost the pool they wait for is full and a client is idle only while
\* the waiter woken for it has not run.
PoolWaits ==
  /\ \A i \in 1..Len(waiters) : at[waiters[i]] = "loop"
  /\ \A c \in Co : pc[c] = "back" => at[c] = "loop"
  /\ max_connections = MaxClients /\ waiters # <<>> /\ Exact => m_connected + m_connecting = MaxClients
  /\ waiters # <<>> /\ idle # 0 /\ Exact => idle = 1 /\ \E c \in Co : pc[c] = "back"

PoolTypes ==
  /\ at \in [Co -> At] /\ lost \in BOOLEAN

PoolInv == LocalInv /\ next = <<>> /\ PoolTypes /\ PoolCounts /\ PoolWaits

(* Counting the coroutines of a kind when one of them, c, may change its kind.        *)
LEMMA CountMove ==
  ASSUME IsFiniteSet(Co), NEW A \in SUBSET Co, NEW B \in SUBSET Co, NEW c \in Co,
         A \ {c} = B \ {c}
  PROVE  /\ Cardinality(A) \in Nat /\ Cardinality(B) \in Nat
         /\ (c \in A <=> c \in B) => Cardinality(B) = Cardinality(A)
         /\ c \notin A /\ c \in B => Cardinality(B) = Cardinality(A) + 1
         /\ c \in A /\ c \notin B => Cardinality(B) = Cardinality(A) - 1
<1>1. IsFiniteSet(A) /\ IsFiniteSet(B)
  BY FS_Subset
<1>2. Cardinality(A) \in Nat /\ Cardinality(B) \in Nat
  BY <1>1, FS_CardinalityType
<1>3. (c \in A <=> c \in B) => A = B
  OBVIOUS
<1>4. ASSUME c \notin A, c \in B
      PROVE  Cardinality(B) = Cardinality(A) + 1
  <2>1. B = A \cup {c}
    BY <1>4
  <2> QED BY <1>1, <1>4, <2>1, FS_AddElement
<1>5. ASSUME c \in A, c \notin B
      PROVE  Cardinality(B) = Cardinality(A) - 1
  <2>1. B = A \ {c}
    BY <1>5
  <2> QED BY <1>1, <1>5, <2>1, FS_RemoveElement
<1> QED BY <1>2, <1>3, <1>4, <1>5

(* What a step of c in get_cli() or ~Instance does to the number of clients held and of *)
(* connections being made.                                                                *)
LEMMA PoolMove ==
  ASSUME at \in [Co -> At], NEW c \in Co, NEW w \in At,
         at' = [at EXCEPT ![c] = w]
  PROVE  /\ Held \in Nat /\ Making \in Nat /\ Held' \in Nat /\ Making' \in Nat
         /\ (at[c] \in {"holds"} <=> w \in {"holds"}) => Held' = Held
         /\ at[c] \notin {"holds"} /\ w \in {"holds"} => Held' = Held + 1
         /\ at[c] \in {"holds"} /\ w \notin {"holds"} => Held' = Held - 1
         /\ (at[c] \in {"connect", "retry"} <=> w \in {"connect", "retry"}) => Making' = Making
         /\ at[c] \notin {"connect", "retry"} /\ w \in {"connect", "retry"} => Making' = Making + 1
         /\ at[c] \in {"connect", "retry"} /\ w \notin {"connect", "retry"} => Making' = Making - 1
<1> DEFINE H == Holders
           C == Connecting
<1>1. IsFiniteSet(Co)
  BY PoolAssumption
<1>2. /\ H \in SUBSET Co /\ H' \in SUBSET Co /\ H \ {c} = H' \ {c}
      /\ c \in H <=> at[c] \in {"holds"}
      /\ c \in H' <=> w \in {"holds"}
  BY DEF Holders
<1>3. /\ C \in SUBSET Co /\ C' \in SUBSET Co /\ C \ {c} = C' \ {c}
      /\ c \in C <=> at[c] \in {"connect", "retry"}
      /\ c \in C' <=> w \in {"connect", "retry"}
  BY DEF Connecting
<1>4. Held = Cardinality(H) /\ Held' = Cardinality(H') /\ Making = Cardinality(C) /\ Making' = Cardinality(C')
  BY DEF Held, Making
<1> HIDE DEF H, C
<1>5. /\ Held \in Nat /\ Held' \in Nat
      /\ (c \in H <=> c \in H') => Held' = Held
      /\ c \notin H /\ c \in H' => Held' = Held + 1
      /\ c \in H /\ c \notin H' => Held' = Held - 1
  BY <1>1, <1>2, <1>4, CountMove
<1>6. /\ Making \in Nat /\ Making' \in Nat
      /\ (c \in C <=> c \in C') => Making' = Making
      /\ c \notin C /\ c \in C' => Making' = Making + 1
      /\ c \in C /\ c \notin C' => Making' = Making - 1
  BY <1>1, <1>3, <1>4, CountMove
<1> QED BY <1>2, <1>3, <1>5, <1>6

(* A coroutine holds a client or makes a connection, not both; before and after a step. *)
LEMMA PoolBound ==
         /\ Held \in Nat /\ Making \in Nat /\ Held + Making <= Cardinality(Co)
         /\ Held' \in Nat /\ Making' \in Nat /\ Held' + Making' <= Cardinality(Co)
         /\ Cardinality(Co) \in Nat
<1>1. ASSUME NEW A \in SUBSET Co, NEW B \in SUBSET Co, A \cap B = {}
      PROVE  /\ Cardinality(A) \in Nat /\ Cardinality(B) \in Nat
             /\ Cardinality(A) + Cardinality(B) <= Cardinality(Co) /\ Cardinality(Co) \in Nat
  <2>1. IsFiniteSet(A) /\ IsFiniteSet(B) /\ IsFiniteSet(Co) /\ A \cup B \subseteq Co
    BY FS_Subset, PoolAssumption
  <2>2. Cardinality(A \cup B) = Cardinality(A) + Cardinality(B) - Cardinality(A \cap B)
    BY <2>1, FS_Union
  <2>3. Cardinality(A \cap B) = 0
    BY <1>1, FS_EmptySet
  <2>4. Cardinality(A \cup B) <= Cardinality(Co) /\ Cardinality(Co) \in Nat
    BY <2>1, FS_Subset, FS_CardinalityType
  <2>5. Cardinality(A) \in Nat /\ Cardinality(B) \in Nat
    BY <2>1, FS_CardinalityType
  <2> QED BY <2>2, <2>3, <2>4, <2>5
<1>2. /\ Holders \in SUBSET Co /\ Connecting \in SUBSET Co /\ Holders \cap Connecting = {}
      /\ Holders' \in SUBSET Co /\ Connecting' \in SUBSET Co /\ Holders' \cap Connecting' = {}
  BY DEF Holders, Connecting
<1>3. /\ Held = Cardinality(Holders) /\ Making = Cardinality(Connecting)
      /\ Held' = Cardinality(Holders') /\ Making' = Cardinality(Connecting')
  BY DEF Held, Making
<1> QED BY <1>1, <1>2, <1>3

(* The sum of three counters, from what two of them are bounded by.                      *)
LEMMA SumBound ==
  ASSUME NEW h \in Nat, NEW i \in Nat, NEW k \in Nat, NEW n \in Nat, NEW u \in Nat, NEW m \in Nat,
         h + i <= n + u, n + k <= m
  PROVE  h + i + k <= m + u
  OBVIOUS

(* What two counters add up to stays when one is taken from the other.                   *)
LEMMA SumStays ==
  ASSUME NEW a \in Nat, NEW b \in Nat, NEW x \in Nat, NEW y \in Nat,
         (a = x + 1 /\ b = y - 1) \/ (a = x - 1 /\ b = y + 1) \/ (a = x /\ b = y)
  PROVE  a + b = x + y
  OBVIOUS

(* The counters of a pool that is still open after a step.                               *)
LEMMA PoolOpenCounts ==
  ASSUME max_connections' = MaxClients, m_connected' \in Nat, idle' \in Nat,
         uncounted' \in Nat, uncounted' <= MaxDead, m_used' = Held', m_connecting' = Making',
         m_connected' <= Held' + idle', Held' + idle' <= m_connected' + uncounted',
         m_connected' + Making' <= MaxClients
  PROVE  PoolCounts'
<1>1. /\ Held' \in Nat /\ Making' \in Nat /\ Held' + Making' <= Cardinality(Co)
      /\ Cardinality(Co) \in Nat /\ MaxClients \in Nat \ {0} /\ MaxDead \in Nat
  BY PoolBound, PoolAssumption
<1>2. /\ m_used' + Making' <= Cardinality(Co) /\ m_used' \in Nat /\ MaxClients # 0
      /\ uncounted' \in 0..MaxDead
  BY <1>1
<1>3. Held' + idle' + Making' <= MaxClients + uncounted'
  BY <1>1, SumBound
<1> QED BY <1>1, <1>2, <1>3 DEF PoolCounts

(* A step that leaves the queue and after which nobody was just woken.                   *)
LEMMA PoolStays ==
  ASSUME PoolWaits, UNCHANGED waiters, \A d \in Co : pc'[d] # "back",
         \A i \in 1..Len(waiters) : at'[waiters[i]] = at[waiters[i]],
         waiters # <<>> =>
           /\ Exact' => Exact
           /\ Exact' /\ max_connections' = MaxClients =>
                max_connections = MaxClients /\ m_connected' + m_connecting' = m_connected + m_connecting
           /\ idle' = 0 \/ ~Exact' \/ (idle # 0 /\ \A d \in Co : pc[d] # "back")
  PROVE  PoolWaits'
  BY DEF PoolWaits

(* A get_cli() that loops without an await changes nothing.                              *)
LEMMA PoolStutter ==
  ASSUME PoolInv, UNCHANGED allPoolVars
  PROVE  PoolInv'
<1>1. LocalInv /\ next = <<>> /\ PoolTypes /\ PoolCounts /\ PoolWaits
  BY DEF PoolInv
<1>2. /\ UNCHANGED <<pc, stack, waiters, next, phase>> /\ UNCHANGED poolVars
  BY DEF allPoolVars, localVars
<1>3. LocalInv'
  BY <1>1, <1>2 DEF LocalInv, LocalTypeOK, StackOK, QueuesOK, Distinct
<1>4. PoolCounts' /\ PoolTypes'
  BY <1>1, <1>2 DEF poolVars, PoolCounts, PoolTypes, Held, Making, Holders, Connecting
<1>5. PoolWaits'
  BY <1>1, <1>2 DEF PoolWaits, poolVars, Exact
<1> QED BY <1>1, <1>2, <1>3, <1>4, <1>5 DEF PoolInv

(* get_cli(), up to where it awaits or returns.                                           *)
LEMMA PoolGetCli ==
  ASSUME PoolInv, NEW c \in Co, GetCli(c) \/ GetCliStep(c)
  PROVE  PoolInv'
<1> USE DEF Runs, Goto, Here, AwaitAt, ReturnWith
<1>1. /\ LocalInv /\ next = <<>> /\ PoolTypes /\ PoolCounts /\ PoolWaits
      /\ at \in [Co -> At] /\ idle \in Nat /\ uncounted \in Nat /\ m_connected \in Nat /\ m_used \in Nat
      /\ uncounted <= MaxDead /\ MaxClients \in Nat \ {0} /\ MaxDead \in Nat
  BY PoolAssumption DEF PoolInv, PoolTypes, PoolCounts
<1>2. /\ Held \in Nat /\ Making \in Nat /\ Held + Making <= Cardinality(Co) /\ Cardinality(Co) \in Nat
      /\ Held' \in Nat /\ Making' \in Nat
  BY PoolBound
<1>3. ASSUME NEW w \in At, NEW v \in {"run", "io"}, Runs(c), pc' = [pc EXCEPT ![c] = v],
             stack' = IF v = "run" THEN stack ELSE Tail(stack), UNCHANGED <<waiters, next, phase>>,
             at' = [at EXCEPT ![c] = w], PoolTypes', PoolCounts',
             waiters # <<>> =>
               /\ Exact' => Exact
               /\ Exact' /\ max_connections' = MaxClients =>
                    max_connections = MaxClients /\ m_connected' + m_connecting' = m_connected + m_connecting
               /\ idle' = 0 \/ ~Exact' \/ (idle # 0 /\ pc[c] # "back")
      PROVE  PoolInv'
  <2>1. LocalInv'
    <3>1. CASE v = "run"
      BY <1>1, <1>3, <3>1, GoesOn
    <3>2. CASE v = "io"
      BY <1>1, <1>3, <3>2, Leaves
    <3> QED BY <3>1, <3>2
  <2>2. /\ \A d \in Co : pc'[d] # "back"
        /\ \A i \in 1..Len(waiters) : waiters[i] \in Co /\ waiters[i] # c
        /\ pc[c] # "back" => \A d \in Co : pc[d] # "back"
    BY <1>1, <1>3, Alone
  <2>3. \A i \in 1..Len(waiters) : at'[waiters[i]] = at[waiters[i]]
    BY <1>1, <1>3, <2>2
  <2>4. PoolWaits'
    BY <1>1, <1>3, <2>2, <2>3, PoolStays
  <2> QED BY <1>1, <1>3, <2>1, <2>4 DEF PoolInv
<1>4. CASE GetCli(c)
  <2>1. /\ Runs(c) /\ pc[c] = "run" /\ at[c] = "out" /\ at' = [at EXCEPT ![c] = "loop"]
        /\ UNCHANGED <<pc, stack, waiters, next, phase, max_connections, m_connected, m_connecting, m_used, idle, lost, uncounted>>
    BY <1>4 DEF GetCli, localVars, Runs
  <2>2. "loop" \in At /\ pc' = [pc EXCEPT ![c] = "run"]
    BY <1>1, <2>1 DEF At, LocalInv, LocalTypeOK
  <2>3. Held' = Held /\ Making' = Making
    BY <1>1, <2>1, <2>2, PoolMove
  <2>4. PoolCounts'
    BY <1>1, <2>1, <2>3 DEF PoolCounts
  <2>5. PoolTypes'
    BY <1>1, <2>1, <2>2 DEF PoolTypes
  <2>6. idle' = 0 \/ (idle # 0 /\ pc[c] # "back")
    BY <1>2, <2>1
  <2> QED BY <1>1, <1>3, <2>1, <2>2, <2>4, <2>5, <2>6 DEF Exact
<1>5. CASE LoopStopped(c)
  <2>1. /\ Runs(c) /\ max_connections = 0 /\ at[c] = "loop" /\ at' = [at EXCEPT ![c] = "out"]
        /\ pc' = [pc EXCEPT ![c] = "run"]
        /\ UNCHANGED <<stack, waiters, next, phase, max_connections, m_connected, m_connecting, m_used, idle, lost, uncounted>>
    BY <1>5 DEF LoopStopped, Runs
  <2>2. "out" \in At
    BY DEF At
  <2>3. Held' = Held /\ Making' = Making
    BY <1>1, <2>1, <2>2, PoolMove
  <2>4. PoolCounts'
    BY <1>1, <2>1, <2>3 DEF PoolCounts
  <2>5. PoolTypes'
    BY <1>1, <2>1, <2>2 DEF PoolTypes
  <2>6. idle' = 0 /\ max_connections' # MaxClients
    BY <1>1, <2>1 DEF PoolCounts
  <2> QED BY <1>1, <1>3, <2>1, <2>2, <2>4, <2>5, <2>6 DEF Exact
<1>6. CASE LoopWait(c)
  <2>1. /\ Runs(c) /\ at[c] = "loop" /\ max_connections # 0 /\ m_used = m_connected
        /\ max_connections = m_connected + m_connecting
        /\ waiters' = Append(waiters, c) /\ pc' = [pc EXCEPT ![c] = "parked"] /\ stack' = Tail(stack)
        /\ UNCHANGED <<next, phase, max_connections, m_connected, m_connecting, m_used, idle, at, lost, uncounted>>
    BY <1>6 DEF LoopWait, Full, Total, poolVars, Runs
  <2>2. LocalInv'
    BY <1>1, <2>1, Parks
  <2>3. Held' = Held /\ Making' = Making
    BY <2>1 DEF Held, Making, Holders, Connecting
  <2>4. PoolCounts'
    BY <1>1, <2>1, <2>3 DEF PoolCounts
  <2>5. PoolTypes'
    BY <1>1, <2>1 DEF PoolTypes
  <2>6. (Exact => idle = 0) /\ max_connections = MaxClients /\ (Exact' <=> Exact)
    BY <1>1, <1>2, <2>1 DEF PoolCounts, Exact
  <2>7. /\ Len(waiters') = Len(waiters) + 1 /\ waiters'[Len(waiters) + 1] = c
        /\ \A i \in 1..Len(waiters) : waiters'[i] = waiters[i]
        /\ Len(waiters) \in Nat
    BY <1>1, <2>1, Join DEF LocalInv, LocalTypeOK
  <2>8. \A i \in 1..Len(waiters') : at'[waiters'[i]] = "loop"
    <3> TAKE i \in 1..Len(waiters')
    <3>1. CASE i = Len(waiters) + 1
      BY <3>1, <2>1, <2>7
    <3>2. CASE i \in 1..Len(waiters)
      BY <3>2, <1>1, <2>1, <2>7 DEF PoolWaits
    <3> QED BY <3>1, <3>2, <2>7
  <2>9. \A d \in Co : pc'[d] = "back" => pc[d] = "back"
    BY <1>1, <2>1 DEF LocalInv, LocalTypeOK
  <2>10. PoolWaits'
    BY <1>1, <2>1, <2>6, <2>8, <2>9 DEF PoolWaits
  <2> QED BY <1>1, <2>1, <2>2, <2>4, <2>5, <2>10 DEF PoolInv
<1>7. CASE LoopConnect(c)
  <2>1. /\ Runs(c) /\ at[c] = "loop" /\ max_connections # 0 /\ m_connected + m_connecting < max_connections
        /\ m_connecting' = m_connecting + 1
        /\ at' = [at EXCEPT ![c] = "connect"] /\ pc' = [pc EXCEPT ![c] = "io"] /\ stack' = Tail(stack)
        /\ UNCHANGED <<waiters, next, phase, max_connections, m_connected, m_used, idle, lost, uncounted>>
    BY <1>7 DEF LoopConnect, Total, Runs
  <2>2. "connect" \in At
    BY DEF At
  <2>3. Held' = Held /\ Making' = Making + 1 /\ at' \in [Co -> At]
    BY <1>1, <2>1, <2>2, PoolMove
  <2>4. /\ max_connections = MaxClients /\ m_used = Held /\ m_connecting = Making
        /\ m_connected <= Held + idle /\ Held + idle <= m_connected + uncounted
    BY <1>1, <2>1 DEF PoolCounts
  <2>5. m_connected + Making + 1 <= MaxClients
    BY <1>1, <1>2, <2>1, <2>4
  <2>6. PoolCounts'
    <3>1. /\ m_used' = Held' /\ m_connecting' = Making'
          /\ m_connected' <= Held' + idle' /\ Held' + idle' <= m_connected' + uncounted'
          /\ m_connected' + Making' <= MaxClients
      BY <1>1, <1>2, <2>1, <2>3, <2>4, <2>5
    <3> QED BY <1>1, <2>1, <2>4, <3>1, PoolOpenCounts
  <2>7. PoolTypes'
    BY <1>1, <2>1, <2>3 DEF PoolTypes
  <2>8. (waiters # <<>> => ~Exact) /\ (Exact' <=> Exact)
    BY <1>1, <1>2, <2>1, <2>4 DEF PoolWaits, Exact
  <2> QED BY <1>1, <1>3, <2>1, <2>2, <2>6, <2>7, <2>8
<1>8. CASE LoopTake(c)
  <2>1. /\ Runs(c) /\ at[c] = "loop" /\ max_connections # 0 /\ idle > 0
        /\ idle' = idle - 1 /\ m_used' = m_used + 1
        /\ at' = [at EXCEPT ![c] = "holds"] /\ pc' = [pc EXCEPT ![c] = "run"]
        /\ UNCHANGED <<stack, waiters, next, phase, max_connections, m_connected, m_connecting, lost, uncounted>>
    BY <1>8 DEF LoopTake, MayTake, Runs
  <2>2. "holds" \in At
    BY DEF At
  <2>3. Held' = Held + 1 /\ Making' = Making /\ at' \in [Co -> At]
    BY <1>1, <2>1, <2>2, PoolMove
  <2>4. /\ max_connections = MaxClients /\ m_used = Held /\ m_connecting = Making
        /\ m_connected <= Held + idle /\ Held + idle <= m_connected + uncounted
    BY <1>1, <2>1 DEF PoolCounts
  <2>6. idle' \in Nat /\ (Exact' <=> Exact)
    BY <1>1, <2>1 DEF Exact
  <2>7. PoolCounts'
    <3>1. m_connected + Making <= MaxClients
      BY <1>1 DEF PoolCounts
    <3>2. /\ m_used' = Held' /\ m_connecting' = Making'
          /\ m_connected' <= Held' + idle' /\ Held' + idle' <= m_connected' + uncounted'
          /\ m_connected' + Making' <= MaxClients
      <4>1. Held' + idle' = Held + idle
        BY <1>1, <1>2, <2>1, <2>3, <2>6, SumStays
      <4>2. m_used' = Held' /\ m_connecting' = Making'
        BY <2>1, <2>3, <2>4
      <4> QED BY <2>1, <2>3, <2>4, <3>1, <4>1, <4>2
    <3> QED BY <1>1, <2>1, <2>4, <2>6, <3>2, PoolOpenCounts
  <2>8. PoolTypes'
    BY <1>1, <2>1, <2>3, <2>6 DEF PoolTypes
  <2>9. waiters # <<>> => idle' = 0 \/ ~Exact'
    <3>1. idle \in Nat /\ idle > 0 /\ idle' = idle - 1
      BY <1>1, <2>1
    <3>2. waiters # <<>> /\ Exact => idle = 1
      BY <1>1, <3>1 DEF PoolWaits
    <3>3. idle = 1 => idle' = 0
      BY <3>1
    <3> QED BY <2>6, <3>2, <3>3
  <2> QED BY <1>1, <1>3, <2>1, <2>2, <2>6, <2>7, <2>8, <2>9
<1>9. CASE LoopDel(c)
  <2>1. /\ Runs(c) /\ at[c] = "loop" /\ max_connections # 0 /\ idle > 0
        /\ idle' = idle - 1 /\ m_connected' = (IF m_connected > 0 THEN m_connected - 1 ELSE 0)
        /\ lost' = (waiters # <<>>)
        /\ at' = [at EXCEPT ![c] = "quick"] /\ pc' = [pc EXCEPT ![c] = "io"] /\ stack' = Tail(stack)
        /\ UNCHANGED <<waiters, next, phase, max_connections, m_connecting, m_used, uncounted>>
    BY <1>9 DEF LoopDel, MayTake, Del, Runs
  <2>2. "quick" \in At
    BY DEF At
  <2>3. Held' = Held /\ Making' = Making /\ at' \in [Co -> At]
    BY <1>1, <2>1, <2>2, PoolMove
  <2>4. /\ max_connections = MaxClients /\ m_used = Held /\ m_connecting = Making
        /\ m_connected <= Held + idle /\ Held + idle <= m_connected + uncounted
    BY <1>1, <2>1 DEF PoolCounts
  <2>5. idle' = idle - 1 /\ idle' \in Nat
    BY <1>1, <2>1
  <2>6. m_connected' <= Held + idle' /\ Held + idle' <= m_connected' + uncounted'
    BY <1>1, <1>2, <2>1, <2>4, <2>5 DEF PoolCounts
  <2>7. PoolCounts'
    BY <1>1, <1>2, <2>1, <2>3, <2>4, <2>5, <2>6 DEF PoolCounts
  <2>8. lost' \in BOOLEAN /\ (waiters # <<>> => ~Exact')
    BY <2>1, Zenon DEF Exact
  <2>9. PoolTypes'
    BY <1>1, <2>1, <2>3, <2>5, <2>8 DEF PoolTypes
  <2> QED BY <1>1, <1>3, <2>1, <2>2, <2>6, <2>7, <2>8, <2>9
<1>10. CASE AfterQuick(c)
  <2>1. /\ Runs(c) /\ at[c] = "quick" /\ at' = [at EXCEPT ![c] = "loop"]
        /\ UNCHANGED <<pc, stack, waiters, next, phase, max_connections, m_connected, m_connecting, m_used, idle, lost, uncounted>>
    BY <1>10 DEF AfterQuick, localVars, Runs
  <2>2. "loop" \in At
    BY DEF At
  <2>3. pc[c] = "run"
    <3>1. stack[1] = c /\ 1 \in 1..Len(stack)
      BY <1>1, <2>1, Pop DEF Runs, LocalInv, LocalTypeOK
    <3> QED BY <1>1, <2>1, <3>1 DEF LocalInv, StackOK, PoolWaits
  <2>4. pc' = [pc EXCEPT ![c] = "run"]
    BY <1>1, <2>1, <2>3 DEF LocalInv, LocalTypeOK
  <2>5. Held' = Held /\ Making' = Making
    BY <1>1, <2>1, <2>2, PoolMove
  <2>6. PoolCounts'
    BY <1>1, <2>1, <2>5 DEF PoolCounts
  <2>7. PoolTypes'
    BY <1>1, <2>1, <2>2 DEF PoolTypes
  <2>8. idle' = 0 \/ (idle # 0 /\ pc[c] # "back")
    BY <1>2, <2>1, <2>3
  <2> QED BY <1>1, <1>3, <2>1, <2>2, <2>4, <2>6, <2>7, <2>8 DEF Exact
<1>11. ASSUME at[c] \in {"connect", "retry"}, Runs(c)
       PROVE  pc[c] = "run"
    <3>1. stack[1] = c /\ 1 \in 1..Len(stack)
      BY <1>1, <1>11, Pop DEF Runs, LocalInv, LocalTypeOK
    <3> QED BY <1>1, <1>11, <3>1 DEF LocalInv, StackOK, PoolWaits
<1>12. CASE Connected(c)
  <2>1. /\ Runs(c) /\ at[c] = "connect" /\ m_connected' = m_connected + 1 /\ m_used' = m_used + 1
        /\ m_connecting' = m_connecting - 1
        /\ at' = [at EXCEPT ![c] = "holds"] /\ pc' = [pc EXCEPT ![c] = "run"]
        /\ UNCHANGED <<stack, waiters, next, phase, max_connections, idle, lost, uncounted>>
    BY <1>12 DEF Connected, Runs
  <2>2. "holds" \in At
    BY DEF At
  <2>3. /\ Held' = Held + 1 /\ Making' = Making - 1 /\ at' \in [Co -> At]
        /\ Held' \in Nat /\ Making' \in Nat
    BY <1>1, <2>1, <2>2, PoolMove
  <2>4. PoolCounts'
    <3>1. /\ Held' + idle' + Making' = Held + idle + Making
          /\ m_connected' + Making' = m_connected + Making /\ m_used' + Making' = m_used + Making
          /\ m_connected' \in Nat /\ m_used' \in Nat /\ m_connecting' = Making'
      BY <1>1, <1>2, <2>1, <2>3 DEF PoolCounts
    <3>2. ASSUME max_connections = MaxClients
          PROVE  /\ m_used' = Held' /\ m_connected' <= Held' + idle'
                 /\ Held' + idle' <= m_connected' + uncounted'
      <4>1. m_used = Held /\ m_connected <= Held + idle /\ Held + idle <= m_connected + uncounted
        BY <1>1, <3>2 DEF PoolCounts
      <4>2. m_connected + 1 <= Held + 1 + idle /\ Held + 1 + idle <= m_connected + 1 + uncounted
        BY <1>1, <1>2, <4>1
      <4>3. m_used' = Held'
        BY <2>1, <2>3, <4>1
      <4> QED BY <2>1, <2>3, <4>2, <4>3
    <3> QED BY <1>1, <2>1, <3>1, <3>2 DEF PoolCounts
  <2>5. PoolTypes'
    BY <1>1, <2>1, <2>3 DEF PoolTypes
  <2>6. idle' = 0 \/ (idle # 0 /\ pc[c] # "back")
    BY <1>2, <1>11, <2>1
  <2>7. m_connected' + m_connecting' = m_connected + m_connecting
    BY <1>1, <1>2, <2>1 DEF PoolCounts
  <2> QED BY <1>1, <1>3, <2>1, <2>2, <2>4, <2>5, <2>6, <2>7 DEF Exact
<1>13. CASE Refused(c) \/ HalfOpen(c)
  <2>1. /\ Runs(c) /\ at[c] = "connect"
        /\ at' = [at EXCEPT ![c] = "retry"] /\ pc' = [pc EXCEPT ![c] = "io"] /\ stack' = Tail(stack)
        /\ UNCHANGED <<waiters, next, phase, max_connections, m_connecting, m_used, idle, lost>>
    BY <1>13 DEF Refused, HalfOpen, Runs
  <2>2. "retry" \in At
    BY DEF At
  <2>3. Held' = Held /\ Making' = Making /\ at' \in [Co -> At]
    BY <1>1, <2>1, <2>2, PoolMove
  <2>4. \/ m_connected' = m_connected /\ uncounted' = uncounted
        \/ /\ m_connected > 0 /\ m_connected' = m_connected - 1
           /\ uncounted' = uncounted + 1 /\ uncounted + 1 <= MaxDead
    BY <1>1, <1>13 DEF Refused, HalfOpen, Del
  <2>5. /\ m_connected' \in Nat /\ uncounted' \in Nat /\ uncounted' <= MaxDead
        /\ m_connected' + uncounted' = m_connected + uncounted
    BY <1>1, <2>4, SumStays
  <2>6. PoolCounts'
    <3>1. /\ m_connecting = Making /\ m_connected + Making <= MaxClients /\ m_used + Making <= Cardinality(Co)
          /\ Held + idle + Making <= MaxClients + uncounted
          /\ max_connections \in {0, MaxClients} /\ m_used \in Nat /\ MaxClients # 0
      BY <1>1 DEF PoolCounts
    <3>2. m_connected' + Making <= MaxClients
      BY <1>1, <1>2, <2>4, <3>1
    <3>3. Held + idle + Making <= MaxClients + uncounted'
      BY <1>1, <1>2, <2>4, <3>1
    <3>4. CASE max_connections = 0
      <4>1. idle = 0 /\ uncounted' \in 0..MaxDead
        BY <1>1, <2>5, <3>4 DEF PoolCounts
      <4> QED BY <1>1, <2>1, <2>3, <2>5, <3>1, <3>2, <3>3, <3>4, <4>1 DEF PoolCounts
    <3>5. CASE max_connections = MaxClients
      <4>1. m_used = Held /\ m_connected <= Held + idle /\ Held + idle <= m_connected + uncounted
        BY <1>1, <3>5 DEF PoolCounts
      <4>2. m_connected' <= Held + idle
        BY <1>1, <1>2, <2>4, <4>1
      <4> QED BY <1>1, <2>1, <2>3, <2>5, <3>1, <3>2, <3>5, <4>1, <4>2, PoolOpenCounts
    <3> QED BY <3>1, <3>4, <3>5
  <2>7. PoolTypes'
    BY <1>1, <2>1, <2>3 DEF PoolTypes
  <2>8. idle' = 0 \/ (idle # 0 /\ pc[c] # "back")
    BY <1>11, <2>1
  <2>9. Exact' => Exact /\ m_connected' = m_connected
    <3>1. uncounted' = 0 => uncounted = 0 /\ m_connected' = m_connected
      BY <1>1, <2>4
    <3> QED BY <2>1, <3>1 DEF Exact
  <2> QED BY <1>1, <1>3, <2>1, <2>2, <2>6, <2>7, <2>8, <2>9
<1>14. CASE Retry(c)
  <2>1. /\ Runs(c) /\ at[c] = "retry"
        /\ at' = [at EXCEPT ![c] = "connect"] /\ pc' = [pc EXCEPT ![c] = "io"] /\ stack' = Tail(stack)
        /\ UNCHANGED <<waiters, next, phase, max_connections, m_connected, m_connecting, m_used, idle, lost, uncounted>>
    BY <1>14 DEF Retry, Runs
  <2>2. "connect" \in At
    BY DEF At
  <2>3. Held' = Held /\ Making' = Making /\ at' \in [Co -> At]
    BY <1>1, <2>1, <2>2, PoolMove
  <2>4. PoolCounts'
    BY <1>1, <2>1, <2>3 DEF PoolCounts
  <2>5. PoolTypes'
    BY <1>1, <2>1, <2>3 DEF PoolTypes
  <2>6. idle' = 0 \/ (idle # 0 /\ pc[c] # "back")
    BY <1>2, <1>11, <2>1
  <2> QED BY <1>1, <1>3, <2>1, <2>2, <2>4, <2>5, <2>6 DEF Exact
<1>15. CASE GiveUp(c)
  <2>1. /\ Runs(c) /\ at[c] = "retry" /\ m_connecting' = m_connecting - 1 /\ lost' = (waiters # <<>>)
        /\ at' = [at EXCEPT ![c] = "out"] /\ pc' = [pc EXCEPT ![c] = "run"]
        /\ UNCHANGED <<stack, waiters, next, phase, max_connections, m_connected, m_used, idle, uncounted>>
    BY <1>15 DEF GiveUp, Runs
  <2>2. "out" \in At
    BY DEF At
  <2>3. /\ Held' = Held /\ Making' = Making - 1 /\ at' \in [Co -> At]
        /\ Making' \in Nat
    BY <1>1, <2>1, <2>2, PoolMove
  <2>4. PoolCounts'
    BY <1>1, <1>2, <2>1, <2>3 DEF PoolCounts
  <2>5. lost' \in BOOLEAN /\ (waiters # <<>> => ~Exact')
    BY <2>1, Zenon DEF Exact
  <2>6. PoolTypes'
    BY <1>1, <2>1, <2>3, <2>5 DEF PoolTypes
  <2> QED BY <1>1, <1>3, <2>1, <2>2, <2>4, <2>5, <2>6 DEF Exact
<1>16. CASE LoopSpin(c)
  BY <1>16, PoolStutter DEF LoopSpin
<1> QED
  BY <1>4, <1>5, <1>6, <1>7, <1>8, <1>9, <1>10, <1>12, <1>13, <1>14, <1>15, <1>16 DEF GetCliStep

(* ~Instance and stop().                                                                  *)
LEMMA PoolReturn ==
  ASSUME PoolInv, NEW c \in Co, Release(c) \/ Drop(c) \/ Stop(c)
  PROVE  PoolInv'
<1> USE DEF Runs, Goto
<1>1. /\ LocalInv /\ next = <<>> /\ PoolTypes /\ PoolCounts /\ PoolWaits
      /\ at \in [Co -> At] /\ lost \in BOOLEAN
      /\ idle \in Nat /\ uncounted \in Nat /\ m_connected \in Nat /\ m_used \in Nat
      /\ uncounted <= MaxDead /\ MaxDead \in Nat
      /\ MaxClients \in Nat \ {0} /\ pc \in [Co -> LocalPc] /\ waiters \in Seq(Co)
  BY PoolAssumption DEF PoolInv, PoolTypes, PoolCounts, LocalInv, LocalTypeOK
<1>2. /\ Held \in Nat /\ Making \in Nat /\ Held + Making <= Cardinality(Co) /\ Cardinality(Co) \in Nat
      /\ Held' \in Nat /\ Making' \in Nat
  BY PoolBound
<1>3. "out" \in At
  BY DEF At
<1>4. ASSUME Runs(c), at[c] # "loop"
      PROVE  /\ pc[c] = "run" /\ \A d \in Co : pc[d] # "back"
             /\ \A i \in 1..Len(waiters) : waiters[i] \in Co /\ waiters[i] # c
  <2>1. stack[1] = c /\ 1 \in 1..Len(stack)
    BY <1>1, <1>4, Pop DEF Runs, LocalInv, LocalTypeOK
  <2>2. pc[c] = "run"
    BY <1>1, <1>4, <2>1 DEF LocalInv, StackOK, PoolWaits
  <2> QED BY <1>1, <1>4, <2>2 DEF LocalInv, StackOK, QueuesOK, Runs
<1>5. CASE Drop(c)
  <2>1. /\ Runs(c) /\ at[c] \in {"holds"} /\ max_connections = 0 /\ at' = [at EXCEPT ![c] = "out"]
        /\ UNCHANGED <<pc, stack, waiters, next, phase, max_connections, m_connected, m_connecting, m_used, idle, lost, uncounted>>
    BY <1>5 DEF Drop, Holders, localVars, Runs
  <2>2. Held' = Held - 1 /\ Making' = Making /\ at' \in [Co -> At] /\ Held' \in Nat
    BY <1>1, <1>3, <2>1, PoolMove
  <2>3. PoolCounts'
    BY <1>1, <1>2, <2>1, <2>2 DEF PoolCounts
  <2>4. PoolTypes'
    BY <1>1, <2>1, <2>2 DEF PoolTypes
  <2>5. LocalInv'
    BY <1>1, <2>1 DEF LocalInv, LocalTypeOK, StackOK, QueuesOK, Distinct
  <2>6. PoolWaits'
    BY <1>1, <1>4, <2>1 DEF PoolWaits, Exact
  <2> QED BY <1>1, <2>1, <2>3, <2>4, <2>5, <2>6 DEF PoolInv
<1>6. CASE Stop(c)
  <2>1. /\ Runs(c) /\ pc[c] = "run" /\ max_connections > 0 /\ max_connections' = 0 /\ idle' = 0
        /\ m_connected' = (IF m_connected > idle THEN m_connected - idle ELSE 0)
        /\ UNCHANGED <<pc, stack, waiters, next, phase, m_connecting, m_used, at, lost, uncounted>>
    BY <1>6 DEF Stop, localVars, Runs
  <2>2. Held' = Held /\ Making' = Making
    BY <2>1 DEF Held, Making, Holders, Connecting
  <2>3. max_connections = MaxClients /\ m_connected \in Nat
    BY <1>1, <2>1 DEF PoolCounts
  <2>4. m_connected' \in Nat /\ m_connected' <= m_connected /\ idle' = 0 /\ max_connections' # MaxClients
    BY <1>1, <1>2, <2>1, <2>3
  <2>5. PoolCounts'
    BY <1>1, <1>2, <2>1, <2>2, <2>4 DEF PoolCounts
  <2>6. PoolTypes'
    BY <1>1, <2>1, <2>4 DEF PoolTypes
  <2>7. LocalInv'
    BY <1>1, <2>1 DEF LocalInv, LocalTypeOK, StackOK, QueuesOK, Distinct
  <2>8. PoolWaits'
    BY <1>1, <2>1, <2>4 DEF PoolWaits, Exact
  <2> QED BY <1>1, <2>1, <2>5, <2>6, <2>7, <2>8 DEF PoolInv
<1>7. CASE Release(c)
  <2>1. /\ Runs(c) /\ at[c] \in {"holds"} /\ max_connections > 0
        /\ idle' = idle + 1 /\ m_used' = m_used - 1 /\ at' = [at EXCEPT ![c] = "out"]
        /\ ResumeInline(c) /\ lost' = (lost /\ waiters' # <<>>)
        /\ UNCHANGED <<max_connections, m_connected, m_connecting, uncounted>>
    BY <1>7 DEF Release, Holders, Runs
  <2>2. ResumeInline(c)
    BY <2>1 DEF ResumeInline, Runs, Goto
  <2>3. LocalInv' /\ next' = next
    BY <1>1, <2>2, Wakes DEF ResumeInline
  <2>4. Held' = Held - 1 /\ Making' = Making /\ at' \in [Co -> At] /\ Held' \in Nat
    BY <1>1, <1>3, <2>1, PoolMove
  <2>5. idle' \in Nat
    BY <1>1, <2>1
  <2>6. /\ max_connections = MaxClients /\ m_used = Held
        /\ m_connected <= Held + idle /\ Held + idle <= m_connected + uncounted
    BY <1>1, <2>1 DEF PoolCounts
  <2>7. PoolCounts'
    <3>1. m_connecting = Making /\ m_connected + Making <= MaxClients
      BY <1>1 DEF PoolCounts
    <3>2. /\ m_used' = Held' /\ m_connecting' = Making'
          /\ m_connected' <= Held' + idle' /\ Held' + idle' <= m_connected' + uncounted'
          /\ m_connected' + Making' <= MaxClients
      <4>1. Held' + idle' = Held + idle
        BY <1>1, <1>2, <2>1, <2>4, <2>5, SumStays
      <4>2. m_used' = Held' /\ m_connecting' = Making'
        BY <2>1, <2>4, <2>6, <3>1
      <4> QED BY <2>1, <2>4, <2>6, <3>1, <4>1, <4>2
    <3> QED BY <1>1, <2>1, <2>5, <2>6, <3>2, PoolOpenCounts
  <2>8. lost' \in BOOLEAN /\ (Exact' /\ waiters' # <<>> => Exact)
    BY <1>1, <2>1, Zenon DEF Exact
  <2>9. PoolTypes'
    BY <1>1, <2>1, <2>4, <2>5, <2>8 DEF PoolTypes
  <2>10. /\ pc[c] = "run" /\ \A d \in Co : pc[d] # "back"
         /\ \A i \in 1..Len(waiters) : waiters[i] \in Co /\ waiters[i] # c
    BY <1>4, <2>1
  <2>11. CASE waiters = <<>>
    <3>1. waiters' = <<>> /\ Len(waiters') = 0 /\ pc' = [pc EXCEPT ![c] = "run"]
      BY <2>2, <2>11 DEF ResumeInline, Goto
    <3>2. pc' = pc
      BY <1>1, <2>10, <3>1
    <3>3. PoolWaits'
      BY <2>10, <3>1, <3>2 DEF PoolWaits
    <3> QED BY <1>1, <2>3, <2>7, <2>9, <3>3 DEF PoolInv
  <2>12. CASE waiters # <<>>
    <3> DEFINE h == Head(waiters)
    <3>1. /\ pc' = [pc EXCEPT ![c] = "run", ![h] = "back"] /\ waiters' = Tail(waiters)
      BY <2>2, <2>12 DEF ResumeInline
    <3>2. /\ Len(waiters) \in Nat \ {0} /\ Len(Tail(waiters)) = Len(waiters) - 1
          /\ h = waiters[1] /\ h \in Co
          /\ \A i \in 1..Len(waiters) - 1 : Tail(waiters)[i] = waiters[i + 1]
      BY <1>1, <2>12, Pop
    <3> HIDE DEF h
    <3>3. at[h] = "loop" /\ h # c
      BY <1>1, <2>10, <3>2 DEF PoolWaits
    <3>4. /\ pc'[h] = "back" /\ \A d \in Co : d # h => pc'[d] # "back"
          /\ at'[h] = "loop"
      BY <1>1, <2>1, <2>10, <3>1, <3>2, <3>3
    <3>5. \A i \in 1..Len(waiters') : at'[waiters'[i]] = "loop"
      <4> TAKE i \in 1..Len(waiters')
      <4>1. waiters'[i] = waiters[i + 1] /\ i + 1 \in 1..Len(waiters)
        BY <3>1, <3>2
      <4> QED BY <1>1, <2>1, <2>10, <4>1 DEF PoolWaits
    <3>6. waiters' # <<>> /\ Exact' => /\ m_connected' + m_connecting' = MaxClients
                                      /\ idle' = 1
      BY <1>1, <1>2, <2>1, <2>5, <2>6, <2>8, <2>10, <2>12 DEF PoolWaits
    <3>7. PoolWaits'
      BY <3>2, <3>4, <3>5, <3>6 DEF PoolWaits
    <3> QED BY <1>1, <2>3, <2>7, <2>9, <3>7 DEF PoolInv
  <2> QED BY <2>11, <2>12
<1> QED BY <1>5, <1>6, <1>7

(* The loop, and coroutines that start, are resumed or await something else.   *)
LEMMA PoolOther ==
  ASSUME PoolInv,
         \/ \E c \in Co : (Start(c) \/ IoReady(c)) /\ UNCHANGED poolVars
         \/ \E c \in Co : UserWait(c)
         \/ PoolLoop
  PROVE  PoolInv'
<1> USE DEF Runs, Goto
<1>1. /\ LocalInv /\ next = <<>> /\ PoolTypes /\ PoolCounts /\ PoolWaits
      /\ at \in [Co -> At] /\ lost \in BOOLEAN
      /\ MaxClients \in Nat \ {0} /\ pc \in [Co -> LocalPc] /\ waiters \in Seq(Co)
  BY PoolAssumption DEF PoolInv, PoolTypes, LocalInv, LocalTypeOK
<1>2. ASSUME UNCHANGED poolVars
      PROVE  PoolCounts' /\ PoolTypes'
  BY <1>1, <1>2 DEF poolVars, PoolCounts, PoolTypes, Held, Making, Holders, Connecting
<1>3. ASSUME NEW c \in Co, (Start(c) \/ IoReady(c)) /\ UNCHANGED poolVars
      PROVE  PoolInv'
  <2>1. /\ pc[c] \in {"new", "io"} /\ stack = <<>> /\ pc' = [pc EXCEPT ![c] = "run"]
        /\ UNCHANGED <<waiters, next>> /\ stack' = <<c>> /\ phase' \in {"start", "callback"}
    BY <1>1, <1>3 DEF Start, IoReady, LocalInv, StackOK
  <2>2. LocalInv'
    BY <1>1, <2>1, Begins
  <2>3. \A d \in Co : pc'[d] # "back" /\ pc[d] # "back"
    BY <1>1, <2>1 DEF LocalInv, StackOK
  <2>4. PoolWaits'
    BY <1>1, <1>3, <2>1, <2>3 DEF PoolWaits, poolVars, Exact
  <2> QED BY <1>1, <1>2, <1>3, <2>1, <2>2, <2>4 DEF PoolInv
<1>4. ASSUME NEW c \in Co, UserWait(c)
      PROVE  PoolInv'
  <2>1. /\ pc[c] = "run" /\ Runs(c) /\ pc' = [pc EXCEPT ![c] = "io"]
        /\ UNCHANGED <<waiters, next, phase>> /\ stack' = Tail(stack) /\ UNCHANGED poolVars
    BY <1>4 DEF UserWait, IoWait, Runs
  <2>2. LocalInv'
    BY <1>1, <2>1, Leaves
  <2>3. \A d \in Co : pc'[d] # "back" /\ pc[d] # "back"
    BY <1>1, <2>1, Alone
  <2>4. PoolWaits'
    BY <1>1, <2>1, <2>3 DEF PoolWaits, poolVars, Exact
  <2> QED BY <1>1, <1>2, <2>1, <2>2, <2>4 DEF PoolInv
<1>5. CASE PoolLoop
  <2>1. LoopStep
    BY <1>5 DEF PoolLoop
  <2>2. LocalInv'
    BY <1>1, <2>1, Loops
  <2>3. UNCHANGED <<pc, waiters, next>>
    BY <1>1, <2>1 DEF LoopStep, EnterLoop, LocalResume, EndCallback
  <2>4. UNCHANGED poolVars
    BY <1>5 DEF PoolLoop
  <2>5. PoolWaits'
    BY <1>1, <2>3, <2>4 DEF PoolWaits, poolVars, Exact
  <2> QED BY <1>1, <1>2, <2>2, <2>3, <2>4, <2>5 DEF PoolInv
<1> QED BY <1>3, <1>4, <1>5

LEMMA PoolInvariant == PoolSpec => []PoolInv
<1>1. PoolInit => PoolInv
  <2> SUFFICES ASSUME PoolInit
               PROVE  PoolInv
    OBVIOUS
  <2>1. LocalInv /\ waiters = <<>> /\ next = <<>> /\ \A c \in Co : pc[c] = "new"
    BY LocalInitially DEF PoolInit, LocalInit
  <2>2. /\ max_connections = MaxClients /\ m_connected = 0 /\ m_connecting = 0 /\ m_used = 0 /\ idle = 0
        /\ at = [c \in Co |-> "out"] /\ lost = FALSE /\ uncounted = 0
    BY DEF PoolInit
  <2>3. PoolTypes /\ idle = 0
    <3>1. lost \in BOOLEAN
      BY <2>2, Zenon
    <3> QED BY <2>2, <3>1, PoolAssumption DEF PoolTypes, At
  <2>4. Holders = {} /\ Connecting = {}
    BY <2>2 DEF Holders, Connecting
  <2>5. Held = 0 /\ Making = 0
    BY <2>4, FS_EmptySet DEF Held, Making
  <2>6. Cardinality(Co) \in Nat /\ MaxClients \in Nat \ {0} /\ MaxDead \in Nat
    BY FS_CardinalityType, PoolAssumption
  <2>7. PoolCounts
    BY <2>2, <2>3, <2>5, <2>6 DEF PoolCounts
  <2>8. PoolWaits
    BY <2>1, <2>3 DEF PoolWaits
  <2> QED BY <2>1, <2>3, <2>7, <2>8 DEF PoolInv
<1>2. PoolInv /\ [PoolNext]_allPoolVars => PoolInv'
  <2> SUFFICES ASSUME PoolInv, [PoolNext]_allPoolVars
               PROVE  PoolInv'
    OBVIOUS
  <2>1. ASSUME NEW c \in Co, PoolStep(c)
        PROVE  PoolInv'
    <3>1. CASE ((Start(c) \/ IoReady(c)) /\ UNCHANGED poolVars) \/ UserWait(c)
      BY <3>1, PoolOther
    <3>2. CASE GetCli(c) \/ GetCliStep(c)
      BY <3>2, PoolGetCli
    <3>3. CASE Release(c) \/ Drop(c) \/ Stop(c)
      BY <3>3, PoolReturn
    <3> QED BY <2>1, <3>1, <3>2, <3>3 DEF PoolStep
  <2>2. CASE PoolLoop
    BY <2>2, PoolOther
  <2>3. CASE UNCHANGED allPoolVars
    BY <2>3, PoolStutter
  <2> QED BY <2>1, <2>2, <2>3 DEF PoolNext
<1> QED BY <1>1, <1>2, PTL DEF PoolSpec

(* client_pool: for any number of coroutines, any max_connections and clients that come  *)
(* up dead at any time, m_used and m_connecting are exact while the pool is open;           *)
(* m_connected falls short of the clients there are, and the clients exceed                  *)
(* max_connections, by at most the number of times del() of an uncounted client lowered it    *)
(* (by nothing when it never did); no waiter sleeps next to an idle client unless a            *)
(* connection was lost or m_connected was lowered so.                                           *)
THEOREM PoolKept == PoolSpec => []PoolSafe
<1>1. PoolInv => PoolSafe
  <2> SUFFICES ASSUME PoolInv
               PROVE  PoolSafe
    OBVIOUS
  <2>1. /\ Held \in Nat /\ Making \in Nat /\ Held + Making <= Cardinality(Co) /\ Cardinality(Co) \in Nat
        /\ idle \in Nat /\ MaxClients \in Nat \ {0} /\ MaxDead \in Nat /\ uncounted \in 0..MaxDead
    BY PoolBound, PoolAssumption DEF PoolInv, PoolCounts
  <2>2. LocalTypeOK
    BY DEF PoolInv, LocalInv, LocalTypeOK, LocalPc
  <2>3. /\ max_connections \in {0, MaxClients} /\ m_connected \in 0..Cardinality(Co) + MaxClients
        /\ m_connecting \in 0..MaxClients /\ m_used \in 0..Cardinality(Co)
    BY <2>1 DEF PoolInv, PoolCounts
  <2>4. PoolTypeOK
    BY <2>1, <2>2, <2>3 DEF PoolTypeOK, PoolInv, PoolTypes
  <2>5. CountersMatch /\ Bounded
    <3>1. Cardinality(Holders) = Held /\ Cardinality(Connecting) = Making
      BY DEF Held, Making
    <3> QED BY <2>1, <3>1 DEF CountersMatch, Bounded, PoolInv, PoolCounts
  <2>6. NoWaiterWithIdle
    <3> SUFFICES ASSUME idle > 0, phase = "loop", waiters # <<>>, ~lost, ~(uncounted > 0)
                 PROVE  FALSE
      BY DEF NoWaiterWithIdle
    <3>1. idle # 0 /\ Exact
      BY <2>1 DEF Exact
    <3>2. \A c \in Co : pc[c] # "back"
      BY DEF PoolInv, LocalInv, StackOK
    <3> QED BY <3>1, <3>2 DEF PoolInv, PoolWaits
  <2> QED BY <2>4, <2>5, <2>6 DEF PoolSafe
<1> QED BY <1>1, PoolInvariant, PTL

(* client_pool::SQueue::get_cli: the loop goes round without an await only in a pool      *)
(* where del() of a client that was never counted has lowered m_connected; without that     *)
(* it never does.                                                                             *)
THEOREM GetCliAwaits == PoolSpec => []SpinsOnlyMiscounted
<1>1. PoolInv => SpinsOnlyMiscounted
  <2> SUFFICES ASSUME PoolInv, NEW c \in Co, Spins(c), ~(uncounted > 0)
               PROVE  FALSE
    BY DEF SpinsOnlyMiscounted
  <2>1. /\ Held \in Nat /\ Making \in Nat /\ MaxClients \in Nat \ {0} /\ MaxDead \in Nat /\ idle = 0
    BY PoolBound, PoolAssumption DEF Spins
  <2>2. /\ max_connections # 0 /\ m_connected + m_connecting >= max_connections
        /\ ~(m_used = m_connected /\ max_connections = m_connected + m_connecting)
    BY DEF Spins, MayTake, Full, Total
  <2> QED BY <2>1, <2>2 DEF PoolInv, PoolCounts
<1> QED BY <1>1, PoolInvariant, PTL

(***************************************************************************)
(* co_task                                                                   *)
(***************************************************************************)

(* GroupSafe is not inductive: that nobody outlives the wait needs that every task      *)
(* which runs or is suspended is loaded (destroy() and ~promise() unload before the       *)
(* frame goes), and that whoever waits on another object is such a task, once.               *)

\* The mode of the parent goes with where it stands.
ParentOK ==
  /\ m_waiter <=> pc[parent] = "parked"
  /\ m_waiter => Loaded # {}
  /\ mode = "load" <=> pc[parent] \in {"new", "run", "io"}
  /\ mode = "returned" <=> pc[parent] = "done"
  /\ pc[parent] # "gone"

\* Whoever is alive is loaded; once the parent has returned nobody is.
AliveOK ==
  /\ \A t \in Tasks : pc[t] \in {"run", "io", "parked", "back"} => t \in Loaded
  /\ mode = "returned" => Loaded = {}

\* Whoever waits on another object is a suspended task, in its queue once.
ParkedOK ==
  /\ \A i \in 1..Len(waiters) : waiters[i] \in Tasks /\ pc[waiters[i]] = "parked"
  /\ Distinct(waiters)
  /\ next = <<>>

TaskInv == TaskTypeOK /\ IdsIdentify /\ ParentOK /\ AliveOK /\ ParkedOK

(* The invariant before the thread starts.                                          *)
LEMMA TaskInitially == TaskInit => TaskInv
<1> SUFFICES ASSUME TaskInit PROVE TaskInv
  OBVIOUS
<1> USE CoTaskAssumption
<1>1. LocalInit /\ m_promises = <<>> /\ m_ids = {} /\ m_id = 0 /\ m_waiter = FALSE
      /\ mode = "load" /\ completed = {} /\ winner = 0 /\ result = 0
  BY DEF TaskInit
<1>2. DOMAIN m_promises = {}
  BY <1>1
<1>3. TaskTypeOK
  <2>1. LocalTypeOK
    BY <1>1 DEF LocalInit, LocalTypeOK, LocalPc
  <2>2. 0 \in Ids
    BY DEF Ids
  <2> QED BY <1>1, <1>2, <2>1, <2>2 DEF TaskTypeOK
<1>4. IdsIdentify
  BY <1>1, <1>2 DEF IdsIdentify, Loaded
<1>5. ParentOK
  BY <1>1 DEF LocalInit, ParentOK
<1>6. AliveOK
  BY <1>1 DEF LocalInit, AliveOK, Tasks
<1>7. ParkedOK
  BY <1>1 DEF LocalInit, ParkedOK, Distinct
<1> QED BY <1>3, <1>4, <1>5, <1>6, <1>7 DEF TaskInv

(* The invariant says all that a reader of co_task wants to know.                        *)
LEMMA TaskInvSafe == TaskInv => GroupSafe
<1> SUFFICES ASSUME TaskInv PROVE GroupSafe
  OBVIOUS
<1>1. NothingSurvives
  <2> SUFFICES ASSUME mode = "returned"
               PROVE  /\ \A t \in Tasks : pc[t] \in {"new", "done", "gone"}
                      /\ waiters = <<>>
    BY DEF NothingSurvives
  <2>1. Loaded = {}
    BY DEF TaskInv, AliveOK
  <2>2. \A t \in Tasks : pc[t] \in {"new", "done", "gone"}
    BY <2>1 DEF TaskInv, AliveOK, TaskTypeOK, LocalTypeOK, LocalPc, Tasks
  <2>3. waiters \in Seq(Co) /\ \A i \in 1..Len(waiters) : FALSE
    BY <2>2 DEF TaskInv, ParkedOK, TaskTypeOK, LocalTypeOK
  <2> QED BY <2>2, <2>3
<1> QED BY <1>1 DEF TaskInv, GroupSafe, WaiterHasTask, ParentOK

(* A step of one coroutine that leaves every task loaded as it was and takes nobody       *)
(* to or from the queue: c goes from where to where.                                         *)
LEMMA Steps ==
  ASSUME TaskInv, NEW t \in Tasks, NEW w \in {"run", "io", "done"},
         t \in Loaded, pc[t] # "parked",
         pc' = [pc EXCEPT ![t] = w], stack' \in Seq(Co), phase' \in {"start", "loop", "callback"},
         UNCHANGED <<waiters, next, taskVars>>
  PROVE  TaskInv'
<1>0. UNCHANGED taskVars /\ UNCHANGED <<m_promises, m_ids, m_id, m_waiter, mode, completed, winner, result>>
  BY DEF taskVars
<1>1. pc \in [Co -> LocalPc] /\ t \in Co /\ t # parent /\ parent \in Co
  BY CoTaskAssumption DEF TaskInv, TaskTypeOK, LocalTypeOK, Tasks
<1>2. /\ \A d \in Co : d # t => pc'[d] = pc[d]
      /\ pc'[t] = w
  BY <1>1
<1>3. TaskTypeOK'
  BY <1>0, <1>1 DEF TaskInv, TaskTypeOK, LocalTypeOK, LocalPc
<1>4. IdsIdentify'
  BY <1>0 DEF TaskInv, IdsIdentify, Loaded
<1>5. ParentOK'
  BY <1>0, <1>1, <1>2 DEF TaskInv, ParentOK, Loaded
<1>6. AliveOK'
  BY <1>0, <1>1, <1>2 DEF TaskInv, AliveOK, Loaded, Tasks
<1>7. ParkedOK'
  BY <1>0, <1>1, <1>2 DEF TaskInv, ParkedOK, Tasks, Distinct
<1> QED BY <1>3, <1>4, <1>5, <1>6, <1>7 DEF TaskInv

(* The parent moves before it waits.                                                     *)
LEMMA ParentSteps ==
  ASSUME TaskInv, NEW w \in {"run", "io"}, mode = "load",
         pc' = [pc EXCEPT ![parent] = w], stack' \in Seq(Co), phase' \in {"start", "loop", "callback"},
         UNCHANGED <<waiters, next, taskVars>>
  PROVE  TaskInv'
<1>0. UNCHANGED <<m_promises, m_ids, m_id, m_waiter, mode, completed, winner, result>>
  BY DEF taskVars
<1>1. pc \in [Co -> LocalPc] /\ parent \in Co
  BY CoTaskAssumption DEF TaskInv, TaskTypeOK, LocalTypeOK
<1>2. /\ \A d \in Co : d # parent => pc'[d] = pc[d]
      /\ pc'[parent] = w
  BY <1>1
<1>3. TaskTypeOK'
  BY <1>0, <1>1 DEF TaskInv, TaskTypeOK, LocalTypeOK, LocalPc
<1>4. IdsIdentify'
  BY <1>0 DEF TaskInv, IdsIdentify, Loaded
<1>5. pc[parent] \in {"new", "run", "io"}
  BY DEF TaskInv, ParentOK
<1>6. ParentOK'
  BY <1>0, <1>1, <1>2, <1>5 DEF TaskInv, ParentOK, Loaded
<1>7. AliveOK'
  BY <1>0, <1>1, <1>2 DEF TaskInv, AliveOK, Loaded, Tasks
<1>8. ParkedOK'
  BY <1>0, <1>1, <1>2 DEF TaskInv, ParkedOK, Tasks, Distinct
<1> QED BY <1>3, <1>4, <1>6, <1>7, <1>8 DEF TaskInv
(* A task waits on another object's co_async.                                            *)
LEMMA TaskParks ==
  ASSUME TaskInv, NEW t \in Tasks, t \in Loaded, pc[t] = "run",
         waiters' = Append(waiters, t), pc' = [pc EXCEPT ![t] = "parked"],
         stack' \in Seq(Co), UNCHANGED <<next, phase, taskVars>>
  PROVE  TaskInv'
<1>0. UNCHANGED <<m_promises, m_ids, m_id, m_waiter, mode, completed, winner, result>>
  BY DEF taskVars
<1>1. pc \in [Co -> LocalPc] /\ t \in Co /\ t # parent /\ parent \in Co /\ waiters \in Seq(Co)
  BY CoTaskAssumption DEF TaskInv, TaskTypeOK, LocalTypeOK, Tasks
<1>2. /\ \A d \in Co : d # t => pc'[d] = pc[d]
      /\ pc'[t] = "parked"
  BY <1>1
<1>3. /\ waiters' \in Seq(Co) /\ Len(waiters') = Len(waiters) + 1 /\ Len(waiters) \in Nat
      /\ waiters'[Len(waiters) + 1] = t
      /\ \A i \in 1..Len(waiters) : waiters'[i] = waiters[i]
  BY <1>1, Join
<1>4. TaskTypeOK'
  BY <1>0, <1>1, <1>3 DEF TaskInv, TaskTypeOK, LocalTypeOK, LocalPc
<1>5. IdsIdentify'
  BY <1>0 DEF TaskInv, IdsIdentify, Loaded
<1>6. ParentOK'
  BY <1>0, <1>1, <1>2 DEF TaskInv, ParentOK, Loaded
<1>7. AliveOK'
  BY <1>0, <1>1, <1>2 DEF TaskInv, AliveOK, Loaded, Tasks
<1>8. \A i \in 1..Len(waiters) : waiters[i] \in Tasks /\ waiters[i] # t /\ pc[waiters[i]] = "parked"
  BY DEF TaskInv, ParkedOK
<1>9. ParkedOK'
  <2>1. \A i \in 1..Len(waiters') : waiters'[i] \in Tasks /\ pc'[waiters'[i]] = "parked"
    <3> TAKE i \in 1..Len(waiters')
    <3>1. CASE i = Len(waiters) + 1
      BY <3>1, <1>2, <1>3
    <3>2. CASE i \in 1..Len(waiters)
      BY <3>2, <1>2, <1>3, <1>8 DEF Tasks
    <3> QED BY <3>1, <3>2, <1>3
  <2>2. Distinct(waiters')
    BY <1>3, <1>8 DEF TaskInv, ParkedOK, Distinct
  <2> QED BY <2>1, <2>2 DEF TaskInv, ParkedOK
<1> QED BY <1>4, <1>5, <1>6, <1>7, <1>9 DEF TaskInv

(* The first that waits on another object is woken.                                      *)
LEMMA TaskWoken ==
  ASSUME TaskInv, waiters # <<>>, pc' = [pc EXCEPT ![Head(waiters)] = "back"],
         waiters' = Tail(waiters), stack' \in Seq(Co), phase' \in {"start", "loop", "callback"},
         UNCHANGED <<next, taskVars>>
  PROVE  TaskInv'
<1>0. UNCHANGED <<m_promises, m_ids, m_id, m_waiter, mode, completed, winner, result>>
  BY DEF taskVars
<1>1. pc \in [Co -> LocalPc] /\ waiters \in Seq(Co)
  BY DEF TaskInv, TaskTypeOK, LocalTypeOK
<1>2. PICK h : h = Head(waiters)
  OBVIOUS
<1>3. /\ waiters' \in Seq(Co) /\ Len(waiters) \in Nat \ {0}
      /\ Len(waiters') = Len(waiters) - 1
      /\ h = waiters[1] /\ h \in Co
      /\ \A i \in 1..Len(waiters) - 1 : waiters'[i] = waiters[i + 1]
      /\ \A i \in 1..Len(waiters) : waiters[i] \in Co
  BY <1>1, <1>2, Pop
<1>4. h \in Tasks /\ pc[h] = "parked" /\ h # parent /\ parent \in Co
  BY <1>3, CoTaskAssumption DEF TaskInv, ParkedOK, Tasks
<1>5. /\ \A d \in Co : d # h => pc'[d] = pc[d]
      /\ pc'[h] = "back"
  BY <1>1, <1>2, <1>3
<1>6. TaskTypeOK'
  BY <1>0, <1>1, <1>2, <1>3 DEF TaskInv, TaskTypeOK, LocalTypeOK, LocalPc
<1>7. IdsIdentify'
  BY <1>0 DEF TaskInv, IdsIdentify, Loaded
<1>8. ParentOK'
  BY <1>0, <1>4, <1>5 DEF TaskInv, ParentOK, Loaded
<1>9. AliveOK'
  BY <1>0, <1>4, <1>5 DEF TaskInv, AliveOK, Loaded, Tasks
<1>10. \A i \in 2..Len(waiters) : waiters[i] # h
  BY <1>3 DEF TaskInv, ParkedOK, Distinct
<1>11. ParkedOK'
  <2>1. \A i \in 1..Len(waiters') : waiters'[i] \in Tasks /\ pc'[waiters'[i]] = "parked"
    <3> TAKE i \in 1..Len(waiters')
    <3>1. waiters'[i] = waiters[i + 1] /\ i + 1 \in 2..Len(waiters) /\ i + 1 \in 1..Len(waiters)
      BY <1>3
    <3>2. pc[waiters[i + 1]] = "parked" /\ waiters[i + 1] \in Tasks
      BY <3>1 DEF TaskInv, ParkedOK
    <3> QED BY <3>1, <3>2, <1>3, <1>5, <1>10
  <2>2. Distinct(waiters')
    BY <1>3 DEF TaskInv, ParkedOK, Distinct
  <2> QED BY <2>1, <2>2 DEF TaskInv, ParkedOK
<1> QED BY <1>6, <1>7, <1>8, <1>9, <1>11 DEF TaskInv

(* co_task::load: a fresh id for a task that is not alive.                              *)
LEMMA LoadInv ==
  ASSUME TaskInv, NEW t \in Tasks, Load(t)
  PROVE  TaskInv'
<1>1. /\ stack # <<>> /\ Head(stack) = parent /\ pc[parent] = "run" /\ mode = "load"
      /\ m_id < MaxLoads /\ t \notin Loaded /\ m_id' = m_id + 1
      /\ m_ids' = m_ids \cup {m_id'}
      /\ m_promises' = [u \in Loaded \cup {t} |-> IF u = t THEN m_id' ELSE m_promises[u]]
      /\ completed' = completed \ {t}
      /\ pc' = [pc EXCEPT ![t] = "run"] /\ stack' = <<t>> \o stack
      /\ UNCHANGED <<waiters, next, phase, m_waiter, mode, winner, result>>
      /\ pc[t] \in {"new", "done", "gone"}
  BY DEF Load, Increase, Goto, Runs
<1>2. /\ pc \in [Co -> LocalPc] /\ t \in Co /\ t # parent /\ parent \in Co
      /\ stack \in Seq(Co) /\ m_id \in Ids /\ m_ids \subseteq Ids /\ Loaded \subseteq Tasks
      /\ \A u \in Loaded : m_promises[u] \in Ids
      /\ MaxLoads \in Nat
  BY CoTaskAssumption DEF TaskInv, TaskTypeOK, LocalTypeOK, Tasks, Loaded
<1>3. /\ Loaded' = Loaded \cup {t} /\ m_promises'[t] = m_id'
      /\ \A u \in Loaded : m_promises'[u] = m_promises[u]
  BY <1>1 DEF Loaded
<1>4. m_id' \in Ids /\ m_id' > m_id /\ \A i \in Ids : i <= m_id => i # m_id' /\ i <= m_id'
  BY <1>1, <1>2 DEF Ids
<1>5. /\ \A d \in Co : d # t => pc'[d] = pc[d]
      /\ pc'[t] = "run"
  BY <1>1, <1>2
<1>6. stack' \in Seq(Co)
  BY <1>1, <1>2, Push
<1>7. TaskTypeOK'
  <2>1. LocalTypeOK'
    BY <1>1, <1>2, <1>6 DEF TaskInv, TaskTypeOK, LocalTypeOK, LocalPc
  <2>2. DOMAIN m_promises' \subseteq Tasks /\ \A u \in DOMAIN m_promises' : m_promises'[u] \in Ids
    BY <1>2, <1>3, <1>4 DEF Loaded
  <2>3. m_ids' \subseteq Ids /\ completed' \subseteq Tasks
    BY <1>1, <1>2, <1>4 DEF TaskInv, TaskTypeOK
  <2> QED BY <1>1, <1>4, <2>1, <2>2, <2>3 DEF TaskInv, TaskTypeOK, Ids
<1>8. IdsIdentify'
  <2>1. \A u \in Loaded : m_promises[u] \in m_ids /\ m_promises[u] <= m_id
    BY DEF TaskInv, IdsIdentify
  <2>2. \A u \in Loaded : m_promises'[u] # m_id' /\ m_promises'[u] \in m_ids'
    BY <1>1, <1>2, <1>3, <1>4, <2>1
  <2>3. \A u, v \in Loaded' : m_promises'[u] = m_promises'[v] => u = v
    BY <1>3, <2>2 DEF TaskInv, IdsIdentify
  <2>4. \A u \in Loaded' : m_promises'[u] \in m_ids'
    BY <1>1, <1>3, <2>2
  <2>5. \A i \in m_ids' : i <= m_id'
    BY <1>1, <1>2, <1>4 DEF TaskInv, IdsIdentify, Ids
  <2> QED BY <2>3, <2>4, <2>5 DEF IdsIdentify
<1>9. ParentOK'
  BY <1>1, <1>2, <1>3, <1>5 DEF TaskInv, ParentOK
<1>10. AliveOK'
  <2>1. \A u \in Tasks : pc'[u] \in {"run", "io", "parked", "back"} => u \in Loaded'
    BY <1>2, <1>3, <1>5 DEF TaskInv, AliveOK, Tasks
  <2> QED BY <1>1, <2>1 DEF AliveOK
<1>11. ParkedOK'
  <2>1. \A i \in 1..Len(waiters) : waiters[i] \in Tasks /\ pc[waiters[i]] = "parked" /\ waiters[i] # t
    BY <1>1 DEF TaskInv, ParkedOK
  <2> QED BY <1>1, <1>5, <2>1 DEF TaskInv, ParkedOK, Tasks, Distinct
<1> QED BY <1>7, <1>8, <1>9, <1>10, <1>11 DEF TaskInv

(* What Restrict leaves of the promises.                                                *)
LEMMA Unloads ==
  ASSUME NEW T, m_promises' = Restrict(m_promises, Loaded \ T)
  PROVE  /\ Loaded' = Loaded \ T
         /\ \A u \in Loaded' : m_promises'[u] = m_promises[u]
  BY DEF Restrict, Loaded

(* co_task::destroy(id): the task is unloaded and leaves the queue it waited in.             *)
LEMMA DestroyInv ==
  ASSUME TaskInv, NEW t \in Tasks, DestroyById(t)
  PROVE  TaskInv'
<1>1. /\ mode = "load" /\ t \in Loaded
      /\ pc' = [c \in Co |-> IF c \in {t} THEN "gone" ELSE pc[c]]
      /\ waiters' = Only(waiters, Co \ {t})
      /\ m_promises' = Restrict(m_promises, Loaded \ {t})
      /\ UNCHANGED <<stack, next, phase, m_ids, m_id, m_waiter, mode, completed, winner, result>>
  BY DEF DestroyById, DestroyTasks
<1>2. /\ pc \in [Co -> LocalPc] /\ t \in Co /\ t # parent /\ parent \in Co
      /\ waiters \in Seq(Co) /\ Distinct(waiters)
  BY CoTaskAssumption DEF TaskInv, TaskTypeOK, LocalTypeOK, Tasks, ParkedOK
<1>3. /\ Loaded' = Loaded \ {t}
      /\ \A u \in Loaded' : m_promises'[u] = m_promises[u]
  BY <1>1, Unloads
<1>4. /\ \A d \in Co : d # t => pc'[d] = pc[d]
      /\ pc'[t] = "gone" /\ pc' \in [Co -> LocalPc]
  BY <1>1, <1>2 DEF LocalPc
<1>5. /\ waiters' \in Seq(Co) /\ Distinct(waiters')
      /\ \A k \in 1..Len(waiters') : \E i \in 1..Len(waiters) :
           waiters'[k] = waiters[i] /\ waiters[i] \in Co \ {t}
  BY ZenonT(60), <1>1, <1>2, OnlyKeeps
<1>6. TaskTypeOK'
  <2>1. LocalTypeOK'
    BY <1>1, <1>4, <1>5 DEF TaskInv, TaskTypeOK, LocalTypeOK
  <2>2. DOMAIN m_promises' \subseteq Tasks /\ \A u \in DOMAIN m_promises' : m_promises'[u] \in Ids
    BY <1>3 DEF TaskInv, TaskTypeOK, Loaded
  <2> QED BY <1>1, <2>1, <2>2 DEF TaskInv, TaskTypeOK
<1>7. IdsIdentify'
  BY <1>1, <1>3 DEF TaskInv, IdsIdentify
<1>8. ParentOK'
  BY <1>1, <1>2, <1>4 DEF TaskInv, ParentOK
<1>9. AliveOK'
  <2>1. \A u \in Tasks : pc'[u] \in {"run", "io", "parked", "back"} => u \in Loaded'
    BY <1>2, <1>3, <1>4 DEF TaskInv, AliveOK, Tasks
  <2> QED BY <1>1, <2>1 DEF AliveOK
<1>10. ParkedOK'
  <2>1. \A k \in 1..Len(waiters') : waiters'[k] \in Tasks /\ pc'[waiters'[k]] = "parked"
    <3> TAKE k \in 1..Len(waiters')
    <3>1. PICK i \in 1..Len(waiters) : waiters'[k] = waiters[i] /\ waiters[i] \in Co \ {t}
      BY <1>5
    <3>2. waiters[i] \in Tasks /\ pc[waiters[i]] = "parked"
      BY DEF TaskInv, ParkedOK
    <3> QED BY <3>1, <3>2, <1>4
  <2> QED BY <1>1, <1>5, <2>1 DEF TaskInv, ParkedOK
<1> QED BY <1>6, <1>7, <1>8, <1>9, <1>10 DEF TaskInv

(* wait() of a parent that was not parked: it suspends on a task or returns.              *)
LEMMA WaitInv ==
  ASSUME TaskInv, Runs(parent), pc[parent] \in {"run", "back"},
         NEW how \in {"any", "all"}, Wait(how)
  PROVE  TaskInv'
<1>1. UNCHANGED <<waiters, next, phase, m_promises, m_ids, m_id, completed, winner>>
  BY DEF Wait
<1>2. PICK w \in {"parked", "done"} :
        /\ pc' = [pc EXCEPT ![parent] = w] /\ stack' = Tail(stack)
        /\ w = "parked" => mode' = how /\ m_waiter' = TRUE /\ Loaded # {} /\ result' = result
        /\ w = "done" => mode' = "returned" /\ m_waiter' = m_waiter /\ Loaded = {} /\ result' = 0
  BY DEF Wait, Goto
<1>3. /\ pc \in [Co -> LocalPc] /\ parent \in Co /\ stack \in Seq(Co) /\ stack # <<>>
      /\ ~m_waiter /\ m_waiter \in BOOLEAN
  BY CoTaskAssumption DEF TaskInv, TaskTypeOK, LocalTypeOK, ParentOK, Runs
<1>4. /\ \A d \in Co : d # parent => pc'[d] = pc[d]
      /\ pc'[parent] = w
  BY <1>2, <1>3
<1>5. Loaded' = Loaded
  BY <1>1 DEF Loaded
<1>6. TaskTypeOK'
  <2>1. LocalTypeOK'
    BY <1>1, <1>2, <1>3 DEF TaskInv, TaskTypeOK, LocalTypeOK, LocalPc
  <2>2. mode' \in {"load", "any", "all", "returned"} /\ m_waiter' \in BOOLEAN
    BY <1>2, <1>3
  <2>3. result' \in Ids
    BY <1>2, CoTaskAssumption DEF TaskInv, TaskTypeOK, Ids
  <2> QED BY <1>1, <2>1, <2>2, <2>3 DEF TaskInv, TaskTypeOK
<1>7. IdsIdentify'
  BY <1>1, <1>5 DEF TaskInv, IdsIdentify
<1>8. ParentOK'
  BY <1>2, <1>3, <1>4, <1>5 DEF ParentOK
<1>9. AliveOK'
  BY <1>2, <1>3, <1>4, <1>5 DEF TaskInv, AliveOK, Tasks
<1>10. ParkedOK'
  BY <1>1, <1>3, <1>4 DEF TaskInv, ParkedOK, Tasks, Distinct
<1> QED BY <1>6, <1>7, <1>8, <1>9, <1>10 DEF TaskInv

(* wait_for_any() woken: every other task goes, and whoever waited goes with it.            *)
LEMMA ReturnAnyInv ==
  ASSUME TaskInv, ReturnAny
  PROVE  TaskInv'
<1>1. /\ pc[parent] = "back" /\ stack # <<>>
      /\ pc' = [c \in Co |-> IF c = parent THEN "done" ELSE IF c \in Loaded THEN "gone" ELSE pc[c]]
      /\ waiters' = Only(waiters, Co \ Loaded)
      /\ m_promises' = <<>>
      /\ mode' = "returned" /\ stack' = Tail(stack)
      /\ UNCHANGED <<next, phase, m_ids, m_id, m_waiter, completed, winner, result>>
  BY DEF ReturnAny, Runs
<1>2. /\ pc \in [Co -> LocalPc] /\ parent \in Co /\ stack \in Seq(Co)
      /\ waiters \in Seq(Co) /\ Distinct(waiters)
  BY CoTaskAssumption DEF TaskInv, TaskTypeOK, LocalTypeOK, ParkedOK
<1>3. DOMAIN m_promises' = {} /\ Loaded' = {}
  BY <1>1 DEF Loaded
<1>4. /\ pc'[parent] = "done" /\ pc' \in [Co -> LocalPc]
      /\ \A d \in Tasks : pc'[d] = IF d \in Loaded THEN "gone" ELSE pc[d]
  BY <1>1, <1>2 DEF LocalPc, Tasks
<1>5. /\ waiters' \in Seq(Co) /\ Distinct(waiters')
      /\ \A k \in 1..Len(waiters') : \E i \in 1..Len(waiters) :
           waiters'[k] = waiters[i] /\ waiters[i] \in Co \ Loaded
  BY ZenonT(60), <1>1, <1>2, OnlyKeeps
<1>6. \A i \in 1..Len(waiters) : waiters[i] \in Loaded
  BY DEF TaskInv, ParkedOK, AliveOK
<1>7. \A k \in 1..Len(waiters') : FALSE
  BY <1>5, <1>6
<1>8. TaskTypeOK'
  <2>1. LocalTypeOK'
    BY <1>1, <1>2, <1>4, <1>5 DEF TaskInv, TaskTypeOK, LocalTypeOK
  <2> QED BY <1>1, <1>3, <2>1 DEF TaskInv, TaskTypeOK
<1>9. IdsIdentify'
  BY <1>1, <1>3 DEF TaskInv, IdsIdentify
<1>10. ParentOK'
  BY <1>1, <1>4 DEF TaskInv, ParentOK
<1>11. AliveOK'
  BY <1>3, <1>4 DEF TaskInv, AliveOK
<1>12. ParkedOK'
  BY <1>1, <1>5, <1>7 DEF TaskInv, ParkedOK
<1> QED BY <1>8, <1>9, <1>10, <1>11, <1>12 DEF TaskInv
(* ~promise() and unload(): the task goes; a waiting parent runs in its place.              *)
LEMMA EndInv ==
  ASSUME TaskInv, NEW t \in Tasks, End(t)
  PROVE  TaskInv'
<1>1. /\ stack # <<>> /\ pc[t] = "run" /\ t \in Loaded
      /\ m_promises' = Restrict(m_promises, Loaded \ {t})
      /\ m_ids' = m_ids \ {m_promises[t]}
      /\ completed' = completed \cup {t}
      /\ UNCHANGED <<waiters, next, phase, m_id, mode>>
  BY DEF End, Runs
<1>2. /\ pc \in [Co -> LocalPc] /\ t \in Co /\ t # parent /\ parent \in Co /\ t \in Tasks
      /\ stack \in Seq(Co) /\ waiters \in Seq(Co) /\ m_promises[t] \in Ids /\ 0 \in Ids
      /\ m_waiter \in BOOLEAN
  BY <1>1, CoTaskAssumption DEF TaskInv, TaskTypeOK, LocalTypeOK, Tasks, Loaded, Ids
<1>3. /\ Loaded' = Loaded \ {t}
      /\ \A u \in Loaded' : m_promises'[u] = m_promises[u]
  BY <1>1, Unloads
<1>4. Tail(stack) \in Seq(Co)
  BY <1>1, <1>2, Pop
<1>5. /\ IF m_waiter
           THEN /\ m_waiter' = FALSE /\ winner' = m_promises[t] /\ result' = 0
                /\ pc' = [pc EXCEPT ![t] = "done", ![parent] = "back"]
                /\ stack' = <<parent>> \o Tail(stack)
           ELSE /\ pc' = [pc EXCEPT ![t] = "done"] /\ stack' = Tail(stack)
                /\ UNCHANGED <<m_waiter, winner, result>>
  BY DEF End, Goto
<1>6. stack' \in Seq(Co)
  <2>1. CASE m_waiter
    <3>1. <<parent>> \o Tail(stack) \in Seq(Co)
      BY <1>2, <1>4, Push
    <3> QED BY <2>1, <3>1, <1>5
  <2>2. CASE ~m_waiter
    BY <2>2, <1>4, <1>5
  <2> QED BY <2>1, <2>2
<1>7. /\ \A d \in Tasks : d # t => pc'[d] = pc[d]
      /\ pc'[t] = "done"
      /\ m_waiter => pc'[parent] = "back"
      /\ ~m_waiter => pc'[parent] = pc[parent]
      /\ pc' \in [Co -> LocalPc]
  BY <1>2, <1>5 DEF LocalPc, Tasks
<1>8. ~m_waiter' /\ winner' \in Ids /\ result' \in Ids
  BY <1>2, <1>5 DEF TaskInv, TaskTypeOK
<1>9. TaskTypeOK'
  <2>1. LocalTypeOK'
    BY <1>1, <1>6, <1>7 DEF TaskInv, TaskTypeOK, LocalTypeOK
  <2>2. DOMAIN m_promises' \subseteq Tasks /\ \A u \in DOMAIN m_promises' : m_promises'[u] \in Ids
    BY <1>3 DEF TaskInv, TaskTypeOK, Loaded
  <2>3. m_ids' \subseteq Ids /\ m_id' \in Ids /\ completed' \subseteq Tasks
    BY <1>1 DEF TaskInv, TaskTypeOK, Ids
  <2>4. m_waiter' \in BOOLEAN
    BY <1>8, <1>5, <1>2
  <2> QED BY <1>1, <1>8, <2>1, <2>2, <2>3, <2>4 DEF TaskInv, TaskTypeOK
<1>10. IdsIdentify'
  <2>1. \A u \in Loaded' : u \in Loaded /\ m_promises[u] \in m_ids /\ m_promises[u] # m_promises[t]
    BY <1>1, <1>3 DEF TaskInv, IdsIdentify
  <2>2. \A u, v \in Loaded' : m_promises'[u] = m_promises'[v] => u = v
    BY <1>3, <2>1 DEF TaskInv, IdsIdentify
  <2>3. \A u \in Loaded' : m_promises'[u] \in m_ids'
    BY <1>1, <1>3, <2>1
  <2>4. \A i \in m_ids' : i <= m_id'
    BY <1>1 DEF TaskInv, IdsIdentify
  <2> QED BY <2>2, <2>3, <2>4 DEF IdsIdentify
<1>11. ParentOK'
  BY <1>1, <1>2, <1>7, <1>8 DEF TaskInv, ParentOK
<1>12. AliveOK'
  <2>1. \A u \in Tasks : pc'[u] \in {"run", "io", "parked", "back"} => u \in Loaded'
    BY <1>3, <1>7 DEF TaskInv, AliveOK
  <2>2. mode' = "returned" => Loaded' = {}
    BY <1>1, <1>3 DEF TaskInv, AliveOK
  <2> QED BY <2>1, <2>2 DEF AliveOK
<1>13. ParkedOK'
  <2>1. \A i \in 1..Len(waiters) : waiters[i] \in Tasks /\ pc[waiters[i]] = "parked" /\ waiters[i] # t
    BY <1>1 DEF TaskInv, ParkedOK
  <2> QED BY <1>1, <1>7, <2>1 DEF TaskInv, ParkedOK, Distinct
<1> QED BY <1>9, <1>10, <1>11, <1>12, <1>13 DEF TaskInv

(* A step of the parent: it starts, loads and destroys, waits, and returns.                 *)
LEMMA ParentStepInv ==
  ASSUME TaskInv, ParentStep
  PROVE  TaskInv'
<1>0. stack \in Seq(Co) /\ parent \in Co
  BY CoTaskAssumption DEF TaskInv, TaskTypeOK, LocalTypeOK
<1>1. CASE Start(parent) /\ UNCHANGED taskVars
  <2>1. mode = "load"
    BY <1>1 DEF TaskInv, ParentOK, Start
  <2>2. stack' \in Seq(Co) /\ phase' = "start"
    BY <1>0, <1>1 DEF Start
  <2> QED BY <1>1, <2>1, <2>2, ParentSteps DEF Start, Goto
<1>2. CASE IoReady(parent) /\ UNCHANGED taskVars
  <2>1. mode = "load"
    BY <1>2 DEF TaskInv, ParentOK, IoReady
  <2>2. stack' \in Seq(Co)
    BY <1>0, <1>2 DEF IoReady
  <2> QED BY <1>2, <2>1, <2>2, ParentSteps DEF IoReady, Goto
<1>3. CASE mode = "load" /\ IoWait(parent) /\ UNCHANGED taskVars
  <2>1. stack' \in Seq(Co)
    BY <1>0, <1>3, Pop DEF IoWait, Runs
  <2>2. phase' \in {"start", "loop", "callback"}
    BY <1>3 DEF IoWait, TaskInv, TaskTypeOK, LocalTypeOK
  <2> QED BY <1>3, <2>1, <2>2, ParentSteps DEF IoWait, Goto
<1>4. ASSUME NEW t \in Tasks, Load(t) PROVE TaskInv'
  BY <1>4, LoadInv
<1>5. ASSUME NEW t \in Tasks, DestroyById(t) PROVE TaskInv'
  BY <1>5, DestroyInv
<1>6. ASSUME NEW how \in {"any", "all"}, WaitFor(how) PROVE TaskInv'
  BY <1>6, WaitInv DEF WaitFor
<1>7. CASE ReturnAny
  BY <1>7, ReturnAnyInv
<1>8. CASE ReturnAll
  BY <1>8, WaitInv DEF ReturnAll
<1> QED BY <1>1, <1>2, <1>3, <1>4, <1>5, <1>6, <1>7, <1>8 DEF ParentStep

(* A step of a task.                                                                      *)
LEMMA TaskStepInv ==
  ASSUME TaskInv, NEW t \in Tasks, TaskStep(t)
  PROVE  TaskInv'
<1>0. /\ stack \in Seq(Co) /\ t \in Co /\ phase \in {"start", "loop", "callback"}
      /\ pc \in [Co -> LocalPc] /\ waiters \in Seq(Co)
  BY DEF TaskInv, TaskTypeOK, LocalTypeOK, Tasks
<1>1. pc[t] \in {"run", "io", "parked", "back"} => t \in Loaded
  BY DEF TaskInv, AliveOK
<1>2. CASE IoReady(t) /\ UNCHANGED taskVars
  <2>1. stack' \in Seq(Co)
    BY <1>0, <1>2 DEF IoReady
  <2> QED BY <1>1, <1>2, <2>1, Steps DEF IoReady, Goto
<1>3. CASE IoWait(t) /\ UNCHANGED taskVars
  <2>1. stack' \in Seq(Co)
    BY <1>0, <1>3, Pop DEF IoWait, Runs
  <2> QED BY <1>0, <1>1, <1>3, <2>1, Steps DEF IoWait, Goto
<1>4. CASE Suspend(t) /\ UNCHANGED taskVars
  <2>1. stack' \in Seq(Co)
    BY <1>0, <1>4, Pop DEF Suspend, Runs
  <2> QED BY <1>1, <1>4, <2>1, TaskParks DEF Suspend, Goto
<1>5. CASE Back(t) /\ UNCHANGED taskVars
  BY <1>0, <1>1, <1>5, Steps DEF Back, Goto
<1>6. CASE pc[t] = "run" /\ waiters # <<>> /\ ResumeInline(t) /\ UNCHANGED taskVars
  <2>1. /\ pc' = [pc EXCEPT ![t] = "run", ![Head(waiters)] = "back"]
        /\ stack' = <<Head(waiters)>> \o stack /\ waiters' = Tail(waiters)
        /\ UNCHANGED <<next, phase>>
    BY <1>6 DEF ResumeInline
  <2>2. Head(waiters) \in Co
    BY <1>0, <1>6, Pop
  <2>3. pc' = [pc EXCEPT ![Head(waiters)] = "back"]
    BY <1>0, <1>6, <2>1, <2>2
  <2>4. stack' \in Seq(Co)
    BY <1>0, <2>1, <2>2, Push
  <2> QED BY <1>0, <1>6, <2>1, <2>3, <2>4, TaskWoken
<1>7. CASE End(t)
  BY <1>7, EndInv
<1> QED BY <1>2, <1>3, <1>4, <1>5, <1>6, <1>7 DEF TaskStep

(* Every step of co_task and of the loop around it keeps the invariant.                     *)
LEMMA TaskNextInv ==
  ASSUME TaskInv, TaskNext
  PROVE  TaskInv'
<1>0. /\ stack \in Seq(Co) /\ waiters \in Seq(Co) /\ next = <<>>
  BY DEF TaskInv, TaskTypeOK, LocalTypeOK, ParkedOK
<1>1. CASE External
  <2>1. Head(waiters) \in Co
    BY <1>0, <1>1, Pop DEF External
  <2>2. stack' \in Seq(Co)
    BY <2>1, <1>1 DEF External
  <2> QED BY <1>1, <2>2, TaskWoken DEF External, Goto
<1>2. CASE LoopStep /\ UNCHANGED taskVars
  <2>1. EnterLoop \/ EndCallback
    BY <1>0, <1>2 DEF LoopStep, LocalResume
  <2>2. /\ UNCHANGED <<pc, stack, waiters, next>> /\ phase' = "loop"
        /\ UNCHANGED <<m_promises, m_ids, m_id, m_waiter, mode, completed, winner, result>>
    BY <1>2, <2>1 DEF EnterLoop, EndCallback, taskVars
  <2> QED BY <2>2 DEF TaskInv, TaskTypeOK, LocalTypeOK, IdsIdentify, ParentOK, AliveOK, ParkedOK,
                      Loaded, Distinct
<1> QED BY <1>1, <1>2, ParentStepInv, TaskStepInv DEF TaskNext

(* co_task keeps its promise for any number of tasks and loads: the ids it gives      *)
(* identify the tasks, whoever is in wait() has a task left whose end wakes it, and       *)
(* when wait_for_any() or wait_for_all() returns no task of the group is running, waits   *)
(* for I/O or sits in another object's queue.                                               *)
THEOREM GroupKept == TaskSpec => []GroupSafe
<1>1. TaskInv /\ [TaskNext]_groupVars => TaskInv'
  <2> SUFFICES ASSUME TaskInv, [TaskNext]_groupVars PROVE TaskInv'
    OBVIOUS
  <2>1. CASE TaskNext
    BY <2>1, TaskNextInv
  <2>2. CASE UNCHANGED groupVars
    <3>1. UNCHANGED localVars /\ UNCHANGED taskVars
      BY <2>2 DEF groupVars
    <3>2. /\ UNCHANGED <<pc, stack, waiters, next, phase>>
          /\ UNCHANGED <<m_promises, m_ids, m_id, m_waiter, mode, completed, winner, result>>
      BY <3>1 DEF localVars, taskVars
    <3> QED BY <3>2 DEF TaskInv, TaskTypeOK, LocalTypeOK, IdsIdentify, ParentOK, AliveOK, ParkedOK,
                        Loaded, Distinct
  <2> QED BY <2>1, <2>2
<1> QED BY <1>1, TaskInitially, TaskInvSafe, PTL DEF TaskSpec
=============================================================================
