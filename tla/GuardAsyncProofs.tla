-------------------------- MODULE GuardAsyncProofs --------------------------
(* Every step of guard::co_async and co_deliver preserves AsyncInv, whatever *)
(* the object built on them. The objects' proofs cite these lemmas.           *)
EXTENDS GuardAsync, QueueLemmas

(* Membership and absence of duplicates under the queue operations push_back, *)
(* pop_front and the empty queue.                                              *)
LEMMA InSeqEmpty == \A x : ~InSeq(x, <<>>)
  BY DEF InSeq

LEMMA DistinctEmpty == IsInjective(<<>>)
  BY DEF IsInjective

LEMMA InSeqAppend ==
  ASSUME NEW S, NEW s \in Seq(S), NEW x \in S, NEW y
  PROVE  InSeq(y, Append(s, x)) <=> InSeq(y, s) \/ y = x
<1>1. ASSUME InSeq(y, Append(s, x)) PROVE InSeq(y, s) \/ y = x
  <2>1. PICK i \in DOMAIN Append(s, x) : Append(s, x)[i] = y
    BY <1>1 DEF InSeq
  <2>2. i \in 1 .. (Len(s) + 1)
    BY <2>1
  <2>3. CASE i = Len(s) + 1
    BY <2>1, <2>3
  <2>4. CASE i \in 1 .. Len(s)
    BY <2>1, <2>4 DEF InSeq
  <2> QED BY <2>2, <2>3, <2>4
<1>2. ASSUME InSeq(y, s) PROVE InSeq(y, Append(s, x))
  <2>1. PICK i \in DOMAIN s : s[i] = y
    BY <1>2 DEF InSeq
  <2>2. i \in DOMAIN Append(s, x) /\ Append(s, x)[i] = y
    BY <2>1
  <2> QED BY <2>2 DEF InSeq
<1>3. ASSUME y = x PROVE InSeq(y, Append(s, x))
  <2>1. Len(s) + 1 \in DOMAIN Append(s, x) /\ Append(s, x)[Len(s) + 1] = y
    BY <1>3
  <2> QED BY <2>1 DEF InSeq
<1> QED BY <1>1, <1>2, <1>3

LEMMA InSeqTail ==
  ASSUME NEW S, NEW s \in Seq(S), s # <<>>, NEW y
  PROVE  InSeq(y, s) <=> y = Head(s) \/ InSeq(y, Tail(s))
<1>0. Len(s) \in Nat /\ Len(s) > 0 /\ DOMAIN s = 1 .. Len(s)
  OBVIOUS
<1>1. ASSUME InSeq(y, s) PROVE y = Head(s) \/ InSeq(y, Tail(s))
  <2>1. PICK i \in DOMAIN s : s[i] = y
    BY <1>1 DEF InSeq
  <2>2. CASE i = 1
    BY <2>1, <2>2
  <2>3. CASE i # 1
    <3>1. i - 1 \in DOMAIN Tail(s) /\ Tail(s)[i - 1] = y
      BY <1>0, <2>1, <2>3
    <3> QED BY <3>1 DEF InSeq
  <2> QED BY <2>2, <2>3
<1>2. ASSUME InSeq(y, Tail(s)) PROVE InSeq(y, s)
  <2>1. PICK i \in DOMAIN Tail(s) : Tail(s)[i] = y
    BY <1>2 DEF InSeq
  <2>2. i + 1 \in DOMAIN s /\ s[i + 1] = y
    BY <1>0, <2>1
  <2> QED BY <2>2 DEF InSeq
<1>3. ASSUME y = Head(s) PROVE InSeq(y, s)
  <2>1. 1 \in DOMAIN s /\ s[1] = y
    BY <1>0, <1>3
  <2> QED BY <2>1 DEF InSeq
<1> QED BY <1>1, <1>2, <1>3

LEMMA DistinctAppend ==
  ASSUME NEW S, NEW s \in Seq(S), NEW x \in S, IsInjective(s), ~InSeq(x, s)
  PROVE  IsInjective(Append(s, x))
<1> SUFFICES ASSUME NEW i \in 1 .. Len(s) + 1, NEW j \in 1 .. Len(s) + 1,
                    Append(s, x)[i] = Append(s, x)[j]
             PROVE  i = j
  BY DEF IsInjective
<1>1. CASE i \in 1 .. Len(s) /\ j \in 1 .. Len(s)
  BY <1>1 DEF IsInjective
<1>2. CASE i = Len(s) + 1 /\ j \in 1 .. Len(s)
  BY <1>2 DEF InSeq
<1>3. CASE j = Len(s) + 1 /\ i \in 1 .. Len(s)
  BY <1>3 DEF InSeq
<1> QED BY <1>1, <1>2, <1>3

LEMMA DistinctTail ==
  ASSUME NEW S, NEW s \in Seq(S), s # <<>>, IsInjective(s)
  PROVE  IsInjective(Tail(s)) /\ ~InSeq(Head(s), Tail(s))
<1>0. Len(s) \in Nat /\ Len(s) > 0 /\ DOMAIN s = 1 .. Len(s)
  OBVIOUS
<1>1. \A i \in DOMAIN Tail(s) : i + 1 \in DOMAIN s /\ Tail(s)[i] = s[i + 1] /\ i \in Nat \ {0}
  BY <1>0
<1>2. IsInjective(Tail(s))
  BY <1>1 DEF IsInjective
<1>3. ~InSeq(Head(s), Tail(s))
  BY <1>0, <1>1 DEF IsInjective, InSeq
<1> QED BY <1>2, <1>3

(***************************************************************************)
(* One lemma per action                                                      *)
(***************************************************************************)
\* A coroutine that runs has a thread that does.
LEMMA RunsLive ==
  ASSUME LiveOK, NEW c \in Co, NEW t \in Thread, Runs(c, t)
  PROVE  t \in live
BY DEF LiveOK, Runs

\* A step on a thread that has not ended destroys nobody and starts nothing elsewhere.
LEMMA LiveStep ==
  ASSUME LiveOK, NEW t \in Thread, t \in live, UNCHANGED <<open, live>>,
         \A u \in Thread : u # t => stack'[u] = stack[u] /\ batch'[u] = batch[u],
         \A d \in Co : pc'[d] = "dead" => pc[d] = "dead" /\ tid'[d] = tid[d]
  PROVE  LiveOK'
BY DEF LiveOK

\* Whose event is passed on by a running thread was not destroyed.
LEMMA HandAlive ==
  ASSUME AsyncTypeOK, HandOK, LiveOK, NEW c \in Co, Waking(c),
         pc[c] = "resume" \/ tid[hand[c]] \in live
  PROVE  Unresumed(hand[c])
BY DEF AsyncTypeOK, HandOK, LiveOK, Orphaned

\* A step that neither pops nor passes on an event.
LEMMA HandsStay ==
  ASSUME AsyncTypeOK, HandOK, UNCHANGED <<hand, waiting, deliverq, batch>>,
         \A d \in Co : Waking(d)' => Waking(d) /\ pc'[d] = pc[d],
         \A d \in Co : Unresumed(d) => Unresumed(d)',
         \A d \in Co : pc[d] = "dead" => pc'[d] = "dead"
  PROVE  HandOK'
<1>1. \A d \in Co : Waking(d)' => hand[d] \in Co /\ Waking(d) /\ hand'[d] = hand[d] /\ pc'[d] = pc[d]
  BY DEF AsyncTypeOK
<1>2. ASSUME NEW d \in Co, Waking(d)'
      PROVE  (Unresumed(hand[d]) \/ Orphaned(d))' /\ ~InSeq(hand'[d], waiting')
  <2>1. (Unresumed(hand[d]) \/ Orphaned(d)) /\ ~InSeq(hand[d], waiting)
    BY <1>1, <1>2 DEF HandOK
  <2>2. Unresumed(hand[d]) => Unresumed(hand[d])'
    BY <1>1, <1>2
  <2>3. Orphaned(d) => Orphaned(d)'
    BY <1>1, <1>2 DEF Orphaned
  <2> QED BY <2>1, <2>2, <2>3
<1> QED BY <1>1, <1>2 DEF HandOK

LEMMA IoReadyInv ==
  ASSUME AsyncInv, NEW c \in Co, NEW t \in Thread, IoReady(c, t)
  PROVE  AsyncInv'
<1> USE DEF AsyncInv
<1>0. PICK p \in {"run", "back"} : pc' = [pc EXCEPT ![c] = p]
  BY DEF IoReady
<1>a. pc[c] \in {"io", "ioback"}
  BY DEF IoReady
<1>b. UNCHANGED <<status, waiting, hand, deliverq, batch, signal, open, live>>
  BY DEF IoReady
<1>c. \A d \in Co : d # c => pc'[d] = pc[d] /\ tid'[d] = tid[d]
  BY <1>0 DEF IoReady, AsyncTypeOK
<1>d. pc'[c] = p
  BY <1>0 DEF AsyncTypeOK
<1>1. AsyncTypeOK'
  <2>1. pc' \in [Co -> Pc]
    BY <1>0 DEF AsyncTypeOK, Pc
  <2>2. stack' \in [Thread -> Seq(Co)]
    BY DEF AsyncTypeOK, IoReady
  <2>3. tid' \in [Co -> Thread]
    BY DEF AsyncTypeOK, IoReady
  <2> QED BY <1>b, <2>1, <2>2, <2>3 DEF AsyncTypeOK
<1>2. StatusOK'
  BY <1>b, <1>c, <1>d DEF StatusOK
<1>3. WaitingOK'
  BY <1>a, <1>b, <1>c, <1>d DEF WaitingOK, Unresumed, Awaiting
<1>4. HandOK'
  BY <1>a, <1>b, <1>c, <1>d, HandsStay DEF Waking, Unresumed, Awaiting
<1>5. QueuesOK'
  BY <1>a, <1>b, <1>c, <1>d DEF QueuesOK, Unresumed, Awaiting
<1>6. WakeKept'
  BY <1>a, <1>b, <1>c, <1>d DEF WakeKept, Served, Carried, Waking, Awaiting
<1>7. LiveOK'
  BY <1>b, <1>c, <1>d, LiveStep DEF IoReady, Idle, AsyncTypeOK
<1> QED BY <1>1, <1>2, <1>3, <1>4, <1>5, <1>6, <1>7, <1>b

LEMMA IoWaitInv ==
  ASSUME AsyncInv, NEW c \in Co, NEW t \in Thread, IoWait(c, t)
  PROVE  AsyncInv'
<1> USE DEF AsyncInv
<1>0. PICK p \in {"io", "ioback"} : pc' = [pc EXCEPT ![c] = p]
  BY DEF IoWait
<1>a. pc[c] \in {"run", "back"}
  BY DEF IoWait
<1>b. UNCHANGED <<status, waiting, hand, deliverq, batch, signal, open, live>>
  BY DEF IoWait
<1>c. \A d \in Co : d # c => pc'[d] = pc[d] /\ tid'[d] = tid[d]
  BY <1>0 DEF IoWait, AsyncTypeOK
<1>d. pc'[c] = p
  BY <1>0 DEF AsyncTypeOK
<1>1. AsyncTypeOK'
  <2>1. pc' \in [Co -> Pc]
    BY <1>0 DEF AsyncTypeOK, Pc
  <2>2. stack' \in [Thread -> Seq(Co)]
    BY DEF AsyncTypeOK, IoWait, Runs
  <2>3. tid' \in [Co -> Thread]
    BY DEF AsyncTypeOK, IoWait
  <2> QED BY <1>b, <2>1, <2>2, <2>3 DEF AsyncTypeOK
<1>2. StatusOK'
  BY <1>b, <1>c, <1>d DEF StatusOK
<1>3. WaitingOK'
  BY <1>a, <1>b, <1>c, <1>d DEF WaitingOK, Unresumed, Awaiting
<1>4. HandOK'
  BY <1>a, <1>b, <1>c, <1>d, HandsStay DEF Waking, Unresumed, Awaiting
<1>5. QueuesOK'
  BY <1>a, <1>b, <1>c, <1>d DEF QueuesOK, Unresumed, Awaiting
<1>6. WakeKept'
  BY <1>a, <1>b, <1>c, <1>d DEF WakeKept, Served, Carried, Waking, Awaiting
<1>7. LiveOK'
  BY ZenonT(60), <1>b, <1>c, <1>d, LiveStep, RunsLive DEF IoWait, AsyncTypeOK
<1> QED BY <1>1, <1>2, <1>3, <1>4, <1>5, <1>6, <1>7, <1>b

LEMMA EnqueueInv ==
  ASSUME AsyncInv, NEW c \in Co, NEW t \in Thread, Enqueue(c, t)
  PROVE  AsyncInv'
<1> USE DEF AsyncInv, Enqueue, Runs
<1>0. \A y : InSeq(y, waiting') <=> InSeq(y, waiting) \/ y = c
  BY InSeqAppend DEF AsyncTypeOK
<1>a. ~InSeq(c, waiting)
  BY DEF WaitingOK, Unresumed, Awaiting
<1>1. AsyncTypeOK'
  BY DEF AsyncTypeOK, Pc, EventStatus
<1>2. StatusOK'
  BY DEF StatusOK, AsyncTypeOK
<1>3. WaitingOK'
  <2>1. IsInjective(waiting')
    BY <1>a, DistinctAppend DEF WaitingOK, AsyncTypeOK
  <2>2. \A d \in Co : InSeq(d, waiting') => Unresumed(d)'
    BY <1>0 DEF WaitingOK, Unresumed, Awaiting, AsyncTypeOK
  <2> QED BY <2>1, <2>2 DEF WaitingOK
<1>4. HandOK'
  BY SMTT(60), <1>0 DEF HandOK, Waking, Unresumed, Awaiting, Orphaned, AsyncTypeOK
<1>5. QueuesOK'
  <2>1. ~Unresumed(c) /\ \A d \in Co : Unresumed(d) => Unresumed(d)'
    BY DEF Unresumed, Awaiting, AsyncTypeOK
  <2>2. UNCHANGED <<deliverq, batch>> /\ \A d \in Co : d # c => tid'[d] = tid[d]
    BY DEF AsyncTypeOK
  <2> HIDE DEF Enqueue, Runs
  <2> QED BY <1>0, <2>1, <2>2 DEF QueuesOK
<1>6. WakeKept'
  BY <1>0 DEF WakeKept, Served, Carried, Waking, Awaiting, AsyncTypeOK
<1>7. LiveOK'
  BY LiveStep, RunsLive DEF AsyncTypeOK
<1> QED BY <1>1, <1>2, <1>3, <1>4, <1>5, <1>6, <1>7

LEMMA PassThroughInv ==
  ASSUME AsyncInv, NEW c \in Co, NEW t \in Thread, PassThrough(c, t)
  PROVE  AsyncInv'
<1> USE DEF AsyncInv, PassThrough, Runs
<1>1. AsyncTypeOK'
  BY DEF AsyncTypeOK, Pc
<1>2. StatusOK'
  BY DEF StatusOK, AsyncTypeOK
<1>3. WaitingOK'
  BY DEF WaitingOK, Unresumed, Awaiting, AsyncTypeOK
<1>4. HandOK'
  BY HandsStay DEF Waking, Unresumed, Awaiting, AsyncTypeOK
<1>5. QueuesOK'
  BY SMTT(60) DEF QueuesOK, Unresumed, Awaiting, AsyncTypeOK
<1>6. WakeKept'
  BY DEF WakeKept, Served, Carried, Waking, Awaiting, AsyncTypeOK
<1>7. LiveOK'
  BY LiveStep, RunsLive DEF AsyncTypeOK
<1> QED BY <1>1, <1>2, <1>3, <1>4, <1>5, <1>6, <1>7

LEMMA CheckReadyInv ==
  ASSUME AsyncInv, NEW c \in Co, NEW t \in Thread, CheckReady(c, t)
  PROVE  AsyncInv'
<1> USE DEF AsyncInv, CheckReady, Runs, AwaitReady
<1>1. AsyncTypeOK'
  BY DEF AsyncTypeOK, Pc
<1>2. StatusOK'
  BY DEF StatusOK, AsyncTypeOK
<1>3. WaitingOK'
  BY DEF WaitingOK, StatusOK, Unresumed, Awaiting, AsyncTypeOK
<1>4. HandOK'
  BY SMTT(60) DEF HandOK, StatusOK, Waking, Unresumed, Awaiting, Orphaned, AsyncTypeOK
<1>5. QueuesOK'
  <2>1. \A d \in Co : Unresumed(d) => Unresumed(d)'
    BY DEF StatusOK, Unresumed, Awaiting, AsyncTypeOK
  <2>2. UNCHANGED <<tid, waiting, deliverq, batch>>
    OBVIOUS
  <2> HIDE DEF CheckReady, Runs, AwaitReady
  <2> QED BY <2>1, <2>2 DEF QueuesOK
<1>6. WakeKept'
  BY DEF WakeKept, Served, Carried, Waking, Awaiting, AsyncTypeOK
<1>7. LiveOK'
  BY LiveStep, RunsLive DEF AsyncTypeOK
<1> QED BY <1>1, <1>2, <1>3, <1>4, <1>5, <1>6, <1>7

LEMMA CheckSuspendInv ==
  ASSUME AsyncInv, NEW c \in Co, NEW t \in Thread, CheckSuspend(c, t)
  PROVE  AsyncInv'
<1> USE DEF AsyncInv, CheckSuspend, Runs, AwaitSuspend
<1>0. \/ /\ status[c] = "INIT" /\ status' = [status EXCEPT ![c] = "SUSPEND"]
         /\ pc' = [pc EXCEPT ![c] = "parked"]
      \/ /\ status[c] = "RESUMED" /\ status' = [status EXCEPT ![c] = "FINISHED"]
         /\ pc' = [pc EXCEPT ![c] = "back"]
  BY DEF StatusOK
<1>1. AsyncTypeOK'
  BY SMTT(60), <1>0 DEF AsyncTypeOK, Pc, EventStatus
<1>2. StatusOK'
  BY <1>0 DEF StatusOK, AsyncTypeOK
<1>3. WaitingOK'
  BY <1>0 DEF WaitingOK, Unresumed, Awaiting, AsyncTypeOK
<1>4. HandOK'
  BY SMTT(60), <1>0 DEF HandOK, Waking, Unresumed, Awaiting, Orphaned, AsyncTypeOK
<1>5. QueuesOK'
  <2>1. \A d \in Co : Unresumed(d) => Unresumed(d)'
    BY <1>0 DEF Unresumed, Awaiting, AsyncTypeOK
  <2>2. UNCHANGED <<tid, waiting, deliverq, batch>>
    OBVIOUS
  <2> HIDE DEF CheckSuspend, Runs, AwaitSuspend
  <2> QED BY <2>1, <2>2 DEF QueuesOK
<1>6. WakeKept'
  BY <1>0 DEF WakeKept, Served, Carried, Waking, Awaiting, AsyncTypeOK
<1>7. LiveOK'
  BY <1>0, LiveStep, RunsLive DEF AsyncTypeOK
<1> QED BY <1>1, <1>2, <1>3, <1>4, <1>5, <1>6, <1>7

LEMMA PopWaiterInv ==
  ASSUME AsyncInv, NEW c \in Co, NEW t \in Thread, NEW how \in {"deliver", "resume"},
         pc[c] \in {"run", "back"}, PopWaiter(c, t, how)
  PROVE  AsyncInv'
<1> DEFINE w == Head(waiting)
<1> USE DEF AsyncInv
<1>0. /\ w \in Co /\ waiting # <<>> /\ waiting' = Tail(waiting) /\ waiting' \in Seq(Co)
      /\ UNCHANGED <<status, tid, stack, deliverq, signal, batch, open, live>>
  BY DEF PopWaiter, AsyncTypeOK
<1>a. \A y : InSeq(y, waiting) <=> y = w \/ InSeq(y, waiting')
  BY <1>0, InSeqTail DEF AsyncTypeOK
<1>b. IsInjective(waiting') /\ ~InSeq(w, waiting')
  BY <1>0, DistinctTail DEF AsyncTypeOK, WaitingOK
<1>c. Unresumed(w) /\ w # c
  BY <1>0, <1>a DEF WaitingOK, Unresumed, Awaiting
<1>d. /\ pc' = [pc EXCEPT ![c] = how] /\ hand' = [hand EXCEPT ![c] = w]
      /\ pc'[c] = how /\ hand'[c] = w
      /\ \A d \in Co : d # c => pc'[d] = pc[d] /\ hand'[d] = hand[d]
  BY DEF PopWaiter, AsyncTypeOK
<1>e. \A d \in Co : Unresumed(d)' <=> Unresumed(d)
  BY <1>0, <1>d DEF Unresumed, Awaiting
<1>f. \A d \in Co : Waking(d)' <=> Waking(d) \/ d = c
  BY <1>d DEF Waking
<1>1. AsyncTypeOK'
  BY <1>0, <1>d DEF AsyncTypeOK, Pc
<1>2. StatusOK'
  BY <1>0, <1>d DEF StatusOK
<1>3. WaitingOK'
  BY <1>a, <1>b, <1>e DEF WaitingOK
<1>4. HandOK'
  <2>0. \A d \in Co : Waking(d) => hand[d] # w /\ d # c
    BY <1>a DEF HandOK, Waking
  <2>1. \A d \in Co : Waking(d)' => (Unresumed(hand[d]) \/ Orphaned(d))' /\ ~InSeq(hand'[d], waiting')
    <3> SUFFICES ASSUME NEW d \in Co, Waking(d)'
                 PROVE  (Unresumed(hand[d]) \/ Orphaned(d))' /\ ~InSeq(hand'[d], waiting')
      OBVIOUS
    <3>1. CASE d = c
      BY <3>1, <1>0, <1>b, <1>c, <1>d DEF Unresumed, Awaiting
    <3>2. CASE d # c
      <4>0. Waking(d) /\ hand'[d] = hand[d] /\ hand[d] \in Co
        BY <3>2, <1>d, <1>f DEF AsyncTypeOK
      <4>1. Waking(d) /\ hand'[d] = hand[d] /\ hand[d] \in Co /\ hand[d] # c
        BY <4>0 DEF HandOK, Orphaned, Unresumed, Awaiting
      <4>2. (Unresumed(hand[d]) \/ Orphaned(d)) /\ ~InSeq(hand[d], waiting)
        BY <4>1 DEF HandOK
      <4>3. pc'[d] = pc[d] /\ pc'[hand[d]] = pc[hand[d]] /\ (Unresumed(hand[d])' <=> Unresumed(hand[d]))
        BY <3>2, <4>1, <1>0, <1>d DEF Unresumed, Awaiting
      <4> QED BY <4>1, <4>2, <4>3, <1>a DEF Orphaned
    <3> QED BY <3>1, <3>2
  <2>2. \A d, e \in Co : Waking(d)' /\ Waking(e)' /\ hand'[d] = hand'[e] => d = e
    BY <2>0, <1>d, <1>f DEF HandOK
  <2>3. \A d \in Co, u \in Thread :
          Waking(d)' => ~InSeq(hand'[d], deliverq'[u]) /\ ~InSeq(hand'[d], batch'[u])
    BY <1>0, <1>a, <1>d, <1>f DEF HandOK, QueuesOK
  <2> QED BY <2>1, <2>2, <2>3 DEF HandOK
<1>5. QueuesOK'
  BY <1>0, <1>a, <1>e DEF QueuesOK
<1>6. WakeKept'
  <2> SUFFICES ASSUME NEW d \in Co, Served(d)'
               PROVE  Carried(d)' \/ status'[d] = "RESUMED" \/ tid'[d] \notin open'
    BY DEF WakeKept
  <2>1. CASE d = w
    BY <2>1, <1>d, <1>f DEF Carried
  <2>2. CASE d # w
    <3>1. Served(d)
      BY <2>2, <1>a, <1>c, <1>d DEF Served, Awaiting
    <3>2. Carried(d) => Carried(d)'
      <4>1. \A x \in Co : Waking(x) => x # c
        BY DEF Waking
      <4> QED BY <4>1, <1>0, <1>d, <1>f DEF Carried
    <3> QED BY <3>1, <3>2, <1>0 DEF WakeKept
  <2> QED BY <2>1, <2>2
<1>7. LiveOK'
  BY <1>0, <1>d, LiveStep, RunsLive DEF PopWaiter
<1> QED BY <1>0, <1>1, <1>2, <1>3, <1>4, <1>5, <1>6, <1>7

LEMMA NoWaiterInv ==
  ASSUME AsyncInv, NEW c \in Co, NEW t \in Thread,
         pc[c] \in {"run", "back"}, NoWaiter(c, t)
  PROVE  AsyncInv'
<1> USE DEF AsyncInv
<1>0. UNCHANGED <<status, tid, waiting, hand, stack, deliverq, signal, batch, open, live>>
  BY DEF NoWaiter
<1>a. pc' = [pc EXCEPT ![c] = "run"] /\ pc'[c] = "run"
      /\ \A d \in Co : d # c => pc'[d] = pc[d]
  BY DEF NoWaiter, AsyncTypeOK
<1>1. AsyncTypeOK'
  BY <1>0, <1>a DEF AsyncTypeOK, Pc
<1>2. StatusOK'
  BY <1>0, <1>a DEF StatusOK
<1>3. WaitingOK'
  BY <1>0, <1>a DEF WaitingOK, Unresumed, Awaiting
<1>4. HandOK'
  BY <1>0, <1>a DEF HandOK, Waking, Unresumed, Awaiting, Orphaned, AsyncTypeOK
<1>5. QueuesOK'
  BY <1>0, <1>a DEF QueuesOK, Unresumed, Awaiting
<1>6. WakeKept'
  BY <1>0, <1>a DEF WakeKept, Served, Carried, Waking, Awaiting
<1>7. LiveOK'
  BY <1>0, <1>a, LiveStep, RunsLive DEF NoWaiter
<1> QED BY <1>0, <1>1, <1>2, <1>3, <1>4, <1>5, <1>6, <1>7

(* What co_event::resume does to an event nobody resumed yet: the owner runs   *)
(* on in the resumer if it had suspended, and else finds the status RESUMED.   *)
LEMMA ResumeOnUnresumed ==
  ASSUME AsyncTypeOK, StatusOK, NEW w \in Co, NEW t \in Thread, NEW p \in [Co -> Pc],
         NEW s \in Seq(Co), Unresumed(w), ResumeOn(w, t, p, s)
  PROVE  /\ stack' \in [Thread -> Seq(Co)]
         /\ \/ /\ status' = [status EXCEPT ![w] = "FINISHED"]
               /\ pc' = [p EXCEPT ![w] = "back"]
            \/ /\ status' = [status EXCEPT ![w] = "RESUMED"]
               /\ pc' = p
               /\ pc[w] \in {"queued", "unready"}
<1>1. CASE status[w] = "SUSPEND"
  <2>1. /\ status' = [status EXCEPT ![w] = "FINISHED"]
        /\ pc' = [p EXCEPT ![w] = "back"]
        /\ stack' = [stack EXCEPT ![t] = <<w>> \o s]
    BY <1>1 DEF ResumeOn, Resume, RunsInResumer
  <2>2. <<w>> \o s \in Seq(Co)
    OBVIOUS
  <2> QED BY <2>1, <2>2 DEF AsyncTypeOK
<1>2. CASE status[w] = "INIT"
  <2>1. /\ status' = [status EXCEPT ![w] = "RESUMED"]
        /\ pc' = p
        /\ stack' = [stack EXCEPT ![t] = s]
    BY <1>2 DEF ResumeOn, Resume, RunsInResumer
  <2>2. pc[w] \in {"queued", "unready"}
    BY <1>2 DEF Unresumed, Awaiting, StatusOK
  <2> QED BY <2>1, <2>2 DEF AsyncTypeOK
<1> QED BY <1>1, <1>2 DEF Unresumed, Awaiting, StatusOK

LEMMA WakeInlineInv ==
  ASSUME AsyncInv, NEW c \in Co, NEW t \in Thread, WakeInline(c, t)
  PROVE  AsyncInv'
<1> DEFINE w == hand[c]
           p == [pc EXCEPT ![c] = "run"]
<1> USE DEF AsyncInv
<1>z. w \in Co /\ Waking(c) /\ Unresumed(w)
  BY HandAlive, RunsLive DEF WakeInline, Waking, AsyncTypeOK
<1>0. /\ w \in Co /\ Waking(c) /\ Unresumed(w) /\ w # c
      /\ UNCHANGED <<tid, waiting, deliverq, signal, batch, open, live>>
      /\ hand' = [hand EXCEPT ![c] = c]
      /\ ResumeOn(w, t, p, stack[t])
  BY <1>z DEF WakeInline, ResumeOn, Waking, Unresumed, Awaiting
<1>a. /\ ~InSeq(w, waiting)
      /\ \A u \in Thread : ~InSeq(w, deliverq[u]) /\ ~InSeq(w, batch[u])
      /\ \A d \in Co : Waking(d) /\ hand[d] = w => d = c
  BY <1>0 DEF HandOK
<1>b. p \in [Co -> Pc] /\ stack[t] \in Seq(Co)
  BY DEF AsyncTypeOK, Pc
<1>c. /\ stack' \in [Thread -> Seq(Co)]
      /\ \/ /\ status' = [status EXCEPT ![w] = "FINISHED"]
            /\ pc' = [p EXCEPT ![w] = "back"]
         \/ /\ status' = [status EXCEPT ![w] = "RESUMED"]
            /\ pc' = p
            /\ pc[w] \in {"queued", "unready"}
  BY <1>0, <1>b, ResumeOnUnresumed
<1>d. /\ \A d \in Co : d # c /\ d # w => pc'[d] = pc[d] /\ status'[d] = status[d]
      /\ pc'[c] = "run" /\ status'[c] = status[c]
      /\ \/ pc'[w] = "back" /\ status'[w] = "FINISHED"
         \/ pc'[w] = pc[w] /\ pc[w] \in {"queued", "unready"} /\ status'[w] = "RESUMED"
      /\ \A d \in Co : d # c => hand'[d] = hand[d]
  <2>1. /\ pc \in [Co -> Pc] /\ DOMAIN status = Co
        /\ hand \in [Co -> Co]
    BY DEF AsyncTypeOK, Pc
  <2>2. /\ DOMAIN p = Co /\ p[c] = "run"
        /\ \A d \in Co : d # c => p[d] = pc[d]
    BY <2>1
  <2>3. \A d \in Co : d # c => hand'[d] = hand[d]
    BY <1>0, <2>1
  <2> HIDE DEF p
  <2>4. CASE /\ status' = [status EXCEPT ![w] = "FINISHED"]
             /\ pc' = [p EXCEPT ![w] = "back"]
    BY <2>1, <2>2, <2>3, <2>4, <1>0
  <2>5. CASE /\ status' = [status EXCEPT ![w] = "RESUMED"]
             /\ pc' = p
             /\ pc[w] \in {"queued", "unready"}
    BY <2>1, <2>2, <2>3, <2>5, <1>0
  <2> QED BY <1>c, <2>4, <2>5
<1>e. \A d \in Co : d # w => (Unresumed(d)' <=> Unresumed(d))
  BY <1>0, <1>d DEF Unresumed, Awaiting, Waking
<1>f. \A d \in Co : Waking(d)' <=> Waking(d) /\ d # c
  BY <1>0, <1>d DEF Waking, Unresumed, Awaiting
<1>1. AsyncTypeOK'
  <2>1. pc' \in [Co -> Pc]
    BY <1>b, <1>c DEF Pc
  <2>2. status' \in [Co -> EventStatus \cup {"ASSERT"}]
    BY <1>c DEF AsyncTypeOK, EventStatus
  <2>3. hand' \in [Co -> Co]
    BY <1>0 DEF AsyncTypeOK
  <2> QED BY <1>0, <1>c, <2>1, <2>2, <2>3 DEF AsyncTypeOK
<1>2. StatusOK'
  BY <1>0, <1>d DEF StatusOK
<1>3. WaitingOK'
  BY <1>0, <1>a, <1>e DEF WaitingOK
<1>4. HandOK'
  <2>1. \A d \in Co : Waking(d)' => (Unresumed(hand[d]) \/ Orphaned(d))' /\ ~InSeq(hand'[d], waiting')
    <3> SUFFICES ASSUME NEW d \in Co, Waking(d)'
                 PROVE  (Unresumed(hand[d]) \/ Orphaned(d))' /\ ~InSeq(hand'[d], waiting')
      OBVIOUS
    <3>1. Waking(d) /\ d # c /\ hand'[d] = hand[d] /\ hand[d] \in Co /\ hand[d] # w
      BY <1>a, <1>d, <1>f DEF AsyncTypeOK
    <3>2. (Unresumed(hand[d]) \/ Orphaned(d)) /\ ~InSeq(hand[d], waiting)
      BY <3>1 DEF HandOK
    <3>3. hand[d] # c /\ d # w
      BY <3>1, <3>2, <1>0 DEF Orphaned, Unresumed, Awaiting, Waking
    <3>4. pc'[d] = pc[d] /\ pc'[hand[d]] = pc[hand[d]] /\ (Unresumed(hand[d])' <=> Unresumed(hand[d]))
      BY <3>1, <3>3, <1>0, <1>d DEF Unresumed, Awaiting
    <3> QED BY <3>1, <3>2, <3>4, <1>0 DEF Orphaned
  <2>2. \A d, e \in Co : Waking(d)' /\ Waking(e)' /\ hand'[d] = hand'[e] => d = e
    BY <1>d, <1>f DEF HandOK
  <2>3. \A d \in Co, u \in Thread :
          Waking(d)' => ~InSeq(hand'[d], deliverq'[u]) /\ ~InSeq(hand'[d], batch'[u])
    BY <1>0, <1>d, <1>f DEF HandOK
  <2> QED BY <2>1, <2>2, <2>3 DEF HandOK
<1>5. QueuesOK'
  BY <1>0, <1>a, <1>e DEF QueuesOK
<1>6. WakeKept'
  <2> SUFFICES ASSUME NEW d \in Co, Served(d)'
               PROVE  Carried(d)' \/ status'[d] = "RESUMED" \/ tid'[d] \notin open'
    BY DEF WakeKept
  <2>1. CASE d = w
    BY <2>1, <1>d DEF Served, Awaiting
  <2>2. CASE d # w
    <3>1. Served(d) /\ status'[d] = status[d]
      BY <2>2, <1>0, <1>d DEF Served, Awaiting
    <3>2. Carried(d) => Carried(d)'
      BY <2>2, <1>0, <1>d, <1>f DEF Carried
    <3> QED BY <3>1, <3>2, <1>0 DEF WakeKept
  <2> QED BY <2>1, <2>2
<1>7. LiveOK'
  <2>1. t \in live /\ \A v \in Thread : v # t => stack'[v] = stack[v]
    BY <1>0, RunsLive DEF WakeInline, ResumeOn, AsyncTypeOK
  <2>2. \A d \in Co : pc'[d] = "dead" => pc[d] = "dead"
    BY <1>d
  <2> QED BY <1>0, <2>1, <2>2, LiveStep
<1> QED BY <1>0, <1>1, <1>2, <1>3, <1>4, <1>5, <1>6, <1>7

LEMMA WakeRemoteInv ==
  ASSUME AsyncInv, NEW c \in Co, NEW t \in Thread, WakeRemote(c, t)
  PROVE  AsyncInv'
<1> DEFINE w == hand[c]
           u == tid[w]
           Sent == /\ u \in open
                   /\ deliverq' = [deliverq EXCEPT ![u] = Append(deliverq[u], w)]
                   /\ signal' = [signal EXCEPT ![u] = TRUE]
           Stopped == u \notin open /\ UNCHANGED <<deliverq, signal>>
<1> USE DEF AsyncInv
<1>0. /\ w \in Co /\ u \in Thread /\ Waking(c) /\ pc[c] = "deliver"
      /\ UNCHANGED <<status, tid, waiting, stack, batch, open, live>>
      /\ hand' = [hand EXCEPT ![c] = c]
      /\ pc' = [pc EXCEPT ![c] = "run"]
      /\ Sent \/ Stopped
  BY DEF WakeRemote, AsyncTypeOK, Waking
<1>a. /\ ~InSeq(w, waiting)
      /\ \A v \in Thread : ~InSeq(w, deliverq[v]) /\ ~InSeq(w, batch[v])
      /\ \A d \in Co : Waking(d) /\ hand[d] = w => d = c
  BY <1>0 DEF HandOK
<1>b. ASSUME Sent
      PROVE  /\ \A v \in Thread : v # u => deliverq'[v] = deliverq[v]
             /\ deliverq'[u] = Append(deliverq[u], w)
             /\ \A y : InSeq(y, deliverq'[u]) <=> InSeq(y, deliverq[u]) \/ y = w
             /\ Unresumed(w)
  <2>1. u \in live
    BY <1>0, <1>b DEF LiveOK
  <2>2. Unresumed(w)
    BY <1>0, <2>1, HandAlive
  <2>3. deliverq' = [deliverq EXCEPT ![u] = Append(deliverq[u], w)]
    BY <1>b
  <2> QED BY <1>0, <2>2, <2>3, InSeqAppend DEF AsyncTypeOK
<1>c. /\ \A d \in Co : d # c => pc'[d] = pc[d] /\ hand'[d] = hand[d]
      /\ pc'[c] = "run"
  BY <1>0 DEF AsyncTypeOK
<1>e. \A d \in Co : Unresumed(d)' <=> Unresumed(d)
  BY <1>0, <1>c DEF Unresumed, Awaiting, Waking
<1>f. \A d \in Co : Waking(d)' <=> Waking(d) /\ d # c
  BY <1>c DEF Waking
<1>g. \A d \in Co, v \in Thread :
        /\ InSeq(d, deliverq[v]) => InSeq(d, deliverq'[v])
        /\ InSeq(d, deliverq'[v]) => InSeq(d, deliverq[v]) \/ (d = w /\ v = u /\ Sent)
  <2>1. CASE Sent
    BY <2>1, <1>0, <1>b
  <2>2. CASE Stopped
    BY <2>2
  <2> QED BY <1>0, <2>1, <2>2
<1> HIDE DEF Sent, Stopped
<1>1. AsyncTypeOK'
  <2>1. deliverq' \in [Thread -> Seq(Co)] /\ signal' \in [Thread -> BOOLEAN]
    <3>1. CASE Sent
      <4>1. deliverq[u] \in Seq(Co) /\ Append(deliverq[u], w) \in Seq(Co)
        BY <1>0 DEF AsyncTypeOK
      <4> QED BY <3>1, <4>1 DEF Sent, AsyncTypeOK
    <3>2. CASE Stopped
      BY <3>2 DEF Stopped, AsyncTypeOK
    <3> QED BY <3>1, <3>2, <1>0
  <2>2. pc' \in [Co -> Pc] /\ hand' \in [Co -> Co]
    BY <1>0 DEF AsyncTypeOK, Pc
  <2> QED BY <1>0, <2>1, <2>2 DEF AsyncTypeOK
<1>2. StatusOK'
  BY <1>0, <1>c DEF StatusOK
<1>3. WaitingOK'
  BY <1>0, <1>e DEF WaitingOK
<1>4. HandOK'
  <2>1. \A d \in Co : Waking(d)' => (Unresumed(hand[d]) \/ Orphaned(d))' /\ ~InSeq(hand'[d], waiting')
    <3> SUFFICES ASSUME NEW d \in Co, Waking(d)'
                 PROVE  (Unresumed(hand[d]) \/ Orphaned(d))' /\ ~InSeq(hand'[d], waiting')
      OBVIOUS
    <3>1. Waking(d) /\ d # c /\ hand'[d] = hand[d] /\ hand[d] \in Co
      BY <1>c, <1>f DEF AsyncTypeOK
    <3>2. (Unresumed(hand[d]) \/ Orphaned(d)) /\ ~InSeq(hand[d], waiting)
      BY <3>1 DEF HandOK
    <3>3. hand[d] # c
      BY <3>2, <1>0 DEF Orphaned, Unresumed, Awaiting
    <3>4. pc'[d] = pc[d] /\ pc'[hand[d]] = pc[hand[d]] /\ (Unresumed(hand[d])' <=> Unresumed(hand[d]))
      BY <3>1, <3>3, <1>0, <1>c DEF Unresumed, Awaiting
    <3> QED BY <3>1, <3>2, <3>4, <1>0 DEF Orphaned
  <2>2. \A d, e \in Co : Waking(d)' /\ Waking(e)' /\ hand'[d] = hand'[e] => d = e
    BY <1>c, <1>f DEF HandOK
  <2>3. \A d \in Co, v \in Thread :
          Waking(d)' => ~InSeq(hand'[d], deliverq'[v]) /\ ~InSeq(hand'[d], batch'[v])
    <3> SUFFICES ASSUME NEW d \in Co, NEW v \in Thread, Waking(d)'
                 PROVE  ~InSeq(hand'[d], deliverq'[v]) /\ ~InSeq(hand'[d], batch'[v])
      OBVIOUS
    <3>1. Waking(d) /\ hand'[d] = hand[d] /\ hand[d] \in Co /\ hand[d] # w
      BY <1>a, <1>c, <1>f DEF AsyncTypeOK
    <3> QED BY <3>1, <1>0, <1>g DEF HandOK
  <2> QED BY <2>1, <2>2, <2>3 DEF HandOK
<1>5. QueuesOK'
  <2> SUFFICES ASSUME NEW v \in Thread
               PROVE  /\ IsInjective(deliverq'[v]) /\ IsInjective(batch'[v])
                      /\ \A d \in Co : ~(InSeq(d, deliverq'[v]) /\ InSeq(d, batch'[v]))
                      /\ \A d \in Co : InSeq(d, deliverq'[v]) \/ InSeq(d, batch'[v]) =>
                           Unresumed(d)' /\ ~InSeq(d, waiting') /\ tid'[d] = v
    BY DEF QueuesOK
  <2>1. IsInjective(deliverq'[v])
    <3>1. CASE Sent /\ v = u
      <4>1. deliverq[u] \in Seq(Co) /\ IsInjective(deliverq[u]) /\ ~InSeq(w, deliverq[u])
        BY <1>0, <1>a DEF QueuesOK, AsyncTypeOK
      <4>2. IsInjective(Append(deliverq[u], w))
        BY <4>1, <1>0, DistinctAppend
      <4> QED BY <3>1, <4>2, <1>b
    <3>2. CASE Stopped \/ v # u
      <4>1. deliverq'[v] = deliverq[v]
        BY <3>2, <1>0, <1>b DEF Stopped
      <4> QED BY <4>1 DEF QueuesOK
    <3> QED BY <3>1, <3>2, <1>0
  <2>2. \A d \in Co : ~(InSeq(d, deliverq'[v]) /\ InSeq(d, batch'[v]))
    BY <1>0, <1>a, <1>g DEF QueuesOK
  <2>3. ASSUME NEW d \in Co, InSeq(d, deliverq'[v]) \/ InSeq(d, batch'[v])
        PROVE  Unresumed(d)' /\ ~InSeq(d, waiting') /\ tid'[d] = v
    <3>1. CASE InSeq(d, deliverq[v]) \/ InSeq(d, batch[v])
      BY <3>1, <1>0, <1>e DEF QueuesOK
    <3>2. CASE d = w /\ v = u /\ Sent
      BY <3>2, <1>0, <1>a, <1>b, <1>e
    <3> QED BY <2>3, <3>1, <3>2, <1>0, <1>g
  <2>4. IsInjective(batch'[v])
    BY <1>0 DEF QueuesOK
  <2> QED BY <2>1, <2>2, <2>3, <2>4
<1>6. WakeKept'
  <2> SUFFICES ASSUME NEW d \in Co, Served(d)'
               PROVE  Carried(d)' \/ status'[d] = "RESUMED" \/ tid'[d] \notin open'
    BY DEF WakeKept
  <2>1. CASE d = w
    <3>1. CASE Sent
      BY <2>1, <3>1, <1>0, <1>b DEF Carried
    <3>2. CASE Stopped
      BY <2>1, <3>2, <1>0 DEF Stopped
    <3> QED BY <3>1, <3>2, <1>0
  <2>2. CASE d # w
    <3>1. Served(d) /\ status'[d] = status[d]
      BY <2>2, <1>0, <1>c DEF Served, Awaiting
    <3>2. Carried(d) => Carried(d)'
      BY <2>2, <1>0, <1>c, <1>f, <1>g DEF Carried
    <3> QED BY <3>1, <3>2, <1>0 DEF WakeKept
  <2> QED BY <2>1, <2>2
<1>7. LiveOK'
  BY <1>0, <1>c, LiveStep, RunsLive DEF WakeRemote
<1> QED BY <1>0, <1>1, <1>2, <1>3, <1>4, <1>5, <1>6, <1>7

LEMMA CollectInv ==
  ASSUME AsyncInv, NEW t \in Thread, Collect(t)
  PROVE  AsyncInv'
<1> USE DEF AsyncInv
<1>0. /\ UNCHANGED <<pc, status, tid, waiting, hand, stack, open, live>>
      /\ batch[t] = <<>>
      /\ batch' = [batch EXCEPT ![t] = deliverq[t]]
      /\ deliverq' = [deliverq EXCEPT ![t] = <<>>]
      /\ signal' = [signal EXCEPT ![t] = FALSE]
  BY DEF Collect, Idle
<1>a. /\ \A v \in Thread : v # t => deliverq'[v] = deliverq[v] /\ batch'[v] = batch[v]
      /\ batch'[t] = deliverq[t] /\ deliverq'[t] = <<>>
  BY <1>0 DEF AsyncTypeOK
<1>b. \A y : ~InSeq(y, deliverq'[t]) /\ ~InSeq(y, batch[t])
  BY <1>0, <1>a, InSeqEmpty
<1>c. IsInjective(deliverq'[t])
  BY <1>a, DistinctEmpty
<1>1. AsyncTypeOK'
  BY <1>0 DEF AsyncTypeOK
<1>2. StatusOK'
  BY <1>0 DEF StatusOK
<1>3. WaitingOK'
  BY <1>0 DEF WaitingOK, Unresumed, Awaiting
<1>4. HandOK'
  BY <1>0, <1>a, <1>b DEF HandOK, Waking, Unresumed, Awaiting, Orphaned
<1>5. QueuesOK'
  BY <1>0, <1>a, <1>b, <1>c DEF QueuesOK, Unresumed, Awaiting
<1>6. WakeKept'
  <2>1. \A d \in Co : Carried(d) => Carried(d)'
    BY <1>0, <1>a, <1>b DEF Carried, Waking
  <2> QED BY <1>0, <2>1 DEF WakeKept, Served, Awaiting
<1>7. LiveOK'
  BY <1>0, <1>a, LiveStep DEF Collect, Idle
<1> QED BY <1>0, <1>1, <1>2, <1>3, <1>4, <1>5, <1>6, <1>7

LEMMA ResumeNextInv ==
  ASSUME AsyncInv, NEW t \in Thread, ResumeNext(t)
  PROVE  AsyncInv'
<1> DEFINE w == Head(batch[t])
<1> USE DEF AsyncInv
<1>0. /\ batch[t] \in Seq(Co) /\ batch[t] # <<>> /\ w \in Co
      /\ UNCHANGED <<tid, waiting, hand, deliverq, signal, open, live>>
      /\ batch' = [batch EXCEPT ![t] = Tail(batch[t])]
      /\ ResumeOn(w, t, pc, <<>>)
  <2>1. batch[t] \in Seq(Co) /\ batch[t] # <<>>
    BY DEF ResumeNext, AsyncTypeOK
  <2>2. w \in Co
    BY <2>1
  <2> QED BY <2>1, <2>2 DEF ResumeNext, ResumeOn
<1>a. /\ \A v \in Thread : v # t => batch'[v] = batch[v]
      /\ batch'[t] = Tail(batch[t])
      /\ \A y : InSeq(y, batch[t]) <=> y = w \/ InSeq(y, batch'[t])
  BY <1>0, InSeqTail DEF AsyncTypeOK
<1>b. IsInjective(batch'[t]) /\ ~InSeq(w, batch'[t])
  BY <1>0, <1>a, DistinctTail DEF QueuesOK
<1>c. /\ Unresumed(w) /\ ~InSeq(w, waiting) /\ tid[w] = t
      /\ \A v \in Thread : ~InSeq(w, deliverq[v]) /\ ~InSeq(w, batch'[v])
      /\ \A d \in Co : Waking(d) => hand[d] # w
  BY <1>0, <1>a, <1>b DEF QueuesOK, HandOK
<1>d. /\ stack' \in [Thread -> Seq(Co)]
      /\ \/ /\ status' = [status EXCEPT ![w] = "FINISHED"]
            /\ pc' = [pc EXCEPT ![w] = "back"]
         \/ /\ status' = [status EXCEPT ![w] = "RESUMED"]
            /\ pc' = pc
            /\ pc[w] \in {"queued", "unready"}
  <2>1. <<>> \in Seq(Co) /\ pc \in [Co -> Pc]
    BY DEF AsyncTypeOK
  <2> QED BY <1>0, <1>c, <2>1, ResumeOnUnresumed
<1>e. /\ \A d \in Co : d # w => pc'[d] = pc[d] /\ status'[d] = status[d]
      /\ \/ pc'[w] = "back" /\ status'[w] = "FINISHED"
         \/ pc'[w] = pc[w] /\ pc[w] \in {"queued", "unready"} /\ status'[w] = "RESUMED"
  BY <1>0, <1>d DEF AsyncTypeOK
<1>f. \A d \in Co : d # w => (Unresumed(d)' <=> Unresumed(d))
  BY <1>0, <1>e DEF Unresumed, Awaiting
<1>g. \A d \in Co : Waking(d)' <=> Waking(d)
  BY <1>0, <1>c, <1>e DEF Waking, Unresumed, Awaiting
<1>1. AsyncTypeOK'
  <2>1. pc' \in [Co -> Pc] /\ status' \in [Co -> EventStatus \cup {"ASSERT"}]
    BY <1>d DEF AsyncTypeOK, Pc, EventStatus
  <2>2. batch' \in [Thread -> Seq(Co)]
    BY <1>0 DEF AsyncTypeOK
  <2> QED BY <1>0, <1>d, <2>1, <2>2 DEF AsyncTypeOK
<1>2. StatusOK'
  BY <1>0, <1>e DEF StatusOK
<1>3. WaitingOK'
  BY <1>0, <1>c, <1>f DEF WaitingOK
<1>4. HandOK'
  <2>1. \A d \in Co : Waking(d)' => (Unresumed(hand[d]) \/ Orphaned(d))' /\ ~InSeq(hand'[d], waiting')
    <3> SUFFICES ASSUME NEW d \in Co, Waking(d)'
                 PROVE  (Unresumed(hand[d]) \/ Orphaned(d))' /\ ~InSeq(hand'[d], waiting')
      OBVIOUS
    <3>1. Waking(d) /\ hand'[d] = hand[d] /\ hand[d] \in Co /\ hand[d] # w
      BY <1>0, <1>c, <1>g DEF AsyncTypeOK
    <3>2. (Unresumed(hand[d]) \/ Orphaned(d)) /\ ~InSeq(hand[d], waiting)
      BY <3>1 DEF HandOK
    <3>3. d # w
      BY <3>1, <1>c DEF Waking, Unresumed, Awaiting
    <3>4. pc'[d] = pc[d] /\ pc'[hand[d]] = pc[hand[d]] /\ (Unresumed(hand[d])' <=> Unresumed(hand[d]))
      BY <3>1, <3>3, <1>0, <1>e DEF Unresumed, Awaiting
    <3> QED BY <3>1, <3>2, <3>4, <1>0 DEF Orphaned
  <2>2. \A d, e \in Co : Waking(d)' /\ Waking(e)' /\ hand'[d] = hand'[e] => d = e
    BY <1>0, <1>g DEF HandOK
  <2>3. \A d \in Co, v \in Thread :
          Waking(d)' => ~InSeq(hand'[d], deliverq'[v]) /\ ~InSeq(hand'[d], batch'[v])
    BY <1>0, <1>a, <1>g DEF HandOK
  <2> QED BY <2>1, <2>2, <2>3 DEF HandOK
<1>5. QueuesOK'
  BY <1>0, <1>a, <1>b, <1>c, <1>f DEF QueuesOK
<1>6. WakeKept'
  <2> SUFFICES ASSUME NEW d \in Co, Served(d)'
               PROVE  Carried(d)' \/ status'[d] = "RESUMED" \/ tid'[d] \notin open'
    BY DEF WakeKept
  <2>1. CASE d = w
    BY <2>1, <1>e DEF Served, Awaiting
  <2>2. CASE d # w
    <3>1. Served(d) /\ status'[d] = status[d]
      BY <2>2, <1>0, <1>e DEF Served, Awaiting
    <3>2. Carried(d) => Carried(d)'
      BY <2>2, <1>0, <1>a, <1>g DEF Carried
    <3> QED BY <3>1, <3>2, <1>0 DEF WakeKept
  <2> QED BY <2>1, <2>2
<1>7. LiveOK'
  <2>1. t \in live /\ \A v \in Thread : v # t => stack'[v] = stack[v]
    BY <1>0 DEF LiveOK, ResumeOn, AsyncTypeOK
  <2>2. \A d \in Co : pc'[d] = "dead" => pc[d] = "dead"
    BY <1>e
  <2> QED BY <1>0, <1>a, <2>1, <2>2, LiveStep
<1> QED BY <1>0, <1>1, <1>2, <1>3, <1>4, <1>5, <1>6, <1>7

\* What stays in a queue when some are unlinked from it.
LEMMA InSeqOnly ==
  ASSUME NEW q \in Seq(Co), NEW S
  PROVE  /\ Only(q, S) \in Seq(Co) /\ (IsInjective(q) => IsInjective(Only(q, S)))
         /\ \A y : InSeq(y, Only(q, S)) <=> InSeq(y, q) /\ y \in S
<1>1. PICK r \in Seq(Co) : r = Only(q, S) /\ \E e : Embeds(e, r, q, S)
  BY OnlyEmbeds
<1>2. PICK e : Embeds(e, r, q, S)
  BY <1>1
<1>3. DOMAIN q = 1..Len(q) /\ DOMAIN r = 1..Len(r)
  OBVIOUS
<1>4. /\ e \in [1..Len(r) -> 1..Len(q)]
      /\ \A k \in 1..Len(r) : r[k] = q[e[k]] /\ q[e[k]] \in S
      /\ \A i \in 1..Len(q) : q[i] \in S => \E k \in 1..Len(r) : e[k] = i
  BY <1>2 DEF Embeds
<1>5. \A y : InSeq(y, r) <=> InSeq(y, q) /\ y \in S
  <2>1. ASSUME NEW y, InSeq(y, r) PROVE InSeq(y, q) /\ y \in S
    <3>1. PICK k \in 1..Len(r) : r[k] = y
      BY <2>1, <1>3 DEF InSeq
    <3>2. e[k] \in 1..Len(q) /\ q[e[k]] = y /\ y \in S
      BY <3>1, <1>4
    <3> QED BY <3>2, <1>3 DEF InSeq
  <2>2. ASSUME NEW y, InSeq(y, q), y \in S PROVE InSeq(y, r)
    <3>1. PICK i \in 1..Len(q) : q[i] = y
      BY <2>2, <1>3 DEF InSeq
    <3>2. PICK k \in 1..Len(r) : e[k] = i
      BY <3>1, <2>2, <1>4
    <3>3. r[k] = y
      BY <3>1, <3>2, <1>4
    <3> QED BY <3>3, <1>3 DEF InSeq
  <2> QED BY <2>1, <2>2
<1>6. IsInjective(q) => IsInjective(r)
  BY DistinctInjective, OnlyKeeps, <1>1
<1> QED BY <1>1, <1>5, <1>6

\* cosys::stop: the thread takes no more events; those on their way keep where they are.
LEMMA StopLoopInv ==
  ASSUME AsyncInv, NEW c \in Co, NEW t \in Thread, StopLoop(c, t)
  PROVE  AsyncInv'
<1> USE DEF AsyncInv
<1>1. /\ UNCHANGED <<pc, status, tid, waiting, hand, stack, deliverq, batch, live>>
      /\ open' = open \ {t} /\ signal' = [signal EXCEPT ![t] = FALSE]
  BY DEF StopLoop
<1>2. AsyncTypeOK' /\ StatusOK' /\ WaitingOK'
  BY <1>1 DEF AsyncTypeOK, StatusOK, WaitingOK, Unresumed, Awaiting
<1>3. HandOK'
  BY <1>1 DEF HandOK, Waking, Unresumed, Awaiting, Orphaned
<1>4. QueuesOK'
  BY <1>1 DEF QueuesOK, Unresumed, Awaiting
<1>5. WakeKept'
  BY <1>1 DEF WakeKept, Served, Carried, Waking, Awaiting
<1>6. LiveOK'
  BY <1>1 DEF LiveOK
<1> QED BY <1>2, <1>3, <1>4, <1>5, <1>6

(* The end of a thread: its suspended coroutines are destroyed and leave every      *)
(* queue; an event of theirs that was popped stays in the hand it is in, and the     *)
(* only hands are of coroutines that would pass it on to the ended thread.             *)
LEMMA ThreadExitInv ==
  ASSUME AsyncInv, \A d \in Co : pc[d] # "resume", NEW t \in Thread, ThreadExit(t)
  PROVE  /\ AsyncInv' /\ \A d \in Co : Holds(d)' <=> Holds(d) /\ pc'[d] # "dead"
         /\ \A d \in Co : pc'[d] \in {pc[d], "dead"} /\ (pc[d] = "back" => pc'[d] = "back")
         /\ \E gone \in SUBSET Co : waiting' = Only(waiting, Co \ gone)
<1> DEFINE dying == {d \in Co : tid[d] = t /\ pc[d] \in {"io", "ioback", "parked"}}
<1> USE DEF AsyncInv
<1>1. /\ pc' = [d \in Co |-> IF d \in dying THEN "dead" ELSE pc[d]]
      /\ waiting' = Only(waiting, Co \ dying)
      /\ deliverq' = [deliverq EXCEPT ![t] = Only(deliverq[t], Co \ dying)]
      /\ live' = live \ {t}
      /\ UNCHANGED <<status, tid, hand, stack, signal, batch, open>>
      /\ t \notin open /\ stack[t] = <<>> /\ batch[t] = <<>>
  BY DEF ThreadExit, Idle
<1>2. /\ \A d \in dying : tid[d] = t /\ pc'[d] = "dead"
      /\ \A d \in Co \ dying : pc'[d] = pc[d]
      /\ \A d \in Co : Waking(d) => d \notin dying
      /\ \A d \in Co : pc[d] \in {"queued", "unready", "back"} => d \notin dying
  BY <1>1 DEF Waking
<1>3. waiting \in Seq(Co) /\ deliverq[t] \in Seq(Co) /\ IsInjective(waiting) /\ IsInjective(deliverq[t])
  BY DEF AsyncTypeOK, WaitingOK, QueuesOK
<1>4. /\ waiting' \in Seq(Co) /\ IsInjective(waiting')
      /\ \A d \in Co : InSeq(d, waiting') <=> InSeq(d, waiting) /\ d \notin dying
  BY <1>1, <1>3, InSeqOnly
<1>5. /\ deliverq'[t] \in Seq(Co) /\ IsInjective(deliverq'[t])
      /\ \A d \in Co : InSeq(d, deliverq'[t]) <=> InSeq(d, deliverq[t]) /\ d \notin dying
      /\ deliverq' \in [Thread -> Seq(Co)] /\ \A u \in Thread : u # t => deliverq'[u] = deliverq[u]
  <2>1. /\ Only(deliverq[t], Co \ dying) \in Seq(Co) /\ IsInjective(Only(deliverq[t], Co \ dying))
        /\ \A d \in Co : InSeq(d, Only(deliverq[t], Co \ dying)) <=> InSeq(d, deliverq[t]) /\ d \notin dying
    BY <1>3, InSeqOnly
  <2>2. deliverq \in [Thread -> Seq(Co)]
    BY DEF AsyncTypeOK
  <2> HIDE DEF dying
  <2>3. deliverq'[t] = Only(deliverq[t], Co \ dying)
    BY <1>1, <2>2
  <2> QED BY <1>1, <2>1, <2>2, <2>3
<1> HIDE DEF dying
<1>6. \A d \in Co : /\ Unresumed(d) /\ d \notin dying => Unresumed(d)'
                    /\ Awaiting(d)' => Awaiting(d) /\ d \notin dying
                    /\ Waking(d)' <=> Waking(d)
  BY <1>1, <1>2 DEF Unresumed, Awaiting, Waking
<1>7. AsyncTypeOK'
  <2>1. pc' \in [Co -> Pc]
    BY <1>1 DEF AsyncTypeOK, Pc
  <2> QED BY <1>1, <1>4, <1>5, <2>1 DEF AsyncTypeOK
<1>8. StatusOK'
  BY <1>1, <1>2 DEF StatusOK
<1>9. WaitingOK'
  BY <1>4, <1>6 DEF WaitingOK
<1>10. HandOK'
  <2>1. ASSUME NEW d \in Co, Waking(d)'
        PROVE  (Unresumed(hand[d]) \/ Orphaned(d))' /\ ~InSeq(hand'[d], waiting')
    <3>1. Waking(d) /\ hand'[d] = hand[d] /\ hand[d] \in Co /\ pc'[d] = "deliver" /\ pc[d] = "deliver"
      BY <2>1, <1>1, <1>2, <1>6 DEF AsyncTypeOK, Waking
    <3>2. (Unresumed(hand[d]) \/ Orphaned(d)) /\ ~InSeq(hand[d], waiting)
      BY <3>1 DEF HandOK
    <3>3. CASE hand[d] \in dying
      BY <3>1, <3>2, <3>3, <1>2, <1>4 DEF Orphaned
    <3>4. CASE hand[d] \notin dying
      BY <3>1, <3>2, <3>4, <1>2, <1>4, <1>6 DEF Orphaned
    <3> QED BY <3>3, <3>4
  <2>2. \A d, e \in Co : Waking(d)' /\ Waking(e)' /\ hand'[d] = hand'[e] => d = e
    BY <1>1, <1>6 DEF HandOK
  <2>3. \A d \in Co, u \in Thread :
          Waking(d)' => ~InSeq(hand'[d], deliverq'[u]) /\ ~InSeq(hand'[d], batch'[u])
    <3>1. \A d \in Co : hand[d] \in Co
      BY DEF AsyncTypeOK
    <3> QED BY <3>1, <1>1, <1>5, <1>6 DEF HandOK
  <2> QED BY <2>1, <2>2, <2>3 DEF HandOK
<1>11. QueuesOK'
  <2> SUFFICES ASSUME NEW u \in Thread
               PROVE  /\ IsInjective(deliverq'[u]) /\ IsInjective(batch'[u])
                      /\ \A d \in Co : ~(InSeq(d, deliverq'[u]) /\ InSeq(d, batch'[u]))
                      /\ \A d \in Co : InSeq(d, deliverq'[u]) \/ InSeq(d, batch'[u]) =>
                           Unresumed(d)' /\ ~InSeq(d, waiting') /\ tid'[d] = u
    BY DEF QueuesOK
  <2>1. CASE u = t
    <3>1. \A d \in Co : ~InSeq(d, batch'[t])
      BY <1>1, InSeqEmpty
    <3>2. IsInjective(batch'[t])
      BY <1>1, DistinctEmpty
    <3> QED BY <2>1, <3>1, <3>2, <1>1, <1>4, <1>5, <1>6 DEF QueuesOK
  <2>2. CASE u # t
    <3>1. deliverq'[u] = deliverq[u] /\ batch'[u] = batch[u] /\ tid' = tid
      BY <2>2, <1>1, <1>5
    <3>2. \A d \in Co : InSeq(d, deliverq[u]) \/ InSeq(d, batch[u]) => d \notin dying
      BY <2>2, <1>2 DEF QueuesOK
    <3> QED BY <3>1, <3>2, <1>4, <1>6 DEF QueuesOK
  <2> QED BY <2>1, <2>2
<1>12. \A d \in Co : Served(d)' => Served(d) /\ d \notin dying
  BY <1>4, <1>6 DEF Served
<1>13. WakeKept'
  <2> SUFFICES ASSUME NEW d \in Co, Served(d)'
               PROVE  Carried(d)' \/ status'[d] = "RESUMED" \/ tid'[d] \notin open'
    BY DEF WakeKept
  <2>1. Served(d) /\ d \notin dying
    BY <1>12
  <2>2. Carried(d) => Carried(d)'
    <3>1. CASE \E e \in Co : Waking(e) /\ hand[e] = d
      BY <3>1, <1>1, <1>6 DEF Carried
    <3>2. CASE \E u \in Thread : InSeq(d, deliverq[u]) \/ InSeq(d, batch[u])
      <4>1. PICK u \in Thread : InSeq(d, deliverq[u]) \/ InSeq(d, batch[u])
        BY <3>2
      <4>2. InSeq(d, deliverq'[u]) \/ InSeq(d, batch'[u])
        BY <4>1, <2>1, <1>1, <1>5
      <4> QED BY <4>2 DEF Carried
    <3> QED BY <3>1, <3>2 DEF Carried
  <2> QED BY <2>1, <2>2, <1>1 DEF WakeKept
<1>14. LiveOK'
  <2>1. \A u \in Thread : stack'[u] # <<>> \/ batch'[u] # <<>> \/ u \in open' => u \in live'
    BY <1>1 DEF LiveOK
  <2>2. \A d \in Co : pc'[d] = "dead" => tid'[d] \notin live'
    BY <1>1, <1>2 DEF LiveOK
  <2> QED BY <2>1, <2>2 DEF LiveOK
<1>15. \A d \in Co : Holds(d)' <=> Holds(d) /\ pc'[d] # "dead"
  <2> SUFFICES ASSUME NEW d \in Co PROVE Holds(d)' <=> Holds(d) /\ pc'[d] # "dead"
    OBVIOUS
  <2>1. CASE d \in dying
    BY <2>1, <1>2 DEF Holds, Served, Awaiting
  <2>2. CASE d \notin dying
    BY <2>2, <1>2, <1>4 DEF Holds, Served, Awaiting
  <2> QED BY <2>1, <2>2
<1>16. dying \in SUBSET Co
  BY DEF dying
<1>17. \A d \in Co : pc'[d] \in {pc[d], "dead"} /\ (pc[d] = "back" => pc'[d] = "back")
  BY <1>2
<1> QED BY <1>1, <1>7, <1>8, <1>9, <1>10, <1>11, <1>13, <1>14, <1>15, <1>16, <1>17

LEMMA AsyncInitInv ==
  ASSUME AsyncInit
  PROVE  AsyncInv
<1>1. AsyncTypeOK
  BY DEF AsyncInit, AsyncTypeOK, Pc, EventStatus
<1>2. StatusOK /\ WakeKept
  BY DEF AsyncInit, StatusOK, WakeKept, Served, Awaiting
<1>3. WaitingOK /\ HandOK
  BY InSeqEmpty, DistinctEmpty DEF AsyncInit, WaitingOK, HandOK, Waking
<1>4. QueuesOK
  BY InSeqEmpty, DistinctEmpty DEF AsyncInit, QueuesOK
<1>5. LiveOK
  BY DEF AsyncInit, LiveOK
<1> QED BY <1>1, <1>2, <1>3, <1>4, <1>5 DEF AsyncInv

(* All the steps an object leaves to the machinery.                            *)
LEMMA MachineryInv ==
  ASSUME AsyncInv, NEW t \in Thread,
         \/ LoopStep(t)
         \/ \E c \in Co : AsyncStep(c, t) \/ IoReady(c, t) \/ IoWait(c, t)
  PROVE  AsyncInv'
<1>1. CASE LoopStep(t)
  BY <1>1, CollectInv, ResumeNextInv DEF LoopStep
<1>2. CASE \E c \in Co : AsyncStep(c, t) \/ IoReady(c, t) \/ IoWait(c, t)
  BY <1>2, CheckReadyInv, CheckSuspendInv, WakeInlineInv, WakeRemoteInv, IoReadyInv, IoWaitInv
     DEF AsyncStep
<1> QED BY <1>1, <1>2

(* The machinery neither gives anything nor takes anything away: whoever holds *)
(* what it waited for before one of its steps holds it after, and the queue of   *)
(* waiters is left alone.                                                         *)
LEMMA MachineryHolds ==
  ASSUME AsyncInv, NEW t \in Thread,
         \/ LoopStep(t)
         \/ \E c \in Co : AsyncStep(c, t) \/ IoReady(c, t) \/ IoWait(c, t)
  PROVE  waiting' = waiting /\ \A d \in Co : Holds(d)' <=> Holds(d)
<1> USE DEF AsyncInv, Holds, Served, Awaiting
<1>1. CASE Collect(t)
  BY <1>1 DEF Collect
<1>2. CASE ResumeNext(t)
  <2> DEFINE w == Head(batch[t])
  <2>a. /\ batch[t] \in Seq(Co) /\ batch[t] # <<>>
        /\ ResumeOn(w, t, pc, <<>>) /\ waiting' = waiting
    BY <1>2 DEF ResumeNext, AsyncTypeOK
  <2>0. w \in Co /\ InSeq(w, batch[t]) /\ ResumeOn(w, t, pc, <<>>) /\ waiting' = waiting
    BY <2>a, InSeqTail
  <2>1. Unresumed(w) /\ ~InSeq(w, waiting)
    BY <2>0 DEF QueuesOK
  <2>2. pc' = pc \/ pc' = [pc EXCEPT ![w] = "back"]
    BY <2>0 DEF ResumeOn
  <2> QED BY <2>0, <2>1, <2>2 DEF Unresumed, AsyncTypeOK
<1>3. ASSUME NEW c \in Co, IoReady(c, t) \/ IoWait(c, t)
      PROVE  waiting' = waiting /\ \A d \in Co : Holds(d)' <=> Holds(d)
  BY <1>3 DEF IoReady, IoWait, AsyncTypeOK
<1>4. ASSUME NEW c \in Co, CheckReady(c, t)
      PROVE  waiting' = waiting /\ \A d \in Co : Holds(d)' <=> Holds(d)
  <2>1. AwaitReady(status[c]) => ~InSeq(c, waiting)
    BY <1>4 DEF CheckReady, AwaitReady, StatusOK, WaitingOK, Unresumed
  <2> QED BY <1>4, <2>1 DEF CheckReady, AsyncTypeOK
<1>5. ASSUME NEW c \in Co, CheckSuspend(c, t)
      PROVE  waiting' = waiting /\ \A d \in Co : Holds(d)' <=> Holds(d)
  <2>1. AwaitSuspend(status[c]) # "SUSPEND" => ~InSeq(c, waiting)
    BY <1>5 DEF CheckSuspend, AwaitSuspend, StatusOK, WaitingOK, Unresumed
  <2> QED BY <1>5, <2>1 DEF CheckSuspend, AsyncTypeOK
<1>6. ASSUME NEW c \in Co, WakeInline(c, t)
      PROVE  waiting' = waiting /\ \A d \in Co : Holds(d)' <=> Holds(d)
  <2> DEFINE w == hand[c]
             p == [pc EXCEPT ![c] = "run"]
  <2>0. w \in Co /\ Waking(c) /\ ResumeOn(w, t, p, stack[t]) /\ waiting' = waiting
    BY <1>6 DEF WakeInline, AsyncTypeOK, Waking
  <2>a. Unresumed(w)
    BY <1>6, <2>0, HandAlive, RunsLive DEF WakeInline
  <2>1. Unresumed(w) /\ ~InSeq(w, waiting) /\ w # c
    BY <2>0, <2>a DEF HandOK, Unresumed, Waking
  <2>2. pc' = p \/ pc' = [p EXCEPT ![w] = "back"]
    BY <2>0 DEF ResumeOn
  <2>3. \A d \in Co : d # c /\ d # w => pc'[d] = pc[d]
    BY <2>2 DEF AsyncTypeOK
  <2>4. pc'[c] = "run" /\ pc'[w] \in {pc[w], "back"}
    BY <2>0, <2>1, <2>2 DEF AsyncTypeOK
  <2> QED BY <2>0, <2>1, <2>3, <2>4 DEF Unresumed, Waking
<1>7. ASSUME NEW c \in Co, WakeRemote(c, t)
      PROVE  waiting' = waiting /\ \A d \in Co : Holds(d)' <=> Holds(d)
  BY <1>7 DEF WakeRemote, AsyncTypeOK
<1> QED BY <1>1, <1>2, <1>3, <1>4, <1>5, <1>6, <1>7 DEF LoopStep, AsyncStep

(* Popping the first waiter gives it to the waiter and to nobody else.         *)
LEMMA PopWaiterHolds ==
  ASSUME AsyncInv, NEW c \in Co, NEW t \in Thread, NEW how \in {"deliver", "resume"},
         pc[c] \in {"run", "back"}, PopWaiter(c, t, how)
  PROVE  /\ Head(waiting) \in Co /\ Head(waiting) # c /\ ~Holds(Head(waiting))
         /\ Awaiting(Head(waiting))
         /\ \A d \in Co : Holds(d)' <=> d = Head(waiting) \/ (Holds(d) /\ d # c)
<1> USE DEF AsyncInv, Holds, Served, Awaiting
<1>1. Head(waiting) \in Co /\ waiting # <<>> /\ waiting' = Tail(waiting)
  BY DEF PopWaiter, AsyncTypeOK
<1>2. \A y : InSeq(y, waiting) <=> y = Head(waiting) \/ InSeq(y, waiting')
  BY <1>1, InSeqTail DEF AsyncTypeOK
<1>3. ~InSeq(Head(waiting), waiting')
  BY <1>1, DistinctTail DEF AsyncTypeOK, WaitingOK
<1>4. Unresumed(Head(waiting)) /\ Head(waiting) # c
  BY <1>1, <1>2 DEF WaitingOK, Unresumed
<1>5. pc'[c] = how /\ \A d \in Co : d # c => pc'[d] = pc[d]
  BY DEF PopWaiter, AsyncTypeOK
<1> QED BY <1>1, <1>2, <1>3, <1>4, <1>5 DEF Unresumed

(* A step of the machinery lets at most one coroutine return from suspend(),   *)
(* one whose event was popped before.                                            *)
LEMMA MachineryReturns ==
  ASSUME AsyncInv, NEW t \in Thread,
         LoopStep(t) \/ \E c \in Co : AsyncStep(c, t)
  PROVE  /\ \A d \in Co : pc'[d] \in {"ioback", "resume", "dead"} => pc[d] = pc'[d]
         /\ \A d \in Co : pc[d] = "dead" => pc'[d] = "dead"
         /\ \/ \A d \in Co : pc'[d] = "back" <=> pc[d] = "back"
            \/ \E w \in Co : /\ Served(w) /\ pc'[w] = "back"
                             /\ \A d \in Co : d # w => (pc'[d] = "back" <=> pc[d] = "back")
<1> DEFINE Goal == /\ \A d \in Co : pc'[d] \in {"ioback", "resume", "dead"} => pc[d] = pc'[d]
                   /\ \A d \in Co : pc[d] = "dead" => pc'[d] = "dead"
                   /\ \/ \A d \in Co : pc'[d] = "back" <=> pc[d] = "back"
                      \/ \E w \in Co : /\ Served(w) /\ pc'[w] = "back"
                                       /\ \A d \in Co : d # w => (pc'[d] = "back" <=> pc[d] = "back")
<1> USE DEF AsyncInv
<1>0. ASSUME NEW w \in Co, Served(w), NEW c \in Co, c # w, NEW q \in Pc,
             pc[c] \notin {"back", "dead"}, q \notin {"back", "ioback", "resume", "dead"},
             \/ pc' = [pc EXCEPT ![c] = q]
             \/ pc' = [[pc EXCEPT ![c] = q] EXCEPT ![w] = "back"]
      PROVE  Goal
  BY ZenonT(60), <1>0 DEF AsyncTypeOK, Served, Awaiting
<1>1. ASSUME NEW w \in Co, Served(w), pc' = pc \/ pc' = [pc EXCEPT ![w] = "back"]
      PROVE  Goal
  BY ZenonT(60), <1>1 DEF AsyncTypeOK, Served, Awaiting
<1>2. CASE Collect(t)
  BY <1>2 DEF Collect
<1>3. CASE ResumeNext(t)
  <2> DEFINE w == Head(batch[t])
  <2>0. /\ batch[t] \in Seq(Co) /\ batch[t] # <<>>
        /\ ResumeOn(w, t, pc, <<>>)
    BY <1>3 DEF ResumeNext, AsyncTypeOK
  <2>1. w \in Co /\ InSeq(w, batch[t]) /\ ResumeOn(w, t, pc, <<>>)
    BY <2>0, InSeqTail
  <2>2. Served(w)
    BY <2>1 DEF QueuesOK, Unresumed, Served
  <2>3. pc' = pc \/ pc' = [pc EXCEPT ![w] = "back"]
    BY <2>1 DEF ResumeOn
  <2> QED BY <1>1, <2>1, <2>2, <2>3
<1>4. ASSUME NEW c \in Co, CheckReady(c, t) PROVE Goal
  <2>1. AwaitReady(status[c]) => Served(c)
    BY <1>4 DEF CheckReady, AwaitReady, StatusOK, WaitingOK, Unresumed, Served, Awaiting
  <2>2. CASE AwaitReady(status[c])
    BY <1>1, <1>4, <2>1, <2>2 DEF CheckReady
  <2>3. CASE ~AwaitReady(status[c])
    BY <1>4, <2>3 DEF CheckReady, AsyncTypeOK
  <2> QED BY <2>2, <2>3
<1>5. ASSUME NEW c \in Co, CheckSuspend(c, t) PROVE Goal
  <2>1. AwaitSuspend(status[c]) # "SUSPEND" => Served(c)
    BY <1>5 DEF CheckSuspend, AwaitSuspend, StatusOK, WaitingOK, Unresumed, Served, Awaiting
  <2>2. CASE AwaitSuspend(status[c]) # "SUSPEND"
    BY <1>1, <1>5, <2>1, <2>2 DEF CheckSuspend
  <2>3. CASE AwaitSuspend(status[c]) = "SUSPEND"
    BY <1>5, <2>3 DEF CheckSuspend, AsyncTypeOK
  <2> QED BY <2>2, <2>3
<1>6. ASSUME NEW c \in Co, WakeInline(c, t) PROVE Goal
  <2> DEFINE w == hand[c]
             p == [pc EXCEPT ![c] = "run"]
  <2>1. w \in Co /\ Waking(c) /\ ResumeOn(w, t, p, stack[t])
    BY <1>6 DEF WakeInline, AsyncTypeOK, Waking
  <2>a. Unresumed(w)
    BY <1>6, <2>1, HandAlive, RunsLive DEF WakeInline
  <2>2. Served(w) /\ w # c /\ pc[c] \notin {"back", "dead"}
    BY <2>1, <2>a DEF HandOK, Unresumed, Waking, Served, Awaiting
  <2>3. pc' = p \/ pc' = [p EXCEPT ![w] = "back"]
    BY <2>1 DEF ResumeOn
  <2>4. "run" \in Pc \ {"back", "ioback", "resume", "dead"}
    BY DEF Pc
  <2> QED BY <1>0, <2>1, <2>2, <2>3, <2>4
<1>7. ASSUME NEW c \in Co, WakeRemote(c, t) PROVE Goal
  BY <1>7 DEF WakeRemote, AsyncTypeOK
<1> QED BY <1>2, <1>3, <1>4, <1>5, <1>6, <1>7 DEF LoopStep, AsyncStep

\* suspend() has returned and the coroutine goes on.
LEMMA ReturnInv ==
  ASSUME AsyncInv, NEW c \in Co, pc[c] = "back", pc' = [pc EXCEPT ![c] = "run"],
         UNCHANGED <<status, tid, waiting, hand, stack, deliverq, signal, batch, open, live>>
  PROVE  AsyncInv'
<1> USE DEF AsyncInv
<1>0. pc'[c] = "run" /\ \A d \in Co : d # c => pc'[d] = pc[d]
  BY DEF AsyncTypeOK
<1>1. AsyncTypeOK' /\ StatusOK'
  BY <1>0 DEF AsyncTypeOK, StatusOK, Pc
<1>2. WaitingOK'
  BY <1>0 DEF WaitingOK, Unresumed, Awaiting
<1>3. HandOK'
  BY <1>0, HandsStay DEF Waking, Unresumed, Awaiting
<1>4. QueuesOK'
  BY <1>0 DEF QueuesOK, Unresumed, Awaiting
<1>5. WakeKept'
  BY <1>0 DEF WakeKept, Served, Carried, Waking, Awaiting
<1>6. LiveOK'
  BY <1>0 DEF LiveOK
<1> QED BY <1>1, <1>2, <1>3, <1>4, <1>5, <1>6

LEMMA AsyncUnchanged ==
  ASSUME AsyncInv, UNCHANGED asyncVars
  PROVE  AsyncInv'
<1>1. AsyncTypeOK' /\ StatusOK' /\ WaitingOK'
  BY DEF AsyncInv, asyncVars, AsyncTypeOK, StatusOK, WaitingOK, Unresumed, Awaiting
<1>2. HandOK'
  BY DEF AsyncInv, asyncVars, HandOK, Waking, Unresumed, Awaiting, Orphaned
<1>3. QueuesOK'
  BY DEF AsyncInv, asyncVars, QueuesOK, Unresumed, Awaiting
<1>4. WakeKept'
  BY DEF AsyncInv, asyncVars, WakeKept, Served, Carried, Waking, Awaiting
<1>5. LiveOK'
  BY DEF AsyncInv, asyncVars, LiveOK
<1> QED BY <1>1, <1>2, <1>3, <1>4, <1>5 DEF AsyncInv, asyncVars
=============================================================================
