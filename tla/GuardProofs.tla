---------------------------- MODULE GuardProofs ----------------------------
(* The objects built on guard::co_async, for any number of threads and           *)
(* coroutines: guard::co_mutex excludes and hands over in order, guard::co_channel *)
(* implements a FIFO channel, threads that stop included, and co_waitgroup leaves  *)
(* nobody behind and lets nobody go before the work was done.                       *)
EXTENDS GuardMutex, GuardChannel, WaitGroup, GuardAsyncProofs

-----------------------------------------------------------------------------
(* guard::co_mutex                                                          *)

(* Inductive invariant: the machinery's invariant, mutual exclusion itself,     *)
(* nobody queued while the flag is off, and no thread stopped.                    *)
MutexInv ==
  /\ AsyncInv
  /\ open = Thread
  /\ m_flag \in Flag
  /\ MutualExclusion
  /\ m_flag = "off" => waiting = <<>>

LEMMA LockStep ==
  ASSUME MutexInv, NEW c \in Co, NEW t \in Thread, Lock(c, t) \/ TryLock(c, t)
  PROVE  MutexInv'
<1> USE DEF MutexInv
<1>1. CASE m_flag = "on" /\ Enqueue(c, t) /\ UNCHANGED m_flag
  <2>1. AsyncInv'
    BY <1>1, EnqueueInv
  <2>2. \A y : InSeq(y, waiting') <=> InSeq(y, waiting) \/ y = c
    BY <1>1, InSeqAppend DEF Enqueue, AsyncInv, AsyncTypeOK
  <2>3. pc'[c] = "queued" /\ pc[c] = "run" /\ \A d \in Co : d # c => pc'[d] = pc[d]
    BY <1>1 DEF Enqueue, AsyncInv, AsyncTypeOK
  <2>4. \A d \in Co : Holds(d)' <=> Holds(d)
    BY <2>2, <2>3 DEF Holds, Served, Awaiting
  <2> QED BY <1>1, <2>1, <2>4 DEF MutualExclusion, Enqueue
<1>2. CASE m_flag = "off" /\ PassThrough(c, t) /\ m_flag' = "on"
  <2>1. AsyncInv'
    BY <1>2, PassThroughInv
  <2>2. waiting' = waiting /\ pc'[c] = "back" /\ \A d \in Co : d # c => pc'[d] = pc[d]
    BY <1>2 DEF PassThrough, AsyncInv, AsyncTypeOK
  <2>3. \A d \in Co : Holds(d)' <=> d = c
    BY <1>2, <2>2 DEF Holds, Served, Awaiting, MutualExclusion
  <2> QED BY <1>2, <2>1, <2>3 DEF MutualExclusion, Flag, PassThrough
<1> QED BY <1>1, <1>2 DEF Lock, TryLock

LEMMA UnlockStep ==
  ASSUME MutexInv, NEW c \in Co, NEW t \in Thread, NEW how \in {"deliver", "resume"},
         Unlock(c, t, how)
  PROVE  MutexInv'
<1> USE DEF MutexInv
<1>0. pc[c] = "back" /\ Holds(c)
  BY DEF Unlock, Holds
<1>1. CASE PopWaiter(c, t, how) /\ m_flag' = "on"
  <2>1. AsyncInv'
    BY <1>0, <1>1, PopWaiterInv
  <2>2. /\ Head(waiting) \in Co
        /\ \A d \in Co : Holds(d)' <=> d = Head(waiting) \/ (Holds(d) /\ d # c)
    BY <1>0, <1>1, PopWaiterHolds
  <2>3. \A d \in Co : Holds(d)' <=> d = Head(waiting)
    BY <1>0, <2>2 DEF MutualExclusion
  <2> QED BY <1>1, <2>1, <2>2, <2>3 DEF MutualExclusion, Flag, PopWaiter
<1>2. CASE NoWaiter(c, t) /\ m_flag' = "off"
  <2>1. AsyncInv'
    BY <1>0, <1>2, NoWaiterInv
  <2>2. waiting' = waiting /\ pc'[c] = "run" /\ \A d \in Co : d # c => pc'[d] = pc[d]
    BY <1>2 DEF NoWaiter, AsyncInv, AsyncTypeOK
  <2>3. \A d \in Co : ~Holds(d)'
    BY <1>0, <2>2 DEF Holds, Served, Awaiting, MutualExclusion
  <2> QED BY <1>2, <2>1, <2>2, <2>3 DEF MutualExclusion, Flag, NoWaiter
<1> QED BY <1>1, <1>2 DEF Unlock

LEMMA MutexInvariance == MutexSpec => []MutexInv
<1>1. MutexInit => MutexInv
  <2> SUFFICES ASSUME MutexInit PROVE MutexInv
    OBVIOUS
  <2>1. AsyncInv
    BY AsyncInitInv DEF MutexInit
  <2>2. \A d \in Co : ~Holds(d)
    BY DEF MutexInit, AsyncInit, Holds, Served, Awaiting
  <2> QED BY <2>1, <2>2 DEF MutexInit, AsyncInit, MutexInv, MutualExclusion, Flag
<1>2. MutexInv /\ [MutexNext]_mutexVars => MutexInv'
  <2> SUFFICES ASSUME MutexInv, [MutexNext]_mutexVars PROVE MutexInv'
    OBVIOUS
  <2>1. ASSUME NEW t \in Thread, UNCHANGED m_flag,
               \/ LoopStep(t)
               \/ \E c \in Co : AsyncStep(c, t) \/ IoReady(c, t) \/ IoWait(c, t)
        PROVE  MutexInv'
    <3>1. AsyncInv'
      BY <2>1, MachineryInv DEF MutexInv
    <3>2. waiting' = waiting /\ \A d \in Co : Holds(d)' <=> Holds(d)
      BY <2>1, MachineryHolds DEF MutexInv
    <3>3. open' = open
      BY <2>1 DEF LoopStep, Collect, ResumeNext, AsyncStep, CheckReady, CheckSuspend, WakeInline,
                  WakeRemote, IoReady, IoWait
    <3> QED BY <2>1, <3>1, <3>2, <3>3 DEF MutexInv, MutualExclusion
  <2>2. CASE UNCHANGED mutexVars
    <3>1. AsyncInv'
      BY <2>2, AsyncUnchanged DEF MutexInv, mutexVars
    <3> QED BY <2>2, <3>1 DEF MutexInv, mutexVars, asyncVars, MutualExclusion, Holds, Served, Awaiting
  <2>3. CASE MutexNext
    BY <2>3, <2>1, LockStep, UnlockStep DEF MutexNext, MutexStep
  <2> QED BY <2>2, <2>3
<1> QED BY <1>1, <1>2, PTL DEF MutexSpec

(* The state of the lock and of the threads stays in its types.                *)
THEOREM TypeCorrect == MutexSpec => []MutexTypeOK
<1>1. MutexInv => MutexTypeOK
  BY DEF MutexInv, AsyncInv, MutexTypeOK
<1> QED BY <1>1, MutexInvariance, PTL

(* guard::co_mutex excludes: with any number of threads and coroutines, the    *)
(* lock has at most one owner, the coroutine it was handed to and that has not  *)
(* run since included, and m_flag is on exactly while it has one.               *)
THEOREM Mutex == MutexSpec => []MutualExclusion
<1>1. MutexInv => MutualExclusion
  BY DEF MutexInv
<1> QED BY <1>1, MutexInvariance, PTL

(* No event of a lock() ever reaches an assert(false) of co_event.              *)
THEOREM EventsResumedOnce == MutexSpec => []NoAssert
<1>1. MutexInv => NoAssert
  BY DEF MutexInv, AsyncInv, StatusOK, NoAssert
<1> QED BY <1>1, MutexInvariance, PTL

(* A lock that was handed over is on its way to its new owner: the wake-up is   *)
(* in a hand, in the owner's co_deliver queue or batch, or done.                *)
THEOREM HandOffNotLost == MutexSpec => []WakeInFlight
<1>1. MutexInv => WakeInFlight
  BY DEF MutexInv, AsyncInv, AsyncTypeOK, WakeKept, WakeInFlight
<1> QED BY <1>1, MutexInvariance, PTL

(* Nobody overtakes a queued waiter: lock() and try_lock() succeed at once only  *)
(* when the queue is empty.                                                       *)
THEOREM FirstComeFirstServed == MutexSpec => NoBarging
<1>1. MutexInv /\ [MutexNext]_mutexVars =>
        [\A c \in Co : pc[c] = "run" /\ pc'[c] = "back" => waiting = <<>>]_mutexVars
  <2> SUFFICES ASSUME MutexInv, MutexNext, NEW c \in Co, pc[c] = "run", pc'[c] = "back"
               PROVE  waiting = <<>>
    OBVIOUS
  <2>0. ~Holds(c) /\ Holds(c)'
    BY DEF Holds, Served, Awaiting
  <2>1. ASSUME NEW t \in Thread,
               \/ LoopStep(t)
               \/ \E d \in Co : AsyncStep(d, t) \/ IoReady(d, t) \/ IoWait(d, t)
        PROVE  FALSE
    BY <2>0, <2>1, MachineryHolds DEF MutexInv
  <2>2. ASSUME NEW t \in Thread, NEW d \in Co, Lock(d, t) \/ TryLock(d, t)
        PROVE  waiting = <<>>
    <3>1. CASE Enqueue(d, t)
      BY <3>1 DEF Enqueue, MutexInv, AsyncInv, AsyncTypeOK
    <3>2. CASE m_flag = "off"
      BY <3>2 DEF MutexInv
    <3> QED BY <2>2, <3>1, <3>2 DEF Lock, TryLock
  <2>3. ASSUME NEW t \in Thread, NEW d \in Co, NEW how \in {"deliver", "resume"},
               Unlock(d, t, how)
        PROVE  FALSE
    BY <2>3 DEF Unlock, PopWaiter, NoWaiter, MutexInv, AsyncInv, AsyncTypeOK
  <2> QED BY <2>1, <2>2, <2>3 DEF MutexNext, MutexStep
<1> QED BY <1>1, MutexInvariance, PTL DEF MutexSpec, NoBarging

-----------------------------------------------------------------------------
(* guard::co_channel                                                        *)

(* Inductive invariant: the machinery's invariant, the two relations between   *)
(* waiters, items and getters, and the fact that this model's getters use an    *)
(* item before they await anything else and that deliver() is the only way to     *)
(* wake one.                                                                       *)
ChannelInv ==
  /\ AsyncInv
  /\ ChannelTypeOK
  /\ ServedHasItem
  /\ NoSleeperWithItem
  /\ \A c \in Co : pc[c] # "ioback" /\ pc[c] # "resume"

\* The abstract channel's told, as the refinement mapping has it.
Told == {c \in Co : slot[c] # NoItem /\ pc[c] = "back"}

LEMMA HeadTailTyped ==
  ASSUME NEW S, NEW s \in Seq(S), s # <<>>
  PROVE  Head(s) \in S /\ Tail(s) \in Seq(S)
  OBVIOUS

LEMMA SetStep ==
  ASSUME ChannelInv, NEW c \in Co, NEW t \in Thread, Set(c, t)
  PROVE  ChannelInv' /\ Fifo!ChanNext
<1> USE DEF ChannelInv, NoItem, Items, ServedHasItem
<1>0. /\ sent + 1 \in Items /\ sent' = sent + 1 /\ sent' \in 0..MaxItems /\ UNCHANGED out
      /\ Append(m_data, sent + 1) \in Seq(Items) /\ pc[c] = "run"
  BY ChannelAssumption DEF Set, ChannelTypeOK
<1>1. CASE PopWaiter(c, t, "deliver") /\ m_data' = Tail(Append(m_data, sent + 1))
           /\ slot' = [slot EXCEPT ![Head(waiting)] = Head(Append(m_data, sent + 1))]
  <2> DEFINE w == Head(waiting)
             i == Head(Append(m_data, sent + 1))
  <2>1. AsyncInv'
    BY <1>0, <1>1, PopWaiterInv
  <2>2. /\ w \in Co /\ w # c /\ ~Holds(w)
        /\ \A d \in Co : Holds(d)' <=> d = w \/ (Holds(d) /\ d # c)
    BY <1>0, <1>1, PopWaiterHolds
  <2>3. ~Holds(c) /\ waiting # <<>> /\ waiting' = Tail(waiting)
    BY <1>0, <1>1 DEF Holds, Served, Awaiting, PopWaiter
  <2>4. m_data = <<>>
    BY <2>3 DEF NoSleeperWithItem
  <2>5. i = sent + 1 /\ m_data' = <<>>
    BY <1>0, <1>1, <2>4
  <2>6. /\ slot'[w] = i /\ \A d \in Co : d # w => slot'[d] = slot[d]
        /\ slot' \in [Co -> Items \cup {NoItem}] /\ i # NoItem
    BY <1>0, <1>1, <2>2, <2>5 DEF ChannelTypeOK
  <2>7. /\ pc'[c] = "deliver" /\ \A d \in Co : d # c => pc'[d] = pc[d]
    BY <1>1 DEF PopWaiter, AsyncInv, AsyncTypeOK
  <2>8. ChannelTypeOK'
    <3>1. m_data' \in Seq(Items)
      BY <2>5
    <3> QED BY <1>0, <2>1, <2>6, <3>1 DEF ChannelTypeOK, AsyncInv
  <2>a. ServedHasItem'
    <3> SUFFICES ASSUME NEW d \in Co, pc'[d] # "dead" PROVE slot'[d] # NoItem <=> Holds(d)'
      OBVIOUS
    <3>1. CASE d = w
      BY <3>1, <2>2, <2>6
    <3>2. CASE d = c
      BY <3>2, <1>0, <2>2, <2>3, <2>6
    <3>3. CASE d # w /\ d # c
      BY <3>3, <2>2, <2>6, <2>7
    <3> QED BY <3>1, <3>2, <3>3
  <2>9. ChannelInv'
    BY <2>1, <2>5, <2>7, <2>8, <2>a DEF NoSleeperWithItem
  <2>10. Told' = Told
    BY <1>0, <2>2, <2>6, <2>7 DEF Told, Holds
  <2> QED
    <3>1. Fifo!Put(sent + 1)
      BY <1>1, <2>3, <2>10 DEF Fifo!Put, Told
    <3> QED BY <1>0, <2>9, <3>1 DEF Fifo!ChanNext
<1>2. CASE NoWaiter(c, t) /\ m_data' = Append(m_data, sent + 1) /\ UNCHANGED slot
  <2>1. AsyncInv'
    BY <1>0, <1>2, NoWaiterInv
  <2>2. /\ waiting = <<>> /\ waiting' = waiting
        /\ pc'[c] = "run" /\ \A d \in Co : d # c => pc'[d] = pc[d]
    BY <1>2 DEF NoWaiter, AsyncInv, AsyncTypeOK
  <2>3. \A d \in Co : Holds(d)' <=> Holds(d)
    BY <1>0, <2>2 DEF Holds, Served, Awaiting
  <2>4. ChannelTypeOK'
    BY <1>0, <1>2, <2>1 DEF ChannelTypeOK, AsyncInv
  <2>a. ServedHasItem'
    <3> SUFFICES ASSUME NEW d \in Co, pc'[d] # "dead" PROVE slot'[d] # NoItem <=> Holds(d)'
      OBVIOUS
    <3>1. pc[d] # "dead"
      BY <1>0, <2>2
    <3> QED BY <3>1, <1>2, <2>3
  <2>5. ChannelInv'
    BY <1>2, <2>1, <2>2, <2>4, <2>a DEF NoSleeperWithItem
  <2>6. Told' = Told
    BY <1>0, <1>2, <2>2 DEF Told
  <2>7. Fifo!Put(sent + 1)
    BY <1>2, <2>2, <2>6 DEF Fifo!Put, Told
  <2> QED BY <1>0, <2>5, <2>7 DEF Fifo!ChanNext
<1> QED BY <1>1, <1>2 DEF Set

LEMMA GetStep ==
  ASSUME ChannelInv, NEW c \in Co, NEW t \in Thread, GetItem(c, t) \/ TryGet(c, t)
  PROVE  ChannelInv' /\ Fifo!ChanNext
<1> USE DEF ChannelInv, NoItem, Items, ServedHasItem
<1>1. CASE m_data = <<>> /\ Enqueue(c, t) /\ UNCHANGED <<m_data, slot, sent, out>>
  <2>1. AsyncInv'
    BY <1>1, EnqueueInv
  <2>2. \A y : InSeq(y, waiting') <=> InSeq(y, waiting) \/ y = c
    BY <1>1, InSeqAppend DEF Enqueue, AsyncInv, AsyncTypeOK
  <2>3. pc'[c] = "queued" /\ pc[c] = "run" /\ \A d \in Co : d # c => pc'[d] = pc[d]
    BY <1>1 DEF Enqueue, AsyncInv, AsyncTypeOK
  <2>4. \A d \in Co : Holds(d)' <=> Holds(d)
    BY <2>2, <2>3 DEF Holds, Served, Awaiting
  <2>5. ChannelTypeOK'
    BY <1>1, <2>1 DEF ChannelTypeOK, AsyncInv
  <2>6. ChannelInv'
    BY <1>1, <2>1, <2>3, <2>4, <2>5 DEF NoSleeperWithItem
  <2>7. slot[c] = NoItem /\ ~InSeq(c, waiting)
    BY <2>3 DEF Holds, Served, Awaiting, AsyncInv, WaitingOK, Unresumed
  <2>8. Told' = Told
    BY <1>1, <2>3 DEF Told
  <2>9. Fifo!Get(c)
    BY <1>1, <2>7, <2>8 DEF Fifo!Get, Told, InSeq, Enqueue
  <2> QED BY <2>6, <2>9 DEF Fifo!ChanNext
<1>2. CASE /\ m_data # <<>> /\ PassThrough(c, t)
           /\ slot' = [slot EXCEPT ![c] = Head(m_data)]
           /\ m_data' = Tail(m_data)
           /\ UNCHANGED <<sent, out>>
  <2>1. AsyncInv'
    BY <1>2, PassThroughInv
  <2>2. /\ waiting' = waiting /\ pc[c] = "run" /\ pc'[c] = "back"
        /\ \A d \in Co : d # c => pc'[d] = pc[d]
    BY <1>2 DEF PassThrough, AsyncInv, AsyncTypeOK
  <2>3. \A d \in Co : Holds(d)' <=> Holds(d) \/ d = c
    BY <2>2 DEF Holds, Served, Awaiting
  <2>4. Head(m_data) \in Items /\ Tail(m_data) \in Seq(Items)
    BY <1>2, HeadTailTyped DEF ChannelTypeOK
  <2>5. /\ slot'[c] = Head(m_data) /\ slot'[c] # NoItem
        /\ slot' \in [Co -> Items \cup {NoItem}]
        /\ \A d \in Co : d # c => slot'[d] = slot[d]
    BY <1>2, <2>4, ChannelAssumption DEF ChannelTypeOK
  <2>6. ChannelTypeOK'
    BY <1>2, <2>1, <2>4, <2>5 DEF ChannelTypeOK, AsyncInv
  <2>7. ChannelInv'
    BY <1>2, <2>1, <2>2, <2>3, <2>5, <2>6 DEF NoSleeperWithItem
  <2>8. slot[c] = NoItem /\ ~InSeq(c, waiting)
    BY <2>2 DEF Holds, Served, Awaiting, AsyncInv, WaitingOK, Unresumed
  <2>9. Told' = Told \cup {c}
    BY <2>2, <2>5 DEF Told
  <2>10. Fifo!Get(c)
    BY <1>2, <2>2, <2>8, <2>9 DEF Fifo!Get, Told, InSeq
  <2> QED BY <2>7, <2>10 DEF Fifo!ChanNext
<1> QED BY <1>1, <1>2 DEF GetItem, TryGet

LEMMA ChannelReturnStep ==
  ASSUME ChannelInv, NEW c \in Co, NEW t \in Thread, ChannelReturn(c, t)
  PROVE  ChannelInv' /\ Fifo!ChanNext
<1> USE DEF ChannelInv, NoItem, Items, ServedHasItem
<1>1. /\ UNCHANGED <<status, tid, waiting, hand, stack, deliverq, signal, batch, open, live>>
      /\ UNCHANGED <<m_data, sent>>
      /\ pc[c] = "back" /\ pc' = [pc EXCEPT ![c] = "run"] /\ pc'[c] = "run"
      /\ \A d \in Co : d # c => pc'[d] = pc[d]
      /\ slot' = [slot EXCEPT ![c] = NoItem] /\ slot'[c] = NoItem
      /\ \A d \in Co : d # c => slot'[d] = slot[d]
      /\ slot[c] # NoItem /\ slot[c] \in Items
      /\ out' = [out EXCEPT ![c] = Append(out[c], slot[c])]
  BY DEF ChannelReturn, AsyncInv, AsyncTypeOK, ChannelTypeOK, Holds
<1>2. AsyncInv'
  BY <1>1, ReturnInv
<1>3. ChannelTypeOK'
  BY <1>1, <1>2 DEF ChannelTypeOK, AsyncInv
<1>4. \A d \in Co : Holds(d)' <=> Holds(d) /\ d # c
  BY <1>1 DEF Holds, Served, Awaiting
<1>5. ChannelInv'
  BY <1>1, <1>2, <1>3, <1>4 DEF NoSleeperWithItem
<1>6. Told' = Told \ {c} /\ c \in Told
  BY <1>1 DEF Told
<1>7. Fifo!Use(c)
  BY <1>1, <1>6 DEF Fifo!Use, Told
<1> QED BY <1>5, <1>7 DEF Fifo!ChanNext

LEMMA ChannelMachineryStep ==
  ASSUME ChannelInv, NEW t \in Thread, UNCHANGED chVars,
         \/ LoopStep(t)
         \/ \E c \in Co : \/ AsyncStep(c, t) \/ IoReady(c, t)
                          \/ (pc[c] = "run" /\ IoWait(c, t))
  PROVE  ChannelInv' /\ (Fifo!ChanNext \/ UNCHANGED Fifo!chanVars)
<1> USE DEF ChannelInv, ServedHasItem
<1>1. AsyncInv' /\ ChannelTypeOK'
  BY MachineryInv DEF ChannelTypeOK, AsyncInv, chVars
<1>2. waiting' = waiting /\ \A d \in Co : Holds(d)' <=> Holds(d)
  BY MachineryHolds
<1>3. /\ \A d \in Co : pc'[d] # "ioback" /\ pc'[d] # "resume" /\ (pc[d] = "dead" => pc'[d] = "dead")
      /\ \/ \A d \in Co : pc'[d] = "back" <=> pc[d] = "back"
         \/ \E w \in Co : /\ Served(w) /\ pc'[w] = "back"
                          /\ \A d \in Co : d # w => (pc'[d] = "back" <=> pc[d] = "back")
  <2>1. CASE LoopStep(t) \/ \E c \in Co : AsyncStep(c, t)
    BY <2>1, MachineryReturns
  <2>2. CASE \E c \in Co : IoReady(c, t) \/ (pc[c] = "run" /\ IoWait(c, t))
    BY SMTT(60), <2>2 DEF IoReady, IoWait, AsyncInv, AsyncTypeOK
  <2> QED BY <2>1, <2>2
<1>4. ChannelInv'
  BY <1>1, <1>2, <1>3 DEF chVars, NoSleeperWithItem
<1>5. CASE \A d \in Co : pc'[d] = "back" <=> pc[d] = "back"
  <2>1. Told' = Told
    BY <1>5 DEF Told, chVars
  <2> QED BY <1>2, <1>4, <2>1 DEF Fifo!chanVars, Told, chVars
<1>6. ASSUME NEW w \in Co, Served(w), pc'[w] = "back",
             \A d \in Co : d # w => (pc'[d] = "back" <=> pc[d] = "back")
      PROVE  Fifo!Tell(w)
  <2>1. slot[w] # NoItem /\ w \notin Told
    BY <1>6 DEF Holds, Served, Awaiting, Told, NoItem
  <2>2. Told' = Told \cup {w}
    BY <1>6, <2>1 DEF Told, chVars
  <2> QED BY <1>2, <2>1, <2>2 DEF Fifo!Tell, Told, chVars
<1> QED BY <1>3, <1>4, <1>5, <1>6 DEF Fifo!ChanNext

(* A thread leaves its loop: who waits elsewhere does not notice.               *)
LEMMA ChannelStopStep ==
  ASSUME ChannelInv, NEW c \in Co, NEW t \in Thread, StopLoop(c, t), UNCHANGED chVars
  PROVE  ChannelInv' /\ UNCHANGED Fifo!chanVars
<1>1. AsyncInv'
  BY StopLoopInv DEF ChannelInv
<1>2. ChannelTypeOK'
  BY <1>1 DEF ChannelInv, ChannelTypeOK, AsyncInv, chVars
<1>3. ChannelInv'
  BY <1>1, <1>2 DEF ChannelInv, ServedHasItem, NoSleeperWithItem, Holds, Served, Awaiting, StopLoop, chVars
<1>4. UNCHANGED Fifo!chanVars
  BY DEF Fifo!chanVars, StopLoop, chVars
<1> QED BY <1>3, <1>4

(* A thread ends: its getters that still ask are gone from the queue, those      *)
(* that were given an item take it with them.                                      *)
LEMMA ChannelExitStep ==
  ASSUME ChannelInv, NEW t \in Thread, ThreadExit(t), UNCHANGED chVars
  PROVE  ChannelInv' /\ Fifo!Leave
<1> USE DEF ChannelInv, ServedHasItem
<1>1. /\ AsyncInv' /\ \A d \in Co : Holds(d)' <=> Holds(d) /\ pc'[d] # "dead"
      /\ \A d \in Co : pc'[d] \in {pc[d], "dead"} /\ (pc[d] = "back" => pc'[d] = "back")
      /\ \E gone \in SUBSET Co : waiting' = Only(waiting, Co \ gone)
  BY ThreadExitInv
<1>2. ChannelTypeOK'
  BY <1>1 DEF ChannelTypeOK, AsyncInv, chVars
<1>3. NoSleeperWithItem'
  <2>1. ASSUME waiting = <<>> PROVE waiting' = <<>>
    <3>1. PICK gone \in SUBSET Co : waiting' = Only(waiting, Co \ gone)
      BY <1>1
    <3>2. waiting \in Seq(Co)
      BY DEF AsyncInv, AsyncTypeOK
    <3>3. waiting' \in Seq(Co) /\ \A y : InSeq(y, waiting') <=> InSeq(y, waiting) /\ y \in Co \ gone
      BY <3>1, <3>2, InSeqOnly
    <3>4. ~InSeq(waiting'[1], waiting')
      BY <2>1, <3>3, InSeqEmpty
    <3> QED BY <3>3, <3>4 DEF InSeq
  <2> QED BY <2>1 DEF NoSleeperWithItem, chVars
<1>4. ChannelInv'
  BY <1>1, <1>2, <1>3 DEF chVars
<1>5. Told' = Told
  BY <1>1 DEF Told, chVars
<1>6. Fifo!Leave
  <2>1. \E gone \in SUBSET Co : waiting' = Fifo!Only(waiting, Co \ gone)
    BY <1>1 DEF Only, Fifo!Only
  <2> QED BY <2>1, <1>5 DEF Fifo!Leave, Told, chVars
<1> QED BY <1>4, <1>6

LEMMA ChannelInitInv ==
  ASSUME ChannelInit
  PROVE  ChannelInv /\ Fifo!ChanInit
<1>1. AsyncInv
  BY AsyncInitInv DEF ChannelInit
<1>2. ChannelTypeOK
  BY <1>1, ChannelAssumption DEF ChannelInit, ChannelTypeOK, AsyncInv, Items, NoItem
<1>3. \A c \in Co : ~Holds(c) /\ pc[c] = "io" /\ slot[c] = NoItem
  BY DEF ChannelInit, AsyncInit, Holds, Served, Awaiting
<1>4. ChannelInv
  BY <1>1, <1>2, <1>3 DEF ChannelInv, ServedHasItem, NoSleeperWithItem, ChannelInit
<1>5. Fifo!ChanInit
  BY <1>3 DEF ChannelInit, AsyncInit, Fifo!ChanInit
<1> QED BY <1>4, <1>5

LEMMA ChannelNextInv ==
  ASSUME ChannelInv, [ChannelNext]_channelVars
  PROVE  ChannelInv' /\ [Fifo!ChanNext]_(Fifo!chanVars)
<1>1. CASE UNCHANGED channelVars
  <2>1. AsyncInv'
    BY <1>1, AsyncUnchanged DEF ChannelInv, channelVars
  <2>2. ChannelTypeOK'
    BY <1>1, <2>1 DEF ChannelInv, ChannelTypeOK, AsyncInv, channelVars, chVars
  <2>3. ChannelInv'
    BY <1>1, <2>1, <2>2 DEF ChannelInv, ServedHasItem, NoSleeperWithItem, Holds, Served, Awaiting,
                            channelVars, asyncVars, chVars
  <2>4. UNCHANGED Fifo!chanVars
    BY <1>1 DEF Fifo!chanVars, channelVars, asyncVars, chVars
  <2> QED BY <2>3, <2>4
<1>2. CASE ChannelNext
  <2>1. CASE \E t \in Thread : (ThreadExit(t) \/ \E c \in Co : StopLoop(c, t)) /\ UNCHANGED chVars
    BY <2>1, ChannelStopStep, ChannelExitStep DEF Fifo!ChanNext
  <2>2. CASE \/ \E c \in Co, t \in Thread : ChannelStep(c, t)
             \/ \E t \in Thread : LoopStep(t) /\ UNCHANGED chVars
    BY <2>2, SetStep, GetStep, ChannelReturnStep, ChannelMachineryStep DEF ChannelStep
  <2> QED BY <1>2, <2>1, <2>2 DEF ChannelNext
<1> QED BY <1>1, <1>2

(* The types, the invariant that no getter sleeps next to an item and that a   *)
(* getter has its item exactly while it is due, whatever thread stops when.     *)
THEOREM ChannelInvariant ==
  ChannelSpec => [](ChannelTypeOK /\ NoSleeperWithItem /\ ServedHasItem /\ NoAssert)
<1>1. ChannelInit => ChannelInv
  BY ChannelInitInv
<1>2. ChannelInv /\ [ChannelNext]_channelVars => ChannelInv'
  BY ChannelNextInv
<1>3. ChannelInv => ChannelTypeOK /\ NoSleeperWithItem /\ ServedHasItem /\ NoAssert
  BY DEF ChannelInv, AsyncInv, StatusOK, NoAssert
<1> QED BY <1>1, <1>2, <1>3, PTL DEF ChannelSpec

(* The channel with its threads, events and wake-ups implements FifoChannel:   *)
(* every behaviour, the end of a thread included, is one of a plain FIFO         *)
(* channel.                                                                       *)
THEOREM ChannelIsFifo == ChannelSpec => ImplementsFifo
<1>1. ChannelInit => ChannelInv /\ Fifo!ChanInit
  BY ChannelInitInv
<1>2. ChannelInv /\ [ChannelNext]_channelVars => ChannelInv' /\ [Fifo!ChanNext]_(Fifo!chanVars)
  BY ChannelNextInv
<1> QED BY <1>1, <1>2, PTL DEF ChannelSpec, ImplementsFifo, Fifo!ChanSpec

(***************************************************************************)
(* Where the items are                                                       *)
(***************************************************************************)

\* Items that have left the queue: numbered in the order of set(), they leave in it.
Popped == sent - Len(m_data)

\* The queue holds the items set and not popped, in order.
DataOK ==
  /\ Popped \in Nat
  /\ \A k \in 1..Len(m_data) : m_data[k] = Popped + k

\* An item that was popped is in one variable or was received once, and no other is.
ItemsOK ==
  /\ DataOK
  /\ \A c \in Co : slot[c] <= Popped
  /\ \A c \in Co : \A k \in 1..Len(out[c]) : out[c][k] <= Popped
  /\ \A c, d \in Co : slot[c] = slot[d] /\ slot[c] # NoItem => c = d
  /\ \A c, d \in Co : \A k \in 1..Len(out[d]) : out[d][k] # slot[c]
  /\ \A c, d \in Co : \A k \in 1..Len(out[c]), l \in 1..Len(out[d]) :
       out[c][k] = out[d][l] => c = d /\ k = l
  /\ \A i \in 1..Popped : \/ \E c \in Co : slot[c] = i
                          \/ \E c \in Co : \E k \in 1..Len(out[c]) : out[c][k] = i

\* A getter's items and the one in its variable are in the order of set().
OrderOK ==
  \A c \in Co :
    /\ \A k, l \in 1..Len(out[c]) : k < l => out[c][k] < out[c][l]
    /\ slot[c] # NoItem => \A k \in 1..Len(out[c]) : out[c][k] < slot[c]

LEMMA ChannelTypes ==
  ASSUME ChannelTypeOK
  PROVE  /\ \A c \in Co : slot[c] \in Nat /\ out[c] \in Seq(Items) /\ Len(out[c]) \in Nat
         /\ \A c \in Co : \A k \in 1..Len(out[c]) : out[c][k] \in Nat /\ out[c][k] # NoItem
         /\ m_data \in Seq(Items) /\ Len(m_data) \in Nat /\ sent \in Nat
<1>1. \A i \in Items : i \in Nat /\ i # NoItem
  BY ChannelAssumption DEF Items, NoItem
<1>2. \A c \in Co : slot[c] \in Nat /\ out[c] \in Seq(Items)
  BY <1>1 DEF ChannelTypeOK, NoItem
<1>3. \A c \in Co : Len(out[c]) \in Nat /\ \A k \in 1..Len(out[c]) : out[c][k] \in Items
  BY <1>2
<1>4. m_data \in Seq(Items) /\ Len(m_data) \in Nat /\ sent \in Nat
  BY ChannelAssumption DEF ChannelTypeOK
<1> QED BY <1>1, <1>2, <1>3, <1>4

\* The next item goes from the queue to the variable of w.
LEMMA GiveOK ==
  ASSUME ChannelTypeOK, ItemsOK, OrderOK, NEW w \in Co, slot[w] = NoItem,
         slot' = [slot EXCEPT ![w] = Popped + 1], Popped' = Popped + 1, DataOK', UNCHANGED out
  PROVE  ItemsOK' /\ OrderOK'
<1>1. PICK n \in Nat : n = Popped /\ Popped' = n + 1
  BY DEF ItemsOK, DataOK
<1>2. slot'[w] = n + 1 /\ \A c \in Co : c # w => slot'[c] = slot[c]
  BY <1>1 DEF ChannelTypeOK
<1>3. \A c \in Co : slot[c] \in Nat /\ slot[c] <= n
  BY <1>1, ChannelTypes DEF ItemsOK
<1>4. \A c \in Co : \A k \in 1..Len(out[c]) :
         out[c][k] \in Nat /\ out[c][k] <= n /\ out[c][k] # NoItem
  BY <1>1, ChannelTypes DEF ItemsOK
<1>5. \A c \in Co : slot'[c] <= n + 1
  BY <1>2, <1>3
<1>6. \A c \in Co : \A k \in 1..Len(out[c]) : out[c][k] <= n + 1
  BY <1>4
<1>7. \A c, d \in Co : slot'[c] = slot'[d] /\ slot'[c] # NoItem => c = d
  <2>1. \A c \in Co : c # w => slot'[c] # n + 1
    BY <1>2, <1>3
  <2> QED BY <1>2, <2>1 DEF ItemsOK
<1>8. \A c, d \in Co : \A k \in 1..Len(out[d]) : out[d][k] # slot'[c]
  <2>1. \A d \in Co : \A k \in 1..Len(out[d]) : out[d][k] # n + 1
    BY <1>4
  <2> QED BY <1>2, <2>1 DEF ItemsOK
<1>9. ASSUME NEW i \in 1..(n + 1)
      PROVE  \/ \E c \in Co : slot'[c] = i
             \/ \E c \in Co : \E k \in 1..Len(out[c]) : out[c][k] = i
  <2>1. CASE i = n + 1
    BY <1>2, <2>1
  <2>2. CASE i # n + 1
    <3>1. i \in 1..n /\ i # NoItem
      BY <2>2 DEF NoItem
    <3>2. \/ \E c \in Co : slot[c] = i
          \/ \E c \in Co : \E k \in 1..Len(out[c]) : out[c][k] = i
      BY <1>1, <3>1 DEF ItemsOK
    <3> QED BY <1>2, <3>1, <3>2
  <2> QED BY <2>1, <2>2
<1>10. ItemsOK'
  BY <1>1, <1>5, <1>6, <1>7, <1>8, <1>9 DEF ItemsOK
<1>11. OrderOK'
  <2>1. \A k \in 1..Len(out[w]) : out[w][k] < n + 1
    BY <1>4
  <2> QED BY <1>2, <2>1 DEF OrderOK
<1> QED BY <1>10, <1>11

\* The getter c uses the item it was given.
LEMMA UseOK ==
  ASSUME ChannelTypeOK, ItemsOK, OrderOK, NEW c \in Co, slot[c] # NoItem,
         slot' = [slot EXCEPT ![c] = NoItem], out' = [out EXCEPT ![c] = Append(out[c], slot[c])],
         UNCHANGED <<m_data, sent>>
  PROVE  ItemsOK' /\ OrderOK'
<1>1. PICK i \in Items, n \in Nat, m \in Nat :
        i = slot[c] /\ n = Popped /\ m = Len(out[c]) /\ i <= n /\ i \in Nat /\ i # NoItem
  <2>1. slot[c] \in Items /\ Popped \in Nat /\ Len(out[c]) \in Nat /\ slot[c] <= Popped
        /\ slot[c] \in Nat
    BY ChannelTypes DEF ChannelTypeOK, ItemsOK, DataOK
  <2> QED BY <2>1
<1>2. slot'[c] = NoItem /\ \A d \in Co : d # c => slot'[d] = slot[d] /\ slot[d] # i
  BY <1>1 DEF ChannelTypeOK, ItemsOK
<1>3. /\ Len(out'[c]) = m + 1 /\ out'[c][m + 1] = i
      /\ \A k \in 1..m : out'[c][k] = out[c][k]
      /\ \A d \in Co : d # c => out'[d] = out[d]
  <2>1. out'[c] = Append(out[c], i) /\ \A d \in Co : d # c => out'[d] = out[d]
    BY <1>1 DEF ChannelTypeOK
  <2>2. PICK s \in Seq(Items) : s = out[c]
    BY ChannelTypes
  <2>3. /\ Len(Append(s, i)) = Len(s) + 1 /\ Append(s, i)[Len(s) + 1] = i
        /\ \A k \in 1..Len(s) : Append(s, i)[k] = s[k]
    OBVIOUS
  <2> QED BY <1>1, <2>1, <2>2, <2>3
<1>4. \A k \in 1..(m + 1) : k \in 1..m \/ k = m + 1
  OBVIOUS
<1>5. /\ \A d \in Co : slot[d] <= n
      /\ \A d \in Co : \A k \in 1..Len(out[d]) : /\ out[d][k] <= n /\ out[d][k] # i
                                                 /\ out[d][k] # NoItem
      /\ 0 <= n
  BY <1>1, ChannelTypes DEF ItemsOK
<1>6. Popped' = n /\ DataOK'
  BY <1>1 DEF ItemsOK, DataOK, Popped
<1>7. \A d \in Co : slot'[d] <= n
  BY <1>2, <1>5 DEF NoItem
<1>8. ASSUME NEW d \in Co, NEW k \in 1..Len(out'[d])
      PROVE  \/ k \in 1..Len(out[d]) /\ out'[d][k] = out[d][k]
             \/ d = c /\ k = m + 1 /\ out'[d][k] = i
  BY <1>1, <1>3, <1>4
<1>9. \A d \in Co : \A k \in 1..Len(out'[d]) : out'[d][k] <= n
  BY <1>1, <1>5, <1>8
<1>10. \A d, e \in Co : slot'[d] = slot'[e] /\ slot'[d] # NoItem => d = e
  BY <1>2 DEF ItemsOK
<1>11. \A d, e \in Co : \A k \in 1..Len(out'[e]) : out'[e][k] # slot'[d]
  <2> SUFFICES ASSUME NEW d \in Co, NEW e \in Co, NEW k \in 1..Len(out'[e]) PROVE out'[e][k] # slot'[d]
    OBVIOUS
  <2>1. slot'[d] = NoItem \/ (slot'[d] = slot[d] /\ slot[d] # i)
    BY <1>2
  <2>2. out'[e][k] # NoItem
    BY <1>1, <1>5, <1>8
  <2> QED BY <1>8, <2>1, <2>2 DEF ItemsOK
<1>12. \A d, e \in Co : \A k \in 1..Len(out'[d]), l \in 1..Len(out'[e]) :
         out'[d][k] = out'[e][l] => d = e /\ k = l
  BY <1>5, <1>8 DEF ItemsOK
<1>13. ASSUME NEW j \in 1..n
       PROVE  \/ \E d \in Co : slot'[d] = j
              \/ \E d \in Co : \E k \in 1..Len(out'[d]) : out'[d][k] = j
  <2>1. CASE \E d \in Co : slot[d] = j
    <3>1. PICK d \in Co : slot[d] = j
      BY <2>1
    <3>2. CASE d = c
      <4>1. m + 1 \in 1..Len(out'[c]) /\ out'[c][m + 1] = j
        BY <1>1, <1>3, <3>1, <3>2
      <4> QED BY <4>1
    <3> QED BY <1>2, <3>1, <3>2
  <2>2. CASE \E d \in Co : \E k \in 1..Len(out[d]) : out[d][k] = j
    <3>0. PICK d \in Co : \E k \in 1..Len(out[d]) : out[d][k] = j
      BY <2>2
    <3>1. PICK k \in 1..Len(out[d]) : out[d][k] = j
      BY <3>0
    <3>2. k \in 1..Len(out'[d]) /\ out'[d][k] = j
      BY <1>1, <1>3, <3>1
    <3> QED BY <3>2
  <2> QED BY <1>1, <2>1, <2>2 DEF ItemsOK
<1>14. ItemsOK'
  BY <1>6, <1>7, <1>9, <1>10, <1>11, <1>12, <1>13 DEF ItemsOK
<1>15. OrderOK'
  <2> SUFFICES ASSUME NEW d \in Co
               PROVE  /\ \A k, l \in 1..Len(out'[d]) : k < l => out'[d][k] < out'[d][l]
                      /\ slot'[d] # NoItem => \A k \in 1..Len(out'[d]) : out'[d][k] < slot'[d]
    BY DEF OrderOK
  <2>1. CASE d # c
    BY <1>2, <1>3, <2>1 DEF OrderOK
  <2>2. CASE d = c
    <3>1. \A k \in 1..m : out[c][k] < i
      BY <1>1 DEF OrderOK
    <3>2. \A k, l \in 1..m : k < l => out[c][k] < out[c][l]
      BY <1>1 DEF OrderOK
    <3>3. ASSUME NEW k \in 1..(m + 1), NEW l \in 1..(m + 1), k < l PROVE out'[c][k] < out'[c][l]
      <4>1. k \in 1..m
        BY <3>3
      <4> QED BY <1>3, <1>4, <3>1, <3>2, <3>3, <4>1
    <3> QED BY <1>2, <1>3, <2>2, <3>3
  <2> QED BY <2>1, <2>2
<1> QED BY <1>14, <1>15

LEMMA ItemsUnchanged ==
  ASSUME ItemsOK, OrderOK, UNCHANGED chVars
  PROVE  ItemsOK' /\ OrderOK'
BY DEF chVars, ItemsOK, OrderOK, DataOK, Popped

LEMMA ItemsSet ==
  ASSUME ChannelInv, ItemsOK, OrderOK, NEW c \in Co, NEW t \in Thread, Set(c, t)
  PROVE  ItemsOK' /\ OrderOK'
<1>1. PICK n \in Nat, s \in Seq(Items), x \in Nat :
        n = sent /\ s = m_data /\ x = Popped /\ x = n - Len(s) /\ sent' = n + 1 /\ n + 1 \in Items
        /\ \A k \in 1..Len(s) : s[k] = x + k
  <2>1. sent \in Nat /\ m_data \in Seq(Items) /\ Popped \in Nat /\ Popped = sent - Len(m_data)
        /\ sent' = sent + 1 /\ \A k \in 1..Len(m_data) : m_data[k] = Popped + k
    BY ChannelTypes DEF ChannelInv, ItemsOK, DataOK, Popped, Set
  <2>2. sent + 1 \in Items
    BY <2>1, ChannelAssumption DEF Set, Items
  <2> QED BY <2>1, <2>2, Zenon
<1>2. CASE PopWaiter(c, t, "deliver") /\ m_data' = Tail(Append(m_data, sent + 1))
           /\ slot' = [slot EXCEPT ![Head(waiting)] = Head(Append(m_data, sent + 1))]
           /\ UNCHANGED out
  <2>1. PICK w \in Co : w = Head(waiting) /\ ~Holds(w) /\ waiting # <<>>
    BY <1>2, PopWaiterHolds DEF ChannelInv, Set, PopWaiter
  <2>a. Awaiting(w)
    BY <1>2, <2>1, PopWaiterHolds DEF ChannelInv, Set
  <2>2. slot[w] = NoItem /\ s = <<>>
    BY <1>1, <2>1, <2>a DEF Awaiting, ChannelInv, ServedHasItem, NoSleeperWithItem
  <2>3. x = n /\ Head(Append(s, n + 1)) = n + 1 /\ Tail(Append(s, n + 1)) = <<>>
    BY <1>1, <2>2
  <2>4. m_data' = <<>> /\ slot' = [slot EXCEPT ![w] = Popped + 1]
    BY <1>1, <1>2, <2>1, <2>3
  <2>5. Popped' = Popped + 1 /\ DataOK'
    BY <1>1, <2>3, <2>4 DEF Popped, DataOK
  <2> QED BY <1>2, <2>2, <2>4, <2>5, GiveOK DEF ChannelInv
<1>3. CASE m_data' = Append(m_data, sent + 1) /\ UNCHANGED <<slot, out>>
  <2>1. /\ Len(Append(s, n + 1)) = Len(s) + 1 /\ Append(s, n + 1)[Len(s) + 1] = n + 1
        /\ \A k \in 1..Len(s) : Append(s, n + 1)[k] = s[k]
    BY <1>1
  <2>2. PICK m \in Nat : m = Len(s)
    OBVIOUS
  <2>3. m_data' = Append(s, n + 1) /\ Len(m_data') = m + 1 /\ n = x + m
    BY <1>1, <1>3, <2>1, <2>2
  <2>4. Popped' = x
    BY <1>1, <2>3 DEF Popped
  <2>5. ASSUME NEW k \in 1..(m + 1) PROVE m_data'[k] = x + k
    <3>1. CASE k \in 1..m
      BY <1>1, <2>1, <2>2, <2>3, <3>1
    <3>2. CASE k = m + 1
      BY <2>1, <2>2, <2>3, <3>2
    <3> QED BY <3>1, <3>2
  <2>6. DataOK'
    BY <2>3, <2>4, <2>5 DEF DataOK
  <2>7. Popped' = Popped
    BY <1>1, <2>4
  <2>8. ItemsOK'
    BY <1>3, <2>6, <2>7 DEF ItemsOK
  <2>9. OrderOK'
    BY <1>3 DEF OrderOK
  <2> QED BY <2>8, <2>9
<1> QED BY <1>2, <1>3 DEF Set

LEMMA ItemsGet ==
  ASSUME ChannelInv, ItemsOK, OrderOK, NEW c \in Co, NEW t \in Thread, GetItem(c, t) \/ TryGet(c, t)
  PROVE  ItemsOK' /\ OrderOK'
<1>1. CASE UNCHANGED <<m_data, slot, sent, out>>
  BY <1>1, ItemsUnchanged DEF chVars
<1>2. CASE /\ m_data # <<>> /\ pc[c] = "run"
           /\ slot' = [slot EXCEPT ![c] = Head(m_data)] /\ m_data' = Tail(m_data)
           /\ UNCHANGED <<sent, out>>
  <2>1. PICK n \in Nat, s \in Seq(Items), x \in Nat, m \in Nat :
          n = sent /\ s = m_data /\ x = Popped /\ m = Len(s) /\ x = n - m /\ m > 0
          /\ \A k \in 1..m : s[k] = x + k
    <3>1. sent \in Nat /\ m_data \in Seq(Items) /\ Popped \in Nat /\ Popped = sent - Len(m_data)
          /\ Len(m_data) \in Nat /\ \A k \in 1..Len(m_data) : m_data[k] = Popped + k
      BY ChannelTypes DEF ChannelInv, ItemsOK, DataOK, Popped
    <3>2. Len(m_data) > 0
      BY <1>2, <3>1
    <3> QED BY <3>1, <3>2, Zenon
  <2>2. slot[c] = NoItem
    BY <1>2 DEF ChannelInv, ServedHasItem, Holds, Served, Awaiting
  <2>3. /\ Head(s) = s[1] /\ Len(Tail(s)) = m - 1
        /\ \A k \in 1..(m - 1) : Tail(s)[k] = s[k + 1]
    BY <1>2, <2>1
  <2>4. Head(m_data) = Popped + 1
    BY <2>1, <2>3
  <2>5. Popped' = x + 1
    BY <1>2, <2>1, <2>3 DEF Popped
  <2>6. \A k \in 1..(m - 1) : Tail(s)[k] = (x + 1) + k
    <3>1. \A k \in 1..(m - 1) : k + 1 \in 1..m
      BY <2>1
    <3> QED BY <2>1, <2>3, <3>1
  <2>7. DataOK'
    BY <1>2, <2>1, <2>3, <2>5, <2>6 DEF DataOK
  <2> QED BY <1>2, <2>1, <2>2, <2>4, <2>5, <2>7, GiveOK DEF ChannelInv
<1> QED BY <1>1, <1>2 DEF GetItem, TryGet, PassThrough

LEMMA ItemsReturn ==
  ASSUME ChannelInv, ItemsOK, OrderOK, NEW c \in Co, NEW t \in Thread, ChannelReturn(c, t)
  PROVE  ItemsOK' /\ OrderOK'
<1>1. slot[c] # NoItem
  BY DEF ChannelReturn, ChannelInv, ServedHasItem, Holds
<1> QED BY <1>1, UseOK DEF ChannelReturn, ChannelInv

LEMMA ItemsNext ==
  ASSUME ChannelInv, ItemsOK, OrderOK, [ChannelNext]_channelVars
  PROVE  ItemsOK' /\ OrderOK'
<1>1. CASE UNCHANGED chVars
  BY <1>1, ItemsUnchanged
<1>2. ASSUME NEW c \in Co, NEW t \in Thread, ChannelStep(c, t) PROVE ItemsOK' /\ OrderOK'
  BY <1>1, <1>2, ItemsSet, ItemsGet, ItemsReturn DEF ChannelStep
<1> QED BY <1>1, <1>2 DEF ChannelNext, channelVars

LEMMA ItemsInit ==
  ASSUME ChannelInit
  PROVE  ItemsOK /\ OrderOK
<1>1. Popped = 0 /\ DataOK
  <2>1. sent = 0 /\ Len(m_data) = 0
    BY DEF ChannelInit
  <2>2. Popped = 0
    BY <2>1 DEF Popped
  <2>3. \A k \in 1..0 : FALSE
    OBVIOUS
  <2> QED BY <2>1, <2>2, <2>3 DEF DataOK
<1>2. \A c \in Co : slot[c] = NoItem /\ out[c] = <<>> /\ Len(out[c]) = 0
  BY DEF ChannelInit
<1> QED BY <1>1, <1>2 DEF ItemsOK, OrderOK, NoItem

\* An item in one place.
LEMMA OnePlace ==
  ASSUME ChannelTypeOK, ItemsOK, NEW i \in 1..sent
  PROVE  Cardinality(Places(i)) = 1
<1>1. DOMAIN m_data = 1..Len(m_data) /\ \A c \in Co : DOMAIN out[c] = 1..Len(out[c])
  BY ChannelTypes
<1>2. \A x : x \in Places(i) <=>
         \/ \E k \in 1..Len(m_data) : m_data[k] = i /\ x = <<"data", k>>
         \/ \E c \in Co : slot[c] = i /\ x = <<"slot", c>>
         \/ \E c \in Co : \E k \in 1..Len(out[c]) : out[c][k] = i /\ x = <<"out", c, k>>
  BY <1>1 DEF Places
<1>3. PICK n \in Nat, m \in Nat : n = Popped /\ m = Len(m_data) /\ sent = n + m
  BY ChannelTypes DEF ItemsOK, DataOK, Popped
<1>4. i \in Nat /\ i # NoItem
  BY ChannelTypes DEF NoItem
<1>5. \E x : Places(i) = {x}
  <2>1. CASE i > n
    <3>1. PICK k \in 1..m : i = n + k
      <4>1. i - n \in 1..m /\ i = n + (i - n)
        BY <1>3, <2>1
      <4> QED BY <4>1
    <3>2. \A l \in 1..m : m_data[l] = i <=> l = k
      BY <1>3, <3>1 DEF ItemsOK, DataOK
    <3>3. \A c \in Co : slot[c] # i /\ \A l \in 1..Len(out[c]) : out[c][l] # i
      BY <1>3, <2>1, ChannelTypes DEF ItemsOK
    <3>p. PICK y : y = <<"data", k>>
      OBVIOUS
    <3>4. \A x : x \in Places(i) <=> x = y
      BY <3>p, <1>2, <1>3, <3>2, <3>3
    <3>q. Places(i) = {y}
      BY <3>4
    <3> QED BY <3>q
  <2>2. CASE i <= n
    <3>1. \A l \in 1..m : m_data[l] # i
      BY <1>3, <2>2 DEF ItemsOK, DataOK
    <3>2. i \in 1..Popped
      BY <1>3, <2>2
    <3>3. CASE \E c \in Co : slot[c] = i
      <4>1. PICK c \in Co : slot[c] = i
        BY <3>3
      <4>2. /\ \A d \in Co : slot[d] = i <=> d = c
            /\ \A d \in Co : \A l \in 1..Len(out[d]) : out[d][l] # i
        BY <1>4, <4>1 DEF ItemsOK
      <4>p. PICK y : y = <<"slot", c>>
        OBVIOUS
      <4>3. \A x : x \in Places(i) <=> x = y
        BY <4>p, <1>2, <1>3, <3>1, <4>2
      <4>q. Places(i) = {y}
        BY <4>3
      <4> QED BY <4>q
    <3>4. CASE \E c \in Co : \E k \in 1..Len(out[c]) : out[c][k] = i
      <4>0. PICK c \in Co : \E k \in 1..Len(out[c]) : out[c][k] = i
        BY <3>4
      <4>1. PICK k \in 1..Len(out[c]) : out[c][k] = i
        BY <4>0
      <4>2. /\ \A d \in Co : slot[d] # i
            /\ \A d \in Co : \A l \in 1..Len(out[d]) : out[d][l] = i <=> d = c /\ l = k
        BY <4>1 DEF ItemsOK
      <4>p. PICK y : y = <<"out", c, k>>
        OBVIOUS
      <4>3. \A x : x \in Places(i) <=> x = y
        <5>1. y \in Places(i)
          BY <1>2, <4>p, <4>1
        <5>2. ASSUME NEW x \in Places(i) PROVE x = y
          <6>1. \E d \in Co : \E l \in 1..Len(out[d]) : out[d][l] = i /\ x = <<"out", d, l>>
            BY <1>2, <1>3, <3>1, <4>2, <5>2
          <6> QED BY <4>p, <4>2, <6>1
        <5> QED BY <5>1, <5>2
      <4>q. Places(i) = {y}
        BY <4>3
      <4> QED BY <4>q
    <3> QED BY <3>2, <3>3, <3>4 DEF ItemsOK
  <2>3. i > n \/ i <= n
    BY <1>3, <1>4
  <2> QED BY <2>1, <2>2, <2>3, Zenon
<1> QED BY <1>5, FS_Singleton

(* The hand-off as a whole (co_channel.h set(), get(), try_get()), whatever        *)
(* thread stops when: no assert of co_event fails, a getter that exists has an item  *)
(* exactly while it is due, receives in the order of the set() calls, and every       *)
(* item is in exactly one place.                                                       *)
THEOREM HandOff == ChannelSpec => []HandOffSafe
<1> DEFINE I == ChannelInv /\ ItemsOK /\ OrderOK
<1>1. ChannelInit => I
  BY ChannelInitInv, ItemsInit
<1>2. I /\ [ChannelNext]_channelVars => I'
  BY ChannelNextInv, ItemsNext
<1>3. I => HandOffSafe
  <2> SUFFICES ASSUME I PROVE HandOffSafe
    OBVIOUS
  <2>1. ReceivedInOrder
    <3>1. \A c \in Co : DOMAIN out[c] = 1..Len(out[c])
      BY ChannelTypes DEF ChannelInv
    <3> QED BY <3>1 DEF OrderOK, ReceivedInOrder
  <2>2. ExactlyOnce
    BY OnePlace DEF ExactlyOnce, ChannelInv
  <2> QED BY <2>1, <2>2 DEF HandOffSafe, ChannelInv, AsyncInv, StatusOK, NoAssert
<1> HIDE DEF I
<1> QED BY <1>1, <1>2, <1>3, PTL DEF ChannelSpec

-----------------------------------------------------------------------------
(* co_waitgroup                                                             *)

(* The pieces of work not reported done: m_count is their number.               *)
Work == {x \in Co \X (1 .. MaxAdds) : x[2] <= owes[x[1]]}

CountOK ==
  /\ m_count \in Nat /\ adds \in 0 .. MaxAdds /\ m_count <= adds
  /\ owes \in [Co -> Nat]
  /\ \A c \in Co : owes[c] <= adds
  /\ IsFiniteSet(Work) /\ Cardinality(Work) = m_count

(* As long as no add() started a new round too early: whoever was let go saw    *)
(* the counter at zero, and so did all who are queued while a done() wakes.       *)
RoundOK ==
  ~reused => /\ \A c \in Co : Holds(c) => c \in sawZero
             /\ waking # {} => m_count = 0 /\ \A c \in Co : Awaiting(c) => c \in sawZero

(* Inductive invariant.                                                          *)
GroupInv ==
  /\ AsyncInv
  /\ CountOK
  /\ waking \subseteq Co /\ sawZero \subseteq Co /\ reused \in BOOLEAN
  /\ NobodyLeftBehind
  /\ RoundOK

LEMMA AddStep ==
  ASSUME GroupInv, NEW c \in Co, NEW t \in Thread, Add(c, t)
  PROVE  GroupInv'
<1> DEFINE x == <<c, owes[c] + 1>>
<1> USE DEF GroupInv
<1>0. /\ m_count' = m_count + 1 /\ adds' = adds + 1 /\ adds < MaxAdds
      /\ owes' = [owes EXCEPT ![c] = owes[c] + 1]
      /\ UNCHANGED <<asyncVars, waking, sawZero>>
      /\ reused' = (reused \/ waking # {})
  BY DEF Add
<1>1. AsyncInv'
  BY <1>0, AsyncUnchanged
<1>2. Work' = Work \cup {x}
  BY <1>0, WaitGroupAssumption DEF Work, CountOK
<1>3. x \notin Work
  BY DEF Work, CountOK
<1>4. IsFiniteSet(Work') /\ Cardinality(Work') = m_count'
  BY <1>0, <1>2, <1>3, FS_AddElement DEF CountOK
<1>5. CountOK'
  BY <1>0, <1>4, WaitGroupAssumption DEF CountOK
<1>6. NobodyLeftBehind'
  BY <1>0 DEF NobodyLeftBehind, CountOK
<1>7. RoundOK'
  BY <1>0 DEF RoundOK, asyncVars, Holds, Served, Awaiting
<1> QED BY <1>0, <1>1, <1>5, <1>6, <1>7

LEMMA DoneStep ==
  ASSUME GroupInv, NEW c \in Co, NEW t \in Thread, Done(c, t)
  PROVE  GroupInv'
<1> DEFINE x == <<c, owes[c]>>
<1> USE DEF GroupInv
<1>0. /\ owes[c] > 0
      /\ m_count' = m_count - 1
      /\ owes' = [owes EXCEPT ![c] = owes[c] - 1]
      /\ waking' = IF m_count' > 0 THEN waking ELSE waking \cup {c}
      /\ sawZero' = IF m_count' > 0 THEN sawZero ELSE sawZero \cup {d \in Co : Awaiting(d)}
      /\ UNCHANGED <<asyncVars, adds, reused>>
  BY DEF Done
<1>1. AsyncInv'
  BY <1>0, AsyncUnchanged
<1>2. Work' = Work \ {x}
  BY <1>0, WaitGroupAssumption DEF Work, CountOK
<1>3. x \in Work
  BY <1>0, WaitGroupAssumption DEF Work, CountOK
<1>4. IsFiniteSet(Work') /\ Cardinality(Work') = m_count'
  BY <1>0, <1>2, <1>3, FS_RemoveElement DEF CountOK
<1>5. m_count' \in Nat
  BY <1>4, FS_CardinalityType
<1>6. CountOK'
  BY <1>0, <1>4, <1>5, WaitGroupAssumption DEF CountOK
<1>7. NobodyLeftBehind'
  BY <1>0, <1>5 DEF NobodyLeftBehind
<1>8. RoundOK'
  <2>1. \A d \in Co : (Holds(d)' <=> Holds(d)) /\ (Awaiting(d)' <=> Awaiting(d))
    BY <1>0 DEF asyncVars, Holds, Served, Awaiting
  <2>2. CASE m_count' > 0
    BY <1>0, <2>1, <2>2, <1>5 DEF RoundOK, CountOK
  <2>3. CASE m_count' = 0
    BY <1>0, <2>1, <2>3 DEF RoundOK, CountOK
  <2> QED BY <1>5, <2>2, <2>3
<1> QED BY <1>0, <1>1, <1>6, <1>7, <1>8

LEMMA CountUnchanged ==
  ASSUME CountOK, UNCHANGED <<m_count, owes, adds>>
  PROVE  CountOK'
BY DEF CountOK, Work

LEMMA WakeLoopStep ==
  ASSUME GroupInv, NEW c \in Co, NEW t \in Thread, WakeLoop(c, t)
  PROVE  GroupInv'
<1> USE DEF GroupInv
<1>0. /\ pc[c] = "run" /\ c \in waking
      /\ UNCHANGED <<m_count, owes, adds, sawZero, reused>>
  BY DEF WakeLoop
<1>1. CountOK'
  BY <1>0, CountUnchanged
<1>2. CASE PopWaiter(c, t, "deliver") /\ UNCHANGED waking
  <2>1. AsyncInv'
    BY <1>0, <1>2, PopWaiterInv
  <2>2. /\ Head(waiting) \in Co
        /\ \A d \in Co : Holds(d)' <=> d = Head(waiting) \/ (Holds(d) /\ d # c)
    BY <1>0, <1>2, PopWaiterHolds
  <2>3. waiting # <<>> /\ InSeq(Head(waiting), waiting)
    BY <1>2, InSeqTail DEF PopWaiter, AsyncInv, AsyncTypeOK
  <2>4. Awaiting(Head(waiting))
    BY <2>2, <2>3 DEF AsyncInv, WaitingOK, Unresumed
  <2>5. \A d \in Co : Awaiting(d)' <=> Awaiting(d)
    BY <1>0, <1>2 DEF PopWaiter, Awaiting, AsyncInv, AsyncTypeOK
  <2>6. RoundOK'
    BY <1>0, <1>2, <2>2, <2>4, <2>5 DEF RoundOK
  <2> QED BY <1>0, <1>1, <1>2, <2>1, <2>6 DEF NobodyLeftBehind
<1>3. CASE NoWaiter(c, t) /\ waking' = waking \ {c}
  <2>1. AsyncInv'
    BY <1>0, <1>3, NoWaiterInv
  <2>2. waiting = <<>> /\ waiting' = waiting /\ UNCHANGED pc
    BY <1>0, <1>3 DEF NoWaiter, AsyncInv, AsyncTypeOK
  <2>3. RoundOK'
    BY <1>0, <1>3, <2>2 DEF RoundOK, Holds, Served, Awaiting
  <2> QED BY <1>0, <1>1, <1>3, <2>1, <2>2, <2>3 DEF NobodyLeftBehind
<1> QED BY <1>2, <1>3 DEF WakeLoop

LEMMA WaitStep ==
  ASSUME GroupInv, NEW c \in Co, NEW t \in Thread, Wait(c, t)
  PROVE  GroupInv'
<1> USE DEF GroupInv
<1>0. UNCHANGED <<m_count, waking, owes, adds, reused>>
  BY DEF Wait
<1>1. CountOK'
  BY <1>0, CountUnchanged
<1>2. CASE m_count > 0 /\ Enqueue(c, t) /\ sawZero' = sawZero \ {c}
  <2>1. AsyncInv'
    BY <1>2, EnqueueInv
  <2>2. \A y : InSeq(y, waiting') <=> InSeq(y, waiting) \/ y = c
    BY <1>2, InSeqAppend DEF Enqueue, AsyncInv, AsyncTypeOK
  <2>3. pc'[c] = "queued" /\ pc[c] = "run" /\ \A d \in Co : d # c => pc'[d] = pc[d]
    BY <1>2 DEF Enqueue, AsyncInv, AsyncTypeOK
  <2>4. \A d \in Co : (Holds(d)' <=> Holds(d)) /\ ~Holds(c)
    BY <2>2, <2>3 DEF Holds, Served, Awaiting
  <2>5. RoundOK'
    BY <1>0, <1>2, <2>4 DEF RoundOK
  <2> QED BY <1>0, <1>1, <1>2, <2>1, <2>5 DEF NobodyLeftBehind
<1>3. CASE m_count = 0 /\ PassThrough(c, t) /\ sawZero' = sawZero \cup {c}
  <2>1. AsyncInv'
    BY <1>3, PassThroughInv
  <2>2. waiting' = waiting /\ pc'[c] = "back" /\ \A d \in Co : d # c => pc'[d] = pc[d]
    BY <1>3 DEF PassThrough, AsyncInv, AsyncTypeOK
  <2>3. RoundOK'
    BY <1>0, <1>3, <2>2 DEF RoundOK, Holds, Served, Awaiting
  <2> QED BY <1>0, <1>1, <1>3, <2>1, <2>2, <2>3 DEF NobodyLeftBehind
<1> QED BY <1>2, <1>3 DEF Wait

LEMMA GroupReturnStep ==
  ASSUME GroupInv, NEW c \in Co, NEW t \in Thread, GroupReturn(c, t)
  PROVE  GroupInv'
<1> USE DEF GroupInv
<1>0. /\ pc[c] = "back" /\ pc'[c] = "run" /\ \A d \in Co : d # c => pc'[d] = pc[d]
      /\ pc' = [pc EXCEPT ![c] = "run"]
      /\ UNCHANGED <<status, tid, waiting, hand, stack, deliverq, signal, batch, open, live>>
  BY DEF GroupReturn, AsyncInv, AsyncTypeOK
<1>1. AsyncInv'
  BY <1>0, ReturnInv
<1>2. CountOK'
  BY CountUnchanged DEF GroupReturn, wgVars
<1>3. RoundOK'
  BY <1>0 DEF GroupReturn, wgVars, RoundOK, Holds, Served, Awaiting
<1> QED BY <1>0, <1>1, <1>2, <1>3 DEF GroupReturn, wgVars, NobodyLeftBehind

(* The machinery wakes nobody that was not let go, and puts nobody to sleep      *)
(* that did not wait: it only moves the coroutines of the group along.            *)
LEMMA GroupMachineryStep ==
  ASSUME GroupInv, NEW t \in Thread, UNCHANGED wgVars,
         \/ LoopStep(t)
         \/ \E c \in Co : AsyncStep(c, t) \/ IoReady(c, t) \/ IoWait(c, t)
  PROVE  GroupInv'
<1> USE DEF GroupInv
<1>1. AsyncInv'
  BY MachineryInv
<1>2. waiting' = waiting /\ \A d \in Co : Holds(d)' <=> Holds(d)
  BY MachineryHolds
<1>3. \A d \in Co : Awaiting(d)' => Awaiting(d) \/ Holds(d)
  BY <1>1, <1>2 DEF Holds, Served, AsyncInv, WaitingOK, Unresumed
<1>4. CountOK'
  BY CountUnchanged DEF wgVars
<1>5. RoundOK'
  BY <1>2, <1>3 DEF RoundOK, wgVars
<1> QED BY <1>1, <1>2, <1>4, <1>5 DEF wgVars, NobodyLeftBehind

LEMMA GroupInvariance == GroupSpec => []GroupInv
<1>1. GroupInit => GroupInv
  <2> SUFFICES ASSUME GroupInit PROVE GroupInv
    OBVIOUS
  <2>1. AsyncInv
    BY AsyncInitInv DEF GroupInit
  <2>2. Work = {}
    BY DEF GroupInit, Work
  <2>3. CountOK
    BY <2>2, FS_EmptySet, WaitGroupAssumption DEF GroupInit, CountOK
  <2>4. \A d \in Co : ~Holds(d)
    BY DEF GroupInit, AsyncInit, Holds, Served, Awaiting
  <2> QED BY <2>1, <2>3, <2>4 DEF GroupInit, AsyncInit, GroupInv, NobodyLeftBehind, RoundOK
<1>2. GroupInv /\ [GroupNext]_groupVars => GroupInv'
  <2> SUFFICES ASSUME GroupInv, [GroupNext]_groupVars PROVE GroupInv'
    OBVIOUS
  <2>1. CASE UNCHANGED groupVars
    <3>1. AsyncInv' /\ CountOK'
      BY <2>1, AsyncUnchanged, CountUnchanged DEF GroupInv, groupVars, wgVars
    <3> QED BY <2>1, <3>1 DEF GroupInv, groupVars, wgVars, asyncVars, NobodyLeftBehind, RoundOK,
               Holds, Served, Awaiting
  <2>2. CASE GroupNext
    BY <2>2, GroupMachineryStep, AddStep, DoneStep, WakeLoopStep, WaitStep, GroupReturnStep DEF GroupNext, GroupStep
  <2> QED BY <2>1, <2>2
<1> QED BY <1>1, <1>2, PTL DEF GroupSpec

(* The group of waiters keeps its types, resumes no event twice, and leaves      *)
(* nobody behind: the unlocked decrement of done() cannot miss a waiter that       *)
(* read the counter under m_mutex, whatever the number of threads.                  *)
THEOREM WaitersServed == GroupSpec => []WaitersSafe
<1>1. GroupInv => WaitersSafe
  <2> SUFFICES ASSUME GroupInv PROVE WaitersSafe
    OBVIOUS
  <2>1. m_count \in 0 .. MaxAdds /\ owes \in [Co -> 0 .. MaxAdds]
    BY WaitGroupAssumption DEF GroupInv, CountOK
  <2> QED BY <2>1 DEF GroupInv, CountOK, AsyncInv, StatusOK, WaitersSafe, GroupTypeOK, NoAssert
<1> QED BY <1>1, GroupInvariance, PTL

(* wait() returns only after the counter was zero during the wait, as long as    *)
(* no add() starts a new round while done() is still waking the old one.           *)
THEOREM WaitOutlastsWork == GroupSpec => []ReturnsAfterZero
<1>1. GroupInv => ReturnsAfterZero
  BY DEF GroupInv, RoundOK, ReturnsAfterZero, Holds
<1> QED BY <1>1, GroupInvariance, PTL
=============================================================================
