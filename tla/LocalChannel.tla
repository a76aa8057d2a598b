---------------------------- MODULE LocalChannel ----------------------------
(* coev::co_channel (src/src/coev/co_channel.h), the channel of one thread:    *)
(* set() pushes and moves the first waiting get() to local_async; that get()    *)
(* pops when the callback ends, without looking at the queue again.              *)
EXTENDS LocalAsync, FiniteSets

CONSTANTS Getters,   \* coroutines that call get()
          TryGetters,\* coroutines that call try_get()
          MaxItems   \* bound on the calls of set()

ASSUME LocalChannelAssumption ==
  Getters \subseteq Co /\ TryGetters \subseteq Co /\ MaxItems \in Nat

VARIABLES m_data,   \* std::queue of the channel
          sent,     \* number of set() so far; items are numbered
          received, \* items received, in order
          undefined \* a front()/pop() of an empty std::queue was executed

chVars == <<m_data, sent, received, undefined>>
allChannelVars == <<localVars, chVars>>

Items == 1..MaxItems

ChannelTypeOK ==
  /\ LocalTypeOK
  /\ m_data \in Seq(Items) /\ sent \in 0..MaxItems
  /\ received \in Seq(Items) /\ undefined \in BOOLEAN

ChannelInit ==
  /\ LocalInit
  /\ m_data = <<>> /\ sent = 0 /\ received = <<>> /\ undefined = FALSE

\* __pop_front().
PopFront ==
  IF m_data = <<>>
    THEN undefined' = TRUE /\ UNCHANGED <<m_data, received>>
    ELSE /\ received' = Append(received, Head(m_data))
         /\ m_data' = Tail(m_data)
         /\ UNCHANGED undefined

\* Mutant: set() pushes but wakes nobody.
SetSilent(c) ==
  /\ Runs(c) /\ pc[c] = "run" /\ sent < MaxItems
  /\ sent' = sent + 1
  /\ m_data' = Append(m_data, sent + 1)
  /\ UNCHANGED <<localVars, received, undefined>>

\* set(): push, then wake the first waiter at the end of the callback.
Set(c) ==
  /\ Runs(c) /\ pc[c] = "run" /\ sent < MaxItems
  /\ sent' = sent + 1
  /\ m_data' = Append(m_data, sent + 1)
  /\ ResumeNextLoop
  /\ UNCHANGED <<pc, stack, phase, received, undefined>>

\* Mutant: get() pops without looking.
GetBlind(c) ==
  /\ c \in Getters /\ Runs(c) /\ pc[c] = "run"
  /\ PopFront
  /\ UNCHANGED <<localVars, sent>>

\* get(): wait if empty, else pop.
Get(c) ==
  /\ c \in Getters /\ Runs(c) /\ pc[c] = "run"
  /\ \/ m_data = <<>> /\ Suspend(c) /\ UNCHANGED chVars
     \/ m_data # <<>> /\ PopFront /\ UNCHANGED <<localVars, sent>>

\* get() after its wait: it pops without testing again.
GetWoken(c) ==
  /\ Runs(c) /\ pc[c] = "back"
  /\ PopFront
  /\ Goto(c, "run")
  /\ UNCHANGED <<stack, waiters, next, phase, sent>>

\* try_get().
TryGet(c) ==
  /\ c \in TryGetters /\ Runs(c) /\ pc[c] = "run" /\ m_data # <<>>
  /\ PopFront
  /\ UNCHANGED <<localVars, sent>>

ChannelStep(c) ==
  \/ (Start(c) \/ IoReady(c) \/ IoWait(c) \/ Finish(c)) /\ UNCHANGED chVars
  \/ Set(c) \/ Get(c) \/ GetWoken(c) \/ TryGet(c)

ChannelNext == (\E c \in Co : ChannelStep(c)) \/ (LoopStep /\ UNCHANGED chVars)

ChannelSpec == ChannelInit /\ [][ChannelNext]_allChannelVars

(***************************************************************************)
(* Properties                                                                *)
(***************************************************************************)

(* Every get() that returns has received an item that was set: no __pop_front  *)
(* on an empty queue.                                                            *)
PopsAnItem == ~undefined

(* Items are received in the order of the set() calls, none twice, none         *)
(* skipped: what was received and what is in the queue are all that was sent.   *)
Fifo == received \o m_data = [i \in 1..sent |-> i]

(* With one getter, an item never lies in the queue while the getter sleeps     *)
(* without a wake-up on its way.                                                 *)
NoSleeperWithItem == m_data # <<>> => waiters = <<>>

(* The queue as a whole, the types included: get() pops items only, in the order   *)
(* they were set.                                                                    *)
QueueSafe ==
  /\ ChannelTypeOK
  /\ PopsAnItem
  /\ Fifo

\* Running code goes on, timers and sockets fire, callbacks end.
ChannelFairness ==
  /\ WF_allChannelVars((\E c \in Co : Runs(c) /\ ChannelStep(c)) \/ (LoopStep /\ UNCHANGED chVars))
  /\ \A c \in Co : WF_allChannelVars(IoReady(c) /\ UNCHANGED chVars)

FairChannelSpec == ChannelSpec /\ ChannelFairness

(* A getter that set() chose to wake from inside a libev callback is woken when  *)
(* that callback ends.                                                             *)
WokenAfterCallback ==
  \A c \in Co : phase = "callback" /\ (\E i \in DOMAIN next : next[i] = c) ~> pc[c] = "back"
=============================================================================
