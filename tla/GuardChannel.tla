---------------------------- MODULE GuardChannel ----------------------------
(* guard::co_channel (src/src/coev/co_channel.h): a queue of items shared by *)
(* coroutines of several threads. set() pushes the item and, in the same      *)
(* critical section, the first waiting get() pops one into its own variable.  *)
EXTENDS GuardAsync, FiniteSets

CONSTANTS MaxItems, \* items are numbered in the order of their set(); bound on them
          StopsToo  \* whether threads may stop while others go on

ASSUME ChannelAssumption == MaxItems \in Nat /\ StopsToo \in BOOLEAN

NoItem == 0
Items == 1..MaxItems

VARIABLES m_data, \* std::queue of the channel
          slot,   \* slot[c]: the variable d of c's get(d)
          sent,   \* number of set() so far
          out     \* out[c]: items c's get()/try_get() returned, in order

chVars == <<m_data, slot, sent, out>>
channelVars == <<asyncVars, chVars>>

ChannelTypeOK ==
  /\ AsyncTypeOK
  /\ m_data \in Seq(Items)
  /\ slot \in [Co -> Items \cup {NoItem}]
  /\ sent \in 0..MaxItems
  /\ out \in [Co -> Seq(Items)]

ChannelInit ==
  /\ AsyncInit
  /\ m_data = <<>> /\ sent = 0
  /\ slot = [c \in Co |-> NoItem]
  /\ out = [c \in Co |-> <<>>]

\* Mutant: the getter copies the item and leaves it in the queue.
SetForgetsPop(c, t) ==
  /\ pc[c] = "run" /\ sent < MaxItems
  /\ sent' = sent + 1
  /\ m_data' = Append(m_data, sent + 1)
  /\ \/ PopWaiter(c, t, "deliver") /\ slot' = [slot EXCEPT ![Head(waiting)] = Head(m_data')]
     \/ NoWaiter(c, t) /\ UNCHANGED slot
  /\ UNCHANGED out

\* Mutant: set() pushes at the front.
SetLifo(c, t) ==
  /\ pc[c] = "run" /\ sent < MaxItems
  /\ sent' = sent + 1
  /\ LET pushed == <<sent + 1>> \o m_data IN
       \/ /\ PopWaiter(c, t, "deliver")
          /\ m_data' = Tail(pushed)
          /\ slot' = [slot EXCEPT ![Head(waiting)] = Head(pushed)]
       \/ /\ NoWaiter(c, t)
          /\ m_data' = pushed
          /\ UNCHANGED slot
  /\ UNCHANGED out

\* set(): push and, if somebody waits, pop into its variable; then wake it.
Set(c, t) ==
  /\ pc[c] = "run" /\ sent < MaxItems
  /\ sent' = sent + 1
  /\ LET pushed == Append(m_data, sent + 1) IN
       \/ /\ PopWaiter(c, t, "deliver")
          /\ m_data' = Tail(pushed)
          /\ slot' = [slot EXCEPT ![Head(waiting)] = Head(pushed)]
       \/ /\ NoWaiter(c, t)
          /\ m_data' = pushed
          /\ UNCHANGED slot
  /\ UNCHANGED out

\* Mutant: get() tests the queue before it takes m_mutex.
GetUnlocked(c, t) ==
  /\ \/ Enqueue(c, t) /\ UNCHANGED <<m_data, slot>>
     \/ /\ m_data # <<>> /\ PassThrough(c, t)
        /\ slot' = [slot EXCEPT ![c] = Head(m_data)]
        /\ m_data' = Tail(m_data)
  /\ UNCHANGED <<sent, out>>

\* get(): wait while empty, else pop.
GetItem(c, t) ==
  /\ \/ m_data = <<>> /\ Enqueue(c, t) /\ UNCHANGED <<m_data, slot>>
     \/ /\ m_data # <<>> /\ PassThrough(c, t)
        /\ slot' = [slot EXCEPT ![c] = Head(m_data)]
        /\ m_data' = Tail(m_data)
  /\ UNCHANGED <<sent, out>>

\* try_get(): pop if there is an item; it is used at once.
TryGet(c, t) ==
  /\ m_data # <<>> /\ PassThrough(c, t)
  /\ slot' = [slot EXCEPT ![c] = Head(m_data)]
  /\ m_data' = Tail(m_data)
  /\ UNCHANGED <<sent, out>>

\* get() has returned: the caller uses d.
ChannelReturn(c, t) ==
  /\ Runs(c, t) /\ pc[c] = "back"
  /\ pc' = [pc EXCEPT ![c] = "run"]
  /\ out' = [out EXCEPT ![c] = Append(@, slot[c])]
  /\ slot' = [slot EXCEPT ![c] = NoItem]
  /\ UNCHANGED <<status, tid, waiting, hand, stack, deliverq, signal, batch, open, live, m_data, sent>>

ChannelStep(c, t) ==
  \/ IoReady(c, t) /\ UNCHANGED chVars
  \/ pc[c] = "run" /\ IoWait(c, t) /\ UNCHANGED chVars
  \/ Set(c, t) \/ GetItem(c, t) \/ TryGet(c, t) \/ ChannelReturn(c, t)
  \/ AsyncStep(c, t) /\ UNCHANGED chVars

ChannelNext ==
  \/ \E c \in Co, t \in Thread : ChannelStep(c, t)
  \/ \E t \in Thread : LoopStep(t) /\ UNCHANGED chVars
  \/ /\ StopsToo
     /\ \E t \in Thread : ThreadExit(t) \/ \E c \in Co : StopLoop(c, t)
     /\ UNCHANGED chVars

ChannelSpec == ChannelInit /\ [][ChannelNext]_channelVars

(***************************************************************************)
(* Properties                                                                *)
(***************************************************************************)
\* Where item i is: in the channel, in a getter's variable, or received.
Places(i) ==
  {<<"data", k>> : k \in {k \in DOMAIN m_data : m_data[k] = i}}
    \cup {<<"slot", c>> : c \in {c \in Co : slot[c] = i}}
    \cup UNION {{<<"out", c, k>> : k \in {k \in DOMAIN out[c] : out[c][k] = i}} : c \in Co}

(* No item is lost or duplicated by the hand-off: every item set so far is in *)
(* exactly one place, the channel, the variable of one getter or the items one *)
(* getter received. A getter destroyed with its thread takes the item it was    *)
(* handed with it; nobody else sees that item.                                  *)
ExactlyOnce == \A i \in 1..sent : Cardinality(Places(i)) = 1

(* No getter sleeps next to an item: the queue of waiters and the queue of     *)
(* items are never both non-empty, so no item waits for the next set().        *)
NoSleeperWithItem == waiting # <<>> => m_data = <<>>

(* A getter has its item exactly from the moment its event is popped (or its   *)
(* get() finds one) until it uses it: the getter runs under m_mutex for the     *)
(* events that are popped and for no other.                                      *)
ServedHasItem == \A c \in Co : pc[c] # "dead" => (slot[c] # NoItem <=> Holds(c))

(* Each getter receives in the order of the set() calls.                       *)
ReceivedInOrder ==
  \A c \in Co : \A i, j \in DOMAIN out[c] : i < j => out[c][i] < out[c][j]

(* The channel with its events, hands, co_deliver queues and ev_async signals  *)
(* implements the FIFO channel: a try_get or get that finds an item is a Get,  *)
(* the wake-up, by whatever route, is a Tell, the end of a thread a Leave.      *)
Fifo == INSTANCE FifoChannel WITH
          Getter <- Co, Item <- Items,
          buffer <- m_data, asking <- waiting, given <- slot,
          told <- {c \in Co : slot[c] # NoItem /\ pc[c] = "back"}
ImplementsFifo == Fifo!ChanSpec

(* The event that deliver() popped under m_mutex and uses after releasing it   *)
(* belongs to a coroutine that still exists.                                    *)
NoDangling ==
  \A c \in Co : pc[c] = "deliver" => pc[hand[c]] # "dead"

(* The hand-off as a whole, the types included: no assert of co_event fails, a  *)
(* getter has an item exactly when it was served, and in the order of the set()   *)
(* calls, and every item is in one place.                                          *)
HandOffSafe ==
  /\ ChannelTypeOK
  /\ NoAssert
  /\ ServedHasItem
  /\ ReceivedInOrder
  /\ ExactlyOnce

(***************************************************************************)
(* Liveness                                                                  *)
(***************************************************************************)
ChannelThreadRuns(t) ==
  \/ /\ \/ \E c \in Co : AsyncStep(c, t) \/ (pc[c] = "run" /\ IoWait(c, t))
        \/ ResumeNext(t)
     /\ UNCHANGED chVars
  \/ \E c \in Co : ChannelReturn(c, t)

ChannelFairness ==
  \A t \in Thread :
    /\ WF_channelVars(ChannelThreadRuns(t))
    /\ SF_channelVars(Collect(t) /\ UNCHANGED chVars)

ChannelFairSpec == ChannelSpec /\ ChannelFairness

(* An item handed to a getter is received unless the getter's thread stops: the *)
(* wake-up is never lost on its way through co_deliver.                          *)
HandedIsReceived ==
  \A c \in Co : \A i \in Items : slot[c] = i ~> InSeq(i, out[c]) \/ tid[c] \notin open
=============================================================================
