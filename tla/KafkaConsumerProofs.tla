------------------------ MODULE KafkaConsumerProofs -------------------------
(* The hand-over of partition consumers between broker consumers, for any        *)
(* number of partitions, brokers, messages and faults: every message once, in     *)
(* order and without a gap, and no child dropped on the way.                        *)
EXTENDS KafkaConsumer, TLAPS

(* p is on its way to be subscribed at b; p is somewhere at b.                     *)
Queued(b, p) ==
  p \in bc[b].m_input \/ p \in bc[b].batch \/ p \in bc[b].m_new_subscriptions
At(b, p) == Queued(b, p) \/ p \in bc[b].m_subscriptions

(* Between the coroutines of one BrokerConsumer.                                    *)
BrokerOK(b) ==
  /\ bc[b].todo \subseteq bc[b].m_subscriptions
  /\ bc[b].at # "handle" => bc[b].todo = {}

(* A child not consumed yet is nowhere; one not closed is not dying.                *)
StatusOK(p) ==
  /\ pc[p].status = "new" =>
       pc[p].m_trigger = 0 /\ delivered[p] = <<>> /\ \A b \in Brokers : ~At(b, p)
  /\ pc[p].status \in {"new", "on"} => ~pc[p].m_dying

(* A child has one owner: the Dispatcher it was triggered at, or one                 *)
(* BrokerConsumer, where it is in one place; a child that timed out is back in        *)
(* m_input while HandleResponses has still to take it out.                             *)
OneOwner(p) ==
  /\ pc[p].m_trigger <= 1
  /\ pc[p].m_trigger > 0 => \A b \in Brokers : ~At(b, p)
  /\ \A b, c \in Brokers : At(b, p) /\ At(c, p) => b = c
  /\ \A b \in Brokers :
       /\ p \in bc[b].m_input => p \notin bc[b].batch /\ p \notin bc[b].m_new_subscriptions
       /\ p \in bc[b].batch => p \notin bc[b].m_new_subscriptions
       /\ Queued(b, p) /\ p \in bc[b].m_subscriptions =>
            p \in bc[b].todo /\ pc[p].m_response_result = "timeout"

(* The request asks for what the child wants next, and so the records of the         *)
(* answer begin at or before it and end after it.                                      *)
AskedOK(p) ==
  \A b \in Brokers : p \in bc[b].m_subscriptions =>
    /\ bc[b].at = "asked" => bc[b].asked[p] = pc[p].m_offset
    /\ bc[b].at = "answered" /\ bc[b].answer[p].end > bc[b].answer[p].first =>
         bc[b].answer[p].first <= pc[p].m_offset /\ pc[p].m_offset < bc[b].answer[p].end

SentOK(p) ==
  /\ Increasing(delivered[p])
  /\ \A i \in DOMAIN delivered[p] : delivered[p][i] < pc[p].m_offset
  /\ pc[p].status = "on" =>
       /\ pc[p].start <= pc[p].m_offset
       /\ delivered[p] = [i \in 1..(pc[p].m_offset - pc[p].start) |-> pc[p].start + i - 1]

(* A consumed child that is not lost is kept somewhere HandleResponses will not        *)
(* take it out of without a trigger.                                                     *)
Kept(p) ==
  \/ pc[p].m_trigger > 0
  \/ \E b \in Brokers :
       \/ Queued(b, p)
       \/ /\ p \in bc[b].m_subscriptions
          /\ p \in bc[b].todo => pc[p].m_response_result # "timeout"

KeptOK(p) == pc[p].status \in {"on", "closing"} /\ p \notin lost => Kept(p)

(* Inductive invariant.                                                                  *)
Inv ==
  /\ TypeOK
  /\ \A b \in Brokers : BrokerOK(b)
  /\ \A p \in Partitions :
       /\ StatusOK(p) /\ KeptOK(p)
       /\ p \notin twice => OneOwner(p) /\ AskedOK(p) /\ SentOK(p)

LEMMA InitInv ==
  ASSUME Init
  PROVE  Inv
<1>1. TypeOK
  BY KafkaConsumerAssumption DEF Init, TypeOK, Child, BrokerConsumer, NewBrokerConsumer, Response, Result,
     NoAnswer, Empty, Offset
<1>2. /\ \A b \in Brokers : BrokerOK(b) /\ \A p \in Partitions : ~At(b, p)
  BY DEF Init, BrokerOK, NewBrokerConsumer, At, Queued
<1>3. \A p \in Partitions :
         /\ pc[p].status = "new" /\ ~pc[p].m_dying /\ pc[p].m_trigger = 0 /\ delivered[p] = <<>>
         /\ pc[p].m_offset = 0
  BY DEF Init
<1>4. \A p \in Partitions : StatusOK(p) /\ KeptOK(p)
  BY <1>2, <1>3 DEF StatusOK, KeptOK
<1>5. \A p \in Partitions : OneOwner(p) /\ AskedOK(p)
  BY <1>2, <1>3 DEF OneOwner, AskedOK, At, Queued
<1>6. \A p \in Partitions : SentOK(p)
  BY <1>3 DEF SentOK, Increasing
<1> QED BY <1>1, <1>2, <1>4, <1>5, <1>6 DEF Inv

(***************************************************************************)
(* The Client                                                                *)
(***************************************************************************)
ClientTypes ==
  cached \in [Partitions -> Brokers] /\ closed \subseteq Brokers /\ closing \subseteq Brokers

(* Lookups cache what was cached or the leaders of now; brokers are closed.        *)
LEMMA LookupTypes ==
  ASSUME TypeOK, NEW p \in Partitions, LookupFails(p), UNCHANGED closing
  PROVE  ClientTypes'
<1>1. /\ cached \in [Partitions -> Brokers] /\ closed \subseteq Brokers /\ closing \subseteq Brokers
      /\ Leaders \in [Partitions -> Brokers] /\ cluster[p].leader \in Brokers /\ cached[p] \in Brokers
  BY DEF TypeOK, Leaders
<1>2. cached' \in {cached, Leaders} /\ (closed' = closed \/ \E c \in Brokers : closed' = closed \cup {c})
  BY <1>1 DEF LookupFails
<1> QED BY <1>1, <1>2 DEF ClientTypes

LEMMA ClientStep ==
  ASSUME TypeOK, Next
  PROVE  ClientTypes'
<1>0. /\ cached \in [Partitions -> Brokers] /\ closed \subseteq Brokers /\ closing \subseteq Brokers
      /\ Leaders \in [Partitions -> Brokers]
  BY DEF TypeOK, Leaders
<1>1. CASE UNCHANGED clientVars
  BY <1>0, <1>1 DEF clientVars, ClientTypes
<1>2. ASSUME NEW p \in Partitions, ConsumePartition(p) \/ Dispatcher(p) PROVE ClientTypes'
  <2>1. UNCHANGED closing /\ (LookupFails(p) \/ (cached' \in {cached, Leaders} /\ UNCHANGED closed))
    BY <1>2 DEF ConsumePartition, Dispatcher, Asked
  <2> QED BY <1>0, <2>1, LookupTypes DEF ClientTypes
<1>3. ASSUME NEW p \in Partitions, NEW b \in Brokers, Handle(b, p) \/ HandleFails(b, p)
      PROVE  ClientTypes'
  <2>1. UNCHANGED closing /\ (LookupFails(p) \/ (cached' \in {cached, Leaders} /\ UNCHANGED closed))
    BY <1>3 DEF Handle, HandleFails, Asked, Looked
  <2> QED BY <1>0, <2>1, LookupTypes DEF ClientTypes
<1>4. ASSUME NEW b \in Brokers, Abort(b) \/ CloseBroker(b) PROVE ClientTypes'
  <2>1. /\ UNCHANGED cached
        /\ closed' = closed \/ closed' = closed \cup {b}
        /\ closing' = closing \/ closing' = closing \cup {b} \/ closing' = closing \ {b}
    BY <1>4 DEF Abort, CloseBroker
  <2> QED BY <1>0, <2>1 DEF ClientTypes
<1>5. CASE RefreshMetadata
  BY <1>0, <1>5 DEF RefreshMetadata, ClientTypes
<1>6. ASSUME NEW p \in Partitions, Produce(p) \/ Trim(p) \/ Move(p) \/ AsyncClose(p)
      PROVE  UNCHANGED clientVars
  BY <1>6 DEF Produce, Trim, Move, AsyncClose
<1>7. ASSUME NEW b \in Brokers, Collect(b) \/ BatchEnds(b) \/ Fetch(b) \/ Answer(b) \/ Feed(b)
      PROVE  UNCHANGED clientVars
  BY <1>7 DEF Collect, BatchEnds, Fetch, Answer, Feed
<1> QED BY <1>1, <1>2, <1>3, <1>4, <1>5, <1>6, <1>7 DEF Next, ConsumerStep

(***************************************************************************)
(* The cluster                                                               *)
(***************************************************************************)

(* What the children are given and where they are does not depend on the        *)
(* cluster until a request is answered.                                           *)
LEMMA ChildrenUnchanged ==
  ASSUME Inv, UNCHANGED <<pc, bc, delivered, lost, twice>>, faults' >= faults, TypeOK'
  PROVE  Inv'
<1>1. \A b \in Brokers : BrokerOK(b)'
  BY DEF Inv, BrokerOK, TypeOK, BrokerConsumer
<1>2. \A p \in Partitions : StatusOK(p)' /\ KeptOK(p)'
  BY DEF Inv, StatusOK, KeptOK, Kept, At, Queued
<1>3. \A p \in Partitions : p \notin twice' => OneOwner(p)' /\ AskedOK(p)' /\ SentOK(p)'
  BY DEF Inv, OneOwner, AskedOK, SentOK, At, Queued
<1> QED BY <1>1, <1>2, <1>3 DEF Inv

LEMMA ClusterStep ==
  ASSUME Inv, NEW p \in Partitions, Produce(p) \/ Trim(p) \/ Move(p)
  PROVE  Inv'
<1>a. ClientTypes'
  BY ClientStep DEF Inv, Next
<1>1. UNCHANGED <<pc, bc, delivered, faults, lost, twice>>
  BY DEF Produce, Trim, Move
<1>2. cluster' \in [Partitions -> [oldest: Offset, next: Offset, leader: Brokers]]
  <2> USE DEF Inv, TypeOK, Offset
  <2>1. CASE Produce(p)
    <3> DEFINE n == cluster[p].next + 1
    <3>1. n \in Nat
      OBVIOUS
    <3>2. cluster' = [cluster EXCEPT ![p].next = n]
      BY <2>1 DEF Produce
    <3> QED BY <3>1, <3>2
  <2>2. CASE Trim(p)
    <3> DEFINE n == cluster[p].oldest + 1
    <3>1. n \in Nat
      OBVIOUS
    <3>2. cluster' = [cluster EXCEPT ![p].oldest = n]
      BY <2>2 DEF Trim
    <3> QED BY <3>1, <3>2
  <2>3. CASE Move(p)
    <3>1. PICK b \in Brokers : cluster' = [cluster EXCEPT ![p].leader = b]
      BY <2>3 DEF Move
    <3> QED BY <3>1
  <2> QED BY <2>1, <2>2, <2>3
<1>3. changes' \in 0..MaxChanges
  BY KafkaConsumerAssumption DEF Produce, Trim, Move, Change, Inv, TypeOK
<1>4. TypeOK'
  BY <1>1, <1>2, <1>3, <1>a DEF Inv, TypeOK, ClientTypes
<1>5. faults' >= faults
  BY <1>1, KafkaConsumerAssumption DEF Inv, TypeOK
<1> QED BY <1>1, <1>4, <1>5, ChildrenUnchanged

(* The Client refreshes its metadata, or a broker is closed after an Abort.        *)
LEMMA ClientOnlyStep ==
  ASSUME Inv, RefreshMetadata \/ \E b \in Brokers : CloseBroker(b)
  PROVE  Inv'
<1>1. UNCHANGED <<pc, bc, delivered, cluster, changes, faults, lost, twice>>
  BY DEF RefreshMetadata, CloseBroker
<1>2. ClientTypes'
  BY DEF RefreshMetadata, CloseBroker, Leaders, Inv, TypeOK, ClientTypes
<1>3. TypeOK' /\ faults' >= faults
  BY <1>1, <1>2, KafkaConsumerAssumption DEF Inv, TypeOK, ClientTypes
<1> QED BY <1>1, <1>3, ChildrenUnchanged

(***************************************************************************)
(* The fields of children and brokers                                        *)
(***************************************************************************)
LEMMA BrokerTypes ==
  ASSUME TypeOK, NEW b \in Brokers
  PROVE  /\ bc[b].gen \in Nat
         /\ bc[b].m_input \subseteq Partitions /\ bc[b].batch \subseteq Partitions
         /\ bc[b].m_new_subscriptions \subseteq Partitions
         /\ bc[b].m_subscriptions \subseteq Partitions
         /\ bc[b].at \in {"top", "asked", "answered", "handle"}
         /\ bc[b].asked \in [Partitions -> Nat]
         /\ bc[b].answer \in [Partitions -> Response]
         /\ bc[b].todo \subseteq Partitions
BY DEF TypeOK, BrokerConsumer, Offset

LEMMA ChildTypes ==
  ASSUME TypeOK, NEW p \in Partitions
  PROVE  /\ pc[p].status \in {"new", "on", "closing", "ended"}
         /\ pc[p].m_offset \in Nat /\ pc[p].start \in Nat
         /\ pc[p].m_dying \in BOOLEAN /\ pc[p].m_trigger \in Nat
         /\ pc[p].m_response_result \in Result
         /\ pc[p].m_broker \in Brokers \X Nat
         /\ delivered[p] \in Seq(Nat)
         /\ cluster[p].oldest \in Nat /\ cluster[p].next \in Nat /\ cluster[p].leader \in Brokers
BY DEF TypeOK, Child, Offset

(* One broker's record, or one child's, is replaced.                               *)
LEMMA SetBroker ==
  ASSUME TypeOK, NEW b \in Brokers, NEW r \in BrokerConsumer, bc' = [bc EXCEPT ![b] = r]
  PROVE  /\ bc' \in [Brokers -> BrokerConsumer] /\ bc'[b] = r
         /\ \A c \in Brokers : c # b => bc'[c] = bc[c]
BY DEF TypeOK

LEMMA SetChild ==
  ASSUME TypeOK, NEW p \in Partitions, NEW r \in Child, pc' = [pc EXCEPT ![p] = r]
  PROVE  /\ pc' \in [Partitions -> Child] /\ pc'[p] = r
         /\ \A q \in Partitions : q # p => pc'[q] = pc[q]
BY DEF TypeOK

(***************************************************************************)
(* SubscriptionManager                                                       *)
(***************************************************************************)
LEMMA CollectStep ==
  ASSUME Inv, NEW b \in Brokers, Collect(b)
  PROVE  Inv'
<1>t. ClientTypes'
  BY ClientStep DEF Inv, Next, ConsumerStep
<1>0. PICK q \in bc[b].m_input :
        bc' = [bc EXCEPT ![b].m_input = @ \ {q}, ![b].batch = @ \cup {q}]
  BY DEF Collect
<1>1. UNCHANGED <<pc, delivered, cluster, changes, faults, lost, twice>>
  BY DEF Collect
<1>2. q \in bc[b].m_input /\ q \in Partitions
  BY <1>0, BrokerTypes DEF Inv
<1>3. /\ bc' \in [Brokers -> BrokerConsumer]
      /\ bc'[b].m_input = bc[b].m_input \ {q} /\ bc'[b].batch = bc[b].batch \cup {q}
      /\ bc'[b].m_new_subscriptions = bc[b].m_new_subscriptions
      /\ bc'[b].m_subscriptions = bc[b].m_subscriptions
      /\ bc'[b].gen = bc[b].gen /\ bc'[b].at = bc[b].at /\ bc'[b].todo = bc[b].todo
      /\ bc'[b].asked = bc[b].asked /\ bc'[b].answer = bc[b].answer
      /\ \A c \in Brokers : c # b => bc'[c] = bc[c]
  <2> DEFINE I == bc[b].m_input \ {q}
             B == bc[b].batch \cup {q}
             r == [bc[b] EXCEPT !.m_input = I, !.batch = B]
  <2>1. I \subseteq Partitions /\ B \subseteq Partitions
    BY <1>2, BrokerTypes DEF Inv
  <2>2. bc' = [bc EXCEPT ![b].m_input = I, ![b].batch = B]
    BY <1>0
  <2> HIDE DEF I, B
  <2>3. bc \in [Brokers -> BrokerConsumer] /\ bc[b] \in BrokerConsumer
    BY DEF Inv, TypeOK
  <2>4. /\ r \in BrokerConsumer /\ r.m_input = I /\ r.batch = B
        /\ r.m_new_subscriptions = bc[b].m_new_subscriptions
        /\ r.m_subscriptions = bc[b].m_subscriptions
        /\ r.gen = bc[b].gen /\ r.at = bc[b].at /\ r.todo = bc[b].todo
        /\ r.asked = bc[b].asked /\ r.answer = bc[b].answer
    BY <2>1, <2>3 DEF BrokerConsumer
  <2>5. bc' = [bc EXCEPT ![b] = r]
    BY <2>2, <2>3 DEF BrokerConsumer
  <2> HIDE DEF r
  <2> QED BY <2>4, <2>5, SetBroker DEF Inv, I, B
<1>4. TypeOK'
  BY <1>t, <1>1, <1>3 DEF Inv, TypeOK, ClientTypes
<1>5. \A c \in Brokers : BrokerOK(c)'
  BY <1>1, <1>3 DEF Inv, BrokerOK
<1>6. \A c \in Brokers, p \in Partitions :
         /\ Queued(c, p)' <=> Queued(c, p)
         /\ bc'[c].m_subscriptions = bc[c].m_subscriptions /\ bc'[c].todo = bc[c].todo
         /\ bc'[c].at = bc[c].at /\ bc'[c].asked = bc[c].asked /\ bc'[c].answer = bc[c].answer
  BY <1>2, <1>3 DEF Queued
<1>7. \A p \in Partitions : StatusOK(p)' /\ KeptOK(p)'
  BY <1>1, <1>6 DEF Inv, StatusOK, KeptOK, Kept, At
<1>8. \A p \in Partitions : p \notin twice' => AskedOK(p)' /\ SentOK(p)'
  BY <1>1, <1>6 DEF Inv, AskedOK, SentOK
<1>9. \A p \in Partitions : p \notin twice' => OneOwner(p)'
  BY <1>1, <1>2, <1>3, <1>6 DEF Inv, OneOwner, At
<1> QED BY <1>4, <1>5, <1>7, <1>8, <1>9 DEF Inv

LEMMA BatchEndsStep ==
  ASSUME Inv, NEW b \in Brokers, BatchEnds(b)
  PROVE  Inv'
<1>t. ClientTypes'
  BY ClientStep DEF Inv, Next, ConsumerStep
<1>1. bc' = [bc EXCEPT ![b].batch = {}, ![b].m_new_subscriptions = bc[b].batch]
  BY DEF BatchEnds
<1>2. /\ UNCHANGED <<pc, delivered, cluster, changes, faults, twice>>
      /\ lost' = lost \cup (bc[b].m_new_subscriptions \ bc[b].batch)
  BY DEF BatchEnds
<1>3. /\ bc' \in [Brokers -> BrokerConsumer]
      /\ bc'[b].m_input = bc[b].m_input /\ bc'[b].batch = {}
      /\ bc'[b].m_new_subscriptions = bc[b].batch
      /\ bc'[b].m_subscriptions = bc[b].m_subscriptions
      /\ bc'[b].gen = bc[b].gen /\ bc'[b].at = bc[b].at /\ bc'[b].todo = bc[b].todo
      /\ bc'[b].asked = bc[b].asked /\ bc'[b].answer = bc[b].answer
      /\ \A c \in Brokers : c # b => bc'[c] = bc[c]
  <2> DEFINE B == bc[b].batch
             r == [bc[b] EXCEPT !.batch = {}, !.m_new_subscriptions = B]
  <2>1. B \subseteq Partitions
    BY BrokerTypes DEF Inv
  <2>2. bc' = [bc EXCEPT ![b].batch = {}, ![b].m_new_subscriptions = B]
    BY <1>1
  <2> HIDE DEF B
  <2>3. bc \in [Brokers -> BrokerConsumer] /\ bc[b] \in BrokerConsumer
    BY DEF Inv, TypeOK
  <2>4. /\ r \in BrokerConsumer /\ r.batch = {} /\ r.m_new_subscriptions = B
        /\ r.m_input = bc[b].m_input
        /\ r.m_subscriptions = bc[b].m_subscriptions
        /\ r.gen = bc[b].gen /\ r.at = bc[b].at /\ r.todo = bc[b].todo
        /\ r.asked = bc[b].asked /\ r.answer = bc[b].answer
    BY <2>1, <2>3 DEF BrokerConsumer
  <2>5. bc' = [bc EXCEPT ![b] = r]
    BY <2>2, <2>3 DEF BrokerConsumer
  <2> HIDE DEF r
  <2> QED BY <2>4, <2>5, SetBroker DEF Inv, B
<1>4. TypeOK'
  BY <1>t, <1>2, <1>3, BrokerTypes DEF Inv, TypeOK, ClientTypes
<1>5. \A c \in Brokers : BrokerOK(c)'
  BY <1>2, <1>3 DEF Inv, BrokerOK
<1>6. \A c \in Brokers, p \in Partitions :
         /\ Queued(c, p)' => Queued(c, p)
         /\ Queued(c, p) /\ p \notin lost' => Queued(c, p)'
         /\ bc'[c].m_subscriptions = bc[c].m_subscriptions /\ bc'[c].todo = bc[c].todo
         /\ bc'[c].at = bc[c].at /\ bc'[c].asked = bc[c].asked /\ bc'[c].answer = bc[c].answer
  BY <1>2, <1>3 DEF Queued
<1>7. \A p \in Partitions : StatusOK(p)' /\ KeptOK(p)'
  BY <1>2, <1>6 DEF Inv, StatusOK, KeptOK, Kept, At
<1>8. \A p \in Partitions : p \notin twice' => AskedOK(p)' /\ SentOK(p)'
  BY <1>2, <1>6 DEF Inv, AskedOK, SentOK
<1>9. \A p \in Partitions : p \notin twice' => OneOwner(p)'
  BY <1>2, <1>3, <1>6 DEF Inv, OneOwner, At
<1> QED BY <1>4, <1>5, <1>7, <1>8, <1>9 DEF Inv

(***************************************************************************)
(* Steps about one child                                                     *)
(***************************************************************************)
ChildOK(p) ==
  /\ StatusOK(p) /\ KeptOK(p)
  /\ p \notin twice => OneOwner(p) /\ AskedOK(p) /\ SentOK(p)

(* A child that a step leaves alone keeps its invariant.                           *)
LEMMA OtherChild ==
  ASSUME Inv, NEW q \in Partitions,
         pc'[q] = pc[q], delivered'[q] = delivered[q],
         q \in lost => q \in lost', q \in twice => q \in twice',
         \A c \in Brokers :
           /\ q \in bc'[c].m_input <=> q \in bc[c].m_input
           /\ q \in bc'[c].batch <=> q \in bc[c].batch
           /\ q \in bc'[c].m_new_subscriptions <=> q \in bc[c].m_new_subscriptions
           /\ q \in bc'[c].m_subscriptions <=> q \in bc[c].m_subscriptions
           /\ q \in bc'[c].todo <=> q \in bc[c].todo
           /\ q \in bc[c].m_subscriptions /\ bc'[c].at \in {"asked", "answered"} =>
                /\ bc'[c].at = bc[c].at
                /\ bc'[c].asked[q] = bc[c].asked[q] /\ bc'[c].answer[q] = bc[c].answer[q]
  PROVE  ChildOK(q)'
<1>0. StatusOK(q) /\ KeptOK(q) /\ (q \notin twice => OneOwner(q) /\ AskedOK(q) /\ SentOK(q))
  BY DEF Inv
<1>1. \A c \in Brokers : (Queued(c, q)' <=> Queued(c, q)) /\ (At(c, q)' <=> At(c, q))
  BY DEF Queued, At
<1>2. StatusOK(q)'
  BY <1>0, <1>1 DEF StatusOK
<1>3. KeptOK(q)'
  BY <1>0, <1>1 DEF KeptOK, Kept
<1>4. OneOwner(q) => OneOwner(q)'
  BY <1>1 DEF OneOwner
<1>5. AskedOK(q) => AskedOK(q)'
  BY DEF AskedOK
<1>6. SentOK(q) => SentOK(q)'
  BY DEF SentOK
<1> QED BY <1>0, <1>2, <1>3, <1>4, <1>5, <1>6 DEF ChildOK

(* p is put into the channel of b.                                                  *)
Offered(b, p) == bc' = [bc EXCEPT ![b].m_input = @ \cup {p}]

LEMMA IntoInput ==
  ASSUME TypeOK, NEW b \in Brokers, NEW p \in Partitions, Offered(b, p)
  PROVE  /\ bc' \in [Brokers -> BrokerConsumer]
         /\ \A c \in Brokers :
              /\ bc'[c].gen = bc[c].gen /\ bc'[c].at = bc[c].at /\ bc'[c].todo = bc[c].todo
              /\ bc'[c].asked = bc[c].asked /\ bc'[c].answer = bc[c].answer
              /\ bc'[c].m_subscriptions = bc[c].m_subscriptions
              /\ bc'[c].batch = bc[c].batch
              /\ bc'[c].m_new_subscriptions = bc[c].m_new_subscriptions
              /\ \A q : q \in bc'[c].m_input <=> q \in bc[c].m_input \/ (c = b /\ q = p)
<1> DEFINE I == bc[b].m_input \cup {p}
           r == [bc[b] EXCEPT !.m_input = I]
<1>1. I \subseteq Partitions
  BY BrokerTypes
<1>2. bc' = [bc EXCEPT ![b].m_input = I]
  BY DEF Offered
<1>a. bc \in [Brokers -> BrokerConsumer]
  BY DEF TypeOK
<1> HIDE DEF I
<1>3. /\ bc' = [bc EXCEPT ![b] = r]
      /\ r \in BrokerConsumer /\ r.m_input = I
      /\ r.batch = bc[b].batch /\ r.m_new_subscriptions = bc[b].m_new_subscriptions
      /\ r.m_subscriptions = bc[b].m_subscriptions
      /\ r.gen = bc[b].gen /\ r.at = bc[b].at /\ r.todo = bc[b].todo
      /\ r.asked = bc[b].asked /\ r.answer = bc[b].answer
  BY <1>1, <1>2, <1>a DEF BrokerConsumer
<1> HIDE DEF r
<1> QED BY <1>3, SetBroker DEF I

LEMMA ConsumePartitionStep ==
  ASSUME Inv, NEW p \in Partitions, ConsumePartition(p)
  PROVE  Inv'
<1>t. ClientTypes'
  BY ClientStep DEF Inv, Next
<1>a. cluster[p].oldest \in Nat /\ cluster[p].next \in Nat
  BY ChildTypes DEF Inv
<1>1. CASE (Fault \/ UNCHANGED faults) /\ UNCHANGED <<pc, bc, delivered, cluster, changes, lost, twice>>
  <2>1. faults' \in 0..MaxFaults /\ faults' >= faults
    BY <1>1, KafkaConsumerAssumption DEF Fault, Inv, TypeOK
  <2>2. TypeOK'
    BY <1>t, <1>1, <2>1 DEF Inv, TypeOK, ClientTypes
  <2> QED BY <1>1, <2>1, <2>2, ChildrenUnchanged
<1>2. ASSUME NEW b \in Brokers, NEW o \in cluster[p].oldest..cluster[p].next,
             pc' = [pc EXCEPT ![p].status = "on", ![p].m_offset = o, ![p].start = o,
                              ![p].m_broker = <<b, bc[b].gen>>],
             bc' = [bc EXCEPT ![b].m_input = @ \cup {p}],
             UNCHANGED <<delivered, cluster, changes, faults, lost, twice>>
      PROVE  Inv'
  <2>0. /\ pc[p].status = "new" /\ pc[p].m_trigger = 0 /\ delivered[p] = <<>>
        /\ \A c \in Brokers : ~At(c, p)
    BY DEF ConsumePartition, Inv, StatusOK
  <2>1. o \in Nat
    BY <1>a, <1>2
  <2>2. /\ pc' \in [Partitions -> Child]
        /\ pc'[p].status = "on" /\ pc'[p].m_offset = o /\ pc'[p].start = o
        /\ pc'[p].m_dying = pc[p].m_dying /\ pc'[p].m_trigger = pc[p].m_trigger
        /\ pc'[p].m_response_result = pc[p].m_response_result
        /\ \A q \in Partitions : q # p => pc'[q] = pc[q]
    <3> DEFINE g == <<b, bc[b].gen>>
               r == [pc[p] EXCEPT !.status = "on", !.m_offset = o, !.start = o, !.m_broker = g]
    <3>1. g \in Brokers \X Nat
      BY BrokerTypes DEF Inv
    <3>2. pc' = [pc EXCEPT ![p].status = "on", ![p].m_offset = o, ![p].start = o, ![p].m_broker = g]
      BY <1>2
    <3> HIDE DEF g
    <3>3. pc \in [Partitions -> Child] /\ pc[p] \in Child
      BY DEF Inv, TypeOK
    <3>4. /\ r \in Child /\ r.status = "on" /\ r.m_offset = o /\ r.start = o
          /\ r.m_dying = pc[p].m_dying /\ r.m_trigger = pc[p].m_trigger
          /\ r.m_response_result = pc[p].m_response_result
      BY <2>1, <3>1, <3>3 DEF Child, Offset
    <3>5. pc' = [pc EXCEPT ![p] = r]
      BY <3>2, <3>3 DEF Child
    <3> HIDE DEF r
    <3> QED BY <3>4, <3>5, SetChild DEF Inv
  <2>3. bc' \in [Brokers -> BrokerConsumer] /\ \A c \in Brokers :
          /\ bc'[c].gen = bc[c].gen /\ bc'[c].at = bc[c].at /\ bc'[c].todo = bc[c].todo
          /\ bc'[c].asked = bc[c].asked /\ bc'[c].answer = bc[c].answer
          /\ bc'[c].m_subscriptions = bc[c].m_subscriptions
          /\ bc'[c].batch = bc[c].batch
          /\ bc'[c].m_new_subscriptions = bc[c].m_new_subscriptions
          /\ \A q : q \in bc'[c].m_input <=> q \in bc[c].m_input \/ (c = b /\ q = p)
    <3>1. TypeOK /\ Offered(b, p)
      BY <1>2 DEF Inv, Offered
    <3> QED BY <3>1, IntoInput
  <2>4. TypeOK'
    BY <1>t, <1>2, <2>2, <2>3 DEF Inv, TypeOK, ClientTypes
  <2>5. \A c \in Brokers : BrokerOK(c)'
    BY <1>2, <2>3 DEF Inv, BrokerOK
  <2>6. \A q \in Partitions : q # p => ChildOK(q)'
    BY <1>2, <2>2, <2>3, OtherChild
  <2>7. Queued(b, p)' /\ \A c \in Brokers : At(c, p)' => c = b
    BY <1>a, <2>0, <2>3 DEF At, Queued
  <2>8. StatusOK(p)' /\ KeptOK(p)'
    BY <1>a, <2>0, <2>2, <2>7 DEF Inv, StatusOK, KeptOK, Kept
  <2>9. OneOwner(p)' /\ AskedOK(p)'
    BY <1>a, <2>0, <2>2, <2>3, <2>7 DEF OneOwner, AskedOK, At, Queued
  <2>10. SentOK(p)'
    BY <1>2, <2>0, <2>1, <2>2 DEF SentOK, Increasing
  <2> QED BY <2>4, <2>5, <2>6, <2>8, <2>9, <2>10 DEF Inv, ChildOK
<1> QED BY <1>1, <1>2 DEF ConsumePartition, LookupFails

LEMMA AsyncCloseStep ==
  ASSUME Inv, NEW p \in Partitions, AsyncClose(p)
  PROVE  Inv'
<1>t. ClientTypes'
  BY ClientStep DEF Inv, Next
<1>0. /\ pc[p].status = "on"
      /\ pc' = [pc EXCEPT ![p].m_dying = TRUE, ![p].status = "closing"]
      /\ UNCHANGED <<bc, delivered, cluster, faults, lost, twice>>
  BY DEF AsyncClose
<1>1. changes' \in 0..MaxChanges
  BY KafkaConsumerAssumption DEF AsyncClose, Change, Inv, TypeOK
<1>2. /\ pc' \in [Partitions -> Child]
      /\ pc'[p].status = "closing" /\ pc'[p].m_offset = pc[p].m_offset
      /\ pc'[p].m_trigger = pc[p].m_trigger
      /\ pc'[p].m_response_result = pc[p].m_response_result
      /\ \A q \in Partitions : q # p => pc'[q] = pc[q]
  <2> DEFINE r == [pc[p] EXCEPT !.m_dying = TRUE, !.status = "closing"]
  <2>1. /\ pc' = [pc EXCEPT ![p] = r]
        /\ r \in Child /\ r.status = "closing" /\ r.m_offset = pc[p].m_offset
        /\ r.m_trigger = pc[p].m_trigger
        /\ r.m_response_result = pc[p].m_response_result
    BY <1>0 DEF Inv, TypeOK, Child
  <2> HIDE DEF r
  <2> QED BY <2>1, SetChild DEF Inv
<1>3. TypeOK'
  BY <1>t, <1>0, <1>1, <1>2 DEF Inv, TypeOK, ClientTypes
<1>4. \A c \in Brokers : BrokerOK(c)'
  BY <1>0 DEF Inv, BrokerOK
<1>5. \A q \in Partitions : q # p => ChildOK(q)'
  BY <1>0, <1>2, OtherChild
<1>6. StatusOK(p)' /\ KeptOK(p)'
  BY <1>0, <1>2 DEF Inv, StatusOK, KeptOK, Kept, At, Queued
<1>7. ASSUME p \notin twice PROVE OneOwner(p)' /\ AskedOK(p)' /\ SentOK(p)'
  <2>1. OneOwner(p) /\ AskedOK(p) /\ SentOK(p)
    BY <1>7 DEF Inv
  <2>2. \A c \in Brokers : (Queued(c, p)' <=> Queued(c, p)) /\ (At(c, p)' <=> At(c, p))
    BY <1>0 DEF Queued, At
  <2>3. OneOwner(p)'
    BY <1>0, <1>2, <2>1, <2>2 DEF OneOwner
  <2>4. AskedOK(p)'
    BY <1>0, <1>2, <2>1 DEF AskedOK
  <2>5. SentOK(p)'
    BY <1>0, <1>2, <2>1 DEF SentOK
  <2> QED BY <2>3, <2>4, <2>5
<1> QED BY <1>0, <1>3, <1>4, <1>5, <1>6, <1>7 DEF Inv, ChildOK

LEMMA DispatcherStep ==
  ASSUME Inv, NEW p \in Partitions, Dispatcher(p)
  PROVE  Inv'
<1>t. ClientTypes'
  BY ClientStep DEF Inv, Next
<1> DEFINE n == pc[p].m_trigger - 1
<1>a. n \in Nat /\ pc[p].m_trigger > 0
  BY ChildTypes DEF Inv, Dispatcher
<1>b. pc[p].status # "new" /\ (pc[p].m_trigger <= 1 => n = 0)
  BY <1>a, ChildTypes DEF Inv, StatusOK
<1>1. CASE (Fault \/ UNCHANGED faults) /\ UNCHANGED <<pc, bc, delivered, cluster, changes, lost, twice>>
  <2>1. faults' \in 0..MaxFaults /\ faults' >= faults
    BY <1>1, KafkaConsumerAssumption DEF Fault, Inv, TypeOK
  <2>2. TypeOK'
    BY <1>t, <1>1, <2>1 DEF Inv, TypeOK, ClientTypes
  <2> QED BY <1>1, <2>1, <2>2, ChildrenUnchanged
<1>2. CASE /\ pc' = [pc EXCEPT ![p].m_trigger = @ - 1, ![p].m_dying = FALSE, ![p].status = "ended"]
           /\ UNCHANGED <<bc, delivered, cluster, changes, faults, lost, twice>>
  <2>1. /\ pc' \in [Partitions -> Child]
        /\ pc'[p].status = "ended" /\ pc'[p].m_offset = pc[p].m_offset
        /\ pc'[p].m_trigger = n
        /\ pc'[p].m_response_result = pc[p].m_response_result
        /\ \A q \in Partitions : q # p => pc'[q] = pc[q]
    <3> DEFINE r == [pc[p] EXCEPT !.m_trigger = n, !.m_dying = FALSE, !.status = "ended"]
    <3>1. pc' = [pc EXCEPT ![p].m_trigger = n, ![p].m_dying = FALSE, ![p].status = "ended"]
      BY <1>2
    <3> HIDE DEF n
    <3>2. pc \in [Partitions -> Child] /\ pc[p] \in Child
      BY DEF Inv, TypeOK
    <3>3. /\ r \in Child /\ r.status = "ended" /\ r.m_offset = pc[p].m_offset
          /\ r.m_trigger = n
          /\ r.m_response_result = pc[p].m_response_result
      BY <1>a, <3>2 DEF Child
    <3>4. pc' = [pc EXCEPT ![p] = r]
      BY <3>1, <3>2 DEF Child
    <3> HIDE DEF r
    <3> QED BY <3>3, <3>4, SetChild DEF Inv
  <2>2. TypeOK'
    BY <1>t, <1>2, <2>1 DEF Inv, TypeOK, ClientTypes
  <2>3. \A c \in Brokers : BrokerOK(c)'
    BY <1>2 DEF Inv, BrokerOK
  <2>4. \A q \in Partitions : q # p => ChildOK(q)'
    BY <1>2, <2>1, OtherChild
  <2>5. StatusOK(p)' /\ KeptOK(p)'
    BY <2>1 DEF StatusOK, KeptOK
  <2>6. p \notin twice' => AskedOK(p)' /\ SentOK(p)'
    BY <1>2, <2>1 DEF Inv, AskedOK, SentOK
  <2>7. ASSUME p \notin twice PROVE OneOwner(p)'
    <3>1. OneOwner(p) /\ n = 0
      BY <1>b, <2>7 DEF Inv, OneOwner
    <3>2. \A c \in Brokers : (Queued(c, p)' <=> Queued(c, p)) /\ (At(c, p)' <=> At(c, p))
      BY <1>2 DEF Queued, At
    <3> QED BY <1>2, <2>1, <3>1, <3>2 DEF OneOwner
  <2> QED BY <1>2, <2>2, <2>3, <2>4, <2>5, <2>6, <2>7 DEF Inv, ChildOK
<1>3. ASSUME NEW b \in Brokers,
             pc' = [pc EXCEPT ![p].m_trigger = @ - 1],
             bc' = [bc EXCEPT ![b].m_input = @ \cup {p}],
             UNCHANGED <<delivered, cluster, changes, faults, lost, twice>>
      PROVE  Inv'
  <2>1. /\ pc' \in [Partitions -> Child]
        /\ pc'[p].status = pc[p].status /\ pc'[p].m_offset = pc[p].m_offset
        /\ pc'[p].m_dying = pc[p].m_dying /\ pc'[p].start = pc[p].start
        /\ pc'[p].m_trigger = n
        /\ pc'[p].m_response_result = pc[p].m_response_result
        /\ \A q \in Partitions : q # p => pc'[q] = pc[q]
    <3> DEFINE r == [pc[p] EXCEPT !.m_trigger = n]
    <3>1. pc' = [pc EXCEPT ![p].m_trigger = n]
      BY <1>3
    <3> HIDE DEF n
    <3>2. pc \in [Partitions -> Child] /\ pc[p] \in Child
      BY DEF Inv, TypeOK
    <3>3. /\ r \in Child /\ r.status = pc[p].status /\ r.m_offset = pc[p].m_offset
          /\ r.m_dying = pc[p].m_dying /\ r.start = pc[p].start /\ r.m_trigger = n
          /\ r.m_response_result = pc[p].m_response_result
      BY <1>a, <3>2 DEF Child
    <3>4. pc' = [pc EXCEPT ![p] = r]
      BY <3>1, <3>2 DEF Child
    <3> HIDE DEF r
    <3> QED BY <3>3, <3>4, SetChild DEF Inv
  <2>3. bc' \in [Brokers -> BrokerConsumer] /\ \A c \in Brokers :
          /\ bc'[c].gen = bc[c].gen /\ bc'[c].at = bc[c].at /\ bc'[c].todo = bc[c].todo
          /\ bc'[c].asked = bc[c].asked /\ bc'[c].answer = bc[c].answer
          /\ bc'[c].m_subscriptions = bc[c].m_subscriptions
          /\ bc'[c].batch = bc[c].batch
          /\ bc'[c].m_new_subscriptions = bc[c].m_new_subscriptions
          /\ \A q : q \in bc'[c].m_input <=> q \in bc[c].m_input \/ (c = b /\ q = p)
    <3>1. TypeOK /\ Offered(b, p)
      BY <1>3 DEF Inv, Offered
    <3> QED BY <3>1, IntoInput
  <2> HIDE DEF n
  <2>4. TypeOK'
    BY <1>t, <1>3, <2>1, <2>3 DEF Inv, TypeOK, ClientTypes
  <2>5. \A c \in Brokers : BrokerOK(c)'
    BY <1>3, <2>3 DEF Inv, BrokerOK
  <2>6. \A q \in Partitions : q # p => ChildOK(q)'
    BY <1>3, <2>1, <2>3, OtherChild
  <2>7. StatusOK(p)' /\ KeptOK(p)'
    <3>1. Queued(b, p)'
      BY <1>a, <2>3 DEF Queued
    <3> QED BY <1>a, <1>b, <2>1, <3>1 DEF Inv, StatusOK, KeptOK, Kept
  <2>8. ASSUME p \notin twice PROVE OneOwner(p)' /\ AskedOK(p)'
    <3>1. \A c \in Brokers : ~At(c, p)
      BY <1>a, <2>8 DEF Inv, OneOwner
    <3>2. n = 0
      BY <1>b, <2>8 DEF Inv, OneOwner
    <3> QED BY <1>a, <2>1, <2>3, <3>1, <3>2 DEF OneOwner, AskedOK, At, Queued
  <2>9. SentOK(p) => SentOK(p)'
    BY <1>3, <2>1 DEF SentOK
  <2> QED BY <1>3, <2>4, <2>5, <2>6, <2>7, <2>8, <2>9 DEF Inv, ChildOK
<1> QED BY <1>1, <1>2, <1>3 DEF Dispatcher, LookupFails

(***************************************************************************)
(* SubscriptionConsumer                                                      *)
(***************************************************************************)

(* What trigger leaves of a child.                                                  *)
LEMMA TriggeredFields ==
  ASSUME NEW q \in Child
  PROVE  /\ Triggered(q) \in Child
         /\ Triggered(q).m_trigger = q.m_trigger + 1 /\ q.m_trigger \in Nat
         /\ Triggered(q).status = q.status /\ Triggered(q).m_offset = q.m_offset
         /\ Triggered(q).start = q.start /\ Triggered(q).m_dying = q.m_dying
         /\ Triggered(q).m_response_result = q.m_response_result
<1> DEFINE n == q.m_trigger + 1
<1>1. n \in Nat /\ q.m_trigger \in Nat
  BY DEF Child
<1>2. Triggered(q) = [q EXCEPT !.m_trigger = n]
  BY DEF Triggered
<1> HIDE DEF n
<1>3. /\ Triggered(q) \in Child
      /\ Triggered(q).m_trigger = n
      /\ Triggered(q).status = q.status /\ Triggered(q).m_offset = q.m_offset
      /\ Triggered(q).start = q.start /\ Triggered(q).m_dying = q.m_dying
      /\ Triggered(q).m_response_result = q.m_response_result
  BY <1>1, <1>2 DEF Child
<1> QED BY <1>1, <1>3 DEF n

LEMMA FetchStep ==
  ASSUME Inv, NEW b \in Brokers, Fetch(b)
  PROVE  Inv'
<1>t. ClientTypes'
  BY ClientStep DEF Inv, Next, ConsumerStep
<1> DEFINE all == bc[b].m_subscriptions \cup bc[b].m_new_subscriptions
           dying == {p \in all : pc[p].m_dying}
           S == all \ dying
           a == IF all = dying THEN "top" ELSE "asked"
           k == [p \in Partitions |-> IF p \in all \ dying THEN FetchOffset(pc[p]) ELSE 0]
<1>0. /\ bc[b].at = "top" /\ bc[b].todo = {}
      /\ UNCHANGED <<delivered, cluster, changes, faults, lost, twice>>
  BY DEF Fetch, Inv, BrokerOK
<1>a. all \subseteq Partitions
  BY BrokerTypes DEF Inv
<1>1. /\ pc' \in [Partitions -> Child]
      /\ \A p \in Partitions : p \notin dying => pc'[p] = pc[p]
      /\ \A p \in dying :
           /\ pc'[p].m_trigger = pc[p].m_trigger + 1 /\ ~pc'[p].m_dying
           /\ pc'[p].status = pc[p].status /\ pc'[p].m_offset = pc[p].m_offset
           /\ pc'[p].start = pc[p].start
           /\ pc'[p].m_response_result = pc[p].m_response_result
  <2>1. pc' = [p \in Partitions |-> IF p \in dying THEN [Triggered(pc[p]) EXCEPT !.m_dying = FALSE]
                                    ELSE pc[p]]
    BY DEF Fetch
  <2>2. \A p \in Partitions : pc[p] \in Child
    BY DEF Inv, TypeOK
  <2>3. ASSUME NEW q \in Child
        PROVE  LET r == [q EXCEPT !.m_dying = FALSE] IN
               /\ r \in Child /\ ~r.m_dying /\ r.m_trigger = q.m_trigger
               /\ r.status = q.status /\ r.m_offset = q.m_offset
               /\ r.start = q.start /\ r.m_response_result = q.m_response_result
    BY DEF Child
  <2>4. \A p \in dying : p \in Partitions
    BY <1>a
  <2> HIDE DEF dying
  <2>5. ASSUME NEW p \in dying
        PROVE  /\ pc'[p] \in Child
               /\ pc'[p].m_trigger = pc[p].m_trigger + 1 /\ ~pc'[p].m_dying
               /\ pc'[p].status = pc[p].status /\ pc'[p].m_offset = pc[p].m_offset
               /\ pc'[p].start = pc[p].start
               /\ pc'[p].m_response_result = pc[p].m_response_result
    <3> DEFINE t == Triggered(pc[p])
    <3>1. t \in Child /\ t.m_trigger = pc[p].m_trigger + 1
          /\ t.status = pc[p].status /\ t.m_offset = pc[p].m_offset
          /\ t.start = pc[p].start /\ t.m_response_result = pc[p].m_response_result
      BY <2>2, <2>4, TriggeredFields
    <3>2. pc'[p] = [t EXCEPT !.m_dying = FALSE]
      BY <2>1, <2>4
    <3> HIDE DEF t
    <3> QED BY <2>3, <3>1, <3>2
  <2> QED BY <2>1, <2>2, <2>5
<1>2. /\ bc' \in [Brokers -> BrokerConsumer]
      /\ bc'[b].m_input = bc[b].m_input /\ bc'[b].batch = bc[b].batch
      /\ bc'[b].m_new_subscriptions = {} /\ bc'[b].m_subscriptions = S
      /\ bc'[b].gen = bc[b].gen /\ bc'[b].at = a /\ bc'[b].todo = bc[b].todo
      /\ bc'[b].asked = k /\ bc'[b].answer = bc[b].answer
      /\ \A c \in Brokers : c # b => bc'[c] = bc[c]
  <2> DEFINE r == [bc[b] EXCEPT !.m_new_subscriptions = {}, !.m_subscriptions = S, !.at = a, !.asked = k]
  <2>0. bc \in [Brokers -> BrokerConsumer] /\ bc[b] \in BrokerConsumer
    BY DEF Inv, TypeOK
  <2>1. S \subseteq Partitions /\ a \in {"top", "asked"} /\ k \in [Partitions -> Offset]
    <3>1. \A p \in Partitions : FetchOffset(pc[p]) \in Nat
      BY ChildTypes DEF Inv, FetchOffset
    <3>2. S \subseteq Partitions /\ a \in {"top", "asked"}
      BY <1>a
    <3> HIDE DEF all, dying
    <3>3. k \in [Partitions -> Offset]
      BY <3>1, Zenon DEF Offset
    <3> QED BY <3>2, <3>3
  <2>2. bc' = [bc EXCEPT ![b].m_new_subscriptions = {}, ![b].m_subscriptions = S,
                         ![b].at = a, ![b].asked = k]
    BY DEF Fetch
  <2> HIDE DEF S, a, k
  <2>3. /\ r \in BrokerConsumer
        /\ r.m_input = bc[b].m_input /\ r.batch = bc[b].batch
        /\ r.m_new_subscriptions = {} /\ r.m_subscriptions = S
        /\ r.gen = bc[b].gen /\ r.at = a /\ r.todo = bc[b].todo
        /\ r.asked = k /\ r.answer = bc[b].answer
    BY <2>0, <2>1 DEF BrokerConsumer
  <2>4. bc' = [bc EXCEPT ![b] = r]
    BY <2>0, <2>2 DEF BrokerConsumer
  <2> HIDE DEF r
  <2> QED BY <2>3, <2>4, SetBroker DEF Inv
<1>3. TypeOK'
  BY <1>t, <1>0, <1>1, <1>2 DEF Inv, TypeOK, ClientTypes
<1>4. \A c \in Brokers : BrokerOK(c)'
  BY <1>0, <1>2 DEF Inv, BrokerOK
<1>5. ASSUME NEW q \in Partitions, q \notin all PROVE ChildOK(q)'
  <2>1. pc'[q] = pc[q]
    BY <1>1, <1>5
  <2> QED BY <1>0, <1>2, <1>5, <2>1, OtherChild
<1>6. ASSUME NEW q \in Partitions, q \in all PROVE ChildOK(q)'
  <2>0. At(b, q) /\ pc[q].m_trigger \in Nat /\ pc[q].status # "new" /\ pc'[q].status = pc[q].status
    BY <1>1, <1>6, ChildTypes DEF At, Queued, Inv, StatusOK
  <2>1. StatusOK(q)'
    <3>1. pc'[q].m_dying => pc[q].m_dying
      BY <1>1, <1>6
    <3> QED BY <2>0, <3>1 DEF Inv, StatusOK
  <2>2. Kept(q)'
    <3>1. CASE q \in dying
      BY <1>1, <2>0, <3>1 DEF Kept
    <3>2. CASE q \notin dying
      BY <1>0, <1>2, <1>6, <3>2 DEF Kept
    <3> QED BY <3>1, <3>2
  <2>3. ASSUME q \notin twice PROVE OneOwner(q)' /\ AskedOK(q)' /\ SentOK(q)'
    <3>1. OneOwner(q) /\ SentOK(q)
      BY <2>3 DEF Inv
    <3>2. /\ pc[q].m_trigger = 0 /\ (\A c \in Brokers : c # b => ~At(c, q))
          /\ q \notin bc[b].m_input /\ q \notin bc[b].batch
      BY <1>0, <1>6, <2>0, <3>1 DEF OneOwner, Queued
    <3>3. /\ q \notin bc'[b].m_input /\ q \notin bc'[b].batch /\ q \notin bc'[b].m_new_subscriptions
          /\ \A c \in Brokers : c # b => ~At(c, q)'
      BY <1>2, <3>2 DEF At, Queued
    <3>4. SentOK(q)'
      BY <1>0, <1>1, <3>1 DEF SentOK
    <3>5. CASE q \in dying
      <4>1. \A c \in Brokers : ~At(c, q)'
        BY <1>2, <3>3, <3>5 DEF At, Queued
      <4>2. pc'[q].m_trigger = 1
        BY <1>1, <3>2, <3>5
      <4> QED BY <3>4, <4>1, <4>2 DEF OneOwner, AskedOK, At, Queued
    <3>6. CASE q \notin dying
      <4>1. q \in bc'[b].m_subscriptions /\ bc'[b].at = "asked" /\ bc'[b].asked[q] = pc[q].m_offset
        BY <1>2, <1>6, <3>6 DEF FetchOffset
      <4>2. pc'[q] = pc[q]
        BY <1>1, <3>6
      <4>3. OneOwner(q)'
        BY <3>2, <3>3, <4>1, <4>2 DEF OneOwner, At, Queued
      <4>4. AskedOK(q)'
        BY <3>3, <4>1, <4>2 DEF AskedOK, At
      <4> QED BY <3>4, <4>3, <4>4
    <3> QED BY <3>5, <3>6
  <2> QED BY <1>0, <2>1, <2>2, <2>3 DEF ChildOK, KeptOK
<1> QED BY <1>3, <1>4, <1>5, <1>6 DEF Inv, ChildOK

(* The records a broker sends for offset o begin at or before o and end after it.   *)
LEMMA AnswersOK ==
  ASSUME TypeOK, NEW b \in Brokers, NEW p \in Partitions, NEW o \in Nat, NEW x \in Answers(b, p, o)
  PROVE  x \in Response /\ (x.end > x.first => x.first <= o /\ o < x.end)
<1>1. \A r \in Result : Empty(r) \in Response /\ ~(Empty(r).end > Empty(r).first)
  BY DEF Empty, Response, Offset
<1>2. {"moved", "range", "ok", "timeout"} \subseteq Result
  BY DEF Result
<1>3. CASE x \in {Empty("moved"), Empty("range"), Empty("ok")}
  BY <1>1, <1>2, <1>3
<1>4. CASE /\ o < cluster[p].next /\ ~(o < cluster[p].oldest)
           /\ x \in [result: {"ok", "timeout"}, first: cluster[p].oldest..o, end: (o + 1)..cluster[p].next]
  <2>1. cluster[p].oldest \in Nat /\ cluster[p].next \in Nat
    BY ChildTypes
  <2>2. x = [result |-> x.result, first |-> x.first, end |-> x.end]
        /\ x.result \in {"ok", "timeout"} /\ x.first \in cluster[p].oldest..o
        /\ x.end \in (o + 1)..cluster[p].next
    BY <1>4
  <2>3. x.first \in Nat /\ x.end \in Nat /\ x.first <= o /\ o < x.end
    BY <2>1, <2>2
  <2> QED BY <1>2, <2>2, <2>3 DEF Response, Offset
<1> QED BY <1>3, <1>4, ChildTypes DEF Answers

LEMMA AnswerStep ==
  ASSUME Inv, NEW b \in Brokers, Answer(b)
  PROVE  Inv'
<1>t. ClientTypes'
  BY ClientStep DEF Inv, Next, ConsumerStep
<1> DEFINE subs == bc[b].m_subscriptions
<1>0. /\ bc[b].at = "asked" /\ bc[b].todo = {} /\ TypeOK
      /\ UNCHANGED <<pc, delivered, cluster, changes, lost, twice>>
  BY DEF Answer, Inv, BrokerOK
<1>a. subs \subseteq Partitions /\ bc[b].asked \in [Partitions -> Nat]
  BY BrokerTypes DEF Inv
<1>b. faults' \in 0..MaxFaults /\ faults' >= faults
  BY KafkaConsumerAssumption DEF Answer, Fault, Inv, TypeOK
<1>1. PICK bad \in SUBSET subs,
           f \in [subs -> {Empty("error")} \cup UNION {Answers(b, p, bc[b].asked[p]) : p \in subs}] :
        /\ \A p \in subs : f[p] \in IF p \in bad THEN {Empty("error")} ELSE Answers(b, p, bc[b].asked[p])
        /\ bc' = [bc EXCEPT ![b].at = "answered",
                            ![b].answer = [p \in Partitions |-> IF p \in subs THEN f[p] ELSE NoAnswer[p]]]
  BY DEF Answer
<1> DEFINE F == [p \in Partitions |-> IF p \in subs THEN f[p] ELSE NoAnswer[p]]
<1>2. \A p \in subs :
        /\ f[p] \in Response
        /\ f[p].end > f[p].first => f[p].first <= bc[b].asked[p] /\ bc[b].asked[p] < f[p].end
  <2> SUFFICES ASSUME NEW p \in subs
               PROVE  /\ f[p] \in Response
                      /\ f[p].end > f[p].first =>
                           f[p].first <= bc[b].asked[p] /\ bc[b].asked[p] < f[p].end
    OBVIOUS
  <2>1. CASE f[p] = Empty("error")
    BY <2>1 DEF Empty, Response, Result, Offset
  <2>2. CASE f[p] \in Answers(b, p, bc[b].asked[p])
    <3>1. p \in Partitions /\ bc[b].asked[p] \in Nat
      BY <1>a
    <3> QED BY <1>0, <2>2, <3>1, AnswersOK
  <2> QED BY <1>1, <2>1, <2>2
<1>3. F \in [Partitions -> Response] /\ \A p \in subs : F[p] = f[p]
  <2>1. \A p \in Partitions : NoAnswer[p] \in Response
    BY DEF NoAnswer, Empty, Response, Result, Offset
  <2> HIDE DEF subs
  <2> QED BY <1>2, <1>a, <2>1
<1>4. /\ bc' \in [Brokers -> BrokerConsumer]
      /\ bc'[b].m_input = bc[b].m_input /\ bc'[b].batch = bc[b].batch
      /\ bc'[b].m_new_subscriptions = bc[b].m_new_subscriptions
      /\ bc'[b].m_subscriptions = bc[b].m_subscriptions
      /\ bc'[b].gen = bc[b].gen /\ bc'[b].at = "answered" /\ bc'[b].todo = bc[b].todo
      /\ bc'[b].asked = bc[b].asked /\ bc'[b].answer = F
      /\ \A c \in Brokers : c # b => bc'[c] = bc[c]
  <2> DEFINE r == [bc[b] EXCEPT !.at = "answered", !.answer = F]
  <2>0. bc \in [Brokers -> BrokerConsumer] /\ bc[b] \in BrokerConsumer
    BY DEF Inv, TypeOK
  <2>2. bc' = [bc EXCEPT ![b].at = "answered", ![b].answer = F]
    BY <1>1
  <2> HIDE DEF F
  <2>3. /\ r \in BrokerConsumer
        /\ r.m_input = bc[b].m_input /\ r.batch = bc[b].batch
        /\ r.m_new_subscriptions = bc[b].m_new_subscriptions
        /\ r.m_subscriptions = bc[b].m_subscriptions
        /\ r.gen = bc[b].gen /\ r.at = "answered" /\ r.todo = bc[b].todo
        /\ r.asked = bc[b].asked /\ r.answer = F
    BY <1>3, <2>0 DEF BrokerConsumer
  <2>4. bc' = [bc EXCEPT ![b] = r]
    BY <2>0, <2>2 DEF BrokerConsumer
  <2> HIDE DEF r
  <2> QED BY <2>3, <2>4, SetBroker DEF Inv
<1> HIDE DEF F
<1>5. TypeOK'
  BY <1>t, <1>0, <1>b, <1>4 DEF TypeOK, ClientTypes
<1>6. \A c \in Brokers : BrokerOK(c)'
  BY <1>0, <1>4 DEF Inv, BrokerOK
<1>7. \A c \in Brokers :
         /\ bc'[c].m_input = bc[c].m_input /\ bc'[c].batch = bc[c].batch
         /\ bc'[c].m_new_subscriptions = bc[c].m_new_subscriptions
         /\ bc'[c].m_subscriptions = bc[c].m_subscriptions
         /\ bc'[c].todo = bc[c].todo
  BY <1>4
<1>8. ASSUME NEW q \in Partitions, q \notin subs PROVE ChildOK(q)'
  BY <1>0, <1>4, <1>7, <1>8, OtherChild
<1>9. ASSUME NEW q \in Partitions, q \in subs PROVE ChildOK(q)'
  <2>1. StatusOK(q)' /\ KeptOK(q)'
    BY <1>0, <1>7 DEF Inv, StatusOK, KeptOK, Kept, At, Queued
  <2>2. ASSUME q \notin twice PROVE OneOwner(q)' /\ SentOK(q)'
    <3>1. \A c \in Brokers : (Queued(c, q)' <=> Queued(c, q)) /\ (At(c, q)' <=> At(c, q))
      BY <1>7 DEF Queued, At
    <3>2. OneOwner(q)'
      BY <1>0, <1>7, <2>2, <3>1 DEF Inv, OneOwner
    <3>3. SentOK(q)'
      BY <1>0, <2>2 DEF Inv, SentOK
    <3> QED BY <3>2, <3>3
  <2>3. ASSUME q \notin twice PROVE AskedOK(q)'
    <3>1. AskedOK(q) /\ bc[b].asked[q] = pc[q].m_offset
      BY <1>0, <1>9, <2>3 DEF Inv, AskedOK
    <3>2. bc'[b].answer[q] = f[q]
      BY <1>3, <1>4, <1>9
    <3> QED BY <1>0, <1>2, <1>4, <1>9, <3>1, <3>2 DEF AskedOK
  <2> QED BY <1>0, <2>1, <2>2, <2>3 DEF ChildOK
<1> QED BY <1>5, <1>6, <1>8, <1>9 DEF Inv, ChildOK

(* HandleResponses is through with p, and the children left at b are S.              *)
HandledAt(b, p, S) ==
  /\ bc' \in [Brokers -> BrokerConsumer]
  /\ bc'[b].todo = bc[b].todo \ {p}
  /\ bc'[b].at = IF bc[b].todo = {p} THEN "top" ELSE bc[b].at
  /\ bc'[b].m_subscriptions = S
  /\ bc'[b].m_input = bc[b].m_input /\ bc'[b].batch = bc[b].batch
  /\ bc'[b].m_new_subscriptions = bc[b].m_new_subscriptions
  /\ bc'[b].gen = bc[b].gen /\ bc'[b].asked = bc[b].asked /\ bc'[b].answer = bc[b].answer
  /\ \A c \in Brokers : c # b => bc'[c] = bc[c]

LEMMA HandledFields ==
  ASSUME TypeOK, NEW b \in Brokers, NEW p \in Partitions, NEW S \in SUBSET Partitions,
         \/ /\ bc' = [bc EXCEPT ![b].todo = @ \ {p}, ![b].at = IF bc[b].todo = {p} THEN "top" ELSE @]
            /\ S = bc[b].m_subscriptions
         \/ bc' = [bc EXCEPT ![b].todo = @ \ {p}, ![b].at = IF bc[b].todo = {p} THEN "top" ELSE @,
                             ![b].m_subscriptions = S]
  PROVE  HandledAt(b, p, S)
<1> DEFINE T == bc[b].todo \ {p}
           a == IF bc[b].todo = {p} THEN "top" ELSE bc[b].at
           r == [bc[b] EXCEPT !.todo = T, !.at = a, !.m_subscriptions = S]
<1>0. bc \in [Brokers -> BrokerConsumer] /\ bc[b] \in BrokerConsumer
  BY DEF TypeOK
<1>1. T \subseteq Partitions /\ a \in {"top", "asked", "answered", "handle"}
  BY BrokerTypes
<1>2. \/ bc' = [bc EXCEPT ![b].todo = T, ![b].at = a] /\ S = bc[b].m_subscriptions
      \/ bc' = [bc EXCEPT ![b].todo = T, ![b].at = a, ![b].m_subscriptions = S]
  OBVIOUS
<1> HIDE DEF T, a
<1>3. /\ r \in BrokerConsumer /\ r.todo = T /\ r.at = a /\ r.m_subscriptions = S
      /\ r.m_input = bc[b].m_input /\ r.batch = bc[b].batch
      /\ r.m_new_subscriptions = bc[b].m_new_subscriptions
      /\ r.gen = bc[b].gen /\ r.asked = bc[b].asked /\ r.answer = bc[b].answer
  BY <1>0, <1>1 DEF BrokerConsumer
<1>4. bc' = [bc EXCEPT ![b] = r]
  <2>1. CASE bc' = [bc EXCEPT ![b].todo = T, ![b].at = a] /\ S = bc[b].m_subscriptions
    <3>1. PICK k \in BrokerConsumer : k = bc[b]
      BY <1>0, Zenon
    <3>2. [k EXCEPT !.todo = T, !.at = a, !.m_subscriptions = k.m_subscriptions]
            = [k EXCEPT !.todo = T, !.at = a]
      BY DEF BrokerConsumer
    <3>3. bc' = [bc EXCEPT ![b] = [k EXCEPT !.todo = T, !.at = a]]
      BY <2>1, <3>1
    <3> QED BY <2>1, <3>1, <3>2, <3>3
  <2>2. CASE bc' = [bc EXCEPT ![b].todo = T, ![b].at = a, ![b].m_subscriptions = S]
    BY <1>0, <2>2 DEF BrokerConsumer
  <2> QED BY <1>2, <2>1, <2>2
<1> HIDE DEF r
<1> QED BY <1>3, <1>4, SetBroker DEF HandledAt, T, a

LEMMA HandledOthers ==
  ASSUME Inv, NEW b \in Brokers, NEW p \in bc[b].todo, NEW S, bc[b].at = "handle", HandledAt(b, p, S),
         S = bc[b].m_subscriptions \/ S = bc[b].m_subscriptions \ {p},
         pc' \in [Partitions -> Child], \A q \in Partitions : q # p => pc'[q] = pc[q],
         UNCHANGED <<delivered, cluster, changes, lost>>,
         faults' \in 0..MaxFaults, faults' >= faults,
         twice' \subseteq Partitions, \A q \in twice : q \in twice', ClientTypes', ChildOK(p)'
  PROVE  Inv'
<1>1. TypeOK'
  BY DEF Inv, TypeOK, ClientTypes, HandledAt
<1>2. \A c \in Brokers : BrokerOK(c)'
  BY DEF Inv, BrokerOK, HandledAt
<1>3. ASSUME NEW q \in Partitions, q # p PROVE ChildOK(q)'
  BY <1>3, OtherChild DEF HandledAt
<1> QED BY <1>1, <1>2, <1>3 DEF Inv, ChildOK

(* A child that HandleResponses keeps, triggers or takes out.                          *)
LEMMA HandledChild ==
  ASSUME Inv, NEW b \in Brokers, NEW p \in bc[b].todo, NEW S, bc[b].at = "handle", HandledAt(b, p, S),
         pc' \in [Partitions -> Child], UNCHANGED <<delivered, lost>>,
         p \in twice => p \in twice',
         pc'[p].status = pc[p].status, pc'[p].m_dying = pc[p].m_dying,
         pc'[p].start = pc[p].start, pc'[p].m_response_result = "ok",
         \/ /\ pc[p].m_response_result # "timeout" /\ S = bc[b].m_subscriptions
            /\ pc'[p].m_trigger = pc[p].m_trigger /\ pc'[p].m_offset = pc[p].m_offset
         \/ /\ pc[p].m_response_result # "timeout" /\ S = bc[b].m_subscriptions \ {p}
            /\ pc'[p].m_trigger = pc[p].m_trigger + 1 /\ pc'[p].m_offset = pc[p].m_offset
         \/ /\ p \in twice' /\ S = bc[b].m_subscriptions
            /\ pc'[p].m_trigger = pc[p].m_trigger + 1
         \/ /\ pc[p].m_response_result = "timeout" /\ S = bc[b].m_subscriptions \ {p}
            /\ pc'[p].m_trigger = pc[p].m_trigger /\ pc'[p].m_offset = pc[p].m_offset
  PROVE  ChildOK(p)'
<1>0. p \in Partitions /\ p \in bc[b].m_subscriptions /\ pc[p].m_trigger \in Nat
  BY BrokerTypes, ChildTypes DEF Inv, BrokerOK
<1>1. At(b, p) /\ pc[p].status # "new"
  BY <1>0 DEF At, Inv, StatusOK
<1>2. StatusOK(p)'
  BY <1>0, <1>1 DEF Inv, StatusOK
<1>3. \A c \in Brokers :
        /\ Queued(c, p)' <=> Queued(c, p)
        /\ At(c, p)' => At(c, p)
        /\ p \in bc'[c].m_subscriptions <=> p \in bc[c].m_subscriptions /\ (c = b => p \in S)
        /\ p \in bc'[c].todo <=> p \in bc[c].todo /\ c # b
        /\ bc'[c].at \in {"asked", "answered"} => c # b /\ bc'[c] = bc[c]
        /\ c # b => bc'[c] = bc[c]
        /\ p \in bc'[c].m_input <=> p \in bc[c].m_input
        /\ p \in bc'[c].batch <=> p \in bc[c].batch
        /\ p \in bc'[c].m_new_subscriptions <=> p \in bc[c].m_new_subscriptions
  <2>1. S \subseteq bc[b].m_subscriptions
    OBVIOUS
  <2> QED BY <1>0, <2>1 DEF Queued, At, HandledAt
<1>4. KeptOK(p)'
  <2>1. KeptOK(p)
    BY <1>0 DEF Inv
  <2>2. CASE S = bc[b].m_subscriptions
    BY <1>0, <1>3, <2>2 DEF KeptOK, Kept
  <2>3. CASE pc'[p].m_trigger = pc[p].m_trigger + 1
    BY <1>0, <2>3 DEF KeptOK, Kept
  <2>4. CASE pc[p].m_response_result = "timeout" /\ pc'[p].m_trigger = pc[p].m_trigger
    BY <1>3, <2>1, <2>4 DEF KeptOK, Kept
  <2> QED BY <2>2, <2>3, <2>4
<1>5. ASSUME p \notin twice' PROVE OneOwner(p)' /\ AskedOK(p)' /\ SentOK(p)'
  <2>1. OneOwner(p) /\ AskedOK(p) /\ SentOK(p)
    BY <1>0, <1>5 DEF Inv
  <2>2. pc'[p].m_offset = pc[p].m_offset
    BY <1>5
  <2>3. SentOK(p)'
    BY <2>1, <2>2 DEF SentOK
  <2>4. AskedOK(p)'
    BY <1>3, <2>1, <2>2 DEF AskedOK
  <2>5. pc[p].m_trigger = 0 /\ \A c \in Brokers : c # b => ~At(c, p)
    BY <1>0, <1>1, <2>1 DEF OneOwner
  <2>6. CASE pc'[p].m_trigger = pc[p].m_trigger
    <3>1. Queued(b, p)' => p \notin bc'[b].m_subscriptions
      BY <1>0, <1>3, <1>5, <2>1, <2>6 DEF OneOwner
    <3> QED BY <1>3, <2>1, <2>3, <2>4, <2>5, <2>6, <3>1 DEF OneOwner, At
  <2>7. CASE /\ pc[p].m_response_result # "timeout" /\ S = bc[b].m_subscriptions \ {p}
             /\ pc'[p].m_trigger = pc[p].m_trigger + 1
    <3>1. \A c \in Brokers : ~At(c, p)'
      BY <1>0, <1>3, <2>1, <2>5, <2>7 DEF At, OneOwner
    <3> QED BY <2>3, <2>4, <2>5, <2>7, <3>1 DEF OneOwner, At, Queued
  <2> QED BY <1>5, <2>6, <2>7
<1> QED BY <1>2, <1>4, <1>5 DEF ChildOK

LEMMA HandleStep ==
  ASSUME Inv, NEW b \in Brokers, NEW p \in Partitions, Handle(b, p) \/ HandleFails(b, p)
  PROVE  Inv'
<1>t. ClientTypes'
  BY ClientStep DEF Inv, Next, ConsumerStep
<1> DEFINE q == [pc[p] EXCEPT !.m_response_result = "ok"]
           done == Handled(b, p)
           S == bc[b].m_subscriptions
           P == bc[b].m_subscriptions \ {p}
<1>0. /\ bc[b].at = "handle" /\ p \in bc[b].todo /\ TypeOK
      /\ UNCHANGED <<delivered, cluster, changes, lost>> /\ (Fault \/ UNCHANGED faults)
  BY DEF Handle, HandleFails, LookupFails, Inv
<1>a. /\ faults' \in 0..MaxFaults /\ faults' >= faults
      /\ twice \subseteq Partitions /\ S \subseteq Partitions /\ P \subseteq Partitions
      /\ p \in S /\ cluster[p].oldest \in Nat /\ cluster[p].next \in Nat
  <2>1. faults' \in 0..MaxFaults /\ faults' >= faults /\ twice \subseteq Partitions
    BY <1>0, KafkaConsumerAssumption DEF Fault, TypeOK
  <2> QED BY <1>0, <2>1, BrokerTypes, ChildTypes DEF Inv, BrokerOK
<1>1. /\ q \in Child /\ q.m_response_result = "ok"
      /\ q.status = pc[p].status /\ q.m_dying = pc[p].m_dying /\ q.start = pc[p].start
      /\ q.m_trigger = pc[p].m_trigger /\ q.m_offset = pc[p].m_offset
  <2>1. pc[p] \in Child
    BY <1>0 DEF TypeOK
  <2> QED BY <2>1 DEF Child, Result
<1>2. bc' = done => HandledAt(b, p, S)
  BY <1>0, <1>a, HandledFields DEF Handled
<1>3. bc' = [done EXCEPT ![b].m_subscriptions = @ \ {p}] => HandledAt(b, p, P)
  <2> SUFFICES ASSUME bc' = [done EXCEPT ![b].m_subscriptions = @ \ {p}] PROVE HandledAt(b, p, P)
    OBVIOUS
  <2>1. done[b].m_subscriptions = bc[b].m_subscriptions
    <3> DEFINE T == bc[b].todo \ {p}
               a == IF bc[b].todo = {p} THEN "top" ELSE bc[b].at
    <3>1. done = [bc EXCEPT ![b].todo = T, ![b].at = a]
      BY DEF Handled
    <3>2. bc \in [Brokers -> BrokerConsumer] /\ bc[b] \in BrokerConsumer
      BY <1>0 DEF TypeOK
    <3> HIDE DEF done, T, a
    <3> QED BY <3>1, <3>2 DEF BrokerConsumer
  <2>2. bc' = [bc EXCEPT ![b].todo = @ \ {p}, ![b].at = IF bc[b].todo = {p} THEN "top" ELSE @,
                         ![b].m_subscriptions = P]
    BY <2>1 DEF Handled
  <2> QED BY <1>0, <1>a, <2>2, HandledFields
<1> HIDE DEF q, done
<1>4. CASE /\ pc[p].m_response_result = "ok"
           /\ pc' = [pc EXCEPT ![p] = q] /\ bc' = done /\ UNCHANGED twice
  <2>1. pc' \in [Partitions -> Child] /\ pc'[p] = q /\ \A x \in Partitions : x # p => pc'[x] = pc[x]
    BY <1>0, <1>1, <1>4, SetChild
  <2>2. ChildOK(p)'
    BY <1>0, <1>1, <1>2, <1>4, <2>1, HandledChild
  <2> QED BY <1>0, <1>t, <1>a, <1>2, <1>4, <2>1, <2>2, HandledOthers
<1>5. CASE /\ pc[p].m_response_result # "timeout"
           /\ pc' = [pc EXCEPT ![p] = Triggered(q)]
           /\ bc' = [done EXCEPT ![b].m_subscriptions = @ \ {p}] /\ UNCHANGED twice
  <2>0. Triggered(q) \in Child
    BY <1>1, TriggeredFields
  <2>1. pc' \in [Partitions -> Child] /\ pc'[p] = Triggered(q)
        /\ \A x \in Partitions : x # p => pc'[x] = pc[x]
    BY <1>0, <1>5, <2>0, SetChild
  <2>2. ChildOK(p)'
    BY <1>0, <1>1, <1>3, <1>5, <2>1, TriggeredFields, HandledChild
  <2> QED BY <1>0, <1>t, <1>a, <1>3, <1>5, <2>1, <2>2, HandledOthers
<1>6. ASSUME NEW o \in {cluster[p].oldest, cluster[p].next},
             twice' = twice \cup {p}, bc' = done,
             pc' = [pc EXCEPT ![p] = [Triggered(q) EXCEPT !.m_offset = o]]
      PROVE  Inv'
  <2> DEFINE r == [Triggered(q) EXCEPT !.m_offset = o]
  <2>0. /\ r \in Child /\ r.m_response_result = "ok"
        /\ r.status = pc[p].status /\ r.m_dying = pc[p].m_dying /\ r.start = pc[p].start
        /\ r.m_trigger = pc[p].m_trigger + 1
    <3> DEFINE t == Triggered(q)
    <3>1. /\ t \in Child /\ t.m_response_result = "ok"
          /\ t.status = pc[p].status /\ t.m_dying = pc[p].m_dying /\ t.start = pc[p].start
          /\ t.m_trigger = pc[p].m_trigger + 1
      BY <1>1, TriggeredFields
    <3>2. o \in Offset
      BY <1>a, <1>6 DEF Offset
    <3>3. r = [t EXCEPT !.m_offset = o]
      OBVIOUS
    <3> HIDE DEF t, r
    <3> QED BY <3>1, <3>2, <3>3 DEF Child
  <2> HIDE DEF r
  <2>1. pc' \in [Partitions -> Child] /\ pc'[p] = r /\ \A x \in Partitions : x # p => pc'[x] = pc[x]
    BY <1>0, <1>6, <2>0, SetChild DEF r
  <2>2. ChildOK(p)'
    BY <1>0, <1>2, <1>6, <2>0, <2>1, HandledChild
  <2> QED BY <1>0, <1>t, <1>a, <1>2, <1>6, <2>1, <2>2, HandledOthers
<1>7. CASE /\ pc[p].m_response_result = "timeout"
           /\ pc' = [pc EXCEPT ![p] = q]
           /\ bc' = [done EXCEPT ![b].m_subscriptions = @ \ {p}] /\ UNCHANGED twice
  <2>1. pc' \in [Partitions -> Child] /\ pc'[p] = q /\ \A x \in Partitions : x # p => pc'[x] = pc[x]
    BY <1>0, <1>1, <1>7, SetChild
  <2>2. ChildOK(p)'
    BY <1>0, <1>1, <1>3, <1>7, <2>1, HandledChild
  <2> QED BY <1>0, <1>t, <1>a, <1>3, <1>7, <2>1, <2>2, HandledOthers
<1>8. CASE Handle(b, p)
  BY <1>4, <1>5, <1>6, <1>7, <1>8 DEF Handle, TakenOut, q, done
<1>9. CASE HandleFails(b, p)
  BY <1>4, <1>5, <1>9 DEF HandleFails, TakenOut, q, done
<1> QED BY <1>8, <1>9

LEMMA AbortStep ==
  ASSUME Inv, NEW b \in Brokers, Abort(b)
  PROVE  Inv'
<1>t. ClientTypes'
  BY ClientStep DEF Inv, Next, ConsumerStep
<1> DEFINE told == bc[b].m_subscriptions \cup bc[b].m_new_subscriptions
           g == bc[b].gen + 1
           r == NewBrokerConsumer(g)
<1>0. /\ bc[b].at = "asked" /\ bc[b].todo = {} /\ (Fault \/ UNCHANGED faults) /\ TypeOK
      /\ pc' = [p \in Partitions |-> IF p \in told THEN Triggered(pc[p]) ELSE pc[p]]
      /\ bc' = [bc EXCEPT ![b] = r]
      /\ lost' = lost \cup bc[b].m_input \cup bc[b].batch
      /\ UNCHANGED <<delivered, cluster, changes, twice>>
  BY DEF Abort, Inv, BrokerOK
<1>a. /\ told \subseteq Partitions /\ bc[b].m_input \subseteq Partitions /\ bc[b].batch \subseteq Partitions
      /\ bc[b].todo = {}
  BY <1>0, BrokerTypes
<1>b. faults' \in 0..MaxFaults
  BY <1>0, KafkaConsumerAssumption DEF Fault, TypeOK
<1>c. g \in Nat
  BY <1>0, BrokerTypes
<1> HIDE DEF told, g
<1>1. /\ pc' \in [Partitions -> Child]
      /\ \A p \in Partitions : p \notin told => pc'[p] = pc[p]
      /\ \A p \in Partitions : p \in told =>
           /\ pc'[p].m_trigger = pc[p].m_trigger + 1 /\ pc[p].m_trigger \in Nat
           /\ pc'[p].m_dying = pc[p].m_dying
           /\ pc'[p].status = pc[p].status /\ pc'[p].m_offset = pc[p].m_offset
           /\ pc'[p].start = pc[p].start
           /\ pc'[p].m_response_result = pc[p].m_response_result
  <2>1. \A p \in Partitions : pc[p] \in Child
    BY <1>0 DEF TypeOK
  <2> QED BY <1>0, <2>1, TriggeredFields
<1>2. /\ r \in BrokerConsumer /\ r.gen = g /\ r.m_input = {} /\ r.batch = {}
      /\ r.m_new_subscriptions = {} /\ r.m_subscriptions = {} /\ r.at = "top" /\ r.todo = {}
  <2>1. NoAnswer \in [Partitions -> Response]
    BY DEF NoAnswer, Empty, Response, Result, Offset
  <2> QED BY <1>c, <2>1 DEF NewBrokerConsumer, BrokerConsumer, Offset
<1> HIDE DEF r
<1>3. /\ bc' \in [Brokers -> BrokerConsumer] /\ bc'[b] = r
      /\ \A c \in Brokers : c # b => bc'[c] = bc[c]
  BY <1>0, <1>2, SetBroker
<1>4. TypeOK'
  BY <1>t, <1>0, <1>a, <1>b, <1>1, <1>3 DEF TypeOK, ClientTypes
<1>5. \A c \in Brokers : BrokerOK(c)'
  BY <1>2, <1>3 DEF Inv, BrokerOK
<1>6. \A q \in Partitions : ~At(b, q)' /\ \A c \in Brokers : At(c, q)' => At(c, q) /\ c # b
  BY <1>2, <1>3 DEF At, Queued
<1>7. ASSUME NEW q \in Partitions PROVE ChildOK(q)'
  <2>1. CASE q \in told
    <3>0. At(b, q) /\ pc[q].status # "new"
      BY <2>1 DEF told, At, Queued, Inv, StatusOK
    <3>1. StatusOK(q)' /\ KeptOK(q)'
      BY <1>1, <2>1, <3>0 DEF Inv, StatusOK, KeptOK, Kept
    <3>2. ASSUME q \notin twice PROVE OneOwner(q)' /\ AskedOK(q)' /\ SentOK(q)'
      <4>1. OneOwner(q) /\ SentOK(q)
        BY <3>2 DEF Inv
      <4>2. pc[q].m_trigger = 0 /\ \A c \in Brokers : ~At(c, q)'
        BY <1>1, <1>6, <2>1, <3>0, <4>1 DEF OneOwner
      <4>3. SentOK(q)'
        BY <1>0, <1>1, <2>1, <4>1 DEF SentOK
      <4>4. pc'[q].m_trigger = 1
        BY <1>1, <2>1, <4>2
      <4> QED BY <4>2, <4>3, <4>4 DEF OneOwner, AskedOK, At, Queued
    <3> QED BY <1>0, <3>1, <3>2 DEF ChildOK
  <2>2. CASE q \notin told /\ q \in bc[b].m_input \cup bc[b].batch
    <3>0. At(b, q) /\ pc[q].status # "new" /\ q \in lost' /\ pc'[q] = pc[q]
      BY <1>0, <1>1, <2>2 DEF At, Queued, Inv, StatusOK
    <3>1. StatusOK(q)' /\ KeptOK(q)'
      BY <3>0 DEF Inv, StatusOK, KeptOK
    <3>2. ASSUME q \notin twice PROVE OneOwner(q)' /\ AskedOK(q)' /\ SentOK(q)'
      <4>1. OneOwner(q) /\ SentOK(q) /\ AskedOK(q)
        BY <3>2 DEF Inv
      <4>2. \A c \in Brokers : ~At(c, q)'
        BY <1>6, <3>0, <4>1 DEF OneOwner
      <4>3. SentOK(q)'
        BY <1>0, <3>0, <4>1 DEF SentOK
      <4> QED BY <3>0, <4>1, <4>2, <4>3 DEF OneOwner, AskedOK, At, Queued
    <3> QED BY <1>0, <3>1, <3>2 DEF ChildOK
  <2>3. CASE q \notin told /\ q \notin bc[b].m_input \cup bc[b].batch
    <3>1. q \notin bc[b].m_subscriptions /\ q \notin bc[b].m_new_subscriptions /\ q \notin bc[b].todo
          /\ q \notin bc[b].m_input /\ q \notin bc[b].batch /\ pc'[q] = pc[q]
      BY <1>a, <1>1, <2>3 DEF told
    <3> QED BY <1>0, <1>2, <1>3, <3>1, OtherChild
  <2> QED BY <2>1, <2>2, <2>3
<1> QED BY <1>4, <1>5, <1>7 DEF Inv, ChildOK

(* The offsets from o on, in order.                                                        *)
IsRun(h, o) == \A i \in 1..Len(h) : h[i] = o + i - 1

(* Messages from o on follow those before o: what is delivered stays increasing, and       *)
(* without a gap if it ended just before o.                                                  *)
LEMMA AppendRun ==
  ASSUME NEW d \in Seq(Nat), NEW h \in Seq(Nat), NEW o \in Nat, NEW e \in Nat,
         IsRun(h, o), o + Len(h) <= e, o < e,
         Increasing(d), \A i \in DOMAIN d : d[i] < o
  PROVE  /\ Increasing(d \o h) /\ \A i \in DOMAIN (d \o h) : (d \o h)[i] < e
         /\ \A b \in Nat : IsRun(d, b) /\ b + Len(d) = o => IsRun(d \o h, b)
<1>a. Len(d) \in Nat /\ Len(h) \in Nat
  OBVIOUS
<1>b. PICK l \in Nat : l = Len(d)
  BY <1>a
<1>c. PICK k \in Nat : k = Len(h)
  BY <1>a
<1>d. PICK D : D = d \o h
  OBVIOUS
<1>0. D = d \o h /\ l = Len(d) /\ k = Len(h)
  BY <1>b, <1>c, <1>d
<1>1. /\ D \in Seq(Nat) /\ Len(D) = l + k /\ DOMAIN D = 1..(l + k) /\ DOMAIN d = 1..l
      /\ o + k <= e
  BY <1>0
<1>2. \A i \in 1..l : D[i] = d[i] /\ D[i] < o /\ D[i] \in Nat
  <2>1. \A i \in 1..l : D[i] = d[i] /\ i \in DOMAIN d
    BY <1>0
  <2>2. \A i \in DOMAIN d : d[i] < o /\ d[i] \in Nat
    OBVIOUS
  <2> QED BY <2>1, <2>2
<1>3. \A i \in 1..k : D[l + i] = o + i - 1
  BY <1>0 DEF IsRun
<1>4. \A i \in 1..(l + k) : i > l => D[i] = o + (i - l) - 1
  <2> SUFFICES ASSUME NEW i \in 1..(l + k), i > l
               PROVE  D[i] = o + (i - l) - 1
    OBVIOUS
  <2>1. i - l \in 1..k /\ l + (i - l) = i
    OBVIOUS
  <2> QED BY <1>3, <2>1
<1>5. \A i \in 1..(l + k) : i <= l => i \in 1..l
  OBVIOUS
<1>6. ASSUME NEW i \in 1..(l + k) PROVE D[i] < e
  <2>1. CASE i <= l
    <3>1. D[i] < o /\ D[i] \in Nat
      BY <1>2, <1>5, <2>1
    <3> QED BY <3>1
  <2>2. CASE i > l
    <3>1. D[i] = o + (i - l) - 1
      BY <1>4, <2>2
    <3> QED BY <1>1, <2>2, <3>1
  <2> QED BY <2>1, <2>2
<1>7. Increasing(D)
  <2> SUFFICES ASSUME NEW i \in 1..(l + k), NEW j \in 1..(l + k), i < j
               PROVE  D[i] < D[j]
    BY <1>1, Zenon DEF Increasing
  <2>1. CASE j <= l
    <3>1. i \in 1..l /\ j \in 1..l
      BY <2>1
    <3> QED BY <1>1, <1>2, <3>1 DEF Increasing
  <2>2. CASE i <= l /\ j > l
    <3>1. D[i] < o /\ D[i] \in Nat /\ D[j] = o + (j - l) - 1
      BY <1>2, <1>4, <1>5, <2>2
    <3> QED BY <2>2, <3>1
  <2>3. CASE i > l
    <3>1. D[i] = o + (i - l) - 1 /\ D[j] = o + (j - l) - 1
      BY <1>4, <2>3
    <3> QED BY <3>1
  <2> QED BY <2>1, <2>2, <2>3
<1>8. ASSUME NEW b \in Nat, IsRun(d, b), b + l = o
      PROVE  IsRun(D, b)
  <2> SUFFICES ASSUME NEW i \in 1..(l + k) PROVE D[i] = b + i - 1
    BY <1>1 DEF IsRun
  <2>1. CASE i <= l
    BY <1>0, <1>2, <1>5, <1>8, <2>1 DEF IsRun
  <2>2. CASE i > l
    <3>1. D[i] = o + (i - l) - 1
      BY <1>4, <2>2
    <3> QED BY <1>8, <3>1
  <2> QED BY <2>1, <2>2
<1>9. \A i \in DOMAIN D : D[i] < e
  BY <1>1, <1>6
<1> QED BY <1>0, <1>7, <1>8, <1>9

LEMMA PrefixRun ==
  ASSUME NEW g \in Seq(Nat), NEW o \in Nat, NEW m \in Nat, IsRun(g, o), m <= Len(g)
  PROVE  /\ SubSeq(g, 1, m) \in Seq(Nat) /\ Len(SubSeq(g, 1, m)) = m
         /\ IsRun(SubSeq(g, 1, m), o)
<1>1. PICK h : h = SubSeq(g, 1, m)
  OBVIOUS
<1>2. h \in Seq(Nat) /\ Len(h) = m /\ \A i \in 1..m : h[i] = g[i]
  BY <1>1
<1>3. \A i \in 1..m : i \in 1..Len(g)
  OBVIOUS
<1> QED BY <1>1, <1>2, <1>3 DEF IsRun

(* The same sequence, written as in NoGap.                                                   *)
Run(b, o) == [i \in 1..(o - b) |-> b + i - 1]

LEMMA RunSeq ==
  ASSUME NEW s \in Seq(Nat), NEW b \in Nat, NEW o \in Nat, b <= o
  PROVE  s = Run(b, o) <=> IsRun(s, b) /\ b + Len(s) = o
<1> USE DEF Run
<1>1. ASSUME s = Run(b, o) PROVE IsRun(s, b) /\ b + Len(s) = o
  <2>1. Len(s) = o - b
    BY <1>1
  <2> QED BY <1>1, <2>1 DEF IsRun
<1>2. ASSUME IsRun(s, b), b + Len(s) = o PROVE s = Run(b, o)
  <2>1. Len(s) = o - b /\ s = [i \in 1..Len(s) |-> s[i]]
    BY <1>2
  <2> QED BY <1>2, <2>1 DEF IsRun
<1> QED BY <1>1, <1>2

(* ParseRecords keeps the offsets of [from, end) that are not below m_offset.             *)
LEMMA ParseRecordsOK ==
  ASSUME NEW q \in Child, NEW from \in Nat, NEW end \in Nat
  PROVE  /\ ParseRecords(q, from, end) \in Seq(Nat)
         /\ from <= q.m_offset /\ q.m_offset < end =>
              ParseRecords(q, from, end) = [i \in 1..(end - q.m_offset) |-> q.m_offset + i - 1]
<1> DEFINE first == IF from < q.m_offset THEN q.m_offset ELSE from
           n == IF end > first THEN end - first ELSE 0
<1>0. q.m_offset \in Nat
  BY DEF Child, Offset
<1>1. first \in Nat /\ n \in Nat
  BY <1>0
<1>2. ParseRecords(q, from, end) = [i \in 1..n |-> first + i - 1]
  BY DEF ParseRecords
<1>3. from <= q.m_offset /\ q.m_offset < end => first = q.m_offset /\ n = end - q.m_offset
  BY <1>0
<1> HIDE DEF first, n
<1>4. [i \in 1..n |-> first + i - 1] \in Seq(Nat)
  BY <1>1
<1> QED BY <1>2, <1>3, <1>4

LEMMA FeedStep ==
  ASSUME Inv, NEW b \in Brokers, Feed(b)
  PROVE  Inv'
<1>t. ClientTypes'
  BY ClientStep DEF Inv, Next, ConsumerStep
<1> DEFINE ans(p) == bc[b].answer[p]
           got(p) == ParseRecords(pc[p], ans(p).first, ans(p).end)
           records(p) == ans(p).end > ans(p).first
           cut(p) == pc[p].m_dying /\ ans(p).result = "ok" /\ records(p) /\ got(p) # <<>>
           subs == bc[b].m_subscriptions
           late == {p \in subs : ans(p).result = "timeout" /\ got(p) # <<>>}
           home(c) == {p \in late : pc[p].m_broker = <<c, bc[c].gen>>}
           none == [p \in Partitions |-> 0]
<1>0. /\ bc[b].at = "answered" /\ bc[b].todo = {} /\ TypeOK
      /\ lost' = lost \cup (late \ UNION {home(c) : c \in Brokers})
      /\ twice' = twice \cup {p \in late : pc[p].m_broker[1] # b}
      /\ UNCHANGED <<cluster, changes, faults>>
  BY DEF Feed, Inv, BrokerOK
<1>a. /\ subs \subseteq Partitions
      /\ \A p \in Partitions : pc[p] \in Child /\ ans(p) \in Response /\ delivered[p] \in Seq(Nat)
      /\ late \subseteq subs /\ \A c \in Brokers : home(c) \subseteq late
  BY <1>0, BrokerTypes, ChildTypes DEF TypeOK
<1>b. \A p \in Partitions : ans(p).first \in Nat /\ ans(p).end \in Nat /\ ans(p).result \in Result
  BY <1>a DEF Response, Offset
<1>c. \A p \in Partitions : got(p) \in Seq(Nat)
  BY ZenonT(60), <1>a, <1>b, ParseRecordsOK
<1>1. PICK n \in [subs -> 0..MaxLog] :
        /\ \A p \in subs : IF cut(p) THEN n[p] < Len(got(p))
                           ELSE n[p] = IF records(p) THEN Len(got(p)) ELSE 0
        /\ delivered' = [p \in Partitions |->
                           IF p \in subs THEN delivered[p] \o SubSeq(got(p), 1, n[p]) ELSE delivered[p]]
  BY DEF Feed
<1> DEFINE R(p) == IF p \in late \/ ans(p).result # "timeout" THEN ans(p).result ELSE "ok"
           O(p) == IF ~records(p) THEN pc[p].m_offset
                   ELSE IF got(p) = <<>> THEN pc[p].m_offset + 1 ELSE ans(p).end
           Y(p) == pc[p].m_dying /\ ~cut(p)
<1>2. /\ pc' \in [Partitions -> Child]
      /\ \A p \in Partitions : p \notin subs => pc'[p] = pc[p]
      /\ \A p \in Partitions : p \in subs =>
           /\ pc'[p].m_trigger = pc[p].m_trigger /\ pc'[p].start = pc[p].start
           /\ pc'[p].status = pc[p].status /\ (pc'[p].m_dying => pc[p].m_dying)
           /\ pc'[p].m_response_result = R(p) /\ pc'[p].m_offset = O(p)
  <2>1. pc' = [p \in Partitions |->
                 IF p \notin subs THEN pc[p]
                 ELSE [pc[p] EXCEPT !.m_response_result = R(p), !.m_dying = Y(p), !.m_offset = O(p)]]
    BY DEF Feed
  <2>2. \A p \in Partitions : R(p) \in Result /\ O(p) \in Offset /\ Y(p) \in BOOLEAN
                               /\ (Y(p) => pc[p].m_dying)
    BY <1>0, <1>b, ChildTypes DEF Result, Offset
  <2> HIDE DEF R, O, Y, subs
  <2>3. ASSUME NEW p \in Partitions, p \in subs
        PROVE  /\ pc'[p] \in Child
               /\ pc'[p].m_trigger = pc[p].m_trigger /\ pc'[p].start = pc[p].start
               /\ pc'[p].status = pc[p].status /\ (pc'[p].m_dying => pc[p].m_dying)
               /\ pc'[p].m_response_result = R(p) /\ pc'[p].m_offset = O(p)
    <3>1. PICK x, y, z : x = R(p) /\ y = Y(p) /\ z = O(p)
      OBVIOUS
    <3>2. pc'[p] = [pc[p] EXCEPT !.m_response_result = x, !.m_dying = y, !.m_offset = z]
      BY <2>1, <2>3, <3>1
    <3>3. pc[p] \in Child /\ x \in Result /\ y \in BOOLEAN /\ z \in Offset
      BY <1>a, <2>2, <3>1
    <3>4. /\ pc'[p] \in Child
          /\ pc'[p].m_trigger = pc[p].m_trigger /\ pc'[p].start = pc[p].start
          /\ pc'[p].status = pc[p].status /\ pc'[p].m_dying = y
          /\ pc'[p].m_response_result = x /\ pc'[p].m_offset = z
      BY <3>2, <3>3 DEF Child
    <3> QED BY <2>2, <3>1, <3>4
  <2> QED BY ZenonT(60), <1>a, <2>1, <2>3
<1>3. /\ bc' \in [Brokers -> BrokerConsumer]
      /\ \A c \in Brokers :
           /\ bc'[c].gen = bc[c].gen /\ bc'[c].batch = bc[c].batch
           /\ bc'[c].m_new_subscriptions = bc[c].m_new_subscriptions
           /\ bc'[c].m_subscriptions = bc[c].m_subscriptions
           /\ bc'[c].m_input = bc[c].m_input \cup home(c)
           /\ c # b => /\ bc'[c].at = bc[c].at /\ bc'[c].todo = bc[c].todo
                       /\ bc'[c].asked = bc[c].asked /\ bc'[c].answer = bc[c].answer
           /\ c = b => bc'[c].at = "handle" /\ bc'[c].todo = subs
  <2>1. bc' = [c \in Brokers |->
                 IF c # b THEN [bc[c] EXCEPT !.m_input = @ \cup home(c)]
                 ELSE [[bc[c] EXCEPT !.m_input = @ \cup home(c)] EXCEPT
                         !.at = "handle", !.todo = subs, !.answer = NoAnswer, !.asked = none]]
    BY DEF Feed
  <2>2. NoAnswer \in [Partitions -> Response] /\ none \in [Partitions -> Offset]
    BY DEF NoAnswer, Empty, Response, Result, Offset
  <2>3. ASSUME NEW c \in Brokers
        PROVE  /\ bc'[c] \in BrokerConsumer
               /\ bc'[c].gen = bc[c].gen /\ bc'[c].batch = bc[c].batch
               /\ bc'[c].m_new_subscriptions = bc[c].m_new_subscriptions
               /\ bc'[c].m_subscriptions = bc[c].m_subscriptions
               /\ bc'[c].m_input = bc[c].m_input \cup home(c)
               /\ c # b => /\ bc'[c].at = bc[c].at /\ bc'[c].todo = bc[c].todo
                           /\ bc'[c].asked = bc[c].asked /\ bc'[c].answer = bc[c].answer
               /\ c = b => bc'[c].at = "handle" /\ bc'[c].todo = subs
    <3>1. PICK i : i = bc[c].m_input \cup home(c)
      OBVIOUS
    <3>2. i \in SUBSET Partitions /\ subs \in SUBSET Partitions /\ bc[c] \in BrokerConsumer
      BY SMTT(60), <1>0, <1>a, <3>1, BrokerTypes DEF TypeOK
    <3>3. bc'[c] = IF c # b THEN [bc[c] EXCEPT !.m_input = i]
                   ELSE [[bc[c] EXCEPT !.m_input = i] EXCEPT
                           !.at = "handle", !.todo = subs, !.answer = NoAnswer, !.asked = none]
      BY <2>1, <3>1
    <3> HIDE DEF subs, none, home
    <3>4. CASE c # b
      BY <3>1, <3>2, <3>3, <3>4 DEF BrokerConsumer
    <3>5. CASE c = b
      <4>1. PICK k : k = [bc[c] EXCEPT !.m_input = i]
        OBVIOUS
      <4>2. /\ k \in BrokerConsumer
            /\ k.gen = bc[c].gen /\ k.batch = bc[c].batch
            /\ k.m_new_subscriptions = bc[c].m_new_subscriptions
            /\ k.m_subscriptions = bc[c].m_subscriptions /\ k.m_input = i
        BY <3>2, <4>1 DEF BrokerConsumer
      <4>3. bc'[c] = [k EXCEPT !.at = "handle", !.todo = subs, !.answer = NoAnswer, !.asked = none]
        BY <3>3, <3>5, <4>1
      <4>4. /\ bc'[c] \in BrokerConsumer
            /\ bc'[c].gen = k.gen /\ bc'[c].batch = k.batch
            /\ bc'[c].m_new_subscriptions = k.m_new_subscriptions
            /\ bc'[c].m_subscriptions = k.m_subscriptions /\ bc'[c].m_input = k.m_input
            /\ bc'[c].at = "handle" /\ bc'[c].todo = subs
        <5>1. PICK x, y : x \in [Partitions -> Response] /\ y \in [Partitions -> Offset]
                          /\ bc'[c] = [k EXCEPT !.at = "handle", !.todo = subs, !.answer = x, !.asked = y]
          BY <2>2, <4>3, Zenon
        <5>2. bc'[c] \in BrokerConsumer
          BY ZenonT(60), <3>2, <4>2, <5>1 DEF BrokerConsumer
        <5>3. /\ bc'[c].gen = k.gen /\ bc'[c].batch = k.batch
              /\ bc'[c].m_new_subscriptions = k.m_new_subscriptions
              /\ bc'[c].m_subscriptions = k.m_subscriptions /\ bc'[c].m_input = k.m_input
          BY <4>2, <5>1 DEF BrokerConsumer
        <5>4. bc'[c].at = "handle" /\ bc'[c].todo = subs
          BY <4>2, <5>1 DEF BrokerConsumer
        <5> QED BY <5>2, <5>3, <5>4
      <4> QED BY <3>1, <3>5, <4>2, <4>4
    <3> QED BY <3>4, <3>5
  <2>4. bc' \in [Brokers -> BrokerConsumer]
    <3>1. PICK f : f = bc'
      OBVIOUS
    <3>2. f = [c \in Brokers |-> f[c]] /\ \A c \in Brokers : f[c] \in BrokerConsumer
      BY <2>1, <2>3, <3>1
    <3> QED BY <3>1, <3>2
  <2> QED BY <2>3, <2>4
<1>4. /\ \A p \in Partitions : p \notin subs => delivered'[p] = delivered[p]
      /\ \A p \in subs : delivered'[p] = delivered[p] \o SubSeq(got(p), 1, n[p])
      /\ \A p \in subs : n[p] \in Nat /\ n[p] <= Len(got(p))
                          /\ (~records(p) => n[p] = 0)
                          /\ (records(p) /\ ~pc[p].m_dying => n[p] = Len(got(p)))
      /\ delivered' \in [Partitions -> Seq(Nat)]
  <2>1. \A p \in Partitions : Len(got(p)) \in Nat
    BY <1>c
  <2>2. \A p \in subs : n[p] \in Nat /\ n[p] <= Len(got(p))
                          /\ (~records(p) => n[p] = 0)
                          /\ (records(p) /\ ~pc[p].m_dying => n[p] = Len(got(p)))
    <3> SUFFICES ASSUME NEW p \in subs
                 PROVE  /\ n[p] \in Nat /\ n[p] <= Len(got(p))
                        /\ (~records(p) => n[p] = 0)
                        /\ (records(p) /\ ~pc[p].m_dying => n[p] = Len(got(p)))
      OBVIOUS
    <3>1. n[p] \in Nat
      BY <1>1, KafkaConsumerAssumption
    <3>2. /\ IF cut(p) THEN n[p] < Len(got(p)) ELSE n[p] = IF records(p) THEN Len(got(p)) ELSE 0
          /\ cut(p) => records(p) /\ pc[p].m_dying
      BY <1>1
    <3>3. Len(got(p)) \in Nat
      BY <1>a, <2>1
    <3> HIDE DEF cut, records, got, subs
    <3> QED BY <3>1, <3>2, <3>3
  <2> HIDE DEF got, records, cut, subs, late
  <2>3. \A p \in subs : SubSeq(got(p), 1, n[p]) \in Seq(Nat)
    <3> SUFFICES ASSUME NEW p \in subs PROVE SubSeq(got(p), 1, n[p]) \in Seq(Nat)
      OBVIOUS
    <3>1. got(p) \in Seq(Nat) /\ n[p] \in Nat /\ n[p] <= Len(got(p))
      BY <1>a, <1>c, <2>2
    <3> QED BY <3>1
  <2>4. \A p \in subs : delivered[p] \o SubSeq(got(p), 1, n[p]) \in Seq(Nat)
    BY <1>a, <2>3
  <2> QED BY <1>1, <1>a, <2>2, <2>4
<1>5. TypeOK'
  <2>1. lost' \subseteq Partitions /\ twice' \subseteq Partitions
    BY <1>0, <1>a DEF TypeOK
  <2> QED BY <1>0, <1>t, <1>2, <1>3, <1>4, <2>1 DEF TypeOK, ClientTypes, Offset
<1>6. \A c \in Brokers : BrokerOK(c)'
  BY <1>0, <1>3 DEF Inv, BrokerOK
<1>7. ASSUME NEW q \in Partitions, q \notin subs PROVE ChildOK(q)'
  <2>1. \A c \in Brokers : q \notin home(c)
    BY <1>a, <1>7
  <2>2. q \in lost => q \in lost'
    BY <1>0
  <2>3. q \in twice => q \in twice'
    BY <1>0
  <2>4. pc'[q] = pc[q] /\ delivered'[q] = delivered[q]
    BY <1>2, <1>4, <1>7
  <2>5. \A c \in Brokers :
          /\ q \in bc'[c].m_input <=> q \in bc[c].m_input
          /\ q \in bc'[c].batch <=> q \in bc[c].batch
          /\ q \in bc'[c].m_new_subscriptions <=> q \in bc[c].m_new_subscriptions
          /\ q \in bc'[c].m_subscriptions <=> q \in bc[c].m_subscriptions
          /\ q \in bc'[c].todo <=> q \in bc[c].todo
          /\ q \in bc[c].m_subscriptions /\ bc'[c].at \in {"asked", "answered"} =>
               /\ bc'[c].at = bc[c].at
               /\ bc'[c].asked[q] = bc[c].asked[q] /\ bc'[c].answer[q] = bc[c].answer[q]
    <3> HIDE DEF home, late
    <3> QED BY <1>0, <1>3, <1>7, <2>1
  <2> QED BY <2>2, <2>3, <2>4, <2>5, OtherChild
<1>8. ASSUME NEW q \in Partitions, q \in subs PROVE ChildOK(q)'
  <2>0. At(b, q) /\ pc[q].status # "new"
    BY <1>8 DEF At, Inv, StatusOK
  <2>1. StatusOK(q)'
    BY <1>2, <1>8, <2>0 DEF Inv, StatusOK
  <2>2. R(q) = "timeout" <=> q \in late
    BY <1>8
  <2>3. KeptOK(q)'
    <3>1. CASE q \notin late
      BY <1>2, <1>3, <1>8, <2>2, <3>1 DEF KeptOK, Kept
    <3>2. CASE q \in late /\ q \in lost'
      BY <3>2 DEF KeptOK
    <3>3. CASE q \in late /\ q \notin lost'
      <4>1. PICK c \in Brokers : q \in home(c)
        BY <1>0, <3>3
      <4>2. Queued(c, q)'
        BY <1>3, <4>1 DEF Queued
      <4> QED BY <4>2 DEF KeptOK, Kept
    <3> QED BY <3>1, <3>2, <3>3
  <2>4. ASSUME q \notin twice' PROVE OneOwner(q)' /\ AskedOK(q)'
    <3>1. q \notin twice /\ (q \in late => pc[q].m_broker[1] = b)
      BY <1>0, <2>4
    <3>2. OneOwner(q)
      BY <3>1 DEF Inv
    <3>3. /\ pc[q].m_trigger = 0 /\ ~Queued(b, q)
          /\ \A c \in Brokers : c # b => ~At(c, q)
      BY <1>0, <1>8, <2>0, <3>2, ChildTypes DEF OneOwner
    <3>4. \A c \in Brokers : q \in home(c) => c = b /\ q \in late
      BY <3>1
    <3> HIDE DEF home, late, R, O
    <3>5. /\ \A c \in Brokers : c # b => ~At(c, q)'
          /\ Queued(b, q)' => q \in late /\ q \in bc'[b].m_input
                              /\ q \notin bc'[b].batch /\ q \notin bc'[b].m_new_subscriptions
      BY <1>3, <3>3, <3>4 DEF At, Queued
    <3>6. OneOwner(q)'
      BY <1>2, <1>3, <1>8, <2>2, <3>3, <3>5 DEF OneOwner, At, Queued
    <3>7. AskedOK(q)'
      BY <1>3, <3>5 DEF AskedOK, At
    <3> QED BY <3>6, <3>7
  <2>5. ASSUME q \notin twice' PROVE SentOK(q)'
    <3>1. q \notin twice
      BY <1>0, <2>5
    <3>2. SentOK(q) /\ AskedOK(q) /\ StatusOK(q)
      BY <3>1 DEF Inv
    <3>a. delivered[q] \in Seq(Nat) /\ delivered'[q] \in Seq(Nat) /\ pc[q].m_offset \in Nat
          /\ pc[q].start \in Nat /\ n[q] \in Nat /\ ans(q).end \in Nat
      BY <1>0, <1>a, <1>b, <1>4, <1>8, ChildTypes
    <3>3. CASE records(q)
      <4>1. ans(q).first <= pc[q].m_offset /\ pc[q].m_offset < ans(q).end
        BY <1>0, <1>8, <3>2, <3>3 DEF AskedOK
      <4>2. got(q) = [i \in 1..(ans(q).end - pc[q].m_offset) |-> pc[q].m_offset + i - 1]
        BY ZenonT(60), <1>a, <1>b, <4>1, ParseRecordsOK
      <4>3. PICK o \in Nat, e \in Nat, m \in Nat, d \in Seq(Nat), g \in Seq(Nat) :
              o = pc[q].m_offset /\ e = ans(q).end /\ m = n[q] /\ d = delivered[q] /\ g = got(q)
        BY <1>c, <3>a
      <4>4. o < e /\ g = [i \in 1..(e - o) |-> o + i - 1]
        BY <4>1, <4>2, <4>3
      <4>5. Len(g) = e - o /\ g # <<>> /\ IsRun(g, o)
        <5>1. PICK x \in Nat : x = e - o /\ x > 0
          BY <4>4
        <5>2. g = [i \in 1..x |-> o + i - 1]
          BY <4>4, <5>1
        <5>3. Len(g) = x
          BY <5>2
        <5>4. g # <<>>
          BY <5>1, <5>3
        <5>5. IsRun(g, o)
          BY <5>2, <5>3 DEF IsRun
        <5> QED BY <5>1, <5>3, <5>4, <5>5
      <4>6. O(q) = e
        BY SMTT(60), <3>3, <4>3, <4>5
      <4>7. m <= Len(g) /\ delivered'[q] = d \o SubSeq(g, 1, m) /\ (~pc[q].m_dying => m = Len(g))
        BY <1>4, <1>8, <3>3, <4>3
      <4> HIDE DEF got, records, cut, late, R, O, home, ans
      <4>8. PICK h \in Seq(Nat) : h = SubSeq(g, 1, m) /\ Len(h) = m /\ IsRun(h, o)
        <5>1. m <= Len(g) /\ IsRun(g, o)
          BY <4>5, <4>7
        <5>2. /\ SubSeq(g, 1, m) \in Seq(Nat) /\ Len(SubSeq(g, 1, m)) = m
              /\ IsRun(SubSeq(g, 1, m), o)
          BY <5>1, PrefixRun, Zenon
        <5> QED BY <5>2, Zenon
      <4>9. /\ IsRun(h, o) /\ o + Len(h) <= e /\ o < e
            /\ Increasing(d) /\ \A i \in DOMAIN d : d[i] < o
        <5>1. Increasing(d) /\ \A i \in DOMAIN d : d[i] < o
          BY <3>2, <4>3 DEF SentOK
        <5>2. Len(h) <= e - o
          BY <4>5, <4>7, <4>8
        <5>3. PICK x \in Nat : x = Len(h)
          BY <4>8, Zenon
        <5>4. o + Len(h) <= e
          BY <5>2, <5>3
        <5> QED BY <4>4, <4>8, <5>1, <5>4
      <4>10. /\ Increasing(d \o h) /\ \A i \in DOMAIN (d \o h) : (d \o h)[i] < e
             /\ \A b2 \in Nat : IsRun(d, b2) /\ b2 + Len(d) = o => IsRun(d \o h, b2)
        BY <4>9, AppendRun
      <4>11. /\ pc'[q].m_offset = e /\ pc'[q].status = pc[q].status /\ pc'[q].start = pc[q].start
             /\ delivered'[q] = d \o h
        BY <1>2, <1>8, <4>6, <4>7, <4>8
      <4>12. ASSUME pc[q].status = "on"
             PROVE  /\ pc[q].start <= e
                    /\ delivered'[q] = [i \in 1..(e - pc[q].start) |-> pc[q].start + i - 1]
        <5>1. PICK t \in Nat : t = pc[q].start
          BY <3>a
        <5>2. ~pc[q].m_dying /\ t <= o /\ IsRun(d, t) /\ t + Len(d) = o
          <6>1. ~pc[q].m_dying /\ t <= o /\ d = Run(t, o)
            BY <3>2, <4>3, <4>12, <5>1 DEF StatusOK, SentOK, Run
          <6> QED BY <6>1, RunSeq
        <5>3. IsRun(d \o h, t) /\ t <= e
          BY <4>4, <4>10, <5>2
        <5>4. t + Len(d \o h) = e
          <6>1. Len(d \o h) = Len(d) + Len(h) /\ Len(d) \in Nat /\ Len(h) = e - o
            BY <4>5, <4>7, <4>8, <5>2
          <6>2. PICK x \in Nat : x = Len(d)
            BY <6>1, Zenon
          <6>3. Len(d \o h) = x + (e - o) /\ t + x = o
            BY <5>2, <6>1, <6>2
          <6> QED BY <4>4, <6>3
        <5>5. delivered'[q] = Run(t, e)
          <6>1. PICK D \in Seq(Nat) : D = delivered'[q] /\ D = d \o h
            BY <3>a, <4>11, Zenon
          <6>2. IsRun(D, t) /\ t + Len(D) = e
            BY <5>3, <5>4, <6>1, Zenon
          <6> QED BY <5>3, <6>1, <6>2, RunSeq
        <5> QED BY <5>1, <5>3, <5>5 DEF Run
      <4> QED BY <4>10, <4>11, <4>12 DEF SentOK
    <3>4. CASE ~records(q)
      <4>1. O(q) = pc[q].m_offset /\ n[q] = 0
        BY <1>4, <1>8, <3>4
      <4>2. got(q) \in Seq(Nat) /\ delivered[q] \in Seq(Nat)
        BY <1>a, <1>c
      <4>3. delivered'[q] = delivered[q] \o SubSeq(got(q), 1, 0)
        BY <1>4, <1>8, <4>1
      <4> HIDE DEF got, records, cut, late, R, O, home
      <4>5. PICK g \in Seq(Nat), d \in Seq(Nat) : g = got(q) /\ d = delivered[q]
        BY <4>2
      <4>6. SubSeq(g, 1, 0) = <<>> /\ d \o <<>> = d
        OBVIOUS
      <4>4. delivered'[q] = delivered[q]
        BY <4>3, <4>5, <4>6
      <4>7. /\ pc'[q].m_offset = pc[q].m_offset /\ pc'[q].status = pc[q].status
            /\ pc'[q].start = pc[q].start
        BY <1>2, <1>8, <4>1
      <4> QED BY <3>2, <4>4, <4>7 DEF SentOK
    <3> QED BY <3>3, <3>4
  <2> QED BY <2>1, <2>3, <2>4, <2>5 DEF ChildOK
<1> QED BY SMTT(60), <1>5, <1>6, <1>7, <1>8 DEF Inv, ChildOK

(***************************************************************************)
(* The theorems                                                              *)
(***************************************************************************)
LEMMA Invariance == Spec => []Inv
<1>1. Init => Inv
  BY InitInv
<1>2. Inv /\ [Next]_vars => Inv'
  <2> SUFFICES ASSUME Inv, [Next]_vars PROVE Inv'
    OBVIOUS
  <2>1. CASE UNCHANGED vars
    <3>1. TypeOK'
      BY <2>1 DEF vars, clientVars, Inv, TypeOK
    <3>2. faults' >= faults
      BY <2>1, KafkaConsumerAssumption DEF vars, Inv, TypeOK
    <3> QED BY <2>1, <3>1, <3>2, ChildrenUnchanged DEF vars
  <2>2. CASE Next
    BY <2>2, ClusterStep, ConsumePartitionStep, AsyncCloseStep, DispatcherStep, CollectStep,
       BatchEndsStep, FetchStep, AnswerStep, FeedStep, HandleStep, AbortStep, ClientOnlyStep
       DEF Next, ConsumerStep
  <2> QED BY <2>1, <2>2
<1> QED BY <1>1, <1>2, PTL DEF Spec

(* Every message once, in order and without a gap, for any number of partitions,             *)
(* brokers, moves of a leader, closes and faults (HandleResponses, ParseResponse): as long    *)
(* as no child was handed to a second BrokerConsumer while subscribed at one, it has one       *)
(* owner at a time, so that every answer is for the offset the child is at.                     *)
THEOREM Delivery == Spec => []DeliverySafe
<1>1. Inv => DeliverySafe
  BY DEF Inv, DeliverySafe, DeliveredOnce, NoGap, SentOK
<1> QED BY <1>1, Invariance, PTL

(* The hand-over drops no child: one that is consumed is triggered, on its way to a            *)
(* BrokerConsumer or subscribed at one, unless the code lost it at one of the two places          *)
(* that overwrite or abandon a channel.                                                             *)
THEOREM NoChildDropped == Spec => []Owned
<1>1. Inv => Owned
  BY DEF Inv, KeptOK, Kept, Owned, Queued
<1> QED BY <1>1, Invariance, PTL
=============================================================================
