--------------------------- MODULE KafkaConsumer ---------------------------
(* The Kafka consumer (src/src/coev_kafka/consumer.cpp, partition_consumer.cpp,      *)
(* broker_consumer.cpp): a PartitionConsumer per partition, handed between the        *)
(* BrokerConsumers that fetch for it, as coroutines of one thread. One topic, no        *)
(* preferred replica, nothing paused, no interceptors; transactions are left to         *)
(* the record layer. A broker answers only for the partitions it leads, and keeps its   *)
(* address: the Client keeps its Broker object, whose Connect is never dialled again      *)
(* once it is closed.                                                                       *)
EXTENDS Integers, Sequences, Functions

CONSTANTS Partitions, Brokers,
          MaxLog,    \* bound on the messages, of all partitions
          MaxChanges,\* bound on moves of a leader, deletions of old messages and closes
          MaxFaults  \* bound on failed requests and lookups

ASSUME KafkaConsumerAssumption ==
  {MaxLog, MaxChanges, MaxFaults} \subseteq Nat /\ Brokers # {}

VARIABLES
  pc,        \* pc[p]: the PartitionConsumer of p
  bc,        \* bc[b]: the BrokerConsumer of b in m_broker_consumers
  delivered, \* offsets put into p's m_messages, in order
  cluster,   \* cluster[p]: oldest and next offset, leader
  changes,   \* moves, deletions and closes so far
  faults,    \* failures so far
  lost,      \* children put where nobody looks any more
  twice,     \* children handed to a second BrokerConsumer while subscribed at one
  cached,    \* cached[p]: the leader in the Client's m_metadata
  closed,    \* brokers whose Broker object is closed
  closing    \* brokers that an Abort closes when its sleep is over

clientVars == <<cached, closed, closing>>
vars == <<pc, bc, delivered, cluster, changes, faults, lost, twice, clientVars>>

-----------------------------------------------------------------------------
(* State                                                                          *)

Offset == Nat
Result == {"ok", "moved", "range", "timeout", "error"}
Response == [result: Result, first: Offset, end: Offset]

\* status: not consumed, consumed, AsyncClose called, Dispatcher ended. m_broker: the
\* BrokerConsumer ConsumePartition chose, by broker and generation. start: the offset
\* it chose.
Child ==
  [status: {"new", "on", "closing", "ended"}, m_offset: Offset, start: Offset, m_dying: BOOLEAN,
   m_trigger: Nat, m_response_result: Result,
   m_broker: Brokers \X Nat]

\* m_input and the batch SubscriptionManager collects; where SubscriptionConsumer
\* is; asked: the offsets of the request; answer: the response, from the first
\* offset to before the last; todo: children HandleResponses has left.
\* (A child that is twice in m_input comes to the same: m_subscriptions is a set.)
BrokerConsumer ==
  [gen: Nat, m_input: SUBSET Partitions, batch: SUBSET Partitions,
   m_new_subscriptions: SUBSET Partitions, m_subscriptions: SUBSET Partitions,
   at: {"top", "asked", "answered", "handle"}, asked: [Partitions -> Offset],
   answer: [Partitions -> Response], todo: SUBSET Partitions]

Empty(result) == [result |-> result, first |-> 0, end |-> 0]
NoAnswer == [p \in Partitions |-> Empty("ok")]

NewBrokerConsumer(gen) ==
  [gen |-> gen, m_input |-> {}, batch |-> {}, m_new_subscriptions |-> {},
   m_subscriptions |-> {}, at |-> "top", asked |-> [p \in Partitions |-> 0],
   answer |-> NoAnswer, todo |-> {}]

TypeOK ==
  /\ pc \in [Partitions -> Child] /\ bc \in [Brokers -> BrokerConsumer]
  /\ delivered \in [Partitions -> Seq(Offset)]
  /\ cluster \in [Partitions -> [oldest: Offset, next: Offset, leader: Brokers]]
  /\ changes \in 0..MaxChanges /\ faults \in 0..MaxFaults /\ lost \subseteq Partitions /\ twice \subseteq Partitions
  /\ cached \in [Partitions -> Brokers] /\ closed \subseteq Brokers /\ closing \subseteq Brokers

Init ==
  /\ \E b \in Brokers :
       /\ pc = [p \in Partitions |->
                  [status |-> "new", m_offset |-> 0, start |-> 0, m_dying |-> FALSE, m_trigger |-> 0,
                   m_response_result |-> "ok", m_broker |-> <<b, 0>>]]
       /\ cluster = [p \in Partitions |-> [oldest |-> 0, next |-> 0, leader |-> b]]
       /\ cached = [p \in Partitions |-> b]
  /\ bc = [b \in Brokers |-> NewBrokerConsumer(0)]
  /\ delivered = [p \in Partitions |-> <<>>]
  /\ changes = 0 /\ faults = 0 /\ lost = {} /\ twice = {}
  /\ closed = {} /\ closing = {}

Change == changes < MaxChanges /\ changes' = changes + 1
Fault == faults < MaxFaults /\ faults' = faults + 1

-----------------------------------------------------------------------------
(* The cluster                                                                     *)

LogSize == FoldFunction(+, 0, [q \in Partitions |-> cluster[q].next])

Produce(p) ==
  /\ LogSize < MaxLog
  /\ cluster' = [cluster EXCEPT ![p].next = @ + 1]
  /\ UNCHANGED <<pc, bc, delivered, changes, faults, lost, twice, clientVars>>

Trim(p) ==
  /\ Change /\ cluster[p].oldest < cluster[p].next
  /\ cluster' = [cluster EXCEPT ![p].oldest = @ + 1]
  /\ UNCHANGED <<pc, bc, delivered, faults, lost, twice, clientVars>>

Move(p) ==
  /\ Change
  /\ \E b \in Brokers \ {cluster[p].leader} :
       cluster' = [cluster EXCEPT ![p].leader = b]
  /\ UNCHANGED <<pc, bc, delivered, faults, lost, twice, clientVars>>

-----------------------------------------------------------------------------
(* The Client's metadata                                                           *)

Leaders == [q \in Partitions |-> cluster[q].leader]

\* BackgroundMetadataUpdater.
RefreshMetadata ==
  /\ cached' = Leaders
  /\ UNCHANGED <<pc, bc, delivered, cluster, changes, faults, lost, twice, closed, closing>>

\* LeaderAndEpoch finds the cached leader of p, when its Broker opens; else it refreshes
\* the metadata and finds the leader they name, unless that one is closed as well.
Looked(p) == IF cached[p] \in closed THEN Leaders ELSE cached
Found(p, b) == b = Looked(p)[p] /\ b \notin closed

\* A lookup, or the GetOffset after it, fails: before or after a refresh, with the Broker
\* that did not open or answer closed or not.
LookupFails(p) ==
  /\ Fault
  /\ cached' \in {cached, Leaders}
  /\ closed' \in {closed} \cup {closed \cup {b} : b \in {cached[p], cluster[p].leader}}

\* CloseBroker: an Abort has slept PartitionConsumersBatchTimeout.
CloseBroker(b) ==
  /\ b \in closing
  /\ closing' = closing \ {b} /\ closed' = closed \cup {b}
  /\ UNCHANGED <<pc, bc, delivered, cluster, changes, faults, lost, twice, cached>>

-----------------------------------------------------------------------------
(* Consumer and PartitionConsumer                                                  *)

\* GetOffset asks the leader of p: a Broker that leads it no more answers with an error,
\* and the metadata are refreshed.
Asked(p, b) ==
  /\ b = cluster[p].leader /\ b \notin closed
  /\ cached' = IF cached[p] = b THEN cached ELSE Leaders

\* ConsumePartition: ChooseStartingOffset accepts any offset of the log; when it fails,
\* or the lookup does, nothing is kept.
ConsumePartition(p) ==
  /\ pc[p].status = "new"
  /\ \/ \E b \in Brokers, o \in cluster[p].oldest..cluster[p].next :
           /\ Asked(p, b)
           /\ pc' = [pc EXCEPT ![p].status = "on", ![p].m_offset = o, ![p].start = o,
                               ![p].m_broker = <<b, bc[b].gen>>]
           /\ bc' = [bc EXCEPT ![b].m_input = @ \cup {p}]
           /\ UNCHANGED <<faults, closed>>
     \/ LookupFails(p) /\ UNCHANGED <<pc, bc>>
  /\ UNCHANGED <<delivered, cluster, changes, lost, twice, closing>>

AsyncClose(p) ==
  /\ Change /\ pc[p].status = "on"
  /\ pc' = [pc EXCEPT ![p].m_dying = TRUE, ![p].status = "closing"]
  /\ UNCHANGED <<bc, delivered, cluster, faults, lost, twice, clientVars>>

Triggered(q) == [q EXCEPT !.m_trigger = @ + 1]

\* Mutant: a failed Dispatch is not tried again.
DispatcherOnce(p) ==
  /\ pc[p].status # "ended" /\ pc[p].m_trigger > 0
  /\ pc' = [pc EXCEPT ![p].m_trigger = @ - 1]
  /\ \/ /\ cached' = Leaders /\ UNCHANGED <<faults, closed>>
        /\ LET b == cluster[p].leader IN
           bc' = IF b \in closed THEN bc ELSE [bc EXCEPT ![b].m_input = @ \cup {p}]
     \/ LookupFails(p) /\ UNCHANGED bc
  /\ UNCHANGED <<delivered, cluster, changes, lost, twice, closing>>

\* Dispatcher: ends if the child is dying; else, after a pause, Dispatch refreshes the
\* metadata and hands it to the leader's BrokerConsumer. A Dispatch that fails is tried
\* again: for ever, if the leader's Broker is closed. m_broker stays.
Dispatcher(p) ==
  /\ pc[p].status # "ended" /\ pc[p].m_trigger > 0
  /\ \/ /\ pc[p].m_dying
        /\ pc' = [pc EXCEPT ![p].m_trigger = @ - 1, ![p].m_dying = FALSE, ![p].status = "ended"]
        /\ UNCHANGED <<bc, faults, cached, closed>>
     \/ /\ ~pc[p].m_dying /\ cached' = Leaders
        /\ \E b \in Brokers \ closed :
             /\ b = cluster[p].leader
             /\ pc' = [pc EXCEPT ![p].m_trigger = @ - 1]
             /\ bc' = [bc EXCEPT ![b].m_input = @ \cup {p}]
        /\ UNCHANGED <<faults, closed>>
     \/ /\ ~pc[p].m_dying /\ cached' = Leaders /\ cluster[p].leader \in closed
        /\ UNCHANGED <<pc, bc, faults, closed>>
     \/ ~pc[p].m_dying /\ LookupFails(p) /\ UNCHANGED <<pc, bc>>
  /\ UNCHANGED <<delivered, cluster, changes, lost, twice, closing>>

-----------------------------------------------------------------------------
(* BrokerConsumer::SubscriptionManager                                             *)

\* The first child of a batch, or another one within PartitionConsumersBatchTimeout.
Collect(b) ==
  /\ \E p \in bc[b].m_input :
       bc' = [bc EXCEPT ![b].m_input = @ \ {p}, ![b].batch = @ \cup {p}]
  /\ UNCHANGED <<pc, delivered, cluster, changes, faults, lost, twice, clientVars>>

\* The batch replaces m_new_subscriptions, taken over or not.
BatchEnds(b) ==
  /\ bc[b].batch # {}
  /\ bc' = [bc EXCEPT ![b].batch = {}, ![b].m_new_subscriptions = bc[b].batch]
  /\ lost' = lost \cup (bc[b].m_new_subscriptions \ bc[b].batch)
  /\ UNCHANGED <<pc, delivered, cluster, changes, faults, twice, clientVars>>

-----------------------------------------------------------------------------
(* BrokerConsumer::SubscriptionConsumer                                            *)

\* add_block(): what is asked for of a child.
FetchOffset(q) == q.m_offset

\* UpdateSubscriptions, then FetchNewMessages sends the request. A dying child is
\* taken out and triggered, and its m_dying is used up by that.
Fetch(b) ==
  LET all == bc[b].m_subscriptions \cup bc[b].m_new_subscriptions
      dying == {p \in all : pc[p].m_dying}
  IN
  /\ bc[b].at = "top" /\ all # {}
  /\ pc' = [p \in Partitions |-> IF p \in dying THEN [Triggered(pc[p]) EXCEPT !.m_dying = FALSE]
                                 ELSE pc[p]]
  /\ bc' = [bc EXCEPT ![b].m_new_subscriptions = {}, ![b].m_subscriptions = all \ dying,
                      ![b].at = IF all = dying THEN "top" ELSE "asked",
                      ![b].asked = [p \in Partitions |-> IF p \in all \ dying THEN FetchOffset(pc[p]) ELSE 0]]
  /\ UNCHANGED <<delivered, cluster, changes, faults, lost, twice, clientVars>>

\* What b says of offset o of p: whole batches, so they may begin before o. (A
\* response that took too long to hand over is a timeout: its messages are delivered
\* all the same.)
Answers(b, p, o) ==
  IF cluster[p].leader # b THEN {Empty("moved")}
  ELSE IF o < cluster[p].oldest \/ o > cluster[p].next THEN {Empty("range")}
  ELSE IF o = cluster[p].next THEN {Empty("ok")}
  ELSE [result: {"ok", "timeout"}, first: cluster[p].oldest..o, end: (o + 1)..cluster[p].next]

\* The broker answers, over a connection still open; a partition may fail with an error of its own.
Answer(b) ==
  LET subs == bc[b].m_subscriptions
      says(p) == Answers(b, p, bc[b].asked[p])
  IN
  /\ bc[b].at = "asked" /\ b \notin closed
  /\ \E bad \in SUBSET subs :
     /\ IF bad = {} THEN UNCHANGED faults ELSE Fault
     /\ \E a \in [subs -> {Empty("error")} \cup UNION {says(p) : p \in subs}] :
          /\ \A p \in subs : a[p] \in IF p \in bad THEN {Empty("error")} ELSE says(p)
          /\ bc' = [bc EXCEPT ![b].at = "answered",
                              ![b].answer = [p \in Partitions |-> IF p \in subs THEN a[p] ELSE NoAnswer[p]]]
  /\ UNCHANGED <<pc, delivered, cluster, changes, lost, twice, clientVars>>

\* Mutant: the message at m_offset counts as delivered.
ParseRecordsAfter(q, from, end) ==
  LET first == IF from <= q.m_offset THEN q.m_offset + 1 ELSE from
  IN [i \in 1..(IF end > first THEN end - first ELSE 0) |-> first + i - 1]

\* ParseRecords: the offsets of [from, end) not below m_offset.
ParseRecords(q, from, end) ==
  LET first == IF from < q.m_offset THEN q.m_offset ELSE from
  IN [i \in 1..(IF end > first THEN end - first ELSE 0) |-> first + i - 1]

\* ResponseFeeder and ParseResponse for every child: the offset moves past the
\* records, by one if all of them were old; a dying child gets only some of them; after
\* a timeout the child goes to the channel of m_broker, in the map or not.
Feed(b) ==
  LET got(p) == ParseRecords(pc[p], bc[b].answer[p].first, bc[b].answer[p].end)
      records(p) == bc[b].answer[p].end > bc[b].answer[p].first
      cut(p) == pc[p].m_dying /\ bc[b].answer[p].result = "ok" /\ records(p) /\ got(p) # <<>>
      subs == bc[b].m_subscriptions
      late == {p \in subs : bc[b].answer[p].result = "timeout" /\ got(p) # <<>>}
      home(c) == {p \in late : pc[p].m_broker = <<c, bc[c].gen>>}
  IN
  /\ bc[b].at = "answered"
  /\ \E n \in [subs -> 0..MaxLog] :
       /\ \A p \in subs : IF cut(p) THEN n[p] < Len(got(p))
                          ELSE n[p] = IF records(p) THEN Len(got(p)) ELSE 0
       /\ delivered' = [p \in Partitions |->
                          IF p \in subs THEN delivered[p] \o SubSeq(got(p), 1, n[p]) ELSE delivered[p]]
  /\ pc' = [p \in Partitions |->
              IF p \notin subs THEN pc[p]
              ELSE [pc[p] EXCEPT
                      !.m_response_result = IF p \in late \/ bc[b].answer[p].result # "timeout"
                                              THEN bc[b].answer[p].result ELSE "ok",
                      !.m_dying = @ /\ ~cut(p),
                      !.m_offset = IF ~records(p) THEN @
                                   ELSE IF got(p) = <<>> THEN @ + 1 ELSE bc[b].answer[p].end]]
  /\ bc' = [c \in Brokers |->
              LET k == [bc[c] EXCEPT !.m_input = @ \cup home(c)] IN
              IF c # b THEN k
              ELSE [k EXCEPT !.at = "handle", !.todo = subs, !.answer = NoAnswer,
                             !.asked = [p \in Partitions |-> 0]]]
  /\ lost' = lost \cup (late \ UNION {home(c) : c \in Brokers})
  /\ twice' = twice \cup {p \in late : pc[p].m_broker[1] # b}
  /\ UNCHANGED <<cluster, changes, faults, clientVars>>

\* Mutant: a child whose partition moved is taken out and not triggered.
HandleForgotten(b, p) ==
  /\ bc[b].at = "handle" /\ p \in bc[b].todo
  /\ pc' = [pc EXCEPT ![p].m_response_result = "ok"]
  /\ bc' = [bc EXCEPT ![b].todo = @ \ {p}, ![b].at = IF bc[b].todo = {p} THEN "top" ELSE @,
                      ![b].m_subscriptions = IF cached[p] = b THEN @ ELSE @ \ {p}]
  /\ UNCHANGED <<delivered, cluster, changes, faults, lost, twice, clientVars>>

\* HandleResponses goes on to the next child.
Handled(b, p) == [bc EXCEPT ![b].todo = @ \ {p}, ![b].at = IF bc[b].todo = {p} THEN "top" ELSE @]
TakenOut(b, p) == [Handled(b, p) EXCEPT ![b].m_subscriptions = @ \ {p}]

\* HandleResponses for one child: it stays, when PreferredBroker finds b or no leader at
\* all; or is taken out and triggered so that its Dispatcher finds its leader; or, after a
\* timeout, is only taken out. With an offset out of range the child starts anew at
\* Offsets.Initial, stays, and is triggered as well.
Handle(b, p) ==
  LET r == pc[p].m_response_result
      q == [pc[p] EXCEPT !.m_response_result = "ok"]
      elsewhere == \E c \in Brokers \ {b} : Found(p, c)
  IN
  /\ bc[b].at = "handle" /\ p \in bc[b].todo
  /\ \/ /\ r = "ok" /\ ~elsewhere /\ cached' = Looked(p)
        /\ pc' = [pc EXCEPT ![p] = q] /\ bc' = Handled(b, p) /\ UNCHANGED twice
     \/ /\ r = "ok" /\ elsewhere /\ cached' = Looked(p)
        /\ pc' = [pc EXCEPT ![p] = Triggered(q)] /\ bc' = TakenOut(b, p) /\ UNCHANGED twice
     \/ /\ r \in {"moved", "error"}
        /\ pc' = [pc EXCEPT ![p] = Triggered(q)] /\ bc' = TakenOut(b, p)
        /\ UNCHANGED <<twice, cached>>
     \/ /\ r = "range" /\ (\E c \in Brokers : Asked(p, c))
        /\ twice' = twice \cup {p} /\ bc' = Handled(b, p)
        /\ \E o \in {cluster[p].oldest, cluster[p].next} :
             pc' = [pc EXCEPT ![p] = [Triggered(q) EXCEPT !.m_offset = o]]
     \/ /\ r = "timeout"
        /\ pc' = [pc EXCEPT ![p] = q] /\ bc' = TakenOut(b, p) /\ UNCHANGED <<twice, cached>>
  /\ UNCHANGED <<delivered, cluster, changes, faults, lost, closed, closing>>

\* The lookup of HandleResponses fails: without a leader the child stays; without a
\* starting offset it is triggered and taken out.
HandleFails(b, p) ==
  LET q == [pc[p] EXCEPT !.m_response_result = "ok"] IN
  /\ bc[b].at = "handle" /\ p \in bc[b].todo
  /\ \/ /\ pc[p].m_response_result = "ok" /\ LookupFails(p)
        /\ pc' = [pc EXCEPT ![p] = q] /\ bc' = Handled(b, p)
     \/ /\ pc[p].m_response_result = "range"
        /\ \/ LookupFails(p)
           \/ cluster[p].leader \in closed /\ cached' = Leaders /\ UNCHANGED <<faults, closed>>
        /\ pc' = [pc EXCEPT ![p] = Triggered(q)] /\ bc' = TakenOut(b, p)
  /\ UNCHANGED <<delivered, cluster, changes, lost, twice, closing>>

\* Abort: the request failed, as it does on a closed Broker. The BrokerConsumer leaves the
\* map, its children are triggered, those just taken over too; what its channel and its
\* batch hold is never looked at again. In the end the Broker is closed: at once if there
\* are new children, else after a sleep. (A BrokerConsumer that is no child's m_broker
\* frees itself by leaving the map; it is taken to go on all the same.)
Abort(b) ==
  LET told == bc[b].m_subscriptions \cup bc[b].m_new_subscriptions IN
  /\ bc[b].at = "asked"
  /\ IF b \in closed THEN UNCHANGED faults ELSE Fault
  /\ pc' = [p \in Partitions |-> IF p \in told THEN Triggered(pc[p]) ELSE pc[p]]
  /\ bc' = [bc EXCEPT ![b] = NewBrokerConsumer(bc[b].gen + 1)]
  /\ lost' = lost \cup bc[b].m_input \cup bc[b].batch
  /\ IF bc[b].m_new_subscriptions = {} THEN closing' = closing \cup {b} /\ UNCHANGED closed
     ELSE closed' = closed \cup {b} /\ UNCHANGED closing
  /\ UNCHANGED <<delivered, cluster, changes, twice, cached>>

ConsumerStep(b) ==
  Fetch(b) \/ Answer(b) \/ Feed(b) \/ (\E p \in Partitions : Handle(b, p) \/ HandleFails(b, p)) \/ Abort(b)

Next ==
  \/ \E p \in Partitions :
       Produce(p) \/ Trim(p) \/ Move(p) \/ ConsumePartition(p) \/ AsyncClose(p) \/ Dispatcher(p)
  \/ \E b \in Brokers : Collect(b) \/ BatchEnds(b) \/ ConsumerStep(b) \/ CloseBroker(b)
  \/ RefreshMetadata

\* Coroutines run and sleeps end; requests are answered or fail.
Fairness ==
  /\ \A p \in Partitions : WF_vars(Dispatcher(p))
  /\ \A b \in Brokers : WF_vars(BatchEnds(b)) /\ WF_vars(ConsumerStep(b)) /\ WF_vars(Collect(b))
                         /\ WF_vars(CloseBroker(b))

Spec == Init /\ [][Next]_vars /\ Fairness

-----------------------------------------------------------------------------
(* Properties                                                                      *)

Increasing(s) == \A i, j \in DOMAIN s : i < j => s[i] < s[j]

\* ParseRecords, HandleResponses, Dispatcher: no message is delivered twice and none
\* after a later one while a child is handed from broker to broker, closed and its
\* leader moves. (Except a child handed to a second BrokerConsumer while subscribed at
\* one, which an offset out of range does, and a timeout away from m_broker; its
\* messages can be repeated and skipped: see the README.)
DeliveredOnce == \A p \in Partitions : p \notin twice => Increasing(delivered[p])

\* The same, and a child that is not closed has been given every message from the
\* offset it started at up to m_offset.
NoGap ==
  \A p \in Partitions : p \notin twice /\ pc[p].status = "on" =>
    delivered[p] = [i \in 1..(pc[p].m_offset - pc[p].start) |-> pc[p].start + i - 1]

\* Delivery as a whole, the types included: every message once, in order, no gap.
DeliverySafe ==
  /\ TypeOK
  /\ DeliveredOnce
  /\ NoGap

\* The hand-over between Dispatcher, SubscriptionManager and SubscriptionConsumer: a
\* child that is consumed is subscribed, or on its way to be, or was overwritten in
\* m_new_subscriptions or left behind by an abort.
Owned ==
  \A p \in Partitions : pc[p].status \in {"on", "closing"} /\ p \notin lost =>
    \/ pc[p].m_trigger > 0
    \/ \E b \in Brokers : p \in bc[b].m_input \cup bc[b].batch
                                  \cup bc[b].m_new_subscriptions \cup bc[b].m_subscriptions

\* Consumer::ConsumePartition promises the messages of the partition: whatever moves
\* and fails, a child that is not closed, lost or subscribed twice ends up past the last
\* message, as long as the leader is a broker the client has not closed: no Dispatch ever
\* succeeds with one that an Abort or a failed GetOffset closed.
ReadToTheEnd ==
  \A p \in Partitions :
    <>[](pc[p].status = "on" /\ p \notin lost \cup twice /\ cluster[p].leader \notin closed
           => pc[p].m_offset >= cluster[p].next)
=============================================================================
