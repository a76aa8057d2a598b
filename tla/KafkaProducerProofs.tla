------------------------ MODULE KafkaProducerProofs ------------------------
(* Theorems about the producer pipeline (KafkaProducer), for any numbers of            *)
(* partitions, brokers, messages, retries and leader moves: no message is lost or        *)
(* answered twice, m_in_flight is exact, every chaser a PartitionProducer waits for is    *)
(* under way, and first turns are stored in order until the leader moves a second time.    *)
(*                                                                                         *)
(* The first three are statements about how many items of a set are in which queues, so    *)
(* their proof counts. A step is described by what each group of places gains of an         *)
(* arbitrary set T (Effect); the accounts of a message, m_in_flight and the chasers of a    *)
(* level are then the same sum taken for three choices of T. The last, about order, is at   *)
(* the end: the places of a first turn form a line, which no message leaves or overtakes    *)
(* in. What counting and rising mean for sequences is in QueueLemmas.                       *)
EXTENDS KafkaProducer, QueueLemmas

\* What travels in the pipeline: messages; chasers that come back, and that go out with
\* one retry less; the syn of a new BrokerProducer; the message of shutdown().
Payload(ps) == [id: 1..MaxSent, kind: {"msg"}, retries: Level, part: ps]
Returning(ps) == [id: {0}, kind: {"fin"}, retries: 1..RetryMax, part: ps]
Leaving == [id: {0}, kind: {"fin"}, retries: {l \in Level : l < RetryMax}, part: Partitions]
Syn == [id: {0}, kind: {"syn"}, retries: {0}, part: Partitions]
Stop == [id: {0}, kind: {"shutdown"}, retries: {0}, part: {NoPartition}]

\* What enters dispatcher(), a PartitionProducer and the retry queue, and what is sent
\* to a BrokerProducer.
Entering == Payload(Place) \cup Returning(Partitions) \cup Stop
Coming(ps) == Payload(ps) \cup Returning(ps)
Back == [id: 1..MaxSent, kind: {"msg"}, retries: 1..RetryMax, part: Partitions] \cup Returning(Partitions)
Going == Payload(Partitions) \cup Leaving \cup Syn

\* The states a PartitionProducer of p is in.
PartitionShape(p) ==
  [pc: {"off", "start", "ready", "send", "flush", "dead"},
   m_input: Seq(Coming({p})), msg: Message, m_broker_producer: Brokers \cup {Nobody},
   m_high_watermark: Level, buf: [Level -> Seq(Payload({p}))], expect: [Level -> BOOLEAN]]

\* The states a BrokerProducer is in: only messages get past run().
BrokerShape ==
  [m_input: Seq(Going), m_buffer: Seq(Payload(Partitions)), m_output: Seq(Seq(Payload(Partitions))),
   m_current_retries: [Partitions -> {"none", "ok", "err"}], flight: Seq(Payload(Partitions))]

\* Which items are in which queue: sharper than TypeOK, which it implies.
Shapes ==
  /\ sent \in 0..MaxSent
  /\ m_input \in Seq(Entering) /\ topic_input \in Seq(Payload(Place) \cup Returning(Partitions))
  /\ m_retries \in Seq(Back) /\ retry_buf \in Seq(Back)
  /\ pp \in [Partitions -> PartitionProducer] /\ \A p \in Partitions : pp[p] \in PartitionShape(p)
  /\ bp \in [Brokers -> BrokerShape]
  /\ m_replies \in [(0..MaxSent) \X BOOLEAN -> Nat] /\ closing \in {"no", "asked", "done"}
  /\ leader \in [Partitions -> [at: Brokers, was: SUBSET Brokers, moves: 0..MaxMoves]]
  /\ log \in [Partitions -> Seq(Message)] /\ \A p \in Partitions : log[p] \in Seq(Payload({p}))
  /\ dropped \subseteq 1..MaxSent

\* How many items of the whole pipeline are in T.
All(T) == Num(m_input, T) + Inside(T)

\* The replies that message id failed, and that it was stored.
Bad(id) == m_replies[<<id, FALSE>>]
Good(id) == m_replies[<<id, TRUE>>]

\* Every message sent is in one place, answered or dropped; what has no id is not answered.
Accounts ==
  /\ \A id \in 1..MaxSent :
       All(WithId({id})) + Bad(id) + Good(id) + Cardinality(dropped \cap {id})
         = IF id <= sent THEN 1 ELSE 0
  /\ Bad(0) = 0 /\ Good(0) = 0

\* The message m on this turn or an earlier one.
Older(m) == [id: {m.id}, kind: Kind, retries: {l \in Level : l <= m.retries}, part: Place]

\* The item e is in the log of partition p.
InLog(p, e) == \E i \in DOMAIN log[p] : log[p][i] = e

\* A message answered as stored is in a log; no log has an item twice; and of a message
\* in a log the pipeline holds later turns at most.
Stored ==
  /\ \A id \in 1..MaxSent : Good(id) > 0 =>
       \E p \in Partitions : \E e \in Payload({p}) : InLog(p, e) /\ e.id = id
  /\ \A p \in Partitions : IsInjective(log[p])
  /\ \A p \in Partitions : \A e \in Payload({p}) : InLog(p, e) => e.id <= sent /\ All(Older(e)) = 0

\* The chasers of level l that partition p has under way.
Chasers(p, l) ==
  Num(m_input, Fin(p, l)) + BeforeBrokers(Fin(p, l))
    + NumIn(BrokerQueue, Fin(p, l - 1)) + NumIn(BrokerSets, Fin(p, l))

\* There is one for every level whose chaser the PartitionProducer expects, and no other.
Expected ==
  \A p \in Partitions, l \in 1..RetryMax : Chasers(p, l) = IF pp[p].expect[l] THEN 1 ELSE 0

\* What m_high_watermark says of a PartitionProducer r.
Watermark(p, r) ==
  /\ r.pc = "send" => r.msg \in Payload({p})
  /\ r.pc = "flush" => r.m_high_watermark > 0 /\ ~r.expect[r.m_high_watermark]
  /\ r.m_high_watermark > 0 /\ r.pc # "flush" => r.expect[r.m_high_watermark]
  /\ \A l \in Level : l > r.m_high_watermark => ~r.expect[l]
  /\ \A l \in Level : l >= r.m_high_watermark => r.buf[l] = <<>>

\* The inductive invariant.
ProducerInv ==
  /\ Shapes /\ Accounts /\ Stored /\ InFlightExact /\ Expected
  /\ \A p \in Partitions : Watermark(p, pp[p])

-----------------------------------------------------------------------------
(* Types                                                                           *)

\* A queue of items of A is one of items of any larger set.
LEMMA SeqWiden ==
  ASSUME NEW A, NEW B, A \subseteq B, NEW s \in Seq(A)
  PROVE  s \in Seq(B)
OBVIOUS

\* Whatever travels is a Message.
LEMMA ItemTypes ==
  /\ \A ps : ps \subseteq Place => Payload(ps) \subseteq Message /\ Returning(ps) \subseteq Message
  /\ Leaving \subseteq Message /\ Syn \subseteq Message /\ Stop \subseteq Message
BY KafkaProducerAssumption DEF Payload, Returning, Leaving, Syn, Stop, Message, Id, Kind, Level, Place

\* Which kinds of items each queue may hold, as subsets of Message.
LEMMA ItemSets ==
  /\ Entering \subseteq Message /\ Going \subseteq Message /\ Coming(Partitions) \subseteq Message
  /\ Coming(Partitions) \subseteq Entering /\ Back \subseteq Coming(Partitions) /\ Back \subseteq Message
  /\ Payload(Place) \cup Returning(Partitions) \subseteq Entering
  /\ Payload(Partitions) \subseteq Payload(Place)
  /\ \A p \in Partitions : /\ Coming({p}) \subseteq Coming(Partitions)
                           /\ Payload({p}) \subseteq Payload(Partitions)
                           /\ Payload({p}) \subseteq Coming({p})
<1>1. Partitions \subseteq Place /\ Place \subseteq Place /\ \A p \in Partitions : {p} \subseteq Partitions
  BY DEF Place
<1>2. \A ps, qs : ps \subseteq qs => Payload(ps) \subseteq Payload(qs) /\ Returning(ps) \subseteq Returning(qs)
  BY DEF Payload, Returning
<1>3. Back \subseteq Coming(Partitions)
  BY KafkaProducerAssumption DEF Back, Coming, Payload, Level
<1>4. /\ Entering \subseteq Message /\ Going \subseteq Message /\ Coming(Partitions) \subseteq Message
      /\ Coming(Partitions) \subseteq Entering
      /\ Payload(Place) \cup Returning(Partitions) \subseteq Entering
      /\ Payload(Partitions) \subseteq Payload(Place)
  BY <1>1, <1>2, ItemTypes, Zenon DEF Entering, Going, Coming
<1>5. Back \subseteq Message
  BY <1>3, <1>4
<1>6. QED
  BY <1>1, <1>2, <1>3, <1>4, <1>5, Zenon DEF Coming

\* The shape of a PartitionProducer is within its type.
LEMMA PartitionShapeType == \A p \in Partitions : PartitionShape(p) \subseteq PartitionProducer
<1> SUFFICES ASSUME NEW p \in Partitions, NEW r \in PartitionShape(p) PROVE r \in PartitionProducer
  OBVIOUS
<1>1. Coming({p}) \subseteq Message /\ Payload({p}) \subseteq Message
  BY ItemSets, ItemTypes DEF Coming
<1>2. r.m_input \in Seq(Message)
  BY <1>1, SeqWiden DEF PartitionShape
<1>3. r.buf \in [Level -> Seq(Message)]
  <2>1. r.buf \in [Level -> Seq(Payload({p}))]
    BY DEF PartitionShape
  <2>2. Seq(Payload({p})) \subseteq Seq(Message)
    BY <1>1, SeqWiden
  <2>3. QED
    BY <2>1, <2>2
<1>4. QED
  BY <1>2, <1>3 DEF PartitionShape, PartitionProducer

\* The shape of a BrokerProducer is within its type.
LEMMA BrokerShapeType == BrokerShape \subseteq BrokerProducer
<1> SUFFICES ASSUME NEW r \in BrokerShape PROVE r \in BrokerProducer
  OBVIOUS
<1>1. Payload(Partitions) \subseteq Message /\ Going \subseteq Message
  BY ItemSets DEF Coming
<1>2. Seq(Payload(Partitions)) \subseteq Seq(Message)
  BY <1>1, SeqWiden
<1>3. r.m_output \in Seq(Seq(Message)) /\ r.m_input \in Seq(Message)
  BY <1>1, <1>2, SeqWiden DEF BrokerShape
<1>4. QED
  BY <1>2, <1>3 DEF BrokerShape, BrokerProducer

\* Waiting for the coroutine of a PartitionProducer, and the sets of a BrokerProducer.
Waiting(r) == r.m_input \o (IF r.pc = "send" THEN <<r.msg>> ELSE <<>>)
\* The messages in the batches of a BrokerProducer: in flight, made, being made.
Sets(r) == r.flight \o FlattenSeq(r.m_output) \o r.m_buffer

\* How many items wait at a PartitionProducer.
LEMMA WaitingType ==
  ASSUME NEW r \in PartitionProducer
  PROVE  /\ Waiting(r) \in Seq(Message)
         /\ \A T : Num(Waiting(r), T) = Num(r.m_input, T) + (IF r.pc = "send" THEN One(r.msg, T) ELSE 0)
<1>0. r.m_input \in Seq(Message) /\ r.msg \in Message
  BY DEF PartitionProducer
<1>1. <<r.msg>> \in Seq(Message) /\ <<>> \in Seq(Message)
  BY <1>0
<1>2. PICK s \in Seq(Message) : s = IF r.pc = "send" THEN <<r.msg>> ELSE <<>>
  BY <1>1, Zenon
<1>3. r.m_input \o s \in Seq(Message)
  BY <1>0, ConcatProperties
<1>4. \A T : Num(s, T) = IF r.pc = "send" THEN One(r.msg, T) ELSE 0
  BY <1>2, NumOne, NumEmpty, Zenon
<1>5. \A T : Num(r.m_input \o s, T) = Num(r.m_input, T) + Num(s, T)
  BY <1>0, NumConcat
<1>6. r.m_input \o s = Waiting(r)
  BY <1>2, Zenon DEF Waiting
<1>7. QED
  BY <1>3, <1>4, <1>5, <1>6, Zenon

\* How many messages the batches of a BrokerProducer hold.
LEMMA SetsType ==
  ASSUME NEW r \in BrokerProducer
  PROVE  /\ Sets(r) \in Seq(Message) /\ FlattenSeq(r.m_output) \in Seq(Message)
         /\ \A T : Num(Sets(r), T) = Num(r.flight, T) + Num(FlattenSeq(r.m_output), T) + Num(r.m_buffer, T)
<1>1. r.flight \in Seq(Message) /\ r.m_output \in Seq(Seq(Message)) /\ r.m_buffer \in Seq(Message)
  BY DEF BrokerProducer
<1>2. PICK f \in Seq(Message) : f = FlattenSeq(r.m_output)
  BY <1>1, FlatPush, EmptySeq
<1>3. PICK u \in Seq(Message) : u = r.flight \o f
  BY <1>1, ConcatProperties
<1>4. PICK v \in Seq(Message) : v = u \o r.m_buffer
  BY <1>1, ConcatProperties
<1>5. ASSUME NEW T PROVE Num(v, T) = Num(r.flight, T) + Num(f, T) + Num(r.m_buffer, T)
  <2>1. Num(u, T) = Num(r.flight, T) + Num(f, T)
    BY <1>1, <1>3, NumConcat
  <2>2. Num(v, T) = Num(u, T) + Num(r.m_buffer, T)
    BY <1>1, <1>4, NumConcat
  <2>3. QED
    BY <2>1, <2>2
<1>6. v = Sets(r)
  BY <1>2, <1>3, <1>4, Zenon DEF Sets
<1>7. QED
  BY <1>2, <1>5, <1>6, Zenon

\* Every queue is a queue of messages.
Queued ==
  /\ m_input \in Seq(Message) /\ topic_input \in Seq(Message)
  /\ m_retries \in Seq(Message) /\ retry_buf \in Seq(Message)
  /\ pp \in [Partitions -> PartitionProducer] /\ bp \in [Brokers -> BrokerProducer]
  /\ PartitionQueue \in [Partitions -> Seq(Message)]
  /\ RetryBuffer \in [Partitions \X Level -> Seq(Message)]
  /\ BrokerQueue \in [Brokers -> Seq(Message)] /\ BrokerSets \in [Brokers -> Seq(Message)]

\* The shapes give the types of all queues.
LEMMA ShapesQueued == Shapes => Queued
<1> SUFFICES ASSUME Shapes PROVE Queued
  OBVIOUS
<1>1. m_input \in Seq(Message) /\ topic_input \in Seq(Message)
  BY ItemSets, SeqWiden DEF Shapes
<1>2. m_retries \in Seq(Message) /\ retry_buf \in Seq(Message)
  BY ItemSets, SeqWiden DEF Shapes
<1>3. pp \in [Partitions -> PartitionProducer]
  BY DEF Shapes
<1>4. bp \in [Brokers -> BrokerProducer]
  BY BrokerShapeType DEF Shapes
<1>5. PartitionQueue \in [Partitions -> Seq(Message)]
  <2>1. \A p \in Partitions : Waiting(pp[p]) \in Seq(Message)
    BY <1>3, WaitingType
  <2>2. QED
    BY <2>1, Zenon DEF PartitionQueue, Waiting
<1>6. RetryBuffer \in [Partitions \X Level -> Seq(Message)]
  <2>1. \A x \in Partitions \X Level : pp[x[1]].buf[x[2]] \in Seq(Message)
    BY <1>3 DEF PartitionProducer
  <2>2. QED
    BY <2>1, Zenon DEF RetryBuffer
<1>7. BrokerQueue \in [Brokers -> Seq(Message)]
  BY <1>4 DEF BrokerQueue, BrokerProducer
<1>8. BrokerSets \in [Brokers -> Seq(Message)]
  <2>1. \A b \in Brokers : Sets(bp[b]) \in Seq(Message)
    BY <1>4, SetsType
  <2>2. QED
    BY <2>1, Zenon DEF BrokerSets, Sets
<1>9. QED
  BY <1>1, <1>2, <1>3, <1>4, <1>5, <1>6, <1>7, <1>8 DEF Queued

\* The same after a step.
LEMMA ShapesQueuedNext == Shapes' => Queued'
BY ShapesQueued, PTL

\* Every count of items of T is a number.
Counts(T) ==
  /\ Num(m_input, T) \in Nat /\ Num(topic_input, T) \in Nat
  /\ Num(m_retries, T) \in Nat /\ Num(retry_buf, T) \in Nat
  /\ NumIn(PartitionQueue, T) \in Nat /\ NumIn(RetryBuffer, T) \in Nat
  /\ NumIn(BrokerQueue, T) \in Nat /\ NumIn(BrokerSets, T) \in Nat
  /\ BeforeBrokers(T) \in Nat /\ Inside(T) \in Nat /\ All(T) \in Nat

\* Queues can be counted over: there are finitely many of each kind.
LEMMA FinitePlaces == IsFiniteSet(Partitions) /\ IsFiniteSet(Brokers) /\ IsFiniteSet(Partitions \X Level)
<1>0. 0 \in Int /\ RetryMax \in Int
  BY KafkaProducerAssumption
<1>1. IsFiniteSet(Level)
  BY <1>0, FS_Interval, Zenon DEF Level
<1>2. QED
  BY <1>1, FS_Product, KafkaProducerAssumption

\* Queues of the right types have numbers of items.
LEMMA QueuedCounts == Queued => \A T : Counts(T)
<1> SUFFICES ASSUME Queued, NEW T PROVE Counts(T)
  OBVIOUS
<1>1. /\ Num(m_input, T) \in Nat /\ Num(topic_input, T) \in Nat
      /\ Num(m_retries, T) \in Nat /\ Num(retry_buf, T) \in Nat
  BY NumPositions DEF Queued
<1>2. NumIn(PartitionQueue, T) \in Nat
  BY FinitePlaces, SlotsFinite DEF Queued
<1>3. NumIn(RetryBuffer, T) \in Nat
  BY FinitePlaces, SlotsFinite DEF Queued
<1>4. NumIn(BrokerQueue, T) \in Nat /\ NumIn(BrokerSets, T) \in Nat
  BY FinitePlaces, SlotsFinite DEF Queued
<1>5. QED
  BY <1>1, <1>2, <1>3, <1>4 DEF Counts, BeforeBrokers, Inside, All

\* Every count is a number.
LEMMA CountsNow == Shapes => \A T : Counts(T)
BY ShapesQueued, QueuedCounts

\* Every count is a number after a step.
LEMMA CountsNext == Shapes' => \A T : Counts(T)'
<1>1. (Shapes => \A T : Counts(T))'
  BY CountsNow, PTL
<1>2. QED
  BY <1>1

-----------------------------------------------------------------------------
(* What a step changes in the counts                                               *)

\* What the counts over all partitions gain when one of them changes.
LEMMA PartitionChange ==
  ASSUME Shapes, NEW p \in Partitions, NEW q \in PartitionProducer, pp' = [pp EXCEPT ![p] = q],
         NEW k \in Level, \A l \in Level : l # k => q.buf[l] = pp[p].buf[l], NEW T
  PROVE  /\ NumIn(PartitionQueue, T)' + Num(Waiting(pp[p]), T)
               = NumIn(PartitionQueue, T) + Num(Waiting(q), T)
         /\ NumIn(RetryBuffer, T)' + Num(pp[p].buf[k], T)
               = NumIn(RetryBuffer, T) + Num(q.buf[k], T)
<1>0. Queued
  BY ShapesQueued
<1>1. pp \in [Partitions -> PartitionProducer] /\ pp' \in [Partitions -> PartitionProducer]
  BY <1>0 DEF Queued
<1>2. pp'[p] = q /\ \A x \in Partitions : x # p => pp'[x] = pp[x]
  BY <1>1
<1>3. PICK u \in [Partitions -> Seq(Message)] : u = [x \in Partitions |-> Waiting(pp[x])]
  BY <1>1, WaitingType
<1>4. PICK v \in [Partitions -> Seq(Message)] : v = [x \in Partitions |-> Waiting(pp'[x])]
  BY <1>1, WaitingType
<1>5. PartitionQueue = u /\ PartitionQueue' = v
  BY <1>3, <1>4, Zenon DEF PartitionQueue, Waiting
<1>6. u[p] = Waiting(pp[p]) /\ v[p] = Waiting(q) /\ SameBut(u, v, Partitions, p)
  BY <1>2, <1>3, <1>4 DEF SameBut
<1>7. Shifts(u, v, p, T)
  BY <1>6, FinitePlaces, NumInChange, Zenon
<1>8. NumIn(PartitionQueue, T)' = NumIn(v, T)
  BY <1>5
<1>9. PICK X : X = Partitions \X Level
  OBVIOUS
<1>10. PICK f \in [X -> Seq(Message)] : f = [x \in X |-> pp[x[1]].buf[x[2]]]
  <2>1. \A x \in X : pp[x[1]].buf[x[2]] \in Seq(Message)
    BY <1>1, <1>9 DEF PartitionProducer
  <2>2. QED
    BY <2>1, Zenon
<1>11. PICK g \in [X -> Seq(Message)] : g = [x \in X |-> pp'[x[1]].buf[x[2]]]
  <2>1. \A x \in X : pp'[x[1]].buf[x[2]] \in Seq(Message)
    BY <1>1, <1>9 DEF PartitionProducer
  <2>2. QED
    BY <2>1, Zenon
<1>12. RetryBuffer = f /\ RetryBuffer' = g
  BY <1>9, <1>10, <1>11, Zenon DEF RetryBuffer
<1>13. PICK y \in X : y = <<p, k>>
  BY <1>9
<1>14. f[y] = pp[p].buf[k] /\ g[y] = q.buf[k]
  BY <1>2, <1>10, <1>11, <1>13
<1>15. ASSUME NEW x \in X, x # y PROVE g[x] = f[x]
  <2>1. PICK a \in Partitions, l \in Level : x = <<a, l>>
    BY <1>9
  <2>2. a # p \/ l # k
    BY <1>13, <1>15, <2>1
  <2>3. f[x] = pp[a].buf[l] /\ g[x] = pp'[a].buf[l]
    BY <1>10, <1>11, <2>1
  <2>4. QED
    BY <1>2, <2>2, <2>3
<1>16. Shifts(f, g, y, T)
  <2>1. SameBut(f, g, X, y) /\ IsFiniteSet(X)
    BY <1>9, <1>15, FinitePlaces, Zenon DEF SameBut
  <2>2. QED
    BY <2>1, NumInChange, Zenon
<1>17. NumIn(RetryBuffer, T)' = NumIn(g, T)
  BY <1>12
<1>18. QED
  BY <1>5, <1>6, <1>7, <1>8, <1>12, <1>14, <1>16, <1>17, Zenon DEF Shifts

\* What the counts over all brokers gain when one of them changes.
LEMMA BrokerChange ==
  ASSUME Shapes, NEW b \in Brokers, NEW r \in BrokerProducer, bp' = [bp EXCEPT ![b] = r], NEW T
  PROVE  /\ NumIn(BrokerQueue, T)' + Num(bp[b].m_input, T)
               = NumIn(BrokerQueue, T) + Num(r.m_input, T)
         /\ NumIn(BrokerSets, T)' + Num(Sets(bp[b]), T) = NumIn(BrokerSets, T) + Num(Sets(r), T)
<1>0. Queued
  BY ShapesQueued
<1>1. bp \in [Brokers -> BrokerProducer] /\ bp' \in [Brokers -> BrokerProducer]
  BY <1>0 DEF Queued
<1>2. bp'[b] = r /\ \A x \in Brokers : x # b => bp'[x] = bp[x]
  BY <1>1
<1>3. PICK u \in [Brokers -> Seq(Message)] : u = [x \in Brokers |-> Sets(bp[x])]
  BY <1>1, SetsType
<1>4. PICK v \in [Brokers -> Seq(Message)] : v = [x \in Brokers |-> Sets(bp'[x])]
  BY <1>1, SetsType
<1>5. BrokerSets = u /\ BrokerSets' = v
  BY <1>3, <1>4, Zenon DEF BrokerSets, Sets
<1>6. u[b] = Sets(bp[b]) /\ v[b] = Sets(r) /\ SameBut(u, v, Brokers, b)
  BY <1>2, <1>3, <1>4 DEF SameBut
<1>7. Shifts(u, v, b, T)
  BY <1>6, FinitePlaces, NumInChange, Zenon
<1>8. NumIn(BrokerSets, T)' = NumIn(v, T)
  BY <1>5
<1>10. PICK f \in [Brokers -> Seq(Message)] : f = [x \in Brokers |-> bp[x].m_input]
  BY <1>1 DEF BrokerProducer
<1>11. PICK g \in [Brokers -> Seq(Message)] : g = [x \in Brokers |-> bp'[x].m_input]
  BY <1>1 DEF BrokerProducer
<1>12. BrokerQueue = f /\ BrokerQueue' = g
  BY <1>10, <1>11, Zenon DEF BrokerQueue
<1>13. f[b] = bp[b].m_input /\ g[b] = r.m_input /\ SameBut(f, g, Brokers, b)
  BY <1>2, <1>10, <1>11 DEF SameBut
<1>14. Shifts(f, g, b, T)
  BY <1>13, FinitePlaces, NumInChange, Zenon
<1>15. NumIn(BrokerQueue, T)' = NumIn(g, T)
  BY <1>12
<1>18. QED
  BY <1>5, <1>6, <1>7, <1>8, <1>12, <1>13, <1>14, <1>15, Zenon DEF Shifts

-----------------------------------------------------------------------------
(* Which items a set counts                                                        *)

\* The items that m_in_flight counts while they are in m_input.
Taken == AtLevel({l \in Level : l > 0}) \cup [id: Id, kind: {"shutdown"}, retries: Level, part: Place]
\* The items that are no messages of the application.
Marks == Returning(Partitions) \cup Leaving \cup Syn \cup Stop

\* What a message counts for.
LEMMA OnePayload ==
  ASSUME NEW m \in Payload(Place)
  PROVE  /\ One(m, Message) = 1 /\ \A p, l : One(m, Fin(p, l)) = 0
         /\ One(m, Taken) = IF m.retries > 0 THEN 1 ELSE 0
         /\ One(m, WithId({0})) = 0
<1>1. m \in Message
  BY ItemTypes
<1>2. \A p, l : m \notin Fin(p, l)
  BY DEF Payload, Fin
<1>3. m \in Taken <=> m.retries > 0
  BY DEF Payload, Taken, AtLevel, Kind, Id
<1>4. m \notin WithId({0})
  BY DEF Payload, WithId
<1>5. QED
  BY <1>1, <1>2, <1>3, <1>4, Zenon DEF One

\* What a mark counts for.
LEMMA OneMark ==
  ASSUME NEW m \in Marks
  PROVE  /\ One(m, Message) = 1
         /\ \A id \in 1..MaxSent : One(m, WithId({id})) = 0
         /\ \A e \in Payload(Place) : One(m, Older(e)) = 0
<1>1. m \in Message
  BY ItemTypes DEF Marks, Place
<1>0. m.id = 0
  BY DEF Marks, Returning, Leaving, Syn, Stop
<1>2. \A id \in 1..MaxSent : m \notin WithId({id})
  BY <1>0 DEF WithId
<1>3. \A e \in Payload(Place) : m \notin Older(e)
  BY <1>0 DEF Older, Payload
<1>5. QED
  BY <1>1, <1>2, <1>3, Zenon DEF One

\* What a chaser counts for.
LEMMA OneFin ==
  ASSUME NEW m \in Returning(Partitions) \cup Leaving, NEW p, NEW l
  PROVE  One(m, Fin(p, l)) = IF m.part = p /\ m.retries = l THEN 1 ELSE 0
<1>1. m \in Fin(p, l) <=> m.part = p /\ m.retries = l
  BY KafkaProducerAssumption DEF Returning, Leaving, Fin, Id
<1>2. QED
  BY <1>1, Zenon DEF One

\* A syn and a shutdown message are no chasers.
LEMMA OneOther ==
  ASSUME NEW m \in Syn \cup Stop, NEW p, NEW l
  PROVE  One(m, Fin(p, l)) = 0
<1>1. m \notin Fin(p, l)
  BY DEF Syn, Stop, Fin
<1>2. QED
  BY <1>1, Zenon DEF One

\* A queue of messages has no chaser in it.
LEMMA NumPayload ==
  ASSUME NEW s \in Seq(Payload(Place))
  PROVE  /\ Num(s, Message) = Len(s) /\ \A p, l : Num(s, Fin(p, l)) = 0
         /\ Num(s, WithId({0})) = 0 /\ Len(s) \in Nat
<1>1. Payload(Place) \subseteq Message
  BY ItemTypes
<1>2. Num(s, Message) = Len(s)
  BY <1>1, NumAll
<1>3. \A i \in 1..Len(s) : s[i] \in Payload(Place)
  OBVIOUS
<1>4. ASSUME NEW p, NEW l PROVE Num(s, Fin(p, l)) = 0
  <2>1. \A i \in 1..Len(s) : s[i] \notin Fin(p, l)
    BY <1>3 DEF Payload, Fin
  <2>2. QED
    BY <2>1, NumZero
<1>5. Num(s, WithId({0})) = 0
  <2>1. \A i \in 1..Len(s) : s[i] \notin WithId({0})
    BY <1>3 DEF Payload, WithId
  <2>2. QED
    BY <2>1, NumZero
<1>6. QED
  BY <1>2, <1>4, <1>5

-----------------------------------------------------------------------------
(* Replies                                                                         *)

\* The places of the replies of a message.
LEMMA Pairs ==
  ASSUME NEW id \in 0..MaxSent
  PROVE  /\ <<id, FALSE>> \in (0..MaxSent) \X BOOLEAN /\ <<id, FALSE>>[1] = id /\ ~<<id, FALSE>>[2]
         /\ <<id, TRUE>> \in (0..MaxSent) \X BOOLEAN /\ <<id, TRUE>>[1] = id /\ <<id, TRUE>>[2]
<1>1. TRUE \in BOOLEAN /\ FALSE \in BOOLEAN
  OBVIOUS
<1>2. QED
  BY <1>1, Zenon

\* The replies of each kind are counted by numbers.
LEMMA RepliesNat == Shapes => \A id \in 0..MaxSent : Bad(id) \in Nat /\ Good(id) \in Nat
<1> SUFFICES ASSUME Shapes, NEW id \in 0..MaxSent PROVE Bad(id) \in Nat /\ Good(id) \in Nat
  OBVIOUS
<1>1. m_replies \in [(0..MaxSent) \X BOOLEAN -> Nat]
  BY DEF Shapes
<1>2. QED
  BY <1>1, Pairs, Zenon DEF Bad, Good

\* What reply() adds to the replies of each message.
LEMMA ReplyCounts ==
  ASSUME Shapes, NEW errs \in Seq(Payload(Place)), NEW oks \in Seq(Payload(Place)),
         m_replies' = Replied(errs, oks)
  PROVE  /\ m_replies' \in [(0..MaxSent) \X BOOLEAN -> Nat]
         /\ \A id \in 0..MaxSent : /\ Bad(id)' = Bad(id) + Num(errs, WithId({id}))
                                   /\ Good(id)' = Good(id) + Num(oks, WithId({id}))
         /\ Bad(0)' = Bad(0) /\ Good(0)' = Good(0)
<1>0. \A id \in 0..MaxSent : Bad(id) \in Nat /\ Good(id) \in Nat
  BY RepliesNat
<1>1. m_replies \in [(0..MaxSent) \X BOOLEAN -> Nat]
  BY DEF Shapes
<1>2. \A id : Num(errs, WithId({id})) \in Nat /\ Num(oks, WithId({id})) \in Nat
  BY NumPositions
<1>3. CASE errs \o oks = <<>>
  <2>1. errs = <<>> /\ oks = <<>>
    BY <1>3
  <2>2. m_replies' = m_replies
    BY <1>3 DEF Replied
  <2>3. \A id : Num(errs, WithId({id})) = 0 /\ Num(oks, WithId({id})) = 0
    BY <2>1, NumEmpty, Zenon
  <2>4. \A id : Bad(id)' = Bad(id) /\ Good(id)' = Good(id)
    BY <2>2, Zenon DEF Bad, Good
  <2>5. m_replies' \in [(0..MaxSent) \X BOOLEAN -> Nat]
    BY <1>1, <2>2
  <2>6. ASSUME NEW id \in 0..MaxSent
        PROVE  /\ Bad(id)' = Bad(id) + Num(errs, WithId({id}))
               /\ Good(id)' = Good(id) + Num(oks, WithId({id}))
    <3>1. Num(errs, WithId({id})) = 0 /\ Num(oks, WithId({id})) = 0
      BY <2>3, Zenon
    <3>2. Bad(id)' = Bad(id) /\ Good(id)' = Good(id) /\ Bad(id) \in Nat /\ Good(id) \in Nat
      BY <1>0, <2>4, Zenon
    <3>3. QED
      BY <3>1, <3>2
  <2>7. Bad(0)' = Bad(0) /\ Good(0)' = Good(0)
    BY <2>4, Zenon
  <2>8. QED
    BY <2>5, <2>6, <2>7, Zenon
<1>4. CASE errs \o oks # <<>>
  <2>1. DOMAIN m_replies = (0..MaxSent) \X BOOLEAN
    BY <1>1
  <2>2. m_replies' = [r \in (0..MaxSent) \X BOOLEAN |->
                        m_replies[r] + Num(IF r[2] THEN oks ELSE errs, WithId({r[1]}))]
    BY <1>4, <2>1 DEF Replied
  <2>3. ASSUME NEW r \in (0..MaxSent) \X BOOLEAN
        PROVE  m_replies[r] + Num(IF r[2] THEN oks ELSE errs, WithId({r[1]})) \in Nat
    <3>1. Num(IF r[2] THEN oks ELSE errs, WithId({r[1]})) \in Nat
      BY <1>2, Zenon
    <3>2. QED
      BY <1>1, <3>1
  <2>4. m_replies' \in [(0..MaxSent) \X BOOLEAN -> Nat]
    BY <2>2, <2>3
  <2>5. ASSUME NEW id \in 0..MaxSent
        PROVE  /\ Bad(id)' = Bad(id) + Num(errs, WithId({id}))
               /\ Good(id)' = Good(id) + Num(oks, WithId({id}))
    <3>1. PICK x \in (0..MaxSent) \X BOOLEAN : x = <<id, FALSE>> /\ x[1] = id /\ ~x[2]
      BY Pairs, Zenon
    <3>2. PICK y \in (0..MaxSent) \X BOOLEAN : y = <<id, TRUE>> /\ y[1] = id /\ y[2]
      BY Pairs, Zenon
    <3>3. m_replies'[x] = m_replies[x] + Num(errs, WithId({id}))
      BY <2>2, <3>1, Zenon
    <3>4. m_replies'[y] = m_replies[y] + Num(oks, WithId({id}))
      BY <2>2, <3>2, Zenon
    <3>5. QED
      BY <3>1, <3>2, <3>3, <3>4, Zenon DEF Bad, Good
  <2>6. 0 \in 0..MaxSent
    BY KafkaProducerAssumption
  <2>7. Num(errs, WithId({0})) = 0 /\ Num(oks, WithId({0})) = 0
    BY NumPayload
  <2>8. QED
    BY <1>0, <2>4, <2>5, <2>6, <2>7
<1>5. QED
  BY <1>3, <1>4

\* The replies are numbers after a step.
LEMMA RepliesNatNext == Shapes' => \A id \in 0..MaxSent : Bad(id)' \in Nat /\ Good(id)' \in Nat
<1>1. (Shapes => \A id \in 0..MaxSent : Bad(id) \in Nat /\ Good(id) \in Nat)'
  BY RepliesNat, PTL
<1>2. QED
  BY <1>1

\* A step that answers errs, and moves the other messages or leaves them where they are.
Balanced(errs) ==
  /\ \A id \in 1..MaxSent : All(WithId({id}))' + Num(errs, WithId({id})) = All(WithId({id}))
  /\ \A e \in Payload(Place) : All(Older(e))' <= All(Older(e))

\* While the log stays and nothing older than what is in it appears, Stored stays.
LEMMA KeepStored ==
  ASSUME Shapes, Stored, Shapes', log' = log, sent <= sent',
         \A id \in 1..MaxSent : Good(id)' = Good(id),
         \A e \in Payload(Place) : e.id <= sent => All(Older(e))' <= All(Older(e))
  PROVE  Stored'
<1>5. \A T : Counts(T)'
  BY CountsNext
<1>10. \A p, e : InLog(p, e)' <=> InLog(p, e)
  BY Zenon DEF InLog
<1>11. ASSUME NEW id \in 1..MaxSent, Good(id)' > 0
       PROVE  \E p \in Partitions : \E e \in Payload({p}) : InLog(p, e)' /\ e.id = id
  <2>2. Good(id) > 0
    BY <1>11, Zenon
  <2>3. QED
    BY <1>10, <2>2, Zenon DEF Stored
<1>12. ASSUME NEW p \in Partitions, NEW e \in Payload({p}), InLog(p, e)'
       PROVE  e.id <= sent' /\ All(Older(e))' = 0
  <2>0. sent \in 0..MaxSent /\ sent' \in 0..MaxSent
    BY DEF Shapes
  <2>1. e \in Payload(Place) /\ e.id \in Nat /\ sent \in Nat /\ sent' \in Nat
    <3>1. e \in Payload(Place)
      BY ItemSets, Zenon
    <3>2. e.id \in 1..MaxSent
      BY DEF Payload
    <3>3. QED
      BY <2>0, <3>1, <3>2, KafkaProducerAssumption
  <2>2. InLog(p, e)
    BY <1>10, <1>12, Zenon
  <2>3. e.id <= sent /\ All(Older(e)) = 0
    BY <2>2 DEF Stored
  <2>4. All(Older(e))' <= All(Older(e)) /\ All(Older(e))' \in Nat
    BY <1>5, <2>1, <2>3 DEF Counts
  <2>5. QED
    BY <2>1, <2>3, <2>4
<1>13. \A p \in Partitions : IsInjective(log[p])'
  BY Zenon DEF Stored
<1>14. QED
  BY <1>11, <1>12, <1>13, Zenon DEF Stored

\* A balanced step keeps the accounts.
LEMMA KeepAccounts ==
  ASSUME ProducerInv, Shapes', NEW errs \in Seq(Payload(Place)), m_replies' = Replied(errs, <<>>),
         UNCHANGED <<sent, log, dropped>>, Balanced(errs)
  PROVE  Accounts' /\ Stored'
<1>0. Shapes /\ Accounts /\ Stored
  BY DEF ProducerInv
<1>1. <<>> \in Seq(Payload(Place))
  OBVIOUS
<1>2. /\ \A id \in 0..MaxSent : Bad(id)' = Bad(id) + Num(errs, WithId({id}))
      /\ \A id \in 0..MaxSent : Good(id)' = Good(id) + Num(<<>>, WithId({id}))
      /\ Bad(0)' = Bad(0) /\ Good(0)' = Good(0)
  BY <1>0, <1>1, ReplyCounts
<1>3. \A id \in 0..MaxSent : Num(errs, WithId({id})) \in Nat /\ Num(<<>>, WithId({id})) = 0
  BY NumPositions, NumEmpty
<1>4. \A id \in 0..MaxSent : Bad(id) \in Nat /\ Good(id) \in Nat
  BY <1>0, RepliesNat
<1>5. \A T : Counts(T) /\ Counts(T)'
  BY <1>0, CountsNow, CountsNext
<1>6. \A id \in 1..MaxSent : id \in 0..MaxSent
  BY KafkaProducerAssumption
<1>7. ASSUME NEW id \in 1..MaxSent PROVE Cardinality(dropped \cap {id}) \in Nat
  <2>1. IsFiniteSet({id})
    BY FS_Singleton
  <2>2. IsFiniteSet(dropped \cap {id})
    BY <2>1, FS_Intersection
  <2>3. QED
    BY <2>2, FS_CardinalityType
<1>8. ASSUME NEW id \in 1..MaxSent
      PROVE  All(WithId({id}))' + Bad(id)' + Good(id)' + Cardinality(dropped' \cap {id})
               = IF id <= sent' THEN 1 ELSE 0
  <2>1. All(WithId({id})) + Bad(id) + Good(id) + Cardinality(dropped \cap {id})
          = IF id <= sent THEN 1 ELSE 0
    BY <1>0 DEF Accounts
  <2>2. All(WithId({id}))' + Num(errs, WithId({id})) = All(WithId({id}))
    BY DEF Balanced
  <2>3. All(WithId({id})) \in Nat /\ All(WithId({id}))' \in Nat
    BY <1>5 DEF Counts
  <2>4. Bad(id)' = Bad(id) + Num(errs, WithId({id})) /\ Good(id)' = Good(id) + 0
    BY <1>2, <1>3, <1>6, Zenon
  <2>5. Bad(id) \in Nat /\ Good(id) \in Nat /\ Num(errs, WithId({id})) \in Nat
    BY <1>3, <1>4, <1>6, Zenon
  <2>6. All(WithId({id}))' + Bad(id)' + Good(id)' + Cardinality(dropped \cap {id})
          = IF id <= sent THEN 1 ELSE 0
    BY <2>1, <2>2, <2>3, <2>4, <2>5, <1>7
  <2>7. QED
    BY <2>6, Zenon
<1>9. Accounts'
  BY <1>0, <1>2, <1>8 DEF Accounts
<1>10. \A id \in 1..MaxSent : Good(id)' = Good(id)
  <2>1. ASSUME NEW id \in 1..MaxSent PROVE Good(id)' = Good(id)
    <3>1. Good(id)' = Good(id) + 0 /\ Good(id) \in Nat
      BY <1>2, <1>3, <1>4, <1>6, Zenon
    <3>2. QED
      BY <3>1
  <2>2. QED
    BY <2>1
<1>11. sent <= sent'
  BY <1>0, KafkaProducerAssumption DEF Shapes
<1>12. Stored'
  BY <1>0, <1>10, <1>11, KeepStored, Zenon DEF Balanced
<1>13. QED
  BY <1>9, <1>12

-----------------------------------------------------------------------------
(* The effect of a step on the counts of T, in the four parts of the pipeline       *)

\* The numbers of a step: what m_input, the queues before the brokers, the channels of the
\* BrokerProducers and their batches gain of the items of T.
Effect(T, i, b, q, s) ==
  /\ {i, b, q, s} \subseteq Int
  /\ Num(m_input, T)' = Num(m_input, T) + i
  /\ BeforeBrokers(T)' = BeforeBrokers(T) + b
  /\ NumIn(BrokerQueue, T)' = NumIn(BrokerQueue, T) + q
  /\ NumIn(BrokerSets, T)' = NumIn(BrokerSets, T) + s

\* The partitions that are flushing their retry buffers: each holds one more mark.
Flushing == {p \in Partitions : pp[p].pc = "flush"}

\* What the whole pipeline gains.
LEMMA EffectAll ==
  ASSUME Shapes, NEW T, NEW i, NEW b, NEW q, NEW s, Effect(T, i, b, q, s)
  PROVE  All(T)' = All(T) + i + b + q + s /\ Inside(T)' = Inside(T) + b + q + s
BY CountsNow DEF Counts, Effect, All, Inside

\* What the chasers of a level gain.
LEMMA EffectChasers ==
  ASSUME Shapes, NEW p, NEW l, NEW i, NEW b, NEW q, NEW s, Effect(Fin(p, l), i, b, q, s),
         NEW i2, NEW b2, NEW q2, NEW s2, Effect(Fin(p, l - 1), i2, b2, q2, s2)
  PROVE  Chasers(p, l)' = Chasers(p, l) + i + b + q2 + s /\ Chasers(p, l) \in Nat
BY CountsNow DEF Counts, Effect, Chasers

\* The other two terms of m_in_flight are numbers.
LEMMA CardinalitiesNat == Shapes => Cardinality(dropped) \in Nat /\ Cardinality(Flushing) \in Nat
<1> SUFFICES ASSUME Shapes PROVE Cardinality(dropped) \in Nat /\ Cardinality(Flushing) \in Nat
  OBVIOUS
<1>1. IsFiniteSet(1..MaxSent)
  <2>1. 1 \in Int /\ MaxSent \in Int
    BY KafkaProducerAssumption
  <2>2. QED
    BY <2>1, FS_Interval, Zenon
<1>2. IsFiniteSet(dropped)
  BY <1>1, FS_Subset DEF Shapes
<1>3. IsFiniteSet(Flushing)
  <2>1. Flushing \subseteq Partitions
    BY DEF Flushing
  <2>2. QED
    BY <2>1, FinitePlaces, FS_Subset
<1>4. QED
  BY <1>2, <1>3, FS_CardinalityType

\* InFlightExact with its terms named.
LEMMA InFlightForm ==
  InFlightExact <=> m_in_flight = Num(m_input, Taken) + Inside(Message) + Cardinality(dropped)
                                    + Cardinality(Flushing)
BY Zenon DEF InFlightExact, Taken, Flushing

\* The same after a step.
LEMMA InFlightFormNext ==
  InFlightExact' <=> m_in_flight' = Num(m_input, Taken)' + Inside(Message)' + Cardinality(dropped)'
                                      + Cardinality(Flushing)'
<1>1. (InFlightExact <=> m_in_flight = Num(m_input, Taken) + Inside(Message) + Cardinality(dropped)
                                        + Cardinality(Flushing))'
  BY InFlightForm, PTL
<1>2. QED
  BY <1>1

\* m_in_flight is never negative: wait() never waits for a count below zero.
LEMMA InFlightNat == ProducerInv => m_in_flight \in Nat
<1> SUFFICES ASSUME ProducerInv PROVE m_in_flight \in Nat
  OBVIOUS
<1>1. Shapes /\ InFlightExact
  BY DEF ProducerInv
<1>2. Counts(Message) /\ Counts(Taken)
  BY <1>1, CountsNow
<1>3. m_in_flight = Num(m_input, Taken) + Inside(Message) + Cardinality(dropped) + Cardinality(Flushing)
  BY <1>1, InFlightForm
<1>4. QED
  BY <1>1, <1>2, <1>3, CardinalitiesNat DEF Counts

\* m_in_flight stays exact when it changes by what the counted places gain.
LEMMA KeepInFlight ==
  ASSUME Shapes, InFlightExact,
         NEW i, NEW b, NEW q, NEW s, Effect(Message, i, b, q, s),
         NEW i2, NEW b2, NEW q2, NEW s2, Effect(Taken, i2, b2, q2, s2),
         NEW d \in Int, Cardinality(dropped)' = Cardinality(dropped) + d,
         NEW f \in Int, Cardinality(Flushing)' = Cardinality(Flushing) + f,
         m_in_flight' = m_in_flight + i2 + b + q + s + d + f
  PROVE  InFlightExact'
<1>1. Num(m_input, Taken)' = Num(m_input, Taken) + i2 /\ i2 \in Int
  BY DEF Effect
<1>2. Inside(Message)' = Inside(Message) + b + q + s
  BY EffectAll
<1>3. b \in Int /\ q \in Int /\ s \in Int
  BY DEF Effect
<1>4. Num(m_input, Taken) \in Nat /\ Inside(Message) \in Nat
  BY CountsNow DEF Counts
<1>5. m_in_flight = Num(m_input, Taken) + Inside(Message) + Cardinality(dropped) + Cardinality(Flushing)
  BY InFlightForm
<1>6. Cardinality(dropped) \in Nat /\ Cardinality(Flushing) \in Nat
  BY CardinalitiesNat
<1>7. m_in_flight' = Num(m_input, Taken)' + Inside(Message)' + Cardinality(dropped)'
                       + Cardinality(Flushing)'
  BY <1>1, <1>2, <1>3, <1>4, <1>5, <1>6
<1>8. QED
  BY <1>7, InFlightFormNext

\* Counts over the partitions stay while the PartitionProducers do.
LEMMA SamePartitions ==
  ASSUME pp' = pp
  PROVE  /\ PartitionQueue' = PartitionQueue /\ RetryBuffer' = RetryBuffer /\ Flushing' = Flushing
         /\ \A T : /\ NumIn(PartitionQueue, T)' = NumIn(PartitionQueue, T)
                   /\ NumIn(RetryBuffer, T)' = NumIn(RetryBuffer, T)
         /\ Cardinality(Flushing)' = Cardinality(Flushing)
<1>1. PartitionQueue' = PartitionQueue /\ RetryBuffer' = RetryBuffer /\ Flushing' = Flushing
  BY Zenon DEF PartitionQueue, RetryBuffer, Flushing
<1>2. QED
  BY <1>1, Zenon

\* Counts over the brokers stay while the BrokerProducers do.
LEMMA SameBrokers ==
  ASSUME bp' = bp
  PROVE  /\ BrokerQueue' = BrokerQueue /\ BrokerSets' = BrokerSets
         /\ \A T : /\ NumIn(BrokerQueue, T)' = NumIn(BrokerQueue, T)
                   /\ NumIn(BrokerSets, T)' = NumIn(BrokerSets, T)
<1>1. BrokerQueue' = BrokerQueue /\ BrokerSets' = BrokerSets
  BY Zenon DEF BrokerQueue, BrokerSets
<1>2. QED
  BY <1>1, Zenon

\* While chasers and expectations stay, the one answers to the other.
LEMMA KeepExpected ==
  ASSUME Expected, \A p \in Partitions, l \in 1..RetryMax :
                     /\ Chasers(p, l)' = Chasers(p, l)
                     /\ pp'[p].expect[l] = pp[p].expect[l]
  PROVE  Expected'
BY Zenon DEF Expected

\* A step that changes only m_input.
LEMMA InputEffect ==
  ASSUME Shapes, UNCHANGED <<topic_input, pp, bp, m_retries, retry_buf>>, NEW T, NEW d \in Int,
         Num(m_input, T)' = Num(m_input, T) + d
  PROVE  Effect(T, d, 0, 0, 0)
<1>1. /\ NumIn(PartitionQueue, T)' = NumIn(PartitionQueue, T) /\ NumIn(RetryBuffer, T)' = NumIn(RetryBuffer, T)
      /\ NumIn(BrokerQueue, T)' = NumIn(BrokerQueue, T) /\ NumIn(BrokerSets, T)' = NumIn(BrokerSets, T)
  BY SamePartitions, SameBrokers
<1>2. Counts(T)
  BY CountsNow
<1>3. BeforeBrokers(T)' = BeforeBrokers(T)
  BY <1>1 DEF BeforeBrokers
<1>4. QED
  BY <1>1, <1>2, <1>3 DEF Effect, Counts

\* The same for the five places before the brokers.
BeforeEffect(T, t, r, u, p, x) ==
  /\ t \in Int /\ r \in Int /\ u \in Int /\ p \in Int /\ x \in Int
  /\ Num(topic_input, T)' = Num(topic_input, T) + t /\ Num(m_retries, T)' = Num(m_retries, T) + r
  /\ Num(retry_buf, T)' = Num(retry_buf, T) + u
  /\ NumIn(PartitionQueue, T)' = NumIn(PartitionQueue, T) + p
  /\ NumIn(RetryBuffer, T)' = NumIn(RetryBuffer, T) + x

\* What they gain together.
LEMMA BeforeSum ==
  ASSUME Shapes, NEW T, NEW t, NEW r, NEW u, NEW p, NEW x, BeforeEffect(T, t, r, u, p, x)
  PROVE  BeforeBrokers(T)' = BeforeBrokers(T) + (t + r + u + p + x)
<1>1. PICK a1 \in Nat, a2 \in Nat, a3 \in Nat, a4 \in Nat, a5 \in Nat :
        /\ a1 = Num(topic_input, T) /\ a2 = Num(m_retries, T) /\ a3 = Num(retry_buf, T)
        /\ a4 = NumIn(PartitionQueue, T) /\ a5 = NumIn(RetryBuffer, T)
  BY CountsNow, Zenon DEF Counts
<1>2. BeforeBrokers(T) = a1 + a2 + a3 + a4 + a5
  BY <1>1, Zenon DEF BeforeBrokers
<1>3. BeforeBrokers(T)' = (a1 + t) + (a2 + r) + (a3 + u) + (a4 + p) + (a5 + x)
  BY <1>1, Zenon DEF BeforeBrokers, BeforeEffect
<1>4. (a1 + t) + (a2 + r) + (a3 + u) + (a4 + p) + (a5 + x) = (a1 + a2 + a3 + a4 + a5) + (t + r + u + p + x)
  BY DEF BeforeEffect
<1>5. QED
  BY <1>2, <1>3, <1>4, Zenon

\* One item counts for one or for nothing.
LEMMA OneInt == \A m, T : One(m, T) \in {0, 1}
BY DEF One

-----------------------------------------------------------------------------
(* The application                                                                  *)

\* send(): a fresh message enters.
LEMMA SendStep == ProducerInv /\ Send => ProducerInv'
<1> SUFFICES ASSUME ProducerInv, Send PROVE ProducerInv'
  OBVIOUS
<1> USE DEF Send
<1>0. /\ Shapes /\ Accounts /\ Stored /\ InFlightExact /\ Expected
      /\ \A p \in Partitions : Watermark(p, pp[p])
  BY DEF ProducerInv
<1>1. PICK m \in Payload(Place) : m = Msg(sent + 1) /\ m.id = sent + 1 /\ m.retries = 0
  <2>1. sent + 1 \in 1..MaxSent /\ 0 \in Level /\ NoPartition \in Place
    BY <1>0, KafkaProducerAssumption DEF Shapes, Level, Place
  <2>2. QED
    BY <2>1 DEF Msg, Payload
<1>2. Shapes'
  <2>1. m \in Entering /\ m_input \in Seq(Entering) /\ m_input' = Append(m_input, m)
    BY <1>0, <1>1, ItemSets DEF Shapes
  <2>2. m_input' \in Seq(Entering)
    BY <2>1
  <2>3. sent' \in 0..MaxSent
    BY <1>0, KafkaProducerAssumption DEF Shapes
  <2>4. QED
    BY <1>0, <2>2, <2>3 DEF Shapes, worldVars
<1>3. ASSUME NEW T PROVE Effect(T, One(m, T), 0, 0, 0)
  <2>1. Num(Append(m_input, m), T) = Num(m_input, T) + One(m, T)
    <3>1. m_input \in Seq(Message) /\ m \in Message
      BY <1>0, ShapesQueued, ItemTypes DEF Queued
    <3>2. QED
      BY <3>1, NumPush
  <2>2. Num(m_input, T)' = Num(m_input, T) + One(m, T)
    BY <1>1, <2>1, Zenon
  <2>3. QED
    BY <1>0, <2>2, InputEffect, OneInt
<1>4. \A T : All(T)' = All(T) + One(m, T) /\ All(T) \in Nat
  <2>1. ASSUME NEW T PROVE All(T)' = All(T) + One(m, T) /\ All(T) \in Nat
    <3>1. All(T)' = All(T) + One(m, T) + 0 + 0 + 0
      BY <1>0, <1>3, EffectAll
    <3>2. All(T) \in Nat
      BY <1>0, CountsNow DEF Counts
    <3>3. QED
      BY <3>1, <3>2, OneInt
  <2>2. QED
    BY <2>1
<1>5. \A id : Bad(id)' = Bad(id) /\ Good(id)' = Good(id)
  BY Zenon DEF Bad, Good
<1>6. \A id \in 1..MaxSent : Bad(id) \in Nat /\ Good(id) \in Nat
  BY <1>0, RepliesNat, KafkaProducerAssumption
<1>7. Accounts'
  <2>1. ASSUME NEW id \in 1..MaxSent
        PROVE  All(WithId({id}))' + Bad(id)' + Good(id)' + Cardinality(dropped' \cap {id})
                 = IF id <= sent' THEN 1 ELSE 0
    <3>1. All(WithId({id})) + Bad(id) + Good(id) + Cardinality(dropped \cap {id})
            = IF id <= sent THEN 1 ELSE 0
      BY <1>0 DEF Accounts
    <3>2. Cardinality(dropped \cap {id}) \in Nat
      BY FS_Singleton, FS_Intersection, FS_CardinalityType
    <3>3. One(m, WithId({id})) = IF id = sent + 1 THEN 1 ELSE 0
      <4>1. m \in WithId({id}) <=> id = sent + 1
        BY <1>1 DEF Payload, WithId, Kind
      <4>2. QED
        BY <4>1, Zenon DEF One
    <3>4. sent \in Nat /\ dropped' = dropped
      BY <1>0 DEF Shapes, worldVars
    <3>5. All(WithId({id}))' = All(WithId({id})) + One(m, WithId({id})) /\ All(WithId({id})) \in Nat
      BY <1>4
    <3>6. Bad(id)' = Bad(id) /\ Good(id)' = Good(id) /\ Bad(id) \in Nat /\ Good(id) \in Nat
      BY <1>5, <1>6, Zenon
    <3>7. sent' = sent + 1
      OBVIOUS
    <3>8. QED
      BY <3>1, <3>2, <3>3, <3>4, <3>5, <3>6, <3>7
  <2>2. Bad(0)' = 0 /\ Good(0)' = 0
    BY <1>0, <1>5, Zenon DEF Accounts
  <2>3. QED
    BY <2>1, <2>2 DEF Accounts
<1>8. Stored'
  <2>1. log' = log
    BY DEF worldVars
  <2>2. sent <= sent'
    BY <1>0 DEF Shapes
  <2>3. ASSUME NEW e \in Payload(Place), e.id <= sent PROVE All(Older(e))' <= All(Older(e))
    <3>1. m \notin Older(e)
      <4>1. e.id # m.id
        BY <1>0, <1>1, <2>3 DEF Shapes, Payload
      <4>2. QED
        BY <4>1 DEF Older
    <3>2. One(m, Older(e)) = 0
      BY <3>1 DEF One
    <3>3. QED
      BY <1>4, <3>2
  <2>4. QED
    BY <1>0, <1>2, <1>5, <2>1, <2>2, <2>3, KeepStored, Zenon
<1>9. InFlightExact'
  <2>1. Effect(Message, One(m, Message), 0, 0, 0) /\ Effect(Taken, One(m, Taken), 0, 0, 0)
    BY <1>3
  <2>2. One(m, Taken) = 0
    BY <1>1, OnePayload
  <2>3. Cardinality(dropped)' = Cardinality(dropped) + 0 /\ Cardinality(Flushing)' = Cardinality(Flushing) + 0
    BY <1>0, SamePartitions, CardinalitiesNat DEF worldVars
  <2>4. m_in_flight' = m_in_flight + One(m, Taken) + 0 + 0 + 0 + 0 + 0
    BY <2>2, InFlightNat
  <2>5. QED
    BY <1>0, <2>1, <2>3, <2>4, KeepInFlight
<1>10. Expected'
  <2>1. ASSUME NEW p \in Partitions, NEW l \in 1..RetryMax PROVE Chasers(p, l)' = Chasers(p, l)
    <3>1. Effect(Fin(p, l), One(m, Fin(p, l)), 0, 0, 0)
      BY <1>3
    <3>2. Effect(Fin(p, l - 1), One(m, Fin(p, l - 1)), 0, 0, 0)
      BY <1>3
    <3>3. Chasers(p, l)' = Chasers(p, l) + One(m, Fin(p, l)) + 0 + 0 + 0 /\ Chasers(p, l) \in Nat
      BY <1>0, <3>1, <3>2, EffectChasers
    <3>4. One(m, Fin(p, l)) = 0
      BY OnePayload
    <3>5. QED
      BY <3>3, <3>4
  <2>2. QED
    BY <1>0, <2>1, KeepExpected, Zenon
<1>11. \A p \in Partitions : Watermark(p, pp'[p])
  BY <1>0, Zenon
<1>12. QED
  BY <1>2, <1>7, <1>8, <1>9, <1>10, <1>11 DEF ProducerInv

\* No reply leaves the replies alone.
LEMMA NoReply == Replied(<<>>, <<>>) = m_replies
BY DEF Replied

\* A step that keeps all messages balances without replies.
LEMMA QuietBalanced ==
  ASSUME Shapes, \A id \in 1..MaxSent : All(WithId({id}))' = All(WithId({id})),
         \A e \in Payload(Place) : All(Older(e))' <= All(Older(e))
  PROVE  Balanced(<<>>)
<1>1. ASSUME NEW id \in 1..MaxSent PROVE All(WithId({id}))' + Num(<<>>, WithId({id})) = All(WithId({id}))
  <2>1. All(WithId({id})) \in Nat
    BY CountsNow DEF Counts
  <2>2. Num(<<>>, WithId({id})) = 0
    BY NumEmpty
  <2>3. All(WithId({id}))' = All(WithId({id}))
    OBVIOUS
  <2>4. QED
    BY <2>1, <2>2, <2>3
<1>2. QED
  BY <1>1, Zenon DEF Balanced

\* Such a step keeps the accounts.
LEMMA QuietAccounts ==
  ASSUME ProducerInv, Shapes', UNCHANGED <<sent, log, dropped, m_replies>>,
         \A id \in 1..MaxSent : All(WithId({id}))' = All(WithId({id})),
         \A e \in Payload(Place) : All(Older(e))' <= All(Older(e))
  PROVE  Accounts' /\ Stored'
<1>1. Shapes
  BY DEF ProducerInv
<1>2. Balanced(<<>>)
  BY <1>1, QuietBalanced, Zenon
<1>3. <<>> \in Seq(Payload(Place))
  OBVIOUS
<1>4. m_replies' = Replied(<<>>, <<>>)
  BY NoReply, Zenon
<1>5. QED
  BY <1>2, <1>3, <1>4, KeepAccounts

\* close(): the shutdown message enters.
LEMMA CloseStep == ProducerInv /\ Close => ProducerInv'
<1> SUFFICES ASSUME ProducerInv, Close PROVE ProducerInv'
  OBVIOUS
<1> USE DEF Close
<1>0. /\ Shapes /\ InFlightExact /\ Expected /\ \A p \in Partitions : Watermark(p, pp[p])
  BY DEF ProducerInv
<1>1. PICK m \in Stop : m = Mark("shutdown", NoPartition, 0)
  BY DEF Mark, Stop
<1>2. Shapes'
  <2>1. m \in Entering /\ m_input \in Seq(Entering) /\ m_input' = Append(m_input, m)
    BY <1>0, <1>1 DEF Shapes, Entering
  <2>2. m_input' \in Seq(Entering)
    BY <2>1
  <2>4. QED
    BY <1>0, <2>2 DEF Shapes, worldVars
<1>3. ASSUME NEW T PROVE Effect(T, One(m, T), 0, 0, 0)
  <2>1. Num(Append(m_input, m), T) = Num(m_input, T) + One(m, T)
    <3>1. m_input \in Seq(Message) /\ m \in Message
      BY <1>0, ShapesQueued, ItemTypes DEF Queued
    <3>2. QED
      BY <3>1, NumPush
  <2>2. Num(m_input, T)' = Num(m_input, T) + One(m, T)
    BY <1>1, <2>1, Zenon
  <2>3. QED
    BY <1>0, <2>2, InputEffect, OneInt
<1>4. ASSUME NEW T, One(m, T) = 0 PROVE All(T)' = All(T) /\ All(T)' <= All(T)
  <2>1. All(T)' = All(T) + One(m, T) + 0 + 0 + 0
    BY <1>0, <1>3, EffectAll
  <2>2. All(T) \in Nat
    BY <1>0, CountsNow DEF Counts
  <2>3. QED
    BY <2>1, <2>2, <1>4
<1>5. Accounts' /\ Stored'
  <2>1. m \in Marks
    BY DEF Marks
  <2>2. \A id \in 1..MaxSent : All(WithId({id}))' = All(WithId({id}))
    BY <1>4, <2>1, OneMark
  <2>3. \A e \in Payload(Place) : All(Older(e))' <= All(Older(e))
    BY <1>4, <2>1, OneMark
  <2>4. UNCHANGED <<sent, log, dropped, m_replies>>
    BY DEF worldVars
  <2>5. QED
    BY <1>2, <2>2, <2>3, <2>4, QuietAccounts, Zenon
<1>9. InFlightExact'
  <2>1. Effect(Message, One(m, Message), 0, 0, 0) /\ Effect(Taken, One(m, Taken), 0, 0, 0)
    BY <1>3
  <2>2. One(m, Taken) = 1
    <3>1. m \in Taken
      BY KafkaProducerAssumption DEF Stop, Taken, Id, Level, Place
    <3>2. QED
      BY <3>1 DEF One
  <2>3. Cardinality(dropped)' = Cardinality(dropped) + 0 /\ Cardinality(Flushing)' = Cardinality(Flushing) + 0
    BY <1>0, SamePartitions, CardinalitiesNat DEF worldVars
  <2>4. m_in_flight' = m_in_flight + One(m, Taken) + 0 + 0 + 0 + 0 + 0
    BY <2>2, InFlightNat
  <2>5. QED
    BY <1>0, <2>1, <2>3, <2>4, KeepInFlight
<1>10. Expected'
  <2>1. ASSUME NEW p \in Partitions, NEW l \in 1..RetryMax PROVE Chasers(p, l)' = Chasers(p, l)
    <3>1. Effect(Fin(p, l), One(m, Fin(p, l)), 0, 0, 0)
      BY <1>3
    <3>2. Effect(Fin(p, l - 1), One(m, Fin(p, l - 1)), 0, 0, 0)
      BY <1>3
    <3>3. Chasers(p, l)' = Chasers(p, l) + One(m, Fin(p, l)) + 0 + 0 + 0 /\ Chasers(p, l) \in Nat
      BY <1>0, <3>1, <3>2, EffectChasers
    <3>4. One(m, Fin(p, l)) = 0
      BY OneOther
    <3>5. QED
      BY <3>3, <3>4
  <2>2. QED
    BY <1>0, <2>1, KeepExpected, Zenon
<1>11. \A p \in Partitions : Watermark(p, pp'[p])
  BY <1>0, Zenon
<1>12. QED
  BY <1>2, <1>5, <1>9, <1>10, <1>11 DEF ProducerInv

\* A step that leaves the pipeline and its replies alone.
LEMMA StillStep ==
  ASSUME ProducerInv, Shapes',
         UNCHANGED <<sent, m_input, topic_input, pp, bp, m_retries, retry_buf, m_replies,
                     m_in_flight, log, dropped>>
  PROVE  ProducerInv'
<1>0. /\ Shapes /\ InFlightExact /\ Expected /\ \A p \in Partitions : Watermark(p, pp[p])
  BY DEF ProducerInv
<1>1. ASSUME NEW T PROVE Effect(T, 0, 0, 0, 0)
  <2>1. Num(m_input, T) \in Nat
    BY <1>0, CountsNow DEF Counts
  <2>2. Num(m_input, T)' = Num(m_input, T)
    BY Zenon
  <2>3. Num(m_input, T)' = Num(m_input, T) + 0
    BY <2>1, <2>2
  <2>4. 0 \in Int /\ UNCHANGED <<topic_input, pp, bp, m_retries, retry_buf>>
    OBVIOUS
  <2>5. QED
    BY <1>0, <2>3, <2>4, InputEffect, Zenon
<1>2. ASSUME NEW T PROVE All(T)' = All(T) /\ All(T)' <= All(T)
  <2>1. All(T)' = All(T) + 0 + 0 + 0 + 0
    BY <1>0, <1>1, EffectAll
  <2>2. All(T) \in Nat
    BY <1>0, CountsNow DEF Counts
  <2>3. QED
    BY <2>1, <2>2
<1>3. Accounts' /\ Stored'
  <2>1. /\ \A id \in 1..MaxSent : All(WithId({id}))' = All(WithId({id}))
        /\ \A e \in Payload(Place) : All(Older(e))' <= All(Older(e))
    BY <1>2, Zenon
  <2>2. QED
    BY <2>1, QuietAccounts, Zenon
<1>4. InFlightExact'
  <2>1. Effect(Message, 0, 0, 0, 0) /\ Effect(Taken, 0, 0, 0, 0)
    BY <1>1
  <2>2. Cardinality(dropped)' = Cardinality(dropped) + 0 /\ Cardinality(Flushing)' = Cardinality(Flushing) + 0
    BY <1>0, SamePartitions, CardinalitiesNat
  <2>3. m_in_flight' = m_in_flight + 0 + 0 + 0 + 0 + 0 + 0
    BY InFlightNat
  <2>4. QED
    BY <1>0, <2>1, <2>2, <2>3, KeepInFlight
<1>5. Expected'
  <2>1. ASSUME NEW p \in Partitions, NEW l \in 1..RetryMax PROVE Chasers(p, l)' = Chasers(p, l)
    <3>1. Effect(Fin(p, l), 0, 0, 0, 0) /\ Effect(Fin(p, l - 1), 0, 0, 0, 0)
      BY <1>1
    <3>2. Chasers(p, l)' = Chasers(p, l) + 0 + 0 + 0 + 0 /\ Chasers(p, l) \in Nat
      BY <1>0, <3>1, EffectChasers
    <3>3. QED
      BY <3>2
  <2>2. QED
    BY <1>0, <2>1, KeepExpected, Zenon
<1>6. QED
  BY <1>0, <1>3, <1>4, <1>5 DEF ProducerInv

\* close() returns once m_in_flight is zero.
LEMMA ShutdownStep == ProducerInv /\ Shutdown => ProducerInv'
<1> SUFFICES ASSUME ProducerInv, Shutdown PROVE ProducerInv'
  OBVIOUS
<1>1. Shapes'
  BY DEF ProducerInv, Shapes, Shutdown, worldVars
<1>2. QED
  BY <1>1, StillStep DEF Shutdown, worldVars

\* The leader of a partition moves.
LEMMA MoveStep ==
  ASSUME ProducerInv, NEW p \in Partitions, Move(p)
  PROVE  ProducerInv'
<1>1. leader' \in [Partitions -> [at: Brokers, was: SUBSET Brokers, moves: 0..MaxMoves]]
  <2>1. leader \in [Partitions -> [at: Brokers, was: SUBSET Brokers, moves: 0..MaxMoves]]
    BY DEF ProducerInv, Shapes
  <2>2. PICK b \in Brokers : leader' = [leader EXCEPT ![p] = [at |-> b, was |-> @.was \cup {b}, moves |-> @.moves + 1]]
    BY DEF Move
  <2>3. leader[p].moves + 1 \in 0..MaxMoves
    BY <2>1, KafkaProducerAssumption DEF Move
  <2>4. [at |-> b, was |-> leader[p].was \cup {b}, moves |-> leader[p].moves + 1] \in [at: Brokers, was: SUBSET Brokers, moves: 0..MaxMoves]
    BY <2>1, <2>3
  <2>5. QED
    BY <2>1, <2>2, <2>4
<1>2. Shapes'
  BY <1>1 DEF ProducerInv, Shapes, Move
<1>3. QED
  BY <1>2, StillStep DEF Move

-----------------------------------------------------------------------------
(* AsyncProducer::dispatcher, retry_handler; TopicProducer::dispatch                 *)

\* Everything of T is still there, or answered with an error.
Same(T, errs) == All(T)' + Num(errs, T) = All(T)

\* What is exactly kept or answered is balanced.
LEMMA SameAccounts ==
  ASSUME ProducerInv, Shapes', NEW errs \in Seq(Payload(Place)), m_replies' = Replied(errs, <<>>),
         UNCHANGED <<sent, log, dropped>>,
         \A id \in 1..MaxSent : Same(WithId({id}), errs),
         \A e \in Payload(Place) : Same(Older(e), errs)
  PROVE  Accounts' /\ Stored'
<1>1. ASSUME NEW e \in Payload(Place) PROVE All(Older(e))' <= All(Older(e))
  <2>1. Shapes
    BY DEF ProducerInv
  <2>2. All(Older(e)) \in Nat /\ All(Older(e))' \in Nat
    BY <2>1, CountsNow, CountsNext DEF Counts
  <2>3. Num(errs, Older(e)) \in Nat
    BY NumPositions
  <2>4. All(Older(e))' + Num(errs, Older(e)) = All(Older(e))
    BY DEF Same
  <2>5. QED
    BY <2>2, <2>3, <2>4
<1>2. Balanced(errs)
  BY <1>1, Zenon DEF Balanced, Same
<1>3. QED
  BY <1>2, KeepAccounts, Zenon

\* The numbers of a step tell what is kept.
LEMMA EffectSame ==
  ASSUME Shapes, Shapes', NEW T, NEW i, NEW b, NEW q, NEW s, Effect(T, i, b, q, s),
         NEW errs \in Seq(Payload(Place)), Num(errs, T) + i + b + q + s = 0
  PROVE  Same(T, errs)
<1>1. All(T)' = All(T) + i + b + q + s
  BY EffectAll
<1>2. All(T) \in Nat /\ All(T)' \in Nat
  BY CountsNow, CountsNext DEF Counts
<1>3. Num(errs, T) \in Nat
  BY NumPositions
<1>4. i \in Int /\ b \in Int /\ q \in Int /\ s \in Int
  BY DEF Effect
<1>5. All(T)' + Num(errs, T) = All(T)
  BY <1>1, <1>2, <1>3, <1>4, SMTT(60)
<1>6. QED
  BY <1>5 DEF Same

\* reply() in numbers.
LEMMA ReplyForm ==
  ASSUME NEW errs \in Seq(Payload(Place)), NEW oks \in Seq(Payload(Place)), NEW more \in Int,
         ProducerInv, Reply(errs, oks, more)
  PROVE  /\ m_replies' = Replied(errs, oks) /\ m_in_flight' = m_in_flight + more - Len(errs) - Len(oks)
         /\ m_in_flight \in Nat /\ Len(errs) \in Nat /\ Len(oks) \in Nat
         /\ m_replies' \in [(0..MaxSent) \X BOOLEAN -> Nat]
<1>1. Shapes
  BY DEF ProducerInv
<1>2. m_replies' = Replied(errs, oks) /\ m_in_flight' = m_in_flight + more - Len(errs) - Len(oks)
  BY DEF Reply
<1>3. m_replies' \in [(0..MaxSent) \X BOOLEAN -> Nat]
  BY <1>1, <1>2, ReplyCounts, Zenon
<1>4. Len(errs) \in Nat /\ Len(oks) \in Nat
  OBVIOUS
<1>5. QED
  BY <1>2, <1>3, <1>4, InFlightNat, Zenon

\* The empty batch of errors.
LEMMA NoErrors == <<>> \in Seq(Payload(Place)) /\ Len(<<>>) = 0 /\ \A T : Num(<<>>, T) = 0
BY NumEmpty

\* reply() that answers nobody and takes in marks.
LEMMA ReplyNone ==
  ASSUME NEW more \in Int, ProducerInv, Reply(<<>>, <<>>, more)
  PROVE  /\ m_replies' = Replied(<<>>, <<>>) /\ m_in_flight' = m_in_flight + more
         /\ m_in_flight \in Nat /\ m_replies' \in [(0..MaxSent) \X BOOLEAN -> Nat]
<1>1. <<>> \in Seq(Payload(Place)) /\ Len(<<>>) = 0
  BY NoErrors
<1>2. /\ m_replies' = Replied(<<>>, <<>>) /\ m_in_flight' = m_in_flight + more - Len(<<>>) - Len(<<>>)
      /\ m_in_flight \in Nat /\ m_replies' \in [(0..MaxSent) \X BOOLEAN -> Nat]
  BY <1>1, ReplyForm, Zenon
<1>3. QED
  BY <1>1, <1>2

\* reply() that answers one message.
LEMMA ReplyToOne ==
  ASSUME NEW m \in Payload(Place), NEW more \in Int, ProducerInv, Reply(<<m>>, <<>>, more)
  PROVE  /\ m_replies' = Replied(<<m>>, <<>>) /\ m_in_flight' = m_in_flight + more - 1
         /\ m_in_flight \in Nat /\ m_replies' \in [(0..MaxSent) \X BOOLEAN -> Nat]
         /\ <<m>> \in Seq(Payload(Place))
<1>1. <<>> \in Seq(Payload(Place)) /\ Len(<<>>) = 0 /\ <<m>> \in Seq(Payload(Place)) /\ Len(<<m>>) = 1
  BY NoErrors
<1>2. /\ m_replies' = Replied(<<m>>, <<>>) /\ m_in_flight' = m_in_flight + more - Len(<<m>>) - Len(<<>>)
      /\ m_in_flight \in Nat /\ m_replies' \in [(0..MaxSent) \X BOOLEAN -> Nat]
  BY <1>1, ReplyForm, Zenon
<1>3. QED
  BY <1>1, <1>2

\* What dispatcher() takes in, and the count it gives.
LEMMA OneTaken ==
  ASSUME NEW m \in Entering
  PROVE  One(m, Taken) = IF m.kind = "shutdown" \/ m.retries > 0 THEN 1 ELSE 0
<1>1. m \in Message
  BY ItemSets
<1>2. m \in Taken <=> m.kind = "shutdown" \/ m.retries > 0
  BY <1>1 DEF Message, Taken, AtLevel
<1>3. QED
  BY <1>2, Zenon DEF One

\* Chasers that only move stay as many.
LEMMA ZeroChasers ==
  ASSUME Shapes, NEW p, NEW l, NEW i, NEW b, NEW q, NEW s, Effect(Fin(p, l), i, b, q, s),
         NEW i2, NEW b2, NEW q2, NEW s2, Effect(Fin(p, l - 1), i2, b2, q2, s2), i + b + q2 + s = 0
  PROVE  Chasers(p, l)' = Chasers(p, l)
<1>1. Chasers(p, l)' = Chasers(p, l) + i + b + q2 + s /\ Chasers(p, l) \in Nat
  BY EffectChasers
<1>2. i \in Int /\ b \in Int /\ q2 \in Int /\ s \in Int
  BY DEF Effect
<1>3. PICK x \in Nat, a \in Int, c \in Int, d \in Int, e \in Int :
        x = Chasers(p, l) /\ a = i /\ c = b /\ d = q2 /\ e = s
  BY <1>1, <1>2, Zenon
<1>4. a + c + d + e = 0 /\ Chasers(p, l)' = x + a + c + d + e
  BY <1>1, <1>3, Zenon
<1>5. x + a + c + d + e = x
  BY <1>4
<1>6. QED
  BY <1>3, <1>4, <1>5, Zenon

\* The other terms of m_in_flight stay with pp and dropped.
LEMMA SameCardinalities ==
  ASSUME Shapes, UNCHANGED <<pp, dropped>>
  PROVE  Cardinality(dropped)' = Cardinality(dropped) + 0 /\ Cardinality(Flushing)' = Cardinality(Flushing) + 0
BY SamePartitions, CardinalitiesNat

\* Watermarks stay with pp.
LEMMA SameWatermark ==
  ASSUME ProducerInv, pp' = pp
  PROVE  \A p \in Partitions : Watermark(p, pp'[p])
BY Zenon DEF ProducerInv

\* What dispatcher() takes from m_input, and what it leaves alone.
LEMMA DispatchTakes ==
  ASSUME ProducerInv, m_input # <<>>, m_input' = Tail(m_input), UNCHANGED <<pp, bp, m_retries, retry_buf>>,
         NEW m, m = Head(m_input)
  PROVE  /\ m \in Entering /\ m_input' \in Seq(Entering)
         /\ \A T : /\ Num(m_input, T)' = Num(m_input, T) - One(m, T)
                   /\ topic_input' = topic_input => Effect(T, 0 - One(m, T), 0, 0, 0)
                   /\ topic_input' = Append(topic_input, m) => Effect(T, 0 - One(m, T), One(m, T), 0, 0)
<1>0. Shapes
  BY DEF ProducerInv
<1>3. m \in Entering /\ m_input' \in Seq(Entering) /\ m_input \in Seq(Message)
  <2>1. m_input \in Seq(Entering)
    BY <1>0 DEF Shapes
  <2>2. m_input \in Seq(Message)
    BY <1>0, ShapesQueued DEF Queued
  <2>3. QED
    BY <2>1, <2>2
<1>5. ASSUME NEW T PROVE Num(m_input, T)' = Num(m_input, T) - One(m, T)
  <2>1. Num(m_input, T) = One(m, T) + Num(Tail(m_input), T)
    BY <1>3, NumPop
  <2>2. Num(m_input, T)' = Num(Tail(m_input), T)
    BY Zenon
  <2>3. Num(Tail(m_input), T) \in Nat
    BY <1>3, NumPositions
  <2>4. QED
    BY <2>1, <2>2, <2>3, OneInt
<1>6. ASSUME NEW T PROVE /\ topic_input' = topic_input => Effect(T, 0 - One(m, T), 0, 0, 0)
                         /\ topic_input' = Append(topic_input, m) => Effect(T, 0 - One(m, T), One(m, T), 0, 0)
  <2>2. Num(m_retries, T)' = Num(m_retries, T) /\ Num(retry_buf, T)' = Num(retry_buf, T)
    BY Zenon
  <2>4. /\ NumIn(PartitionQueue, T)' = NumIn(PartitionQueue, T) /\ NumIn(RetryBuffer, T)' = NumIn(RetryBuffer, T)
        /\ NumIn(BrokerQueue, T)' = NumIn(BrokerQueue, T) /\ NumIn(BrokerSets, T)' = NumIn(BrokerSets, T)
    BY SamePartitions, SameBrokers
  <2>5. Counts(T) /\ One(m, T) \in Int
    BY <1>0, CountsNow, OneInt
  <2>6. ASSUME topic_input' = topic_input PROVE Effect(T, 0 - One(m, T), 0, 0, 0)
    <3>1. Num(topic_input, T)' = Num(topic_input, T)
      BY <2>6, Zenon
    <3>2. QED
      BY <1>5, <2>2, <2>4, <2>5, <3>1, SMTT(60) DEF Effect, Counts, BeforeBrokers
  <2>7. ASSUME topic_input' = Append(topic_input, m) PROVE Effect(T, 0 - One(m, T), One(m, T), 0, 0)
    <3>1. topic_input \in Seq(Message) /\ m \in Message
      BY <1>0, <1>3, ShapesQueued, ItemSets DEF Queued
    <3>2. Num(Append(topic_input, m), T) = Num(topic_input, T) + One(m, T)
      BY <3>1, NumPush
    <3>3. Num(topic_input, T)' = Num(topic_input, T) + One(m, T)
      BY <2>7, <3>2, Zenon
    <3>4. BeforeBrokers(T)' = BeforeBrokers(T) + One(m, T)
      BY <2>2, <2>4, <2>5, <3>3, SMTT(60) DEF Counts, BeforeBrokers
    <3>5. QED
      BY <1>5, <2>4, <2>5, <3>4, SMTT(60) DEF Effect, Counts
  <2>8. QED
    BY <2>6, <2>7
<1>7. QED
  BY <1>3, <1>5, <1>6, Zenon

\* dispatcher(): an item goes on, is answered, or ends the loop.
LEMMA DispatchStep == ProducerInv /\ Dispatch => ProducerInv'
<1> SUFFICES ASSUME ProducerInv, Dispatch PROVE ProducerInv'
  OBVIOUS
<1>0. /\ Shapes /\ InFlightExact /\ Expected
  BY DEF ProducerInv
<1>1. PICK m : m = Head(m_input)
  OBVIOUS
<1>2. m_input # <<>> /\ m_input' = Tail(m_input)
  BY DEF Dispatch
<1>3. UNCHANGED <<sent, pp, bp, m_retries, retry_buf, closing, leader, log, dropped>>
  BY DEF Dispatch, worldVars
<1>4. /\ m \in Entering /\ m_input' \in Seq(Entering)
      /\ \A T : /\ topic_input' = topic_input => Effect(T, 0 - One(m, T), 0, 0, 0)
                /\ topic_input' = Append(topic_input, m) => Effect(T, 0 - One(m, T), One(m, T), 0, 0)
  BY <1>1, <1>2, <1>3, DispatchTakes, Zenon
<1>5. PICK first : first = IF m.retries = 0 THEN 1 ELSE 0
  OBVIOUS
<1>6. One(m, Message) = 1 /\ One(m, Taken) = IF m.kind = "shutdown" \/ m.retries > 0 THEN 1 ELSE 0
  BY <1>4, ItemSets, OneTaken DEF One
<1>7. m.retries \in Nat
  BY <1>4, ItemSets DEF Message, Level
<1>8. Cardinality(dropped)' = Cardinality(dropped) + 0 /\ Cardinality(Flushing)' = Cardinality(Flushing) + 0
  BY <1>0, <1>3, SameCardinalities
<1>9. \A p \in Partitions : Watermark(p, pp'[p])
  BY <1>3, SameWatermark
<1>10. CASE m.kind = "shutdown" /\ Reply(<<>>, <<>>, -1) /\ UNCHANGED topic_input
  <2>1. /\ m_replies' = Replied(<<>>, <<>>) /\ m_in_flight' = m_in_flight + -1
        /\ m_in_flight \in Nat /\ m_replies' \in [(0..MaxSent) \X BOOLEAN -> Nat]
    <3>1. -1 \in Int
      OBVIOUS
    <3>2. QED
      BY <1>10, <3>1, ReplyNone, Zenon
  <2>2. Shapes'
    BY <1>0, <1>3, <1>4, <1>10, <2>1 DEF Shapes
  <2>3. ASSUME NEW T PROVE Effect(T, 0 - One(m, T), 0, 0, 0)
    BY <1>4, <1>10
  <2>4. m \in Stop /\ m \in Marks
    BY <1>4, <1>10 DEF Entering, Marks, Payload, Returning
  <2>5. ASSUME NEW T, One(m, T) = 0 PROVE Same(T, <<>>)
    <3>1. Num(<<>>, T) + (0 - One(m, T)) + 0 + 0 + 0 = 0
      BY <2>5, NoErrors
    <3>2. QED
      BY ZenonT(60), <1>0, <2>2, <2>3, <3>1, NoErrors, EffectSame
  <2>6. Accounts' /\ Stored'
    <3>1. /\ \A id \in 1..MaxSent : Same(WithId({id}), <<>>)
          /\ \A e \in Payload(Place) : Same(Older(e), <<>>)
      BY <2>4, <2>5, OneMark
    <3>2. QED
      BY <1>3, <2>1, <2>2, <3>1, NoErrors, SameAccounts, Zenon
  <2>7. InFlightExact'
    <3>1. Effect(Message, 0 - One(m, Message), 0, 0, 0) /\ Effect(Taken, 0 - One(m, Taken), 0, 0, 0)
      BY <2>3
    <3>2. m_in_flight' = m_in_flight + (0 - One(m, Taken)) + 0 + 0 + 0 + 0 + 0
      BY <1>6, <1>10, <2>1
    <3>3. QED
      BY <1>0, <1>8, <3>1, <3>2, KeepInFlight
  <2>8. Expected'
    <3>1. ASSUME NEW p \in Partitions, NEW l \in 1..RetryMax PROVE Chasers(p, l)' = Chasers(p, l)
      <4>1. Effect(Fin(p, l), 0 - One(m, Fin(p, l)), 0, 0, 0)
        BY <2>3
      <4>2. Effect(Fin(p, l - 1), 0 - One(m, Fin(p, l - 1)), 0, 0, 0)
        BY <2>3
      <4>3. (0 - One(m, Fin(p, l))) + 0 + 0 + 0 = 0
        BY <2>4, OneOther
      <4>4. QED
        BY <1>0, <4>1, <4>2, <4>3, ZeroChasers
    <3>2. QED
      BY <1>0, <1>3, <3>1, KeepExpected, Zenon
  <2>9. QED
    BY <1>9, <2>2, <2>6, <2>7, <2>8 DEF ProducerInv
<1>11. CASE m.kind # "shutdown" /\ m.retries = 0 /\ Reply(<<m>>, <<>>, first) /\ UNCHANGED topic_input
  <2>0. m \in Payload(Place) /\ <<m>> \in Seq(Payload(Place)) /\ Len(<<m>>) = 1 /\ first = 1
    <3>1. m \in Payload(Place)
      BY <1>4, <1>11 DEF Entering, Returning, Stop
    <3>2. QED
      BY <1>5, <1>11, <3>1
  <2>1. /\ m_replies' = Replied(<<m>>, <<>>) /\ m_in_flight' = m_in_flight + 1 - 1
        /\ m_in_flight \in Nat /\ m_replies' \in [(0..MaxSent) \X BOOLEAN -> Nat]
    <3>1. 1 \in Int /\ Reply(<<m>>, <<>>, 1)
      BY <1>11, <2>0
    <3>2. QED
      BY <2>0, <3>1, ReplyToOne, Zenon
  <2>2. Shapes'
    BY <1>0, <1>3, <1>4, <1>11, <2>1 DEF Shapes
  <2>3. ASSUME NEW T PROVE Effect(T, 0 - One(m, T), 0, 0, 0)
    BY <1>4, <1>11
  <2>5. ASSUME NEW T PROVE Same(T, <<m>>)
    <3>0. Num(<<m>>, T) = One(m, T)
      BY NumOne
    <3>1. Num(<<m>>, T) + (0 - One(m, T)) + 0 + 0 + 0 = 0
      BY <3>0, OneInt
    <3>2. QED
      BY <1>0, <2>0, <2>2, <2>3, <3>1, EffectSame
  <2>6. Accounts' /\ Stored'
    <3>1. /\ \A id \in 1..MaxSent : Same(WithId({id}), <<m>>)
          /\ \A e \in Payload(Place) : Same(Older(e), <<m>>)
      BY <2>5, Zenon
    <3>2. QED
      BY <1>3, <2>0, <2>1, <2>2, <3>1, SameAccounts, Zenon
  <2>7. InFlightExact'
    <3>1. Effect(Message, 0 - One(m, Message), 0, 0, 0) /\ Effect(Taken, 0 - One(m, Taken), 0, 0, 0)
      BY <2>3
    <3>2. m_in_flight' = m_in_flight + (0 - One(m, Taken)) + 0 + 0 + 0 + 0 + 0
      BY <1>6, <1>11, <2>1
    <3>3. QED
      BY <1>0, <1>8, <3>1, <3>2, KeepInFlight
  <2>8. Expected'
    <3>1. ASSUME NEW p \in Partitions, NEW l \in 1..RetryMax PROVE Chasers(p, l)' = Chasers(p, l)
      <4>1. Effect(Fin(p, l), 0 - One(m, Fin(p, l)), 0, 0, 0)
        BY <2>3
      <4>2. Effect(Fin(p, l - 1), 0 - One(m, Fin(p, l - 1)), 0, 0, 0)
        BY <2>3
      <4>3. (0 - One(m, Fin(p, l))) + 0 + 0 + 0 = 0
        BY <2>0, OnePayload
      <4>4. QED
        BY <1>0, <4>1, <4>2, <4>3, ZeroChasers
    <3>2. QED
      BY <1>0, <1>3, <3>1, KeepExpected, Zenon
  <2>9. QED
    BY <1>9, <2>2, <2>6, <2>7, <2>8 DEF ProducerInv
<1>12. CASE m.kind # "shutdown" /\ Reply(<<>>, <<>>, first) /\ topic_input' = Append(topic_input, m)
  <2>0. m \in Payload(Place) \cup Returning(Partitions) /\ first \in Int
    BY <1>4, <1>5, <1>12 DEF Entering, Stop
  <2>1. /\ m_replies' = Replied(<<>>, <<>>) /\ m_in_flight' = m_in_flight + first
        /\ m_in_flight \in Nat /\ m_replies' \in [(0..MaxSent) \X BOOLEAN -> Nat]
    BY <1>12, <2>0, ReplyNone
  <2>2. Shapes'
    <3>1. topic_input' \in Seq(Payload(Place) \cup Returning(Partitions))
      BY <1>0, <1>12, <2>0 DEF Shapes
    <3>2. QED
      BY <1>0, <1>3, <1>4, <2>1, <3>1 DEF Shapes
  <2>3. ASSUME NEW T PROVE Effect(T, 0 - One(m, T), One(m, T), 0, 0)
    BY <1>4, <1>12
  <2>5. ASSUME NEW T PROVE Same(T, <<>>)
    <3>1. Num(<<>>, T) + (0 - One(m, T)) + One(m, T) + 0 + 0 = 0
      BY NoErrors, OneInt
    <3>2. QED
      BY ZenonT(60), <1>0, <2>2, <2>3, <3>1, NoErrors, EffectSame
  <2>6. Accounts' /\ Stored'
    <3>1. /\ \A id \in 1..MaxSent : Same(WithId({id}), <<>>)
          /\ \A e \in Payload(Place) : Same(Older(e), <<>>)
      BY <2>5, Zenon
    <3>2. QED
      BY <1>3, <2>1, <2>2, <3>1, NoErrors, SameAccounts, Zenon
  <2>7. InFlightExact'
    <3>1. /\ Effect(Message, 0 - One(m, Message), One(m, Message), 0, 0)
          /\ Effect(Taken, 0 - One(m, Taken), One(m, Taken), 0, 0)
      BY <2>3
    <3>2. m_in_flight' = m_in_flight + (0 - One(m, Taken)) + One(m, Message) + 0 + 0 + 0 + 0
      BY <1>5, <1>6, <1>7, <1>12, <2>1
    <3>3. QED
      BY <1>0, <1>8, <3>1, <3>2, KeepInFlight
  <2>8. Expected'
    <3>1. ASSUME NEW p \in Partitions, NEW l \in 1..RetryMax PROVE Chasers(p, l)' = Chasers(p, l)
      <4>1. Effect(Fin(p, l), 0 - One(m, Fin(p, l)), One(m, Fin(p, l)), 0, 0)
        BY <2>3
      <4>2. Effect(Fin(p, l - 1), 0 - One(m, Fin(p, l - 1)), One(m, Fin(p, l - 1)), 0, 0)
        BY <2>3
      <4>3. (0 - One(m, Fin(p, l))) + One(m, Fin(p, l)) + 0 + 0 = 0
        BY OneInt
      <4>4. QED
        BY <1>0, <4>1, <4>2, <4>3, ZeroChasers
    <3>2. QED
      BY <1>0, <1>3, <3>1, KeepExpected, Zenon
  <2>9. QED
    BY <1>9, <2>2, <2>6, <2>7, <2>8 DEF ProducerInv
<1>13. QED
  BY <1>1, <1>5, <1>10, <1>11, <1>12 DEF Dispatch

\* Everything is still in the pipeline, and nothing was answered.
LEMMA ExactStep ==
  ASSUME ProducerInv, Shapes', UNCHANGED <<sent, log, dropped, m_replies>>, \A T : Same(T, <<>>),
         InFlightExact', Expected', \A p \in Partitions : Watermark(p, pp'[p])
  PROVE  ProducerInv'
<1>1. <<>> \in Seq(Payload(Place)) /\ m_replies' = Replied(<<>>, <<>>)
  BY NoErrors, NoReply
<1>2. Accounts' /\ Stored'
  BY <1>1, SameAccounts, Zenon
<1>3. QED
  BY <1>2 DEF ProducerInv

\* retry_handler(): items are buffered, or handed to m_input.
LEMMA RetryHandlerStep == ProducerInv /\ RetryHandler => ProducerInv'
<1> SUFFICES ASSUME ProducerInv, RetryHandler PROVE ProducerInv'
  OBVIOUS
<1>0. /\ Shapes /\ InFlightExact /\ Expected
  BY DEF ProducerInv
<1>1. m_retries # <<>> /\ m_retries' = Tail(m_retries)
  BY DEF RetryHandler
<1>2. /\ UNCHANGED <<sent, topic_input, pp, bp, m_replies, m_in_flight, closing, leader, log, dropped>>
  BY DEF RetryHandler, worldVars
<1>3. PICK h \in Back : h = Head(m_retries) /\ m_retries' \in Seq(Back)
  BY <1>0, <1>1, HeadTailProperties DEF Shapes
<1>4. retry_buf \in Seq(Back) /\ m_input \in Seq(Entering) /\ m_retries \in Seq(Back)
  BY <1>0 DEF Shapes
<1>5. PICK buf \in Seq(Back) : buf = Append(retry_buf, h) /\ buf # <<>>
  BY <1>4, AppendProperties
<1>6. ASSUME NEW T
      PROVE  /\ Num(m_retries, T)' = Num(m_retries, T) - One(h, T)
             /\ Num(buf, T) = Num(retry_buf, T) + One(h, T)
             /\ Num(m_retries, T) \in Nat /\ Num(retry_buf, T) \in Nat
  <2>1. Num(m_retries, T) = One(h, T) + Num(Tail(m_retries), T)
    BY <1>1, <1>3, <1>4, NumPop
  <2>2. Num(m_retries, T)' = Num(Tail(m_retries), T) /\ Num(Tail(m_retries), T) \in Nat
    BY <1>1, <1>3, NumPositions
  <2>3. Num(buf, T) = Num(retry_buf, T) + One(h, T)
    BY <1>4, <1>5, NumPush
  <2>4. Num(retry_buf, T) \in Nat
    BY <1>4, NumPositions
  <2>5. QED
    BY <2>1, <2>2, <2>3, <2>4, OneInt
<1>7. Cardinality(dropped)' = Cardinality(dropped) + 0 /\ Cardinality(Flushing)' = Cardinality(Flushing) + 0
  BY <1>0, <1>2, SameCardinalities
<1>8. \A p \in Partitions : Watermark(p, pp'[p])
  BY <1>2, SameWatermark
<1>9. m_in_flight \in Nat
  BY InFlightNat
<1>10. CASE retry_buf' = buf /\ m_input' = m_input
  <2>1. Shapes'
    BY <1>0, <1>2, <1>3, <1>4, <1>10 DEF Shapes
  <2>2. ASSUME NEW T PROVE Effect(T, 0, 0, 0, 0)
    <3>1. Num(topic_input, T)' = Num(topic_input, T) /\ Num(m_input, T)' = Num(m_input, T)
      BY <1>2, <1>10, Zenon
    <3>2. Num(retry_buf, T)' = Num(retry_buf, T) + One(h, T)
      BY <1>6, <1>10, Zenon
    <3>3. pp' = pp /\ bp' = bp
      BY <1>2
    <3>4. /\ NumIn(PartitionQueue, T)' = NumIn(PartitionQueue, T) /\ NumIn(RetryBuffer, T)' = NumIn(RetryBuffer, T)
          /\ NumIn(BrokerQueue, T)' = NumIn(BrokerQueue, T) /\ NumIn(BrokerSets, T)' = NumIn(BrokerSets, T)
      BY <3>3, SamePartitions, SameBrokers
    <3>5. Counts(T)
      BY <1>0, CountsNow
    <3>6. BeforeBrokers(T)' = BeforeBrokers(T) + 0
      BY <1>6, <3>1, <3>2, <3>4, <3>5, OneInt, SMTT(60) DEF BeforeBrokers, Counts
    <3>7. QED
      BY <3>1, <3>4, <3>5, <3>6 DEF Effect, Counts
  <2>3. \A T : Same(T, <<>>)
    <3>1. ASSUME NEW T PROVE Same(T, <<>>)
      <4>1. Num(<<>>, T) + 0 + 0 + 0 + 0 = 0
        BY NoErrors
      <4>2. QED
        BY ZenonT(60), <1>0, <2>1, <2>2, <4>1, NoErrors, EffectSame
    <3>2. QED
      BY <3>1
  <2>4. InFlightExact'
    <3>1. Effect(Message, 0, 0, 0, 0) /\ Effect(Taken, 0, 0, 0, 0)
      BY <2>2
    <3>2. m_in_flight' = m_in_flight + 0 + 0 + 0 + 0 + 0 + 0
      BY <1>2, <1>9
    <3>3. QED
      BY <1>0, <1>7, <3>1, <3>2, KeepInFlight
  <2>5. Expected'
    <3>1. ASSUME NEW p \in Partitions, NEW l \in 1..RetryMax PROVE Chasers(p, l)' = Chasers(p, l)
      <4>1. Effect(Fin(p, l), 0, 0, 0, 0) /\ Effect(Fin(p, l - 1), 0, 0, 0, 0)
        BY <2>2
      <4>2. 0 + 0 + 0 + 0 = 0
        OBVIOUS
      <4>3. QED
        BY <1>0, <4>1, <4>2, ZeroChasers, Zenon
    <3>2. QED
      BY <1>0, <1>2, <3>1, KeepExpected, Zenon
  <2>6. QED
    BY <1>2, <1>8, <2>1, <2>3, <2>4, <2>5, ExactStep
<1>11. CASE retry_buf' = Tail(buf) /\ m_input' = Append(m_input, Head(buf))
  <2>0. PICK x \in Back : x = Head(buf) /\ Tail(buf) \in Seq(Back)
    BY <1>5, HeadTailProperties
  <2>1. Shapes'
    <3>1. x \in Entering
      BY ItemSets
    <3>2. m_input' \in Seq(Entering)
      BY <1>4, <1>11, <2>0, <3>1
    <3>3. QED
      BY <1>0, <1>2, <1>3, <1>4, <1>11, <2>0, <3>2 DEF Shapes
  <2>2. ASSUME NEW T PROVE Effect(T, One(x, T), 0 - One(x, T), 0, 0)
    <3>1. Num(topic_input, T)' = Num(topic_input, T)
      BY <1>2, Zenon
    <3>2. Num(retry_buf, T)' = Num(retry_buf, T) + One(h, T) - One(x, T)
      <4>1. Num(buf, T) = One(x, T) + Num(Tail(buf), T)
        BY <1>5, <2>0, NumPop
      <4>2. Num(retry_buf, T)' = Num(Tail(buf), T) /\ Num(Tail(buf), T) \in Nat
        BY <1>11, <2>0, NumPositions
      <4>3. QED
        BY <1>6, <4>1, <4>2, OneInt
    <3>3. Num(m_input, T)' = Num(m_input, T) + One(x, T)
      <4>1. x \in Entering
        BY ItemSets
      <4>2. Num(Append(m_input, x), T) = Num(m_input, T) + One(x, T)
        BY <1>4, <4>1, NumPush
      <4>3. QED
        BY <1>11, <2>0, <4>2, Zenon
    <3>4. pp' = pp /\ bp' = bp
      BY <1>2
    <3>5. /\ NumIn(PartitionQueue, T)' = NumIn(PartitionQueue, T) /\ NumIn(RetryBuffer, T)' = NumIn(RetryBuffer, T)
          /\ NumIn(BrokerQueue, T)' = NumIn(BrokerQueue, T) /\ NumIn(BrokerSets, T)' = NumIn(BrokerSets, T)
      BY <3>4, SamePartitions, SameBrokers
    <3>6. Counts(T) /\ One(x, T) \in Int /\ One(h, T) \in Int
      BY <1>0, CountsNow, OneInt
    <3>7. BeforeBrokers(T)' = BeforeBrokers(T) + (0 - One(x, T))
      <4>0. PICK a \in Int, c \in Int : a = One(x, T) /\ c = One(h, T)
        BY <3>6
      <4>1. PICK r \in Int, u \in Int : r = 0 - c /\ u = c - a
        OBVIOUS
      <4>2. Num(topic_input, T)' = Num(topic_input, T) + 0
        BY <3>1, <3>6 DEF Counts
      <4>3. Num(m_retries, T)' = Num(m_retries, T) + r
        <5>1. Num(m_retries, T)' = Num(m_retries, T) - c /\ Num(m_retries, T) \in Nat
          BY <1>6, <4>0
        <5>2. QED
          BY <4>1, <5>1
      <4>4. Num(retry_buf, T)' = Num(retry_buf, T) + u
        <5>1. Num(retry_buf, T)' = Num(retry_buf, T) + c - a /\ Num(retry_buf, T) \in Nat
          BY <1>6, <3>2, <4>0
        <5>2. QED
          BY <4>1, <5>1
      <4>5. NumIn(PartitionQueue, T)' = NumIn(PartitionQueue, T) + 0
        BY <3>5, <3>6 DEF Counts
      <4>6. NumIn(RetryBuffer, T)' = NumIn(RetryBuffer, T) + 0
        BY <3>5, <3>6 DEF Counts
      <4>7. BeforeBrokers(T)' = BeforeBrokers(T) + (0 + r + u + 0 + 0)
        <5>1. BeforeEffect(T, 0, r, u, 0, 0)
          BY <4>2, <4>3, <4>4, <4>5, <4>6 DEF BeforeEffect
        <5>2. QED
          BY <1>0, <5>1, BeforeSum
      <4>8. 0 + r + u + 0 + 0 = 0 - a
        BY <4>1
      <4>9. QED
        BY <4>0, <4>7, <4>8, Zenon
    <3>8. QED
      BY <3>3, <3>5, <3>6, <3>7, SMTT(60) DEF Effect, Counts
  <2>3. \A T : Same(T, <<>>)
    <3>1. ASSUME NEW T PROVE Same(T, <<>>)
      <4>1. Num(<<>>, T) + One(x, T) + (0 - One(x, T)) + 0 + 0 = 0
        BY NoErrors, OneInt
      <4>2. QED
        BY <1>0, <2>1, <2>2, <4>1, NoErrors, EffectSame, ZenonT(60)
    <3>2. QED
      BY <3>1
  <2>4. InFlightExact'
    <3>1. /\ Effect(Message, One(x, Message), 0 - One(x, Message), 0, 0)
          /\ Effect(Taken, One(x, Taken), 0 - One(x, Taken), 0, 0)
      BY <2>2
    <3>2. One(x, Message) = 1 /\ One(x, Taken) = 1
      <4>1. x \in Message /\ x \in Entering /\ x.retries > 0
        BY ItemSets DEF Back, Returning
      <4>2. QED
        BY <4>1, OneTaken DEF One
    <3>3. m_in_flight' = m_in_flight + One(x, Taken) + (0 - One(x, Message)) + 0 + 0 + 0 + 0
      BY <1>2, <1>9, <3>2
    <3>4. QED
      BY <1>0, <1>7, <3>1, <3>3, KeepInFlight
  <2>5. Expected'
    <3>1. ASSUME NEW p \in Partitions, NEW l \in 1..RetryMax PROVE Chasers(p, l)' = Chasers(p, l)
      <4>1. Effect(Fin(p, l), One(x, Fin(p, l)), 0 - One(x, Fin(p, l)), 0, 0)
        BY <2>2
      <4>2. Effect(Fin(p, l - 1), One(x, Fin(p, l - 1)), 0 - One(x, Fin(p, l - 1)), 0, 0)
        BY <2>2
      <4>3. One(x, Fin(p, l)) + (0 - One(x, Fin(p, l))) + 0 + 0 = 0
        BY OneInt
      <4>4. QED
        BY <1>0, <4>1, <4>2, <4>3, ZeroChasers
    <3>2. QED
      BY <1>0, <1>2, <3>1, KeepExpected, Zenon
  <2>6. QED
    BY <1>2, <1>8, <2>1, <2>3, <2>4, <2>5, ExactStep
<1>12. QED
  BY <1>3, <1>5, <1>10, <1>11, Zenon DEF RetryHandler

-----------------------------------------------------------------------------
(* A step of a PartitionProducer                                                    *)

\* A step that answers some messages with an error, with each part of the invariant at hand.
LEMMA AnswerStep ==
  ASSUME ProducerInv, Shapes', NEW errs \in Seq(Payload(Place)), m_replies' = Replied(errs, <<>>),
         UNCHANGED <<sent, log, dropped>>, Balanced(errs),
         InFlightExact', Expected', \A p \in Partitions : Watermark(p, pp'[p])
  PROVE  ProducerInv'
<1>1. Accounts' /\ Stored'
  BY KeepAccounts
<1>2. QED
  BY <1>1 DEF ProducerInv

\* A condition as a number.
Flag(c) == IF c THEN 1 ELSE 0

\* A flag is a number.
LEMMA FlagNat == \A c : Flag(c) \in Nat
BY DEF Flag

\* How many partitions flush after one of them changed.
LEMMA FlushChange ==
  ASSUME Shapes, NEW p \in Partitions, NEW q \in PartitionProducer, pp' = [pp EXCEPT ![p] = q]
  PROVE  /\ Cardinality(Flushing)' + Flag(pp[p].pc = "flush") = Cardinality(Flushing) + Flag(q.pc = "flush")
         /\ Cardinality(Flushing)' \in Nat /\ Cardinality(Flushing) \in Nat
<1>1. PICK F : F = Flushing \ {p}
  OBVIOUS
<1>2. IsFiniteSet(F) /\ p \notin F
  <2>1. F \subseteq Partitions
    BY <1>1 DEF Flushing
  <2>2. QED
    BY <1>1, <2>1, FinitePlaces, FS_Subset
<1>3. pp \in [Partitions -> PartitionProducer]
  BY DEF Shapes
<1>4. pp'[p] = q /\ \A x \in Partitions : x # p => pp'[x] = pp[x]
  BY <1>3
<1>5. Flushing = (IF pp[p].pc = "flush" THEN F \cup {p} ELSE F)
  BY <1>1 DEF Flushing
<1>6. Flushing' = (IF q.pc = "flush" THEN F \cup {p} ELSE F)
  BY <1>1, <1>4 DEF Flushing
<1>7. Cardinality(F) \in Nat /\ Cardinality(F \cup {p}) = Cardinality(F) + 1
  BY <1>2, FS_CardinalityType, FS_AddElement
<1>8. Cardinality(Flushing) = Cardinality(F) + Flag(pp[p].pc = "flush")
  BY <1>5, <1>7 DEF Flag
<1>9. Cardinality(Flushing') = Cardinality(F) + Flag(q.pc = "flush")
  BY <1>6, <1>7 DEF Flag
<1>10. QED
  BY <1>7, <1>8, <1>9, FlagNat

\* The items out leave what a PartitionProducer holds, ms go to a BrokerProducer.
Leaves(p, q, k, out) ==
  \A T : Num(Waiting(q), T) + Num(q.buf[k], T) + Num(out, T) = Num(Waiting(pp[p]), T) + Num(pp[p].buf[k], T)

\* What a PartitionProducer sends goes to one BrokerProducer.
Sends(ms) == (bp' = bp /\ ms = <<>>) \/ \E b \in Brokers : ToBroker(b, ms)

\* Of T, what was let go is sent or answered.
Passed(out, ms, errs, T) == Num(out, T) = Num(ms, T) + Num(errs, T)

\* The expectation of level l is set when its chaser is sent, cleared when it is taken.
Chases(p, q, out, ms, l) ==
  Num(ms, Fin(p, l - 1)) + Flag(pp[p].expect[l]) = Num(out, Fin(p, l)) + Flag(q.expect[l])

\* A step of a PartitionProducer: it becomes q, lets out go, sends ms and answers errs.
PartitionMoves(p, q, k, out, ms, errs) ==
  /\ q \in PartitionShape(p) /\ Watermark(p, q) /\ pp' = [pp EXCEPT ![p] = q]
  /\ k \in Level /\ \A l \in Level : l # k => q.buf[l] = pp[p].buf[l]
  /\ out \in Seq(Coming({p})) /\ Leaves(p, q, k, out)
  /\ ms \in Seq(Going \cap OfPart({p})) /\ Sends(ms) /\ errs \in Seq(Payload(Place))
  /\ \A id \in 1..MaxSent : Passed(out, ms, errs, WithId({id}))
  /\ \A e \in Payload(Place) : Passed(out, ms, errs, Older(e))
  /\ \A l \in 1..RetryMax : Chases(p, q, out, ms, l)

\* What the BrokerProducers gain by it.
LEMMA SendsShape ==
  ASSUME Shapes, NEW ms \in Seq(Going), Sends(ms)
  PROVE  /\ bp' \in [Brokers -> BrokerShape]
         /\ \A T : /\ NumIn(BrokerQueue, T)' = NumIn(BrokerQueue, T) + Num(ms, T)
                   /\ NumIn(BrokerSets, T)' = NumIn(BrokerSets, T)
<1>0. bp \in [Brokers -> BrokerShape]
  BY DEF Shapes
<1>1. CASE bp' = bp /\ ms = <<>>
  <2>1. \A T : Num(ms, T) = 0
    BY <1>1, NumEmpty
  <2>2. ASSUME NEW T PROVE NumIn(BrokerQueue, T)' = NumIn(BrokerQueue, T) + Num(ms, T)
    <3>1. NumIn(BrokerQueue, T)' = NumIn(BrokerQueue, T) /\ NumIn(BrokerQueue, T) \in Nat
      BY <1>1, SameBrokers, CountsNow DEF Counts
    <3>2. QED
      BY <2>1, <3>1
  <2>3. QED
    BY <1>0, <1>1, <2>2, SameBrokers
<1>2. ASSUME NEW b \in Brokers, ToBroker(b, ms)
      PROVE  /\ bp' \in [Brokers -> BrokerShape]
             /\ \A T : /\ NumIn(BrokerQueue, T)' = NumIn(BrokerQueue, T) + Num(ms, T)
                       /\ NumIn(BrokerSets, T)' = NumIn(BrokerSets, T)
  <2>1. bp[b] \in BrokerShape /\ bp[b].m_input \in Seq(Going)
    BY <1>0 DEF BrokerShape
  <2>2. PICK s \in Seq(Going) : s = bp[b].m_input \o ms
    BY <2>1, ConcatProperties
  <2>3. PICK r \in BrokerShape : r = [bp[b] EXCEPT !.m_input = s]
    BY <2>1 DEF BrokerShape
  <2>4. bp' = [bp EXCEPT ![b] = r]
    BY <1>0, <1>2, <2>2, <2>3 DEF ToBroker
  <2>5. r.m_input = s /\ Sets(r) = Sets(bp[b])
    BY <2>1, <2>3 DEF Sets, BrokerShape
  <2>6. r \in BrokerProducer /\ bp[b] \in BrokerProducer
    BY <2>1, BrokerShapeType
  <2>7. ASSUME NEW T PROVE /\ NumIn(BrokerQueue, T)' = NumIn(BrokerQueue, T) + Num(ms, T)
                           /\ NumIn(BrokerSets, T)' = NumIn(BrokerSets, T)
    <3>1. /\ NumIn(BrokerQueue, T)' + Num(bp[b].m_input, T) = NumIn(BrokerQueue, T) + Num(r.m_input, T)
          /\ NumIn(BrokerSets, T)' + Num(Sets(bp[b]), T) = NumIn(BrokerSets, T) + Num(Sets(r), T)
      BY <2>4, <2>6, BrokerChange
    <3>2. Num(r.m_input, T) = Num(bp[b].m_input, T) + Num(ms, T)
      BY <2>1, <2>2, <2>5, NumConcat
    <3>3. Num(bp[b].m_input, T) \in Nat /\ Num(ms, T) \in Nat /\ Num(Sets(bp[b]), T) \in Nat
      BY <2>1, <2>6, SetsType, NumPositions
    <3>4. bp' \in [Brokers -> BrokerProducer]
      BY <1>0, <2>4, <2>6, BrokerShapeType
    <3>5. NumIn(BrokerQueue, T)' \in Nat /\ NumIn(BrokerSets, T)' \in Nat
      <4>1. ASSUME NEW c \in Brokers PROVE Sets(bp'[c]) \in Seq(Message) /\ bp'[c].m_input \in Seq(Message)
        BY <3>4, SetsType DEF BrokerProducer
      <4>2. PICK u \in [Brokers -> Seq(Message)] : u = [c \in Brokers |-> bp'[c].m_input]
        BY <4>1
      <4>3. PICK v \in [Brokers -> Seq(Message)] : v = [c \in Brokers |-> Sets(bp'[c])]
        BY <4>1
      <4>4. BrokerQueue' = u /\ BrokerSets' = v
        BY <4>2, <4>3, Zenon DEF BrokerQueue, BrokerSets, Sets
      <4>5. NumIn(u, T) \in Nat /\ NumIn(v, T) \in Nat
        BY FinitePlaces, SlotsFinite
      <4>6. QED
        BY <4>4, <4>5, Zenon
    <3>6. NumIn(BrokerQueue, T) \in Nat /\ NumIn(BrokerSets, T) \in Nat
      BY CountsNow DEF Counts
    <3>7. NumIn(BrokerQueue, T)' = NumIn(BrokerQueue, T) + Num(ms, T)
      <4>1. PICK x \in Nat, y \in Nat, i \in Nat, n \in Nat :
              x = NumIn(BrokerQueue, T)' /\ y = NumIn(BrokerQueue, T) /\ i = Num(bp[b].m_input, T) /\ n = Num(ms, T)
        BY <3>3, <3>5, <3>6, Zenon
      <4>2. x + i = y + (i + n)
        BY <3>1, <3>2, <4>1, Zenon
      <4>3. x = y + n
        BY <4>2
      <4>4. QED
        BY <4>1, <4>3, Zenon
    <3>8. Num(Sets(r), T) = Num(Sets(bp[b]), T)
      BY <2>5, Zenon
    <3>9. NumIn(BrokerSets, T)' = NumIn(BrokerSets, T)
      BY <3>1, <3>3, <3>5, <3>6, <3>8
    <3>10. QED
      BY <3>7, <3>9
  <2>8. bp' \in [Brokers -> BrokerShape]
    BY <1>0, <2>4
  <2>9. QED
    BY <2>7, <2>8
<1>3. QED
  BY <1>1, <1>2 DEF Sends

\* Its numbers.
LEMMA PartitionEffect ==
  ASSUME Shapes, Shapes', NEW p \in Partitions, NEW q, NEW k, NEW out, NEW ms, NEW errs,
         PartitionMoves(p, q, k, out, ms, errs),
         UNCHANGED <<m_input, topic_input, m_retries, retry_buf>>, NEW T
  PROVE  Effect(T, 0, 0 - Num(out, T), Num(ms, T), 0)
<1>0. /\ q \in PartitionProducer /\ pp' = [pp EXCEPT ![p] = q] /\ k \in Level
      /\ \A l \in Level : l # k => q.buf[l] = pp[p].buf[l]
      /\ out \in Seq(Coming({p})) /\ Leaves(p, q, k, out) /\ Sends(ms)
  BY PartitionShapeType DEF PartitionMoves
<1>1. pp[p] \in PartitionProducer
  BY DEF Shapes
<1>2. ms \in Seq(Going)
  <2>1. ms \in Seq(Going \cap OfPart({p}))
    BY DEF PartitionMoves
  <2>2. QED
    BY <2>1, SeqWiden
<1>3. Waiting(q) \in Seq(Message) /\ Waiting(pp[p]) \in Seq(Message)
  BY <1>0, <1>1, WaitingType
<1>4. q.buf[k] \in Seq(Message) /\ pp[p].buf[k] \in Seq(Message)
  BY <1>0, <1>1 DEF PartitionProducer
<1>5. /\ NumIn(PartitionQueue, T)' + Num(Waiting(pp[p]), T) = NumIn(PartitionQueue, T) + Num(Waiting(q), T)
      /\ NumIn(RetryBuffer, T)' + Num(pp[p].buf[k], T) = NumIn(RetryBuffer, T) + Num(q.buf[k], T)
  BY <1>0, PartitionChange
<1>6. Num(Waiting(q), T) + Num(q.buf[k], T) + Num(out, T) = Num(Waiting(pp[p]), T) + Num(pp[p].buf[k], T)
  BY <1>0 DEF Leaves
<1>7. Counts(T) /\ Counts(T)'
  BY CountsNow, CountsNext
<1>8. PICK a \in Nat, b \in Nat, c \in Nat, d \in Nat, o \in Nat :
        /\ a = Num(Waiting(q), T) /\ b = Num(q.buf[k], T) /\ c = Num(Waiting(pp[p]), T)
        /\ d = Num(pp[p].buf[k], T) /\ o = Num(out, T)
  BY <1>0, <1>3, <1>4, NumPositions
<1>9. PICK x \in Nat, x2 \in Nat, y \in Nat, y2 \in Nat :
        /\ x = NumIn(PartitionQueue, T) /\ x2 = NumIn(PartitionQueue, T)'
        /\ y = NumIn(RetryBuffer, T) /\ y2 = NumIn(RetryBuffer, T)'
  BY <1>7, Zenon DEF Counts
<1>10. x2 + c = x + a /\ y2 + d = y + b /\ a + b + o = c + d
  BY <1>5, <1>6, <1>8, <1>9, Zenon
<1>11. PICK i \in Int, j \in Int : i = a - c /\ j = b - d
  OBVIOUS
<1>12. x2 = x + i /\ y2 = y + j /\ i + j = 0 - o
  BY <1>10, <1>11
<1>13. BeforeEffect(T, 0, 0, 0, i, j)
  <2>1. Num(topic_input, T)' = Num(topic_input, T) + 0
    <3>1. Num(topic_input, T)' = Num(topic_input, T)
      BY Zenon
    <3>2. QED
      BY <1>7, <3>1 DEF Counts
  <2>2. Num(m_retries, T)' = Num(m_retries, T) + 0
    <3>1. Num(m_retries, T)' = Num(m_retries, T)
      BY Zenon
    <3>2. QED
      BY <1>7, <3>1 DEF Counts
  <2>3. Num(retry_buf, T)' = Num(retry_buf, T) + 0
    <3>1. Num(retry_buf, T)' = Num(retry_buf, T)
      BY Zenon
    <3>2. QED
      BY <1>7, <3>1 DEF Counts
  <2>4. NumIn(PartitionQueue, T)' = NumIn(PartitionQueue, T) + i /\ NumIn(RetryBuffer, T)' = NumIn(RetryBuffer, T) + j
    BY <1>9, <1>12, Zenon
  <2>5. QED
    BY <2>1, <2>2, <2>3, <2>4 DEF BeforeEffect
<1>14. BeforeBrokers(T)' = BeforeBrokers(T) + (0 + 0 + 0 + i + j)
  BY <1>13, BeforeSum
<1>15. 0 + 0 + 0 + i + j = 0 - o
  BY <1>12
<1>16. BeforeBrokers(T)' = BeforeBrokers(T) + (0 - Num(out, T))
  BY <1>8, <1>14, <1>15, Zenon
<1>17. Num(m_input, T)' = Num(m_input, T) + 0
  <2>1. Num(m_input, T)' = Num(m_input, T)
    BY Zenon
  <2>2. QED
    BY <1>7, <2>1 DEF Counts
<1>18. NumIn(BrokerQueue, T)' = NumIn(BrokerQueue, T) + Num(ms, T) /\ NumIn(BrokerSets, T)' = NumIn(BrokerSets, T)
  BY <1>0, <1>2, SendsShape
<1>19. NumIn(BrokerSets, T)' = NumIn(BrokerSets, T) + 0
  BY <1>7, <1>18 DEF Counts
<1>20. {0, 0 - Num(out, T), Num(ms, T), 0} \subseteq Int
  <2>1. Num(ms, T) \in Nat /\ Num(out, T) \in Nat
    BY <1>0, <1>2, NumPositions
  <2>2. QED
    BY <2>1
<1>21. QED
  BY <1>16, <1>17, <1>18, <1>19, <1>20, Zenon DEF Effect

\* Such a step keeps the invariant if m_in_flight follows it.
LEMMA PartitionMoved ==
  ASSUME ProducerInv, NEW p \in Partitions, NEW q, NEW k, NEW out, NEW ms, NEW errs, NEW more \in Int,
         PartitionMoves(p, q, k, out, ms, errs), Reply(errs, <<>>, more),
         more + Len(out) + Flag(pp[p].pc = "flush") = Len(errs) + Len(ms) + Flag(q.pc = "flush"),
         UNCHANGED <<sent, m_input, topic_input, m_retries, retry_buf, closing, leader, log, dropped>>
  PROVE  ProducerInv'
<1>0. Shapes /\ InFlightExact /\ Expected /\ \A x \in Partitions : Watermark(x, pp[x])
  BY DEF ProducerInv
<1>1. /\ q \in PartitionShape(p) /\ q \in PartitionProducer /\ pp' = [pp EXCEPT ![p] = q]
      /\ out \in Seq(Coming({p})) /\ Sends(ms) /\ errs \in Seq(Payload(Place)) /\ Watermark(p, q)
  BY PartitionShapeType DEF PartitionMoves
<1>2. ms \in Seq(Going) /\ ms \in Seq(Going \cap OfPart({p})) /\ ms \in Seq(Message)
  <2>1. ms \in Seq(Going \cap OfPart({p}))
    BY DEF PartitionMoves
  <2>2. QED
    BY <2>1, SeqWiden, ItemSets
<1>3. out \in Seq(Message)
  <2>1. Coming({p}) \subseteq Message
    BY ItemSets
  <2>2. QED
    BY <1>1, <2>1, SeqWiden
<1>4. pp' \in [Partitions -> PartitionProducer] /\ pp'[p] = q /\ \A x \in Partitions : x # p => pp'[x] = pp[x]
  BY <1>0, <1>1 DEF Shapes
<1>5. /\ m_replies' = Replied(errs, <<>>) /\ m_in_flight' = m_in_flight + more - Len(errs)
      /\ m_in_flight \in Nat /\ Len(errs) \in Nat /\ m_replies' \in [(0..MaxSent) \X BOOLEAN -> Nat]
  <2>1. <<>> \in Seq(Payload(Place)) /\ Len(<<>>) = 0
    BY NoErrors
  <2>2. /\ m_replies' = Replied(errs, <<>>) /\ m_in_flight' = m_in_flight + more - Len(errs) - Len(<<>>)
        /\ m_in_flight \in Nat /\ Len(errs) \in Nat /\ m_replies' \in [(0..MaxSent) \X BOOLEAN -> Nat]
    BY <1>1, <2>1, ReplyForm, Zenon
  <2>3. QED
    BY <2>1, <2>2
<1>6. Shapes'
  <2>1. bp' \in [Brokers -> BrokerShape]
    BY <1>0, <1>1, <1>2, SendsShape
  <2>2. \A x \in Partitions : pp'[x] \in PartitionShape(x)
    BY <1>0, <1>1, <1>4 DEF Shapes
  <2>3. QED
    BY <1>0, <1>4, <1>5, <2>1, <2>2 DEF Shapes
<1>7. ASSUME NEW T PROVE /\ Effect(T, 0, 0 - Num(out, T), Num(ms, T), 0)
                         /\ Num(out, T) \in Nat /\ Num(ms, T) \in Nat /\ Num(errs, T) \in Nat
  BY <1>0, <1>1, <1>2, <1>6, PartitionEffect, NumPositions
<1>8. ASSUME NEW T, Passed(out, ms, errs, T) PROVE Same(T, errs)
  <2>1. Effect(T, 0, 0 - Num(out, T), Num(ms, T), 0)
    BY <1>7
  <2>2. PICK o \in Nat, n \in Nat, e \in Nat : o = Num(out, T) /\ n = Num(ms, T) /\ e = Num(errs, T) /\ o = n + e
    BY <1>7, <1>8 DEF Passed
  <2>3. e + 0 + (0 - o) + n + 0 = 0
    BY <2>2, SMTT(60)
  <2>4. Num(errs, T) + 0 + (0 - Num(out, T)) + Num(ms, T) + 0 = 0
    BY <2>2, <2>3
  <2>5. QED
    BY <1>0, <1>1, <1>6, <2>1, <2>4, EffectSame
<1>9. Accounts' /\ Stored'
  <2>1. /\ \A id \in 1..MaxSent : Same(WithId({id}), errs)
        /\ \A e \in Payload(Place) : Same(Older(e), errs)
    BY <1>8 DEF PartitionMoves
  <2>2. QED
    BY <1>1, <1>5, <1>6, <2>1, SameAccounts, Zenon
<1>10. InFlightExact'
  <2>1. /\ Effect(Message, 0, 0 - Num(out, Message), Num(ms, Message), 0)
        /\ Effect(Taken, 0, 0 - Num(out, Taken), Num(ms, Taken), 0)
    BY <1>7
  <2>2. Num(out, Message) = Len(out) /\ Num(ms, Message) = Len(ms)
    BY <1>2, <1>3, NumAll
  <2>3. /\ Cardinality(Flushing)' + Flag(pp[p].pc = "flush") = Cardinality(Flushing) + Flag(q.pc = "flush")
        /\ Cardinality(Flushing)' \in Nat /\ Cardinality(Flushing) \in Nat
    BY <1>0, <1>1, FlushChange
  <2>4. PICK f \in Int : f = Flag(q.pc = "flush") - Flag(pp[p].pc = "flush")
    BY FlagNat
  <2>5. Cardinality(Flushing)' = Cardinality(Flushing) + f
    <3>1. PICK a \in Nat, b \in Nat, c \in Nat, d \in Nat :
            /\ a = Cardinality(Flushing) /\ b = Cardinality(Flushing)'
            /\ c = Flag(q.pc = "flush") /\ d = Flag(pp[p].pc = "flush")
      BY <2>3, FlagNat, Zenon
    <3>2. b + d = a + c /\ f = c - d
      BY <2>3, <2>4, <3>1, Zenon
    <3>3. b = a + f
      BY <3>2
    <3>4. QED
      BY <3>1, <3>3, Zenon
  <2>6. Cardinality(dropped)' = Cardinality(dropped) + 0
    BY <1>0, CardinalitiesNat
  <2>7. Len(out) \in Nat /\ Len(ms) \in Nat
    BY <1>2, <1>3
  <2>8. m_in_flight' = m_in_flight + 0 + (0 - Num(out, Message)) + Num(ms, Message) + 0 + 0 + f
    <3>1. PICK a \in Nat, b \in Nat, c \in Nat, d \in Nat, e \in Nat, g \in Nat :
            /\ a = m_in_flight /\ b = Len(out) /\ c = Len(ms) /\ d = Len(errs)
            /\ e = Flag(q.pc = "flush") /\ g = Flag(pp[p].pc = "flush")
      BY <1>5, <2>7, FlagNat
    <3>2. more + b + g = d + c + e /\ f = e - g /\ m_in_flight' = a + more - d
      BY <1>5, <2>4, <3>1, Zenon
    <3>3. a + more - d = a + 0 + (0 - b) + c + 0 + 0 + f
      BY <3>2
    <3>4. QED
      BY <2>2, <3>1, <3>2, <3>3
  <2>9. 0 \in Int
    OBVIOUS
  <2>10. QED
    BY <1>0, <2>1, <2>5, <2>6, <2>8, <2>9, KeepInFlight
<1>11. Expected'
  <2>1. ASSUME NEW x \in Partitions, NEW l \in 1..RetryMax
        PROVE  Chasers(x, l)' = IF pp'[x].expect[l] THEN 1 ELSE 0
    <3>1. /\ Effect(Fin(x, l), 0, 0 - Num(out, Fin(x, l)), Num(ms, Fin(x, l)), 0)
          /\ Effect(Fin(x, l - 1), 0, 0 - Num(out, Fin(x, l - 1)), Num(ms, Fin(x, l - 1)), 0)
      BY <1>7
    <3>2. /\ Chasers(x, l)' = Chasers(x, l) + 0 + (0 - Num(out, Fin(x, l))) + Num(ms, Fin(x, l - 1)) + 0
          /\ Chasers(x, l) \in Nat
      BY <1>0, <3>1, EffectChasers
    <3>3. Chasers(x, l) = Flag(pp[x].expect[l])
      BY <1>0 DEF Expected, Flag
    <3>4. PICK o \in Nat, n \in Nat : o = Num(out, Fin(x, l)) /\ n = Num(ms, Fin(x, l - 1))
      BY <1>7
    <3>5. n + Flag(pp[x].expect[l]) = o + Flag(pp'[x].expect[l])
      <4>1. CASE x = p
        <5>1. Chases(p, q, out, ms, l)
          BY DEF PartitionMoves
        <5>2. QED
          BY <1>4, <3>4, <4>1, <5>1, Zenon DEF Chases
      <4>2. CASE x # p
        <5>1. \A i \in 1..Len(out) : out[i] \notin Fin(x, l)
          BY <1>1, <4>2 DEF Coming, Payload, Returning, Fin
        <5>2. \A i \in 1..Len(ms) : ms[i] \notin Fin(x, l - 1)
          BY <1>2, <4>2 DEF OfPart, Fin
        <5>3. n = 0 /\ o = 0
          BY <1>2, <1>3, <3>4, <5>1, <5>2, NumZero
        <5>4. QED
          BY <1>4, <4>2, <5>3, FlagNat
      <4>3. QED
        BY <4>1, <4>2
    <3>6. Chasers(x, l)' = Flag(pp'[x].expect[l])
      <4>1. PICK a \in Nat, b \in Nat : a = Flag(pp[x].expect[l]) /\ b = Flag(pp'[x].expect[l])
        BY FlagNat
      <4>2. Chasers(x, l)' = a + 0 + (0 - o) + n + 0
        BY <3>2, <3>3, <3>4, <4>1, Zenon
      <4>3. n + a = o + b
        BY <3>5, <4>1, Zenon
      <4>4. a + 0 + (0 - o) + n + 0 = b
        BY <4>3
      <4>5. QED
        BY <4>1, <4>2, <4>4, Zenon
    <3>7. QED
      BY <3>6, Zenon DEF Flag
  <2>2. QED
    BY <2>1, Zenon DEF Expected
<1>12. \A x \in Partitions : Watermark(x, pp'[x])
  BY <1>0, <1>1, <1>4, Zenon
<1>13. QED
  BY <1>6, <1>9, <1>10, <1>11, <1>12, Zenon DEF ProducerInv

\* What a partition sends, with the messages among it and its chasers.
Carries(p, q, out, ms, errs) ==
  /\ ms \in Seq(Going \cap OfPart({p}))
  /\ \A id \in 1..MaxSent : Passed(out, ms, errs, WithId({id}))
  /\ \A e \in Payload(Place) : Passed(out, ms, errs, Older(e))
  /\ \A l \in 1..RetryMax : Chases(p, q, out, ms, l)

\* The syn is neither a message nor a chaser.
LEMMA SynFacts ==
  ASSUME NEW p \in Partitions, NEW y, y = Mark("syn", p, 0)
  PROVE  y \in Going \cap OfPart({p}) /\ y \in Marks /\ \A x, l : One(y, Fin(x, l)) = 0
<1>1. y \in Syn /\ y.part = p
  BY DEF Mark, Syn
<1>2. y \in Message
  BY <1>1, ItemTypes
<1>3. y \in OfPart({p})
  BY <1>1, <1>2 DEF Message, OfPart
<1>4. QED
  BY <1>1, <1>3, OneOther DEF Going, Marks

\* A syn sent ahead changes neither messages nor chasers.
LEMMA SynCarries ==
  ASSUME NEW p \in Partitions, NEW q, NEW out, NEW ms, NEW errs, Carries(p, q, out, ms, errs)
  PROVE  /\ Carries(p, q, out, <<Mark("syn", p, 0)>> \o ms, errs)
         /\ Len(<<Mark("syn", p, 0)>> \o ms) = Len(ms) + 1 /\ Len(ms) \in Nat
<1>1. PICK y : y = Mark("syn", p, 0)
  OBVIOUS
<1>2. y \in Going \cap OfPart({p}) /\ y \in Marks /\ \A x, l : One(y, Fin(x, l)) = 0
  BY <1>1, SynFacts
<1>3. ms \in Seq(Going \cap OfPart({p}))
  BY DEF Carries
<1>4. <<y>> \in Seq(Going \cap OfPart({p})) /\ Len(<<y>>) = 1
  BY <1>2, Single
<1>5. PICK s \in Seq(Going \cap OfPart({p})) : s = <<y>> \o ms
  BY <1>3, <1>4, ConcatProperties
<1>6. Len(s) = Len(ms) + 1 /\ Len(ms) \in Nat
  BY <1>3, <1>4, <1>5
<1>7. ASSUME NEW T, One(y, T) = 0 PROVE Num(s, T) = Num(ms, T)
  <2>1. Num(s, T) = Num(<<y>>, T) + Num(ms, T)
    BY <1>3, <1>4, <1>5, NumConcat
  <2>2. Num(<<y>>, T) = 0
    BY <1>7, NumOne
  <2>3. Num(ms, T) \in Nat
    BY <1>3, NumPositions
  <2>4. QED
    BY <2>1, <2>2, <2>3
<1>8. \A id \in 1..MaxSent : Passed(out, s, errs, WithId({id}))
  <2>1. ASSUME NEW id \in 1..MaxSent PROVE Passed(out, s, errs, WithId({id}))
    <3>1. Num(s, WithId({id})) = Num(ms, WithId({id}))
      BY <1>2, <1>7, OneMark
    <3>2. Passed(out, ms, errs, WithId({id}))
      BY DEF Carries
    <3>3. QED
      BY <3>1, <3>2, Zenon DEF Passed
  <2>2. QED
    BY <2>1
<1>9. \A e \in Payload(Place) : Passed(out, s, errs, Older(e))
  <2>1. ASSUME NEW e \in Payload(Place) PROVE Passed(out, s, errs, Older(e))
    <3>1. Num(s, Older(e)) = Num(ms, Older(e))
      BY <1>2, <1>7, OneMark
    <3>2. Passed(out, ms, errs, Older(e))
      BY DEF Carries
    <3>3. QED
      BY <3>1, <3>2, Zenon DEF Passed
  <2>2. QED
    BY <2>1
<1>10. \A l \in 1..RetryMax : Chases(p, q, out, s, l)
  <2>1. ASSUME NEW l \in 1..RetryMax PROVE Chases(p, q, out, s, l)
    <3>1. Num(s, Fin(p, l - 1)) = Num(ms, Fin(p, l - 1))
      BY <1>2, <1>7
    <3>2. Chases(p, q, out, ms, l)
      BY DEF Carries
    <3>3. QED
      BY <3>1, <3>2, Zenon DEF Chases
  <2>2. QED
    BY <2>1
<1>11. Carries(p, q, out, s, errs)
  BY <1>5, <1>8, <1>9, <1>10, Zenon DEF Carries
<1>12. QED
  BY <1>1, <1>5, <1>6, <1>11, Zenon

\* What a PartitionProducer keeps: q has let out go, and no buffer but k's changed.
Keeps(p, q, k, out) ==
  /\ q \in PartitionShape(p) /\ Watermark(p, q)
  /\ k \in Level /\ \A l \in Level : l # k => q.buf[l] = pp[p].buf[l]
  /\ out \in Seq(Coming({p})) /\ Leaves(p, q, k, out)

\* A step is made of what the PartitionProducer keeps and what it sends.
LEMMA MovesForm ==
  ASSUME NEW p, NEW q, NEW k, NEW out, NEW ms, NEW errs \in Seq(Payload(Place)),
         Keeps(p, q, k, out), Carries(p, q, out, ms, errs), pp' = [pp EXCEPT ![p] = q], Sends(ms)
  PROVE  PartitionMoves(p, q, k, out, ms, errs)
BY Zenon DEF PartitionMoves, Keeps, Carries

\* q, with the BrokerProducer c.
WithBroker(q, c, r) == r = [q EXCEPT !.m_broker_producer = c]

\* Sent to b, after a syn if b is newly chosen; more counts what is sent but the syn.
SentTo(p, b, ms, more) ==
  \/ ToBroker(b, ms) /\ Reply(<<>>, <<>>, more)
  \/ ToBroker(b, <<Mark("syn", p, 0)>> \o ms) /\ Reply(<<>>, <<>>, more + 1)

\* m_in_flight follows the marks that a step makes and takes.
Counted(p, q, out, ms, more) ==
  more + Len(out) + Flag(pp[p].pc = "flush") = Len(ms) + Flag(q.pc = "flush")

\* A new BrokerProducer changes nothing else.
LEMMA NewBroker ==
  ASSUME NEW p, NEW q \in PartitionShape(p), NEW c \in Brokers \cup {Nobody}, NEW r, WithBroker(q, c, r)
  PROVE  /\ r \in PartitionShape(p)
         /\ r.pc = q.pc /\ r.m_input = q.m_input /\ r.msg = q.msg /\ r.buf = q.buf /\ r.expect = q.expect
         /\ r.m_high_watermark = q.m_high_watermark /\ Waiting(r) = Waiting(q)
<1>1. r \in PartitionShape(p)
  BY DEF PartitionShape, WithBroker
<1>2. /\ r.pc = q.pc /\ r.m_input = q.m_input /\ r.msg = q.msg /\ r.buf = q.buf /\ r.expect = q.expect
      /\ r.m_high_watermark = q.m_high_watermark
  BY DEF PartitionShape, WithBroker
<1>3. Waiting(r) = Waiting(q)
  <2>1. CASE q.pc = "send"
    <3>1. Waiting(r) = r.m_input \o <<r.msg>> /\ Waiting(q) = q.m_input \o <<q.msg>>
      BY <1>2, <2>1, Zenon DEF Waiting
    <3>2. QED
      BY <1>2, <3>1, Zenon
  <2>2. CASE q.pc # "send"
    <3>1. Waiting(r) = r.m_input \o <<>> /\ Waiting(q) = q.m_input \o <<>>
      BY <1>2, <2>2, Zenon DEF Waiting
    <3>2. QED
      BY <1>2, <3>1, Zenon
  <2>3. QED
    BY <2>1, <2>2
<1>4. QED
  BY <1>1, <1>2, <1>3

\* A step that sends, to a BrokerProducer old or new, keeps the invariant.
LEMMA LedStep ==
  ASSUME ProducerInv, NEW p \in Partitions, NEW q, NEW k, NEW out, NEW ms, NEW more \in Int,
         NEW c \in Brokers \cup {Nobody}, NEW b \in Brokers,
         Keeps(p, q, k, out), Carries(p, q, out, ms, <<>>),
         NEW r, WithBroker(q, c, r), pp' = [pp EXCEPT ![p] = r],
         SentTo(p, b, ms, more), Counted(p, q, out, ms, more),
         UNCHANGED <<sent, m_input, topic_input, m_retries, retry_buf, closing, leader, log, dropped>>
  PROVE  ProducerInv'
<1>1. q \in PartitionShape(p) /\ Watermark(p, q) /\ Leaves(p, q, k, out)
  BY DEF Keeps
<1>2. /\ r \in PartitionShape(p)
      /\ r.pc = q.pc /\ r.m_input = q.m_input /\ r.msg = q.msg /\ r.buf = q.buf /\ r.expect = q.expect
      /\ r.m_high_watermark = q.m_high_watermark /\ Waiting(r) = Waiting(q)
  BY <1>1, NewBroker, ZenonT(60)
<1>3. Watermark(p, r)
  BY <1>1, <1>2, Zenon DEF Watermark
<1>5. Leaves(p, r, k, out)
  BY <1>1, <1>2, Zenon DEF Leaves
<1>6. Keeps(p, r, k, out)
  BY <1>2, <1>3, <1>5, Zenon DEF Keeps
<1>7. ASSUME NEW s, Carries(p, q, out, s, <<>>) PROVE Carries(p, r, out, s, <<>>)
  BY <1>2, <1>7, Zenon DEF Carries, Chases
<1>8. <<>> \in Seq(Payload(Place)) /\ Len(<<>>) = 0
  BY NoErrors
<1>9. Len(ms) \in Nat /\ Len(out) \in Nat
  BY SynCarries DEF Keeps
<1>10. ASSUME NEW s, NEW d \in Int, Carries(p, q, out, s, <<>>), ToBroker(b, s), Reply(<<>>, <<>>, d),
              d + Len(out) + Flag(pp[p].pc = "flush") = Len(<<>>) + Len(s) + Flag(r.pc = "flush")
       PROVE  ProducerInv'
  <2>1. Sends(s)
    BY <1>10, Zenon DEF Sends
  <2>2. PartitionMoves(p, r, k, out, s, <<>>)
    BY <1>2, <1>6, <1>7, <1>8, <1>10, <2>1, MovesForm, Zenon
  <2>3. QED
    BY <1>10, <2>2, PartitionMoved, Zenon
<1>11. CASE ToBroker(b, ms) /\ Reply(<<>>, <<>>, more)
  <2>1. more + Len(out) + Flag(pp[p].pc = "flush") = Len(<<>>) + Len(ms) + Flag(r.pc = "flush")
    BY <1>2, <1>8, <1>9, FlagNat DEF Counted
  <2>2. QED
    BY <1>10, <1>11, <2>1, Zenon
<1>12. CASE ToBroker(b, <<Mark("syn", p, 0)>> \o ms) /\ Reply(<<>>, <<>>, more + 1)
  <2>0. PICK s : s = <<Mark("syn", p, 0)>> \o ms
    OBVIOUS
  <2>1. PICK d \in Int : s = <<Mark("syn", p, 0)>> \o ms /\ d = more + 1
    BY <2>0
  <2>2. Carries(p, q, out, s, <<>>) /\ Len(s) = Len(ms) + 1
    BY <2>1, SynCarries, Zenon
  <2>3. d + Len(out) + Flag(pp[p].pc = "flush") = Len(<<>>) + Len(s) + Flag(r.pc = "flush")
    <3>1. PICK i \in Nat, j \in Nat, f \in Nat, g \in Nat :
            i = Len(out) /\ j = Len(ms) /\ f = Flag(pp[p].pc = "flush") /\ g = Flag(q.pc = "flush")
      BY <1>9, FlagNat, Zenon
    <3>2. more + i + f = j + g
      BY <3>1, Zenon DEF Counted
    <3>3. (more + 1) + i + f = 0 + (j + 1) + g
      BY <3>2
    <3>4. QED
      BY <1>2, <1>8, <2>1, <2>2, <3>1, <3>3, Zenon
  <2>4. QED
    BY <1>10, <1>12, <2>1, <2>2, <2>3, Zenon
<1>13. QED
  BY <1>11, <1>12 DEF SentTo

\* What the coroutine waits for when it is not sending.
LEMMA WaitingIdle ==
  ASSUME NEW p, NEW r \in PartitionShape(p), r.pc # "send", NEW T
  PROVE  Num(Waiting(r), T) = Num(r.m_input, T)
<1>1. r.m_input \in Seq(Coming({p}))
  BY DEF PartitionShape
<1>2. Waiting(r) = r.m_input \o <<>>
  BY Zenon DEF Waiting
<1>3. r.m_input \o <<>> = r.m_input
  BY <1>1
<1>4. QED
  BY <1>2, <1>3, Zenon

\* What the coroutine waits with while it is sending.
LEMMA WaitingSend ==
  ASSUME NEW p \in Partitions, NEW r \in PartitionShape(p), r.pc = "send", NEW T
  PROVE  Num(Waiting(r), T) = Num(r.m_input, T) + One(r.msg, T)
<1>1. r \in PartitionProducer
  BY PartitionShapeType
<1>2. QED
  BY <1>1, WaitingType

\* A PartitionProducer that takes nothing lets nothing go.
LEMMA StayLeaves ==
  ASSUME Shapes, NEW p \in Partitions, NEW q \in PartitionShape(p), NEW k \in Level,
         q.m_input = pp[p].m_input, q.buf = pp[p].buf, q.pc # "send", pp[p].pc # "send"
  PROVE  Leaves(p, q, k, <<>>)
<1>1. ASSUME NEW T
      PROVE  Num(Waiting(q), T) + Num(q.buf[k], T) + Num(<<>>, T) = Num(Waiting(pp[p]), T) + Num(pp[p].buf[k], T)
  <2>1. pp[p] \in PartitionShape(p)
    BY DEF Shapes
  <2>2. Num(Waiting(q), T) = Num(q.m_input, T) /\ Num(Waiting(pp[p]), T) = Num(pp[p].m_input, T)
    BY <2>1, WaitingIdle
  <2>3. Num(<<>>, T) = 0
    BY NumEmpty
  <2>4. q.m_input \in Seq(Coming({p})) /\ q.buf[k] \in Seq(Payload({p}))
    BY DEF PartitionShape
  <2>5. PICK a \in Nat, b \in Nat : a = Num(q.m_input, T) /\ b = Num(q.buf[k], T)
    BY <2>4, NumPositions
  <2>6. a + b + 0 = a + b
    OBVIOUS
  <2>7. QED
    BY <2>2, <2>3, <2>5, <2>6, Zenon
<1>2. QED
  BY <1>1, Zenon DEF Leaves

\* What it takes from its channel is what it lets go.
LEMMA TakeLeaves ==
  ASSUME Shapes, NEW p \in Partitions, NEW q \in PartitionShape(p), NEW k \in Level, NEW m,
         pp[p].m_input # <<>>, m = Head(pp[p].m_input), q.m_input = Tail(pp[p].m_input),
         q.buf = pp[p].buf, q.pc # "send", pp[p].pc # "send"
  PROVE  Leaves(p, q, k, <<m>>)
<1>1. ASSUME NEW T
      PROVE  Num(Waiting(q), T) + Num(q.buf[k], T) + Num(<<m>>, T) = Num(Waiting(pp[p]), T) + Num(pp[p].buf[k], T)
  <2>1. pp[p] \in PartitionShape(p)
    BY DEF Shapes
  <2>2. Num(Waiting(q), T) = Num(q.m_input, T) /\ Num(Waiting(pp[p]), T) = Num(pp[p].m_input, T)
    BY <2>1, WaitingIdle
  <2>3. Num(<<m>>, T) = One(m, T)
    BY NumOne
  <2>4. q.m_input \in Seq(Coming({p})) /\ q.buf[k] \in Seq(Payload({p})) /\ pp[p].m_input \in Seq(Coming({p}))
    BY <2>1 DEF PartitionShape
  <2>5. PICK a \in Nat, b \in Nat, c \in Nat : a = Num(q.m_input, T) /\ b = Num(q.buf[k], T) /\ c = One(m, T)
    BY <2>4, NumPositions, OneInt
  <2>6. Num(pp[p].m_input, T) = c + a
    BY <2>4, <2>5, NumPop
  <2>7. a + b + c = (c + a) + b
    OBVIOUS
  <2>8. QED
    BY <2>2, <2>3, <2>5, <2>6, <2>7, Zenon
<1>2. QED
  BY <1>1, Zenon DEF Leaves

\* Nothing is taken or sent, and no chaser.
LEMMA QuietCarries ==
  ASSUME NEW p, NEW q, q.expect = pp[p].expect
  PROVE  Carries(p, q, <<>>, <<>>, <<>>)
<1>1. \A T : Num(<<>>, T) = 0
  BY NumEmpty
<1>2. ASSUME NEW T PROVE Passed(<<>>, <<>>, <<>>, T)
  BY <1>1 DEF Passed
<1>3. ASSUME NEW l PROVE Chases(p, q, <<>>, <<>>, l)
  <2>1. Num(<<>>, Fin(p, l - 1)) = Num(<<>>, Fin(p, l))
    BY <1>1, Zenon
  <2>2. QED
    BY <2>1, Zenon DEF Chases
<1>4. <<>> \in Seq(Going \cap OfPart({p}))
  OBVIOUS
<1>5. QED
  BY <1>2, <1>3, <1>4, Zenon DEF Carries

\* The lowest retry level.
LEMMA ZeroLevel == 0 \in Level
BY KafkaProducerAssumption DEF Level

\* dispatch() of a partition begins: it looks for a leader.
LEMMA StartStep ==
  ASSUME ProducerInv, NEW p \in Partitions, Start(p)
  PROVE  ProducerInv'
<1>0. Shapes /\ pp[p] \in PartitionShape(p) /\ Watermark(p, pp[p]) /\ pp[p].pc = "start"
  BY DEF ProducerInv, Shapes, Start
<1>1. UNCHANGED <<sent, m_input, topic_input, m_retries, retry_buf, closing, leader, log, dropped>>
  BY DEF Start, worldVars
<1>2. ASSUME NEW q \in PartitionShape(p), q.pc # "send", q.pc # "flush", q.m_input = pp[p].m_input, q.buf = pp[p].buf,
             q.expect = pp[p].expect, q.m_high_watermark = pp[p].m_high_watermark
      PROVE  /\ Keeps(p, q, 0, <<>>) /\ Carries(p, q, <<>>, <<>>, <<>>)
             /\ Flag(pp[p].pc = "flush") = 0 /\ Flag(q.pc = "flush") = 0
  <2>1. Watermark(p, q)
    BY <1>0, <1>2 DEF Watermark
  <2>2. Leaves(p, q, 0, <<>>)
    BY <1>0, <1>2, StayLeaves, ZeroLevel
  <2>3. Keeps(p, q, 0, <<>>)
    BY <1>2, <2>1, <2>2, ZeroLevel DEF Keeps
  <2>4. QED
    BY <1>0, <1>2, <2>3, QuietCarries DEF Flag
<1>3. ASSUME NEW b \in Brokers, pp' = [pp EXCEPT ![p].pc = "ready", ![p].m_broker_producer = b],
             ToBroker(b, <<Mark("syn", p, 0)>>), Reply(<<>>, <<>>, 1)
      PROVE  ProducerInv'
  <2>1. PICK q : q = [pp[p] EXCEPT !.pc = "ready"]
    OBVIOUS
  <2>2. /\ q \in PartitionShape(p) /\ q.pc # "send" /\ q.pc # "flush" /\ q.m_input = pp[p].m_input
        /\ q.buf = pp[p].buf /\ q.expect = pp[p].expect /\ q.m_high_watermark = pp[p].m_high_watermark
    BY <1>0, <2>1 DEF PartitionShape
  <2>3. PICK r : WithBroker(q, b, r)
    BY DEF WithBroker
  <2>4. pp' = [pp EXCEPT ![p] = r]
    BY <1>0, <1>3, <2>1, <2>3 DEF WithBroker, Shapes
  <2>5. /\ Keeps(p, q, 0, <<>>) /\ Carries(p, q, <<>>, <<>>, <<>>)
        /\ Flag(pp[p].pc = "flush") = 0 /\ Flag(q.pc = "flush") = 0
    BY <1>2, <2>2
  <2>6. SentTo(p, b, <<>>, 0)
    <3>1. <<Mark("syn", p, 0)>> \o <<>> = <<Mark("syn", p, 0)>>
      OBVIOUS
    <3>2. QED
      BY <1>3, <3>1 DEF SentTo
  <2>7. Counted(p, q, <<>>, <<>>, 0)
    BY <2>5, NoErrors DEF Counted
  <2>8. 0 \in Int /\ b \in Brokers \cup {Nobody}
    OBVIOUS
  <2>9. QED
    BY <1>1, <2>3, <2>4, <2>5, <2>6, <2>7, <2>8, LedStep, Zenon
<1>4. CASE pp' = [pp EXCEPT ![p].pc = "dead"] /\ Reply(<<>>, <<>>, 0) /\ bp' = bp
  <2>1. PICK q : q = [pp[p] EXCEPT !.pc = "dead"]
    OBVIOUS
  <2>2. /\ q \in PartitionShape(p) /\ q.pc # "send" /\ q.pc # "flush" /\ q.m_input = pp[p].m_input
        /\ q.buf = pp[p].buf /\ q.expect = pp[p].expect /\ q.m_high_watermark = pp[p].m_high_watermark
    BY <1>0, <2>1 DEF PartitionShape
  <2>3. pp' = [pp EXCEPT ![p] = q]
    BY <1>0, <1>4, <2>1 DEF Shapes
  <2>4. /\ Keeps(p, q, 0, <<>>) /\ Carries(p, q, <<>>, <<>>, <<>>)
        /\ Flag(pp[p].pc = "flush") = 0 /\ Flag(q.pc = "flush") = 0
    BY <1>2, <2>2
  <2>5. PartitionMoves(p, q, 0, <<>>, <<>>, <<>>)
    BY <1>4, <2>3, <2>4, NoErrors, MovesForm, Zenon DEF Sends
  <2>6. 0 + Len(<<>>) + Flag(pp[p].pc = "flush") = Len(<<>>) + Len(<<>>) + Flag(q.pc = "flush")
    BY <2>4, NoErrors
  <2>7. 0 \in Int
    OBVIOUS
  <2>8. QED
    BY <1>1, <1>4, <2>5, <2>6, <2>7, PartitionMoved, Zenon
<1>5. QED
  BY <1>3, <1>4 DEF Start

\* A message that finds no leader is answered.
LEMMA RefuseStep ==
  ASSUME ProducerInv, NEW p \in Partitions, NEW m \in Payload({p}), NEW z, NEW k, Keeps(p, z, k, <<m>>),
         z.expect = pp[p].expect, z.pc # "flush", pp[p].pc # "flush",
         pp' = [pp EXCEPT ![p] = z], bp' = bp, Reply(<<m>>, <<>>, 0),
         UNCHANGED <<sent, m_input, topic_input, m_retries, retry_buf, closing, leader, log, dropped>>
  PROVE  ProducerInv'
<1>1. m \in Payload(Place)
  BY ItemSets
<1>2. <<m>> \in Seq(Payload(Place)) /\ Len(<<m>>) = 1
  BY <1>1, Single
<1>3. ASSUME NEW T PROVE Passed(<<m>>, <<>>, <<m>>, T)
  <2>1. Num(<<>>, T) = 0 /\ Num(<<m>>, T) \in Nat
    BY <1>2, NumEmpty, NumPositions
  <2>2. QED
    BY <2>1 DEF Passed
<1>4. ASSUME NEW l PROVE Chases(p, z, <<m>>, <<>>, l)
  <2>1. Num(<<m>>, Fin(p, l)) = 0 /\ Num(<<>>, Fin(p, l - 1)) = 0
    BY <1>1, NumOne, NumEmpty, OnePayload
  <2>2. QED
    BY <2>1, Zenon DEF Chases
<1>5. <<>> \in Seq(Going \cap OfPart({p}))
  OBVIOUS
<1>6. Carries(p, z, <<m>>, <<>>, <<m>>)
  BY <1>3, <1>4, <1>5, Zenon DEF Carries
<1>7. PartitionMoves(p, z, k, <<m>>, <<>>, <<m>>)
  BY <1>2, <1>6, MovesForm, Zenon DEF Sends
<1>8. 0 + Len(<<m>>) + Flag(pp[p].pc = "flush") = Len(<<m>>) + Len(<<>>) + Flag(z.pc = "flush")
  BY <1>2, NoErrors DEF Flag
<1>9. 0 \in Int
  OBVIOUS
<1>10. QED
  BY <1>7, <1>8, <1>9, PartitionMoved, Zenon

\* q, when no leader is found: watermark and expectations as before.
Refused(p, q, z) ==
  z = [q EXCEPT !.m_high_watermark = pp[p].m_high_watermark,
                !.expect = pp[p].expect, !.pc = "ready", !.msg = NoMsg]

\* A message and what precedes it are sent to the leader, or the message is answered.
LEMMA LeaderStep ==
  ASSUME ProducerInv, NEW p \in Partitions, NEW m \in Payload({p}), NEW q, NEW k, NEW out, NEW ms,
         NEW more \in Int, WithLeader(p, m, q, ms, more),
         Keeps(p, q, k, out), Carries(p, q, out, ms, <<>>), Counted(p, q, out, ms, more),
         NEW z, Refused(p, q, z), Keeps(p, z, k, <<m>>), pp[p].pc # "flush",
         UNCHANGED <<sent, m_input, topic_input, m_retries, retry_buf, closing, leader, log, dropped>>
  PROVE  ProducerInv'
<1>0. pp[p] \in PartitionShape(p) /\ q \in PartitionShape(p)
  BY DEF ProducerInv, Shapes, Keeps
<1>1. pp[p].m_broker_producer \in Brokers \cup {Nobody} /\ q.m_broker_producer \in Brokers \cup {Nobody}
  BY <1>0 DEF PartitionShape
<1>2. CASE /\ pp[p].m_broker_producer # Nobody /\ pp' = [pp EXCEPT ![p] = q]
           /\ ToBroker(pp[p].m_broker_producer, ms) /\ Reply(<<>>, <<>>, more)
  <2>1. WithBroker(q, q.m_broker_producer, q)
    BY <1>0 DEF WithBroker, PartitionShape
  <2>2. PICK b \in Brokers : b = pp[p].m_broker_producer
    BY <1>1, <1>2
  <2>3. SentTo(p, b, ms, more)
    BY <1>2, <2>2, Zenon DEF SentTo
  <2>4. QED
    BY <1>1, <1>2, <2>1, <2>3, LedStep, Zenon
<1>3. ASSUME NEW b \in Brokers,
             pp' = [pp EXCEPT ![p] = [q EXCEPT !.m_broker_producer = IF q.pc = "send" THEN Nobody ELSE b]],
             ToBroker(b, <<Mark("syn", p, 0)>> \o ms), Reply(<<>>, <<>>, more + 1)
      PROVE  ProducerInv'
  <2>1. PICK c : c = IF q.pc = "send" THEN Nobody ELSE b
    OBVIOUS
  <2>2. c \in Brokers \cup {Nobody}
    BY <2>1
  <2>3. PICK r : WithBroker(q, c, r)
    BY DEF WithBroker
  <2>4. pp' = [pp EXCEPT ![p] = r]
    BY <1>3, <2>1, <2>3, Zenon DEF WithBroker
  <2>5. SentTo(p, b, ms, more)
    BY <1>3, Zenon DEF SentTo
  <2>6. QED
    BY <2>2, <2>3, <2>4, <2>5, LedStep, Zenon
<1>4. CASE /\ pp' = [pp EXCEPT ![p] = [q EXCEPT !.m_high_watermark = pp[p].m_high_watermark,
                                                !.expect = pp[p].expect, !.pc = "ready", !.msg = NoMsg]]
           /\ Reply(<<m>>, <<>>, 0) /\ UNCHANGED bp
  <2>1. pp' = [pp EXCEPT ![p] = z]
    BY <1>4, Zenon DEF Refused
  <2>2. z.expect = pp[p].expect /\ z.pc # "flush"
    BY <1>0 DEF Refused, PartitionShape
  <2>3. bp' = bp /\ Reply(<<m>>, <<>>, 0)
    BY <1>4
  <2>4. QED
    BY <2>1, <2>2, <2>3, RefuseStep, Zenon
<1>5. QED
  BY <1>2, <1>3, <1>4 DEF WithLeader

\* A chaser at the head of a partition's channel is one its PartitionProducer expects.
LEMMA HeadFin ==
  ASSUME ProducerInv, NEW p \in Partitions, pp[p].m_input # <<>>, NEW m, m = Head(pp[p].m_input),
         m.kind = "fin"
  PROVE  m \in Returning({p}) /\ m.retries \in 1..RetryMax /\ pp[p].expect[m.retries]
<1>0. Shapes /\ Expected /\ pp[p] \in PartitionShape(p) /\ pp[p] \in PartitionProducer
  BY PartitionShapeType DEF ProducerInv, Shapes
<1>1. pp[p].m_input \in Seq(Coming({p}))
  BY <1>0 DEF PartitionShape
<1>2. m \in Coming({p}) /\ pp[p].m_input[1] = m /\ 1 \in 1..Len(pp[p].m_input)
  BY <1>1
<1>3. m \in Returning({p})
  BY <1>2 DEF Coming, Payload
<1>4. PICK l \in 1..RetryMax : l = m.retries
  BY <1>3 DEF Returning
<1>5. m \in Fin(p, l)
  BY <1>3, <1>4, KafkaProducerAssumption DEF Returning, Fin, Id
<1>6. Num(pp[p].m_input, Fin(p, l)) >= 1 /\ Num(pp[p].m_input, Fin(p, l)) \in Nat
  BY <1>1, <1>2, <1>5, NumSome
<1>7. PICK w : w = Waiting(pp[p])
  OBVIOUS
<1>8. Num(w, Fin(p, l)) >= 1 /\ Num(w, Fin(p, l)) \in Nat
  <2>1. Num(w, Fin(p, l)) = Num(pp[p].m_input, Fin(p, l)) + (IF pp[p].pc = "send" THEN One(pp[p].msg, Fin(p, l)) ELSE 0)
    BY <1>0, <1>7, WaitingType
  <2>2. QED
    BY <1>6, <2>1, OneInt
<1>9. PartitionQueue \in [Partitions -> Seq(Message)] /\ PartitionQueue[p] = w
  BY <1>0, <1>7, ShapesQueued, Zenon DEF Queued, PartitionQueue, Waiting
<1>10. Num(w, Fin(p, l)) <= NumIn(PartitionQueue, Fin(p, l))
  BY <1>9, FinitePlaces, NumInAt
<1>11. Counts(Fin(p, l)) /\ Counts(Fin(p, l - 1))
  BY <1>0, CountsNow
<1>12. PICK a \in Nat, b \in Nat : a = Num(w, Fin(p, l)) /\ b = NumIn(PartitionQueue, Fin(p, l))
  BY <1>8, <1>11, Zenon DEF Counts
<1>13. Chasers(p, l) >= 1
  <2>1. b >= 1
    <3>1. a >= 1 /\ a <= b
      BY <1>8, <1>10, <1>12, Zenon
    <3>2. QED
      BY <3>1
  <2>2. PICK c \in Nat, d \in Nat, e \in Nat, f \in Nat :
          /\ c = Num(topic_input, Fin(p, l)) /\ d = Num(m_retries, Fin(p, l))
          /\ e = Num(retry_buf, Fin(p, l)) /\ f = NumIn(RetryBuffer, Fin(p, l))
    BY <1>11, Zenon DEF Counts
  <2>3. PICK g \in Nat, h \in Nat, i \in Nat :
          /\ g = Num(m_input, Fin(p, l)) /\ h = NumIn(BrokerQueue, Fin(p, l - 1))
          /\ i = NumIn(BrokerSets, Fin(p, l))
    BY <1>11, Zenon DEF Counts
  <2>4. Chasers(p, l) = g + (c + d + e + b + f) + h + i
    BY <1>12, <2>2, <2>3, Zenon DEF Chasers, BeforeBrokers
  <2>5. g + (c + d + e + b + f) + h + i >= 1
    BY <2>1
  <2>6. QED
    BY <2>4, <2>5, Zenon
<1>14. pp[p].expect[l]
  <2>1. Chasers(p, l) = IF pp[p].expect[l] THEN 1 ELSE 0
    BY <1>0 DEF Expected
  <2>2. QED
    BY <1>13, <2>1
<1>15. QED
  BY <1>3, <1>4, <1>14

\* What a PartitionProducer finds at the head of its channel.
LEMMA HeadIn ==
  ASSUME Shapes, NEW p \in Partitions, pp[p].m_input # <<>>, NEW m, m = Head(pp[p].m_input)
  PROVE  /\ m \in Coming({p}) /\ <<m>> \in Seq(Coming({p})) /\ Len(<<m>>) = 1
         /\ Tail(pp[p].m_input) \in Seq(Coming({p})) /\ m.retries \in Level
         /\ m.kind # "fin" => m \in Payload({p})
<1>1. pp[p].m_input \in Seq(Coming({p}))
  BY DEF Shapes, PartitionShape
<1>2. m \in Coming({p}) /\ Tail(pp[p].m_input) \in Seq(Coming({p}))
  BY <1>1
<1>3. m.retries \in Level /\ (m.kind # "fin" => m \in Payload({p}))
  BY <1>2, KafkaProducerAssumption DEF Coming, Payload, Returning, Level
<1>4. QED
  BY <1>2, <1>3, Single

\* The chaser m that came back is taken, and no longer expected.
LEMMA FinCarries ==
  ASSUME NEW p \in Partitions, NEW m \in Returning({p}), m.retries \in 1..RetryMax, pp[p].expect[m.retries],
         NEW q, \A l \in Level : q.expect[l] = IF l = m.retries THEN FALSE ELSE pp[p].expect[l]
  PROVE  Carries(p, q, <<m>>, <<>>, <<>>)
<1>1. m \in Marks
  BY DEF Marks, Returning
<1>2. ASSUME NEW T, One(m, T) = 0 PROVE Passed(<<m>>, <<>>, <<>>, T)
  BY <1>2, NumOne, NumEmpty DEF Passed
<1>3. ASSUME NEW l \in 1..RetryMax PROVE Chases(p, q, <<m>>, <<>>, l)
  <2>1. l \in Level
    BY KafkaProducerAssumption DEF Level
  <2>2. Num(<<>>, Fin(p, l - 1)) = 0
    BY NumEmpty
  <2>3. Num(<<m>>, Fin(p, l)) = IF m.retries = l THEN 1 ELSE 0
    <3>1. m.part = p /\ m \in Returning(Partitions) \cup Leaving
      BY DEF Returning
    <3>2. QED
      BY <3>1, NumOne, OneFin
  <2>4. Flag(pp[p].expect[l]) = Num(<<m>>, Fin(p, l)) + Flag(q.expect[l])
    <3>1. CASE l = m.retries
      <4>1. pp[p].expect[l] /\ ~q.expect[l] /\ Num(<<m>>, Fin(p, l)) = 1
        BY <2>1, <2>3, <3>1
      <4>2. Flag(pp[p].expect[l]) = 1 /\ Flag(q.expect[l]) = 0
        BY <4>1, Zenon DEF Flag
      <4>3. 1 = 1 + 0
        OBVIOUS
      <4>4. QED
        BY <4>1, <4>2, <4>3, Zenon
    <3>2. CASE l # m.retries
      <4>1. q.expect[l] = pp[p].expect[l] /\ Num(<<m>>, Fin(p, l)) = 0
        BY <2>1, <2>3, <3>2
      <4>2. Flag(pp[p].expect[l]) = Flag(q.expect[l])
        BY <4>1, Zenon
      <4>3. QED
        BY <4>1, <4>2, FlagNat
    <3>3. QED
      BY <3>1, <3>2
  <2>5. QED
    BY <2>2, <2>4, FlagNat DEF Chases
<1>4. <<>> \in Seq(Going \cap OfPart({p}))
  OBVIOUS
<1>5. \A id \in 1..MaxSent : Passed(<<m>>, <<>>, <<>>, WithId({id}))
  BY <1>1, <1>2, OneMark
<1>6. \A e \in Payload(Place) : Passed(<<m>>, <<>>, <<>>, Older(e))
  BY <1>1, <1>2, OneMark
<1>7. QED
  BY <1>3, <1>4, <1>5, <1>6, Zenon DEF Carries

\* A chaser comes back to the level it is expected at, or below the watermark.
LEMMA ChaserStep ==
  ASSUME ProducerInv, NEW p \in Partitions, Chaser(p)
  PROVE  ProducerInv'
<1>0. Shapes /\ pp[p] \in PartitionShape(p) /\ Watermark(p, pp[p])
  BY DEF ProducerInv, Shapes
<1>1. PICK m : m = Head(pp[p].m_input)
  OBVIOUS
<1>2. /\ pp[p].pc = "ready" /\ pp[p].m_input # <<>> /\ m.kind = "fin"
      /\ m.retries = pp[p].m_high_watermark /\ m.retries > 0
      /\ UNCHANGED <<sent, m_input, topic_input, m_retries, retry_buf, closing, leader, log, dropped>>
      /\ bp' = bp /\ m_replies' = m_replies /\ m_in_flight' = m_in_flight
  BY <1>1 DEF Chaser, worldVars
<1>3. m \in Returning({p}) /\ m.retries \in 1..RetryMax /\ pp[p].expect[m.retries]
  BY <1>1, <1>2, HeadFin
<1>4. <<m>> \in Seq(Coming({p})) /\ Len(<<m>>) = 1 /\ Tail(pp[p].m_input) \in Seq(Coming({p})) /\ m.retries \in Level
  BY <1>0, <1>1, <1>2, HeadIn
<1>5. PICK q : q = [pp[p] EXCEPT !.m_input = Tail(@), !.expect[m.retries] = FALSE, !.pc = "flush"]
  OBVIOUS
<1>6. /\ q \in PartitionShape(p) /\ q.pc = "flush" /\ q.m_input = Tail(pp[p].m_input)
      /\ q.buf = pp[p].buf /\ q.m_high_watermark = pp[p].m_high_watermark
      /\ \A l \in Level : q.expect[l] = IF l = m.retries THEN FALSE ELSE pp[p].expect[l]
  BY <1>0, <1>4, <1>5 DEF PartitionShape
<1>7. pp' = [pp EXCEPT ![p] = q]
  BY <1>0, <1>1, <1>5 DEF Chaser, Shapes
<1>8. Watermark(p, q)
  BY <1>0, <1>2, <1>4, <1>6 DEF Watermark
<1>9. Leaves(p, q, 0, <<m>>)
  BY <1>0, <1>1, <1>2, <1>6, ZeroLevel, TakeLeaves
<1>10. Keeps(p, q, 0, <<m>>)
  BY <1>4, <1>6, <1>8, <1>9, ZeroLevel DEF Keeps
<1>11. Carries(p, q, <<m>>, <<>>, <<>>)
  BY <1>3, <1>6, FinCarries, Zenon
<1>12. PartitionMoves(p, q, 0, <<m>>, <<>>, <<>>)
  BY <1>2, <1>7, <1>10, <1>11, NoErrors, MovesForm, Zenon DEF Sends
<1>13. Reply(<<>>, <<>>, 0)
  <2>1. m_replies' = Replied(<<>>, <<>>)
    BY <1>2, NoReply
  <2>2. m_in_flight' = m_in_flight + 0 - Len(<<>>) - Len(<<>>)
    BY <1>2, InFlightNat, NoErrors
  <2>3. QED
    BY <2>1, <2>2, Zenon DEF Reply
<1>14. 0 + Len(<<m>>) + Flag(pp[p].pc = "flush") = Len(<<>>) + Len(<<>>) + Flag(q.pc = "flush")
  BY SMTT(60), <1>2, <1>4, <1>6, NoErrors DEF Flag
<1>15. 0 \in Int
  OBVIOUS
<1>16. QED
  BY <1>2, <1>12, <1>13, <1>14, <1>15, PartitionMoved, Zenon

\* A message of a lower level waits in its buffer.
LEMMA BehindWatermarkStep ==
  ASSUME ProducerInv, NEW p \in Partitions, BehindWatermark(p)
  PROVE  ProducerInv'
<1>0. Shapes /\ pp[p] \in PartitionShape(p) /\ Watermark(p, pp[p])
  BY DEF ProducerInv, Shapes
<1>1. PICK m : m = Head(pp[p].m_input)
  OBVIOUS
<1>2. /\ pp[p].pc = "ready" /\ pp[p].m_input # <<>> /\ m.retries < pp[p].m_high_watermark
      /\ UNCHANGED <<sent, m_input, topic_input, m_retries, retry_buf, closing, leader, log, dropped>>
      /\ bp' = bp
  BY <1>1 DEF BehindWatermark, worldVars
<1>3. /\ m \in Coming({p}) /\ <<m>> \in Seq(Coming({p})) /\ Len(<<m>>) = 1
      /\ Tail(pp[p].m_input) \in Seq(Coming({p})) /\ m.retries \in Level
      /\ m.kind # "fin" => m \in Payload({p})
  BY <1>0, <1>1, <1>2, HeadIn
<1>4. pp[p].m_high_watermark \in Level /\ \A l \in Level : l \in Nat
  BY <1>0 DEF PartitionShape, Level
<1>5. CASE /\ m.kind = "fin" /\ Reply(<<>>, <<>>, -1)
           /\ pp' = [pp EXCEPT ![p].m_input = Tail(@), ![p].expect[m.retries] = FALSE]
  <2>1. m \in Returning({p}) /\ m.retries \in 1..RetryMax /\ pp[p].expect[m.retries]
    BY <1>1, <1>2, <1>5, HeadFin
  <2>2. PICK q : q = [pp[p] EXCEPT !.m_input = Tail(@), !.expect[m.retries] = FALSE]
    OBVIOUS
  <2>3. /\ q \in PartitionShape(p) /\ q.pc = pp[p].pc /\ q.m_input = Tail(pp[p].m_input)
        /\ q.buf = pp[p].buf /\ q.m_high_watermark = pp[p].m_high_watermark
        /\ \A l \in Level : q.expect[l] = IF l = m.retries THEN FALSE ELSE pp[p].expect[l]
    BY <1>0, <1>3, <2>2 DEF PartitionShape
  <2>4. pp' = [pp EXCEPT ![p] = q]
    BY <1>0, <1>5, <2>2, ZenonT(60) DEF Shapes
  <2>5. Watermark(p, q)
    BY <1>0, <1>2, <1>3, <1>4, <2>3 DEF Watermark
  <2>6. Leaves(p, q, 0, <<m>>)
    BY <1>0, <1>1, <1>2, <2>3, ZeroLevel, TakeLeaves
  <2>7. Keeps(p, q, 0, <<m>>)
    BY <1>3, <2>3, <2>5, <2>6, ZeroLevel DEF Keeps
  <2>8. Carries(p, q, <<m>>, <<>>, <<>>)
    BY <2>1, <2>3, FinCarries, Zenon
  <2>9. PartitionMoves(p, q, 0, <<m>>, <<>>, <<>>)
    BY <1>2, <2>4, <2>7, <2>8, NoErrors, MovesForm, Zenon DEF Sends
  <2>10. -1 + Len(<<m>>) + Flag(pp[p].pc = "flush") = Len(<<>>) + Len(<<>>) + Flag(q.pc = "flush")
    BY <1>2, <1>3, <2>3, NoErrors DEF Flag
  <2>11. -1 \in Int
    OBVIOUS
  <2>12. QED
    BY <1>2, <1>5, <2>9, <2>10, <2>11, PartitionMoved, Zenon
<1>6. CASE /\ m.kind # "fin" /\ Reply(<<>>, <<>>, 0)
           /\ pp' = [pp EXCEPT ![p].m_input = Tail(@), ![p].buf[m.retries] = Append(@, m)]
  <2>1. m \in Payload({p})
    BY <1>3, <1>6
  <2>2. PICK k \in Level : k = m.retries
    BY <1>3
  <2>3. pp[p].buf[k] \in Seq(Payload({p})) /\ pp[p].buf \in [Level -> Seq(Payload({p}))]
    BY <1>0 DEF PartitionShape
  <2>4. PICK s \in Seq(Payload({p})) : s = Append(pp[p].buf[k], m)
    BY <2>1, <2>3, AppendProperties
  <2>5. PICK q : q = [pp[p] EXCEPT !.m_input = Tail(@), !.buf[k] = s]
    OBVIOUS
  <2>6. /\ q \in PartitionShape(p) /\ q.pc = pp[p].pc /\ q.m_input = Tail(pp[p].m_input)
        /\ q.buf[k] = s /\ q.m_high_watermark = pp[p].m_high_watermark /\ q.expect = pp[p].expect
        /\ \A l \in Level : l # k => q.buf[l] = pp[p].buf[l]
    BY <1>0, <1>3, <2>3, <2>5 DEF PartitionShape
  <2>7. pp' = [pp EXCEPT ![p] = q]
    BY ZenonT(60), <1>0, <1>6, <2>2, <2>4, <2>5 DEF Shapes
  <2>8. Watermark(p, q)
    BY <1>0, <1>2, <1>4, <2>2, <2>6 DEF Watermark
  <2>9. Leaves(p, q, k, <<>>)
    <3>1. ASSUME NEW T
          PROVE  Num(Waiting(q), T) + Num(q.buf[k], T) + Num(<<>>, T)
                   = Num(Waiting(pp[p]), T) + Num(pp[p].buf[k], T)
      <4>1. Num(Waiting(q), T) = Num(q.m_input, T) /\ Num(Waiting(pp[p]), T) = Num(pp[p].m_input, T)
        BY <1>0, <1>2, <2>6, WaitingIdle
      <4>2. Num(<<>>, T) = 0 /\ Num(s, T) = Num(pp[p].buf[k], T) + One(m, T)
        BY <2>1, <2>3, <2>4, NumEmpty, NumPush
      <4>3. q.m_input \in Seq(Coming({p})) /\ pp[p].m_input \in Seq(Coming({p}))
        BY <1>0, <2>6 DEF PartitionShape
      <4>4. PICK a \in Nat, b \in Nat, c \in Nat : a = Num(q.m_input, T) /\ b = Num(pp[p].buf[k], T) /\ c = One(m, T)
        BY <2>3, <4>3, NumPositions, OneInt
      <4>5. Num(pp[p].m_input, T) = c + a
        BY <1>1, <1>2, <2>6, <4>3, <4>4, NumPop
      <4>6. a + (b + c) + 0 = (c + a) + b
        OBVIOUS
      <4>7. QED
        BY <2>6, <4>1, <4>2, <4>4, <4>5, <4>6, Zenon
    <3>2. QED
      BY <3>1, Zenon DEF Leaves
  <2>10. Keeps(p, q, k, <<>>)
    BY <2>6, <2>8, <2>9 DEF Keeps
  <2>11. Carries(p, q, <<>>, <<>>, <<>>)
    BY <2>6, QuietCarries
  <2>12. PartitionMoves(p, q, k, <<>>, <<>>, <<>>)
    BY <1>2, <2>7, <2>10, <2>11, NoErrors, MovesForm, Zenon DEF Sends
  <2>13. 0 + Len(<<>>) + Flag(pp[p].pc = "flush") = Len(<<>>) + Len(<<>>) + Flag(q.pc = "flush")
    BY <1>2, <2>6, NoErrors DEF Flag
  <2>14. 0 \in Int
    OBVIOUS
  <2>15. QED
    BY <1>2, <1>6, <2>12, <2>13, <2>14, PartitionMoved, Zenon
<1>7. QED
  BY ZenonT(60), <1>1, <1>5, <1>6 DEF BehindWatermark

\* A message goes on to a broker.
LEMMA PayloadCarries ==
  ASSUME NEW p \in Partitions, NEW s \in Seq(Payload({p})), NEW q, q.expect = pp[p].expect
  PROVE  Carries(p, q, s, s, <<>>) /\ s \in Seq(Coming({p})) /\ Len(s) \in Nat
<1>0. /\ Payload({p}) \subseteq Payload(Place) /\ Payload({p}) \subseteq Coming({p})
      /\ Payload({p}) \subseteq Going \cap OfPart({p})
  <2>1. Payload({p}) \subseteq Payload(Place) /\ Payload({p}) \subseteq Coming({p}) /\ Payload({p}) \subseteq Going
    BY ItemSets DEF Going
  <2>2. Payload({p}) \subseteq OfPart({p})
    BY KafkaProducerAssumption DEF Payload, OfPart, Id, Kind
  <2>3. QED
    BY <2>1, <2>2
<1>1. s \in Seq(Payload(Place)) /\ s \in Seq(Coming({p})) /\ s \in Seq(Going \cap OfPart({p}))
  BY <1>0, SeqWiden
<1>2. ASSUME NEW T PROVE Passed(s, s, <<>>, T)
  <2>1. Num(<<>>, T) = 0 /\ Num(s, T) \in Nat
    BY NumEmpty, NumPositions
  <2>2. QED
    BY <2>1 DEF Passed
<1>3. ASSUME NEW l PROVE Chases(p, q, s, s, l)
  <2>1. Num(s, Fin(p, l)) = 0 /\ Num(s, Fin(p, l - 1)) = 0
    BY <1>1, NumPayload
  <2>2. QED
    BY <2>1, Zenon DEF Chases
<1>4. QED
  BY <1>1, <1>2, <1>3 DEF Carries

\* A message of the watermark's level is sent.
LEMMA SendOnStep ==
  ASSUME ProducerInv, NEW p \in Partitions, SendOn(p)
  PROVE  ProducerInv'
<1>0. Shapes /\ pp[p] \in PartitionShape(p) /\ Watermark(p, pp[p])
  BY DEF ProducerInv, Shapes
<1>1. PICK m : m = IF pp[p].pc = "send" THEN pp[p].msg ELSE Head(pp[p].m_input)
  OBVIOUS
<1>2. PICK q : q = [pp[p] EXCEPT !.m_input = IF pp[p].pc = "send" THEN @ ELSE Tail(@), !.msg = NoMsg, !.pc = "ready"]
  OBVIOUS
<1>3. WithLeader(p, m, q, <<m>>, 0)
  BY <1>1, <1>2, Zenon DEF SendOn
<1>4. UNCHANGED <<sent, m_input, topic_input, m_retries, retry_buf, closing, leader, log, dropped>>
  BY DEF SendOn, worldVars
<1>5. NoMsg \in Message
  BY KafkaProducerAssumption DEF NoMsg, Mark, Message, Id, Kind, Level, Place
<1>6. \/ pp[p].pc = "send"
      \/ /\ pp[p].pc = "ready" /\ pp[p].m_input # <<>> /\ m.retries = pp[p].m_high_watermark
         /\ m.kind = "fin" => m.retries = 0
  BY <1>1 DEF SendOn
<1>7. m \in Payload({p}) /\ q \in PartitionShape(p)
  <2>1. CASE pp[p].pc = "send"
    <3>1. m \in Payload({p})
      BY <1>0, <1>1, <2>1 DEF Watermark
    <3>2. q = [pp[p] EXCEPT !.msg = NoMsg, !.pc = "ready"]
      BY <1>0, <1>2, <2>1 DEF PartitionShape
    <3>3. QED
      BY <1>0, <1>5, <3>1, <3>2 DEF PartitionShape
  <2>2. CASE /\ pp[p].pc = "ready" /\ pp[p].m_input # <<>> /\ m.retries = pp[p].m_high_watermark
             /\ m.kind = "fin" => m.retries = 0
    <3>1. m = Head(pp[p].m_input)
      BY <1>1, <2>2
    <3>2. Tail(pp[p].m_input) \in Seq(Coming({p})) /\ (m.kind # "fin" => m \in Payload({p}))
      BY <1>0, <2>2, <3>1, HeadIn
    <3>3. m.kind # "fin"
      <4>1. SUFFICES ASSUME m.kind = "fin" PROVE FALSE
        OBVIOUS
      <4>2. m.retries \in 1..RetryMax
        BY <2>2, <3>1, <4>1, HeadFin
      <4>3. QED
        BY <2>2, <4>1, <4>2
    <3>4. q = [pp[p] EXCEPT !.m_input = Tail(pp[p].m_input), !.msg = NoMsg, !.pc = "ready"]
      BY <1>0, <1>2, <2>2 DEF PartitionShape
    <3>5. QED
      BY <1>0, <1>5, <3>2, <3>3, <3>4 DEF PartitionShape
  <2>3. QED
    BY <1>6, <2>1, <2>2
<1>8. /\ q.pc = "ready" /\ q.buf = pp[p].buf /\ q.m_high_watermark = pp[p].m_high_watermark
      /\ q.expect = pp[p].expect /\ q.msg = NoMsg
  BY <1>0, <1>2 DEF PartitionShape
<1>9. Watermark(p, q)
  BY <1>0, <1>6, <1>8 DEF Watermark
<1>10. Leaves(p, q, 0, <<m>>)
  <2>1. CASE pp[p].pc = "send"
    <3>1. q.m_input = pp[p].m_input /\ m = pp[p].msg
      BY <1>0, <1>1, <1>2, <2>1 DEF PartitionShape
    <3>2. ASSUME NEW T
          PROVE  Num(Waiting(q), T) + Num(q.buf[0], T) + Num(<<m>>, T)
                   = Num(Waiting(pp[p]), T) + Num(pp[p].buf[0], T)
      <4>1. Num(Waiting(q), T) = Num(q.m_input, T)
        BY <1>7, <1>8, WaitingIdle
      <4>2. Num(Waiting(pp[p]), T) = Num(pp[p].m_input, T) + One(m, T)
        BY <1>0, <2>1, <3>1, WaitingSend
      <4>3. Num(<<m>>, T) = One(m, T)
        BY NumOne
      <4>4. q.m_input \in Seq(Coming({p})) /\ q.buf[0] \in Seq(Payload({p}))
        BY <1>7, ZeroLevel DEF PartitionShape
      <4>5. PICK a \in Nat, b \in Nat, c \in Nat : a = Num(q.m_input, T) /\ b = Num(q.buf[0], T) /\ c = One(m, T)
        BY <4>4, NumPositions, OneInt
      <4>6. a + b + c = (a + c) + b
        OBVIOUS
      <4>7. QED
        BY <1>8, <3>1, <4>1, <4>2, <4>3, <4>5, <4>6, Zenon
    <3>3. QED
      BY <3>2, Zenon DEF Leaves
  <2>2. CASE pp[p].pc # "send"
    <3>1. q.m_input = Tail(pp[p].m_input) /\ m = Head(pp[p].m_input) /\ pp[p].m_input # <<>>
      BY <1>0, <1>1, <1>2, <1>6, <2>2 DEF PartitionShape
    <3>2. QED
      BY <1>0, <1>7, <1>8, <2>2, <3>1, ZeroLevel, TakeLeaves
  <2>3. QED
    BY <2>1, <2>2
<1>11. <<m>> \in Seq(Payload({p})) /\ Len(<<m>>) = 1
  BY <1>7, Single
<1>12. Carries(p, q, <<m>>, <<m>>, <<>>) /\ <<m>> \in Seq(Coming({p}))
  BY <1>8, <1>11, PayloadCarries
<1>13. Keeps(p, q, 0, <<m>>)
  BY <1>7, <1>8, <1>9, <1>10, <1>12, ZeroLevel DEF Keeps
<1>14. Counted(p, q, <<m>>, <<m>>, 0)
  BY <1>6, <1>8, <1>11 DEF Counted, Flag
<1>15. Refused(p, q, q)
  BY <1>7, <1>8 DEF Refused, PartitionShape
<1>16. 0 \in Int /\ pp[p].pc # "flush"
  BY <1>6
<1>17. QED
  BY <1>3, <1>4, <1>7, <1>12, <1>13, <1>14, <1>15, <1>16, LeaderStep, Zenon

\* A message of a higher level raises the watermark and sends the chaser of the level.
LEMMA NewHighWatermarkStep ==
  ASSUME ProducerInv, NEW p \in Partitions, NewHighWatermark(p)
  PROVE  ProducerInv'
<1>0. Shapes /\ pp[p] \in PartitionShape(p) /\ Watermark(p, pp[p])
  BY DEF ProducerInv, Shapes
<1>1. PICK m : m = Head(pp[p].m_input)
  OBVIOUS
<1>2. PICK q : q = [pp[p] EXCEPT !.m_input = Tail(@), !.m_high_watermark = m.retries,
                     !.expect[m.retries] = TRUE, !.m_broker_producer = Nobody, !.pc = "send", !.msg = m]
  OBVIOUS
<1>3. PICK y : y = Mark("fin", p, m.retries - 1)
  OBVIOUS
<1>4. WithLeader(p, m, q, <<y>>, 1)
  BY <1>1, <1>2, <1>3, Zenon DEF NewHighWatermark
<1>5. UNCHANGED <<sent, m_input, topic_input, m_retries, retry_buf, closing, leader, log, dropped>>
  BY DEF NewHighWatermark, worldVars
<1>6. pp[p].pc = "ready" /\ pp[p].m_input # <<>> /\ m.retries > pp[p].m_high_watermark
  BY <1>1 DEF NewHighWatermark
<1>7. /\ <<m>> \in Seq(Coming({p})) /\ Len(<<m>>) = 1
      /\ Tail(pp[p].m_input) \in Seq(Coming({p})) /\ m.retries \in Level
      /\ m.kind # "fin" => m \in Payload({p})
  BY <1>0, <1>1, <1>6, HeadIn
<1>8. m \in Payload({p})
  <2>1. SUFFICES ASSUME m.kind = "fin" PROVE FALSE
    BY <1>7
  <2>2. pp[p].expect[m.retries]
    BY <1>1, <1>6, <2>1, HeadFin
  <2>3. ~pp[p].expect[m.retries]
    BY <1>0, <1>6, <1>7 DEF Watermark
  <2>4. QED
    BY <2>2, <2>3
<1>9. PICK n \in 1..RetryMax, w \in 0..RetryMax : n = m.retries /\ w = pp[p].m_high_watermark /\ n > w
  <2>1. PICK a \in 0..RetryMax, w \in 0..RetryMax : a = m.retries /\ w = pp[p].m_high_watermark
    BY <1>0, <1>7 DEF PartitionShape, Level
  <2>2. a > w
    BY <1>6, <2>1, Zenon
  <2>3. a \in 1..RetryMax
    BY <2>2
  <2>4. QED
    BY <2>1, <2>2, <2>3, Zenon
<1>9a. m \in Message /\ n \in Level
  BY <1>7, <1>8, <1>9, ItemTypes DEF Place
<1>10. /\ q \in PartitionShape(p) /\ q.pc = "send" /\ q.m_input = Tail(pp[p].m_input) /\ q.msg = m
       /\ q.buf = pp[p].buf /\ q.m_high_watermark = n
       /\ \A l \in Level : q.expect[l] = IF l = n THEN TRUE ELSE pp[p].expect[l]
  <2>1. q = [pp[p] EXCEPT !.m_input = Tail(@), !.m_high_watermark = n,
                     !.expect[n] = TRUE, !.m_broker_producer = Nobody, !.pc = "send", !.msg = m]
    BY <1>2, <1>9, Zenon
  <2>2. QED
    BY <1>0, <1>7, <1>9a, <2>1 DEF PartitionShape
<1>11. Watermark(p, q)
  <2>1. q.pc = "send" /\ q.msg \in Payload({p}) /\ q.pc # "flush" /\ q.expect[q.m_high_watermark]
    BY <1>8, <1>9a, <1>10
  <2>2. ASSUME NEW l \in Level, l > q.m_high_watermark PROVE ~q.expect[l]
    <3>1. l > n /\ l # n /\ l > w
      BY <1>9, <1>10, <2>2 DEF Level
    <3>2. ~pp[p].expect[l]
      BY <1>0, <1>9, <3>1, Zenon DEF Watermark
    <3>3. QED
      BY <1>10, <3>1, <3>2, Zenon
  <2>3. ASSUME NEW l \in Level, l >= q.m_high_watermark PROVE q.buf[l] = <<>>
    <3>1. l >= w
      BY <1>9, <1>10, <2>3 DEF Level
    <3>2. QED
      BY <1>0, <1>9, <1>10, <3>1, Zenon DEF Watermark
  <2>4. QED
    BY <2>1, <2>2, <2>3, Zenon DEF Watermark
<1>12. Leaves(p, q, 0, <<>>)
  <2>1. ASSUME NEW T
        PROVE  Num(Waiting(q), T) + Num(q.buf[0], T) + Num(<<>>, T)
                 = Num(Waiting(pp[p]), T) + Num(pp[p].buf[0], T)
    <3>1. Num(Waiting(q), T) = Num(q.m_input, T) + One(m, T)
      BY <1>10, WaitingSend
    <3>2. Num(Waiting(pp[p]), T) = Num(pp[p].m_input, T)
      BY <1>0, <1>6, WaitingIdle
    <3>3. Num(<<>>, T) = 0
      BY NumEmpty
    <3>4. q.m_input \in Seq(Coming({p})) /\ q.buf[0] \in Seq(Payload({p})) /\ pp[p].m_input \in Seq(Coming({p}))
      BY <1>0, <1>10, ZeroLevel DEF PartitionShape
    <3>5. PICK a \in Nat, b \in Nat, c \in Nat : a = Num(q.m_input, T) /\ b = Num(q.buf[0], T) /\ c = One(m, T)
      BY <3>4, NumPositions, OneInt
    <3>6. Num(pp[p].m_input, T) = c + a
      BY <1>1, <1>6, <1>10, <3>4, <3>5, NumPop
    <3>7. (a + c) + b + 0 = (c + a) + b
      OBVIOUS
    <3>8. QED
      BY <1>10, <3>1, <3>2, <3>3, <3>5, <3>6, <3>7, Zenon
  <2>2. QED
    BY <2>1, Zenon DEF Leaves
<1>13. Keeps(p, q, 0, <<>>)
  BY <1>10, <1>11, <1>12, ZeroLevel DEF Keeps
<1>14. Carries(p, q, <<>>, <<y>>, <<>>)
  <2>1. y \in Leaving /\ y.part = p /\ y.retries = n - 1
    <3>1. PICK i \in Level : i = n - 1 /\ i < RetryMax
      BY KafkaProducerAssumption DEF Level
    <3>2. y = [id |-> 0, kind |-> "fin", retries |-> i, part |-> p]
      BY <1>3, <1>9, <3>1, Zenon DEF Mark
    <3>3. QED
      BY <3>1, <3>2 DEF Leaving
  <2>2. y \in Marks /\ y \in Going /\ y \in Message
    BY <2>1, ItemTypes DEF Marks, Going
  <2>3. y \in OfPart({p})
    BY <2>1, <2>2 DEF Message, OfPart
  <2>4. <<y>> \in Seq(Going \cap OfPart({p}))
    BY <2>2, <2>3, Single
  <2>5. ASSUME NEW T, One(y, T) = 0 PROVE Passed(<<>>, <<y>>, <<>>, T)
    BY <2>5, NumOne, NumEmpty DEF Passed
  <2>6. \A id \in 1..MaxSent : Passed(<<>>, <<y>>, <<>>, WithId({id}))
    BY <2>2, <2>5, OneMark
  <2>7. \A e \in Payload(Place) : Passed(<<>>, <<y>>, <<>>, Older(e))
    BY <2>2, <2>5, OneMark
  <2>8. ASSUME NEW l \in 1..RetryMax PROVE Chases(p, q, <<>>, <<y>>, l)
    <3>1. l \in Level /\ l \in Nat
      BY KafkaProducerAssumption DEF Level
    <3>2. Num(<<>>, Fin(p, l)) = 0
      BY NumEmpty
    <3>3. Num(<<y>>, Fin(p, l - 1)) = IF n - 1 = l - 1 THEN 1 ELSE 0
      BY <2>1, NumOne, OneFin
    <3>4. CASE l = n
      <4>1. ~pp[p].expect[l] /\ q.expect[l] /\ Num(<<y>>, Fin(p, l - 1)) = 1
        <5>1. ~pp[p].expect[l]
          BY <1>0, <1>9, <3>1, <3>4, Zenon DEF Watermark
        <5>2. QED
          BY <1>10, <3>1, <3>3, <3>4, <5>1
      <4>2. Flag(pp[p].expect[l]) = 0 /\ Flag(q.expect[l]) = 1
        BY <4>1, Zenon DEF Flag
      <4>3. 1 + 0 = 0 + 1
        OBVIOUS
      <4>4. QED
        BY <3>2, <4>1, <4>2, <4>3, Zenon DEF Chases
    <3>5. CASE l # n
      <4>0. n - 1 # l - 1
        BY <3>1, <3>5
      <4>1. q.expect[l] = pp[p].expect[l] /\ Num(<<y>>, Fin(p, l - 1)) = 0
        BY <1>10, <3>1, <3>3, <3>5, <4>0
      <4>2. QED
        BY <3>2, <4>1, Zenon DEF Chases
    <3>6. QED
      BY <3>4, <3>5
  <2>9. QED
    BY <2>4, <2>6, <2>7, <2>8, Zenon DEF Carries
<1>15. Counted(p, q, <<>>, <<y>>, 1)
  <2>1. Len(<<>>) = 0 /\ Len(<<y>>) = 1
    OBVIOUS
  <2>2. Flag(pp[p].pc = "flush") = 0 /\ Flag(q.pc = "flush") = 0
    BY <1>6, <1>10 DEF Flag
  <2>3. QED
    BY <2>1, <2>2 DEF Counted
<1>16. PICK z : Refused(p, q, z)
  BY DEF Refused
<1>17. /\ z \in PartitionShape(p) /\ z.pc = "ready" /\ z.m_input = Tail(pp[p].m_input)
       /\ z.buf = pp[p].buf /\ z.expect = pp[p].expect /\ z.m_high_watermark = pp[p].m_high_watermark
  <2>1. NoMsg \in Message
    BY KafkaProducerAssumption DEF NoMsg, Mark, Message, Id, Kind, Level, Place
  <2>2. pp[p].expect \in [Level -> BOOLEAN]
    BY <1>0 DEF PartitionShape
  <2>3. QED
    BY <1>0, <1>10, <1>16, <2>1, <2>2 DEF PartitionShape, Refused
<1>18. Watermark(p, z)
  BY <1>0, <1>6, <1>17 DEF Watermark
<1>19. Leaves(p, z, 0, <<m>>)
  BY <1>0, <1>1, <1>6, <1>17, ZeroLevel, TakeLeaves
<1>20. Keeps(p, z, 0, <<m>>)
  BY <1>7, <1>17, <1>18, <1>19, ZeroLevel DEF Keeps
<1>21. 1 \in Int /\ pp[p].pc # "flush"
  BY <1>6
<1>22. QED
  BY <1>4, <1>5, <1>8, <1>13, <1>14, <1>15, <1>16, <1>20, <1>21, LeaderStep, Zenon

\* flush_retry_buffers(): a level's buffer is sent and the watermark falls.
LEMMA FlushStep ==
  ASSUME ProducerInv, NEW p \in Partitions, Flush(p)
  PROVE  ProducerInv'
<1>0. Shapes /\ pp[p] \in PartitionShape(p) /\ Watermark(p, pp[p]) /\ pp[p].pc = "flush"
  BY DEF ProducerInv, Shapes, Flush
<1>1. /\ pp[p].m_high_watermark > 0 /\ pp[p].m_high_watermark \in Level /\ Level \subseteq Nat
      /\ ~pp[p].expect[pp[p].m_high_watermark]
  BY <1>0 DEF Watermark, PartitionShape, Level
<1>2. PICK l \in Level : l = pp[p].m_high_watermark - 1 /\ l + 1 = pp[p].m_high_watermark
  <2>1. PICK w \in 0..RetryMax : w = pp[p].m_high_watermark
    BY <1>1 DEF Level
  <2>2. w > 0
    BY <1>1, <2>1, Zenon
  <2>3. PICK l \in 0..RetryMax : l = w - 1 /\ l + 1 = w
    <3>1. w - 1 \in 0..RetryMax /\ (w - 1) + 1 = w
      BY <2>2, KafkaProducerAssumption
    <3>2. QED
      BY <3>1, Zenon
  <2>4. QED
    BY <2>1, <2>3, Zenon DEF Level
<1>3. PICK last \in BOOLEAN : last <=> pp[p].expect[l] \/ l = 0
  OBVIOUS
<1>4. PICK s : s = pp[p].buf[l]
  OBVIOUS
<1>5. PICK end : end = IF last THEN -1 ELSE 0
  OBVIOUS
<1>6. PICK q : q = [pp[p] EXCEPT !.m_high_watermark = l, !.buf[l] = <<>>,
                                 !.pc = IF last THEN "ready" ELSE "flush"]
  OBVIOUS
<1>7. s \in Seq(Payload({p})) /\ pp[p].buf \in [Level -> Seq(Payload({p}))]
  BY <1>0, <1>4 DEF PartitionShape
<1>8. /\ q \in PartitionShape(p) /\ q.pc = (IF last THEN "ready" ELSE "flush") /\ q.m_input = pp[p].m_input
      /\ q.m_high_watermark = l /\ q.expect = pp[p].expect /\ q.buf[l] = <<>>
      /\ \A i \in Level : i # l => q.buf[i] = pp[p].buf[i]
  <2>1. PICK c \in {"ready", "flush"} : c = IF last THEN "ready" ELSE "flush"
    OBVIOUS
  <2>2. PICK f \in [Level -> Seq(Payload({p}))] : f = [pp[p].buf EXCEPT ![l] = <<>>]
    <3>1. <<>> \in Seq(Payload({p}))
      OBVIOUS
    <3>2. [pp[p].buf EXCEPT ![l] = <<>>] \in [Level -> Seq(Payload({p}))]
      BY <1>7, <3>1
    <3>3. QED
      BY <3>2, Zenon
  <2>3. q = [pp[p] EXCEPT !.m_high_watermark = l, !.buf = f, !.pc = c]
    BY <1>0, <1>6, <2>1, <2>2 DEF PartitionShape
  <2>4. /\ q \in PartitionShape(p) /\ q.pc = c /\ q.m_input = pp[p].m_input
        /\ q.m_high_watermark = l /\ q.expect = pp[p].expect /\ q.buf = f
    BY <1>0, <2>3 DEF PartitionShape
  <2>5. f[l] = <<>> /\ \A i \in Level : i # l => f[i] = pp[p].buf[i]
    BY <1>7, <2>2
  <2>6. QED
    BY <2>1, <2>4, <2>5, Zenon
<1>9. Watermark(p, q)
  <2>1. q.pc # "send"
    BY <1>8
  <2>2. q.pc = "flush" => l > 0 /\ ~q.expect[l]
    BY <1>1, <1>3, <1>8
  <2>3. l > 0 /\ q.pc # "flush" => q.expect[l]
    BY <1>1, <1>3, <1>8
  <2>4. ASSUME NEW i \in Level, i > l PROVE ~q.expect[i]
    <3>1. i = pp[p].m_high_watermark \/ i > pp[p].m_high_watermark
      BY <1>1, <1>2, <2>4
    <3>2. QED
      BY <1>0, <1>1, <1>8, <3>1 DEF Watermark
  <2>5. ASSUME NEW i \in Level, i >= l PROVE q.buf[i] = <<>>
    <3>1. i = l \/ i >= pp[p].m_high_watermark
      BY <1>1, <1>2, <2>5
    <3>2. QED
      BY <1>0, <1>8, <3>1 DEF Watermark
  <2>6. QED
    BY <1>8, <2>1, <2>2, <2>3, <2>4, <2>5, Zenon DEF Watermark
<1>10. Leaves(p, q, l, s)
  <2>1. ASSUME NEW T
        PROVE  Num(Waiting(q), T) + Num(q.buf[l], T) + Num(s, T)
                 = Num(Waiting(pp[p]), T) + Num(pp[p].buf[l], T)
    <3>1. Num(Waiting(q), T) = Num(q.m_input, T) /\ Num(Waiting(pp[p]), T) = Num(pp[p].m_input, T)
      BY <1>0, <1>8, WaitingIdle
    <3>2. Num(q.buf[l], T) = 0
      BY <1>8, NumEmpty
    <3>3. q.m_input \in Seq(Coming({p}))
      BY <1>8 DEF PartitionShape
    <3>4. PICK a \in Nat, b \in Nat : a = Num(q.m_input, T) /\ b = Num(s, T)
      BY <1>7, <3>3, NumPositions
    <3>5. a + 0 + b = a + b
      OBVIOUS
    <3>6. QED
      BY <1>4, <1>8, <3>1, <3>2, <3>4, <3>5, Zenon
  <2>2. QED
    BY <2>1, Zenon DEF Leaves
<1>11. Carries(p, q, s, s, <<>>) /\ s \in Seq(Coming({p})) /\ Len(s) \in Nat
  BY <1>7, <1>8, PayloadCarries
<1>12. Keeps(p, q, l, s)
  BY <1>8, <1>9, <1>10, <1>11 DEF Keeps
<1>13. end \in Int /\ end + 1 = Flag(q.pc = "flush") /\ Flag(pp[p].pc = "flush") = 1
  BY <1>0, <1>5, <1>8 DEF Flag
<1>14. Counted(p, q, s, s, end)
  <2>1. PICK n \in Nat, f \in Nat : n = Len(s) /\ f = Flag(q.pc = "flush")
    BY <1>11, FlagNat
  <2>2. end + n + 1 = n + f
    BY <1>13, <2>1
  <2>3. QED
    BY <1>13, <2>1, <2>2, Zenon DEF Counted
<1>15. UNCHANGED <<sent, m_input, topic_input, m_retries, retry_buf, closing, leader, log, dropped>>
  BY DEF Flush, worldVars
<1>16. pp[p].m_broker_producer \in Brokers \cup {Nobody} /\ q.m_broker_producer \in Brokers \cup {Nobody}
  BY <1>0, <1>8 DEF PartitionShape
<1>17. CASE /\ pp[p].m_broker_producer # Nobody /\ pp' = [pp EXCEPT ![p] = q]
            /\ ToBroker(pp[p].m_broker_producer, s) /\ Reply(<<>>, <<>>, end)
  <2>1. WithBroker(q, q.m_broker_producer, q)
    BY <1>8 DEF WithBroker, PartitionShape
  <2>2. PICK b \in Brokers : b = pp[p].m_broker_producer
    BY <1>16, <1>17
  <2>3. SentTo(p, b, s, end)
    BY <1>17, <2>2, Zenon DEF SentTo
  <2>4. QED
    BY <1>11, <1>12, <1>13, <1>14, <1>15, <1>16, <1>17, <2>1, <2>3, LedStep, Zenon
<1>18. ASSUME NEW b \in Brokers, pp' = [pp EXCEPT ![p] = [q EXCEPT !.m_broker_producer = b]],
              ToBroker(b, <<Mark("syn", p, 0)>> \o s), Reply(<<>>, <<>>, end + 1)
       PROVE  ProducerInv'
  <2>1. PICK r : WithBroker(q, b, r)
    BY DEF WithBroker
  <2>2. pp' = [pp EXCEPT ![p] = r] /\ b \in Brokers \cup {Nobody}
    BY <1>18, <2>1, Zenon DEF WithBroker
  <2>3. SentTo(p, b, s, end)
    BY <1>18, Zenon DEF SentTo
  <2>4. QED
    BY <1>11, <1>12, <1>13, <1>14, <1>15, <2>1, <2>2, <2>3, LedStep, Zenon
<1>19. CASE pp' = [pp EXCEPT ![p] = q] /\ Reply(s, <<>>, end) /\ bp' = bp
  <2>1. s \in Seq(Payload(Place))
    BY <1>7, SeqWiden, ItemSets
  <2>2. Carries(p, q, s, <<>>, s)
    <3>1. ASSUME NEW T PROVE Passed(s, <<>>, s, T)
      <4>1. Num(<<>>, T) = 0 /\ Num(s, T) \in Nat
        BY <1>7, NumEmpty, NumPositions
      <4>2. QED
        BY <4>1 DEF Passed
    <3>2. ASSUME NEW i PROVE Chases(p, q, s, <<>>, i)
      <4>1. Num(s, Fin(p, i)) = 0 /\ Num(<<>>, Fin(p, i - 1)) = 0
        BY <2>1, NumEmpty, NumPayload
      <4>2. QED
        BY <1>8, <4>1, Zenon DEF Chases
    <3>3. <<>> \in Seq(Going \cap OfPart({p}))
      OBVIOUS
    <3>4. QED
      BY <3>1, <3>2, <3>3, Zenon DEF Carries
  <2>3. PartitionMoves(p, q, l, s, <<>>, s)
    BY <1>12, <1>19, <2>1, <2>2, MovesForm, Zenon DEF Sends
  <2>4. end + Len(s) + Flag(pp[p].pc = "flush") = Len(s) + Len(<<>>) + Flag(q.pc = "flush")
    <3>1. PICK n \in Nat, f \in Nat : n = Len(s) /\ f = Flag(q.pc = "flush")
      BY <1>11, FlagNat
    <3>2. end + n + 1 = n + 0 + f
      BY <1>13, <3>1
    <3>3. QED
      BY <1>13, <3>1, <3>2, NoErrors, Zenon
  <2>5. QED
    BY <1>13, <1>15, <1>19, <2>3, <2>4, PartitionMoved, Zenon
<1>20. QED
  <2>1. pp[p].m_high_watermark - 1 = l
    BY <1>2
  <2>2. (IF pp[p].expect[l] \/ l = 0 THEN -1 ELSE 0) = end
    BY <1>3, <1>5, Zenon
  <2>3. [pp[p] EXCEPT !.m_high_watermark = l, !.buf[l] = <<>>,
                      !.pc = IF pp[p].expect[l] \/ l = 0 THEN "ready" ELSE "flush"] = q
    BY <1>3, <1>6, Zenon
  <2>4. \/ pp[p].m_broker_producer # Nobody /\ pp' = [pp EXCEPT ![p] = q]
             /\ ToBroker(pp[p].m_broker_producer, s) /\ Reply(<<>>, <<>>, end)
        \/ \E b \in Brokers : /\ pp' = [pp EXCEPT ![p] = [q EXCEPT !.m_broker_producer = b]]
                              /\ ToBroker(b, <<Mark("syn", p, 0)>> \o s) /\ Reply(<<>>, <<>>, end + 1)
        \/ pp' = [pp EXCEPT ![p] = q] /\ Reply(s, <<>>, end) /\ bp' = bp
    BY <1>4, <2>1, <2>2, <2>3, Zenon DEF Flush
  <2>5. QED
    BY <1>17, <1>18, <1>19, <2>4, Zenon

-----------------------------------------------------------------------------
(* TopicProducer::dispatch                                                          *)

\* TopicProducer takes the first of its channel.
LEMMA TopicTakes ==
  ASSUME Shapes, topic_input # <<>>, topic_input' = Tail(topic_input), NEW m, m = Head(topic_input),
         UNCHANGED <<m_input, bp, m_retries, retry_buf>>
  PROVE  /\ m \in Payload(Place) \cup Returning(Partitions)
         /\ topic_input' \in Seq(Payload(Place) \cup Returning(Partitions))
         /\ \A T : \A x \in Int :
              NumIn(PartitionQueue, T)' = NumIn(PartitionQueue, T) + x
                /\ NumIn(RetryBuffer, T)' = NumIn(RetryBuffer, T) + 0
              => Effect(T, 0, x - One(m, T), 0, 0)
<1>1. topic_input \in Seq(Payload(Place) \cup Returning(Partitions))
  BY DEF Shapes
<1>2. m \in Payload(Place) \cup Returning(Partitions) /\ topic_input' \in Seq(Payload(Place) \cup Returning(Partitions))
  BY <1>1
<1>3. ASSUME NEW T, NEW x \in Int, NumIn(PartitionQueue, T)' = NumIn(PartitionQueue, T) + x,
             NumIn(RetryBuffer, T)' = NumIn(RetryBuffer, T) + 0
      PROVE  Effect(T, 0, x - One(m, T), 0, 0)
  <2>1. Counts(T)
    BY CountsNow
  <2>2. PICK c \in Int, t \in Int : c = One(m, T) /\ t = 0 - c
    BY OneInt
  <2>3. Num(topic_input, T)' = Num(topic_input, T) + t
    <3>0. Tail(topic_input) \in Seq(Payload(Place) \cup Returning(Partitions))
      BY <1>1, <1>2
    <3>5. Num(Tail(topic_input), T) \in Nat
      BY <3>0, NumPositions
    <3>1. PICK a \in Nat : a = Num(Tail(topic_input), T)
      BY <3>5, Zenon
    <3>2. Num(topic_input, T) = c + a
      BY <1>1, <2>2, <3>1, NumPop
    <3>3. a = (c + a) + t
      BY <2>2
    <3>4. QED
      BY <3>1, <3>2, <3>3, Zenon
  <2>4. Num(m_input, T)' = Num(m_input, T) /\ Num(m_retries, T)' = Num(m_retries, T) /\ Num(retry_buf, T)' = Num(retry_buf, T)
    BY Zenon
  <2>5. NumIn(BrokerQueue, T)' = NumIn(BrokerQueue, T) /\ NumIn(BrokerSets, T)' = NumIn(BrokerSets, T)
    BY SameBrokers
  <2>6. \A n \in Nat : n = n + 0
    OBVIOUS
  <2>7. /\ Num(m_input, T)' = Num(m_input, T) + 0 /\ Num(m_retries, T)' = Num(m_retries, T) + 0
        /\ Num(retry_buf, T)' = Num(retry_buf, T) + 0
        /\ NumIn(BrokerQueue, T)' = NumIn(BrokerQueue, T) + 0 /\ NumIn(BrokerSets, T)' = NumIn(BrokerSets, T) + 0
    BY <2>1, <2>4, <2>5, <2>6, Zenon DEF Counts
  <2>8. BeforeEffect(T, t, 0, 0, x, 0)
    <3>1. 0 \in Int
      OBVIOUS
    <3>2. QED
      BY <1>3, <2>2, <2>3, <2>7, <3>1, Zenon DEF BeforeEffect
  <2>9. BeforeBrokers(T)' = BeforeBrokers(T) + (t + 0 + 0 + x + 0)
    BY <2>8, BeforeSum
  <2>10. t + 0 + 0 + x + 0 = x - c
    BY <2>2
  <2>11. BeforeBrokers(T)' = BeforeBrokers(T) + (x - One(m, T))
    BY <2>2, <2>9, <2>10, Zenon
  <2>12. {0, x - One(m, T), 0, 0} \subseteq Int
    BY OneInt
  <2>13. QED
    BY <2>7, <2>11, <2>12, Zenon DEF Effect
<1>4. QED
  BY <1>2, <1>3, Zenon

\* m with the partition p.
PutIn(m, p, m2) == m2 = [m EXCEPT !.part = p]

\* The topic's partitioner changes a message's partition and nothing else.
LEMMA Placed ==
  ASSUME NEW m \in Payload(Place) \cup Returning(Partitions), NEW p \in Partitions,
         m.retries > 0 => p = m.part, NEW m2, PutIn(m, p, m2)
  PROVE  /\ m2 \in Coming({p}) /\ m2 \in Message
         /\ One(m2, Message) = One(m, Message) /\ One(m2, Taken) = One(m, Taken)
         /\ \A id \in 1..MaxSent : One(m2, WithId({id})) = One(m, WithId({id}))
         /\ \A e \in Payload(Place) : One(m2, Older(e)) = One(m, Older(e))
         /\ \A x, l : One(m2, Fin(x, l)) = One(m, Fin(x, l))
<1>0. m \in Message /\ p \in Place
  BY ItemTypes DEF Place
<1>1. m2 \in Message /\ m2.id = m.id /\ m2.kind = m.kind /\ m2.retries = m.retries /\ m2.part = p
  BY <1>0 DEF Message, PutIn
<1>2. CASE m \in Payload(Place)
  <2>1. m2 \in Payload({p})
    BY <1>2 DEF Payload, PutIn
  <2>2. m2 \in Payload(Place)
    BY <2>1, ItemSets
  <2>3. One(m2, Message) = One(m, Message) /\ \A x, l : One(m2, Fin(x, l)) = One(m, Fin(x, l))
    BY <1>2, <2>2, OnePayload
  <2>4. m2 \in Taken <=> m \in Taken
    BY <1>0, <1>1 DEF Taken, AtLevel, Message
  <2>5. \A id \in 1..MaxSent : m2 \in WithId({id}) <=> m \in WithId({id})
    BY <1>0, <1>1 DEF WithId, Message
  <2>6. \A e \in Payload(Place) : m2 \in Older(e) <=> m \in Older(e)
    BY <1>0, <1>1 DEF Older, Message
  <2>7. One(m2, Taken) = One(m, Taken)
    BY <2>4 DEF One
  <2>8. \A id \in 1..MaxSent : One(m2, WithId({id})) = One(m, WithId({id}))
    BY <2>5, Zenon DEF One
  <2>9. \A e \in Payload(Place) : One(m2, Older(e)) = One(m, Older(e))
    BY <2>6, Zenon DEF One
  <2>10. m2 \in Coming({p})
    BY <2>1 DEF Coming
  <2>11. QED
    BY <1>1, <2>3, <2>7, <2>8, <2>9, <2>10
<1>3. CASE m \in Returning(Partitions)
  <2>1. m.retries > 0
    BY <1>3 DEF Returning
  <2>2. m2 = m
    BY <1>0, <2>1 DEF Message, PutIn
  <2>3. m2 \in Returning({p})
    BY <1>3, <2>1, <2>2 DEF Returning
  <2>4. m2 \in Coming({p})
    BY <2>3 DEF Coming
  <2>5. QED
    BY <1>1, <2>2, <2>4, Zenon
<1>4. QED
  BY <1>2, <1>3

\* A message is put into the channel of a PartitionProducer.
LEMMA PutWaits ==
  ASSUME Shapes, NEW p \in Partitions, NEW m \in Coming({p}), NEW q \in PartitionShape(p), NEW T,
         q.m_input = Append(pp[p].m_input, m), q.pc = "send" <=> pp[p].pc = "send", q.msg = pp[p].msg
  PROVE  Num(Waiting(q), T) = Num(Waiting(pp[p]), T) + One(m, T) /\ Num(Waiting(pp[p]), T) \in Nat
<1>0. pp[p] \in PartitionShape(p) /\ pp[p].m_input \in Seq(Coming({p}))
  BY DEF Shapes, PartitionShape
<1>1. Num(q.m_input, T) = Num(pp[p].m_input, T) + One(m, T)
  BY <1>0, NumPush
<1>2. PICK a \in Nat, c \in Nat : a = Num(pp[p].m_input, T) /\ c = One(m, T)
  BY <1>0, NumPositions, OneInt
<1>3. CASE pp[p].pc = "send"
  <2>1. Num(Waiting(q), T) = Num(q.m_input, T) + One(q.msg, T)
    BY <1>3, WaitingSend
  <2>2. Num(Waiting(pp[p]), T) = Num(pp[p].m_input, T) + One(pp[p].msg, T)
    BY <1>0, <1>3, WaitingSend
  <2>3. PICK d \in Nat : d = One(pp[p].msg, T)
    BY OneInt
  <2>4. (a + c) + d = (a + d) + c /\ a + d \in Nat
    OBVIOUS
  <2>5. QED
    BY <1>1, <1>2, <2>1, <2>2, <2>3, <2>4, Zenon
<1>4. CASE pp[p].pc # "send"
  <2>1. Num(Waiting(q), T) = Num(q.m_input, T)
    BY <1>4, WaitingIdle
  <2>2. Num(Waiting(pp[p]), T) = Num(pp[p].m_input, T)
    BY <1>0, <1>4, WaitingIdle
  <2>3. QED
    BY <1>1, <1>2, <2>1, <2>2, Zenon
<1>5. QED
  BY <1>3, <1>4

\* A step that moves items between the queues and answers none.
LEMMA QuietStep ==
  ASSUME ProducerInv, Shapes', UNCHANGED <<sent, log, dropped, m_replies, m_in_flight>>,
         Effect(Message, 0, 0, 0, 0), Effect(Taken, 0, 0, 0, 0),
         Cardinality(Flushing)' = Cardinality(Flushing),
         \A id \in 1..MaxSent : Effect(WithId({id}), 0, 0, 0, 0),
         \A e \in Payload(Place) : Effect(Older(e), 0, 0, 0, 0),
         \A x, l : Effect(Fin(x, l), 0, 0, 0, 0),
         \A p \in Partitions, l \in 1..RetryMax : pp'[p].expect[l] = pp[p].expect[l],
         \A p \in Partitions : Watermark(p, pp'[p])
  PROVE  ProducerInv'
<1>0. Shapes /\ InFlightExact /\ Expected
  BY DEF ProducerInv
<1>1. 0 \in Int /\ 0 + 0 + 0 + 0 = 0
  OBVIOUS
<1>2. ASSUME NEW T, Effect(T, 0, 0, 0, 0) PROVE All(T)' = All(T) /\ All(T)' <= All(T)
  <2>1. All(T)' = All(T) + 0 + 0 + 0 + 0
    BY <1>0, <1>2, EffectAll
  <2>2. All(T) \in Nat
    BY <1>0, CountsNow DEF Counts
  <2>3. QED
    BY <2>1, <2>2
<1>3. Accounts' /\ Stored'
  <2>1. /\ \A id \in 1..MaxSent : All(WithId({id}))' = All(WithId({id}))
        /\ \A e \in Payload(Place) : All(Older(e))' <= All(Older(e))
    BY <1>2, Zenon
  <2>2. QED
    BY <2>1, QuietAccounts, Zenon
<1>4. InFlightExact'
  <2>1. Cardinality(dropped)' = Cardinality(dropped) + 0 /\ Cardinality(Flushing)' = Cardinality(Flushing) + 0
    BY <1>0, CardinalitiesNat
  <2>2. m_in_flight' = m_in_flight + 0 + 0 + 0 + 0 + 0 + 0
    BY InFlightNat
  <2>3. QED
    BY <1>0, <1>1, <2>1, <2>2, KeepInFlight, Zenon
<1>5. Expected'
  <2>1. ASSUME NEW p \in Partitions, NEW l \in 1..RetryMax PROVE Chasers(p, l)' = Chasers(p, l)
    BY <1>0, <1>1, ZeroChasers, Zenon
  <2>2. QED
    BY <1>0, <2>1, KeepExpected, Zenon
<1>6. QED
  BY <1>3, <1>4, <1>5 DEF ProducerInv

\* TopicProducer::dispatch: an item goes to a partition, or is answered.
LEMMA DispatchTopicStep == ProducerInv /\ DispatchTopic => ProducerInv'
<1> SUFFICES ASSUME ProducerInv, DispatchTopic PROVE ProducerInv'
  OBVIOUS
<1>0. Shapes /\ InFlightExact /\ Expected /\ \A p \in Partitions : Watermark(p, pp[p])
  BY DEF ProducerInv
<1>1. PICK m : m = Head(topic_input)
  OBVIOUS
<1>2. topic_input # <<>> /\ topic_input' = Tail(topic_input)
  BY DEF DispatchTopic
<1>3. UNCHANGED <<sent, m_input, bp, m_retries, retry_buf, closing, leader, log, dropped>>
  BY DEF DispatchTopic, worldVars
<1>4. /\ m \in Payload(Place) \cup Returning(Partitions)
      /\ topic_input' \in Seq(Payload(Place) \cup Returning(Partitions))
      /\ \A T : \A x \in Int :
           NumIn(PartitionQueue, T)' = NumIn(PartitionQueue, T) + x
             /\ NumIn(RetryBuffer, T)' = NumIn(RetryBuffer, T) + 0
           => Effect(T, 0, x - One(m, T), 0, 0)
  BY <1>0, <1>1, <1>2, <1>3, TopicTakes
<1>5. m \in Message
  BY <1>4, ItemSets
<1>6. CASE m.retries = 0 /\ Reply(<<m>>, <<>>, 0) /\ pp' = pp
  <2>1. m \in Payload(Place)
    BY <1>4, <1>6 DEF Returning
  <2>2. /\ m_replies' = Replied(<<m>>, <<>>) /\ m_in_flight' = m_in_flight + 0 - 1
        /\ m_in_flight \in Nat /\ m_replies' \in [(0..MaxSent) \X BOOLEAN -> Nat]
        /\ <<m>> \in Seq(Payload(Place))
    <3>1. 0 \in Int
      OBVIOUS
    <3>2. QED
      BY <1>6, <2>1, <3>1, ReplyToOne, Zenon
  <2>3. Shapes'
    BY <1>0, <1>3, <1>4, <1>6, <2>2 DEF Shapes
  <2>4. ASSUME NEW T PROVE Effect(T, 0, 0 - One(m, T), 0, 0)
    <3>1. NumIn(PartitionQueue, T)' = NumIn(PartitionQueue, T) /\ NumIn(RetryBuffer, T)' = NumIn(RetryBuffer, T)
      BY <1>6, SamePartitions
    <3>2. NumIn(PartitionQueue, T) \in Nat /\ NumIn(RetryBuffer, T) \in Nat
      BY <1>0, CountsNow DEF Counts
    <3>3. \A n \in Nat : n = n + 0
      OBVIOUS
    <3>4. /\ NumIn(PartitionQueue, T)' = NumIn(PartitionQueue, T) + 0
          /\ NumIn(RetryBuffer, T)' = NumIn(RetryBuffer, T) + 0
      BY <3>1, <3>2, <3>3, Zenon
    <3>5. 0 \in Int
      OBVIOUS
    <3>6. QED
      BY <1>4, <3>4, <3>5, Zenon
  <2>5. ASSUME NEW T PROVE Same(T, <<m>>)
    <3>1. Num(<<m>>, T) = One(m, T)
      BY NumOne
    <3>2. Num(<<m>>, T) + 0 + (0 - One(m, T)) + 0 + 0 = 0
      BY <3>1, OneInt
    <3>3. QED
      BY <1>0, <2>2, <2>3, <2>4, <3>2, EffectSame
  <2>6. Accounts' /\ Stored'
    <3>1. /\ \A id \in 1..MaxSent : Same(WithId({id}), <<m>>)
          /\ \A e \in Payload(Place) : Same(Older(e), <<m>>)
      BY <2>5, Zenon
    <3>2. QED
      BY <1>3, <2>2, <2>3, <3>1, SameAccounts, Zenon
  <2>7. InFlightExact'
    <3>1. /\ Effect(Message, 0, 0 - One(m, Message), 0, 0)
          /\ Effect(Taken, 0, 0 - One(m, Taken), 0, 0)
      BY <2>4
    <3>2. One(m, Message) = 1
      BY <2>1, OnePayload
    <3>3. m_in_flight' = m_in_flight + 0 + (0 - One(m, Message)) + 0 + 0 + 0 + 0
      BY <2>2, <3>2
    <3>4. Cardinality(dropped)' = Cardinality(dropped) + 0 /\ Cardinality(Flushing)' = Cardinality(Flushing) + 0
      BY <1>0, <1>3, <1>6, SameCardinalities
    <3>5. QED
      BY <1>0, <3>1, <3>3, <3>4, KeepInFlight
  <2>8. Expected'
    <3>1. ASSUME NEW p \in Partitions, NEW l \in 1..RetryMax PROVE Chasers(p, l)' = Chasers(p, l)
      <4>1. /\ Effect(Fin(p, l), 0, 0 - One(m, Fin(p, l)), 0, 0)
            /\ Effect(Fin(p, l - 1), 0, 0 - One(m, Fin(p, l - 1)), 0, 0)
        BY <2>4
      <4>2. 0 + (0 - One(m, Fin(p, l))) + 0 + 0 = 0
        BY <2>1, OnePayload
      <4>3. QED
        BY <1>0, <4>1, <4>2, ZeroChasers
    <3>2. QED
      BY <1>0, <1>6, <3>1, KeepExpected, Zenon
  <2>9. \A p \in Partitions : Watermark(p, pp'[p])
    BY <1>6, SameWatermark
  <2>10. QED
    BY <2>3, <2>6, <2>7, <2>8, <2>9 DEF ProducerInv
<1>7. ASSUME NEW p \in Partitions, m.retries > 0 => p = m.part, ToPartition(m, p), Reply(<<>>, <<>>, 0)
      PROVE  ProducerInv'
  <2>1. PICK m2 : m2 = [m EXCEPT !.part = p]
    OBVIOUS
  <2>2. /\ m2 \in Coming({p}) /\ m2 \in Message
        /\ One(m2, Message) = One(m, Message) /\ One(m2, Taken) = One(m, Taken)
        /\ \A id \in 1..MaxSent : One(m2, WithId({id})) = One(m, WithId({id}))
        /\ \A e \in Payload(Place) : One(m2, Older(e)) = One(m, Older(e))
        /\ \A x, l : One(m2, Fin(x, l)) = One(m, Fin(x, l))
    <3>1. PutIn(m, p, m2)
      BY <2>1 DEF PutIn
    <3>2. QED
      BY <1>4, <1>7, <3>1, Placed, ZenonT(60)
  <2>3. PICK q : q = [pp[p] EXCEPT !.m_input = Append(@, m2), !.pc = IF @ = "off" THEN "start" ELSE @]
    OBVIOUS
  <2>4. pp[p] \in PartitionShape(p) /\ pp \in [Partitions -> PartitionProducer]
    BY <1>0 DEF Shapes
  <2>5. Append(pp[p].m_input, m2) \in Seq(Coming({p}))
    BY <2>2, <2>4 DEF PartitionShape
  <2>6. q \in PartitionShape(p)
    BY <2>3, <2>4, <2>5 DEF PartitionShape
  <2>7. /\ q.m_input = Append(pp[p].m_input, m2)
        /\ q.pc = "send" <=> pp[p].pc = "send"
        /\ q.pc = "flush" <=> pp[p].pc = "flush"
        /\ q.msg = pp[p].msg /\ q.buf = pp[p].buf /\ q.expect = pp[p].expect
        /\ q.m_high_watermark = pp[p].m_high_watermark
    BY <2>3, <2>4 DEF PartitionShape
  <2>8. pp' = [pp EXCEPT ![p] = q]
    BY <1>7, <2>1, <2>3, <2>4 DEF ToPartition
  <2>9. q \in PartitionProducer
    BY <2>6, PartitionShapeType
  <2>10. pp' \in [Partitions -> PartitionProducer] /\ pp'[p] = q /\ \A x \in Partitions : x # p => pp'[x] = pp[x]
    BY <2>4, <2>8, <2>9
  <2>11. ASSUME NEW T PROVE Effect(T, 0, One(m2, T) - One(m, T), 0, 0)
    <3>1. Num(Waiting(q), T) = Num(Waiting(pp[p]), T) + One(m2, T) /\ Num(Waiting(pp[p]), T) \in Nat
      BY <1>0, <2>2, <2>6, <2>7, PutWaits, Zenon
    <3>2. 0 \in Level /\ \A l \in Level : l # 0 => q.buf[l] = pp[p].buf[l]
      BY <2>7, ZeroLevel
    <3>3. /\ NumIn(PartitionQueue, T)' + Num(Waiting(pp[p]), T) = NumIn(PartitionQueue, T) + Num(Waiting(q), T)
          /\ NumIn(RetryBuffer, T)' + Num(pp[p].buf[0], T) = NumIn(RetryBuffer, T) + Num(q.buf[0], T)
      BY <1>0, <2>8, <2>9, <3>2, PartitionChange
    <3>4. Shapes'
      <4>1. \A x \in Partitions : pp'[x] \in PartitionShape(x)
        BY <1>0, <2>6, <2>10 DEF Shapes
      <4>2. m_replies' \in [(0..MaxSent) \X BOOLEAN -> Nat]
        <5>1. 0 \in Int
          OBVIOUS
        <5>2. QED
          BY <1>7, <5>1, ReplyNone, Zenon
      <4>3. QED
        BY <1>0, <1>3, <1>4, <2>10, <4>1, <4>2 DEF Shapes
    <3>5. Counts(T) /\ Counts(T)'
      BY <1>0, <3>4, CountsNow, CountsNext
    <3>6. PICK a \in Nat, a2 \in Nat, b \in Nat, b2 \in Nat :
            /\ a = NumIn(PartitionQueue, T) /\ a2 = NumIn(PartitionQueue, T)'
            /\ b = NumIn(RetryBuffer, T) /\ b2 = NumIn(RetryBuffer, T)'
      BY <3>5, Zenon DEF Counts
    <3>7. PICK w \in Nat, o \in Int : w = Num(Waiting(pp[p]), T) /\ o = One(m2, T)
      BY <3>1, OneInt
    <3>8. pp[p].buf[0] \in Seq(Message) /\ q.buf[0] = pp[p].buf[0]
      BY <2>4, <2>7, <3>2 DEF PartitionProducer
    <3>9. PICK v \in Nat : v = Num(pp[p].buf[0], T)
      BY <3>8, NumPositions
    <3>10. a2 + w = a + (w + o) /\ b2 + v = b + v
      BY <3>1, <3>3, <3>6, <3>7, <3>8, <3>9, Zenon
    <3>11. a2 = a + o /\ b2 = b + 0
      BY <3>10
    <3>12. /\ NumIn(PartitionQueue, T)' = NumIn(PartitionQueue, T) + o
           /\ NumIn(RetryBuffer, T)' = NumIn(RetryBuffer, T) + 0
      BY <3>6, <3>11, Zenon
    <3>13. Effect(T, 0, o - One(m, T), 0, 0)
      BY <1>4, <3>12, Zenon
    <3>14. QED
      BY <3>7, <3>13, Zenon
  <2>12. Shapes'
    <3>1. \A x \in Partitions : pp'[x] \in PartitionShape(x)
      BY <1>0, <2>6, <2>10 DEF Shapes
    <3>2. m_replies' \in [(0..MaxSent) \X BOOLEAN -> Nat]
      <4>1. 0 \in Int
        OBVIOUS
      <4>2. QED
        BY <1>7, <4>1, ReplyNone, Zenon
    <3>3. QED
      BY <1>0, <1>3, <1>4, <2>10, <3>1, <3>2 DEF Shapes
  <2>13. ASSUME NEW T, One(m2, T) = One(m, T) PROVE Effect(T, 0, 0, 0, 0)
    <3>1. One(m2, T) - One(m, T) = 0
      BY <2>13, OneInt
    <3>2. QED
      BY <2>11, <3>1, Zenon
  <2>14. Cardinality(Flushing)' = Cardinality(Flushing)
    <3>1. Flushing' = Flushing
      BY <2>7, <2>10 DEF Flushing
    <3>2. QED
      BY <3>1
  <2>15. m_replies' = m_replies /\ m_in_flight' = m_in_flight
    <3>1. 0 \in Int
      OBVIOUS
    <3>2. m_replies' = Replied(<<>>, <<>>) /\ m_in_flight' = m_in_flight + 0 /\ m_in_flight \in Nat
      BY <1>7, <3>1, ReplyNone, Zenon
    <3>3. m_in_flight + 0 = m_in_flight
      BY <3>2
    <3>4. QED
      BY <3>2, <3>3, NoReply, Zenon
  <2>16. /\ Effect(Message, 0, 0, 0, 0) /\ Effect(Taken, 0, 0, 0, 0)
         /\ \A id \in 1..MaxSent : Effect(WithId({id}), 0, 0, 0, 0)
         /\ \A e \in Payload(Place) : Effect(Older(e), 0, 0, 0, 0)
         /\ \A x, l : Effect(Fin(x, l), 0, 0, 0, 0)
    BY <2>2, <2>13, Zenon
  <2>17. \A x \in Partitions, l \in 1..RetryMax : pp'[x].expect[l] = pp[x].expect[l]
    BY <2>7, <2>10, Zenon
  <2>18. \A x \in Partitions : Watermark(x, pp'[x])
    <3>1. Watermark(p, q)
      BY <1>0, <2>7 DEF Watermark
    <3>2. QED
      BY <1>0, <2>10, <3>1, Zenon
  <2>19. QED
    BY <1>3, <2>12, <2>14, <2>15, <2>16, <2>17, <2>18, QuietStep, Zenon
<1>8. QED
  BY <1>1, <1>6, <1>7, Zenon DEF DispatchTopic

-----------------------------------------------------------------------------
(* retry_message: what goes back and what is given up                               *)

\* What a BrokerProducer sends back, and the lower turns of the same message.
Turn == Payload(Partitions) \cup Leaving
Again(m) == [m EXCEPT !.retries = @ + 1]
Younger(m) == [id: {m.id}, kind: Kind, retries: {l \in Level : l < m.retries}, part: Place]
Low == AtLevel({l \in Level : l < RetryMax})
High == AtLevel({l \in Level : l >= RetryMax})

\* Items of a batch, and when they have a turn left.
LEMMA TurnType ==
  /\ Turn \subseteq Message /\ Payload(Partitions) \subseteq Turn
  /\ \A m \in Turn : m \in Low <=> m.retries < RetryMax
  /\ \A m \in Turn : m \in High <=> ~(m \in Low)
<1>1. Turn \subseteq Message /\ Payload(Partitions) \subseteq Turn
  BY ItemTypes, ItemSets DEF Turn
<1>2. \A m \in Message : (m \in Low <=> m.retries < RetryMax) /\ (m \in High <=> ~(m.retries < RetryMax))
  BY KafkaProducerAssumption DEF Message, Low, High, AtLevel, Level
<1>3. QED
  BY <1>1, <1>2

\* The next turn of an item that has one.
LEMMA AgainIn ==
  ASSUME NEW m \in Turn, m \in Low
  PROVE  /\ Again(m) \in Back /\ Again(m).id = m.id /\ Again(m).kind = m.kind
         /\ Again(m).retries = m.retries + 1 /\ Again(m).part = m.part
         /\ m.retries \in Level /\ m.retries + 1 \in 1..RetryMax
<1>1. m.retries < RetryMax /\ m \in Message
  BY TurnType
<1>2. m.retries \in Level /\ m.retries + 1 \in 1..RetryMax
  BY <1>1, KafkaProducerAssumption DEF Message, Level
<1>3. /\ Again(m).id = m.id /\ Again(m).kind = m.kind
      /\ Again(m).retries = m.retries + 1 /\ Again(m).part = m.part
  BY <1>1 DEF Message, Again
<1>4. CASE m \in Payload(Partitions)
  <2>1. Again(m) \in [id: 1..MaxSent, kind: {"msg"}, retries: 1..RetryMax, part: Partitions]
    BY <1>2, <1>4 DEF Payload, Again
  <2>2. QED
    BY <1>2, <1>3, <2>1, Zenon DEF Back
<1>5. CASE m \in Leaving
  <2>1. Again(m) \in Returning(Partitions)
    BY <1>2, <1>5 DEF Leaving, Returning, Again
  <2>2. QED
    BY <1>2, <1>3, <2>1, Zenon DEF Back
<1>6. QED
  BY <1>4, <1>5 DEF Turn

\* What is retried and what is given up, item by item.
LEMMA RetriedItems ==
  ASSUME NEW ms \in Seq(Turn)
  PROVE  /\ Retried(ms) \in Seq(Back) /\ GivenUp(ms) \in Seq(Payload(Partitions))
         /\ \A T, U : (\A m \in Turn : m \in Low => (Again(m) \in T <=> m \in U))
                        => Num(Retried(ms), T) = Num(ms, Low \cap U)
         /\ \A T : Num(GivenUp(ms), T) = Num(ms, High \cap T)
<1>1. PICK s : s = Only(ms, Low)
  OBVIOUS
<1>2. s \in Seq(Turn \cap Low)
  BY <1>1, OnlyIn
<1>3. Retried(ms) = [i \in DOMAIN s |-> Again(s[i])]
  BY <1>1, Zenon DEF Retried, Low, Again
<1>4. \A i \in 1..Len(s) : Again(s[i]) \in Back
  BY <1>2, AgainIn
<1>5. PICK t : t = [i \in 1..Len(s) |-> Again(s[i])]
  OBVIOUS
<1>6. t \in Seq(Back) /\ Len(t) = Len(s) /\ \A i \in 1..Len(s) : t[i] = Again(s[i])
  BY <1>2, <1>4, <1>5
<1>7. Retried(ms) = t
  <2>1. DOMAIN s = 1..Len(s)
    BY <1>2
  <2>2. QED
    BY <1>3, <1>5, <2>1, Zenon
<1>8. GivenUp(ms) = Only(ms, High)
  BY Zenon DEF GivenUp, High
<1>9. GivenUp(ms) \in Seq(Turn \cap High)
  BY <1>8, OnlyIn
<1>10. Turn \cap High \subseteq Payload(Partitions)
  <2>1. \A m \in Leaving : m.retries < RetryMax
    BY DEF Leaving
  <2>2. QED
    BY <2>1, TurnType DEF Turn
<1>11. GivenUp(ms) \in Seq(Payload(Partitions))
  BY <1>9, <1>10, SeqWiden
<1>12. ASSUME NEW T, NEW U, \A m \in Turn : m \in Low => (Again(m) \in T <=> m \in U)
       PROVE  Num(Retried(ms), T) = Num(ms, Low \cap U)
  <2>1. \A i \in 1..Len(s) : s[i] \in U <=> t[i] \in T
    BY <1>2, <1>6, <1>12
  <2>2. Num(s, U) = Num(t, T)
    BY <1>2, <1>6, <2>1, NumMap
  <2>3. Num(s, U) = Num(ms, Low \cap U)
    BY <1>1, NumOnly
  <2>4. QED
    BY <1>7, <2>2, <2>3, Zenon
<1>13. ASSUME NEW T PROVE Num(GivenUp(ms), T) = Num(ms, High \cap T)
  <2>1. Num(Only(ms, High), T) = Num(ms, High \cap T)
    BY NumOnly
  <2>2. QED
    BY <1>8, <2>1, Zenon
<1>14. QED
  BY <1>6, <1>7, <1>11, <1>12, <1>13, Zenon

\* Each item of a batch is retried or given up, and a retry is one turn older.
LEMMA RetriedCounts ==
  ASSUME NEW ms \in Seq(Turn)
  PROVE  /\ Len(Retried(ms)) + Len(GivenUp(ms)) = Len(ms)
         /\ Len(Retried(ms)) \in Nat /\ Len(GivenUp(ms)) \in Nat
         /\ \A id \in 1..MaxSent :
              Num(Retried(ms), WithId({id})) + Num(GivenUp(ms), WithId({id})) = Num(ms, WithId({id}))
         /\ \A e \in Payload(Place) : Num(Retried(ms), Older(e)) <= Num(ms, Younger(e))
         /\ \A p : \A l \in 1..RetryMax : Num(Retried(ms), Fin(p, l)) = Num(ms, Fin(p, l - 1))
<1>1. /\ Retried(ms) \in Seq(Back) /\ GivenUp(ms) \in Seq(Payload(Partitions))
      /\ \A T, U : (\A m \in Turn : m \in Low => (Again(m) \in T <=> m \in U))
                        => Num(Retried(ms), T) = Num(ms, Low \cap U)
      /\ \A T : Num(GivenUp(ms), T) = Num(ms, High \cap T)
  BY RetriedItems
<1>2. ASSUME NEW T PROVE Num(ms, Low \cap T) + Num(ms, High \cap T) = Num(ms, T)
  <2>1. \A m \in Turn : m \in T <=> m \in Low \cap T \/ m \in High \cap T
    BY TurnType
  <2>2. \A m \in Turn : ~(m \in Low \cap T /\ m \in High \cap T)
    BY TurnType
  <2>3. QED
    BY <2>1, <2>2, NumSplit
<1>3. \A m \in Turn : m \in Low => /\ Again(m) \in Back /\ Again(m).id = m.id /\ Again(m).kind = m.kind
                                  /\ Again(m).retries = m.retries + 1 /\ Again(m).part = m.part
                                  /\ m.retries \in Level /\ m.retries + 1 \in 1..RetryMax
  BY AgainIn
<1>4. Back \subseteq Message /\ Turn \subseteq Message /\ Payload(Partitions) \subseteq Message
  BY ItemSets, TurnType
<1>5. \A id : \A m \in Message : m \in WithId({id}) <=> m.id = id
  BY DEF Message, WithId
<1>6. \A e : \A m \in Message : (m \in Older(e) <=> (m.id = e.id /\ m.retries <= e.retries))
                                  /\ (m \in Younger(e) <=> (m.id = e.id /\ m.retries < e.retries))
  BY DEF Message, Older, Younger
<1>7. \A p, l : \A m \in Message : m \in Fin(p, l) <=> m.kind = "fin" /\ m.retries = l /\ m.part = p
  BY DEF Message, Fin
<1>8. Len(Retried(ms)) + Len(GivenUp(ms)) = Len(ms)
  <2>1. Num(Retried(ms), Message) = Num(ms, Low \cap Message)
    BY <1>1, <1>3, <1>4
  <2>2. Num(GivenUp(ms), Message) = Num(ms, High \cap Message)
    BY <1>1
  <2>3. Num(Retried(ms), Message) = Len(Retried(ms)) /\ Num(GivenUp(ms), Message) = Len(GivenUp(ms))
    BY <1>1, <1>4, NumAll
  <2>4. Num(ms, Message) = Len(ms)
    BY <1>4, NumAll
  <2>5. QED
    BY <1>2, <2>1, <2>2, <2>3, <2>4, Zenon
<1>9. ASSUME NEW id \in 1..MaxSent
      PROVE  Num(Retried(ms), WithId({id})) + Num(GivenUp(ms), WithId({id})) = Num(ms, WithId({id}))
  <2>1. \A m \in Turn : m \in Low => (Again(m) \in WithId({id}) <=> m \in WithId({id}))
    BY <1>3, <1>4, <1>5, ZenonT(60)
  <2>2. Num(Retried(ms), WithId({id})) = Num(ms, Low \cap WithId({id}))
    BY <1>1, <2>1
  <2>3. Num(GivenUp(ms), WithId({id})) = Num(ms, High \cap WithId({id}))
    BY <1>1
  <2>4. QED
    BY <1>2, <2>2, <2>3, Zenon
<1>10. ASSUME NEW e \in Payload(Place) PROVE Num(Retried(ms), Older(e)) <= Num(ms, Younger(e))
  <2>1. e.retries \in Int /\ \A m \in Turn : m.retries \in Int
    BY <1>4, KafkaProducerAssumption DEF Payload, Message, Level
  <2>2. ASSUME NEW m \in Turn, m \in Low PROVE Again(m) \in Older(e) <=> m \in Younger(e)
    <3>1. Again(m) \in Message /\ m \in Message /\ Again(m).id = m.id /\ Again(m).retries = m.retries + 1
      BY <1>3, <1>4, <2>2
    <3>2. Again(m) \in Older(e) <=> m.id = e.id /\ m.retries + 1 <= e.retries
      BY <1>6, <3>1
    <3>3. m \in Younger(e) <=> m.id = e.id /\ m.retries < e.retries
      BY <1>6, <3>1
    <3>4. m.retries + 1 <= e.retries <=> m.retries < e.retries
      BY <2>1
    <3>5. QED
      BY <3>2, <3>3, <3>4, Zenon
  <2>3. Num(Retried(ms), Older(e)) = Num(ms, Low \cap Younger(e))
    BY <1>1, <2>2
  <2>4. \A m \in Turn : m \in Low \cap Younger(e) => m \in Younger(e)
    OBVIOUS
  <2>5. Num(ms, Low \cap Younger(e)) <= Num(ms, Younger(e))
    BY <2>4, NumMono
  <2>6. QED
    BY <2>3, <2>5
<1>11. ASSUME NEW p, NEW l \in 1..RetryMax PROVE Num(Retried(ms), Fin(p, l)) = Num(ms, Fin(p, l - 1))
  <2>1. \A m \in Turn : m.retries \in Int
    BY <1>4, KafkaProducerAssumption DEF Message, Level
  <2>2. \A m \in Turn : m \in Low => (Again(m) \in Fin(p, l) <=> m \in Fin(p, l - 1))
    BY <1>3, <1>4, <1>7, <2>1
  <2>3. Num(Retried(ms), Fin(p, l)) = Num(ms, Low \cap Fin(p, l - 1))
    BY <1>1, <2>2
  <2>4. \A m \in Turn : m \in Low \cap Fin(p, l - 1) <=> m \in Fin(p, l - 1)
    BY <1>4, <1>7, TurnType, KafkaProducerAssumption
  <2>5. Num(ms, Low \cap Fin(p, l - 1)) = Num(ms, Fin(p, l - 1))
    BY <2>4, NumSame
  <2>6. QED
    BY <2>3, <2>5
<1>12. Len(Retried(ms)) \in Nat /\ Len(GivenUp(ms)) \in Nat
  BY <1>1
<1>13. QED
  BY <1>8, <1>9, <1>10, <1>11, <1>12, Zenon

\* Nothing becomes of an empty batch.
LEMMA RetriedNone == Retried(<<>>) = <<>> /\ GivenUp(<<>>) = <<>>
<1>1. <<>> \in Seq(Turn) /\ Len(<<>>) = 0
  OBVIOUS
<1>2. Len(Retried(<<>>)) + Len(GivenUp(<<>>)) = 0
  BY <1>1, RetriedCounts
<1>3. /\ Retried(<<>>) \in Seq(Back) /\ GivenUp(<<>>) \in Seq(Payload(Partitions))
  BY <1>1, RetriedItems
<1>4. QED
  BY <1>2, <1>3, EmptySeq

-----------------------------------------------------------------------------
(* A step of a BrokerProducer                                                       *)

\* The numbers of a step of a BrokerProducer.
LEMMA BrokerEffect ==
  ASSUME Shapes, NEW b \in Brokers, NEW r \in BrokerProducer, bp' = [bp EXCEPT ![b] = r],
         NEW back \in Seq(Back), m_retries' = m_retries \o back,
         UNCHANGED <<m_input, topic_input, pp, retry_buf>>,
         NEW T, NEW q \in Int, NEW s \in Int,
         Num(r.m_input, T) = Num(bp[b].m_input, T) + q, Num(Sets(r), T) = Num(Sets(bp[b]), T) + s
  PROVE  Effect(T, 0, Num(back, T), q, s)
<1>1. Counts(T)
  BY CountsNow
<1>2. PICK n \in Nat : n = Num(back, T)
  BY NumPositions
<1>3. Num(m_retries, T)' = Num(m_retries, T) + n
  <2>1. m_retries \in Seq(Back)
    BY DEF Shapes
  <2>2. Num(m_retries \o back, T) = Num(m_retries, T) + Num(back, T)
    BY <2>1, NumConcat
  <2>3. QED
    BY <1>2, <2>2, Zenon
<1>4. bp[b] \in BrokerProducer
  BY BrokerShapeType DEF Shapes
<1>5. Sets(bp[b]) \in Seq(Message) /\ Sets(r) \in Seq(Message)
  BY <1>4, SetsType
<1>6. bp[b].m_input \in Seq(Message)
  BY <1>4 DEF BrokerProducer
<1>7. PICK u \in Nat, v \in Nat : u = Num(bp[b].m_input, T) /\ v = Num(Sets(bp[b]), T)
  BY <1>5, <1>6, NumPositions
<1>8. /\ NumIn(BrokerQueue, T)' + Num(bp[b].m_input, T) = NumIn(BrokerQueue, T) + Num(r.m_input, T)
      /\ NumIn(BrokerSets, T)' + Num(Sets(bp[b]), T) = NumIn(BrokerSets, T) + Num(Sets(r), T)
  BY BrokerChange
<1>9. PICK x \in Nat, y \in Nat : x = NumIn(BrokerQueue, T) /\ y = NumIn(BrokerSets, T)
  BY <1>1, Zenon DEF Counts
<1>10. NumIn(BrokerQueue, T)' \in Nat /\ NumIn(BrokerSets, T)' \in Nat
  <2>1. bp' \in [Brokers -> BrokerProducer]
    BY BrokerShapeType DEF Shapes
  <2>2. BrokerQueue' \in [Brokers -> Seq(Message)]
    BY <2>1 DEF BrokerQueue, BrokerProducer
  <2>3. BrokerSets' \in [Brokers -> Seq(Message)]
    <3>1. \A c \in Brokers : Sets(bp'[c]) \in Seq(Message)
      BY <2>1, SetsType
    <3>2. QED
      BY <3>1, Zenon DEF BrokerSets, Sets
  <2>4. QED
    BY <2>2, <2>3, FinitePlaces, SlotsFinite
<1>11. PICK x2 \in Nat, y2 \in Nat : x2 = NumIn(BrokerQueue, T)' /\ y2 = NumIn(BrokerSets, T)'
  BY <1>10
<1>12. x2 + u = x + (u + q) /\ y2 + v = y + (v + s)
  BY <1>7, <1>8, <1>9, <1>11, Zenon
<1>13. x2 = x + q /\ y2 = y + s
  BY <1>12
<1>14. NumIn(BrokerQueue, T)' = NumIn(BrokerQueue, T) + q /\ NumIn(BrokerSets, T)' = NumIn(BrokerSets, T) + s
  BY <1>9, <1>11, <1>13, Zenon
<1>15. /\ NumIn(PartitionQueue, T)' = NumIn(PartitionQueue, T) /\ NumIn(RetryBuffer, T)' = NumIn(RetryBuffer, T)
  BY SamePartitions
<1>16. Num(m_input, T)' = Num(m_input, T) /\ Num(topic_input, T)' = Num(topic_input, T) /\ Num(retry_buf, T)' = Num(retry_buf, T)
  BY Zenon
<1>17. \A k \in Nat : k = k + 0
  OBVIOUS
<1>18. /\ Num(m_input, T)' = Num(m_input, T) + 0 /\ Num(topic_input, T)' = Num(topic_input, T) + 0
       /\ Num(retry_buf, T)' = Num(retry_buf, T) + 0
       /\ NumIn(PartitionQueue, T)' = NumIn(PartitionQueue, T) + 0 /\ NumIn(RetryBuffer, T)' = NumIn(RetryBuffer, T) + 0
  BY <1>1, <1>15, <1>16, <1>17, Zenon DEF Counts
<1>19. 0 \in Int /\ n \in Int /\ 0 + n + 0 + 0 + 0 = n
  OBVIOUS
<1>20. BeforeEffect(T, 0, n, 0, 0, 0)
  BY <1>3, <1>18, <1>19, Zenon DEF BeforeEffect
<1>21. BeforeBrokers(T)' = BeforeBrokers(T) + (0 + n + 0 + 0 + 0)
  BY <1>20, BeforeSum
<1>22. BeforeBrokers(T)' = BeforeBrokers(T) + Num(back, T)
  BY <1>2, <1>19, <1>21, Zenon
<1>23. {0, Num(back, T), q, s} \subseteq Int
  BY <1>2, <1>19
<1>24. QED
  BY <1>14, <1>18, <1>22, <1>23, Zenon DEF Effect

\* A BrokerProducer becomes r and sends back what it could not store.
BrokerShift(b, r, back) ==
  /\ r \in BrokerShape /\ bp' = [bp EXCEPT ![b] = r]
  /\ back \in Seq(Back) /\ m_retries' = m_retries \o back
  /\ UNCHANGED <<m_input, topic_input, pp, retry_buf>>

\* What a BrokerProducer holds of T.
Held(r, T) == Num(r.m_input, T) + Num(Sets(r), T)

\* What a BrokerProducer holds is a number.
LEMMA HeldNat ==
  ASSUME NEW r \in BrokerShape, NEW T
  PROVE  Num(r.m_input, T) \in Nat /\ Num(Sets(r), T) \in Nat /\ Held(r, T) \in Nat
<1>1. r \in BrokerProducer
  BY BrokerShapeType
<1>2. r.m_input \in Seq(Message) /\ Sets(r) \in Seq(Message)
  BY <1>1, SetsType DEF BrokerProducer
<1>3. Num(r.m_input, T) \in Nat /\ Num(Sets(r), T) \in Nat
  BY <1>2, NumPositions
<1>4. QED
  BY <1>3 DEF Held

\* The step in numbers: n items of T go back, q and s is what queue and sets gain.
BrokerSums(b, r, back, T) ==
  \E n, a, c, a2, c2 \in Nat : \E q, s \in Int :
    /\ Effect(T, 0, n, q, s) /\ n = Num(back, T)
    /\ a = Num(bp[b].m_input, T) /\ a2 = Num(r.m_input, T) /\ q = a2 - a
    /\ c = Num(Sets(bp[b]), T) /\ c2 = Num(Sets(r), T) /\ s = c2 - c

\* Every step of a BrokerProducer has such numbers.
LEMMA BrokerDelta ==
  ASSUME Shapes, NEW b \in Brokers, NEW r, NEW back, BrokerShift(b, r, back), NEW T
  PROVE  BrokerSums(b, r, back, T)
<1>1. /\ r \in BrokerShape /\ bp' = [bp EXCEPT ![b] = r] /\ back \in Seq(Back) /\ m_retries' = m_retries \o back
      /\ UNCHANGED <<m_input, topic_input, pp, retry_buf>>
  BY DEF BrokerShift
<1>2. bp[b] \in BrokerShape /\ r \in BrokerProducer
  BY <1>1, BrokerShapeType DEF Shapes
<1>3. PICK n \in Nat : n = Num(back, T)
  BY <1>1, NumPositions
<1>4. PICK a \in Nat, c \in Nat, a2 \in Nat, c2 \in Nat :
        /\ a = Num(bp[b].m_input, T) /\ a2 = Num(r.m_input, T)
        /\ c = Num(Sets(bp[b]), T) /\ c2 = Num(Sets(r), T)
  BY <1>1, <1>2, HeldNat
<1>5. PICK q \in Int, s \in Int : q = a2 - a /\ s = c2 - c
  OBVIOUS
<1>6. a2 = a + q /\ c2 = c + s
  BY <1>5
<1>7. Num(r.m_input, T) = Num(bp[b].m_input, T) + q /\ Num(Sets(r), T) = Num(Sets(bp[b]), T) + s
  BY <1>4, <1>6, Zenon
<1>8. Effect(T, 0, Num(back, T), q, s)
  BY <1>1, <1>2, <1>7, BrokerEffect
<1>9. Effect(T, 0, n, q, s)
  BY <1>3, <1>8, Zenon
<1>10. QED
  BY <1>3, <1>4, <1>5, <1>9, Zenon DEF BrokerSums

\* What the whole pipeline gains by it.
LEMMA BrokerAll ==
  ASSUME Shapes, Shapes', NEW b \in Brokers, NEW r, NEW back, BrokerShift(b, r, back), NEW T
  PROVE  /\ All(T)' + Held(bp[b], T) = All(T) + Num(back, T) + Held(r, T)
         /\ All(T) \in Nat /\ All(T)' \in Nat /\ Held(bp[b], T) \in Nat /\ Held(r, T) \in Nat
         /\ Num(back, T) \in Nat
<1>1. PICK n \in Nat, a \in Nat, c \in Nat, a2 \in Nat, c2 \in Nat : \E q, s \in Int :
           /\ Effect(T, 0, n, q, s) /\ n = Num(back, T)
           /\ a = Num(bp[b].m_input, T) /\ a2 = Num(r.m_input, T) /\ q = a2 - a
           /\ c = Num(Sets(bp[b]), T) /\ c2 = Num(Sets(r), T) /\ s = c2 - c
  BY BrokerDelta DEF BrokerSums
<1>2. PICK q \in Int, s \in Int :
           /\ Effect(T, 0, n, q, s) /\ n = Num(back, T)
           /\ a = Num(bp[b].m_input, T) /\ a2 = Num(r.m_input, T) /\ q = a2 - a
           /\ c = Num(Sets(bp[b]), T) /\ c2 = Num(Sets(r), T) /\ s = c2 - c
  BY <1>1
<1>3. All(T)' = All(T) + 0 + n + q + s
  BY <1>2, EffectAll
<1>4. All(T) \in Nat /\ All(T)' \in Nat
  BY CountsNow, CountsNext DEF Counts
<1>5. PICK x \in Nat, x2 \in Nat : x = All(T) /\ x2 = All(T)'
  BY <1>4
<1>6. x2 = x + 0 + n + q + s
  BY <1>3, <1>5, Zenon
<1>7. x2 + (a + c) = x + n + (a2 + c2) /\ a + c \in Nat /\ a2 + c2 \in Nat
  BY <1>2, <1>6
<1>8. Held(bp[b], T) = a + c /\ Held(r, T) = a2 + c2
  BY <1>2, Zenon DEF Held
<1>9. QED
  BY <1>2, <1>5, <1>7, <1>8, Zenon

\* The chaser of level l, on its way to the BrokerProducer with one retry less, or back.
ChaserPasses(b, r, back, p, l) ==
  Num(r.m_input, Fin(p, l - 1)) + Num(Sets(r), Fin(p, l)) + Num(back, Fin(p, l))
    = Num(bp[b].m_input, Fin(p, l - 1)) + Num(Sets(bp[b]), Fin(p, l))

\* Chasers that pass stay as many.
LEMMA BrokerChasers ==
  ASSUME Shapes, Shapes', NEW b \in Brokers, NEW r, NEW back, BrokerShift(b, r, back), NEW p, NEW l,
         ChaserPasses(b, r, back, p, l)
  PROVE  Chasers(p, l)' = Chasers(p, l)
<1>0. PICK G : G = Fin(p, l)
  OBVIOUS
<1>11. BrokerSums(b, r, back, G)
  BY BrokerDelta
<1>1. PICK n \in Nat, a \in Nat, c \in Nat, a2 \in Nat, c2 \in Nat : \E q, s \in Int :
           /\ Effect(G, 0, n, q, s) /\ n = Num(back, G)
           /\ a = Num(bp[b].m_input, G) /\ a2 = Num(r.m_input, G) /\ q = a2 - a
           /\ c = Num(Sets(bp[b]), G) /\ c2 = Num(Sets(r), G) /\ s = c2 - c
  BY <1>11 DEF BrokerSums
<1>10. PICK q \in Int, s \in Int :
           /\ Effect(G, 0, n, q, s) /\ n = Num(back, G) /\ s = c2 - c
           /\ c = Num(Sets(bp[b]), G) /\ c2 = Num(Sets(r), G)
  BY <1>1
<1>2. /\ Effect(Fin(p, l), 0, n, q, s) /\ n = Num(back, Fin(p, l)) /\ s = c2 - c
      /\ c = Num(Sets(bp[b]), Fin(p, l)) /\ c2 = Num(Sets(r), Fin(p, l))
  BY <1>0, <1>10, Zenon
<1>8. PICK F : F = Fin(p, l - 1)
  OBVIOUS
<1>3. PICK m \in Nat, d \in Nat, e \in Nat, d2 \in Nat, e2 \in Nat : \E u, v \in Int :
           /\ Effect(F, 0, m, u, v) /\ m = Num(back, F)
           /\ d = Num(bp[b].m_input, F) /\ d2 = Num(r.m_input, F) /\ u = d2 - d
           /\ e = Num(Sets(bp[b]), F) /\ e2 = Num(Sets(r), F) /\ v = e2 - e
  BY BrokerDelta DEF BrokerSums
<1>9. PICK u \in Int, v \in Int :
           /\ Effect(F, 0, m, u, v) /\ u = d2 - d
           /\ d = Num(bp[b].m_input, F) /\ d2 = Num(r.m_input, F)
  BY <1>3
<1>4. /\ Effect(Fin(p, l - 1), 0, m, u, v) /\ u = d2 - d
      /\ d = Num(bp[b].m_input, Fin(p, l - 1)) /\ d2 = Num(r.m_input, Fin(p, l - 1))
  BY <1>8, <1>9, Zenon
<1>5. d2 + c2 + n = d + c
  BY <1>2, <1>4, Zenon DEF ChaserPasses
<1>6. 0 + n + u + s = 0
  BY <1>2, <1>4, <1>5
<1>7. QED
  BY <1>2, <1>4, <1>6, ZeroChasers

\* m_in_flight stays exact when it changes by what is held or dropped.
LEMMA BrokerFlight ==
  ASSUME ProducerInv, Shapes', NEW b \in Brokers, NEW r, NEW back, BrokerShift(b, r, back),
         NEW d \in Int, Cardinality(dropped)' = Cardinality(dropped) + d, m_in_flight' \in Int,
         m_in_flight' + Held(bp[b], Message) = m_in_flight + Num(back, Message) + Held(r, Message) + d
  PROVE  InFlightExact'
<1>0. Shapes /\ InFlightExact /\ m_in_flight \in Nat
  BY InFlightNat DEF ProducerInv
<1>1. PICK n \in Nat, a \in Nat, c \in Nat, a2 \in Nat, c2 \in Nat : \E q, s \in Int :
           /\ Effect(Message, 0, n, q, s) /\ n = Num(back, Message)
           /\ a = Num(bp[b].m_input, Message) /\ a2 = Num(r.m_input, Message) /\ q = a2 - a
           /\ c = Num(Sets(bp[b]), Message) /\ c2 = Num(Sets(r), Message) /\ s = c2 - c
  BY <1>0, BrokerDelta DEF BrokerSums
<1>2. PICK q \in Int, s \in Int :
           /\ Effect(Message, 0, n, q, s) /\ n = Num(back, Message)
           /\ a = Num(bp[b].m_input, Message) /\ a2 = Num(r.m_input, Message) /\ q = a2 - a
           /\ c = Num(Sets(bp[b]), Message) /\ c2 = Num(Sets(r), Message) /\ s = c2 - c
  BY <1>1
<1>3. PICK i \in Nat : \E x, y \in Int : Effect(Taken, 0, i, x, y)
  BY ZenonT(60), <1>0, BrokerDelta DEF BrokerSums
<1>4. PICK x \in Int, y \in Int : Effect(Taken, 0, i, x, y)
  BY <1>3
<1>5. pp' = pp
  BY DEF BrokerShift
<1>6. Cardinality(Flushing)' = Cardinality(Flushing) + 0
  BY <1>0, <1>5, SamePartitions, CardinalitiesNat
<1>7. Held(bp[b], Message) = a + c /\ Held(r, Message) = a2 + c2
  BY <1>2, Zenon DEF Held
<1>8. PICK f \in Nat, f2 \in Int : f = m_in_flight /\ f2 = m_in_flight'
  BY <1>0
<1>9. f2 + (a + c) = f + n + (a2 + c2) + d
  BY <1>2, <1>7, <1>8, Zenon
<1>10. f2 = f + 0 + n + q + s + d + 0
  BY <1>2, <1>9
<1>11. m_in_flight' = m_in_flight + 0 + n + q + s + d + 0
  BY <1>8, <1>10, Zenon
<1>12. 0 \in Int
  OBVIOUS
<1>13. QED
  BY <1>0, <1>2, <1>4, <1>6, <1>11, <1>12, KeepInFlight

\* What a step of run() or bridge() does with the items of a BrokerProducer.
Passes(b, r, back, errs, more) ==
  /\ \A id \in 1..MaxSent :
       Held(r, WithId({id})) + Num(back, WithId({id})) + Num(errs, WithId({id})) = Held(bp[b], WithId({id}))
  /\ \A e \in Payload(Place) : Held(r, Older(e)) + Num(back, Older(e)) <= Held(bp[b], Older(e))
  /\ Held(r, Message) + Len(back) + Len(errs) = Held(bp[b], Message) + more
  /\ \A p \in Partitions, l \in 1..RetryMax : ChaserPasses(b, r, back, p, l)

\* A step of run() or bridge() that passes its items on keeps the invariant.
LEMMA BrokerMoved ==
  ASSUME ProducerInv, NEW b \in Brokers, NEW r, NEW back, BrokerShift(b, r, back),
         NEW errs \in Seq(Payload(Place)), NEW more \in Int, Reply(errs, <<>>, more),
         Passes(b, r, back, errs, more), UNCHANGED <<sent, closing, leader, log, dropped>>
  PROVE  ProducerInv'
<1>0. Shapes /\ Expected
  BY DEF ProducerInv
<1>1. /\ m_replies' = Replied(errs, <<>>) /\ m_in_flight' = m_in_flight + more - Len(errs)
      /\ m_in_flight \in Nat /\ Len(errs) \in Nat /\ m_replies' \in [(0..MaxSent) \X BOOLEAN -> Nat]
  <2>1. <<>> \in Seq(Payload(Place)) /\ Len(<<>>) = 0
    BY NoErrors
  <2>2. /\ m_replies' = Replied(errs, <<>>) /\ m_in_flight' = m_in_flight + more - Len(errs) - Len(<<>>)
        /\ m_in_flight \in Nat /\ Len(errs) \in Nat /\ m_replies' \in [(0..MaxSent) \X BOOLEAN -> Nat]
    BY <2>1, ReplyForm, Zenon
  <2>3. QED
    BY <2>1, <2>2
<1>2. /\ r \in BrokerShape /\ bp' = [bp EXCEPT ![b] = r] /\ back \in Seq(Back) /\ m_retries' = m_retries \o back
      /\ UNCHANGED <<m_input, topic_input, pp, retry_buf>>
  BY DEF BrokerShift
<1>3. Shapes'
  <2>1. bp' \in [Brokers -> BrokerShape]
    BY <1>0, <1>2 DEF Shapes
  <2>2. m_retries' \in Seq(Back)
    BY <1>0, <1>2, ConcatProperties DEF Shapes
  <2>3. QED
    BY <1>0, <1>1, <1>2, <2>1, <2>2 DEF Shapes
<1>4. ASSUME NEW T
      PROVE  \E x, x2, h, h2, n \in Nat :
               /\ x = All(T) /\ x2 = All(T)' /\ h = Held(bp[b], T) /\ h2 = Held(r, T) /\ n = Num(back, T)
               /\ x2 + h = x + n + h2
  <2>1. /\ All(T)' + Held(bp[b], T) = All(T) + Num(back, T) + Held(r, T)
        /\ All(T) \in Nat /\ All(T)' \in Nat /\ Held(bp[b], T) \in Nat /\ Held(r, T) \in Nat
        /\ Num(back, T) \in Nat
    BY <1>0, <1>3, BrokerAll, Zenon
  <2>2. PICK x \in Nat, x2 \in Nat : x = All(T) /\ x2 = All(T)'
    BY <2>1, Zenon
  <2>3. PICK h \in Nat, h2 \in Nat, n \in Nat : h = Held(bp[b], T) /\ h2 = Held(r, T) /\ n = Num(back, T)
    BY <2>1, Zenon
  <2>4. x2 + h = x + n + h2
    BY <2>1, <2>2, <2>3, Zenon
  <2>5. QED
    BY <2>2, <2>3, <2>4, ZenonT(60)
<1>5. Balanced(errs)
  <2>1. ASSUME NEW id \in 1..MaxSent PROVE All(WithId({id}))' + Num(errs, WithId({id})) = All(WithId({id}))
    <3>1. PICK x \in Nat, x2 \in Nat, h \in Nat, h2 \in Nat, n \in Nat :
               /\ x = All(WithId({id})) /\ x2 = All(WithId({id}))' /\ h = Held(bp[b], WithId({id}))
               /\ h2 = Held(r, WithId({id})) /\ n = Num(back, WithId({id})) /\ x2 + h = x + n + h2
      BY <1>4
    <3>2. PICK u \in Nat : u = Num(errs, WithId({id}))
      BY NumPositions
    <3>6. Held(r, WithId({id})) + Num(back, WithId({id})) + Num(errs, WithId({id})) = Held(bp[b], WithId({id}))
      BY DEF Passes
    <3>3. h2 + n + u = h
      BY <3>1, <3>2, <3>6
    <3>7. x2 + h = x + n + h2
      BY <3>1, Zenon
    <3>4. x2 + u = x
      BY <3>3, <3>7
    <3>5. QED
      BY <3>1, <3>2, <3>4, Zenon
  <2>2. ASSUME NEW e \in Payload(Place) PROVE All(Older(e))' <= All(Older(e))
    <3>1. PICK x \in Nat, x2 \in Nat, h \in Nat, h2 \in Nat, n \in Nat :
               /\ x = All(Older(e)) /\ x2 = All(Older(e))' /\ h = Held(bp[b], Older(e))
               /\ h2 = Held(r, Older(e)) /\ n = Num(back, Older(e)) /\ x2 + h = x + n + h2
      BY <1>4
    <3>6. Held(r, Older(e)) + Num(back, Older(e)) <= Held(bp[b], Older(e))
      BY DEF Passes
    <3>3. h2 + n <= h
      BY <3>1, <3>6
    <3>7. x2 + h = x + n + h2
      BY <3>1, Zenon
    <3>4. x2 <= x
      BY <3>3, <3>7
    <3>5. QED
      BY <3>1, <3>4, Zenon
  <2>3. QED
    BY <2>1, <2>2, Zenon DEF Balanced
<1>6. InFlightExact'
  <2>1. Cardinality(dropped)' = Cardinality(dropped) + 0
    BY <1>0, CardinalitiesNat
  <2>2. Num(back, Message) = Len(back)
    BY <1>2, ItemSets, NumAll
  <2>3. PICK x \in Nat, x2 \in Nat, h \in Nat, h2 \in Nat, n \in Nat :
               /\ x = All(Message) /\ x2 = All(Message)' /\ h = Held(bp[b], Message)
               /\ h2 = Held(r, Message) /\ n = Num(back, Message) /\ x2 + h = x + n + h2
    BY <1>4
  <2>4. PICK f \in Nat, u \in Nat : f = m_in_flight /\ u = Len(errs)
    BY <1>1
  <2>5. h2 + n + u = h + more
    BY <2>2, <2>3, <2>4, Zenon DEF Passes
  <2>6. m_in_flight' = f + more - u
    BY <1>1, <2>4, Zenon
  <2>7. f + more - u \in Int /\ (f + more - u) + h = f + n + h2 + 0
    BY <2>5
  <2>8. m_in_flight' \in Int
    BY <2>6, <2>7, Zenon
  <2>9. m_in_flight' + Held(bp[b], Message) = m_in_flight + Num(back, Message) + Held(r, Message) + 0
    BY <2>3, <2>4, <2>6, <2>7, Zenon
  <2>10. 0 \in Int
    OBVIOUS
  <2>11. QED
    BY <1>3, <2>1, <2>8, <2>9, <2>10, BrokerFlight, Zenon
<1>7. Expected'
  <2>1. ASSUME NEW p \in Partitions, NEW l \in 1..RetryMax PROVE Chasers(p, l)' = Chasers(p, l)
    <3>1. ChaserPasses(b, r, back, p, l)
      BY Zenon DEF Passes
    <3>2. QED
      BY <1>0, <1>3, <3>1, BrokerChasers, ZenonT(60)
  <2>2. QED
    BY <1>0, <1>2, <2>1, KeepExpected, Zenon
<1>8. \A p \in Partitions : Watermark(p, pp'[p])
  BY <1>2, SameWatermark
<1>9. QED
  BY <1>1, <1>3, <1>5, <1>6, <1>7, <1>8, AnswerStep, Zenon

\* The batches of a BrokerProducer, counted.
LEMMA SetsCount ==
  ASSUME NEW r \in BrokerShape
  PROVE  /\ FlattenSeq(r.m_output) \in Seq(Payload(Partitions))
         /\ \A T : /\ Num(Sets(r), T) = Num(r.flight, T) + Num(FlattenSeq(r.m_output), T) + Num(r.m_buffer, T)
                   /\ Num(r.flight, T) \in Nat /\ Num(FlattenSeq(r.m_output), T) \in Nat
                   /\ Num(r.m_buffer, T) \in Nat
<1>1. r \in BrokerProducer
  BY BrokerShapeType
<1>2. \A T : Num(Sets(r), T) = Num(r.flight, T) + Num(FlattenSeq(r.m_output), T) + Num(r.m_buffer, T)
  BY <1>1, SetsType
<1>3. /\ r.flight \in Seq(Payload(Partitions)) /\ r.m_output \in Seq(Seq(Payload(Partitions)))
      /\ r.m_buffer \in Seq(Payload(Partitions))
  BY DEF BrokerShape
<1>4. FlattenSeq(r.m_output) \in Seq(Payload(Partitions))
  BY <1>3, FlatPush, EmptySeq
<1>5. \A T : Num(r.flight, T) \in Nat /\ Num(FlattenSeq(r.m_output), T) \in Nat /\ Num(r.m_buffer, T) \in Nat
  BY <1>3, <1>4, NumPositions
<1>6. QED
  BY <1>2, <1>4, <1>5, Zenon

\* The items of T in the sets a BrokerProducer has made, and in its buffer.
Made(out, buffer, T) == Num(FlattenSeq(out), T) + Num(buffer, T)

\* A batch that is closed keeps its messages.
LEMMA MadePush ==
  ASSUME NEW out \in Seq(Seq(Payload(Partitions))), NEW buffer \in Seq(Payload(Partitions)), NEW T
  PROVE  /\ Made(Append(out, buffer), <<>>, T) = Made(out, buffer, T) /\ Made(out, buffer, T) \in Nat
         /\ Num(FlattenSeq(out), T) \in Nat
         /\ Num(FlattenSeq(Append(out, buffer)), T) = Num(FlattenSeq(out), T) + Num(buffer, T)
<1>1. FlattenSeq(out) \in Seq(Payload(Partitions)) /\ FlattenSeq(Append(out, buffer)) = FlattenSeq(out) \o buffer
  BY FlatPush
<1>2. Num(FlattenSeq(out) \o buffer, T) = Num(FlattenSeq(out), T) + Num(buffer, T)
  BY <1>1, NumConcat
<1>3. PICK a \in Nat, c \in Nat : a = Num(FlattenSeq(out), T) /\ c = Num(buffer, T)
  BY <1>1, NumPositions
<1>4. Num(FlattenSeq(Append(out, buffer)), T) = a + c /\ Num(<<>>, T) = 0
  BY <1>1, <1>2, <1>3, NumEmpty, Zenon
<1>5. (a + c) + 0 = a + c /\ a + c \in Nat
  OBVIOUS
<1>6. QED
  BY <1>3, <1>4, <1>5, Zenon DEF Made

\* What buffering a message does, with the batch before it closed or not.
LEMMA BufferedShape ==
  ASSUME NEW r \in BrokerShape, NEW m \in Payload(Partitions), NEW over \in BOOLEAN, NEW q, q = Buffered(r, m, over)
  PROVE  /\ q \in BrokerShape /\ q.m_input = r.m_input
         /\ \A T : Num(Sets(q), T) = Num(Sets(r), T) + One(m, T)
<1>0. /\ r.m_output \in Seq(Seq(Payload(Partitions))) /\ r.m_buffer \in Seq(Payload(Partitions))
      /\ <<m>> \in Seq(Payload(Partitions)) /\ <<>> \in Seq(Payload(Partitions))
  BY DEF BrokerShape
<1>1. PICK out : out = IF over THEN Append(r.m_output, r.m_buffer) ELSE r.m_output
  OBVIOUS
<1>2. PICK buffer : buffer = IF over THEN <<m>> ELSE Append(r.m_buffer, m)
  OBVIOUS
<1>3. out \in Seq(Seq(Payload(Partitions))) /\ buffer \in Seq(Payload(Partitions))
  <2>1. Append(r.m_output, r.m_buffer) \in Seq(Seq(Payload(Partitions)))
    BY <1>0, AppendProperties, Zenon
  <2>2. Append(r.m_buffer, m) \in Seq(Payload(Partitions))
    BY <1>0
  <2>3. QED
    BY <1>0, <1>1, <1>2, <2>1, <2>2, Zenon
<1>4. ASSUME NEW T PROVE Made(out, buffer, T) = Made(r.m_output, r.m_buffer, T) + One(m, T)
  <2>1. CASE over
    <3>1. out = Append(r.m_output, r.m_buffer) /\ buffer = <<m>>
      BY <1>1, <1>2, <2>1
    <3>2. Num(FlattenSeq(Append(r.m_output, r.m_buffer)), T) = Made(r.m_output, r.m_buffer, T)
      BY <1>0, MadePush, Zenon DEF Made
    <3>3. Num(<<m>>, T) = One(m, T)
      BY NumOne
    <3>4. QED
      BY <3>1, <3>2, <3>3, Zenon DEF Made
  <2>2. CASE ~over
    <3>1. out = r.m_output /\ buffer = Append(r.m_buffer, m)
      BY <1>1, <1>2, <2>2
    <3>2. Num(Append(r.m_buffer, m), T) = Num(r.m_buffer, T) + One(m, T)
      BY <1>0, NumPush
    <3>3. PICK a \in Nat, c \in Nat, o \in Int : a = Num(FlattenSeq(r.m_output), T) /\ c = Num(r.m_buffer, T) /\ o = One(m, T)
      BY SetsCount, OneInt
    <3>4. a + (c + o) = (a + c) + o
      OBVIOUS
    <3>5. QED
      BY <3>1, <3>2, <3>3, <3>4, Zenon DEF Made
  <2>3. QED
    BY <2>1, <2>2
<1>5. q = IF ReadyToFlush(buffer) THEN [r EXCEPT !.m_output = Append(out, buffer), !.m_buffer = <<>>]
          ELSE [r EXCEPT !.m_output = out, !.m_buffer = buffer]
  BY <1>1, <1>2, Zenon DEF Buffered
<1>6. PICK y, z : y = Append(out, buffer) /\ z = <<>>
  OBVIOUS
<1>7. y \in Seq(Seq(Payload(Partitions))) /\ z \in Seq(Payload(Partitions))
  BY <1>0, <1>3, <1>6, AppendProperties, Zenon
<1>8. ASSUME NEW u \in Seq(Seq(Payload(Partitions))), NEW v \in Seq(Payload(Partitions)),
             q = [r EXCEPT !.m_output = u, !.m_buffer = v], \A T : Made(u, v, T) = Made(out, buffer, T)
      PROVE  /\ q \in BrokerShape /\ q.m_input = r.m_input
             /\ \A T : Num(Sets(q), T) = Num(Sets(r), T) + One(m, T)
  <2>1. /\ q \in BrokerShape /\ q.m_input = r.m_input /\ q.flight = r.flight
        /\ q.m_output = u /\ q.m_buffer = v
    BY <1>8 DEF BrokerShape
  <2>2. ASSUME NEW T PROVE Num(Sets(q), T) = Num(Sets(r), T) + One(m, T)
    <3>1. Num(Sets(q), T) = Num(q.flight, T) + Num(FlattenSeq(q.m_output), T) + Num(q.m_buffer, T)
      BY <2>1, SetsCount
    <3>2. Num(Sets(r), T) = Num(r.flight, T) + Num(FlattenSeq(r.m_output), T) + Num(r.m_buffer, T)
      BY SetsCount
    <3>11. Num(r.flight, T) \in Nat /\ Num(FlattenSeq(r.m_output), T) \in Nat /\ Num(r.m_buffer, T) \in Nat
      BY SetsCount
    <3>3. PICK f \in Nat, a \in Nat, c \in Nat, o \in Int :
            /\ f = Num(r.flight, T) /\ a = Num(FlattenSeq(r.m_output), T) /\ c = Num(r.m_buffer, T) /\ o = One(m, T)
      BY <3>11, OneInt
    <3>10. Num(FlattenSeq(q.m_output), T) \in Nat /\ Num(q.m_buffer, T) \in Nat
      BY <2>1, SetsCount
    <3>4. PICK a2 \in Nat, c2 \in Nat : a2 = Num(FlattenSeq(u), T) /\ c2 = Num(v, T)
      BY <2>1, <3>10, Zenon
    <3>8. Made(u, v, T) = Made(r.m_output, r.m_buffer, T) + One(m, T)
      BY <1>4, <1>8, Zenon
    <3>9. Made(u, v, T) = a2 + c2 /\ Made(r.m_output, r.m_buffer, T) = a + c
      BY <3>3, <3>4, Zenon DEF Made
    <3>5. a2 + c2 = (a + c) + o
      BY <3>3, <3>8, <3>9, Zenon
    <3>6. f + a2 + c2 = (f + a + c) + o
      BY <3>5
    <3>7. QED
      BY <2>1, <3>1, <3>2, <3>3, <3>4, <3>6, Zenon
  <2>3. QED
    BY <2>1, <2>2
<1>9. CASE ReadyToFlush(buffer)
  <2>1. q = [r EXCEPT !.m_output = y, !.m_buffer = z]
    BY <1>5, <1>6, <1>9, Zenon
  <2>2. \A T : Made(y, z, T) = Made(out, buffer, T)
    BY <1>3, <1>6, MadePush, Zenon
  <2>3. QED
    BY <1>7, <1>8, <2>1, <2>2, Zenon
<1>10. CASE ~ReadyToFlush(buffer)
  <2>1. q = [r EXCEPT !.m_output = out, !.m_buffer = buffer]
    BY <1>5, <1>10, Zenon
  <2>2. QED
    BY <1>3, <1>8, <2>1, Zenon
<1>11. QED
  BY <1>9, <1>10

\* run() takes the first item of its queue.
RunTakes(b, q) == bp[b].m_input # <<>> /\ q \in BrokerShape /\ q.m_input = Tail(bp[b].m_input)

\* The first item of a BrokerProducer's queue.
LEMMA TakenItem ==
  ASSUME Shapes, NEW b \in Brokers, NEW q, RunTakes(b, q), NEW m, m = Head(bp[b].m_input)
  PROVE  /\ m \in Going
         /\ \A T : Num(bp[b].m_input, T) = One(m, T) + Num(q.m_input, T) /\ Num(q.m_input, T) \in Nat
<1>1. bp[b].m_input \in Seq(Going) /\ bp[b].m_input # <<>> /\ q.m_input = Tail(bp[b].m_input)
  BY DEF Shapes, BrokerShape, RunTakes
<1>2. m \in Going
  BY <1>1, HeadFirst, Zenon
<1>3. \A T : Num(bp[b].m_input, T) = One(m, T) + Num(q.m_input, T)
  BY <1>1, NumPop, Zenon
<1>4. \A T : Num(q.m_input, T) \in Nat
  BY HeldNat DEF RunTakes
<1>5. QED
  BY <1>2, <1>3, <1>4

\* The item m becomes ms.
Becomes(m, ms, more) ==
  /\ \A id \in 1..MaxSent : Num(ms, WithId({id})) = One(m, WithId({id}))
  /\ \A e \in Payload(Place) : Num(ms, Younger(e)) <= One(m, Older(e))
  /\ Len(ms) = 1 + more
  /\ \A p : \A l \in 1..RetryMax : Num(ms, Fin(p, l - 1)) = One(m, Fin(p, l - 1))

\* run() sends the item, or what it became, to retry_message.
LEMMA RunRetries ==
  ASSUME ProducerInv, NEW b \in Brokers, NEW q, RunTakes(b, q), NEW m, m = Head(bp[b].m_input),
         q.flight = bp[b].flight, q.m_output = bp[b].m_output, q.m_buffer = bp[b].m_buffer,
         bp' = [bp EXCEPT ![b] = q], NEW more \in Int, NEW ms \in Seq(Turn), Becomes(m, ms, more),
         RetryMessages(ms, <<>>, more),
         UNCHANGED <<sent, m_input, topic_input, pp, retry_buf, closing, leader, log, dropped>>
  PROVE  ProducerInv'
<1>0. Shapes
  BY DEF ProducerInv
<1>1. /\ m \in Going
      /\ \A T : Num(bp[b].m_input, T) = One(m, T) + Num(q.m_input, T) /\ Num(q.m_input, T) \in Nat
  BY <1>0, TakenItem
<1>2. PICK back, errs : back = Retried(ms) /\ errs = GivenUp(ms)
  OBVIOUS
<1>3. back \in Seq(Back) /\ errs \in Seq(Payload(Partitions))
  BY <1>2, RetriedItems, Zenon
<1>4. errs \in Seq(Payload(Place))
  BY <1>3, ItemSets, SeqWiden
<1>5. m_retries' = m_retries \o back /\ Reply(errs, <<>>, more)
  BY <1>2, Zenon DEF RetryMessages
<1>6. BrokerShift(b, q, back)
  BY <1>3, <1>5 DEF BrokerShift, RunTakes
<1>7. \A T : Num(Sets(q), T) = Num(Sets(bp[b]), T) /\ Num(Sets(q), T) \in Nat
  <2>1. Sets(q) = Sets(bp[b])
    BY Zenon DEF Sets
  <2>2. \A T : Num(Sets(q), T) \in Nat
    BY HeldNat DEF RunTakes
  <2>3. QED
    BY <2>1, <2>2, Zenon
<1>8. /\ Len(back) + Len(errs) = Len(ms) /\ Len(back) \in Nat /\ Len(errs) \in Nat
      /\ \A id \in 1..MaxSent : Num(back, WithId({id})) + Num(errs, WithId({id})) = Num(ms, WithId({id}))
      /\ \A e \in Payload(Place) : Num(back, Older(e)) <= Num(ms, Younger(e))
      /\ \A p : \A l \in 1..RetryMax : Num(back, Fin(p, l)) = Num(ms, Fin(p, l - 1))
  BY <1>2, RetriedCounts, Zenon
<1>9. ASSUME NEW T
      PROVE  \E h, h2 \in Nat : \E o \in {0, 1} :
               /\ h = Held(bp[b], T) /\ h2 = Held(q, T) /\ o = One(m, T) /\ h = h2 + o
  <2>1. PICK a \in Nat, c \in Nat, o \in {0, 1} : a = Num(q.m_input, T) /\ c = Num(Sets(q), T) /\ o = One(m, T)
    BY <1>1, <1>7, OneInt
  <2>2. Held(q, T) = a + c /\ Held(bp[b], T) = (o + a) + c
    BY <1>1, <1>7, <2>1, Zenon DEF Held
  <2>3. (o + a) + c = (a + c) + o /\ a + c \in Nat /\ (o + a) + c \in Nat
    OBVIOUS
  <2>4. QED
    BY <2>1, <2>2, <2>3, Zenon
<1>10. Passes(b, q, back, errs, more)
  <2>1. ASSUME NEW id \in 1..MaxSent
        PROVE  Held(q, WithId({id})) + Num(back, WithId({id})) + Num(errs, WithId({id})) = Held(bp[b], WithId({id}))
    <3>1. PICK h \in Nat, h2 \in Nat, o \in {0, 1} :
               /\ h = Held(bp[b], WithId({id})) /\ h2 = Held(q, WithId({id})) /\ o = One(m, WithId({id})) /\ h = h2 + o
      BY <1>9
    <3>2. PICK u \in Nat, v \in Nat : u = Num(back, WithId({id})) /\ v = Num(errs, WithId({id}))
      BY <1>3, NumPositions
    <3>3. u + v = o
      BY <1>8, <3>1, <3>2, Zenon DEF Becomes
    <3>4. h2 + u + v = h
      <4>1. h = h2 + o
        BY <3>1, Zenon
      <4>2. QED
        BY <3>3, <4>1
    <3>5. QED
      BY <3>1, <3>2, <3>4, Zenon
  <2>2. ASSUME NEW e \in Payload(Place) PROVE Held(q, Older(e)) + Num(back, Older(e)) <= Held(bp[b], Older(e))
    <3>1. PICK h \in Nat, h2 \in Nat, o \in {0, 1} :
               /\ h = Held(bp[b], Older(e)) /\ h2 = Held(q, Older(e)) /\ o = One(m, Older(e)) /\ h = h2 + o
      BY <1>9
    <3>2. PICK u \in Nat, v \in Nat : u = Num(back, Older(e)) /\ v = Num(ms, Younger(e))
      BY <1>3, NumPositions
    <3>3. u <= v /\ v <= o
      BY <1>8, <3>1, <3>2, Zenon DEF Becomes
    <3>4. h2 + u <= h
      <4>1. h = h2 + o
        BY <3>1, Zenon
      <4>2. QED
        BY <3>3, <4>1
    <3>5. QED
      BY <3>1, <3>2, <3>4, Zenon
  <2>3. Held(q, Message) + Len(back) + Len(errs) = Held(bp[b], Message) + more
    <3>1. PICK h \in Nat, h2 \in Nat, o \in {0, 1} :
               /\ h = Held(bp[b], Message) /\ h2 = Held(q, Message) /\ o = One(m, Message) /\ h = h2 + o
      BY <1>9
    <3>2. m \in Message
      BY <1>1, ItemSets
    <3>3. o = 1
      BY <3>1, <3>2, Zenon DEF One
    <3>4. PICK u \in Nat, v \in Nat : u = Len(back) /\ v = Len(errs)
      BY <1>8
    <3>5. u + v = 1 + more
      BY <1>8, <3>4, Zenon DEF Becomes
    <3>6. h = h2 + 1
      BY <3>1, <3>3, Zenon
    <3>7. h2 + u + v = h + more
      BY <3>5, <3>6
    <3>8. QED
      BY <3>1, <3>4, <3>7, Zenon
  <2>4. ASSUME NEW p \in Partitions, NEW l \in 1..RetryMax PROVE ChaserPasses(b, q, back, p, l)
    <3>1. PICK F, G : F = Fin(p, l - 1) /\ G = Fin(p, l)
      OBVIOUS
    <3>2. PICK a \in Nat, a2 \in Nat, o \in {0, 1} : a = Num(bp[b].m_input, F) /\ a2 = Num(q.m_input, F) /\ o = One(m, F) /\ a = o + a2
      <4>1. PICK a2 \in Nat, o \in {0, 1} : a2 = Num(q.m_input, F) /\ o = One(m, F)
        BY <1>1, OneInt
      <4>2. o + a2 \in Nat
        OBVIOUS
      <4>3. QED
        BY <1>1, <4>1, <4>2, Zenon
    <3>3. PICK c \in Nat : c = Num(Sets(q), G)
      BY <1>7
    <3>4. Num(Sets(bp[b]), G) = c
      BY <1>7, <3>3, Zenon
    <3>5. Num(back, G) = o
      BY <1>8, <3>1, <3>2, Zenon DEF Becomes
    <3>6. a = o + a2
      BY <3>2, Zenon
    <3>7. a2 + c + o = a + c
      BY <3>6
    <3>8. QED
      BY <3>1, <3>2, <3>3, <3>4, <3>5, <3>7, Zenon DEF ChaserPasses
  <2>5. QED
    BY <2>1, <2>2, <2>3, <2>4, Zenon DEF Passes
<1>11. QED
  BY <1>4, <1>5, <1>6, <1>10, BrokerMoved, Zenon

\* q is r with m in its buffer.
BufferedAs(r, m, q) == \E over \in BOOLEAN : q = Buffered(r, m, over)

\* run() puts a message into its buffer.
LEMMA RunBuffers ==
  ASSUME ProducerInv, NEW b \in Brokers, NEW r, RunTakes(b, r), NEW m, m = Head(bp[b].m_input),
         r.flight = bp[b].flight, r.m_output = bp[b].m_output, r.m_buffer = bp[b].m_buffer,
         m \in Payload(Partitions), NEW q, BufferedAs(r, m, q),
         bp' = [bp EXCEPT ![b] = q], RetryMessages(<<>>, <<>>, 0),
         UNCHANGED <<sent, m_input, topic_input, pp, retry_buf, closing, leader, log, dropped>>
  PROVE  ProducerInv'
<1>0. Shapes /\ r \in BrokerShape
  BY DEF ProducerInv, RunTakes
<1>1. \A T : Num(bp[b].m_input, T) = One(m, T) + Num(r.m_input, T) /\ Num(r.m_input, T) \in Nat
  BY <1>0, TakenItem
<1>2. q \in BrokerShape /\ q.m_input = r.m_input /\ \A T : Num(Sets(q), T) = Num(Sets(r), T) + One(m, T)
  <2>1. PICK over \in BOOLEAN : q = Buffered(r, m, over)
    BY Zenon DEF BufferedAs
  <2>2. QED
    BY <1>0, <2>1, BufferedShape
<1>3. \A T : Num(Sets(bp[b]), T) = Num(Sets(r), T) /\ Num(Sets(r), T) \in Nat
  <2>1. Sets(r) = Sets(bp[b])
    BY Zenon DEF Sets
  <2>2. QED
    BY <1>0, <2>1, HeldNat, Zenon
<1>4. /\ m_retries' = m_retries \o <<>> /\ Reply(<<>>, <<>>, 0) /\ <<>> \in Seq(Back)
  <2>1. m_retries' = m_retries \o Retried(<<>>) /\ Reply(GivenUp(<<>>), <<>>, 0)
    BY Zenon DEF RetryMessages
  <2>2. <<>> \in Seq(Back)
    OBVIOUS
  <2>3. QED
    BY <2>1, <2>2, RetriedNone, Zenon
<1>5. BrokerShift(b, q, <<>>)
  BY <1>2, <1>4 DEF BrokerShift
<1>6. ASSUME NEW T PROVE Held(q, T) = Held(bp[b], T) /\ Held(q, T) \in Nat
  <2>1. PICK a \in Nat, c \in Nat, o \in {0, 1} : a = Num(r.m_input, T) /\ c = Num(Sets(r), T) /\ o = One(m, T)
    BY <1>1, <1>3, OneInt
  <2>2. Num(q.m_input, T) = a /\ Num(Sets(q), T) = c + o
    BY <1>2, <2>1, Zenon
  <2>3. Num(bp[b].m_input, T) = o + a /\ Num(Sets(bp[b]), T) = c
    BY <1>1, <1>3, <2>1, Zenon
  <2>4. a + (c + o) = (o + a) + c /\ a + (c + o) \in Nat
    OBVIOUS
  <2>5. QED
    BY <2>2, <2>3, <2>4, Zenon DEF Held
<1>7. \A T : Num(<<>>, T) = 0
  BY NumEmpty
<1>8. Passes(b, q, <<>>, <<>>, 0)
  <2>1. ASSUME NEW T PROVE /\ Held(q, T) + Num(<<>>, T) + Num(<<>>, T) = Held(bp[b], T)
                           /\ Held(q, T) + Num(<<>>, T) <= Held(bp[b], T)
                           /\ Held(q, T) + 0 + 0 = Held(bp[b], T) + 0
    <3>1. PICK h \in Nat : h = Held(q, T)
      BY <1>6, Zenon
    <3>2. h = Held(bp[b], T) /\ Num(<<>>, T) = 0
      BY <1>6, <1>7, <3>1, Zenon
    <3>3. h + 0 + 0 = h /\ h + 0 <= h /\ h + 0 + 0 = h + 0
      OBVIOUS
    <3>4. QED
      BY <3>1, <3>2, <3>3, Zenon
  <2>2. Len(<<>>) = 0
    OBVIOUS
  <2>3. ASSUME NEW p \in Partitions, NEW l \in 1..RetryMax PROVE ChaserPasses(b, q, <<>>, p, l)
    <3>1. PICK F, G : F = Fin(p, l - 1) /\ G = Fin(p, l)
      OBVIOUS
    <3>2. One(m, F) = 0 /\ One(m, G) = 0
      <4>1. m \in Payload(Place)
        BY ItemSets
      <4>2. QED
        BY <3>1, <4>1, OnePayload
    <3>3. PICK a \in Nat, c \in Nat : a = Num(r.m_input, F) /\ c = Num(Sets(r), G)
      BY <1>1, <1>3
    <3>4. Num(q.m_input, F) = a /\ Num(Sets(q), G) = c + 0 /\ Num(<<>>, G) = 0
      BY <1>2, <1>7, <3>2, <3>3, Zenon
    <3>5. Num(bp[b].m_input, F) = 0 + a /\ Num(Sets(bp[b]), G) = c
      BY <1>1, <1>3, <3>2, <3>3, Zenon
    <3>6. a + (c + 0) + 0 = (0 + a) + c
      OBVIOUS
    <3>7. QED
      BY <3>1, <3>4, <3>5, <3>6, Zenon DEF ChaserPasses
  <2>4. QED
    BY <2>1, <2>2, <2>3, Zenon DEF Passes
<1>9. <<>> \in Seq(Payload(Place)) /\ 0 \in Int
  OBVIOUS
<1>10. QED
  BY <1>4, <1>5, <1>8, <1>9, BrokerMoved, Zenon

\* The branches of run(), r being the BrokerProducer without the item m.
RunCases(b, r, m) ==
  \/ /\ m.kind = "syn"
     /\ bp' = [bp EXCEPT ![b] = [r EXCEPT !.m_current_retries[m.part] = "ok"]]
     /\ RetryMessages(<<>>, <<>>, -1)
  \/ /\ m.kind = "fin"
     /\ bp' = [bp EXCEPT ![b] = [r EXCEPT !.m_current_retries[m.part] =
                                              IF r.m_current_retries[m.part] = "err" THEN "none" ELSE @]]
     /\ RetryMessages(<<m>>, <<>>, 0)
  \/ /\ m.kind = "msg" /\ r.m_current_retries[m.part] = "err"
     /\ bp' = [bp EXCEPT ![b] = r]
     /\ RetryMessages(<<m>>, <<>>, 0)
  \/ /\ m.kind = "msg" /\ ~(r.m_current_retries[m.part] = "err")
     /\ \E over \in {FALSE, r.m_buffer # <<>>} : bp' = [bp EXCEPT ![b] = Buffered(r, m, over)]
     /\ RetryMessages(<<>>, <<>>, 0)

\* run() is one of its branches.
LEMMA RunIsCases ==
  ASSUME NEW b, Run(b)
  PROVE  RunCases(b, [bp[b] EXCEPT !.m_input = Tail(@)], Head(bp[b].m_input))
BY Zenon DEF Run, RunCases

\* run(): a syn, a chaser, a message that goes back, a message that is buffered.
LEMMA RunStep ==
  ASSUME ProducerInv, NEW b \in Brokers, Run(b)
  PROVE  ProducerInv'
<1>0. Shapes
  BY DEF ProducerInv
<1>1. PICK m : m = Head(bp[b].m_input)
  OBVIOUS
<1>2. PICK r : r = [bp[b] EXCEPT !.m_input = Tail(@)]
  OBVIOUS
<1>3. bp[b].m_input # <<>> /\ UNCHANGED <<sent, m_input, topic_input, pp, retry_buf, closing, leader, log, dropped>>
  BY DEF Run, worldVars
<1>4. bp[b] \in BrokerShape
  BY <1>0 DEF Shapes
<1>5. bp[b].m_input \in Seq(Going) /\ Tail(bp[b].m_input) \in Seq(Going)
  BY <1>3, <1>4 DEF BrokerShape
<1>6. r \in BrokerShape /\ r.m_input = Tail(bp[b].m_input) /\ r.m_current_retries = bp[b].m_current_retries
  BY <1>2, <1>4, <1>5 DEF BrokerShape
<1>7. r.flight = bp[b].flight /\ r.m_output = bp[b].m_output /\ r.m_buffer = bp[b].m_buffer
  BY <1>2, <1>4 DEF BrokerShape
<1>8. RunTakes(b, r)
  BY <1>3, <1>6 DEF RunTakes
<1>9. m \in Going
  BY <1>0, <1>1, <1>8, TakenItem
<1>10. m.part \in Partitions
  BY <1>9 DEF Going, Payload, Leaving, Syn
<1>11. ASSUME NEW c \in {"none", "ok", "err"}, NEW q, q = [r EXCEPT !.m_current_retries[m.part] = c]
       PROVE  /\ RunTakes(b, q)
              /\ q.flight = bp[b].flight /\ q.m_output = bp[b].m_output /\ q.m_buffer = bp[b].m_buffer
  BY <1>3, <1>6, <1>7, <1>10, <1>11 DEF RunTakes, BrokerShape
<1>12. ASSUME NEW n, m \in Turn PROVE /\ <<m>> \in Seq(Turn) /\ Becomes(m, <<m>>, 0)
  <2>1. <<m>> \in Seq(Turn) /\ Len(<<m>>) = 1 + 0
    BY <1>12
  <2>2. \A T : Num(<<m>>, T) = One(m, T)
    BY NumOne
  <2>3. ASSUME NEW e \in Payload(Place) PROVE Num(<<m>>, Younger(e)) <= One(m, Older(e))
    <3>1. m \in Younger(e) => m \in Older(e)
      <4>1. m \in Message
        BY <1>12, TurnType
      <4>2. m.retries \in Int /\ e.retries \in Int
        BY <4>1, KafkaProducerAssumption DEF Message, Payload, Level
      <4>3. QED
        BY <4>1, <4>2 DEF Younger, Older
    <3>2. One(m, Younger(e)) <= One(m, Older(e))
      BY <3>1 DEF One
    <3>3. QED
      BY <2>2, <3>2, Zenon
  <2>4. QED
    BY <2>1, <2>2, <2>3, Zenon DEF Becomes
<1>13. CASE m.kind = "syn" /\ bp' = [bp EXCEPT ![b] = [r EXCEPT !.m_current_retries[m.part] = "ok"]]
              /\ RetryMessages(<<>>, <<>>, -1)
  <2>1. PICK q : q = [r EXCEPT !.m_current_retries[m.part] = "ok"]
    OBVIOUS
  <2>2. m \in Syn /\ m \in Marks
    BY <1>9, <1>13 DEF Going, Payload, Leaving, Marks
  <2>3. Becomes(m, <<>>, -1)
    <3>1. \A T : Num(<<>>, T) = 0
      BY NumEmpty
    <3>2. /\ \A id \in 1..MaxSent : One(m, WithId({id})) = 0
          /\ \A p, l : One(m, Fin(p, l)) = 0
      BY <2>2, OneMark, OneOther
    <3>3. \A e \in Payload(Place) : 0 <= One(m, Older(e))
      BY OneInt
    <3>4. Len(<<>>) = 1 + -1
      OBVIOUS
    <3>5. QED
      BY <3>1, <3>2, <3>3, <3>4, Zenon DEF Becomes
  <2>4. /\ RunTakes(b, q)
        /\ q.flight = bp[b].flight /\ q.m_output = bp[b].m_output /\ q.m_buffer = bp[b].m_buffer
    <3>1. "ok" \in {"none", "ok", "err"}
      OBVIOUS
    <3>2. QED
      BY <1>11, <2>1, <3>1
  <2>5. bp' = [bp EXCEPT ![b] = q] /\ RetryMessages(<<>>, <<>>, -1) /\ <<>> \in Seq(Turn) /\ -1 \in Int
    BY <1>13, <2>1
  <2>6. QED
    BY <1>1, <1>3, <2>3, <2>4, <2>5, RunRetries, Zenon
<1>14. CASE m.kind = "fin" /\ RetryMessages(<<m>>, <<>>, 0)
              /\ bp' = [bp EXCEPT ![b] = [r EXCEPT !.m_current_retries[m.part] =
                                             IF r.m_current_retries[m.part] = "err" THEN "none" ELSE @]]
  <2>1. PICK c : c = IF r.m_current_retries[m.part] = "err" THEN "none" ELSE r.m_current_retries[m.part]
    OBVIOUS
  <2>2. c \in {"none", "ok", "err"}
    BY <1>6, <1>10, <2>1 DEF BrokerShape
  <2>3. PICK q : q = [r EXCEPT !.m_current_retries[m.part] = c]
    OBVIOUS
  <2>4. bp' = [bp EXCEPT ![b] = q]
    BY <1>14, <2>1, <2>3
  <2>5. /\ RunTakes(b, q)
        /\ q.flight = bp[b].flight /\ q.m_output = bp[b].m_output /\ q.m_buffer = bp[b].m_buffer
    BY <1>11, <2>2, <2>3
  <2>6. m \in Turn
    BY <1>9, <1>14 DEF Going, Payload, Syn, Turn
  <2>7. <<m>> \in Seq(Turn) /\ Becomes(m, <<m>>, 0) /\ 0 \in Int
    BY <1>12, <2>6
  <2>8. QED
    BY <1>1, <1>3, <1>14, <2>4, <2>5, <2>7, RunRetries, ZenonT(60)
<1>15. CASE m.kind = "msg" /\ bp' = [bp EXCEPT ![b] = r] /\ RetryMessages(<<m>>, <<>>, 0)
  <2>6. m \in Turn
    BY <1>9, <1>15 DEF Going, Leaving, Syn, Turn
  <2>7. <<m>> \in Seq(Turn) /\ Becomes(m, <<m>>, 0) /\ 0 \in Int
    BY <1>12, <2>6
  <2>8. QED
    BY <1>1, <1>3, <1>7, <1>8, <1>15, <2>7, RunRetries, Zenon
<1>16. ASSUME m.kind = "msg", NEW over \in BOOLEAN, bp' = [bp EXCEPT ![b] = Buffered(r, m, over)],
              RetryMessages(<<>>, <<>>, 0)
       PROVE  ProducerInv'
  <2>1. PICK q : q = Buffered(r, m, over)
    OBVIOUS
  <2>2. m \in Payload(Partitions)
    BY <1>9, <1>16 DEF Going, Leaving, Syn
  <2>3. bp' = [bp EXCEPT ![b] = q]
    BY <1>16, <2>1, Zenon
  <2>4. BufferedAs(r, m, q)
    BY <2>1, Zenon DEF BufferedAs
  <2>5. QED
    BY <1>1, <1>3, <1>7, <1>8, <1>16, <2>2, <2>3, <2>4, RunBuffers, Zenon
<1>17. \A x : {FALSE, x # <<>>} \subseteq BOOLEAN
  OBVIOUS
<1>18. QED
  <2>1. RunCases(b, r, m)
    BY <1>1, <1>2, RunIsCases, Zenon
  <2>2. ASSUME m.kind = "msg", RetryMessages(<<>>, <<>>, 0),
               \E over \in {FALSE, r.m_buffer # <<>>} : bp' = [bp EXCEPT ![b] = Buffered(r, m, over)]
        PROVE  ProducerInv'
    BY <1>16, <1>17, <2>2, Zenon
  <2>3. QED
    BY <1>13, <1>14, <1>15, <2>1, <2>2, Zenon DEF RunCases

\* bridge(): the first batch is sent.
LEMMA BridgeStep ==
  ASSUME ProducerInv, NEW b \in Brokers, Bridge(b)
  PROVE  ProducerInv'
<1>0. Shapes
  BY DEF ProducerInv
<1>1. PICK q : q = [bp[b] EXCEPT !.flight = Head(bp[b].m_output), !.m_output = Tail(@)]
  OBVIOUS
<1>2. bp[b] \in BrokerShape
  BY <1>0 DEF Shapes
<1>3. /\ bp[b].m_output # <<>> /\ bp[b].flight = <<>>
      /\ UNCHANGED <<sent, m_input, topic_input, pp, m_retries, retry_buf, m_replies, m_in_flight, closing,
                     leader, log, dropped>>
  BY DEF Bridge, worldVars
<1>4. bp' = [bp EXCEPT ![b] = q]
  BY <1>0, <1>1, <1>2 DEF Bridge, Shapes
<1>5. bp[b].m_output \in Seq(Seq(Payload(Partitions)))
  BY <1>2 DEF BrokerShape
<1>6. PICK h, t : h = Head(bp[b].m_output) /\ t = Tail(bp[b].m_output)
  OBVIOUS
<1>7. h \in Seq(Payload(Partitions)) /\ t \in Seq(Seq(Payload(Partitions)))
  BY <1>3, <1>5, <1>6, HeadTailProperties, Zenon
<1>8. q = [bp[b] EXCEPT !.flight = h, !.m_output = t]
  BY <1>1, <1>6, Zenon
<1>9. /\ q \in BrokerShape /\ q.m_input = bp[b].m_input /\ q.flight = h /\ q.m_output = t
      /\ q.m_buffer = bp[b].m_buffer
  BY <1>2, <1>7, <1>8 DEF BrokerShape
<1>10. ASSUME NEW T
       PROVE  /\ Num(Sets(q), T) = Num(Sets(bp[b]), T) /\ Num(Sets(q), T) \in Nat
              /\ Num(q.m_input, T) = Num(bp[b].m_input, T) /\ Num(q.m_input, T) \in Nat
  <2>1. Num(Sets(q), T) = Num(q.flight, T) + Num(FlattenSeq(q.m_output), T) + Num(q.m_buffer, T)
    BY <1>9, SetsCount
  <2>2. Num(Sets(bp[b]), T) = Num(bp[b].flight, T) + Num(FlattenSeq(bp[b].m_output), T) + Num(bp[b].m_buffer, T)
    BY <1>2, SetsCount
  <2>3. FlattenSeq(bp[b].m_output) = h \o FlattenSeq(t)
    BY <1>3, <1>5, <1>6, FlatPop, Zenon
  <2>4. FlattenSeq(t) \in Seq(Payload(Partitions))
    BY <1>9, SetsCount
  <2>5. Num(FlattenSeq(bp[b].m_output), T) = Num(h, T) + Num(FlattenSeq(t), T)
    BY <1>7, <2>3, <2>4, NumConcat
  <2>6. PICK x \in Nat, y \in Nat : x = Num(h, T) /\ y = Num(FlattenSeq(t), T)
    BY <1>7, <2>4, NumPositions
  <2>7. Num(bp[b].m_buffer, T) \in Nat
    BY <1>2, SetsCount
  <2>8. PICK z \in Nat : z = Num(bp[b].m_buffer, T)
    BY <2>7, Zenon
  <2>9. Num(bp[b].flight, T) = 0
    BY <1>3, NumEmpty, Zenon
  <2>10. Num(Sets(q), T) = x + y + z /\ Num(Sets(bp[b]), T) = 0 + (x + y) + z
    BY <1>9, <2>1, <2>2, <2>5, <2>6, <2>8, <2>9, Zenon
  <2>11. Num(q.m_input, T) \in Nat
    BY <1>9, HeldNat
  <2>12. 0 + (x + y) + z = x + y + z /\ x + y + z \in Nat
    OBVIOUS
  <2>13. QED
    BY <1>9, <2>10, <2>11, <2>12, Zenon
<1>11. ASSUME NEW T PROVE Held(q, T) = Held(bp[b], T) /\ Held(q, T) \in Nat
  BY <1>9, <1>10, HeldNat, Zenon DEF Held
<1>12. m_retries' = m_retries \o <<>> /\ <<>> \in Seq(Back)
  BY <1>0, <1>3, ConcatProperties DEF Shapes
<1>13. Reply(<<>>, <<>>, 0)
  <2>1. m_in_flight \in Nat /\ Len(<<>>) = 0
    BY InFlightNat
  <2>2. m_in_flight' = m_in_flight + 0 - Len(<<>>) - Len(<<>>)
    BY <1>3, <2>1
  <2>3. m_replies' = Replied(<<>>, <<>>)
    BY <1>3, NoReply, Zenon
  <2>4. QED
    BY <2>2, <2>3, Zenon DEF Reply
<1>14. BrokerShift(b, q, <<>>)
  BY <1>3, <1>4, <1>9, <1>12 DEF BrokerShift
<1>15. Passes(b, q, <<>>, <<>>, 0)
  <2>0. \A T : Num(<<>>, T) = 0
    BY NumEmpty
  <2>1. ASSUME NEW T PROVE /\ Held(q, T) + Num(<<>>, T) + Num(<<>>, T) = Held(bp[b], T)
                           /\ Held(q, T) + Num(<<>>, T) <= Held(bp[b], T)
                           /\ Held(q, T) + 0 + 0 = Held(bp[b], T) + 0
    <3>1. PICK h1 \in Nat : h1 = Held(q, T)
      BY <1>11, Zenon
    <3>2. h1 = Held(bp[b], T) /\ Num(<<>>, T) = 0
      BY <1>11, <2>0, <3>1, Zenon
    <3>3. h1 + 0 + 0 = h1 /\ h1 + 0 <= h1 /\ h1 + 0 + 0 = h1 + 0
      OBVIOUS
    <3>4. QED
      BY <3>1, <3>2, <3>3, Zenon
  <2>2. Len(<<>>) = 0
    OBVIOUS
  <2>3. ASSUME NEW p \in Partitions, NEW l \in 1..RetryMax PROVE ChaserPasses(b, q, <<>>, p, l)
    <3>1. PICK F, G : F = Fin(p, l - 1) /\ G = Fin(p, l)
      OBVIOUS
    <3>3. PICK a \in Nat, c \in Nat : a = Num(q.m_input, F) /\ c = Num(Sets(q), G)
      BY <1>10
    <3>4. Num(bp[b].m_input, F) = a /\ Num(Sets(bp[b]), G) = c /\ Num(<<>>, G) = 0
      BY <1>10, <2>0, <3>3, Zenon
    <3>6. a + c + 0 = a + c
      OBVIOUS
    <3>7. QED
      BY <3>1, <3>3, <3>4, <3>6, Zenon DEF ChaserPasses
  <2>4. QED
    BY <2>1, <2>2, <2>3, Zenon DEF Passes
<1>16. <<>> \in Seq(Payload(Place)) /\ 0 \in Int
  OBVIOUS
<1>17. QED
  BY <1>3, <1>13, <1>14, <1>15, <1>16, BrokerMoved, Zenon

-----------------------------------------------------------------------------
(* The answer to a request, or its failure                                          *)

\* How the turns of a message are ordered.
LEMMA OlderType == \A e \in Payload(Place) : /\ Older(e) \subseteq WithId({e.id}) /\ Younger(e) \subseteq Older(e)
                                            /\ e \in Older(e) /\ ~(e \in Younger(e)) /\ e.id \in 1..MaxSent
<1> SUFFICES ASSUME NEW e \in Payload(Place)
             PROVE  /\ Older(e) \subseteq WithId({e.id}) /\ Younger(e) \subseteq Older(e)
                    /\ e \in Older(e) /\ ~(e \in Younger(e)) /\ e.id \in 1..MaxSent
  OBVIOUS
<1>1. /\ e.id \in 1..MaxSent /\ e.kind = "msg" /\ e.retries \in Level /\ e.part \in Place
      /\ e = [id |-> e.id, kind |-> e.kind, retries |-> e.retries, part |-> e.part]
  BY DEF Payload
<1>2. \A l \in Level : l \in Int
  BY KafkaProducerAssumption DEF Level
<1>3. Older(e) \subseteq WithId({e.id})
  BY DEF Older, WithId
<1>4. Younger(e) \subseteq Older(e)
  BY <1>1, <1>2 DEF Younger, Older
<1>5. e \in Older(e)
  BY <1>1, <1>2 DEF Older, Kind
<1>6. ~(e \in Younger(e))
  BY <1>1, <1>2 DEF Younger
<1>7. QED
  BY <1>1, <1>3, <1>4, <1>5, <1>6

\* What the pipeline holds of T is at least what a request in flight has of it.
LEMMA AllOfId ==
  ASSUME NEW T, NEW U, \A m \in Message : m \in T => m \in U, Shapes
  PROVE  All(T) <= All(U)
<1>0. Queued
  BY ShapesQueued
<1>1. /\ Num(m_input, T) <= Num(m_input, U) /\ Num(topic_input, T) <= Num(topic_input, U)
  BY <1>0, NumMono DEF Queued
<1>2. Num(m_retries, T) <= Num(m_retries, U) /\ Num(retry_buf, T) <= Num(retry_buf, U)
  BY <1>0, NumMono DEF Queued
<1>3. NumIn(PartitionQueue, T) <= NumIn(PartitionQueue, U) /\ NumIn(RetryBuffer, T) <= NumIn(RetryBuffer, U)
  BY <1>0, NumInMono, FinitePlaces DEF Queued
<1>4. NumIn(BrokerQueue, T) <= NumIn(BrokerQueue, U) /\ NumIn(BrokerSets, T) <= NumIn(BrokerSets, U)
  BY <1>0, NumInMono, FinitePlaces DEF Queued
<1>5. Counts(T) /\ Counts(U)
  BY CountsNow
<1>6. QED
  BY <1>1, <1>2, <1>3, <1>4, <1>5 DEF Counts, All, Inside, BeforeBrokers

\* Of a message in flight there is no other in the pipeline, and it was sent.
LEMMA InFlightAlone ==
  ASSUME ProducerInv, NEW b \in Brokers, NEW id \in 1..MaxSent
  PROVE  /\ Num(bp[b].flight, WithId({id})) <= All(WithId({id}))
         /\ All(WithId({id})) <= 1 /\ Num(bp[b].flight, WithId({id})) \in Nat /\ All(WithId({id})) \in Nat
         /\ All(WithId({id})) = 1 => id <= sent /\ id \notin dropped
<1>0. Shapes /\ Accounts
  BY DEF ProducerInv
<1>1. bp[b] \in BrokerShape
  BY <1>0 DEF Shapes
<1>2. PICK T : T = WithId({id})
  OBVIOUS
<1>3. Num(bp[b].flight, T) <= Num(Sets(bp[b]), T) /\ Num(bp[b].flight, T) \in Nat
  <2>1. /\ Num(Sets(bp[b]), T) = Num(bp[b].flight, T) + Num(FlattenSeq(bp[b].m_output), T) + Num(bp[b].m_buffer, T)
        /\ Num(bp[b].flight, T) \in Nat /\ Num(FlattenSeq(bp[b].m_output), T) \in Nat /\ Num(bp[b].m_buffer, T) \in Nat
    BY <1>1, SetsCount, Zenon
  <2>2. QED
    BY <2>1
<1>4. Num(Sets(bp[b]), T) <= NumIn(BrokerSets, T) /\ Num(Sets(bp[b]), T) \in Nat
  <2>1. BrokerSets \in [Brokers -> Seq(Message)]
    BY <1>0, ShapesQueued DEF Queued
  <2>2. Num(BrokerSets[b], T) <= NumIn(BrokerSets, T)
    BY <2>1, FinitePlaces, NumInAt
  <2>3. BrokerSets[b] = Sets(bp[b])
    BY Zenon DEF BrokerSets, Sets
  <2>4. Num(Sets(bp[b]), T) \in Nat
    BY <1>1, HeldNat
  <2>5. QED
    BY <2>2, <2>3, <2>4, Zenon
<1>5. Counts(T)
  BY <1>0, CountsNow
<1>6. NumIn(BrokerSets, T) <= All(T)
  BY <1>5 DEF Counts, All, Inside
<1>7. Num(bp[b].flight, T) <= All(T)
  <2>1. PICK a \in Nat, c \in Nat, d \in Nat, e \in Nat :
          a = Num(bp[b].flight, T) /\ c = Num(Sets(bp[b]), T) /\ d = NumIn(BrokerSets, T) /\ e = All(T)
    BY <1>3, <1>4, <1>5, Zenon DEF Counts
  <2>2. a <= c /\ c <= d /\ d <= e
    BY <1>3, <1>4, <1>6, <2>1, Zenon
  <2>3. a <= e
    BY <2>2
  <2>4. QED
    BY <2>1, <2>3, Zenon
<1>8. All(WithId({id})) + Bad(id) + Good(id) + Cardinality(dropped \cap {id}) = IF id <= sent THEN 1 ELSE 0
  BY <1>0 DEF Accounts
<1>9. id \in 0..MaxSent
  OBVIOUS
<1>10. Bad(id) \in Nat /\ Good(id) \in Nat
  BY <1>0, <1>9, RepliesNat
<1>11. Cardinality(dropped \cap {id}) \in Nat /\ (id \in dropped => Cardinality(dropped \cap {id}) = 1)
  <2>1. IsFiniteSet({id}) /\ Cardinality({id}) = 1
    BY FS_Singleton
  <2>2. IsFiniteSet(dropped \cap {id})
    BY <2>1, FS_Intersection
  <2>3. id \in dropped => dropped \cap {id} = {id}
    OBVIOUS
  <2>4. QED
    BY <2>1, <2>2, <2>3, FS_CardinalityType
<1>12. PICK x \in Nat, u \in Nat, v \in Nat, w \in Nat :
         x = All(WithId({id})) /\ u = Bad(id) /\ v = Good(id) /\ w = Cardinality(dropped \cap {id})
  BY <1>2, <1>5, <1>10, <1>11 DEF Counts
<1>13. x + u + v + w = IF id <= sent THEN 1 ELSE 0
  BY <1>8, <1>12, Zenon
<1>14. x <= 1 /\ (x = 1 => id <= sent /\ w = 0)
  BY <1>13
<1>15. x = 1 => id \notin dropped
  BY <1>11, <1>12, <1>14
<1>16. QED
  BY <1>2, <1>3, <1>7, <1>12, <1>14, <1>15, Zenon

\* A request of the messages ms is over: a BrokerProducer becomes r, having lost ms and
\* the part `taken` of its buffer, of which back goes back, and the rest is answered
\* with an error, answered as stored, or lost.
Ends(b, r, ms, taken, back) ==
  /\ BrokerShift(b, r, back) /\ ms = bp[b].flight /\ taken \in Seq(Payload(Partitions))
  /\ r.m_input = bp[b].m_input
  /\ \A T : Num(Sets(r), T) + Num(ms, T) + Num(taken, T) = Num(Sets(bp[b]), T)
  /\ \A e \in Payload(Place) : Num(back, Older(e)) <= Num(ms, Younger(e)) + Num(taken, Older(e))
  /\ \A p \in Partitions, l \in 1..RetryMax : Num(back, Fin(p, l)) = 0

\* Each message of the request and of taken goes back, is answered, or is lost.
Shares(ms, taken, back, errs, oks, lost) ==
  /\ errs \in Seq(Payload(Place)) /\ oks \in Seq(Payload(Place)) /\ lost \in Seq(Payload(Partitions))
  /\ \A id \in 1..MaxSent :
       Num(back, WithId({id})) + Num(errs, WithId({id})) + Num(oks, WithId({id})) + Num(lost, WithId({id}))
         = Num(ms, WithId({id})) + Num(taken, WithId({id}))
  /\ Len(back) + Len(errs) + Len(oks) + Len(lost) = Len(ms) + Len(taken)
  /\ \A T : Num(lost, T) <= Num(ms, T)

\* The numbers of a step that ends a request: before and after, lost from the broker, gone back.
EndSums(b, ms, taken, back, T) ==
  \E x, x2, m, t, n \in Nat :
    /\ x = All(T) /\ x2 = All(T)' /\ m = Num(ms, T) /\ t = Num(taken, T) /\ n = Num(back, T)
    /\ x2 + m + t = x + n

\* The types of what takes part.
LEMMA EndsForm ==
  ASSUME Shapes, NEW b \in Brokers, NEW r, NEW ms, NEW taken, NEW back, Ends(b, r, ms, taken, back)
  PROVE  /\ ms \in Seq(Payload(Partitions)) /\ taken \in Seq(Payload(Partitions)) /\ back \in Seq(Back)
         /\ r \in BrokerShape /\ bp[b] \in BrokerShape /\ BrokerShift(b, r, back)
         /\ \A T : Num(ms, T) \in Nat /\ Num(taken, T) \in Nat /\ Num(back, T) \in Nat
<1>1. /\ BrokerShift(b, r, back) /\ ms = bp[b].flight /\ taken \in Seq(Payload(Partitions))
  BY DEF Ends
<1>2. r \in BrokerShape /\ back \in Seq(Back)
  BY <1>1 DEF BrokerShift
<1>3. bp[b] \in BrokerShape
  BY DEF Shapes
<1>4. ms \in Seq(Payload(Partitions))
  BY <1>1, <1>3 DEF BrokerShape
<1>5. \A T : Num(ms, T) \in Nat /\ Num(taken, T) \in Nat /\ Num(back, T) \in Nat
  BY <1>1, <1>2, <1>4, NumPositions
<1>6. QED
  BY <1>1, <1>2, <1>3, <1>4, <1>5

\* What the BrokerProducer holds falls by the request and by taken.
LEMMA EndsHeld ==
  ASSUME Shapes, NEW b \in Brokers, NEW r, NEW ms, NEW taken, NEW back, Ends(b, r, ms, taken, back), NEW T
  PROVE  Held(r, T) + Num(ms, T) + Num(taken, T) = Held(bp[b], T)
<1>1. /\ r \in BrokerShape /\ bp[b] \in BrokerShape
      /\ \A U : Num(ms, U) \in Nat /\ Num(taken, U) \in Nat /\ Num(back, U) \in Nat
  BY EndsForm
<1>2. /\ r.m_input = bp[b].m_input
      /\ Num(Sets(r), T) + Num(ms, T) + Num(taken, T) = Num(Sets(bp[b]), T)
  BY DEF Ends
<1>3. PICK m \in Nat, t \in Nat : m = Num(ms, T) /\ t = Num(taken, T)
  BY <1>1
<1>4. PICK a \in Nat, c \in Nat, c2 \in Nat :
        a = Num(r.m_input, T) /\ c = Num(Sets(bp[b]), T) /\ c2 = Num(Sets(r), T)
  BY <1>1, HeldNat
<1>5. c2 + m + t = c
  BY <1>2, <1>3, <1>4, Zenon
<1>6. (a + c2) + m + t = a + c
  BY <1>5
<1>7. Held(r, T) = a + c2 /\ Held(bp[b], T) = a + c
  BY <1>2, <1>4, Zenon DEF Held
<1>8. QED
  BY <1>3, <1>6, <1>7, Zenon

\* What the whole pipeline loses.
LEMMA EndsAll ==
  ASSUME Shapes, Shapes', NEW b \in Brokers, NEW r, NEW ms, NEW taken, NEW back,
         Ends(b, r, ms, taken, back), NEW T
  PROVE  EndSums(b, ms, taken, back, T)
<1>1. BrokerShift(b, r, back) /\ \A U : Num(ms, U) \in Nat /\ Num(taken, U) \in Nat /\ Num(back, U) \in Nat
  BY EndsForm
<1>2. PICK m \in Nat, t \in Nat, n \in Nat : m = Num(ms, T) /\ t = Num(taken, T) /\ n = Num(back, T)
  BY <1>1
<1>10. BrokerShift(b, r, back)
  BY <1>1, Zenon
<1>3. /\ All(T)' + Held(bp[b], T) = All(T) + Num(back, T) + Held(r, T)
      /\ All(T) \in Nat /\ All(T)' \in Nat /\ Held(bp[b], T) \in Nat /\ Held(r, T) \in Nat
  BY <1>10, BrokerAll
<1>4. PICK x \in Nat, x2 \in Nat, h \in Nat, h2 \in Nat :
        x = All(T) /\ x2 = All(T)' /\ h = Held(bp[b], T) /\ h2 = Held(r, T)
  BY <1>3, Zenon
<1>5. x2 + h = x + n + h2
  BY <1>2, <1>3, <1>4, Zenon
<1>6. Held(r, T) + Num(ms, T) + Num(taken, T) = Held(bp[b], T)
  BY EndsHeld
<1>7. h2 + m + t = h
  BY <1>2, <1>4, <1>6, Zenon
<1>8. x2 + m + t = x + n
  BY <1>5, <1>7
<1>9. \E y, y2, i, j, k \in Nat :
        /\ y = All(T) /\ y2 = All(T)' /\ i = Num(ms, T) /\ j = Num(taken, T) /\ k = Num(back, T)
        /\ y2 + i + j = y + k
  <2>1. WITNESS x \in Nat, x2 \in Nat, m \in Nat, t \in Nat, n \in Nat
  <2>2. QED
    BY <1>2, <1>4, <1>8, Zenon
<1>11. QED
  BY <1>9, Zenon DEF EndSums

\* Of the turns of a message up to any one, the pipeline holds no more than before.
LEMMA EndsOlder ==
  ASSUME ProducerInv, Shapes', NEW b \in Brokers, NEW r, NEW ms, NEW taken, NEW back,
         Ends(b, r, ms, taken, back), NEW e \in Payload(Place)
  PROVE  /\ All(Older(e))' <= All(Older(e))
         /\ (\E i \in 1..Len(ms) : ms[i] = e) => All(Older(e))' = 0 /\ All(Older(e)) > 0 /\ e.id <= sent
<1>0. Shapes
  BY DEF ProducerInv
<1>1. ms \in Seq(Payload(Partitions)) /\ ms = bp[b].flight
  BY <1>0, EndsForm DEF Ends
<1>2. EndSums(b, ms, taken, back, Older(e))
  BY <1>0, EndsAll
<1>3. PICK x \in Nat, x2 \in Nat, m \in Nat, t \in Nat, n \in Nat :
        /\ x = All(Older(e)) /\ x2 = All(Older(e))' /\ m = Num(ms, Older(e)) /\ t = Num(taken, Older(e))
        /\ n = Num(back, Older(e)) /\ x2 + m + t = x + n
  BY <1>2 DEF EndSums
<1>4. PICK y \in Nat : y = Num(ms, Younger(e))
  BY <1>1, NumPositions
<1>5. Num(back, Older(e)) <= Num(ms, Younger(e)) + Num(taken, Older(e))
  BY DEF Ends
<1>6. n <= y + t
  BY <1>3, <1>4, <1>5, Zenon
<1>7. /\ Older(e) \subseteq WithId({e.id}) /\ Younger(e) \subseteq Older(e)
      /\ e \in Older(e) /\ ~(e \in Younger(e)) /\ e.id \in 1..MaxSent
  BY OlderType
<1>8. PICK z \in Nat : z = Num(ms, Older(e) \ Younger(e))
  BY <1>1, NumPositions
<1>9. m = y + z
  <2>1. Num(ms, Older(e)) = Num(ms, Younger(e)) + Num(ms, Older(e) \ Younger(e))
    BY <1>1, <1>7, NumSplit
  <2>2. QED
    BY <1>3, <1>4, <1>8, <2>1, Zenon
<1>10. x2 + z <= x
  <2>1. x2 + m + t = x + n
    BY <1>3
  <2>2. QED
    BY <1>6, <1>9, <2>1
<1>11. All(Older(e))' <= All(Older(e))
  <2>1. x2 <= x
    BY <1>10
  <2>2. QED
    BY <1>3, <2>1, Zenon
<1>12. ASSUME \E i \in 1..Len(ms) : ms[i] = e
       PROVE  All(Older(e))' = 0 /\ All(Older(e)) > 0 /\ e.id <= sent
  <2>1. PICK i \in 1..Len(ms) : ms[i] = e
    BY <1>12
  <2>2. ms[i] \in Older(e) \ Younger(e)
    BY <1>7, <2>1
  <2>3. z >= 1
    BY <1>1, <1>8, <2>2, NumSome
  <2>4. PICK w \in Nat : w = All(WithId({e.id})) /\ w <= 1 /\ (w = 1 => e.id <= sent)
    BY <1>7, InFlightAlone
  <2>5. All(Older(e)) <= All(WithId({e.id}))
    BY <1>0, <1>7, AllOfId
  <2>6. x <= w
    BY <1>3, <2>4, <2>5, Zenon
  <2>7. x2 = 0 /\ x > 0 /\ w = 1
    BY <1>10, <2>3, <2>4, <2>6
  <2>8. QED
    BY <1>3, <2>4, <2>7, Zenon
<1>13. QED
  BY <1>11, <1>12

\* The messages an answer leaves unanswered: those of lost, no two of them the same.
LEMMA LostDropped ==
  ASSUME ProducerInv, NEW b \in Brokers, NEW ms, ms = bp[b].flight,
         NEW lost \in Seq(Payload(Partitions)), \A T : Num(lost, T) <= Num(ms, T),
         dropped' = dropped \cup {lost[i].id : i \in DOMAIN lost}
  PROVE  /\ dropped' \subseteq 1..MaxSent
         /\ Cardinality(dropped') = Cardinality(dropped) + Len(lost)
         /\ \A id \in 1..MaxSent :
              Cardinality(dropped' \cap {id}) = Cardinality(dropped \cap {id}) + Num(lost, WithId({id}))
<1>0. Shapes /\ dropped \subseteq 1..MaxSent
  BY DEF ProducerInv, Shapes
<1>1. PICK n \in Nat : n = Len(lost) /\ DOMAIN lost = 1..n
  OBVIOUS
<1>2. \A i \in 1..n : lost[i] \in Payload(Partitions)
  BY <1>1
<1>3. PICK e : e = [i \in 1..n |-> lost[i].id]
  OBVIOUS
<1>4. \A i \in 1..n : e[i] = lost[i].id /\ e[i] \in 1..MaxSent
  BY <1>2, <1>3 DEF Payload
<1>5. \A i \in 1..n : lost[i] \in WithId({e[i]})
  <2>1. ASSUME NEW i \in 1..n PROVE lost[i] \in WithId({e[i]})
    <3>1. lost[i] \in Payload(Place)
      BY <1>2, ItemSets
    <3>2. lost[i] \in Older(lost[i]) /\ Older(lost[i]) \subseteq WithId({lost[i].id})
      BY <3>1, OlderType
    <3>3. QED
      BY <1>4, <3>2
  <2>2. QED
    BY <2>1
<1>6. ASSUME NEW id \in 1..MaxSent
      PROVE  /\ Num(lost, WithId({id})) \in Nat /\ Num(lost, WithId({id})) <= 1
             /\ (\E i \in 1..n : lost[i] \in WithId({id})) => Num(lost, WithId({id})) = 1 /\ id \notin dropped
  <2>1. PICK u \in Nat : u = Num(lost, WithId({id}))
    BY NumPositions
  <2>2. /\ Num(ms, WithId({id})) <= All(WithId({id})) /\ All(WithId({id})) <= 1
        /\ Num(ms, WithId({id})) \in Nat /\ All(WithId({id})) \in Nat
        /\ All(WithId({id})) = 1 => id \notin dropped
    BY InFlightAlone
  <2>3. PICK v \in Nat, w \in Nat : v = Num(ms, WithId({id})) /\ w = All(WithId({id}))
    BY <2>2
  <2>4. u <= v
    BY <2>1, <2>3, Zenon
  <2>5. v <= w /\ w <= 1 /\ (w = 1 => id \notin dropped)
    BY <2>2, <2>3, Zenon
  <2>6. u <= 1 /\ (u = 1 => id \notin dropped)
    BY <2>4, <2>5
  <2>7. ASSUME \E i \in 1..n : lost[i] \in WithId({id}) PROVE u = 1
    <3>1. PICK i \in 1..n : lost[i] \in WithId({id})
      BY <2>7
    <3>2. Num(lost, WithId({id})) >= 1
      BY <1>1, <3>1, NumSome
    <3>3. u >= 1
      BY <2>1, <3>2, Zenon
    <3>4. QED
      BY <2>6, <3>3
  <2>8. QED
    BY <2>1, <2>6, <2>7, Zenon
<1>7. \A i, j \in 1..n : e[i] = e[j] => i = j
  <2>1. ASSUME NEW i \in 1..n, NEW j \in 1..n, e[i] = e[j], i # j PROVE FALSE
    <3>1. lost[i] \in WithId({e[i]}) /\ lost[j] \in WithId({e[i]}) /\ e[i] \in 1..MaxSent
      BY <1>4, <1>5, <2>1, Zenon
    <3>2. Num(lost, WithId({e[i]})) >= 2
      BY <1>1, <2>1, <3>1, NumTwo
    <3>3. Num(lost, WithId({e[i]})) <= 1 /\ Num(lost, WithId({e[i]})) \in Nat
      BY <1>6, <3>1
    <3>4. QED
      BY <3>2, <3>3
  <2>2. QED
    BY <2>1, Zenon
<1>8. PICK D : D = {e[i] : i \in 1..n}
  OBVIOUS
<1>9. dropped' = dropped \cup D
  <2>1. {lost[i].id : i \in DOMAIN lost} = D
    BY <1>1, <1>4, <1>8
  <2>2. QED
    BY <2>1
<1>10. D \subseteq 1..MaxSent
  BY <1>4, <1>8
<1>11. \A id \in D : \E i \in 1..n : e[i] = id
  BY <1>8
<1>12. dropped \cap D = {}
  <2>1. ASSUME NEW id \in D PROVE id \notin dropped
    <3>1. PICK i \in 1..n : e[i] = id
      BY <1>11
    <3>2. lost[i] \in WithId({id}) /\ id \in 1..MaxSent
      BY <1>4, <1>5, <3>1
    <3>3. QED
      BY <1>6, <3>2
  <2>2. QED
    BY <2>1
<1>13. IsFiniteSet(D) /\ Cardinality(D) = n
  <2>1. e \in Bijection(1..n, D)
    <3>1. e \in [1..n -> D]
      BY <1>3, <1>8
    <3>2. QED
      BY <1>7, <1>11, <3>1 DEF Bijection, Injection, Surjection, IsInjective
  <2>2. ExistsBijection(1..n, D)
    BY <2>1, Zenon DEF ExistsBijection
  <2>3. IsFiniteSet(1..n) /\ Cardinality(1..n) = n
    BY FS_Interval
  <2>4. QED
    BY <2>2, <2>3, FS_Bijection
<1>14. IsFiniteSet(dropped)
  <2>1. IsFiniteSet(1..MaxSent)
    <3>1. 1 \in Int /\ MaxSent \in Int
      BY KafkaProducerAssumption
    <3>2. QED
      BY <3>1, FS_Interval, Zenon
  <2>2. QED
    BY <1>0, <2>1, FS_Subset
<1>15. Cardinality(dropped') = Cardinality(dropped) + Cardinality(D)
  BY <1>9, <1>12, <1>13, <1>14, DisjointUnion, Zenon
<1>16. ASSUME NEW id \in 1..MaxSent
       PROVE  Cardinality(dropped' \cap {id}) = Cardinality(dropped \cap {id}) + Num(lost, WithId({id}))
  <2>1. CASE id \in D
    <3>1. PICK i \in 1..n : e[i] = id
      BY <1>11, <2>1
    <3>2. Num(lost, WithId({id})) = 1 /\ id \notin dropped
      BY <1>5, <1>6, <3>1
    <3>3. dropped' \cap {id} = {id} /\ dropped \cap {id} = {}
      BY <1>9, <2>1, <3>2
    <3>4. Cardinality({id}) = 1 /\ Cardinality({}) = 0
      BY FS_Singleton, FS_EmptySet
    <3>5. 1 = 0 + 1
      OBVIOUS
    <3>6. QED
      BY <3>2, <3>3, <3>4, <3>5, Zenon
  <2>2. CASE id \notin D
    <3>1. dropped' \cap {id} = dropped \cap {id}
      BY <1>9, <2>2
    <3>2. ASSUME NEW i \in 1..Len(lost) PROVE lost[i] \notin WithId({id})
      <4>1. i \in 1..n /\ e[i] # id
        BY <1>1, <1>8, <2>2
      <4>2. lost[i].id = e[i]
        BY <1>4, <4>1
      <4>3. QED
        BY <4>1, <4>2 DEF WithId
    <3>3. Num(lost, WithId({id})) = 0
      BY <3>2, NumZero
    <3>4. IsFiniteSet(dropped \cap {id})
      BY <1>14, FS_Intersection
    <3>5. Cardinality(dropped \cap {id}) \in Nat
      BY <3>4, FS_CardinalityType
    <3>6. Cardinality(dropped \cap {id}) + 0 = Cardinality(dropped \cap {id})
      BY <3>5
    <3>7. QED
      BY <3>1, <3>3, <3>6, Zenon
  <2>3. QED
    BY <2>1, <2>2
<1>17. dropped' \subseteq 1..MaxSent
  BY <1>0, <1>9, <1>10
<1>18. Cardinality(dropped') = Cardinality(dropped) + Len(lost)
  BY <1>1, <1>13, <1>15, Zenon
<1>19. QED
  BY <1>16, <1>17, <1>18, Zenon

\* The end of a request keeps the accounts.
LEMMA EndsAccounts ==
  ASSUME ProducerInv, Shapes', NEW b \in Brokers, NEW r, NEW ms, NEW taken, NEW back,
         Ends(b, r, ms, taken, back), NEW errs, NEW oks, NEW lost,
         Shares(ms, taken, back, errs, oks, lost), m_replies' = Replied(errs, oks), sent' = sent,
         dropped' = dropped \cup {lost[i].id : i \in DOMAIN lost}
  PROVE  Accounts'
<1>0. Shapes /\ Accounts
  BY DEF ProducerInv
<1>1. /\ errs \in Seq(Payload(Place)) /\ oks \in Seq(Payload(Place)) /\ lost \in Seq(Payload(Partitions))
      /\ ms = bp[b].flight /\ \A T : Num(lost, T) <= Num(ms, T)
  BY DEF Shares, Ends
<1>2. \A id \in 1..MaxSent :
        Cardinality(dropped' \cap {id}) = Cardinality(dropped \cap {id}) + Num(lost, WithId({id}))
  BY <1>1, LostDropped
<1>3. /\ \A id \in 0..MaxSent : Bad(id)' = Bad(id) + Num(errs, WithId({id}))
      /\ \A id \in 0..MaxSent : Good(id)' = Good(id) + Num(oks, WithId({id}))
      /\ Bad(0)' = Bad(0) /\ Good(0)' = Good(0)
  BY <1>0, <1>1, ReplyCounts
<1>4. ASSUME NEW id \in 1..MaxSent
      PROVE  All(WithId({id}))' + Bad(id)' + Good(id)' + Cardinality(dropped' \cap {id})
               = IF id <= sent' THEN 1 ELSE 0
  <2>0. id \in 0..MaxSent
    OBVIOUS
  <2>1. PICK x \in Nat, x2 \in Nat, m \in Nat, t \in Nat, n \in Nat :
          /\ x = All(WithId({id})) /\ x2 = All(WithId({id}))' /\ m = Num(ms, WithId({id}))
          /\ t = Num(taken, WithId({id})) /\ n = Num(back, WithId({id})) /\ x2 + m + t = x + n
    BY <1>0, EndsAll DEF EndSums
  <2>2. PICK u \in Nat, v \in Nat, w \in Nat :
          u = Num(errs, WithId({id})) /\ v = Num(oks, WithId({id})) /\ w = Num(lost, WithId({id}))
    BY <1>1, NumPositions
  <2>3. PICK bad \in Nat, good \in Nat : bad = Bad(id) /\ good = Good(id)
    BY <1>0, <2>0, RepliesNat
  <2>4. PICK c \in Nat : c = Cardinality(dropped \cap {id})
    <3>1. IsFiniteSet({id})
      BY FS_Singleton
    <3>2. IsFiniteSet(dropped \cap {id})
      BY <3>1, FS_Intersection
    <3>3. QED
      BY <3>2, FS_CardinalityType
  <2>5. Num(back, WithId({id})) + Num(errs, WithId({id})) + Num(oks, WithId({id})) + Num(lost, WithId({id}))
          = Num(ms, WithId({id})) + Num(taken, WithId({id}))
    BY DEF Shares
  <2>6. n + u + v + w = m + t
    BY <2>1, <2>2, <2>5, Zenon
  <2>7. All(WithId({id})) + Bad(id) + Good(id) + Cardinality(dropped \cap {id}) = IF id <= sent THEN 1 ELSE 0
    BY <1>0 DEF Accounts
  <2>8. x + bad + good + c = IF id <= sent THEN 1 ELSE 0
    BY <2>1, <2>3, <2>4, <2>7, Zenon
  <2>9. x2 + m + t = x + n
    BY <2>1, Zenon
  <2>10. x2 + (bad + u) + (good + v) + (c + w) = x + bad + good + c
    BY <2>6, <2>9
  <2>11. Bad(id)' = bad + u /\ Good(id)' = good + v /\ Cardinality(dropped' \cap {id}) = c + w
    BY <1>2, <1>3, <2>0, <2>2, <2>3, <2>4, Zenon
  <2>12. All(WithId({id}))' + Bad(id)' + Good(id)' + Cardinality(dropped' \cap {id}) = x2 + (bad + u) + (good + v) + (c + w)
    BY <2>1, <2>11, Zenon
  <2>13. QED
    BY <2>8, <2>10, <2>12, Zenon
<1>5. QED
  BY <1>0, <1>3, <1>4 DEF Accounts

\* What the cluster stores of a request, and what it confirms of what it stored.
LogGrows(ms) == \A p \in Partitions : log'[p] = log[p] \/ log'[p] = log[p] \o OfPartition(ms, p)
\* A message answered as stored is in a log that grew by its part of the request.
Confirms(ms, oks) ==
  \A id \in 1..MaxSent : Num(oks, WithId({id})) > 0 =>
    \E p \in Partitions : /\ log'[p] = log[p] \o OfPartition(ms, p)
                          /\ Num(OfPartition(ms, p), WithId({id})) > 0

\* The part of a batch that belongs to a partition.
LEMMA OfPartitionItems ==
  ASSUME NEW ms \in Seq(Payload(Partitions)), NEW p \in Partitions, NEW x, x = OfPartition(ms, p)
  PROVE  /\ x \in Seq(Payload({p})) /\ \A T : Num(x, T) \in Nat /\ Num(x, T) <= Num(ms, T)
         /\ \A e : Has(x, e) => Has(ms, e)
<1>1. x = Only(ms, OfPart({p}))
  BY Zenon DEF OfPartition, OfPartitions
<1>2. x \in Seq(Payload(Partitions) \cap OfPart({p}))
  BY <1>1, OnlyIn
<1>3. Payload(Partitions) \cap OfPart({p}) \subseteq Payload({p})
  BY DEF Payload, OfPart
<1>4. x \in Seq(Payload({p}))
  BY <1>2, <1>3, SeqWiden
<1>5. ASSUME NEW T PROVE Num(x, T) \in Nat /\ Num(x, T) <= Num(ms, T)
  <2>0. PICK S : S = OfPart({p})
    OBVIOUS
  <2>5. PICK M : M = Payload(Partitions) /\ ms \in Seq(M)
    OBVIOUS
  <2>1. Num(Only(ms, S), T) = Num(ms, S \cap T)
    BY <2>5, NumOnly
  <2>2. Num(ms, S \cap T) <= Num(ms, T)
    BY NumMono
  <2>3. Num(x, T) \in Nat
    BY <1>4, NumPositions
  <2>4. QED
    BY <1>1, <2>0, <2>1, <2>2, <2>3, Zenon
<1>6. ASSUME NEW e, Has(x, e) PROVE Has(ms, e)
  <2>0. PICK k \in 1..Len(x) : x[k] = e
    BY <1>6, Zenon DEF Has
  <2>1. PICK c \in Nat, d \in Nat : c = Num(x, {e}) /\ d = Num(ms, {e})
    BY <1>4, NumPositions
  <2>2. Num(x, {e}) >= 1
    BY <1>4, <2>0, NumSome
  <2>3. c >= 1 /\ c <= d
    BY <1>5, <2>1, <2>2, Zenon
  <2>4. Num(ms, {e}) # 0
    BY <2>1, <2>3
  <2>5. ~ \A i \in 1..Len(ms) : ms[i] \notin {e}
    BY <2>4, NumZero
  <2>6. QED
    BY <2>5 DEF Has
<1>7. QED
  BY <1>4, <1>5, <1>6, Zenon

\* Of the messages in flight no two are the same.
LEMMA FlightDistinct ==
  ASSUME ProducerInv, NEW b \in Brokers, NEW ms, ms = bp[b].flight, NEW p \in Partitions,
         NEW x, x = OfPartition(ms, p), ms \in Seq(Payload(Partitions))
  PROVE  Distinct(x)
<1> SUFFICES ASSUME NEW i \in 1..Len(x), NEW j \in 1..Len(x), x[i] = x[j] PROVE i = j
  BY Zenon DEF Distinct
<1>1. /\ x \in Seq(Payload({p})) /\ \A T : Num(x, T) \in Nat /\ Num(x, T) <= Num(ms, T)
  BY OfPartitionItems
<1>2. PICK e : e = x[i]
  OBVIOUS
<1>3. e \in Payload(Place)
  <2>1. e \in Payload({p})
    BY <1>1, <1>2
  <2>2. QED
    BY <2>1, ItemSets, Zenon
<1>4. e \in WithId({e.id}) /\ e.id \in 1..MaxSent
  BY <1>3, OlderType
<1>5. PICK T : T = WithId({e.id})
  OBVIOUS
<1>6. /\ Num(ms, T) <= All(T) /\ All(T) <= 1 /\ Num(ms, T) \in Nat /\ All(T) \in Nat
  BY <1>4, <1>5, InFlightAlone
<1>7. Num(x, T) \in Nat /\ Num(x, T) <= Num(ms, T)
  BY <1>1
<1>8. Num(x, T) <= 1
  BY <1>6, <1>7
<1>9. x[i] \in T /\ x[j] \in T
  BY <1>2, <1>4, <1>5
<1>10. i # j => Num(x, T) >= 2
  BY <1>1, <1>9, NumTwo
<1>11. QED
  BY <1>7, <1>8, <1>10

\* ms is a batch of messages that are in the pipeline.
Live(ms) ==
  /\ ms \in Seq(Payload(Partitions))
  /\ \A e \in Payload(Place) : Has(ms, e) => All(Older(e)) > 0

\* The log y of p, which was log[p], with x at its end.
GrownTo(p, x, y) ==
  /\ y \in Seq(Payload({p})) /\ IsInjective(y)
  /\ \A e : (\E i \in DOMAIN y : y[i] = e) <=> (InLog(p, e) \/ Has(x, e))

\* The log of a partition after part of a request was stored.
LEMMA GrownLog ==
  ASSUME ProducerInv, NEW b \in Brokers, NEW ms, ms = bp[b].flight, NEW p \in Partitions,
         NEW x, x = OfPartition(ms, p), Live(ms), NEW y, y = log[p] \o x
  PROVE  GrownTo(p, x, y)
<1>0. Shapes /\ Stored
  BY DEF ProducerInv
<1>14. ms \in Seq(Payload(Partitions))
  BY DEF Live
<1>1. PICK g : g = log[p]
  OBVIOUS
<1>2. g \in Seq(Payload({p})) /\ DOMAIN g = 1..Len(g)
  BY <1>0, <1>1 DEF Shapes
<1>3. x \in Seq(Payload({p})) /\ \A e : Has(x, e) => Has(ms, e)
  BY <1>14, OfPartitionItems
<1>4. y = g \o x
  BY <1>1
<1>5. y \in Seq(Payload({p})) /\ DOMAIN y = 1..Len(y)
  BY <1>2, <1>3, <1>4, ConcatProperties
<1>6. \A e : InLog(p, e) <=> Has(g, e)
  BY <1>1, <1>2, Zenon DEF InLog, Has
<1>7. Distinct(g)
  <2>1. IsInjective(g)
    BY <1>0, <1>1 DEF Stored
  <2>2. QED
    BY <1>2, <2>1, DistinctInjective, Zenon
<1>8. Distinct(x)
  BY <1>14, FlightDistinct
<1>9. ASSUME NEW e, Has(g, e), Has(x, e) PROVE FALSE
  <2>1. e \in Payload({p})
    BY <1>2, <1>9 DEF Has
  <2>2. All(Older(e)) = 0
    BY <1>0, <1>6, <1>9, <2>1 DEF Stored
  <2>3. e \in Payload(Place)
    BY <2>1, ItemSets, Zenon
  <2>4. All(Older(e)) > 0
    BY <1>3, <1>9, <2>3 DEF Live
  <2>5. QED
    BY <2>2, <2>4
<1>10. Distinct(y)
  <2>1. \A e : ~(Has(g, e) /\ Has(x, e))
    BY <1>9, Zenon
  <2>2. QED
    BY <1>2, <1>3, <1>4, <1>7, <1>8, <2>1, ConcatDistinct, Zenon
<1>11. IsInjective(y)
  BY <1>5, <1>10, DistinctInjective, Zenon
<1>12. \A e : Has(y, e) <=> (Has(g, e) \/ Has(x, e))
  BY <1>2, <1>3, <1>4, ConcatHas, ZenonT(60)
<1>13. ASSUME NEW e PROVE (\E i \in DOMAIN y : y[i] = e) <=> (InLog(p, e) \/ Has(x, e))
  <2>1. (\E i \in DOMAIN y : y[i] = e) <=> Has(y, e)
    BY <1>5, Zenon DEF Has
  <2>2. QED
    BY <1>6, <1>12, <2>1, Zenon
<1>15. QED
  BY <1>5, <1>11, <1>13, Zenon DEF GrownTo

\* The item e is in the log g.
InSeq(g, e) == \E i \in DOMAIN g : g[i] = e

\* The log of p with its part of the request ms.
Grown(p, ms) ==
  /\ IsInjective(log[p] \o OfPartition(ms, p))
  /\ \A e : InSeq(log[p] \o OfPartition(ms, p), e) <=> (InSeq(log[p], e) \/ Has(OfPartition(ms, p), e))

\* The part of a request in flight can be stored: it is in no log yet.
LEMMA GrownPart ==
  ASSUME ProducerInv, NEW b \in Brokers, NEW p \in Partitions, Live(bp[b].flight)
  PROVE  Grown(p, bp[b].flight)
<1>1. PICK ms : ms = bp[b].flight
  OBVIOUS
<1>2. PICK x : x = OfPartition(ms, p)
  OBVIOUS
<1>3. PICK y : y = log[p] \o x
  OBVIOUS
<1>4. /\ IsInjective(y)
      /\ \A e : (\E i \in DOMAIN y : y[i] = e) <=> (InLog(p, e) \/ Has(x, e))
  <2>1. Live(ms)
    BY <1>1, Zenon
  <2>2. QED
    <3>1. GrownTo(p, x, y)
      BY <1>1, <1>2, <1>3, <2>1, GrownLog
    <3>2. QED
      BY <3>1, Zenon DEF GrownTo
<1>5. \A e : InSeq(y, e) <=> (InSeq(log[p], e) \/ Has(x, e))
  BY <1>4, Zenon DEF InSeq, InLog
<1>6. QED
  BY <1>1, <1>2, <1>3, <1>4, <1>5, Zenon DEF Grown

\* The end of a request keeps what the logs promise.
LEMMA EndsStored ==
  ASSUME ProducerInv, Shapes', NEW b \in Brokers, NEW r, NEW ms, NEW taken, NEW back,
         Ends(b, r, ms, taken, back), NEW errs, NEW oks, NEW lost,
         Shares(ms, taken, back, errs, oks, lost), m_replies' = Replied(errs, oks), sent' = sent,
         LogGrows(ms), Confirms(ms, oks)
  PROVE  Stored'
<1>0. Shapes /\ Stored
  BY DEF ProducerInv
<1>1. ms \in Seq(Payload(Partitions)) /\ ms = bp[b].flight
  BY <1>0, EndsForm DEF Ends
<1>2. ASSUME NEW e \in Payload(Place)
      PROVE  /\ All(Older(e))' <= All(Older(e)) /\ All(Older(e)) \in Nat /\ All(Older(e))' \in Nat
             /\ Has(ms, e) => All(Older(e))' = 0 /\ All(Older(e)) > 0 /\ e.id <= sent
  <2>1. /\ All(Older(e))' <= All(Older(e))
        /\ (\E i \in 1..Len(ms) : ms[i] = e) => All(Older(e))' = 0 /\ All(Older(e)) > 0 /\ e.id <= sent
    BY EndsOlder
  <2>2. All(Older(e)) \in Nat /\ All(Older(e))' \in Nat
    BY <1>0, CountsNow, CountsNext DEF Counts
  <2>3. QED
    BY <2>1, <2>2, Zenon DEF Has
<1>3. ASSUME NEW p \in Partitions PROVE Grown(p, ms)
  <2>1. Live(ms)
    BY <1>1, <1>2, Zenon DEF Live
  <2>2. QED
    BY <1>1, <2>1, GrownPart, Zenon
<1>10. \A p, e : InLog(p, e) <=> InSeq(log[p], e)
  BY Zenon DEF InLog, InSeq
<1>11. \A p, e : InLog(p, e)' <=> InSeq(log'[p], e)
  BY Zenon DEF InLog, InSeq
<1>4. ASSUME NEW p \in Partitions, NEW e, InLog(p, e) PROVE InLog(p, e)'
  <2>1. CASE log'[p] = log[p]
    BY <1>4, <1>10, <1>11, <2>1, Zenon
  <2>2. CASE log'[p] = log[p] \o OfPartition(ms, p)
    BY <1>3, <1>4, <1>10, <1>11, <2>2, Zenon DEF Grown
  <2>3. QED
    BY <2>1, <2>2 DEF LogGrows
<1>5. ASSUME NEW p \in Partitions, NEW e, InLog(p, e)' PROVE InLog(p, e) \/ Has(ms, e)
  <2>1. CASE log'[p] = log[p]
    BY <1>5, <1>10, <1>11, <2>1, Zenon
  <2>2. CASE log'[p] = log[p] \o OfPartition(ms, p)
    <3>1. InLog(p, e) \/ Has(OfPartition(ms, p), e)
      BY <1>3, <1>5, <1>10, <1>11, <2>2, Zenon DEF Grown
    <3>2. Has(OfPartition(ms, p), e) => Has(ms, e)
      BY <1>1, OfPartitionItems
    <3>3. QED
      BY <3>1, <3>2, Zenon
  <2>3. QED
    BY <2>1, <2>2 DEF LogGrows
<1>6. ASSUME NEW id \in 1..MaxSent, Good(id)' > 0
      PROVE  \E p \in Partitions : \E e \in Payload({p}) : InLog(p, e)' /\ e.id = id
  <2>1. CASE Num(oks, WithId({id})) > 0
    <3>1. PICK p \in Partitions : /\ log'[p] = log[p] \o OfPartition(ms, p)
                                  /\ Num(OfPartition(ms, p), WithId({id})) > 0
      BY <2>1 DEF Confirms
    <3>2. PICK x : x = OfPartition(ms, p)
      OBVIOUS
    <3>3. x \in Seq(Payload({p})) /\ Num(x, WithId({id})) > 0
      BY <1>1, <3>1, <3>2, OfPartitionItems
    <3>4. ~ \A k \in 1..Len(x) : x[k] \notin WithId({id})
      BY <3>3, NumZero
    <3>5. PICK k \in 1..Len(x) : x[k] \in WithId({id})
      BY <3>4
    <3>6. PICK e : e = x[k]
      OBVIOUS
    <3>7. e \in Payload({p}) /\ e.id = id /\ Has(x, e)
      BY <3>3, <3>5, <3>6 DEF WithId, Has
    <3>8. InLog(p, e)'
      BY <1>3, <1>11, <3>1, <3>2, <3>7, Zenon DEF Grown
    <3>9. QED
      BY <3>7, <3>8, Zenon
  <2>2. CASE ~(Num(oks, WithId({id})) > 0)
    <3>1. errs \in Seq(Payload(Place)) /\ oks \in Seq(Payload(Place))
      BY DEF Shares
    <3>2. id \in 0..MaxSent
      OBVIOUS
    <3>3. Good(id)' = Good(id) + Num(oks, WithId({id}))
      BY <1>0, <3>1, <3>2, ReplyCounts
    <3>4. PICK u \in Nat, v \in Nat : u = Num(oks, WithId({id})) /\ v = Good(id)
      BY <1>0, <3>1, <3>2, NumPositions, RepliesNat
    <3>5. v + u > 0
      BY <1>6, <3>3, <3>4, Zenon
    <3>6. ~(u > 0)
      BY <2>2, <3>4, Zenon
    <3>7. v > 0
      BY <3>5, <3>6
    <3>8. Good(id) > 0
      BY <3>4, <3>7, Zenon
    <3>9. PICK p \in Partitions : \E e \in Payload({p}) : InLog(p, e) /\ e.id = id
      BY <1>0, <3>8, Zenon DEF Stored
    <3>10. PICK e \in Payload({p}) : InLog(p, e) /\ e.id = id
      BY <3>9, Zenon
    <3>11. QED
      BY <1>4, <3>10, Zenon
  <2>3. QED
    BY <2>1, <2>2
<1>7. ASSUME NEW p \in Partitions PROVE IsInjective(log'[p])
  <2>1. CASE log'[p] = log[p]
    BY <1>0, <2>1, Zenon DEF Stored
  <2>2. CASE log'[p] = log[p] \o OfPartition(ms, p)
    BY <1>3, <2>2, Zenon DEF Grown
  <2>3. QED
    BY <2>1, <2>2 DEF LogGrows
<1>8. ASSUME NEW p \in Partitions, NEW e \in Payload({p}), InLog(p, e)'
      PROVE  e.id <= sent' /\ All(Older(e))' = 0
  <2>1. e \in Payload(Place)
    BY ItemSets, Zenon
  <2>2. PICK x \in Nat, x2 \in Nat : x = All(Older(e)) /\ x2 = All(Older(e))' /\ x2 <= x
    BY <1>2, <2>1
  <2>3. CASE InLog(p, e)
    <3>1. e.id <= sent /\ All(Older(e)) = 0
      BY <1>0, <2>3 DEF Stored
    <3>2. x = 0
      BY <2>2, <3>1, Zenon
    <3>3. x2 = 0
      BY <2>2, <3>2
    <3>4. QED
      BY <2>2, <3>1, <3>3, Zenon
  <2>4. CASE Has(ms, e)
    BY <1>2, <2>1, <2>4, Zenon
  <2>5. QED
    BY <1>5, <1>8, <2>3, <2>4
<1>9. QED
  BY <1>6, <1>7, <1>8, Zenon DEF Stored

\* The end of a request keeps m_in_flight exact.
LEMMA EndsFlight ==
  ASSUME ProducerInv, Shapes', NEW b \in Brokers, NEW r, NEW ms, NEW taken, NEW back,
         Ends(b, r, ms, taken, back), NEW errs, NEW oks, NEW lost,
         Shares(ms, taken, back, errs, oks, lost), Reply(errs, oks, 0),
         dropped' = dropped \cup {lost[i].id : i \in DOMAIN lost}
  PROVE  InFlightExact'
<1>0. Shapes
  BY DEF ProducerInv
<1>1. /\ ms \in Seq(Payload(Partitions)) /\ taken \in Seq(Payload(Partitions)) /\ back \in Seq(Back)
      /\ BrokerShift(b, r, back)
      /\ r \in BrokerShape /\ bp[b] \in BrokerShape
  BY <1>0, EndsForm
<1>2. /\ errs \in Seq(Payload(Place)) /\ oks \in Seq(Payload(Place)) /\ lost \in Seq(Payload(Partitions))
      /\ ms = bp[b].flight /\ \A T : Num(lost, T) <= Num(ms, T)
      /\ Len(back) + Len(errs) + Len(oks) + Len(lost) = Len(ms) + Len(taken)
  BY DEF Shares, Ends
<1>3. PICK u \in Nat, v \in Nat, w \in Nat, n \in Nat, m \in Nat, t \in Nat :
        u = Len(errs) /\ v = Len(oks) /\ w = Len(lost) /\ n = Len(back) /\ m = Len(ms) /\ t = Len(taken)
  <2>1. /\ Len(errs) \in Nat /\ Len(oks) \in Nat /\ Len(lost) \in Nat
        /\ Len(back) \in Nat /\ Len(ms) \in Nat /\ Len(taken) \in Nat
    BY <1>1, <1>2
  <2>2. QED
    BY <2>1, Zenon
<1>4. n + u + v + w = m + t
  BY <1>2, <1>3, Zenon
<1>5. Num(back, Message) = n /\ Num(ms, Message) = m /\ Num(taken, Message) = t
  BY <1>1, <1>3, ItemSets, NumAll
<1>6. Cardinality(dropped)' = Cardinality(dropped) + w
  <2>1. Cardinality(dropped') = Cardinality(dropped) + Len(lost)
    BY <1>2, LostDropped
  <2>2. QED
    BY <1>3, <2>1, Zenon
<1>7. PICK f \in Nat : f = m_in_flight
  BY InFlightNat
<1>8. m_in_flight' = f + 0 - u - v
  BY <1>3, <1>7, Zenon DEF Reply
<1>9. PICK h \in Nat, h2 \in Nat : h = Held(bp[b], Message) /\ h2 = Held(r, Message)
  BY <1>1, HeldNat
<1>10. Held(r, Message) + Num(ms, Message) + Num(taken, Message) = Held(bp[b], Message)
  BY <1>0, EndsHeld
<1>11. h2 + m + t = h
  BY <1>5, <1>9, <1>10, Zenon
<1>12. f + 0 - u - v \in Int /\ (f + 0 - u - v) + h = f + n + h2 + w /\ w \in Int
  BY <1>4, <1>11
<1>13. m_in_flight' \in Int /\ w \in Int
  BY <1>8, <1>12, Zenon
<1>14. m_in_flight' + Held(bp[b], Message) = m_in_flight + Num(back, Message) + Held(r, Message) + w
  BY <1>5, <1>7, <1>8, <1>9, <1>12, Zenon
<1>15. QED
  BY <1>1, <1>6, <1>13, <1>14, BrokerFlight, Zenon

\* A request that ends keeps the invariant.
LEMMA EndsMoved ==
  ASSUME ProducerInv, NEW b \in Brokers, NEW r, NEW ms, NEW taken, NEW back,
         Ends(b, r, ms, taken, back), NEW errs, NEW oks, NEW lost,
         Shares(ms, taken, back, errs, oks, lost), Reply(errs, oks, 0),
         dropped' = dropped \cup {lost[i].id : i \in DOMAIN lost},
         log' \in [Partitions -> Seq(Message)], LogGrows(ms), Confirms(ms, oks),
         UNCHANGED <<sent, closing, leader>>
  PROVE  ProducerInv'
<1>0. Shapes /\ Expected /\ Accounts /\ Stored
  BY DEF ProducerInv
<1>1. /\ ms \in Seq(Payload(Partitions)) /\ BrokerShift(b, r, back) /\ r \in BrokerShape /\ bp[b] \in BrokerShape
  BY <1>0, EndsForm
<1>2. /\ errs \in Seq(Payload(Place)) /\ oks \in Seq(Payload(Place)) /\ lost \in Seq(Payload(Partitions))
      /\ ms = bp[b].flight /\ \A T : Num(lost, T) <= Num(ms, T)
  BY DEF Shares, Ends
<1>3. m_replies' = Replied(errs, oks)
  BY DEF Reply
<1>4. m_replies' \in [(0..MaxSent) \X BOOLEAN -> Nat]
  BY <1>0, <1>2, <1>3, ReplyCounts
<1>5. dropped' \subseteq 1..MaxSent
  BY <1>2, LostDropped
<1>6. /\ bp' = [bp EXCEPT ![b] = r] /\ back \in Seq(Back) /\ m_retries' = m_retries \o back
      /\ UNCHANGED <<m_input, topic_input, pp, retry_buf>>
  BY <1>1 DEF BrokerShift
<1>7. ASSUME NEW p \in Partitions PROVE log'[p] \in Seq(Payload({p}))
  <2>1. log[p] \in Seq(Payload({p}))
    BY <1>0 DEF Shapes
  <2>2. OfPartition(ms, p) \in Seq(Payload({p}))
    BY <1>1, OfPartitionItems
  <2>3. log[p] \o OfPartition(ms, p) \in Seq(Payload({p}))
    BY <2>1, <2>2, ConcatProperties
  <2>4. QED
    BY <2>1, <2>3, Zenon DEF LogGrows
<1>8. Shapes'
  <2>1. bp' \in [Brokers -> BrokerShape]
    BY <1>0, <1>1, <1>6 DEF Shapes
  <2>2. m_retries' \in Seq(Back)
    BY <1>0, <1>6, ConcatProperties DEF Shapes
  <2>3. QED
    BY <1>0, <1>4, <1>5, <1>6, <1>7, <2>1, <2>2 DEF Shapes
<1>9. Accounts'
  BY <1>3, <1>8, EndsAccounts
<1>10. Stored'
  BY <1>3, <1>8, EndsStored
<1>11. InFlightExact'
  BY <1>8, EndsFlight
<1>12. Expected'
  <2>1. ASSUME NEW p \in Partitions, NEW l \in 1..RetryMax PROVE Chasers(p, l)' = Chasers(p, l)
    <3>0. PICK G, F : G = Fin(p, l) /\ F = Fin(p, l - 1)
      OBVIOUS
    <3>1. /\ r.m_input = bp[b].m_input /\ Num(back, G) = 0
          /\ Num(Sets(r), G) + Num(ms, G) + Num(taken, G) = Num(Sets(bp[b]), G)
      BY <3>0, Zenon DEF Ends
    <3>2. Num(ms, G) = 0 /\ Num(taken, G) = 0
      <4>1. taken \in Seq(Payload(Partitions))
        BY DEF Ends
      <4>2. \A m \in Payload(Partitions) : m \notin G
        BY <3>0 DEF Payload, Fin
      <4>3. \A i \in 1..Len(ms) : ms[i] \notin G
        BY <1>1, <4>2
      <4>4. \A i \in 1..Len(taken) : taken[i] \notin G
        BY <4>1, <4>2
      <4>5. QED
        BY <1>1, <4>1, <4>3, <4>4, NumZero
    <3>3. PICK a \in Nat, c \in Nat, c2 \in Nat :
            a = Num(r.m_input, F) /\ c = Num(Sets(bp[b]), G) /\ c2 = Num(Sets(r), G)
      BY <1>1, HeldNat
    <3>4. c2 + 0 + 0 = c
      BY <3>1, <3>2, <3>3, Zenon
    <3>5. a + c2 + 0 = a + c
      BY <3>4
    <3>6. ChaserPasses(b, r, back, p, l)
      BY <3>0, <3>1, <3>3, <3>5, Zenon DEF ChaserPasses
    <3>7. QED
      BY <1>0, <1>1, <1>8, <3>6, BrokerChasers, ZenonT(60)
  <2>2. QED
    BY <1>0, <1>6, <2>1, KeepExpected, Zenon
<1>13. \A p \in Partitions : Watermark(p, pp'[p])
  BY <1>6, SameWatermark
<1>14. QED
  BY <1>8, <1>9, <1>10, <1>11, <1>12, <1>13 DEF ProducerInv

\* What is left of a BrokerProducer whose request is over, with a part of its buffer taken.
LEMMA EndsSets ==
  ASSUME NEW q \in BrokerShape, NEW r \in BrokerShape, r.flight = <<>>, r.m_output = q.m_output,
         NEW taken \in Seq(Payload(Partitions)),
         \A T : Num(r.m_buffer, T) + Num(taken, T) = Num(q.m_buffer, T), NEW T
  PROVE  Num(Sets(r), T) + Num(q.flight, T) + Num(taken, T) = Num(Sets(q), T)
<1>1. /\ Num(Sets(r), T) = Num(r.flight, T) + Num(FlattenSeq(r.m_output), T) + Num(r.m_buffer, T)
      /\ Num(r.m_buffer, T) \in Nat
  BY SetsCount, Zenon
<1>2. /\ Num(Sets(q), T) = Num(q.flight, T) + Num(FlattenSeq(q.m_output), T) + Num(q.m_buffer, T)
      /\ Num(q.flight, T) \in Nat /\ Num(FlattenSeq(q.m_output), T) \in Nat /\ Num(q.m_buffer, T) \in Nat
  BY SetsCount, Zenon
<1>3. Num(r.flight, T) = 0
  BY NumEmpty, Zenon
<1>4. PICK f \in Nat, o \in Nat, u \in Nat, u2 \in Nat :
        /\ f = Num(q.flight, T) /\ o = Num(FlattenSeq(q.m_output), T)
        /\ u = Num(q.m_buffer, T) /\ u2 = Num(r.m_buffer, T)
  BY <1>1, <1>2, Zenon
<1>5. PICK t \in Nat : t = Num(taken, T)
  BY NumPositions
<1>6. u2 + t = u
  BY <1>4, <1>5, Zenon
<1>7. Num(Sets(r), T) = 0 + o + u2 /\ Num(Sets(q), T) = f + o + u
  BY <1>1, <1>2, <1>3, <1>4, Zenon
<1>8. (0 + o + u2) + f + t = f + o + u
  BY <1>6
<1>9. QED
  BY <1>4, <1>5, <1>7, <1>8, Zenon

\* The part of a batch that belongs to a group of partitions.
LEMMA PartItems ==
  ASSUME NEW s \in Seq(Payload(Partitions)), NEW S
  PROVE  /\ OfPartitions(s, S) \in Seq(Payload(Partitions))
         /\ \A e : Has(OfPartitions(s, S), e) => e \in OfPart(S)
         /\ \A T : /\ Num(OfPartitions(s, S), T) = Num(s, OfPart(S) \cap T)
                   /\ Num(OfPartitions(s, S), T) \in Nat /\ Num(OfPartitions(s, S), T) <= Num(s, T)
<1>1. PICK U : U = OfPart(S)
  OBVIOUS
<1>2. PICK M : M = Payload(Partitions) /\ s \in Seq(M)
  OBVIOUS
<1>3. PICK x : x = Only(s, U)
  OBVIOUS
<1>4. OfPartitions(s, S) = x
  BY <1>1, <1>3, Zenon DEF OfPartitions
<1>5. x \in Seq(M \cap U)
  BY <1>2, <1>3, OnlyIn
<1>6. x \in Seq(M)
  BY <1>5, SeqWiden
<1>7. ASSUME NEW T PROVE Num(x, T) = Num(s, U \cap T) /\ Num(x, T) \in Nat /\ Num(x, T) <= Num(s, T)
  <2>1. Num(Only(s, U), T) = Num(s, U \cap T)
    BY <1>2, NumOnly
  <2>2. Num(s, U \cap T) <= Num(s, T)
    BY <1>2, NumMono
  <2>3. Num(x, T) \in Nat
    BY <1>6, NumPositions
  <2>4. QED
    BY <1>3, <2>1, <2>2, <2>3, Zenon
<1>8. ASSUME NEW e, Has(x, e) PROVE e \in U
  <2>1. PICK k \in 1..Len(x) : x[k] = e
    BY <1>8, Zenon DEF Has
  <2>2. QED
    BY <1>5, <2>1
<1>9. QED
  BY <1>1, <1>2, <1>4, <1>6, <1>7, <1>8, Zenon

\* The items of a batch are those of two groups of its partitions.
LEMMA PartSplit ==
  ASSUME NEW ps \in SUBSET Partitions, NEW s \in Seq(Payload(ps)), NEW A, NEW B, A \cap B = {}, NEW T
  PROVE  Num(OfPartitions(s, A \cup B), T) = Num(OfPartitions(s, A), T) + Num(OfPartitions(s, B), T)
<1>1. Payload(ps) \subseteq Payload(Partitions)
  BY DEF Payload
<1>2. s \in Seq(Payload(Partitions))
  BY <1>1, SeqWiden
<1>3. \A m \in Payload(ps) : \A S : m \in OfPart(S) <=> m.part \in S
  BY KafkaProducerAssumption DEF Payload, OfPart, Id, Kind
<1>5. PICK C : C = A \cup B
  OBVIOUS
<1>6. /\ \A m \in Payload(ps) : m \in OfPart(C) \cap T <=> m \in OfPart(A) \cap T \/ m \in OfPart(B) \cap T
      /\ \A m \in Payload(ps) : ~(m \in OfPart(A) \cap T /\ m \in OfPart(B) \cap T)
  BY <1>3, <1>5
<1>7. Num(s, OfPart(C) \cap T) = Num(s, OfPart(A) \cap T) + Num(s, OfPart(B) \cap T)
  BY <1>6, NumSplit
<1>9. \A S : Num(OfPartitions(s, S), T) = Num(s, OfPart(S) \cap T)
  BY <1>2, PartItems
<1>10. QED
  BY <1>5, <1>7, <1>9, Zenon

\* All of a batch belongs to all of its partitions.
LEMMA PartWhole ==
  ASSUME NEW ps \in SUBSET Partitions, NEW s \in Seq(Payload(ps)), NEW A, ps \subseteq A, NEW T
  PROVE  Num(OfPartitions(s, A), T) = Num(s, T)
<1>1. Payload(ps) \subseteq Payload(Partitions)
  BY DEF Payload
<1>2. s \in Seq(Payload(Partitions))
  BY <1>1, SeqWiden
<1>3. \A m \in Payload(ps) : m \in OfPart(A) \cap T <=> m \in T
  BY KafkaProducerAssumption DEF Payload, OfPart, Id, Kind
<1>4. Num(s, OfPart(A) \cap T) = Num(s, T)
  BY <1>3, NumSame
<1>5. Num(OfPartitions(s, A), T) = Num(s, OfPart(A) \cap T)
  BY <1>2, PartItems
<1>6. QED
  BY <1>4, <1>5, Zenon

\* A partition is confirmed only after its part of the request was stored.
LEMMA ConfirmsForm ==
  ASSUME NEW ms \in Seq(Payload(Partitions)), NEW ok \in SUBSET Partitions,
         \A p \in ok : log'[p] = log[p] \o OfPartition(ms, p)
  PROVE  Confirms(ms, OfPartitions(ms, ok))
<1> SUFFICES ASSUME NEW id \in 1..MaxSent, Num(OfPartitions(ms, ok), WithId({id})) > 0
             PROVE  \E p \in Partitions : /\ log'[p] = log[p] \o OfPartition(ms, p)
                                          /\ Num(OfPartition(ms, p), WithId({id})) > 0
  BY Zenon DEF Confirms
<1>1. PICK T : T = WithId({id})
  OBVIOUS
<1>2. PICK n \in Nat : n = Num(ms, OfPart(ok) \cap T)
  BY NumPositions
<1>3. Num(OfPartitions(ms, ok), T) = n
  BY <1>2, PartItems, Zenon
<1>4. n > 0
  BY <1>1, <1>3, Zenon
<1>5. n # 0
  BY <1>4
<1>6. ~ \A i \in 1..Len(ms) : ms[i] \notin OfPart(ok) \cap T
  BY <1>2, <1>5, NumZero
<1>7. PICK i \in 1..Len(ms) : ms[i] \in OfPart(ok) \cap T
  BY <1>6
<1>8. PICK p : p = ms[i].part
  OBVIOUS
<1>9. p \in ok /\ ms[i] \in OfPart({p}) \cap T
  BY <1>7, <1>8 DEF OfPart
<1>10. PICK m \in Nat : m = Num(ms, OfPart({p}) \cap T)
  BY NumPositions
<1>11. m >= 1
  BY <1>9, <1>10, NumSome
<1>12. m > 0
  BY <1>11
<1>13. Num(OfPartition(ms, p), T) = m
  BY <1>10, PartItems, Zenon DEF OfPartition
<1>14. Num(OfPartition(ms, p), WithId({id})) > 0
  BY <1>1, <1>12, <1>13, Zenon
<1>15. QED
  BY <1>9, <1>14, Zenon

\* A BrokerProducer whose request is over.
LEMMA EmptyFlight ==
  ASSUME NEW q \in BrokerShape, NEW r, r = [q EXCEPT !.flight = <<>>]
  PROVE  /\ r \in BrokerShape /\ r.flight = <<>> /\ r.m_output = q.m_output /\ r.m_buffer = q.m_buffer
         /\ r.m_input = q.m_input
<1>1. <<>> \in Seq(Payload(Partitions))
  OBVIOUS
<1>2. QED
  BY <1>1 DEF BrokerShape

\* A request that ends with nothing going back.
LEMMA EndsPlain ==
  ASSUME ProducerInv, NEW b \in Brokers, bp' = [bp EXCEPT ![b].flight = <<>>],
         UNCHANGED <<m_input, topic_input, pp, retry_buf, m_retries>>
  PROVE  \E r : Ends(b, r, bp[b].flight, <<>>, <<>>)
<1>0. Shapes
  BY DEF ProducerInv
<1>1. bp[b] \in BrokerShape
  BY <1>0 DEF Shapes
<1>2. PICK r : r = [bp[b] EXCEPT !.flight = <<>>]
  OBVIOUS
<1>3. bp' = [bp EXCEPT ![b] = r]
  BY <1>0, <1>1, <1>2 DEF Shapes
<1>4. /\ r \in BrokerShape /\ r.flight = <<>> /\ r.m_output = bp[b].m_output /\ r.m_buffer = bp[b].m_buffer
      /\ r.m_input = bp[b].m_input
  BY <1>1, <1>2, EmptyFlight
<1>5. m_retries' = m_retries \o <<>> /\ <<>> \in Seq(Back) /\ <<>> \in Seq(Payload(Partitions))
  <2>1. m_retries \in Seq(Back)
    BY <1>0 DEF Shapes
  <2>2. m_retries \o <<>> = m_retries
    BY <2>1
  <2>3. QED
    BY <2>2
<1>6. BrokerShift(b, r, <<>>)
  BY <1>3, <1>4, <1>5 DEF BrokerShift
<1>7. \A T : Num(<<>>, T) = 0
  BY NumEmpty
<1>8. ASSUME NEW T PROVE Num(r.m_buffer, T) + Num(<<>>, T) = Num(bp[b].m_buffer, T)
  <2>1. PICK u \in Nat : u = Num(bp[b].m_buffer, T)
    BY <1>1, SetsCount
  <2>2. Num(r.m_buffer, T) = u /\ Num(<<>>, T) = 0
    BY <1>4, <1>7, <2>1, Zenon
  <2>3. u + 0 = u
    OBVIOUS
  <2>4. QED
    BY <2>1, <2>2, <2>3, Zenon
<1>9. \A T : Num(Sets(r), T) + Num(bp[b].flight, T) + Num(<<>>, T) = Num(Sets(bp[b]), T)
  BY <1>1, <1>4, <1>5, <1>8, EndsSets
<1>10. ASSUME NEW e \in Payload(Place)
       PROVE  Num(<<>>, Older(e)) <= Num(bp[b].flight, Younger(e)) + Num(<<>>, Older(e))
  <2>1. PICK u \in Nat : u = Num(bp[b].flight, Younger(e))
    BY <1>1, SetsCount
  <2>2. 0 <= u + 0
    OBVIOUS
  <2>3. QED
    BY <1>7, <2>1, <2>2, Zenon
<1>11. Ends(b, r, bp[b].flight, <<>>, <<>>)
  BY <1>4, <1>5, <1>6, <1>7, <1>9, <1>10, Zenon DEF Ends
<1>12. QED
  BY <1>11

\* handle_error: every message of the request is answered.
LEMMA ConnectionFailsStep ==
  ASSUME ProducerInv, NEW b \in Brokers, ConnectionFails(b)
  PROVE  ProducerInv'
<1>0. Shapes
  BY DEF ProducerInv
<1>1. PICK ms : ms = bp[b].flight
  OBVIOUS
<1>2. bp[b] \in BrokerShape /\ ms \in Seq(Payload(Partitions))
  BY <1>0, <1>1 DEF Shapes, BrokerShape
<1>3. /\ Reply(ms, <<>>, 0) /\ bp' = [bp EXCEPT ![b].flight = <<>>]
      /\ UNCHANGED <<sent, m_input, topic_input, pp, m_retries, retry_buf, closing, leader, dropped>>
  BY <1>1, Zenon DEF ConnectionFails
<1>4. PICK r : Ends(b, r, ms, <<>>, <<>>)
  BY <1>1, <1>3, EndsPlain, Zenon
<1>5. \A T : Num(<<>>, T) = 0
  BY NumEmpty
<1>6. ms \in Seq(Payload(Place)) /\ <<>> \in Seq(Payload(Place)) /\ <<>> \in Seq(Payload(Partitions))
  BY <1>2, ItemSets, SeqWiden
<1>7. Shares(ms, <<>>, <<>>, ms, <<>>, <<>>)
  <2>1. ASSUME NEW T PROVE /\ Num(<<>>, T) + Num(ms, T) + Num(<<>>, T) + Num(<<>>, T) = Num(ms, T) + Num(<<>>, T)
                           /\ Num(<<>>, T) <= Num(ms, T)
    <3>1. PICK n \in Nat : n = Num(ms, T)
      BY <1>2, NumPositions
    <3>2. 0 + n + 0 + 0 = n + 0 /\ 0 <= n
      OBVIOUS
    <3>3. QED
      BY <1>5, <3>1, <3>2, Zenon
  <2>2. Len(<<>>) + Len(ms) + Len(<<>>) + Len(<<>>) = Len(ms) + Len(<<>>)
    BY <1>2
  <2>3. QED
    BY <1>6, <2>1, <2>2, Zenon DEF Shares
<1>8. dropped' = dropped \cup {<<>>[i].id : i \in DOMAIN <<>>}
  BY <1>3
<1>9. LogGrows(ms) /\ log' \in [Partitions -> Seq(Message)]
  <2>1. CASE log' = log
    BY <1>0, <2>1 DEF LogGrows, Shapes
  <2>2. CASE log' = [p \in Partitions |-> IF p \in {x \in Partitions : leader[x].at = b}
                                          THEN log[p] \o OfPartition(ms, p) ELSE log[p]]
    <3>1. LogGrows(ms)
      BY <2>2 DEF LogGrows
    <3>2. ASSUME NEW p \in Partitions PROVE log[p] \o OfPartition(ms, p) \in Seq(Message) /\ log[p] \in Seq(Message)
      <4>1. OfPartition(ms, p) \in Seq(Payload({p}))
        BY <1>2, OfPartitionItems
      <4>2. Payload({p}) \subseteq Message
        BY ItemTypes, ItemSets
      <4>3. OfPartition(ms, p) \in Seq(Message) /\ log[p] \in Seq(Message)
        BY <1>0, <4>1, <4>2, SeqWiden DEF Shapes
      <4>4. QED
        BY <4>3, ConcatProperties
    <3>3. QED
      BY <2>2, <3>1, <3>2
  <2>3. QED
    BY <1>1, <2>1, <2>2, Zenon DEF ConnectionFails
<1>10. Confirms(ms, <<>>)
  <2>1. ASSUME NEW id \in 1..MaxSent PROVE ~(Num(<<>>, WithId({id})) > 0)
    <3>1. Num(<<>>, WithId({id})) = 0
      BY <1>5
    <3>2. ~(0 > 0)
      OBVIOUS
    <3>3. QED
      BY <3>1, <3>2, Zenon
  <2>2. QED
    BY <2>1 DEF Confirms
<1>11. QED
  BY <1>3, <1>4, <1>7, <1>8, <1>9, <1>10, EndsMoved, Zenon

-----------------------------------------------------------------------------
(* Answered: handle_success                                                         *)

\* The partitions of a request.
Parts(ms) == {ms[i].part : i \in DOMAIN ms}
\* What the answer may say of a partition, and whether its messages were stored.
Verdicts == {"stored", "retry", "retry_stored", "other"}

\* What Answered does of the verdicts res on the partitions of the request ms.
AnswerCases(b, ms, ps, res, ok, failed, other) ==
  /\ log' = [p \in Partitions |-> IF p \in ps /\ res[p] \in {"stored", "retry_stored"}
                                  THEN log[p] \o OfPartition(ms, p) ELSE log[p]]
  /\ IF RetryMax = 0
     THEN /\ Reply(OfPartitions(ms, ps \ ok), OfPartitions(ms, ok), 0)
          /\ bp' = [bp EXCEPT ![b].flight = <<>>]
          /\ UNCHANGED <<m_retries, dropped>>
     ELSE /\ RetryMessages(OfPartitions(ms, failed) \o OfPartitions(bp[b].m_buffer, failed),
                           OfPartitions(ms, ok), 0)
          /\ bp' = [bp EXCEPT ![b].flight = <<>>,
                     ![b].m_buffer = OfPartitions(@, Partitions \ failed),
                     ![b].m_current_retries = [p \in Partitions |->
                                                 IF p \in failed THEN "err" ELSE @[p]]]
          /\ dropped' = dropped \cup {OfPartitions(ms, other)[i].id : i \in DOMAIN OfPartitions(ms, other)}

\* handle_success is one of its branches.
LEMMA AnsweredIsCases ==
  ASSUME NEW b, Answered(b)
  PROVE  \E res \in [Parts(bp[b].flight) -> Verdicts] :
           AnswerCases(b, bp[b].flight, Parts(bp[b].flight), res,
                       {p \in Parts(bp[b].flight) : res[p] = "stored"},
                       {p \in Parts(bp[b].flight) : res[p] \in {"retry", "retry_stored"}},
                       {p \in Parts(bp[b].flight) : res[p] = "other"})
BY Zenon DEF Answered, AnswerCases, Parts, Verdicts

\* A request is made of messages of its partitions.
LEMMA PartsType ==
  ASSUME NEW ms \in Seq(Payload(Partitions))
  PROVE  Parts(ms) \subseteq Partitions /\ ms \in Seq(Payload(Parts(ms)))
<1>1. \A i \in 1..Len(ms) : ms[i] \in Payload(Partitions) /\ ms[i].part \in Parts(ms)
  BY DEF Parts
<1>2. Parts(ms) \subseteq Partitions
  BY <1>1 DEF Payload, Parts
<1>3. \A i \in 1..Len(ms) : ms[i] \in Payload(Parts(ms))
  BY <1>1 DEF Payload
<1>4. PICK M : M = Payload(Parts(ms))
  OBVIOUS
<1>5. \A i \in 1..Len(ms) : ms[i] \in M
  BY <1>3, <1>4, Zenon
<1>6. ms \in Seq(M)
  BY <1>5
<1>7. QED
  BY <1>2, <1>4, <1>6, Zenon

\* What every message of the request comes to.
Sorted(ms, ok, failed, other) ==
  /\ ok \subseteq Partitions /\ failed \subseteq Partitions /\ other \subseteq Partitions
  /\ \A T : Num(OfPartitions(ms, failed), T) + Num(OfPartitions(ms, ok), T) + Num(OfPartitions(ms, other), T)
              = Num(ms, T)
  /\ \A T : Num(OfPartitions(ms, Parts(ms) \ ok), T) + Num(OfPartitions(ms, ok), T) = Num(ms, T)

\* ms in two groups of its partitions.
LEMMA SortedSums ==
  ASSUME NEW ps \in SUBSET Partitions, NEW ms \in Seq(Payload(ps)), NEW A, NEW B, A \cap B = {},
         ps \subseteq A \cup B, NEW T
  PROVE  Num(OfPartitions(ms, A), T) + Num(OfPartitions(ms, B), T) = Num(ms, T)
<1>1. PICK C : C = A \cup B
  OBVIOUS
<1>2. Num(OfPartitions(ms, A \cup B), T) = Num(OfPartitions(ms, A), T) + Num(OfPartitions(ms, B), T)
  BY PartSplit
<1>3. ps \subseteq C
  BY <1>1
<1>4. Num(OfPartitions(ms, C), T) = Num(ms, T)
  BY <1>3, PartWhole
<1>5. QED
  BY <1>1, <1>2, <1>4, Zenon

\* ms in three groups of its partitions.
LEMMA SortedThree ==
  ASSUME NEW ps \in SUBSET Partitions, NEW ms \in Seq(Payload(ps)), NEW A, NEW B, NEW C,
         A \cap B = {}, (A \cup B) \cap C = {}, ps \subseteq (A \cup B) \cup C, NEW T
  PROVE  Num(OfPartitions(ms, A), T) + Num(OfPartitions(ms, B), T) + Num(OfPartitions(ms, C), T) = Num(ms, T)
<1>1. PICK D : D = A \cup B
  OBVIOUS
<1>2. Num(OfPartitions(ms, A \cup B), T) = Num(OfPartitions(ms, A), T) + Num(OfPartitions(ms, B), T)
  BY PartSplit
<1>3. D \cap C = {} /\ ps \subseteq D \cup C
  BY <1>1
<1>4. Num(OfPartitions(ms, D), T) + Num(OfPartitions(ms, C), T) = Num(ms, T)
  BY <1>3, SortedSums
<1>5. QED
  BY <1>1, <1>2, <1>4, Zenon

\* The verdicts sort the partitions of a request.
LEMMA SortedParts ==
  ASSUME NEW ms \in Seq(Payload(Partitions)), NEW res \in [Parts(ms) -> Verdicts]
  PROVE  Sorted(ms, {p \in Parts(ms) : res[p] = "stored"},
                {p \in Parts(ms) : res[p] \in {"retry", "retry_stored"}}, {p \in Parts(ms) : res[p] = "other"})
<1>1. PICK ps : ps = Parts(ms)
  OBVIOUS
<1>2. ps \in SUBSET Partitions /\ ms \in Seq(Payload(ps))
  BY <1>1, PartsType
<1>3. \A p \in ps : res[p] \in Verdicts
  BY <1>1
<1>4. PICK ok, failed, other : /\ ok = {p \in ps : res[p] = "stored"}
                               /\ failed = {p \in ps : res[p] \in {"retry", "retry_stored"}}
                               /\ other = {p \in ps : res[p] = "other"}
  OBVIOUS
<1>5. /\ ok \subseteq ps /\ failed \subseteq ps /\ other \subseteq ps
      /\ failed \cap ok = {} /\ (failed \cup ok) \cap other = {} /\ ps \subseteq (failed \cup ok) \cup other
      /\ (ps \ ok) \cap ok = {} /\ ps \subseteq (ps \ ok) \cup ok
  BY <1>3, <1>4 DEF Verdicts
<1>6. \A T : Num(OfPartitions(ms, failed), T) + Num(OfPartitions(ms, ok), T) + Num(OfPartitions(ms, other), T)
               = Num(ms, T)
  BY <1>2, <1>5, SortedThree
<1>7. \A T : Num(OfPartitions(ms, ps \ ok), T) + Num(OfPartitions(ms, ok), T) = Num(ms, T)
  BY <1>2, <1>5, SortedSums
<1>8. ok \subseteq Partitions /\ failed \subseteq Partitions /\ other \subseteq Partitions
  BY <1>2, <1>5
<1>9. Sorted(ms, ok, failed, other)
  BY <1>1, <1>6, <1>7, <1>8, Zenon DEF Sorted
<1>10. QED
  BY <1>1, <1>4, <1>9, Zenon

\* The logs after an answer.
LEMMA AnsweredLog ==
  ASSUME Shapes, NEW ms \in Seq(Payload(Partitions)), NEW ps \in SUBSET Partitions, NEW res \in [ps -> Verdicts],
         NEW ok, ok = {p \in ps : res[p] = "stored"},
         log' = [p \in Partitions |-> IF p \in ps /\ res[p] \in {"stored", "retry_stored"}
                                      THEN log[p] \o OfPartition(ms, p) ELSE log[p]]
  PROVE  log' \in [Partitions -> Seq(Message)] /\ LogGrows(ms) /\ Confirms(ms, OfPartitions(ms, ok))
<1>1. LogGrows(ms)
  BY DEF LogGrows
<1>2. \A p \in ok : p \in Partitions /\ log'[p] = log[p] \o OfPartition(ms, p)
  OBVIOUS
<1>3. Confirms(ms, OfPartitions(ms, ok))
  <2>1. ok \in SUBSET Partitions
    BY <1>2
  <2>2. QED
    BY <1>2, <2>1, ConfirmsForm
<1>4. ASSUME NEW p \in Partitions PROVE log[p] \o OfPartition(ms, p) \in Seq(Message) /\ log[p] \in Seq(Message)
  <2>1. OfPartition(ms, p) \in Seq(Payload({p}))
    BY OfPartitionItems
  <2>2. Payload({p}) \subseteq Message
    BY ItemTypes, ItemSets
  <2>3. OfPartition(ms, p) \in Seq(Message) /\ log[p] \in Seq(Message)
    BY <2>1, <2>2, SeqWiden DEF Shapes
  <2>4. QED
    BY <2>3, ConcatProperties
<1>5. log' \in [Partitions -> Seq(Message)]
  BY <1>4
<1>6. QED
  BY <1>1, <1>3, <1>5

\* The answer when no message is tried again: each is answered.
LEMMA AnsweredPlain ==
  ASSUME ProducerInv, NEW b \in Brokers, NEW ms, ms = bp[b].flight, NEW ok, NEW failed, NEW other,
         Sorted(ms, ok, failed, other), Reply(OfPartitions(ms, Parts(ms) \ ok), OfPartitions(ms, ok), 0),
         bp' = [bp EXCEPT ![b].flight = <<>>],
         log' \in [Partitions -> Seq(Message)], LogGrows(ms), Confirms(ms, OfPartitions(ms, ok)),
         UNCHANGED <<sent, m_input, topic_input, pp, retry_buf, closing, leader, m_retries, dropped>>
  PROVE  ProducerInv'
<1>0. Shapes
  BY DEF ProducerInv
<1>1. bp[b] \in BrokerShape
  BY <1>0 DEF Shapes
<1>2. ms \in Seq(Payload(Partitions))
  BY <1>1 DEF BrokerShape
<1>3. PICK r : Ends(b, r, ms, <<>>, <<>>)
  BY EndsPlain, Zenon
<1>4. PICK errs, oks : errs = OfPartitions(ms, Parts(ms) \ ok) /\ oks = OfPartitions(ms, ok)
  OBVIOUS
<1>5. errs \in Seq(Payload(Partitions)) /\ oks \in Seq(Payload(Partitions))
  BY <1>2, <1>4, PartItems, Zenon
<1>6. /\ errs \in Seq(Payload(Place)) /\ oks \in Seq(Payload(Place)) /\ <<>> \in Seq(Payload(Partitions))
  BY <1>5, ItemSets, SeqWiden
<1>7. ASSUME NEW T
      PROVE  /\ Num(<<>>, T) + Num(errs, T) + Num(oks, T) + Num(<<>>, T) = Num(ms, T) + Num(<<>>, T)
             /\ Num(<<>>, T) <= Num(ms, T) /\ Num(errs, T) + Num(oks, T) = Num(ms, T)
  <2>1. PICK m \in Nat, u \in Nat, v \in Nat : m = Num(ms, T) /\ u = Num(errs, T) /\ v = Num(oks, T)
    BY <1>2, <1>5, NumPositions
  <2>2. Num(errs, T) + Num(oks, T) = Num(ms, T)
    BY <1>4, Zenon DEF Sorted
  <2>3. u + v = m
    BY <2>1, <2>2, Zenon
  <2>4. 0 + u + v + 0 = m + 0 /\ 0 <= m
    BY <2>3
  <2>5. Num(<<>>, T) = 0
    BY NumEmpty
  <2>6. QED
    BY <2>1, <2>2, <2>4, <2>5, Zenon
<1>8. Len(<<>>) + Len(errs) + Len(oks) + Len(<<>>) = Len(ms) + Len(<<>>)
  <2>1. Num(ms, Message) = Len(ms) /\ Num(errs, Message) = Len(errs) /\ Num(oks, Message) = Len(oks)
    BY <1>2, <1>5, TurnType, NumAll
  <2>6. Len(ms) \in Nat /\ Len(errs) \in Nat /\ Len(oks) \in Nat
    BY <1>2, <1>5
  <2>2. PICK m \in Nat, u \in Nat, v \in Nat : m = Len(ms) /\ u = Len(errs) /\ v = Len(oks)
    BY <2>6, Zenon
  <2>3. u + v = m
    BY <1>7, <2>1, <2>2, Zenon
  <2>4. 0 + u + v + 0 = m + 0 /\ Len(<<>>) = 0
    BY <2>3
  <2>5. QED
    BY <2>2, <2>4, Zenon
<1>9. Shares(ms, <<>>, <<>>, errs, oks, <<>>)
  BY <1>6, <1>7, <1>8, Zenon DEF Shares
<1>10. dropped' = dropped \cup {<<>>[i].id : i \in DOMAIN <<>>}
  OBVIOUS
<1>11. Reply(errs, oks, 0) /\ Confirms(ms, oks)
  BY <1>4, Zenon
<1>12. UNCHANGED <<sent, closing, leader>>
  OBVIOUS
<1>13. QED
  BY <1>3, <1>9, <1>10, <1>11, <1>12, EndsMoved

\* A BrokerProducer after some partitions of its request failed.
After(b, failed) ==
  [bp[b] EXCEPT !.flight = <<>>, !.m_buffer = OfPartitions(@, Partitions \ failed),
                !.m_current_retries = [p \in Partitions |-> IF p \in failed THEN "err" ELSE @[p]]]

\* It is a state a BrokerProducer is in.
LEMMA AfterShape ==
  ASSUME NEW b \in Brokers, bp[b] \in BrokerShape, NEW failed \in SUBSET Partitions
  PROVE  /\ After(b, failed) \in BrokerShape /\ After(b, failed).flight = <<>>
         /\ After(b, failed).m_output = bp[b].m_output /\ After(b, failed).m_input = bp[b].m_input
         /\ After(b, failed).m_buffer = OfPartitions(bp[b].m_buffer, Partitions \ failed)
         /\ \A T : Num(After(b, failed).m_buffer, T) + Num(OfPartitions(bp[b].m_buffer, failed), T)
                     = Num(bp[b].m_buffer, T)
<1>1. PICK buf : buf = bp[b].m_buffer
  OBVIOUS
<1>2. PICK rest : rest = OfPartitions(buf, Partitions \ failed)
  OBVIOUS
<1>3. PICK cur : cur = [p \in Partitions |-> IF p \in failed THEN "err" ELSE bp[b].m_current_retries[p]]
  OBVIOUS
<1>4. buf \in Seq(Payload(Partitions)) /\ bp[b].m_current_retries \in [Partitions -> {"none", "ok", "err"}]
  BY <1>1 DEF BrokerShape
<1>5. rest \in Seq(Payload(Partitions)) /\ cur \in [Partitions -> {"none", "ok", "err"}] /\ <<>> \in Seq(Payload(Partitions))
  <2>1. rest \in Seq(Payload(Partitions))
    BY <1>2, <1>4, PartItems, Zenon
  <2>2. cur \in [Partitions -> {"none", "ok", "err"}]
    BY <1>3, <1>4
  <2>3. QED
    BY <2>1, <2>2
<1>6. After(b, failed) = [bp[b] EXCEPT !.flight = <<>>, !.m_buffer = rest, !.m_current_retries = cur]
  BY <1>1, <1>2, <1>3, Zenon DEF After
<1>7. PICK q : q = [bp[b] EXCEPT !.flight = <<>>, !.m_buffer = rest, !.m_current_retries = cur]
  OBVIOUS
<1>8. /\ q \in BrokerShape /\ q.flight = <<>> /\ q.m_output = bp[b].m_output /\ q.m_input = bp[b].m_input
      /\ q.m_buffer = rest
  BY <1>5, <1>7 DEF BrokerShape
<1>9. ASSUME NEW T PROVE Num(rest, T) + Num(OfPartitions(buf, failed), T) = Num(buf, T)
  <2>1. PICK ps, A : ps = Partitions /\ A = Partitions \ failed
    OBVIOUS
  <2>2. ps \in SUBSET Partitions /\ buf \in Seq(Payload(ps)) /\ A \cap failed = {} /\ ps \subseteq A \cup failed
    BY <1>4, <2>1
  <2>3. Num(OfPartitions(buf, A), T) + Num(OfPartitions(buf, failed), T) = Num(buf, T)
    BY <2>2, SortedSums
  <2>4. QED
    BY <1>2, <2>1, <2>3, Zenon
<1>10. QED
  BY <1>1, <1>2, <1>6, <1>7, <1>8, <1>9, Zenon

\* What goes back and what is given up, of the part msf of a request and the part taken of the buffer.
GoesBack(ms, msf, taken, back, errs) ==
  /\ back \in Seq(Back) /\ errs \in Seq(Payload(Place))
  /\ \A e \in Payload(Place) : Num(back, Older(e)) <= Num(ms, Younger(e)) + Num(taken, Older(e))
  /\ \A p \in Partitions, l \in 1..RetryMax : Num(back, Fin(p, l)) = 0
  /\ \A id \in 1..MaxSent :
       Num(back, WithId({id})) + Num(errs, WithId({id})) = Num(msf, WithId({id})) + Num(taken, WithId({id}))
  /\ Len(back) + Len(errs) = Len(msf) + Len(taken)

\* What retry_message does with the failed part and the part taken of the buffer.
LEMMA SentBack ==
  ASSUME NEW ms \in Seq(Payload(Partitions)), NEW msf \in Seq(Payload(Partitions)),
         NEW taken \in Seq(Payload(Partitions)), \A T : Num(msf, T) <= Num(ms, T),
         NEW x, x = msf \o taken
  PROVE  GoesBack(ms, msf, taken, Retried(x), GivenUp(x))
<1>1. x \in Seq(Payload(Partitions)) /\ Len(x) = Len(msf) + Len(taken)
  BY ConcatProperties
<1>2. x \in Seq(Turn)
  BY <1>1, TurnType, SeqWiden
<1>3. \A T : Num(x, T) = Num(msf, T) + Num(taken, T)
  BY NumConcat
<1>4. Retried(x) \in Seq(Back) /\ GivenUp(x) \in Seq(Payload(Partitions))
  BY <1>2, RetriedItems, Zenon
<1>5. GivenUp(x) \in Seq(Payload(Place))
  BY <1>4, ItemSets, SeqWiden
<1>6. /\ Len(Retried(x)) + Len(GivenUp(x)) = Len(x)
      /\ \A id \in 1..MaxSent :
              Num(Retried(x), WithId({id})) + Num(GivenUp(x), WithId({id})) = Num(x, WithId({id}))
      /\ \A e \in Payload(Place) : Num(Retried(x), Older(e)) <= Num(x, Younger(e))
      /\ \A p : \A l \in 1..RetryMax : Num(Retried(x), Fin(p, l)) = Num(x, Fin(p, l - 1))
  BY <1>2, RetriedCounts, Zenon
<1>7. ASSUME NEW e \in Payload(Place)
      PROVE  Num(Retried(x), Older(e)) <= Num(ms, Younger(e)) + Num(taken, Older(e))
  <2>1. PICK Y, O : Y = Younger(e) /\ O = Older(e)
    OBVIOUS
  <2>2. PICK a \in Nat, c \in Nat, d \in Nat, g \in Nat, n \in Nat :
          /\ a = Num(msf, Y) /\ c = Num(taken, Y) /\ d = Num(ms, Y) /\ g = Num(taken, O) /\ n = Num(Retried(x), O)
    BY <1>4, NumPositions
  <2>3. Y \subseteq O
    BY <2>1, OlderType
  <2>4. Num(taken, Y) <= Num(taken, O)
    BY <2>3, NumMono
  <2>5. c <= g
    BY <2>2, <2>4, Zenon
  <2>6. a <= d
    BY <2>2, Zenon
  <2>7. Num(x, Y) = a + c
    BY <1>3, <2>2, Zenon
  <2>8. Num(Retried(x), O) <= Num(x, Y)
    BY <1>6, <2>1, Zenon
  <2>9. n <= a + c
    BY <2>2, <2>7, <2>8, Zenon
  <2>10. n <= d + g
    BY <2>5, <2>6, <2>9
  <2>11. QED
    BY <2>1, <2>2, <2>10, Zenon
<1>8. ASSUME NEW p \in Partitions, NEW l \in 1..RetryMax PROVE Num(Retried(x), Fin(p, l)) = 0
  <2>1. PICK F : F = Fin(p, l - 1)
    OBVIOUS
  <2>2. \A m \in Payload(Partitions) : m \notin F
    BY <2>1 DEF Payload, Fin
  <2>3. \A i \in 1..Len(x) : x[i] \notin F
    BY <1>1, <2>2
  <2>4. Num(x, F) = 0
    BY <1>1, <2>3, NumZero
  <2>5. Num(Retried(x), Fin(p, l)) = Num(x, F)
    BY <1>6, <2>1, Zenon
  <2>6. QED
    BY <2>4, <2>5, Zenon
<1>9. ASSUME NEW id \in 1..MaxSent
      PROVE  Num(Retried(x), WithId({id})) + Num(GivenUp(x), WithId({id}))
               = Num(msf, WithId({id})) + Num(taken, WithId({id}))
  BY <1>3, <1>6, Zenon
<1>10. Len(Retried(x)) + Len(GivenUp(x)) = Len(msf) + Len(taken)
  BY <1>1, <1>6, Zenon
<1>11. QED
  BY <1>4, <1>5, <1>7, <1>8, <1>9, <1>10, Zenon DEF GoesBack

\* What a reply whose failed partitions are retried does.
WentBack(b, ms, ok, failed, taken, lost) ==
  /\ RetryMessages(OfPartitions(ms, failed) \o taken, OfPartitions(ms, ok), 0)
  /\ bp' = [bp EXCEPT ![b] = After(b, failed)]
  /\ dropped' = dropped \cup {lost[i].id : i \in DOMAIN lost}

\* The answer when messages are tried again.
LEMMA AnsweredRetries ==
  ASSUME ProducerInv, NEW b \in Brokers, NEW ms, ms = bp[b].flight, NEW ok, NEW failed, NEW other,
         Sorted(ms, ok, failed, other), NEW taken, taken = OfPartitions(bp[b].m_buffer, failed),
         NEW lost, lost = OfPartitions(ms, other), WentBack(b, ms, ok, failed, taken, lost),
         log' \in [Partitions -> Seq(Message)], LogGrows(ms), Confirms(ms, OfPartitions(ms, ok)),
         UNCHANGED <<sent, m_input, topic_input, pp, retry_buf, closing, leader>>
  PROVE  ProducerInv'
<1>0. Shapes
  BY DEF ProducerInv
<1>1. bp[b] \in BrokerShape
  BY <1>0 DEF Shapes
<1>2. ms \in Seq(Payload(Partitions)) /\ bp[b].m_buffer \in Seq(Payload(Partitions)) /\ failed \in SUBSET Partitions
  BY <1>1 DEF BrokerShape, Sorted
<1>3. PICK msf, oks : msf = OfPartitions(ms, failed) /\ oks = OfPartitions(ms, ok)
  OBVIOUS
<1>4. PICK x : x = msf \o taken
  OBVIOUS
<1>5. PICK back, errs : back = Retried(x) /\ errs = GivenUp(x)
  OBVIOUS
<1>6. /\ msf \in Seq(Payload(Partitions)) /\ oks \in Seq(Payload(Partitions)) /\ taken \in Seq(Payload(Partitions))
      /\ lost \in Seq(Payload(Partitions))
  BY <1>2, <1>3, PartItems, Zenon
<1>7. \A T : Num(msf, T) <= Num(ms, T) /\ Num(lost, T) <= Num(ms, T)
  BY <1>2, <1>3, PartItems, Zenon
<1>8. /\ back \in Seq(Back) /\ errs \in Seq(Payload(Place))
      /\ \A e \in Payload(Place) : Num(back, Older(e)) <= Num(ms, Younger(e)) + Num(taken, Older(e))
      /\ \A p \in Partitions, l \in 1..RetryMax : Num(back, Fin(p, l)) = 0
      /\ \A id \in 1..MaxSent :
              Num(back, WithId({id})) + Num(errs, WithId({id})) = Num(msf, WithId({id})) + Num(taken, WithId({id}))
      /\ Len(back) + Len(errs) = Len(msf) + Len(taken)
  <2>1. GoesBack(ms, msf, taken, Retried(x), GivenUp(x))
    BY <1>2, <1>4, <1>6, <1>7, SentBack
  <2>2. GoesBack(ms, msf, taken, back, errs)
    BY <1>5, <2>1, Zenon
  <2>3. QED
    BY <2>2, Zenon DEF GoesBack
<1>9. m_retries' = m_retries \o back /\ Reply(errs, oks, 0)
  <2>1. RetryMessages(msf \o taken, oks, 0)
    BY <1>3, Zenon DEF WentBack
  <2>2. QED
    BY <1>4, <1>5, <2>1, Zenon DEF RetryMessages
<1>10. PICK r : r = After(b, failed)
  OBVIOUS
<1>11. /\ r \in BrokerShape /\ r.flight = <<>> /\ r.m_output = bp[b].m_output /\ r.m_input = bp[b].m_input
       /\ \A T : Num(r.m_buffer, T) + Num(taken, T) = Num(bp[b].m_buffer, T)
  BY <1>1, <1>2, <1>10, AfterShape, Zenon
<1>12. BrokerShift(b, r, back)
  <2>1. UNCHANGED <<m_input, topic_input, pp, retry_buf>>
    OBVIOUS
  <2>2. bp' = [bp EXCEPT ![b] = r]
    BY <1>10, Zenon DEF WentBack
  <2>3. r \in BrokerShape /\ back \in Seq(Back)
    BY <1>8, <1>11, Zenon
  <2>4. m_retries' = m_retries \o back
    BY <1>9, Zenon
  <2>5. QED
    BY <2>1, <2>2, <2>3, <2>4 DEF BrokerShift
<1>13. \A T : Num(Sets(r), T) + Num(ms, T) + Num(taken, T) = Num(Sets(bp[b]), T)
  <2>1. PICK q : q = bp[b]
    OBVIOUS
  <2>2. q \in BrokerShape /\ r.m_output = q.m_output /\ ms = q.flight
    BY <1>1, <1>11, <2>1
  <2>3. \A T : Num(r.m_buffer, T) + Num(taken, T) = Num(q.m_buffer, T)
    BY <1>11, <2>1, Zenon
  <2>4. r \in BrokerShape /\ r.flight = <<>>
    BY <1>11
  <2>5. \A T : Num(Sets(r), T) + Num(q.flight, T) + Num(taken, T) = Num(Sets(q), T)
    BY <1>6, <2>2, <2>3, <2>4, EndsSets
  <2>6. QED
    BY <2>1, <2>2, <2>5, Zenon
<1>14. Ends(b, r, ms, taken, back)
  <2>1. ms = bp[b].flight /\ taken \in Seq(Payload(Partitions)) /\ r.m_input = bp[b].m_input
    BY <1>6, <1>11
  <2>2. \A e \in Payload(Place) : Num(back, Older(e)) <= Num(ms, Younger(e)) + Num(taken, Older(e))
    BY <1>8, Zenon
  <2>3. \A p \in Partitions, l \in 1..RetryMax : Num(back, Fin(p, l)) = 0
    BY <1>8, Zenon
  <2>4. QED
    BY <1>12, <1>13, <2>1, <2>2, <2>3, Zenon DEF Ends
<1>15. \A T : Num(msf, T) + Num(oks, T) + Num(lost, T) = Num(ms, T)
  BY <1>3, Zenon DEF Sorted
<1>16. ASSUME NEW id \in 1..MaxSent
       PROVE  Num(back, WithId({id})) + Num(errs, WithId({id})) + Num(oks, WithId({id})) + Num(lost, WithId({id}))
                = Num(ms, WithId({id})) + Num(taken, WithId({id}))
  <2>1. PICK W : W = WithId({id})
    OBVIOUS
  <2>2. /\ Num(back, W) \in Nat /\ Num(errs, W) \in Nat /\ Num(msf, W) \in Nat /\ Num(oks, W) \in Nat
        /\ Num(lost, W) \in Nat /\ Num(ms, W) \in Nat /\ Num(taken, W) \in Nat
    BY <1>2, <1>6, <1>8, NumPositions
  <2>3. PICK n \in Nat, u \in Nat, f \in Nat, v \in Nat, w \in Nat, m \in Nat, t \in Nat :
          /\ n = Num(back, W) /\ u = Num(errs, W) /\ f = Num(msf, W) /\ v = Num(oks, W)
          /\ w = Num(lost, W) /\ m = Num(ms, W) /\ t = Num(taken, W)
    BY <2>2, Zenon
  <2>4. n + u = f + t
    BY <1>8, <2>1, <2>3, Zenon
  <2>5. f + v + w = m
    BY <1>15, <2>3, Zenon
  <2>6. n + u + v + w = m + t
    BY <2>4, <2>5
  <2>7. QED
    BY <2>1, <2>3, <2>6, Zenon
<1>17. Len(back) + Len(errs) + Len(oks) + Len(lost) = Len(ms) + Len(taken)
  <2>1. /\ Len(back) \in Nat /\ Len(errs) \in Nat /\ Len(msf) \in Nat /\ Len(oks) \in Nat
        /\ Len(lost) \in Nat /\ Len(ms) \in Nat /\ Len(taken) \in Nat
    BY <1>2, <1>6, <1>8
  <2>2. PICK n \in Nat, u \in Nat, f \in Nat, v \in Nat, w \in Nat, m \in Nat, t \in Nat :
          /\ n = Len(back) /\ u = Len(errs) /\ f = Len(msf) /\ v = Len(oks)
          /\ w = Len(lost) /\ m = Len(ms) /\ t = Len(taken)
    BY <2>1, Zenon
  <2>3. /\ Num(ms, Message) = Len(ms) /\ Num(msf, Message) = Len(msf)
        /\ Num(oks, Message) = Len(oks) /\ Num(lost, Message) = Len(lost)
    BY SMTT(60), <1>2, <1>6, TurnType, NumAll
  <2>4. f + v + w = m
    BY <1>15, <2>2, <2>3, Zenon
  <2>5. n + u = f + t
    BY <1>8, <2>2, Zenon
  <2>6. n + u + v + w = m + t
    BY <2>4, <2>5
  <2>7. QED
    BY <2>2, <2>6, Zenon
<1>18. oks \in Seq(Payload(Place))
  BY <1>6, ItemSets, SeqWiden
<1>19. Shares(ms, taken, back, errs, oks, lost)
  BY <1>6, <1>7, <1>8, <1>16, <1>17, <1>18, Zenon DEF Shares
<1>20. Confirms(ms, oks) /\ UNCHANGED <<sent, closing, leader>>
  <2>1. Confirms(ms, oks)
    BY <1>3, Zenon
  <2>2. QED
    BY <2>1
<1>21. dropped' = dropped \cup {lost[i].id : i \in DOMAIN lost}
  BY Zenon DEF WentBack
<1>22. QED
  BY <1>9, <1>14, <1>19, <1>20, <1>21, EndsMoved

\* What the branch writes is After.
LEMMA AnsweredIsAfter ==
  ASSUME Shapes, NEW b \in Brokers, NEW failed,
         bp' = [bp EXCEPT ![b].flight = <<>>,
                          ![b].m_buffer = OfPartitions(@, Partitions \ failed),
                          ![b].m_current_retries = [p \in Partitions |-> IF p \in failed THEN "err" ELSE @[p]]]
  PROVE  bp' = [bp EXCEPT ![b] = After(b, failed)]
BY DEF Shapes, BrokerShape, After

\* handle_success: stored, tried again, or neither, partition by partition.
LEMMA AnsweredStep ==
  ASSUME ProducerInv, NEW b \in Brokers, Answered(b)
  PROVE  ProducerInv'
<1>0. Shapes
  BY DEF ProducerInv
<1>1. PICK ms : ms = bp[b].flight
  OBVIOUS
<1>2. PICK ps : ps = Parts(ms)
  OBVIOUS
<1>3. ms \in Seq(Payload(Partitions))
  BY <1>0, <1>1 DEF Shapes, BrokerShape
<1>4. ps \in SUBSET Partitions
  BY <1>2, <1>3, PartsType
<1>5. PICK res \in [ps -> Verdicts] :
        AnswerCases(b, ms, ps, res, {p \in ps : res[p] = "stored"},
                    {p \in ps : res[p] \in {"retry", "retry_stored"}}, {p \in ps : res[p] = "other"})
  BY <1>1, <1>2, AnsweredIsCases, Zenon
<1>6. PICK ok : ok = {p \in ps : res[p] = "stored"}
  OBVIOUS
<1>7. PICK failed, other : /\ failed = {p \in ps : res[p] \in {"retry", "retry_stored"}}
                           /\ other = {p \in ps : res[p] = "other"}
  OBVIOUS
<1>8. AnswerCases(b, ms, ps, res, ok, failed, other)
  BY <1>5, <1>6, <1>7, Zenon
<1>9. Sorted(ms, ok, failed, other)
  BY <1>2, <1>3, <1>6, <1>7, SortedParts, Zenon
<1>10. UNCHANGED <<sent, m_input, topic_input, pp, retry_buf, closing, leader>>
  BY Zenon DEF Answered
<1>11. log' \in [Partitions -> Seq(Message)] /\ LogGrows(ms) /\ Confirms(ms, OfPartitions(ms, ok))
  <2>1. log' = [p \in Partitions |-> IF p \in ps /\ res[p] \in {"stored", "retry_stored"}
                                     THEN log[p] \o OfPartition(ms, p) ELSE log[p]]
    BY <1>8, Zenon DEF AnswerCases
  <2>2. QED
    BY <1>0, <1>3, <1>4, <1>5, <1>6, <2>1, AnsweredLog
<1>12. CASE RetryMax = 0
  <2>1. /\ Reply(OfPartitions(ms, Parts(ms) \ ok), OfPartitions(ms, ok), 0)
        /\ bp' = [bp EXCEPT ![b].flight = <<>>]
        /\ UNCHANGED <<m_retries, dropped>>
    BY <1>2, <1>8, <1>12, Zenon DEF AnswerCases
  <2>2. UNCHANGED <<sent, m_input, topic_input, pp, retry_buf, closing, leader, m_retries, dropped>>
    BY <1>10, <2>1
  <2>3. QED
    BY <1>1, <1>9, <1>11, <2>1, <2>2, AnsweredPlain
<1>13. CASE RetryMax # 0
  <2>1. PICK taken : taken = OfPartitions(bp[b].m_buffer, failed)
    OBVIOUS
  <2>2. PICK lost : lost = OfPartitions(ms, other)
    OBVIOUS
  <2>3. RetryMessages(OfPartitions(ms, failed) \o taken, OfPartitions(ms, ok), 0)
    BY <1>8, <1>13, <2>1, Zenon DEF AnswerCases
  <2>4. dropped' = dropped \cup {lost[i].id : i \in DOMAIN lost}
    BY <1>8, <1>13, <2>2, Zenon DEF AnswerCases
  <2>5. bp' = [bp EXCEPT ![b] = After(b, failed)]
    <3>1. bp' = [bp EXCEPT ![b].flight = <<>>,
                           ![b].m_buffer = OfPartitions(@, Partitions \ failed),
                           ![b].m_current_retries = [p \in Partitions |-> IF p \in failed THEN "err" ELSE @[p]]]
      BY <1>8, <1>13, Zenon DEF AnswerCases
    <3>2. QED
      BY <1>0, <3>1, AnsweredIsAfter
  <2>6. WentBack(b, ms, ok, failed, taken, lost)
    BY <2>3, <2>4, <2>5, Zenon DEF WentBack
  <2>7. QED
    BY <1>1, <1>9, <1>10, <1>11, <2>1, <2>2, <2>6, AnsweredRetries
<1>14. QED
  BY <1>12, <1>13

-----------------------------------------------------------------------------
(* The invariant holds in every state of a behaviour                                *)

\* The types of the first state.
LEMMA InitShapes == Init => Shapes
<1> SUFFICES ASSUME Init PROVE Shapes
  OBVIOUS
<1>1. 0 \in Level /\ 0 \in 0..MaxSent /\ 0 \in 0..MaxMoves
  BY KafkaProducerAssumption DEF Level
<1>2. NoMsg \in Message
  BY <1>1 DEF NoMsg, Mark, Message, Id, Kind, Place
<1>3. sent \in 0..MaxSent /\ dropped \subseteq 1..MaxSent /\ closing \in {"no", "asked", "done"}
  BY <1>1 DEF Init
<1>4. /\ m_input \in Seq(Entering) /\ topic_input \in Seq(Payload(Place) \cup Returning(Partitions))
      /\ m_retries \in Seq(Back) /\ retry_buf \in Seq(Back)
  BY EmptySeq DEF Init
<1>5. \A p \in Partitions : pp[p] \in PartitionShape(p)
  <2>1. ASSUME NEW p \in Partitions PROVE pp[p] \in PartitionShape(p)
    <3>1. PICK A, B : A = Seq(Coming({p})) /\ B = Seq(Payload({p}))
      OBVIOUS
    <3>2. <<>> \in A /\ <<>> \in B
      BY <3>1, EmptySeq
    <3>3. pp[p] = [pc |-> "off", m_input |-> <<>>, msg |-> NoMsg, m_broker_producer |-> Nobody,
                   m_high_watermark |-> 0, buf |-> [l \in Level |-> <<>>], expect |-> [l \in Level |-> FALSE]]
      BY DEF Init
    <3>4. pp[p] \in [pc: {"off", "start", "ready", "send", "flush", "dead"},
                     m_input: A, msg: Message, m_broker_producer: Brokers \cup {Nobody},
                     m_high_watermark: Level, buf: [Level -> B], expect: [Level -> BOOLEAN]]
      BY <1>1, <1>2, <3>2, <3>3
    <3>5. QED
      BY <3>1, <3>4, Zenon DEF PartitionShape
  <2>2. QED
    BY <2>1
<1>6. pp \in [Partitions -> PartitionProducer]
  <2>1. pp = [p \in Partitions |-> pp[p]]
    BY DEF Init
  <2>2. \A p \in Partitions : pp[p] \in PartitionProducer
    BY <1>5, PartitionShapeType
  <2>3. QED
    BY <2>1, <2>2
<1>7. bp \in [Brokers -> BrokerShape]
  <2>1. PICK A, B, C : A = Seq(Going) /\ B = Seq(Payload(Partitions)) /\ C = Seq(Seq(Payload(Partitions)))
    OBVIOUS
  <2>2. <<>> \in A /\ <<>> \in B /\ <<>> \in C
    BY <2>1, EmptySeq
  <2>3. bp \in [Brokers -> [m_input: A, m_buffer: B, m_output: C,
                            m_current_retries: [Partitions -> {"none", "ok", "err"}], flight: B]]
    BY <2>2 DEF Init
  <2>4. QED
    BY <2>1, <2>3, Zenon DEF BrokerShape
<1>8. m_replies \in [(0..MaxSent) \X BOOLEAN -> Nat]
  BY DEF Init
<1>9. leader \in [Partitions -> [at: Brokers, was: SUBSET Brokers, moves: 0..MaxMoves]]
  BY <1>1 DEF Init
<1>10. log \in [Partitions -> Seq(Message)] /\ \A p \in Partitions : log[p] \in Seq(Payload({p}))
  BY EmptySeq DEF Init
<1>11. QED
  BY <1>3, <1>4, <1>5, <1>6, <1>7, <1>8, <1>9, <1>10 DEF Shapes

\* Empty queues hold nothing.
LEMMA NumInNone ==
  ASSUME NEW X, IsFiniteSet(X), NEW q \in [X -> Seq(Message)], NEW T, \A x \in X : Num(q[x], T) = 0
  PROVE  NumIn(q, T) = 0
<1>1. NumIn(q, T) = 0 <=> \A x \in X : Num(q[x], T) = 0
  BY NumInZero
<1>2. QED
  BY <1>1, Zenon

\* At the start every queue of the pipeline is empty.
LEMMA InitEmpty ==
  ASSUME Init, Shapes, NEW T
  PROVE  /\ Num(m_input, T) = 0 /\ BeforeBrokers(T) = 0
         /\ NumIn(BrokerQueue, T) = 0 /\ NumIn(BrokerSets, T) = 0
<1>1. Queued
  BY ShapesQueued
<1>2. m_input = <<>> /\ topic_input = <<>> /\ m_retries = <<>> /\ retry_buf = <<>>
  BY DEF Init
<1>3. \A p \in Partitions : /\ pp[p].m_input = <<>> /\ pp[p].pc = "off"
                            /\ \A l \in Level : pp[p].buf[l] = <<>>
  BY DEF Init
<1>4. \A b \in Brokers : bp[b].m_input = <<>> /\ bp[b].flight = <<>> /\ bp[b].m_output = <<>> /\ bp[b].m_buffer = <<>>
  BY DEF Init
<1>5. Num(<<>>, T) = 0
  BY NumEmpty
<1>6. NumIn(PartitionQueue, T) = 0
  <2>1. ASSUME NEW p \in Partitions PROVE Num(PartitionQueue[p], T) = 0
    <3>1. pp[p] \in PartitionProducer
      BY <1>1 DEF Queued
    <3>2. Num(Waiting(pp[p]), T) = Num(pp[p].m_input, T) + 0
      BY <1>3, <3>1, WaitingType
    <3>3. Num(pp[p].m_input, T) = 0
      BY <1>3, <1>5, Zenon
    <3>4. PartitionQueue[p] = Waiting(pp[p])
      BY Zenon DEF PartitionQueue, Waiting
    <3>5. QED
      BY <3>2, <3>3, <3>4
  <2>2. PartitionQueue \in [Partitions -> Seq(Message)] /\ IsFiniteSet(Partitions)
    BY <1>1, FinitePlaces, Zenon DEF Queued
  <2>3. QED
    BY <2>1, <2>2, NumInNone, Zenon
<1>7. NumIn(RetryBuffer, T) = 0
  <2>1. ASSUME NEW x \in Partitions \X Level PROVE Num(RetryBuffer[x], T) = 0
    <3>1. RetryBuffer[x] = pp[x[1]].buf[x[2]] /\ x[1] \in Partitions /\ x[2] \in Level
      BY DEF RetryBuffer
    <3>2. QED
      BY <1>3, <1>5, <3>1, Zenon
  <2>2. RetryBuffer \in [Partitions \X Level -> Seq(Message)] /\ IsFiniteSet(Partitions \X Level)
    BY <1>1, FinitePlaces, Zenon DEF Queued
  <2>3. QED
    BY <2>1, <2>2, NumInNone, Zenon
<1>8. NumIn(BrokerQueue, T) = 0
  <2>1. ASSUME NEW b \in Brokers PROVE Num(BrokerQueue[b], T) = 0
    <3>1. BrokerQueue[b] = bp[b].m_input
      BY DEF BrokerQueue
    <3>2. QED
      BY <1>4, <1>5, <3>1, Zenon
  <2>2. BrokerQueue \in [Brokers -> Seq(Message)] /\ IsFiniteSet(Brokers)
    BY <1>1, FinitePlaces, Zenon DEF Queued
  <2>3. QED
    BY <2>1, <2>2, NumInNone, Zenon
<1>9. NumIn(BrokerSets, T) = 0
  <2>1. ASSUME NEW b \in Brokers PROVE Num(BrokerSets[b], T) = 0
    <3>1. bp[b] \in BrokerProducer
      BY <1>1 DEF Queued
    <3>2. Num(Sets(bp[b]), T) = Num(bp[b].flight, T) + Num(FlattenSeq(bp[b].m_output), T) + Num(bp[b].m_buffer, T)
      BY <3>1, SetsType
    <3>3. Num(bp[b].flight, T) = 0 /\ Num(bp[b].m_buffer, T) = 0 /\ Num(FlattenSeq(bp[b].m_output), T) = 0
      BY <1>4, <1>5, FlatEmpty, Zenon
    <3>4. BrokerSets[b] = Sets(bp[b])
      BY Zenon DEF BrokerSets, Sets
    <3>5. QED
      BY <3>2, <3>3, <3>4
  <2>2. BrokerSets \in [Brokers -> Seq(Message)] /\ IsFiniteSet(Brokers)
    BY <1>1, FinitePlaces, Zenon DEF Queued
  <2>3. QED
    BY <2>1, <2>2, NumInNone, Zenon
<1>10. BeforeBrokers(T) = 0 + 0 + 0 + 0 + 0
  BY <1>2, <1>5, <1>6, <1>7, Zenon DEF BeforeBrokers
<1>11. QED
  BY <1>2, <1>5, <1>8, <1>9, <1>10

\* The invariant at the start.
LEMMA InitHolds == Init => ProducerInv
<1> SUFFICES ASSUME Init PROVE ProducerInv
  OBVIOUS
<1>0. Shapes
  BY InitShapes
<1>1. /\ sent = 0 /\ m_in_flight = 0 /\ dropped = {} /\ m_replies = [r \in (0..MaxSent) \X BOOLEAN |-> 0]
      /\ log = [p \in Partitions |-> <<>>]
      /\ \A p \in Partitions : /\ pp[p].pc = "off" /\ pp[p].m_high_watermark = 0
                               /\ \A l \in Level : pp[p].buf[l] = <<>> /\ pp[p].expect[l] = FALSE
  BY DEF Init
<1>2. \A T : Inside(T) = 0 /\ All(T) = 0 /\ Num(m_input, T) = 0 /\ BeforeBrokers(T) = 0
             /\ NumIn(BrokerQueue, T) = 0 /\ NumIn(BrokerSets, T) = 0
  <2>1. ASSUME NEW T PROVE Inside(T) = 0 /\ All(T) = 0 /\ Num(m_input, T) = 0 /\ BeforeBrokers(T) = 0
                           /\ NumIn(BrokerQueue, T) = 0 /\ NumIn(BrokerSets, T) = 0
    <3>1. Num(m_input, T) = 0 /\ BeforeBrokers(T) = 0 /\ NumIn(BrokerQueue, T) = 0 /\ NumIn(BrokerSets, T) = 0
      BY <1>0, InitEmpty
    <3>2. Inside(T) = 0 + 0 + 0
      BY <3>1, Zenon DEF Inside
    <3>3. Inside(T) = 0
      BY <3>2
    <3>4. All(T) = 0 + 0
      BY <3>1, <3>3, Zenon DEF All
    <3>5. QED
      BY <3>1, <3>3, <3>4
  <2>2. QED
    BY <2>1, Zenon
<1>3. \A id \in 0..MaxSent : Bad(id) = 0 /\ Good(id) = 0
  BY <1>1 DEF Bad, Good
<1>4. Cardinality({}) = 0
  BY FS_EmptySet
<1>5. 0 \in 0..MaxSent /\ 1..MaxSent \subseteq 0..MaxSent
  BY KafkaProducerAssumption
<1>6. Accounts
  <2>1. ASSUME NEW id \in 1..MaxSent
        PROVE  All(WithId({id})) + Bad(id) + Good(id) + Cardinality(dropped \cap {id}) = IF id <= sent THEN 1 ELSE 0
    <3>1. Bad(id) = 0 /\ Good(id) = 0 /\ All(WithId({id})) = 0
      BY <1>2, <1>3, <1>5
    <3>2. Cardinality(dropped \cap {id}) = 0
      <4>1. dropped \cap {id} = {}
        BY <1>1
      <4>2. QED
        BY <1>4, <4>1
    <3>3. ~(id <= sent)
      BY <1>1
    <3>4. QED
      BY <3>1, <3>2, <3>3
  <2>2. QED
    BY <1>3, <1>5, <2>1 DEF Accounts
<1>7. Stored
  <2>1. \A id \in 1..MaxSent : ~(Good(id) > 0)
    BY <1>3, <1>5
  <2>2. \A p \in Partitions : log[p] = <<>> /\ DOMAIN log[p] = {}
    BY <1>1
  <2>3. \A p \in Partitions : IsInjective(log[p])
    BY <2>2, Zenon DEF IsInjective
  <2>4. \A p \in Partitions : \A e : ~InLog(p, e)
    BY <2>2, Zenon DEF InLog
  <2>5. QED
    BY <2>1, <2>3, <2>4, Zenon DEF Stored
<1>8. InFlightExact
  <2>1. Flushing = {}
    BY <1>1 DEF Flushing
  <2>2. Num(m_input, Taken) = 0 /\ Inside(Message) = 0 /\ Cardinality(dropped) = 0 /\ Cardinality(Flushing) = 0
    BY <1>1, <1>2, <1>4, <2>1, Zenon
  <2>3. m_in_flight = Num(m_input, Taken) + Inside(Message) + Cardinality(dropped) + Cardinality(Flushing)
    BY <1>1, <2>2
  <2>4. QED
    BY <2>3, InFlightForm, Zenon
<1>9. Expected
  <2>1. ASSUME NEW p \in Partitions, NEW l \in 1..RetryMax
        PROVE  Chasers(p, l) = IF pp[p].expect[l] THEN 1 ELSE 0
    <3>1. Chasers(p, l) = 0 + 0 + 0 + 0
      BY <1>2, Zenon DEF Chasers
    <3>2. l \in Level
      BY KafkaProducerAssumption DEF Level
    <3>3. pp[p].expect[l] = FALSE
      BY <1>1, <3>2
    <3>4. QED
      BY <3>1, <3>3
  <2>2. QED
    BY <2>1, Zenon DEF Expected
<1>10. ASSUME NEW p \in Partitions PROVE Watermark(p, pp[p])
  BY <1>1 DEF Watermark
<1>11. QED
  BY <1>0, <1>6, <1>7, <1>8, <1>9, <1>10, Zenon DEF ProducerInv

\* Nothing changes in a stuttering step.
LEMMA StutterHolds ==
  ASSUME ProducerInv, UNCHANGED vars
  PROVE  ProducerInv'
<1>1. UNCHANGED <<sent, m_input, topic_input, pp, bp, m_retries, retry_buf, m_replies,
                  m_in_flight, closing, leader, log, dropped>>
  BY DEF vars
<1>2. Shapes'
  BY <1>1 DEF ProducerInv, Shapes
<1>3. QED
  BY <1>1, <1>2, StillStep

\* Every step keeps the invariant.
LEMMA NextHolds == ProducerInv /\ [Next]_vars => ProducerInv'
<1> SUFFICES ASSUME ProducerInv, [Next]_vars PROVE ProducerInv'
  OBVIOUS
<1>1. CASE Send
  BY <1>1, SendStep
<1>2. CASE Close
  BY <1>2, CloseStep
<1>3. CASE Shutdown
  BY <1>3, ShutdownStep
<1>4. CASE Dispatch
  BY <1>4, DispatchStep
<1>5. CASE RetryHandler
  BY <1>5, RetryHandlerStep
<1>6. CASE DispatchTopic
  BY <1>6, DispatchTopicStep
<1>7. CASE \E p \in Partitions : PartitionStep(p) \/ Move(p)
  <2>1. PICK p \in Partitions : PartitionStep(p) \/ Move(p)
    BY <1>7
  <2>2. CASE Start(p)
    BY <2>2, StartStep
  <2>3. CASE NewHighWatermark(p)
    BY <2>3, NewHighWatermarkStep
  <2>4. CASE BehindWatermark(p)
    BY <2>4, BehindWatermarkStep
  <2>5. CASE Chaser(p)
    BY <2>5, ChaserStep
  <2>6. CASE Flush(p)
    BY <2>6, FlushStep
  <2>7. CASE SendOn(p)
    BY <2>7, SendOnStep
  <2>8. CASE Move(p)
    BY <2>8, MoveStep
  <2>9. QED
    BY <2>1, <2>2, <2>3, <2>4, <2>5, <2>6, <2>7, <2>8, Zenon DEF PartitionStep
<1>8. CASE \E b \in Brokers : Run(b) \/ BrokerStep(b)
  <2>1. PICK b \in Brokers : Run(b) \/ BrokerStep(b)
    BY <1>8
  <2>2. CASE Run(b)
    BY <2>2, RunStep
  <2>3. CASE Bridge(b)
    BY <2>3, BridgeStep
  <2>4. CASE Answered(b)
    BY <2>4, AnsweredStep
  <2>5. CASE ConnectionFails(b)
    BY <2>5, ConnectionFailsStep
  <2>6. QED
    BY <2>1, <2>2, <2>3, <2>4, <2>5, Zenon DEF BrokerStep
<1>9. CASE UNCHANGED vars
  BY <1>9, StutterHolds
<1>10. QED
  BY <1>1, <1>2, <1>3, <1>4, <1>5, <1>6, <1>7, <1>8, <1>9, Zenon DEF Next

-----------------------------------------------------------------------------
(* What the invariant says of the properties                                        *)

\* The invariant says that the messages are safe.
LEMMA InvSafe == ProducerInv => MessagesSafe
<1> SUFFICES ASSUME ProducerInv PROVE MessagesSafe
  OBVIOUS
<1>0. Shapes /\ Accounts /\ Stored
  BY DEF ProducerInv
<1>1. Queued
  BY <1>0, ShapesQueued
<1>2. TypeOK
  <2>1. bp \in [Brokers -> BrokerProducer] /\ m_input \in Seq(Message) /\ topic_input \in Seq(Message)
        /\ m_retries \in Seq(Message) /\ retry_buf \in Seq(Message)
    BY <1>1 DEF Queued
  <2>2. m_in_flight \in Nat
    BY InFlightNat
  <2>3. QED
    BY <1>0, <2>1, <2>2 DEF Shapes, TypeOK
<1>3. \A id \in 1..sent : id \in 1..MaxSent /\ id <= sent
  BY <1>0, KafkaProducerAssumption DEF Shapes
<1>4. Conserved
  <2>1. ASSUME NEW id \in 1..sent
        PROVE  Num(m_input, WithId({id})) + Inside(WithId({id})) + m_replies[<<id, FALSE>>] + m_replies[<<id, TRUE>>]
                 + Cardinality(dropped \cap {id}) = 1
    <3>1. All(WithId({id})) + Bad(id) + Good(id) + Cardinality(dropped \cap {id}) = 1
      BY <1>0, <1>3 DEF Accounts
    <3>2. QED
      BY <3>1, Zenon DEF All, Bad, Good
  <2>2. m_replies[<<0, FALSE>>] + m_replies[<<0, TRUE>>] = 0
    <3>1. m_replies[<<0, FALSE>>] = 0 /\ m_replies[<<0, TRUE>>] = 0
      BY <1>0, Zenon DEF Accounts, Bad, Good
    <3>2. QED
      BY <3>1
  <2>3. QED
    BY <2>1, <2>2, Zenon DEF Conserved
<1>5. StoredOnce
  <2>1. ASSUME NEW id \in 1..sent, m_replies[<<id, TRUE>>] > 0
        PROVE  \E p \in Partitions : \E i \in DOMAIN log[p] : log[p][i].id = id
    <3>1. Good(id) > 0
      BY <2>1, Zenon DEF Good
    <3>2. PICK p \in Partitions : \E e \in Payload({p}) : InLog(p, e) /\ e.id = id
      BY <1>0, <1>3, <3>1, Zenon DEF Stored
    <3>3. QED
      BY <3>2, Zenon DEF InLog
  <2>2. \A p \in Partitions : IsInjective(log[p])
    BY <1>0, Zenon DEF Stored
  <2>3. QED
    BY <2>1, <2>2, Zenon DEF StoredOnce
<1>6. QED
  BY <1>2, <1>4, <1>5, Zenon DEF MessagesSafe

\* The invariant says that the chasers come back.
LEMMA InvChaser == ProducerInv => ChaserOnItsWay
<1> SUFFICES ASSUME ProducerInv, NEW p \in Partitions, NEW l \in 1..RetryMax
             PROVE  /\ Num(m_input, Fin(p, l)) + BeforeBrokers(Fin(p, l))
                         + NumIn(BrokerQueue, Fin(p, l - 1)) + NumIn(BrokerSets, Fin(p, l))
                         = IF pp[p].expect[l] THEN 1 ELSE 0
                    /\ pp[p].m_high_watermark = l /\ pp[p].pc # "flush" => pp[p].expect[l]
                    /\ pp[p].m_high_watermark < l => pp[p].buf[l - 1] = <<>> /\ pp[p].buf[l] = <<>>
  BY Zenon DEF ChaserOnItsWay
<1>1. Shapes /\ Watermark(p, pp[p]) /\ Chasers(p, l) = IF pp[p].expect[l] THEN 1 ELSE 0
  BY DEF ProducerInv, Expected
<1>2. pp[p].m_high_watermark \in Level
  BY <1>1 DEF Shapes, PartitionProducer
<1>3. l \in Level /\ l - 1 \in Level /\ l > 0
  BY KafkaProducerAssumption DEF Level
<1>4. pp[p].m_high_watermark = l /\ pp[p].pc # "flush" => pp[p].expect[l]
  BY <1>1, <1>3 DEF Watermark
<1>5. pp[p].m_high_watermark < l => pp[p].buf[l - 1] = <<>> /\ pp[p].buf[l] = <<>>
  BY <1>1, <1>2, <1>3 DEF Watermark, Level
<1>6. QED
  BY <1>1, <1>4, <1>5, Zenon DEF Chasers

\* The invariant in every reachable state.
LEMMA Invariance == Spec => []ProducerInv
<1>1. QED
  BY InitHolds, NextHolds, PTL DEF Spec

\* Whatever fails and is retried: each message is in one place of the pipeline, or
\* answered, or dropped unanswered, once, and answered as stored only if a log has
\* it, where none is stored twice on the same turn (async_producer.cpp,
\* partition_producer.cpp, broker_producer.cpp).
THEOREM MessagesAreSafe == Spec => []MessagesSafe
BY Invariance, InvSafe, PTL

\* m_in_flight counts exactly what is not answered and the marks on their way, so
\* that close() waits for all of it and no longer.
THEOREM InFlightIsExact == Spec => []InFlightExact
<1>1. ProducerInv => InFlightExact
  BY DEF ProducerInv
<1>2. QED
  BY <1>1, Invariance, PTL

\* A level of retries expects a chaser exactly while one is under way, and holds
\* messages back only below a level that does (partition_producer.cpp 155-207).
THEOREM ChasersComeBack == Spec => []ChaserOnItsWay
BY Invariance, InvChaser, PTL

-----------------------------------------------------------------------------
(* The order of first turns                                                        *)

\* Messages of the partitions ps that were not retried.
FirstTurn(ps) == [id: 1..MaxSent, kind: {"msg"}, retries: {0}, part: ps]

\* The places a message of a partition passes on its first turn, last place first: the log,
\* the sets and the channel of the leader's BrokerProducer r, the buffer and the channel of
\* the PartitionProducer q, the topic's channel, the producer's.
Places(lg, r, q, ti, mi) == <<lg, Sets(r), r.m_input, q.buf[0], q.m_input, ti, mi>>
Line(p) == Places(log[p], bp[leader[p].at], pp[p], topic_input, m_input)
Kinds(p) == [k \in 1..7 |-> IF k <= 5 THEN FirstTurn({p}) ELSE FirstTurn(Place)]

\* The BrokerProducer r has nothing of p on its first turn.
Without(r, p) == IdsIn(Sets(r), FirstTurn({p})) = {} /\ IdsIn(r.m_input, FirstTurn({p})) = {}

\* What holds of a PartitionProducer r: the message that raised the watermark was retried, and
\* so was what waits in the buffers but the first.
Retries(p, r) ==
  /\ r.pc = "send" => r.msg.retries > 0
  /\ \A l \in 1..RetryMax : IdsIn(r.buf[l], FirstTurn({p})) = {}

\* Until the leader has moved twice, the numbers rise from the log to m_input; until it has
\* moved once, no other BrokerProducer was used.
InLine(p) == leader[p].moves <= 1 => Lined(Line(p), Kinds(p), sent)
OneBroker(p) ==
  leader[p].moves = 0 =>
    /\ leader[p].was = {leader[p].at}
    /\ pp[p].m_broker_producer \in {Nobody, leader[p].at}
    /\ \A b \in Brokers \ {leader[p].at} : Without(bp[b], p)
FirstOrder(p) == Retries(p, pp[p]) /\ InLine(p) /\ OneBroker(p)

\* The places one by one.
LEMMA PlacesAt ==
  ASSUME NEW lg, NEW r, NEW q, NEW ti, NEW mi, NEW L, L = Places(lg, r, q, ti, mi)
  PROVE  /\ L[1] = lg /\ L[2] = Sets(r) /\ L[3] = r.m_input /\ L[4] = q.buf[0] /\ L[5] = q.m_input
         /\ L[6] = ti /\ L[7] = mi
BY DEF Places

\* Of which items the order is asked there.
LEMMA KindsAt ==
  ASSUME NEW p
  PROVE  /\ Kinds(p)[1] = FirstTurn({p}) /\ Kinds(p)[2] = FirstTurn({p}) /\ Kinds(p)[3] = FirstTurn({p})
         /\ Kinds(p)[4] = FirstTurn({p}) /\ Kinds(p)[5] = FirstTurn({p})
         /\ Kinds(p)[6] = FirstTurn(Place) /\ Kinds(p)[7] = FirstTurn(Place)
BY DEF Kinds

\* The types of the places.
LEMMA PlacesType ==
  ASSUME Shapes, NEW p \in Partitions
  PROVE  /\ log[p] \in Seq(Message) /\ leader[p].at \in Brokers
         /\ pp[p].m_input \in Seq(Message) /\ \A l \in Level : pp[p].buf[l] \in Seq(Message)
         /\ topic_input \in Seq(Message) /\ m_input \in Seq(Message)
         /\ \A b \in Brokers : Sets(bp[b]) \in Seq(Message) /\ bp[b].m_input \in Seq(Message)
<1>1. Queued
  BY ShapesQueued
<1>2. \A b \in Brokers : bp[b] \in BrokerProducer
  BY <1>1 DEF Queued
<1>3. \A b \in Brokers : Sets(bp[b]) \in Seq(Message) /\ bp[b].m_input \in Seq(Message)
  BY <1>2, SetsType DEF BrokerProducer
<1>4. pp[p] \in PartitionProducer
  BY <1>1 DEF Queued
<1>5. pp[p].m_input \in Seq(Message) /\ \A l \in Level : pp[p].buf[l] \in Seq(Message)
  BY <1>4 DEF PartitionProducer
<1> QED BY <1>1, <1>3, <1>5 DEF Shapes, Queued

\* What is a first turn of p, and what is none.
LEMMA FirstTurns ==
  ASSUME NEW p \in Partitions
  PROVE  /\ FirstTurn({p}) \subseteq FirstTurn(Place)
         /\ \A m \in Back \cup Stop \cup Returning(Partitions) \cup Leaving \cup Syn : m \notin FirstTurn(Place)
         /\ \A m \in Payload({p}) : m.retries = 0 <=> m \in FirstTurn({p})
         /\ \A m : m.part # p => m \notin FirstTurn({p})
         /\ \A m : m.retries > 0 => m \notin FirstTurn(Place)
         /\ \A m \in FirstTurn(Place) : m.id \in Nat /\ m.retries = 0
<1>1. 0 \in Level /\ RetryMax \in Nat
  BY KafkaProducerAssumption DEF Level
<1>2. FirstTurn({p}) \subseteq FirstTurn(Place)
  BY DEF FirstTurn, Place
<1>3. ASSUME NEW m \in Back \cup Stop \cup Returning(Partitions) \cup Leaving \cup Syn PROVE m \notin FirstTurn(Place)
  BY <1>1, <1>3 DEF FirstTurn, Back, Stop, Returning, Leaving, Syn
<1>4. \A m \in Payload({p}) : m.retries = 0 <=> m \in FirstTurn({p})
  BY DEF FirstTurn, Payload
<1>5. /\ \A m : m.part # p => m \notin FirstTurn({p})
      /\ \A m : m.retries > 0 => m \notin FirstTurn(Place)
      /\ \A m \in FirstTurn(Place) : m.id \in Nat /\ m.retries = 0
  BY DEF FirstTurn
<1> QED BY <1>2, <1>3, <1>4, <1>5

\* Empty and unchanged queues thin.
LEMMA ThinnedEmpty ==
  ASSUME NEW s, NEW t, NEW S, IdsIn(t, S) = {}
  PROVE  Thinned(s, t, S)
BY InIds DEF Thinned, Rising

\* A line whose queues all thin is in order.
LEMMA StaysInLine ==
  ASSUME NEW L, NEW L2, NEW K, NEW n, Lined(L, K, n),
         Thinned(L[1], L2[1], K[1]), Thinned(L[2], L2[2], K[2]), Thinned(L[3], L2[3], K[3]),
         Thinned(L[4], L2[4], K[4]), Thinned(L[5], L2[5], K[5]), Thinned(L[6], L2[6], K[6]),
         Thinned(L[7], L2[7], K[7])
  PROVE  Lined(L2, K, n)
<1>1. \A k \in 1..7 : Thinned(L[k], L2[k], K[k])
  OBVIOUS
<1> QED BY <1>1, LineThins

\* The producer takes a message, or loses one, and the rest stays.
LEMMA EntryStep ==
  ASSUME Shapes, NEW p \in Partitions, FirstOrder(p), bp' = bp, pp' = pp, leader' = leader, log' = log, sent' = sent,
         NEW N, N \subseteq IdsIn(m_input, FirstTurn(Place)),
         Rising(m_input, FirstTurn(Place)) => Below(N, IdsIn(m_input', FirstTurn(Place))),
         Gained(topic_input, topic_input', FirstTurn(Place), N),
         Thinned(m_input, m_input', FirstTurn(Place))
  PROVE  FirstOrder(p)'
<1> DEFINE L == Line(p)
           L2 == Line(p)'
           K == Kinds(p)
<1>1. Retries(p, pp[p])' /\ OneBroker(p)'
  BY Zenon DEF FirstOrder, Retries, OneBroker
<1>2. /\ L[1] = log[p] /\ L[2] = Sets(bp[leader[p].at]) /\ L[3] = bp[leader[p].at].m_input
      /\ L[4] = pp[p].buf[0] /\ L[5] = pp[p].m_input /\ L[6] = topic_input /\ L[7] = m_input
  BY PlacesAt DEF Line
<1>3. /\ L2[1] = log'[p] /\ L2[2] = Sets(bp'[leader'[p].at]) /\ L2[3] = bp'[leader'[p].at].m_input
      /\ L2[4] = pp'[p].buf[0] /\ L2[5] = pp'[p].m_input /\ L2[6] = topic_input' /\ L2[7] = m_input'
  BY PlacesAt DEF Line
<1>4. K[6] = FirstTurn(Place) /\ K[7] = FirstTurn(Place)
  BY KindsAt
<1> HIDE DEF L, L2, K
<1>5. \A k \in 1..5 : L2[k] = L[k]
  BY <1>2, <1>3
<1>6. ASSUME Lined(L, K, sent) PROVE Lined(L2, K, sent)
  <2>1. \A k \in 1..7 : k # 6 => Thinned(L[k], L2[k], K[k])
    BY <1>2, <1>3, <1>4, <1>5, ThinnedSame
  <2>3. Rising(m_input, FirstTurn(Place))
    BY <1>2, <1>4, <1>6 DEF Lined
  <2>2. /\ N \subseteq IdsIn(L[7], K[7]) /\ Below(N, IdsIn(L2[7], K[7])) /\ Gained(L[6], L2[6], K[6], N)
    BY <1>2, <1>3, <1>4, <2>3
  <2>4. \A k \in 1..7 : 6 < k /\ k < 7 => IdsIn(L2[k], K[k]) = {}
    OBVIOUS
  <2>5. 6 \in 1..7 /\ 7 \in 1..7 /\ 6 < 7
    OBVIOUS
  <2> QED BY <1>6, <2>1, <2>2, <2>4, <2>5, LinePasses, Zenon
<1>7. InLine(p)'
  BY <1>6 DEF FirstOrder, InLine, L, L2, K
<1> QED BY <1>1, <1>7 DEF FirstOrder

\* What is sent to b changes b's channel.
LEMMA SentBroker ==
  ASSUME Shapes, NEW b \in Brokers, NEW ms, ToBroker(b, ms)
  PROVE  \A c \in Brokers : /\ Sets(bp'[c]) = Sets(bp[c])
                            /\ bp'[c].m_input = IF c = b THEN bp[c].m_input \o ms ELSE bp[c].m_input
<1> SUFFICES ASSUME NEW c \in Brokers
             PROVE  /\ Sets(bp'[c]) = Sets(bp[c])
                    /\ bp'[c].m_input = IF c = b THEN bp[c].m_input \o ms ELSE bp[c].m_input
  OBVIOUS
<1>1. bp \in [Brokers -> BrokerShape] /\ bp' = [bp EXCEPT ![b].m_input = @ \o ms]
  BY DEF Shapes, ToBroker
<1>2. CASE c # b
  <2>1. bp'[c] = bp[c]
    BY <1>1, <1>2
  <2> QED BY <1>2, <2>1
<1>3. CASE c = b
  <2>1. bp[b] \in BrokerShape /\ bp'[b] = [bp[b] EXCEPT !.m_input = bp[b].m_input \o ms]
    BY <1>1
  <2>2. /\ bp'[b].flight = bp[b].flight /\ bp'[b].m_output = bp[b].m_output /\ bp'[b].m_buffer = bp[b].m_buffer
        /\ bp'[b].m_input = bp[b].m_input \o ms
    BY <2>1 DEF BrokerShape
  <2>3. Sets(bp'[b]) = Sets(bp[b])
    BY <2>2, Zenon DEF Sets
  <2> QED BY <1>3, <2>2, <2>3
<1> QED BY <1>2, <1>3

\* What a step of p's PartitionProducer does to first turns: q is what becomes of it, ms what it
\* sends. They go nowhere, into the first buffer, on from there, or straight on.
FirstMoves(p, q, ms) ==
  LET S == FirstTurn({p})
      r == pp[p]
  IN /\ Thinned(r.m_input, q.m_input, S)
     /\ \/ IdsIn(ms, S) = {} /\ Thinned(r.buf[0], q.buf[0], S)
        \/ /\ IdsIn(ms, S) = {}
           /\ \E N : /\ N \subseteq IdsIn(r.m_input, S) /\ Gained(r.buf[0], q.buf[0], S, N)
                     /\ Rising(r.m_input, S) => Below(N, IdsIn(q.m_input, S))
        \/ IdsIn(ms, S) \subseteq IdsIn(r.buf[0], S) /\ q.buf[0] = <<>> /\ (Rising(r.buf[0], S) => Rising(ms, S))
        \/ /\ IdsIn(ms, S) \subseteq IdsIn(r.m_input, S) /\ q.buf[0] = <<>> /\ Rising(ms, S)
           /\ Rising(r.m_input, S) => Below(IdsIn(ms, S), IdsIn(q.m_input, S))

\* Where it sends to: its BrokerProducer, or one that was the leader's, which it may keep.
Directed(p, q, b, ms) ==
  /\ q.m_broker_producer \in {pp[p].m_broker_producer, Nobody} \cup leader[p].was
  /\ IdsIn(ms, FirstTurn({p})) # {} => b \in leader[p].was \/ (b = pp[p].m_broker_producer /\ b # Nobody)

\* Such a step keeps the order.
LEMMA OwnStep ==
  ASSUME Shapes, NEW p \in Partitions, FirstOrder(p), NEW q, NEW b \in Brokers, NEW ms \in Seq(Message),
         pp'[p] = q, ToBroker(b, ms) \/ (bp' = bp /\ ms = <<>>),
         Retries(p, q), FirstMoves(p, q, ms), Directed(p, q, b, ms),
         UNCHANGED <<sent, m_input, topic_input, leader, log>>
  PROVE  FirstOrder(p)'
<1> DEFINE S == FirstTurn({p})
           a == leader[p].at
           r == pp[p]
           L == Line(p)
           L2 == Line(p)'
           K == Kinds(p)
<1>0. pp'[p] = q /\ leader' = leader /\ sent' = sent
  OBVIOUS
<1>1. Retries(p, pp[p])'
  BY <1>0 DEF Retries
<1>2. \A c \in Brokers : /\ Sets(bp'[c]) = Sets(bp[c]) /\ bp[c].m_input \in Seq(Message)
                         /\ bp'[c].m_input = IF c = b THEN bp[c].m_input \o ms ELSE bp[c].m_input
  <2>1. \A c \in Brokers : bp[c].m_input \in Seq(Message)
    BY PlacesType
  <2>2. CASE ToBroker(b, ms)
    BY <2>1, <2>2, SentBroker
  <2>3. CASE bp' = bp /\ ms = <<>>
    BY <2>1, <2>3
  <2> QED BY <2>2, <2>3
<1>3. ASSUME NEW c \in Brokers, IdsIn(ms, S) = {} PROVE Thinned(bp[c].m_input, bp'[c].m_input, S)
  <2>1. PICK u \in Seq(Message) : u = bp[c].m_input
    BY <1>2
  <2>2. Rising(ms, S)
    BY <1>3, IdsEmpty, ThinnedEmpty DEF Thinned
  <2>3. Thinned(u, u \o ms, S) /\ Thinned(u, u, S)
    BY <1>3, <2>2, GainedConcat, ThinnedSame
  <2> QED BY <1>2, <2>1, <2>3
<1>4. OneBroker(p)'
  <2> SUFFICES ASSUME leader[p].moves = 0
               PROVE  /\ leader[p].was = {a}
                      /\ q.m_broker_producer \in {Nobody, a}
                      /\ \A c \in Brokers \ {a} : Without(bp'[c], p)
    BY <1>0 DEF OneBroker
  <2>1. leader[p].was = {a} /\ r.m_broker_producer \in {Nobody, a} /\ \A c \in Brokers \ {a} : Without(bp[c], p)
    BY DEF FirstOrder, OneBroker
  <2>2. IdsIn(ms, S) # {} => b = a
    BY <2>1 DEF Directed
  <2>3. ASSUME NEW c \in Brokers \ {a} PROVE Without(bp'[c], p)
    <3>1. Sets(bp'[c]) = Sets(bp[c]) /\ Without(bp[c], p)
      BY <1>2, <2>1
    <3>2. IdsIn(bp'[c].m_input, S) \subseteq IdsIn(bp[c].m_input, S)
      <4>1. CASE c = b
        BY <4>1, <1>3, <2>2 DEF Thinned
      <4>2. CASE c # b
        BY <4>2, <1>2
      <4> QED BY <4>1, <4>2
    <3> QED BY <3>1, <3>2 DEF Without
  <2> QED BY <2>1, <2>3 DEF Directed
<1>5. /\ L[1] = log[p] /\ L[2] = Sets(bp[a]) /\ L[3] = bp[a].m_input
      /\ L[4] = r.buf[0] /\ L[5] = r.m_input /\ L[6] = topic_input /\ L[7] = m_input
  BY PlacesAt DEF Line
<1>6. /\ L2[1] = log'[p] /\ L2[2] = Sets(bp'[a]) /\ L2[3] = bp'[a].m_input
      /\ L2[4] = q.buf[0] /\ L2[5] = q.m_input /\ L2[6] = topic_input' /\ L2[7] = m_input'
  BY <1>0, PlacesAt DEF Line
<1>7. /\ K[1] = S /\ K[2] = S /\ K[3] = S /\ K[4] = S /\ K[5] = S
  BY KindsAt
<1>8. a \in Brokers
  BY PlacesType
<1>9. InLine(p) /\ FirstMoves(p, q, ms)
  BY DEF FirstOrder
<1> HIDE DEF L, L2, K, a, S, r
<1>10. L2[1] = L[1] /\ L2[2] = L[2] /\ L2[6] = L[6] /\ L2[7] = L[7]
  BY <1>2, <1>5, <1>6, <1>8
<1>11. ASSUME Lined(L, K, sent) PROVE Lined(L2, K, sent)
  <2>1. Rising(r.m_input, S) /\ Rising(r.buf[0], S)
    BY <1>5, <1>7, <1>11 DEF Lined
  <2>2. Thinned(L[5], L2[5], K[5])
    BY <1>5, <1>6, <1>7, <1>9 DEF FirstMoves, S, r
  <2>3. Thinned(L[1], L2[1], K[1]) /\ Thinned(L[2], L2[2], K[2]) /\ Thinned(L[6], L2[6], K[6]) /\ Thinned(L[7], L2[7], K[7])
    BY <1>10, ThinnedSame
  <2>4. q.buf[0] = <<>> => IdsIn(L2[4], K[4]) = {} /\ Thinned(L[4], L2[4], K[4])
    BY <1>6, <1>7, IdsEmpty, ThinnedEmpty
  <2>5. IdsIn(ms, S) = {} => Thinned(L[3], L2[3], K[3])
    BY <1>3, <1>5, <1>6, <1>7, <1>8
  <2>6. a # b => Thinned(L[3], L2[3], K[3])
    BY <1>2, <1>5, <1>6, <1>7, <1>8, ThinnedSame
  <2>7. a = b /\ Rising(ms, S) => Gained(L[3], L2[3], K[3], IdsIn(ms, S))
    <3> SUFFICES ASSUME a = b, Rising(ms, S) PROVE Gained(L[3], L2[3], K[3], IdsIn(ms, S))
      OBVIOUS
    <3>1. L[3] \in Seq(Message) /\ L2[3] = L[3] \o ms
      BY <1>2, <1>5, <1>6, <1>8
    <3> QED BY <1>7, <3>1, GainedConcat
  <2>8. CASE IdsIn(ms, S) = {} /\ Thinned(r.buf[0], q.buf[0], S)
    BY <1>5, <1>6, <1>7, <1>11, <2>2, <2>3, <2>5, <2>8, StaysInLine
  <2>9. ASSUME IdsIn(ms, S) = {}, NEW N, N \subseteq IdsIn(r.m_input, S), Gained(r.buf[0], q.buf[0], S, N),
               Rising(r.m_input, S) => Below(N, IdsIn(q.m_input, S))
        PROVE  Lined(L2, K, sent)
    <3>1. \A k \in 1..7 : k # 4 => Thinned(L[k], L2[k], K[k])
      BY <2>2, <2>3, <2>5, <2>9
    <3>2. N \subseteq IdsIn(L[5], K[5]) /\ Below(N, IdsIn(L2[5], K[5])) /\ Gained(L[4], L2[4], K[4], N)
      BY <1>5, <1>6, <1>7, <2>1, <2>9
    <3>3. \A k \in 1..7 : 4 < k /\ k < 5 => IdsIn(L2[k], K[k]) = {}
      OBVIOUS
    <3>4. 4 \in 1..7 /\ 5 \in 1..7 /\ 4 < 5
      OBVIOUS
    <3> QED BY <1>11, <3>1, <3>2, <3>3, <3>4, LinePasses, Zenon
  <2>10. CASE a # b /\ q.buf[0] = <<>>
    BY <1>11, <2>2, <2>3, <2>4, <2>6, <2>10, StaysInLine
  <2>11. CASE /\ a = b /\ IdsIn(ms, S) \subseteq IdsIn(r.buf[0], S) /\ q.buf[0] = <<>>
              /\ (Rising(r.buf[0], S) => Rising(ms, S))
    <3>1. \A k \in 1..7 : k # 3 => Thinned(L[k], L2[k], K[k])
      BY <2>2, <2>3, <2>4, <2>11
    <3>2. PICK N : N = IdsIn(ms, S)
      OBVIOUS
    <3>3. N \subseteq IdsIn(L[4], K[4]) /\ Below(N, IdsIn(L2[4], K[4])) /\ Gained(L[3], L2[3], K[3], N)
      BY <1>5, <1>7, <2>1, <2>4, <2>7, <2>11, <3>2 DEF Below
    <3>4. \A k \in 1..7 : 3 < k /\ k < 4 => IdsIn(L2[k], K[k]) = {}
      OBVIOUS
    <3>5. 3 \in 1..7 /\ 4 \in 1..7 /\ 3 < 4
      OBVIOUS
    <3> QED BY <1>11, <3>1, <3>3, <3>4, <3>5, LinePasses, Zenon
  <2>12. CASE /\ a = b /\ IdsIn(ms, S) \subseteq IdsIn(r.m_input, S) /\ q.buf[0] = <<>> /\ Rising(ms, S)
              /\ Rising(r.m_input, S) => Below(IdsIn(ms, S), IdsIn(q.m_input, S))
    <3>1. \A k \in 1..7 : k # 3 => Thinned(L[k], L2[k], K[k])
      BY <2>2, <2>3, <2>4, <2>12
    <3>4. \A k \in 1..7 : 3 < k /\ k < 5 => IdsIn(L2[k], K[k]) = {}
      BY <2>4, <2>12
    <3>2. PICK N : N = IdsIn(ms, S)
      OBVIOUS
    <3>3. N \subseteq IdsIn(L[5], K[5]) /\ Below(N, IdsIn(L2[5], K[5])) /\ Gained(L[3], L2[3], K[3], N)
      BY <1>5, <1>6, <1>7, <2>1, <2>7, <2>12, <3>2
    <3>5. 3 \in 1..7 /\ 5 \in 1..7 /\ 3 < 5
      OBVIOUS
    <3> QED BY <1>11, <3>1, <3>3, <3>4, <3>5, LinePasses, Zenon
  <2> QED BY <1>9, <2>8, <2>9, <2>10, <2>11, <2>12 DEF FirstMoves, S, r
<1>12. InLine(p)'
  BY <1>0, <1>9, <1>11 DEF InLine, L, L2, K
<1> QED BY <1>1, <1>4, <1>12 DEF FirstOrder

\* A step that changes nothing of the line.
LEMMA StillOrder ==
  ASSUME Shapes, NEW p \in Partitions, FirstOrder(p),
         UNCHANGED <<sent, m_input, topic_input, pp, bp, leader, log>>
  PROVE  FirstOrder(p)'
<1> DEFINE A == FirstTurn(Place)
<1>1. /\ {} \subseteq IdsIn(m_input, A) /\ Below({}, IdsIn(m_input', A))
      /\ Gained(topic_input, topic_input', A, {}) /\ Thinned(m_input, m_input', A)
  BY ThinnedSame DEF Gained, Below
<1>2. bp' = bp /\ pp' = pp /\ leader' = leader /\ log' = log /\ sent' = sent
  OBVIOUS
<1> HIDE DEF A
<1> QED BY <1>1, <1>2, EntryStep DEF A

\* A queue that gets an item that is no first turn.
LEMMA ThinnedPush ==
  ASSUME NEW s \in Seq(Message), NEW x \in Message, NEW S, x \notin S
  PROVE  Thinned(s, Append(s, x), S)
BY GainedPush

\* m_input gets a mark or a message for another turn, or nothing.
LEMMA InputOrder ==
  ASSUME Shapes, NEW p \in Partitions, FirstOrder(p), NEW x \in Stop \cup Back,
         m_input' = m_input \/ m_input' = Append(m_input, x),
         UNCHANGED <<sent, topic_input, pp, bp, leader, log>>
  PROVE  FirstOrder(p)'
<1> DEFINE A == FirstTurn(Place)
<1>1. m_input \in Seq(Message) /\ x \in Message /\ x \notin A
  BY PlacesType, FirstTurns, ItemTypes, ItemSets
<1>2. Thinned(m_input, m_input', A)
  BY <1>1, ThinnedPush, ThinnedSame
<1>3. {} \subseteq IdsIn(m_input, A) /\ Below({}, IdsIn(m_input', A)) /\ Gained(topic_input, topic_input', A, {})
  BY DEF Gained, Below
<1>4. bp' = bp /\ pp' = pp /\ leader' = leader /\ log' = log /\ sent' = sent
  OBVIOUS
<1> HIDE DEF A
<1> QED BY <1>2, <1>3, <1>4, EntryStep DEF A

\* close(): the mark of shutdown().
LEMMA CloseOrder ==
  ASSUME Shapes, NEW p \in Partitions, FirstOrder(p), Close
  PROVE  FirstOrder(p)'
<1>1. /\ m_input' = Append(m_input, Mark("shutdown", NoPartition, 0))
      /\ UNCHANGED <<sent, topic_input, pp, bp, leader, log>>
  BY DEF Close, worldVars
<1>2. Mark("shutdown", NoPartition, 0) \in Stop
  BY DEF Mark, Stop
<1> QED BY <1>1, <1>2, InputOrder

\* retry_handler(): what it passes on was retried.
LEMMA RetryHandlerOrder ==
  ASSUME Shapes, NEW p \in Partitions, FirstOrder(p), RetryHandler
  PROVE  FirstOrder(p)'
<1>1. m_retries \in Seq(Back) /\ retry_buf \in Seq(Back) /\ m_retries # <<>>
  BY DEF Shapes, RetryHandler
<1>2. PICK buf : buf = Append(retry_buf, Head(m_retries))
  OBVIOUS
<1>3. Head(m_retries) \in Back
  BY <1>1
<1>4. buf \in Seq(Back) /\ buf # <<>>
  BY <1>1, <1>2, <1>3
<1>5. Head(buf) \in Back
  BY <1>4
<1>6. m_input' = m_input \/ m_input' = Append(m_input, Head(buf))
  BY <1>2 DEF RetryHandler
<1>7. UNCHANGED <<sent, topic_input, pp, bp, leader, log>>
  BY DEF RetryHandler, worldVars
<1> QED BY <1>5, <1>6, <1>7, InputOrder

\* dispatcher(): the first message of m_input goes last into the topic's channel, or is gone.
LEMMA DispatchOrder ==
  ASSUME Shapes, NEW p \in Partitions, FirstOrder(p), Dispatch
  PROVE  FirstOrder(p)'
<1> DEFINE A == FirstTurn(Place)
<1>1. PICK m : m = Head(m_input)
  OBVIOUS
<1>2. /\ m_input # <<>> /\ m_input' = Tail(m_input)
      /\ topic_input' = topic_input \/ topic_input' = Append(topic_input, m)
      /\ UNCHANGED <<sent, pp, bp, leader, log>>
  BY <1>1 DEF Dispatch, worldVars
<1>3. m_input \in Seq(Message) /\ topic_input \in Seq(Message) /\ m \in Message
  BY <1>1, <1>2, PlacesType
<1>4. /\ Thinned(m_input, m_input', A)
      /\ m \in A => /\ m.id \in IdsIn(m_input, A)
                    /\ Rising(m_input, A) => Below({m.id}, IdsIn(m_input', A))
  BY <1>1, <1>2, <1>3, ThinnedPop
<1>5. /\ m \notin A => Thinned(topic_input, topic_input', A)
      /\ Gained(topic_input, topic_input', A, {m.id})
  <2>1. CASE topic_input' = topic_input
    BY <2>1, ThinnedSame DEF Gained, Thinned
  <2>2. CASE topic_input' = Append(topic_input, m)
    BY <1>3, <2>2, GainedPush
  <2> QED BY <1>2, <2>1, <2>2
<1>6. bp' = bp /\ pp' = pp /\ leader' = leader /\ log' = log /\ sent' = sent
  BY <1>2
<1>7. PICK N : /\ N \subseteq IdsIn(m_input, A) /\ Gained(topic_input, topic_input', A, N)
               /\ Rising(m_input, A) => Below(N, IdsIn(m_input', A))
  <2>1. CASE m \in A
    BY <2>1, <1>4, <1>5
  <2>2. CASE m \notin A
    <3>1. /\ {} \subseteq IdsIn(m_input, A) /\ Gained(topic_input, topic_input', A, {})
          /\ Rising(m_input, A) => Below({}, IdsIn(m_input', A))
      BY <2>2, <1>5 DEF Gained, Thinned, Below
    <3> QED BY <3>1
  <2> QED BY <2>1, <2>2
<1> HIDE DEF A
<1> QED BY <1>4, <1>6, <1>7, EntryStep DEF A

\* m_input.set: the new message comes last, with the next number.
LEMMA SendOrder ==
  ASSUME Shapes, NEW p \in Partitions, FirstOrder(p), Send
  PROVE  FirstOrder(p)'
<1> DEFINE A == FirstTurn(Place)
           L == Line(p)
           L2 == Line(p)'
           K == Kinds(p)
<1>1. /\ sent < MaxSent /\ sent' = sent + 1 /\ m_input' = Append(m_input, Msg(sent + 1))
      /\ UNCHANGED <<topic_input, pp, bp, leader, log>>
  BY DEF Send, worldVars
<1>2. sent \in Nat /\ m_input \in Seq(Message) /\ Msg(sent + 1) \in Message /\ Msg(sent + 1).id = sent + 1
  <2>1. MaxSent \in Nat /\ RetryMax \in Nat /\ sent \in 0..MaxSent
    BY KafkaProducerAssumption DEF Shapes
  <2>2. sent + 1 \in Id /\ 0 \in Level /\ "msg" \in Kind /\ NoPartition \in Place
    BY <1>1, <2>1 DEF Id, Level, Kind, Place
  <2>3. Msg(sent + 1) \in Message /\ Msg(sent + 1).id = sent + 1
    BY <2>2 DEF Msg, Message
  <2>4. m_input \in Seq(Message)
    BY PlacesType
  <2> QED BY <2>1, <2>3, <2>4
<1>3. Gained(m_input, m_input', A, {sent + 1})
  BY <1>1, <1>2, GainedPush
<1>4. Retries(p, pp[p])' /\ OneBroker(p)'
  BY <1>1, Zenon DEF FirstOrder, Retries, OneBroker
<1>5. /\ L[1] = log[p] /\ L[2] = Sets(bp[leader[p].at]) /\ L[3] = bp[leader[p].at].m_input
      /\ L[4] = pp[p].buf[0] /\ L[5] = pp[p].m_input /\ L[6] = topic_input /\ L[7] = m_input
  BY PlacesAt DEF Line
<1>6. /\ L2[1] = log'[p] /\ L2[2] = Sets(bp'[leader'[p].at]) /\ L2[3] = bp'[leader'[p].at].m_input
      /\ L2[4] = pp'[p].buf[0] /\ L2[5] = pp'[p].m_input /\ L2[6] = topic_input' /\ L2[7] = m_input'
  BY PlacesAt DEF Line
<1>7. /\ K[7] = A
      /\ \A k \in 1..7 : K[k] \subseteq A
  <2>1. FirstTurn({p}) \subseteq A
    BY FirstTurns
  <2> HIDE DEF A
  <2>2. K[7] = A
    BY KindsAt DEF A
  <2>3. ASSUME NEW k \in 1..7 PROVE K[k] = FirstTurn({p}) \/ K[k] = A
    BY KindsAt DEF A
  <2> QED BY <2>1, <2>2, <2>3
<1>8. \A k \in 1..7 : \A x \in IdsIn(L[k], K[k]) : x \in Nat
  <2> SUFFICES ASSUME NEW k \in 1..7, NEW x, x \in IdsIn(L[k], K[k]) PROVE x \in Nat
    OBVIOUS
  <2>1. PICK i \in DOMAIN L[k] : L[k][i] \in K[k] /\ L[k][i].id = x
    BY InIds
  <2> QED BY <2>1, <1>7, FirstTurns
<1> HIDE DEF L, L2, K, A
<1>9. \A k \in 1..6 : L2[k] = L[k]
  BY <1>1, <1>5, <1>6
<1>10. ASSUME Lined(L, K, sent) PROVE Lined(L2, K, sent + 1)
  <2>1. \A k \in 1..6 : Thinned(L[k], L2[k], K[k])
    BY <1>9, ThinnedSame
  <2>2. Gained(L[7], L2[7], K[7], {sent + 1})
    BY <1>3, <1>5, <1>6, <1>7
  <2> QED BY <1>2, <1>8, <1>10, <2>1, <2>2, LineGrows
<1>11. InLine(p)'
  BY <1>1, <1>10 DEF FirstOrder, InLine, L, L2, K
<1> QED BY <1>4, <1>11 DEF FirstOrder

\* The topic's dispatch(): its first message goes last into the partition's channel, or is gone.
LEMMA TopicStep ==
  ASSUME Shapes, NEW p \in Partitions, FirstOrder(p), UNCHANGED <<sent, m_input, bp, leader, log>>,
         NEW N, N \subseteq IdsIn(topic_input, FirstTurn(Place)),
         Rising(topic_input, FirstTurn(Place)) => Below(N, IdsIn(topic_input', FirstTurn(Place))),
         Thinned(topic_input, topic_input', FirstTurn(Place)),
         Gained(pp[p].m_input, pp'[p].m_input, FirstTurn({p}), N),
         pp'[p].pc = "send" <=> pp[p].pc = "send", pp'[p].msg = pp[p].msg, pp'[p].buf = pp[p].buf,
         pp'[p].m_broker_producer = pp[p].m_broker_producer
  PROVE  FirstOrder(p)'
<1> DEFINE L == Line(p)
           L2 == Line(p)'
           K == Kinds(p)
<1>0. leader' = leader /\ bp' = bp /\ sent' = sent
  OBVIOUS
<1>1. Retries(p, pp[p])' /\ OneBroker(p)'
  <2>1. Retries(p, pp[p]) /\ OneBroker(p)
    BY DEF FirstOrder
  <2>2. Retries(p, pp[p])'
    BY <2>1, Zenon DEF Retries
  <2>3. OneBroker(p)'
    BY <1>0, <2>1, Zenon DEF OneBroker
  <2> QED BY <2>2, <2>3
<1>2. /\ L[1] = log[p] /\ L[2] = Sets(bp[leader[p].at]) /\ L[3] = bp[leader[p].at].m_input
      /\ L[4] = pp[p].buf[0] /\ L[5] = pp[p].m_input /\ L[6] = topic_input /\ L[7] = m_input
  BY PlacesAt DEF Line
<1>3. /\ L2[1] = log'[p] /\ L2[2] = Sets(bp'[leader'[p].at]) /\ L2[3] = bp'[leader'[p].at].m_input
      /\ L2[4] = pp'[p].buf[0] /\ L2[5] = pp'[p].m_input /\ L2[6] = topic_input' /\ L2[7] = m_input'
  BY PlacesAt DEF Line
<1>4. K[6] = FirstTurn(Place) /\ K[5] = FirstTurn({p})
  BY KindsAt
<1> HIDE DEF L, L2, K
<1>5. L2[1] = L[1] /\ L2[2] = L[2] /\ L2[3] = L[3] /\ L2[4] = L[4] /\ L2[7] = L[7]
  BY <1>2, <1>3
<1>6. ASSUME Lined(L, K, sent) PROVE Lined(L2, K, sent)
  <2>1. \A k \in 1..7 : k # 5 => Thinned(L[k], L2[k], K[k])
    BY <1>2, <1>3, <1>4, <1>5, ThinnedSame
  <2>2. Rising(topic_input, FirstTurn(Place))
    BY <1>2, <1>4, <1>6 DEF Lined
  <2>3. /\ N \subseteq IdsIn(L[6], K[6]) /\ Below(N, IdsIn(L2[6], K[6])) /\ Gained(L[5], L2[5], K[5], N)
    BY <1>2, <1>3, <1>4, <2>2
  <2>4. \A k \in 1..7 : 5 < k /\ k < 6 => IdsIn(L2[k], K[k]) = {}
    OBVIOUS
  <2>5. 5 \in 1..7 /\ 6 \in 1..7 /\ 5 < 6
    OBVIOUS
  <2> QED BY <1>6, <2>1, <2>3, <2>4, <2>5, LinePasses, Zenon
<1>7. InLine(p)'
  BY <1>0, <1>6 DEF FirstOrder, InLine, L, L2, K
<1> QED BY <1>1, <1>7 DEF FirstOrder

\* What becomes of the message in the topic's channel.
LEMMA DispatchTopicOrder ==
  ASSUME Shapes, NEW p \in Partitions, FirstOrder(p), DispatchTopic
  PROVE  FirstOrder(p)'
<1> DEFINE S == FirstTurn({p})
           A == FirstTurn(Place)
<1>1. PICK m : m = Head(topic_input)
  OBVIOUS
<1>2. /\ topic_input # <<>> /\ topic_input' = Tail(topic_input)
      /\ UNCHANGED <<sent, m_input, bp, leader, log>>
      /\ pp' = pp \/ \E z \in Partitions : ToPartition(m, z)
  BY <1>1 DEF DispatchTopic, worldVars
<1>3. topic_input \in Seq(Message) /\ m \in Message /\ pp[p].m_input \in Seq(Message)
  BY <1>1, <1>2, PlacesType
<1>5. /\ Thinned(topic_input, topic_input', A)
      /\ m \in A => /\ m.id \in IdsIn(topic_input, A)
                    /\ Rising(topic_input, A) => Below({m.id}, IdsIn(topic_input', A))
  BY <1>1, <1>2, <1>3, ThinnedPop
<1>6. pp \in [Partitions -> PartitionProducer]
  BY DEF Shapes
<1>7. CASE pp'[p] = pp[p]
  <2>1. {} \subseteq IdsIn(topic_input, A) /\ Below({}, IdsIn(topic_input', A))
    BY DEF Below
  <2>2. Gained(pp[p].m_input, pp'[p].m_input, S, {})
    BY <1>7 DEF Gained
  <2> HIDE DEF S, A
  <2> QED BY <1>2, <1>5, <1>7, <2>1, <2>2, TopicStep DEF S, A
<1>8. CASE ToPartition(m, p)
  <2>1. PICK m2 : m2 = [m EXCEPT !.part = p]
    OBVIOUS
  <2>2. m2 \in Message /\ m2.id = m.id /\ m2.retries = m.retries /\ m2.kind = m.kind
    BY <1>3, <2>1 DEF Message, Place
  <2>3. pp'[p] = [pp[p] EXCEPT !.m_input = Append(@, m2), !.pc = IF @ = "off" THEN "start" ELSE @]
    BY <1>6, <1>8, <2>1 DEF ToPartition
  <2>4. /\ pp'[p].m_input = Append(pp[p].m_input, m2)
        /\ pp'[p].pc = "send" <=> pp[p].pc = "send"
        /\ pp'[p].msg = pp[p].msg /\ pp'[p].buf = pp[p].buf
        /\ pp'[p].m_broker_producer = pp[p].m_broker_producer
    BY <1>6, <2>3 DEF PartitionProducer
  <2>5. /\ m2 \notin S => Thinned(pp[p].m_input, pp'[p].m_input, S)
        /\ Gained(pp[p].m_input, pp'[p].m_input, S, {m.id})
    BY <1>3, <2>2, <2>4, GainedPush
  <2>6. m2 \in S => m \in A
    BY <1>3, <2>2 DEF FirstTurn, Message
  <2>7. PICK N : /\ N \subseteq IdsIn(topic_input, A) /\ Gained(pp[p].m_input, pp'[p].m_input, S, N)
                 /\ Rising(topic_input, A) => Below(N, IdsIn(topic_input', A))
    <3>1. CASE m \in A
      BY <3>1, <1>5, <2>5
    <3>2. CASE m \notin A
      <4>1. /\ {} \subseteq IdsIn(topic_input, A) /\ Gained(pp[p].m_input, pp'[p].m_input, S, {})
            /\ Rising(topic_input, A) => Below({}, IdsIn(topic_input', A))
        BY <3>2, <2>5, <2>6 DEF Gained, Thinned, Below
      <4> QED BY <4>1
    <3> QED BY <3>1, <3>2
  <2> HIDE DEF S, A
  <2> QED BY <1>2, <1>5, <2>4, <2>7, TopicStep DEF S, A
<1>9. ASSUME NEW z \in Partitions, z # p, ToPartition(m, z) PROVE pp'[p] = pp[p]
  BY <1>6, <1>9 DEF ToPartition
<1> QED BY <1>2, <1>7, <1>8, <1>9

\* Items of the partition z.
Belongs(ms, z) == ms \in Seq(Message) /\ \A i \in DOMAIN ms : ms[i].part = z

\* A step of z's PartitionProducer: it becomes q, and ms is sent to b.
Goes(z, q, b, ms) ==
  /\ pp'[z] = q /\ \A x \in Partitions : x # z => pp'[x] = pp[x]
  /\ ToBroker(b, ms) \/ (bp' = bp /\ ms = <<>>)
  /\ Belongs(ms, z)
  /\ Retries(z, q) /\ FirstMoves(z, q, ms) /\ Directed(z, q, b, ms)

\* It keeps the order of every partition.
LEMMA GoesOrder ==
  ASSUME Shapes, NEW p \in Partitions, FirstOrder(p), NEW z \in Partitions, NEW q, NEW b \in Brokers, NEW ms,
         Goes(z, q, b, ms), UNCHANGED <<sent, m_input, topic_input, leader, log>>
  PROVE  FirstOrder(p)'
<1>1. CASE p = z
  <2>1. /\ pp'[p] = q
        /\ ToBroker(b, ms) \/ (bp' = bp /\ ms = <<>>)
        /\ ms \in Seq(Message) /\ Retries(p, q) /\ FirstMoves(p, q, ms) /\ Directed(p, q, b, ms)
    BY <1>1, Zenon DEF Goes, Belongs
  <2> QED BY <2>1, OwnStep, Zenon
<1>2. CASE p # z
  <2>1. PICK r : r = pp[p]
    OBVIOUS
  <2>2. pp'[p] = r
    BY <1>2, <2>1 DEF Goes
  <2>7. ToBroker(b, ms) \/ (bp' = bp /\ ms = <<>>)
    BY DEF Goes
  <2>3. ms \in Seq(Message) /\ Retries(p, r)
    BY <2>1 DEF Goes, Belongs, FirstOrder
  <2>4. IdsIn(ms, FirstTurn({p})) = {}
    <3>1. \A i \in DOMAIN ms : ms[i] \notin FirstTurn({p})
      BY <1>2, FirstTurns DEF Goes, Belongs
    <3> QED BY <3>1, IdsNone
  <2>5. FirstMoves(p, r, ms)
    BY <2>1, <2>4, ThinnedSame DEF FirstMoves
  <2>6. Directed(p, r, b, ms)
    BY <2>1, <2>4 DEF Directed
  <2> QED BY <2>2, <2>3, <2>5, <2>6, <2>7, OwnStep, Zenon
<1> QED BY <1>1, <1>2

\* A syn before what is sent changes nothing of first turns.
LEMMA SynFirst ==
  ASSUME NEW z \in Partitions, NEW ms, Belongs(ms, z), NEW y, y = <<Mark("syn", z, 0)>> \o ms
  PROVE  /\ Belongs(y, z)
         /\ IdsIn(y, FirstTurn({z})) = IdsIn(ms, FirstTurn({z}))
         /\ Rising(y, FirstTurn({z})) <=> Rising(ms, FirstTurn({z}))
<1>0. ms \in Seq(Message) /\ \A i \in DOMAIN ms : ms[i].part = z
  BY DEF Belongs
<1>1. PICK x : x = Mark("syn", z, 0)
  OBVIOUS
<1>2. x \in Syn /\ x.part = z
  BY <1>1 DEF Syn, Mark
<1>3. x \in Message /\ x \notin FirstTurn({z})
  BY <1>2, ItemTypes, FirstTurns
<1>10. <<x>> \in Seq(Message)
  BY <1>3, Single
<1>4. PICK t \in Seq(Message) : t = <<x>>
  BY <1>10
<1>5. DOMAIN t = {1} /\ t[1] = x
  BY <1>4
<1>6. IdsIn(t, FirstTurn({z})) = {} /\ Rising(t, FirstTurn({z}))
  BY <1>3, <1>5, IdsNone
<1>7. y = t \o ms /\ y \in Seq(Message)
  BY <1>0, <1>1, <1>4
<1>8. /\ IdsIn(t \o ms, FirstTurn({z})) = IdsIn(t, FirstTurn({z})) \cup IdsIn(ms, FirstTurn({z}))
      /\ Rising(t \o ms, FirstTurn({z})) <=> /\ Rising(t, FirstTurn({z})) /\ Rising(ms, FirstTurn({z}))
                                            /\ Below(IdsIn(t, FirstTurn({z})), IdsIn(ms, FirstTurn({z})))
  BY <1>0, IdsConcat
<1>9. \A i \in DOMAIN y : y[i].part = z
  <2> SUFFICES ASSUME NEW i \in DOMAIN y PROVE y[i].part = z
    OBVIOUS
  <2>1. PICK m \in Nat, n \in Nat : Joins(t, ms, y, m, n)
    BY <1>0, <1>7, ConcatPositions
  <2>2. CASE i \in 1..m
    BY <1>2, <1>5, <2>1, <2>2 DEF Joins
  <2>3. CASE \E k \in 1..n : i = k + m
    <3>1. PICK k \in 1..n : i = k + m
      BY <2>3
    <3>2. y[i] = ms[k] /\ k \in DOMAIN ms
      BY <2>1, <3>1 DEF Joins
    <3> QED BY <1>0, <3>2
  <2> QED BY <1>7, <2>1, <2>2, <2>3 DEF Joins
<1> QED BY <1>6, <1>7, <1>8, <1>9 DEF Below, Belongs

\* FirstMoves asks of q what it has in its channel and its first buffer only.
LEMMA SameMoves ==
  ASSUME NEW p, NEW q, NEW r, NEW ms, NEW ns, FirstMoves(p, q, ms),
         r.m_input = q.m_input, r.buf = q.buf, IdsIn(ns, FirstTurn({p})) = IdsIn(ms, FirstTurn({p})),
         Rising(ms, FirstTurn({p})) => Rising(ns, FirstTurn({p}))
  PROVE  FirstMoves(p, r, ns)
<1> DEFINE S == FirstTurn({p})
<1>1. r.buf[0] = q.buf[0]
  OBVIOUS
<1> QED BY <1>1 DEF FirstMoves

\* A step that goes to its BrokerProducer, to the leader's, or nowhere.
LEMMA LeaderGoes ==
  ASSUME Shapes, NEW z \in Partitions, NEW m, NEW q \in PartitionShape(z), NEW ms, NEW more,
         WithLeader(z, m, q, ms, more), Belongs(ms, z),
         Retries(z, q), FirstMoves(z, q, ms), FirstMoves(z, q, <<>>),
         q.m_broker_producer \in {pp[z].m_broker_producer, Nobody}
  PROVE  \E r : \E b \in Brokers : \E ns : Goes(z, r, b, ns)
<1> DEFINE b0 == pp[z].m_broker_producer
<1>0. pp \in [Partitions -> PartitionProducer] /\ b0 \in Brokers \cup {Nobody} /\ leader[z].at \in Brokers
  BY PlacesType DEF Shapes, PartitionProducer
<1>1. CASE /\ b0 # Nobody
           /\ pp' = [pp EXCEPT ![z] = q] /\ ToBroker(b0, ms)
  <2>1. Directed(z, q, b0, ms) /\ b0 \in Brokers
    BY <1>0, <1>1 DEF Directed
  <2>2. pp'[z] = q /\ \A x \in Partitions : x # z => pp'[x] = pp[x]
    BY <1>0, <1>1
  <2>3. Goes(z, q, b0, ms)
    BY <1>1, <2>1, <2>2, Zenon DEF Goes
  <2> QED BY <2>1, <2>3
<1>2. ASSUME NEW b \in Brokers, Found(z, b),
             pp' = [pp EXCEPT ![z] = [q EXCEPT !.m_broker_producer = IF q.pc = "send" THEN Nobody ELSE b]],
             ToBroker(b, <<Mark("syn", z, 0)>> \o ms)
      PROVE  \E r : \E c \in Brokers : \E ns : Goes(z, r, c, ns)
  <2>1. PICK c : c = IF q.pc = "send" THEN Nobody ELSE b
    OBVIOUS
  <2>2. c \in Brokers \cup {Nobody} /\ c \in {Nobody} \cup leader[z].was /\ b \in leader[z].was
    BY <1>2, <2>1 DEF Found
  <2>3. PICK r : r = [q EXCEPT !.m_broker_producer = c]
    OBVIOUS
  <2>4. /\ r.pc = q.pc /\ r.m_input = q.m_input /\ r.msg = q.msg /\ r.buf = q.buf /\ r.m_broker_producer = c
    BY <2>2, <2>3 DEF PartitionShape
  <2>5. PICK ns : ns = <<Mark("syn", z, 0)>> \o ms
    OBVIOUS
  <2>6. /\ Belongs(ns, z)
        /\ IdsIn(ns, FirstTurn({z})) = IdsIn(ms, FirstTurn({z}))
        /\ Rising(ns, FirstTurn({z})) <=> Rising(ms, FirstTurn({z}))
    BY <2>5, SynFirst
  <2>7. FirstMoves(z, r, ns) /\ Retries(z, r)
    BY <2>4, <2>6, SameMoves DEF Retries
  <2>8. Directed(z, r, b, ns)
    <3>1. r.m_broker_producer \in {pp[z].m_broker_producer, Nobody} \cup leader[z].was
      BY <2>2, <2>4
    <3> QED BY <2>2, <3>1, Zenon DEF Directed
  <2>9. pp'[z] = r /\ \A x \in Partitions : x # z => pp'[x] = pp[x]
    BY <1>0, <1>2, <2>1, <2>3
  <2>10. Goes(z, r, b, ns)
    BY <1>2, <2>5, <2>6, <2>7, <2>8, <2>9, Zenon DEF Goes
  <2> QED BY <2>10
<1>3. CASE /\ pp' = [pp EXCEPT ![z] = [q EXCEPT !.m_high_watermark = pp[z].m_high_watermark,
                                                !.expect = pp[z].expect, !.pc = "ready", !.msg = NoMsg]]
           /\ UNCHANGED bp
  <2>1. PICK r : r = [q EXCEPT !.m_high_watermark = pp[z].m_high_watermark,
                               !.expect = pp[z].expect, !.pc = "ready", !.msg = NoMsg]
    OBVIOUS
  <2>2. /\ r.pc = "ready" /\ r.m_input = q.m_input /\ r.buf = q.buf /\ r.m_broker_producer = q.m_broker_producer
    BY <2>1 DEF PartitionShape
  <2>3. Retries(z, r) /\ FirstMoves(z, r, <<>>)
    BY <2>2, SameMoves DEF Retries
  <2>4. PICK b \in Brokers : b = leader[z].at
    BY <1>0
  <2>5. Directed(z, r, b, <<>>)
    BY <2>2, IdsEmpty DEF Directed
  <2>6. pp'[z] = r /\ \A x \in Partitions : x # z => pp'[x] = pp[x]
    BY <1>0, <1>3, <2>1
  <2>7. Belongs(<<>>, z)
    BY DEF Belongs
  <2>8. Goes(z, r, b, <<>>)
    BY <1>3, <2>3, <2>5, <2>6, <2>7, Zenon DEF Goes
  <2> QED BY <2>8
<1> QED BY <1>1, <1>2, <1>3, Zenon DEF WithLeader

\* The PartitionProducer's own state changes, and it sends nothing.
LEMMA QuietGoes ==
  ASSUME Shapes, NEW z \in Partitions, NEW q, pp' = [pp EXCEPT ![z] = q], UNCHANGED bp,
         Retries(z, q), FirstMoves(z, q, <<>>), q.m_broker_producer = pp[z].m_broker_producer
  PROVE  \E r : \E b \in Brokers : \E ns : Goes(z, r, b, ns)
<1>1. PICK b \in Brokers : b = leader[z].at
  BY PlacesType
<1>2. Directed(z, q, b, <<>>)
  BY IdsEmpty DEF Directed
<1>3. pp'[z] = q /\ \A x \in Partitions : x # z => pp'[x] = pp[x]
  BY DEF Shapes
<1>4. Belongs(<<>>, z)
  BY DEF Belongs
<1>5. Goes(z, q, b, <<>>)
  BY <1>2, <1>3, <1>4, Zenon DEF Goes
<1> QED BY <1>5

\* The first item of the channel is taken and nothing else of the line changes.
LEMMA TakenMoves ==
  ASSUME Shapes, NEW z \in Partitions, NEW q, NEW ms, IdsIn(ms, FirstTurn({z})) = {}, q.buf[0] = pp[z].buf[0],
         q.m_input = pp[z].m_input \/ (pp[z].m_input # <<>> /\ q.m_input = Tail(pp[z].m_input))
  PROVE  FirstMoves(z, q, ms)
<1>1. pp[z].m_input \in Seq(Message)
  BY PlacesType
<1>2. Thinned(pp[z].m_input, q.m_input, FirstTurn({z}))
  BY <1>1, ThinnedPop, ThinnedSame
<1>3. Thinned(pp[z].buf[0], q.buf[0], FirstTurn({z}))
  BY ThinnedSame
<1> QED BY <1>2, <1>3 DEF FirstMoves

\* What a PartitionProducer is, by fields.
LEMMA ProducerFields ==
  ASSUME Shapes, NEW z \in Partitions
  PROVE  /\ pp \in [Partitions -> PartitionProducer]
         /\ pp[z] \in PartitionShape(z) /\ pp[z].m_high_watermark \in Level
         /\ pp[z].buf \in [Level -> Seq(Payload({z}))] /\ 0 \in Level /\ pp[z].msg \in Message
         /\ leader[z].at \in Brokers /\ pp[z].m_broker_producer \in Brokers \cup {Nobody}
BY ZeroLevel DEF Shapes, PartitionShape

\* The lookup of the first leader: a syn is sent, or the coroutine ends.
LEMMA StartGoes ==
  ASSUME ProducerInv, NEW z \in Partitions, FirstOrder(z), Start(z)
  PROVE  \E r : \E b \in Brokers : \E ns : Goes(z, r, b, ns)
<1>0. Shapes /\ Retries(z, pp[z])
  BY DEF ProducerInv, FirstOrder
<1>1. pp[z] \in PartitionShape(z) /\ pp \in [Partitions -> PartitionProducer]
  BY <1>0, ProducerFields
<1>2. ASSUME NEW b \in Brokers, Found(z, b), ToBroker(b, <<Mark("syn", z, 0)>>),
             pp' = [pp EXCEPT ![z].pc = "ready", ![z].m_broker_producer = b]
      PROVE  \E r : \E c \in Brokers : \E ns : Goes(z, r, c, ns)
  <2>1. PICK r : r = [pp[z] EXCEPT !.pc = "ready", !.m_broker_producer = b]
    OBVIOUS
  <2>2. /\ r.pc = "ready" /\ r.m_broker_producer = b /\ r.m_input = pp[z].m_input /\ r.buf = pp[z].buf
    BY <1>1, <2>1 DEF PartitionShape
  <2>3. pp'[z] = r /\ \A x \in Partitions : x # z => pp'[x] = pp[x]
    BY <1>1, <1>2, <2>1
  <2>4. PICK ns : ns = <<Mark("syn", z, 0)>> \o <<>>
    OBVIOUS
  <2>5. Mark("syn", z, 0) \in Message
    BY ItemTypes DEF Mark, Syn
  <2>6. ns = <<Mark("syn", z, 0)>>
    BY <2>4, <2>5
  <2>7. Belongs(<<>>, z)
    BY DEF Belongs
  <2>8. Belongs(ns, z) /\ IdsIn(ns, FirstTurn({z})) = IdsIn(<<>>, FirstTurn({z}))
    BY <2>4, <2>7, SynFirst
  <2>9. IdsIn(ns, FirstTurn({z})) = {}
    BY <2>8, IdsEmpty
  <2>10. FirstMoves(z, r, ns)
    BY <1>0, <2>2, <2>9, TakenMoves
  <2>11. Retries(z, r)
    BY <1>0, <2>2 DEF Retries
  <2>12. Directed(z, r, b, ns)
    BY <1>2, <2>2, <2>9 DEF Directed, Found
  <2>13. Goes(z, r, b, ns)
    BY <1>2, <2>3, <2>6, <2>8, <2>10, <2>11, <2>12, Zenon DEF Goes
  <2> QED BY <2>13
<1>3. CASE pp' = [pp EXCEPT ![z].pc = "dead"] /\ UNCHANGED bp
  <2>1. PICK r : r = [pp[z] EXCEPT !.pc = "dead"]
    OBVIOUS
  <2>2. /\ r.pc = "dead" /\ r.m_broker_producer = pp[z].m_broker_producer
        /\ r.m_input = pp[z].m_input /\ r.buf = pp[z].buf
    BY <1>1, <2>1 DEF PartitionShape
  <2>3. pp' = [pp EXCEPT ![z] = r]
    BY <1>1, <1>3, <2>1
  <2>4. FirstMoves(z, r, <<>>) /\ Retries(z, r)
    BY <1>0, <2>2, IdsEmpty, TakenMoves DEF Retries
  <2> QED BY <1>0, <1>3, <2>2, <2>3, <2>4, QuietGoes
<1> QED BY <1>2, <1>3, Zenon DEF Start

\* The chaser of a new watermark goes out; the message that raised it was retried.
LEMMA NewHighWatermarkGoes ==
  ASSUME ProducerInv, NEW z \in Partitions, FirstOrder(z), NewHighWatermark(z)
  PROVE  \E r : \E b \in Brokers : \E ns : Goes(z, r, b, ns)
<1>0. Shapes /\ Retries(z, pp[z])
  BY DEF ProducerInv, FirstOrder
<1>1. PICK m : m = Head(pp[z].m_input)
  OBVIOUS
<1>2. /\ pp[z].m_input # <<>> /\ m.retries > pp[z].m_high_watermark
  BY <1>1 DEF NewHighWatermark
<1>3. /\ pp[z] \in PartitionShape(z) /\ pp[z].m_high_watermark \in Level
  BY <1>0, ProducerFields
<1>4. /\ m \in Coming({z}) /\ m.retries \in Level /\ Tail(pp[z].m_input) \in Seq(Coming({z})) /\ m.retries > 0
  <2>1. m \in Coming({z}) /\ m.retries \in Level /\ Tail(pp[z].m_input) \in Seq(Coming({z}))
    BY <1>0, <1>1, <1>2, HeadIn
  <2> QED BY <1>2, <1>3, <2>1 DEF Level
<1>5. PICK q : q = [pp[z] EXCEPT !.m_input = Tail(@), !.m_high_watermark = m.retries,
                                 !.expect[m.retries] = TRUE, !.m_broker_producer = Nobody,
                                 !.pc = "send", !.msg = m]
  OBVIOUS
<1>6. m \in Message
  BY <1>4, ItemSets, ItemTypes DEF Coming
<1>7. /\ q \in PartitionShape(z) /\ q.m_input = Tail(pp[z].m_input) /\ q.buf = pp[z].buf
      /\ q.m_broker_producer = Nobody /\ q.pc = "send" /\ q.msg = m
  BY <1>3, <1>4, <1>5, <1>6 DEF PartitionShape
<1>8. PICK x : x = Mark("fin", z, m.retries - 1)
  OBVIOUS
<1>9. x \in Leaving /\ x.part = z
  BY <1>4, <1>8, KafkaProducerAssumption DEF Leaving, Mark, Level
<1>10. x \in Message /\ x \notin FirstTurn({z})
  BY <1>9, ItemTypes, FirstTurns
<1>11. PICK ms \in Seq(Message) : ms = <<x>>
  BY <1>10, Single
<1>12. DOMAIN ms = {1} /\ ms[1] = x
  BY <1>11
<1>13. Belongs(ms, z) /\ IdsIn(ms, FirstTurn({z})) = {}
  BY <1>9, <1>10, <1>12, IdsNone DEF Belongs
<1>14. FirstMoves(z, q, ms) /\ FirstMoves(z, q, <<>>)
  BY <1>0, <1>2, <1>7, <1>13, IdsEmpty, TakenMoves
<1>15. Retries(z, q)
  BY <1>0, <1>4, <1>7 DEF Retries
<1>16. WithLeader(z, m, q, ms, 1)
  BY <1>1, <1>5, <1>8, <1>11, Zenon DEF NewHighWatermark
<1> QED BY <1>0, <1>7, <1>13, <1>14, <1>15, <1>16, LeaderGoes

\* flush_retry_buffers begins.
LEMMA ChaserGoes ==
  ASSUME ProducerInv, NEW z \in Partitions, FirstOrder(z), Chaser(z)
  PROVE  \E r : \E b \in Brokers : \E ns : Goes(z, r, b, ns)
<1>0. Shapes /\ Retries(z, pp[z])
  BY DEF ProducerInv, FirstOrder
<1>1. PICK m : m = Head(pp[z].m_input)
  OBVIOUS
<1>2. /\ pp[z].m_input # <<>> /\ UNCHANGED bp
      /\ pp' = [pp EXCEPT ![z].m_input = Tail(@), ![z].expect[m.retries] = FALSE, ![z].pc = "flush"]
  BY <1>1 DEF Chaser
<1>3. pp[z] \in PartitionShape(z) /\ pp \in [Partitions -> PartitionProducer]
  BY <1>0, ProducerFields
<1>4. PICK r : r = [pp[z] EXCEPT !.m_input = Tail(@), !.expect[m.retries] = FALSE, !.pc = "flush"]
  OBVIOUS
<1>5. /\ r.m_input = Tail(pp[z].m_input) /\ r.buf = pp[z].buf /\ r.pc = "flush"
      /\ r.m_broker_producer = pp[z].m_broker_producer
  BY <1>3, <1>4 DEF PartitionShape
<1>6. pp' = [pp EXCEPT ![z] = r]
  BY <1>2, <1>3, <1>4
<1>7. FirstMoves(z, r, <<>>) /\ Retries(z, r)
  BY <1>0, <1>2, <1>5, IdsEmpty, TakenMoves DEF Retries
<1> QED BY <1>0, <1>2, <1>5, <1>6, <1>7, QuietGoes

\* A message of an earlier turn waits in its buffer, behind those that wait; a chaser is noted.
LEMMA BehindWatermarkGoes ==
  ASSUME ProducerInv, NEW z \in Partitions, FirstOrder(z), BehindWatermark(z)
  PROVE  \E r : \E b \in Brokers : \E ns : Goes(z, r, b, ns)
<1>0. Shapes /\ Retries(z, pp[z])
  BY DEF ProducerInv, FirstOrder
<1>1. PICK m : m = Head(pp[z].m_input)
  OBVIOUS
<1>2. pp[z].m_input # <<>> /\ UNCHANGED bp
  BY Zenon DEF BehindWatermark
<1>3. /\ pp[z] \in PartitionShape(z) /\ pp \in [Partitions -> PartitionProducer]
      /\ pp[z].buf \in [Level -> Seq(Payload({z}))] /\ 0 \in Level
  BY <1>0, ProducerFields
<1>4. m.retries \in Level /\ (m.kind # "fin" => m \in Payload({z}))
  BY <1>0, <1>1, <1>2, HeadIn
<1>5. CASE m.kind = "fin" /\ pp' = [pp EXCEPT ![z].m_input = Tail(@), ![z].expect[m.retries] = FALSE]
  <2>1. PICK r : r = [pp[z] EXCEPT !.m_input = Tail(@), !.expect[m.retries] = FALSE]
    OBVIOUS
  <2>2. /\ r.m_input = Tail(pp[z].m_input) /\ r.buf = pp[z].buf /\ r.pc = pp[z].pc /\ r.msg = pp[z].msg
        /\ r.m_broker_producer = pp[z].m_broker_producer
    BY <1>3, <2>1 DEF PartitionShape
  <2>3. pp' = [pp EXCEPT ![z] = r]
    BY <1>3, <1>5, <2>1
  <2>4. FirstMoves(z, r, <<>>) /\ Retries(z, r)
    BY <1>0, <1>2, <2>2, IdsEmpty, TakenMoves DEF Retries
  <2> QED BY <1>0, <1>2, <2>2, <2>3, <2>4, QuietGoes
<1>6. CASE m.kind # "fin" /\ pp' = [pp EXCEPT ![z].m_input = Tail(@), ![z].buf[m.retries] = Append(@, m)]
  <2>1. PICK r : r = [pp[z] EXCEPT !.m_input = Tail(@), !.buf[m.retries] = Append(@, m)]
    OBVIOUS
  <2>2. /\ r.m_input = Tail(pp[z].m_input) /\ r.pc = pp[z].pc /\ r.msg = pp[z].msg
        /\ r.m_broker_producer = pp[z].m_broker_producer
        /\ \A l \in Level : r.buf[l] = IF l = m.retries THEN Append(pp[z].buf[l], m) ELSE pp[z].buf[l]
    BY <1>3, <1>4, <2>1 DEF PartitionShape
  <2>3. pp' = [pp EXCEPT ![z] = r]
    BY <1>3, <1>6, <2>1
  <2>4. m \in Payload({z}) /\ (m.retries = 0 <=> m \in FirstTurn({z}))
    <3>1. m \in Payload({z})
      BY <1>4, <1>6
    <3> QED BY <3>1, FirstTurns
  <2>5. m \in Message /\ pp[z].m_input \in Seq(Message) /\ \A l \in Level : pp[z].buf[l] \in Seq(Message)
    BY <1>0, <2>4, PlacesType, ItemSets, ItemTypes
  <2>6. Retries(z, r)
    <3>1. ASSUME NEW l \in 1..RetryMax PROVE IdsIn(r.buf[l], FirstTurn({z})) = {}
      <4>1. l \in Level /\ l # 0
        BY KafkaProducerAssumption DEF Level
      <4>2. IdsIn(pp[z].buf[l], FirstTurn({z})) = {}
        BY <1>0 DEF Retries
      <4>3. CASE l = m.retries
        <5>1. Thinned(pp[z].buf[l], Append(pp[z].buf[l], m), FirstTurn({z}))
          BY <2>4, <2>5, <4>1, <4>3, ThinnedPush
        <5> QED BY <2>2, <4>1, <4>2, <4>3, <5>1 DEF Thinned
      <4>4. CASE l # m.retries
        BY <2>2, <4>1, <4>2, <4>4
      <4> QED BY <4>3, <4>4
    <3> QED BY <1>0, <2>2, <3>1 DEF Retries
  <2>7. FirstMoves(z, r, <<>>)
    <3>1. CASE m.retries # 0
      <4>1. r.buf[0] = pp[z].buf[0]
        BY <1>3, <2>2, <3>1
      <4> QED BY <1>0, <1>2, <2>2, <4>1, IdsEmpty, TakenMoves
    <3>2. CASE m.retries = 0
      <4>1. r.buf[0] = Append(pp[z].buf[0], m)
        BY <1>3, <2>2, <3>2
      <4>2. Gained(pp[z].buf[0], r.buf[0], FirstTurn({z}), {m.id})
        BY <1>3, <2>5, <4>1, GainedPush
      <4>3. /\ Thinned(pp[z].m_input, r.m_input, FirstTurn({z}))
            /\ {m.id} \subseteq IdsIn(pp[z].m_input, FirstTurn({z}))
            /\ Rising(pp[z].m_input, FirstTurn({z})) => Below({m.id}, IdsIn(r.m_input, FirstTurn({z})))
        BY <1>1, <1>2, <2>2, <2>4, <2>5, <3>2, ThinnedPop
      <4>4. IdsIn(<<>>, FirstTurn({z})) = {}
        BY IdsEmpty
      <4> QED BY <4>2, <4>3, <4>4 DEF FirstMoves
    <3> QED BY <3>1, <3>2
  <2> QED BY <1>0, <1>2, <2>2, <2>3, <2>6, <2>7, QuietGoes
<1> QED BY <1>1, <1>5, <1>6, Zenon DEF BehindWatermark

\* A level is sent on: only the first buffer holds first turns.
LEMMA FlushGoes ==
  ASSUME ProducerInv, NEW z \in Partitions, FirstOrder(z), Flush(z)
  PROVE  \E r : \E b \in Brokers : \E ns : Goes(z, r, b, ns)
<1>0. Shapes /\ Retries(z, pp[z]) /\ Watermark(z, pp[z])
  BY DEF ProducerInv, FirstOrder
<1>1. PICK l : l = pp[z].m_high_watermark - 1
  OBVIOUS
<1>2. pp[z].pc = "flush"
  BY Zenon DEF Flush
<1>3. /\ pp[z] \in PartitionShape(z) /\ pp[z].m_high_watermark \in Level /\ pp \in [Partitions -> PartitionProducer]
      /\ pp[z].buf \in [Level -> Seq(Payload({z}))] /\ 0 \in Level
      /\ pp[z].m_broker_producer \in Brokers \cup {Nobody}
  BY <1>0, ProducerFields
<1>4. l \in Level /\ RetryMax \in Nat
  BY <1>0, <1>1, <1>2, <1>3, KafkaProducerAssumption DEF Watermark, Level
<1>5. PICK ms : ms = pp[z].buf[l]
  OBVIOUS
<1>6. Belongs(ms, z)
  <2>1. ms \in Seq(Message) /\ ms \in Seq(Payload({z}))
    BY <1>0, <1>3, <1>4, <1>5, PlacesType
  <2>2. ASSUME NEW i \in DOMAIN ms PROVE ms[i].part = z
    <3>1. ms[i] \in Payload({z})
      BY <2>1
    <3> QED BY <3>1 DEF Payload
  <2> QED BY <2>1, <2>2 DEF Belongs
<1>8. PICK pc : pc = IF pp[z].expect[l] \/ l = 0 THEN "ready" ELSE "flush"
  OBVIOUS
<1>9. PICK q : q = [pp[z] EXCEPT !.m_high_watermark = l, !.buf[l] = <<>>, !.pc = pc]
  OBVIOUS
<1>10. /\ q.pc = pc /\ pc # "send" /\ q.m_input = pp[z].m_input /\ q.m_broker_producer = pp[z].m_broker_producer
       /\ \A k \in Level : q.buf[k] = IF k = l THEN <<>> ELSE pp[z].buf[k]
       /\ q \in PartitionShape(z)
  <2>1. pc \in {"ready", "flush"}
    BY <1>8
  <2>2. <<>> \in Seq(Payload({z}))
    OBVIOUS
  <2>3. pp[z].buf \in [Level -> Seq(Payload({z}))]
    BY <1>3
  <2>4. PICK buf : buf = [pp[z].buf EXCEPT ![l] = <<>>]
    OBVIOUS
  <2>5. buf \in [Level -> Seq(Payload({z}))] /\ \A k \in Level : buf[k] = IF k = l THEN <<>> ELSE pp[z].buf[k]
    BY <1>4, <2>2, <2>3, <2>4
  <2>6. q = [pp[z] EXCEPT !.m_high_watermark = l, !.buf = buf, !.pc = pc]
    BY <1>3, <1>9, <2>4 DEF PartitionShape
  <2>7. /\ q.pc = pc /\ q.m_input = pp[z].m_input /\ q.m_broker_producer = pp[z].m_broker_producer
        /\ q.buf = buf /\ q \in PartitionShape(z)
    BY <1>3, <1>4, <2>1, <2>5, <2>6 DEF PartitionShape
  <2> QED BY <2>1, <2>5, <2>7
<1>11. Retries(z, q)
  <2>1. ASSUME NEW k \in 1..RetryMax PROVE IdsIn(q.buf[k], FirstTurn({z})) = {}
    <3>1. k \in Level
      BY <1>4 DEF Level
    <3> QED BY <1>0, <1>10, <3>1, IdsEmpty DEF Retries
  <2> QED BY <1>10, <2>1 DEF Retries
<1>12. FirstMoves(z, q, ms)
  <2>1. Thinned(pp[z].m_input, q.m_input, FirstTurn({z}))
    BY <1>10, ThinnedSame
  <2>2. CASE l = 0
    <3>1. q.buf[0] = <<>> /\ ms = pp[z].buf[0]
      BY <1>3, <1>5, <1>10, <2>2
    <3> QED BY <2>1, <3>1 DEF FirstMoves
  <2>3. CASE l # 0
    <3>1. q.buf[0] = pp[z].buf[0] /\ l \in 1..RetryMax
      BY <1>3, <1>4, <1>10, <2>3 DEF Level
    <3>2. IdsIn(ms, FirstTurn({z})) = {}
      BY <1>0, <1>5, <3>1 DEF Retries
    <3> QED BY <2>1, <3>1, <3>2, ThinnedSame DEF FirstMoves
  <2> QED BY <2>2, <2>3
<1>13. FirstMoves(z, q, <<>>)
  <2>1. Thinned(pp[z].m_input, q.m_input, FirstTurn({z}))
    BY <1>10, ThinnedSame
  <2>2. Thinned(pp[z].buf[0], q.buf[0], FirstTurn({z}))
    BY <1>3, <1>10, IdsEmpty, ThinnedEmpty, ThinnedSame
  <2>3. IdsIn(<<>>, FirstTurn({z})) = {}
    BY IdsEmpty
  <2> QED BY <2>1, <2>2, <2>3 DEF FirstMoves
<1>14. CASE pp[z].m_broker_producer # Nobody /\ pp' = [pp EXCEPT ![z] = q] /\ ToBroker(pp[z].m_broker_producer, ms)
  <2>1. PICK b \in Brokers : b = pp[z].m_broker_producer
    BY <1>3, <1>14
  <2>2. Directed(z, q, b, ms)
    BY <1>10, <1>14, <2>1 DEF Directed
  <2>3. pp'[z] = q /\ \A x \in Partitions : x # z => pp'[x] = pp[x]
    BY <1>3, <1>14
  <2>4. Goes(z, q, b, ms)
    BY <1>6, <1>11, <1>12, <1>14, <2>1, <2>2, <2>3, Zenon DEF Goes
  <2> QED BY <2>4
<1>15. ASSUME NEW b \in Brokers, Found(z, b), pp' = [pp EXCEPT ![z] = [q EXCEPT !.m_broker_producer = b]],
              ToBroker(b, <<Mark("syn", z, 0)>> \o ms)
       PROVE  \E r : \E c \in Brokers : \E ns : Goes(z, r, c, ns)
  <2>1. PICK r : r = [q EXCEPT !.m_broker_producer = b]
    OBVIOUS
  <2>2. /\ r.pc = q.pc /\ r.m_input = q.m_input /\ r.msg = q.msg /\ r.buf = q.buf /\ r.m_broker_producer = b
    BY <1>10, <2>1 DEF PartitionShape
  <2>3. pp'[z] = r /\ \A x \in Partitions : x # z => pp'[x] = pp[x]
    BY <1>3, <1>15, <2>1
  <2>4. PICK ns : ns = <<Mark("syn", z, 0)>> \o ms
    OBVIOUS
  <2>5. /\ Belongs(ns, z)
        /\ IdsIn(ns, FirstTurn({z})) = IdsIn(ms, FirstTurn({z}))
        /\ Rising(ns, FirstTurn({z})) <=> Rising(ms, FirstTurn({z}))
    BY <1>6, <2>4, SynFirst
  <2>6. FirstMoves(z, r, ns) /\ Retries(z, r)
    BY <1>11, <1>12, <2>2, <2>5, SameMoves DEF Retries
  <2>7. Directed(z, r, b, ns)
    BY <1>15, <2>2 DEF Directed, Found
  <2>8. Goes(z, r, b, ns)
    BY <1>15, <2>3, <2>4, <2>5, <2>6, <2>7, Zenon DEF Goes
  <2> QED BY <2>8
<1>16. CASE pp' = [pp EXCEPT ![z] = q] /\ UNCHANGED bp
  BY <1>0, <1>10, <1>11, <1>13, <1>16, QuietGoes
<1> QED BY <1>1, <1>5, <1>8, <1>9, <1>14, <1>15, <1>16, Zenon DEF Flush

\* A message of the current turn goes out; on its first turn no other waits in the buffer.
LEMMA SendOnGoes ==
  ASSUME ProducerInv, NEW z \in Partitions, FirstOrder(z), SendOn(z)
  PROVE  \E r : \E b \in Brokers : \E ns : Goes(z, r, b, ns)
<1>0. Shapes /\ Retries(z, pp[z]) /\ Watermark(z, pp[z])
  BY DEF ProducerInv, FirstOrder
<1>1. PICK m : m = IF pp[z].pc = "send" THEN pp[z].msg ELSE Head(pp[z].m_input)
  OBVIOUS
<1>2. \/ pp[z].pc = "send"
      \/ /\ pp[z].pc = "ready" /\ pp[z].m_input # <<>> /\ m.retries = pp[z].m_high_watermark
         /\ m.kind = "fin" => m.retries = 0
  BY <1>1 DEF SendOn
<1>3. /\ pp[z] \in PartitionShape(z) /\ pp[z].m_high_watermark \in Level
      /\ pp[z].buf \in [Level -> Seq(Payload({z}))] /\ 0 \in Level
  BY <1>0, ProducerFields
<1>4. PICK inp : inp = IF pp[z].pc = "send" THEN pp[z].m_input ELSE Tail(pp[z].m_input)
  OBVIOUS
<1>5. PICK q : q = [pp[z] EXCEPT !.m_input = inp, !.msg = NoMsg, !.pc = "ready"]
  OBVIOUS
<1>6. m \in Payload({z}) /\ inp \in Seq(Coming({z}))
  <2>1. CASE pp[z].pc = "send"
    BY <1>0, <1>1, <1>3, <1>4, <2>1 DEF Watermark, PartitionShape
  <2>2. CASE pp[z].pc # "send"
    <3>1. m = Head(pp[z].m_input) /\ inp = Tail(pp[z].m_input) /\ pp[z].m_input # <<>>
      BY <1>1, <1>2, <1>4, <2>2
    <3>2. m \in Coming({z}) /\ inp \in Seq(Coming({z})) /\ (m.kind # "fin" => m \in Payload({z}))
      BY <1>0, <3>1, HeadIn
    <3>3. m.kind # "fin"
      <4> SUFFICES ASSUME m.kind = "fin" PROVE FALSE
        OBVIOUS
      <4>1. m.retries \in 1..RetryMax
        BY <3>1, HeadFin
      <4> QED BY <1>2, <2>2, <4>1
    <3> QED BY <3>2, <3>3
  <2> QED BY <2>1, <2>2
<1>7. /\ q \in PartitionShape(z) /\ q.m_input = inp /\ q.buf = pp[z].buf /\ q.pc = "ready"
      /\ q.m_broker_producer = pp[z].m_broker_producer
  <2>1. NoMsg \in Message
    <3>1. 0 \in Id /\ 0 \in Level
      BY <1>3, KafkaProducerAssumption DEF Id
    <3> QED BY <3>1 DEF NoMsg, Mark, Message, Kind, Place
  <2> QED BY <1>3, <1>5, <1>6, <2>1 DEF PartitionShape
<1>8. m \in Message /\ m.part = z /\ (m.retries = 0 <=> m \in FirstTurn({z}))
  BY <1>6, ItemSets, ItemTypes, FirstTurns DEF Payload
<1>9. PICK ms \in Seq(Message) : ms = <<m>>
  BY <1>8, Single
<1>10. DOMAIN ms = {1} /\ ms[1] = m
  BY <1>9
<1>11. Belongs(ms, z) /\ Rising(ms, FirstTurn({z}))
  BY <1>8, <1>10 DEF Belongs, Rising
<1>12. Retries(z, q)
  BY <1>0, <1>7 DEF Retries
<1>13. q.m_input = pp[z].m_input \/ (pp[z].m_input # <<>> /\ q.m_input = Tail(pp[z].m_input))
  BY <1>2, <1>4, <1>7
<1>14. FirstMoves(z, q, <<>>)
  BY <1>0, <1>7, <1>13, IdsEmpty, TakenMoves
<1>15. FirstMoves(z, q, ms)
  <2>1. CASE m \notin FirstTurn({z})
    <3>1. IdsIn(ms, FirstTurn({z})) = {}
      BY <1>10, <2>1, IdsNone
    <3> QED BY <1>0, <1>7, <1>13, <3>1, TakenMoves
  <2>2. CASE m \in FirstTurn({z})
    <3>1. m.retries = 0 /\ pp[z].pc # "send"
      BY <1>0, <1>1, <1>8, <2>2 DEF Retries
    <3>2. /\ pp[z].m_input # <<>> /\ m = Head(pp[z].m_input) /\ q.m_input = Tail(pp[z].m_input)
          /\ pp[z].m_high_watermark = 0
      BY <1>1, <1>2, <1>4, <1>7, <3>1
    <3>3. q.buf[0] = <<>>
      BY <1>0, <1>3, <1>7, <3>2 DEF Watermark
    <3>4. pp[z].m_input \in Seq(Message)
      BY <1>0, PlacesType
    <3>5. /\ Thinned(pp[z].m_input, q.m_input, FirstTurn({z}))
          /\ m.id \in IdsIn(pp[z].m_input, FirstTurn({z}))
          /\ Rising(pp[z].m_input, FirstTurn({z})) => Below({m.id}, IdsIn(q.m_input, FirstTurn({z})))
      BY <2>2, <3>2, <3>4, ThinnedPop
    <3>6. IdsIn(ms, FirstTurn({z})) = {m.id}
      BY <1>10, <2>2 DEF IdsIn
    <3> QED BY <1>11, <3>3, <3>5, <3>6 DEF FirstMoves
  <2> QED BY <2>1, <2>2
<1>16. WithLeader(z, m, q, ms, 0)
  <2>1. q = [pp[z] EXCEPT !.m_input = IF pp[z].pc = "send" THEN @ ELSE Tail(@), !.msg = NoMsg, !.pc = "ready"]
    BY <1>4, <1>5
  <2> QED BY <1>1, <1>9, <2>1, Zenon DEF SendOn
<1> QED BY <1>0, <1>7, <1>11, <1>12, <1>14, <1>15, <1>16, LeaderGoes

\* What a step of the BrokerProducer b does to first turns of p, r being what becomes of it:
\* nothing, or the first item of its channel goes into its sets, or some of its sets into the log.
BrokerMoves(p, b, r) ==
  LET S == FirstTurn({p})
      q == bp[b]
  IN \/ /\ Thinned(q.m_input, r.m_input, S) /\ Thinned(Sets(q), Sets(r), S) /\ Thinned(log[p], log'[p], S)
     \/ /\ Thinned(q.m_input, r.m_input, S) /\ Thinned(log[p], log'[p], S)
        /\ \E N : /\ N \subseteq IdsIn(q.m_input, S) /\ Gained(Sets(q), Sets(r), S, N)
                  /\ Rising(q.m_input, S) => Below(N, IdsIn(r.m_input, S))
     \/ /\ Thinned(q.m_input, r.m_input, S) /\ Thinned(Sets(q), Sets(r), S)
        /\ \E N : /\ N \subseteq IdsIn(Sets(q), S)
                  /\ Rising(Sets(q), S) => Below(N, IdsIn(Sets(r), S)) /\ Gained(log[p], log'[p], S, N)

\* Such a step keeps the order.
LEMMA BrokerOrder ==
  ASSUME Shapes, NEW p \in Partitions, FirstOrder(p), NEW b \in Brokers, NEW r, bp' = [bp EXCEPT ![b] = r],
         BrokerMoves(p, b, r), b # leader[p].at => log'[p] = log[p],
         UNCHANGED <<sent, m_input, topic_input, pp, leader>>
  PROVE  FirstOrder(p)'
<1> DEFINE S == FirstTurn({p})
           a == leader[p].at
           q == bp[b]
           L == Line(p)
           L2 == Line(p)'
           K == Kinds(p)
<1>0. leader' = leader /\ sent' = sent /\ pp' = pp
  OBVIOUS
<1>1. Retries(p, pp[p])'
  BY <1>0 DEF FirstOrder, Retries
<1>2. bp'[b] = r /\ \A c \in Brokers : c # b => bp'[c] = bp[c]
  BY DEF Shapes
<1>3. OneBroker(p)'
  <2> SUFFICES ASSUME leader[p].moves = 0
               PROVE  /\ leader[p].was = {a}
                      /\ pp[p].m_broker_producer \in {Nobody, a}
                      /\ \A c \in Brokers \ {a} : Without(bp'[c], p)
    BY <1>0 DEF OneBroker
  <2>1. leader[p].was = {a} /\ pp[p].m_broker_producer \in {Nobody, a} /\ \A c \in Brokers \ {a} : Without(bp[c], p)
    BY DEF FirstOrder, OneBroker
  <2>2. ASSUME b # a PROVE Without(r, p)
    <3>1. IdsIn(Sets(q), S) = {} /\ IdsIn(q.m_input, S) = {}
      BY <2>1, <2>2 DEF Without
    <3>2. IdsIn(r.m_input, S) \subseteq IdsIn(q.m_input, S)
      BY DEF BrokerMoves, Thinned
    <3>3. IdsIn(Sets(r), S) \subseteq IdsIn(Sets(q), S) \cup IdsIn(q.m_input, S)
      BY DEF BrokerMoves, Thinned, Gained
    <3> QED BY <3>1, <3>2, <3>3 DEF Without
  <2> QED BY <1>2, <2>1, <2>2
<1>5. /\ L[1] = log[p] /\ L[2] = Sets(bp[a]) /\ L[3] = bp[a].m_input
      /\ L[4] = pp[p].buf[0] /\ L[5] = pp[p].m_input /\ L[6] = topic_input /\ L[7] = m_input
  BY PlacesAt DEF Line
<1>6. /\ L2[1] = log'[p] /\ L2[2] = Sets(bp'[a]) /\ L2[3] = bp'[a].m_input
      /\ L2[4] = pp[p].buf[0] /\ L2[5] = pp[p].m_input /\ L2[6] = topic_input /\ L2[7] = m_input
  BY <1>0, PlacesAt DEF Line
<1>7. K[1] = S /\ K[2] = S /\ K[3] = S
  BY KindsAt
<1>8. a \in Brokers
  BY PlacesType
<1>9. InLine(p)
  BY DEF FirstOrder
<1> HIDE DEF L, L2, K, S
<1>10. Thinned(L[4], L2[4], K[4]) /\ Thinned(L[5], L2[5], K[5]) /\ Thinned(L[6], L2[6], K[6]) /\ Thinned(L[7], L2[7], K[7])
  BY <1>5, <1>6, ThinnedSame
<1>11. ASSUME Lined(L, K, sent) PROVE Lined(L2, K, sent)
  <2>1. CASE b # a
    <3>1. L2[1] = L[1] /\ L2[2] = L[2] /\ L2[3] = L[3]
      BY <1>2, <1>5, <1>6, <1>8, <2>1
    <3>2. Thinned(L[1], L2[1], K[1]) /\ Thinned(L[2], L2[2], K[2]) /\ Thinned(L[3], L2[3], K[3])
      BY <3>1, ThinnedSame
    <3> QED BY <1>10, <1>11, <3>2, StaysInLine
  <2>2. CASE b = a
    <3>1. L[1] = log[p] /\ L[2] = Sets(q) /\ L[3] = q.m_input /\ L2[1] = log'[p] /\ L2[2] = Sets(r) /\ L2[3] = r.m_input
      BY <1>2, <1>5, <1>6, <2>2
    <3>2. Rising(L[2], K[2]) /\ Rising(L[3], K[3])
      BY <1>11 DEF Lined
    <3>3. Thinned(L[3], L2[3], K[3])
      BY <1>7, <3>1 DEF BrokerMoves, S
    <3>4. \/ Thinned(L[2], L2[2], K[2]) /\ Thinned(L[1], L2[1], K[1])
          \/ /\ Thinned(L[1], L2[1], K[1])
             /\ \E N : N \subseteq IdsIn(L[3], K[3]) /\ Gained(L[2], L2[2], K[2], N) /\ Below(N, IdsIn(L2[3], K[3]))
          \/ /\ Thinned(L[2], L2[2], K[2])
             /\ \E N : N \subseteq IdsIn(L[2], K[2]) /\ Gained(L[1], L2[1], K[1], N) /\ Below(N, IdsIn(L2[2], K[2]))
      BY <1>7, <3>1, <3>2 DEF BrokerMoves, S
    <3>5. CASE Thinned(L[2], L2[2], K[2]) /\ Thinned(L[1], L2[1], K[1])
      BY <1>10, <1>11, <3>3, <3>5, StaysInLine
    <3>6. ASSUME Thinned(L[1], L2[1], K[1]), NEW N, N \subseteq IdsIn(L[3], K[3]), Gained(L[2], L2[2], K[2], N),
                 Below(N, IdsIn(L2[3], K[3]))
          PROVE  Lined(L2, K, sent)
      <4>1. \A k \in 1..7 : k # 2 => Thinned(L[k], L2[k], K[k])
        BY <1>10, <3>3, <3>6
      <4>2. \A k \in 1..7 : 2 < k /\ k < 3 => IdsIn(L2[k], K[k]) = {}
        OBVIOUS
      <4>3. 2 \in 1..7 /\ 3 \in 1..7 /\ 2 < 3
        OBVIOUS
      <4> QED BY <1>11, <3>6, <4>1, <4>2, <4>3, LinePasses, Zenon
    <3>7. ASSUME Thinned(L[2], L2[2], K[2]), NEW N, N \subseteq IdsIn(L[2], K[2]), Gained(L[1], L2[1], K[1], N),
                 Below(N, IdsIn(L2[2], K[2]))
          PROVE  Lined(L2, K, sent)
      <4>1. \A k \in 1..7 : k # 1 => Thinned(L[k], L2[k], K[k])
        BY <1>10, <3>3, <3>7
      <4>2. \A k \in 1..7 : 1 < k /\ k < 2 => IdsIn(L2[k], K[k]) = {}
        OBVIOUS
      <4>3. 1 \in 1..7 /\ 2 \in 1..7 /\ 1 < 2
        OBVIOUS
      <4> QED BY <1>11, <3>7, <4>1, <4>2, <4>3, LinePasses, Zenon
    <3> QED BY <3>4, <3>5, <3>6, <3>7
  <2> QED BY <2>1, <2>2
<1>12. InLine(p)'
  BY <1>0, <1>9, <1>11 DEF InLine, L, L2, K
<1> QED BY <1>1, <1>3, <1>12 DEF FirstOrder

\* The batches of a BrokerProducer as one: closing one changes nothing, a message comes last.
Whole(f, out, buf) == f \o FlattenSeq(out) \o buf
LEMMA WholePush ==
  ASSUME NEW M, NEW f \in Seq(M), NEW out \in Seq(Seq(M)), NEW buf \in Seq(M), NEW m \in M
  PROVE  /\ Whole(f, out, buf) \in Seq(M)
         /\ Whole(f, Append(out, buf), <<>>) = Whole(f, out, buf)
         /\ Whole(f, out, Append(buf, m)) = Append(Whole(f, out, buf), m)
<1>1. PICK F \in Seq(M) : F = FlattenSeq(out) /\ FlattenSeq(Append(out, buf)) = F \o buf
  BY FlatPush
<1>2. PICK u \in Seq(M) : u = f \o F
  BY ConcatProperties
<1>3. Whole(f, out, buf) = u \o buf /\ u \o buf \in Seq(M)
  BY <1>1, <1>2, ConcatProperties, Zenon DEF Whole
<1>4. Whole(f, Append(out, buf), <<>>) = u \o buf
  <2>1. Whole(f, Append(out, buf), <<>>) = (f \o (F \o buf)) \o <<>>
    BY <1>1, Zenon DEF Whole
  <2>2. f \o (F \o buf) = u \o buf
    <3>1. Associates(f, F, buf)
      BY Assoc
    <3> QED BY <1>2, <3>1, Zenon DEF Associates
  <2>3. (u \o buf) \o <<>> = u \o buf
    BY <1>3
  <2> QED BY <2>1, <2>2, <2>3
<1>5. Whole(f, out, Append(buf, m)) = Append(u \o buf, m)
  <2>1. Whole(f, out, Append(buf, m)) = u \o Append(buf, m)
    BY <1>1, <1>2, Zenon DEF Whole
  <2>2. PICK w \in Seq(M) : w = <<m>>
    BY Single, Zenon
  <2>3. \A s \in Seq(M) : Append(s, m) = s \o w
    BY <2>2
  <2>4. Append(buf, m) = buf \o w /\ Append(u \o buf, m) = (u \o buf) \o w
    BY <1>3, <2>3, Zenon
  <2>5. Associates(u, buf, w)
    BY Assoc
  <2> QED BY <2>1, <2>4, <2>5, Zenon DEF Associates
<1> QED BY <1>3, <1>4, <1>5

\* add() puts the message behind those the BrokerProducer holds, batches closed or not.
LEMMA SetsPush ==
  ASSUME NEW r \in BrokerShape, NEW m \in Payload(Partitions), NEW over \in BOOLEAN, NEW q, q = Buffered(r, m, over)
  PROVE  Sets(q) = Append(Sets(r), m) /\ q.m_input = r.m_input
<1>1. PICK M : M = Payload(Partitions)
  OBVIOUS
<1>2. r.flight \in Seq(M) /\ r.m_output \in Seq(Seq(M)) /\ r.m_buffer \in Seq(M) /\ <<>> \in Seq(M) /\ m \in M
  BY <1>1 DEF BrokerShape
<1>3. PICK f \in Seq(M), o \in Seq(Seq(M)), h \in Seq(M), e \in Seq(M) :
        f = r.flight /\ o = r.m_output /\ h = r.m_buffer /\ e = <<>>
  BY <1>2, Zenon
<1>4. Sets(r) = Whole(f, o, h)
  BY <1>3, Zenon DEF Sets, Whole
<1>5. PICK o2 \in Seq(Seq(M)), h1 \in Seq(M), h2 \in Seq(M) :
        o2 = Append(o, h) /\ h1 = Append(e, m) /\ h2 = Append(h, m)
  BY <1>2, AppendProperties, Zenon
<1>6. PICK out \in Seq(Seq(M)), buffer \in Seq(M) :
        /\ out = IF over THEN Append(r.m_output, r.m_buffer) ELSE r.m_output
        /\ buffer = IF over THEN <<m>> ELSE Append(r.m_buffer, m)
        /\ Whole(f, out, buffer) = Append(Sets(r), m)
  <2>1. CASE over
    <3>1. h1 = <<m>>
      BY <1>3, <1>5
    <3>2. Whole(f, o2, h1) = Append(Whole(f, o2, e), m)
      <4>1. Whole(f, o2, Append(e, m)) = Append(Whole(f, o2, e), m)
        BY <1>2, WholePush
      <4> QED BY <1>5, <4>1, Zenon
    <3>3. Whole(f, o2, e) = Whole(f, o, h)
      <4>1. Whole(f, Append(o, h), <<>>) = Whole(f, o, h)
        BY <1>2, WholePush
      <4> QED BY <1>3, <1>5, <4>1, Zenon
    <3> QED BY <1>3, <1>4, <1>5, <2>1, <3>1, <3>2, <3>3, Zenon
  <2>2. CASE ~over
    <3>1. Whole(f, o, h2) = Append(Whole(f, o, h), m)
      <4>1. Whole(f, o, Append(h, m)) = Append(Whole(f, o, h), m)
        BY <1>2, WholePush
      <4> QED BY <1>5, <4>1, Zenon
    <3> QED BY <1>3, <1>4, <1>5, <2>2, <3>1, Zenon
  <2> QED BY <2>1, <2>2
<1>7. q = IF ReadyToFlush(buffer) THEN [r EXCEPT !.m_output = Append(out, buffer), !.m_buffer = <<>>]
          ELSE [r EXCEPT !.m_output = out, !.m_buffer = buffer]
  BY <1>6, Zenon DEF Buffered
<1>8. ASSUME NEW u, NEW v, q = [r EXCEPT !.m_output = u, !.m_buffer = v], Whole(f, u, v) = Append(Sets(r), m)
      PROVE  Sets(q) = Append(Sets(r), m) /\ q.m_input = r.m_input
  <2>1. q.m_output = u /\ q.m_buffer = v /\ q.flight = r.flight /\ q.m_input = r.m_input
    BY <1>8 DEF BrokerShape
  <2> QED BY <1>3, <1>8, <2>1, Zenon DEF Sets, Whole
<1>9. Whole(f, Append(out, buffer), <<>>) = Whole(f, out, buffer)
  BY <1>2, WholePush
<1>10. CASE ReadyToFlush(buffer)
  <2>1. q = [r EXCEPT !.m_output = Append(out, buffer), !.m_buffer = <<>>]
    BY <1>7, <1>10, Zenon
  <2>2. Whole(f, Append(out, buffer), <<>>) = Append(Sets(r), m)
    BY <1>6, <1>9, Zenon
  <2> QED BY <1>8, <2>1, <2>2, Zenon
<1>11. CASE ~ReadyToFlush(buffer)
  <2>1. q = [r EXCEPT !.m_output = out, !.m_buffer = buffer]
    BY <1>7, <1>11, Zenon
  <2>2. Whole(f, out, buffer) = Append(Sets(r), m)
    BY <1>6, Zenon
  <2> QED BY <1>8, <2>1, <2>2, Zenon
<1> QED BY <1>10, <1>11

\* run(): the first item of the channel is gone, or, when it is a message, goes into the buffer.
LEMMA TakenBrokerMoves ==
  ASSUME Shapes, NEW p \in Partitions, NEW b \in Brokers, NEW r, bp[b].m_input # <<>>,
         r.m_input = Tail(bp[b].m_input), log' = log,
         Sets(r) = Sets(bp[b]) \/ Sets(r) = Append(Sets(bp[b]), Head(bp[b].m_input))
  PROVE  BrokerMoves(p, b, r)
<1>1. PICK S : S = FirstTurn({p})
  OBVIOUS
<1>2. PICK i \in Seq(Message), s \in Seq(Message) : i = bp[b].m_input /\ s = Sets(bp[b])
  BY PlacesType
<1>3. PICK m : m = Head(i)
  OBVIOUS
<1>4. /\ m \in Message /\ Thinned(i, Tail(i), S)
      /\ m \in S => m.id \in IdsIn(i, S) /\ (Rising(i, S) => Below({m.id}, IdsIn(Tail(i), S)))
  <2>1. i # <<>> /\ m \in Message
    BY <1>2, <1>3
  <2> QED BY <1>3, <2>1, ThinnedPop
<1>5. Thinned(log[p], log'[p], S) /\ Thinned(bp[b].m_input, r.m_input, S)
  BY <1>2, <1>4, ThinnedSame
<1>6. CASE Sets(r) = Sets(bp[b])
  BY <1>1, <1>5, <1>6, ThinnedSame DEF BrokerMoves
<1>7. CASE Sets(r) = Append(s, m) /\ m \notin S
  <2>1. Thinned(s, Append(s, m), S)
    BY <1>2, <1>4, <1>7, ThinnedPush
  <2> QED BY <1>1, <1>2, <1>5, <1>7, <2>1 DEF BrokerMoves
<1>8. CASE Sets(r) = Append(s, m) /\ m \in S
  <2>1. Gained(s, Append(s, m), S, {m.id})
    BY <1>2, <1>4, GainedPush
  <2>2. /\ {m.id} \subseteq IdsIn(bp[b].m_input, S) /\ Gained(Sets(bp[b]), Sets(r), S, {m.id})
        /\ Rising(bp[b].m_input, S) => Below({m.id}, IdsIn(r.m_input, S))
    BY <1>2, <1>4, <1>8, <2>1
  <2> QED BY <1>1, <1>5, <2>2 DEF BrokerMoves
<1> QED BY <1>2, <1>3, <1>6, <1>7, <1>8

\* run(): a syn, a chaser and what goes back leave the sets alone.
LEMMA RunOrder ==
  ASSUME Shapes, NEW p \in Partitions, FirstOrder(p), NEW b \in Brokers, Run(b)
  PROVE  FirstOrder(p)'
<1>1. PICK m : m = Head(bp[b].m_input)
  OBVIOUS
<1>2. PICK r : r = [bp[b] EXCEPT !.m_input = Tail(@)]
  OBVIOUS
<1>3. bp[b].m_input # <<>> /\ UNCHANGED <<sent, m_input, topic_input, pp, leader, log>>
  BY DEF Run, worldVars
<1>4. bp[b] \in BrokerShape
  BY DEF Shapes
<1>5. bp[b].m_input \in Seq(Going) /\ Tail(bp[b].m_input) \in Seq(Going) /\ m \in Going
  BY <1>1, <1>3, <1>4 DEF BrokerShape
<1>6. /\ r \in BrokerShape /\ r.m_input = Tail(bp[b].m_input)
      /\ r.flight = bp[b].flight /\ r.m_output = bp[b].m_output /\ r.m_buffer = bp[b].m_buffer
  BY <1>2, <1>4, <1>5 DEF BrokerShape
<1>7. Sets(r) = Sets(bp[b])
  BY <1>6, Zenon DEF Sets
<1>8. ASSUME NEW q, bp' = [bp EXCEPT ![b] = q], q.m_input = r.m_input,
             Sets(q) = Sets(r) \/ Sets(q) = Append(Sets(r), m)
      PROVE  FirstOrder(p)'
  <2>1. BrokerMoves(p, b, q)
    BY <1>1, <1>3, <1>6, <1>7, <1>8, TakenBrokerMoves
  <2>2. log'[p] = log[p]
    BY <1>3
  <2> QED BY <1>3, <1>8, <2>1, <2>2, BrokerOrder
<1>9. ASSUME NEW c, bp' = [bp EXCEPT ![b] = [r EXCEPT !.m_current_retries[m.part] = c]] PROVE FirstOrder(p)'
  <2>1. PICK q : q = [r EXCEPT !.m_current_retries[m.part] = c]
    OBVIOUS
  <2>2. q.m_input = r.m_input /\ q.flight = r.flight /\ q.m_output = r.m_output /\ q.m_buffer = r.m_buffer
    BY <1>6, <2>1 DEF BrokerShape
  <2>3. Sets(q) = Sets(r)
    BY <2>2, Zenon DEF Sets
  <2>4. bp' = [bp EXCEPT ![b] = q]
    BY <1>9, <2>1, Zenon
  <2> QED BY <1>8, <2>2, <2>3, <2>4
<1>10. CASE bp' = [bp EXCEPT ![b] = r]
  BY <1>8, <1>10
<1>11. ASSUME m.kind = "msg", NEW over \in BOOLEAN, bp' = [bp EXCEPT ![b] = Buffered(r, m, over)] PROVE FirstOrder(p)'
  <2>1. m \in Payload(Partitions)
    BY <1>5, <1>11 DEF Going, Leaving, Syn
  <2>2. PICK q : q = Buffered(r, m, over)
    OBVIOUS
  <2>3. Sets(q) = Append(Sets(r), m) /\ q.m_input = r.m_input
    BY <1>6, <2>1, <2>2, SetsPush
  <2>4. bp' = [bp EXCEPT ![b] = q]
    BY <1>11, <2>2, Zenon
  <2> QED BY <1>8, <2>3, <2>4
<1>12. \A x : {FALSE, x # <<>>} \subseteq BOOLEAN
  OBVIOUS
<1>13. RunCases(b, r, m)
  BY <1>1, <1>2, RunIsCases, Zenon
<1>14. CASE bp' = [bp EXCEPT ![b] = [r EXCEPT !.m_current_retries[m.part] =
                                        IF r.m_current_retries[m.part] = "err" THEN "none" ELSE @]]
  <2>1. PICK c : c = IF r.m_current_retries[m.part] = "err" THEN "none" ELSE r.m_current_retries[m.part]
    OBVIOUS
  <2>2. bp' = [bp EXCEPT ![b] = [r EXCEPT !.m_current_retries[m.part] = c]]
    BY <1>14, <2>1
  <2> QED BY <1>9, <2>2, Zenon
<1>15. ASSUME m.kind = "msg", \E over \in {FALSE, r.m_buffer # <<>>} : bp' = [bp EXCEPT ![b] = Buffered(r, m, over)]
       PROVE  FirstOrder(p)'
  BY <1>11, <1>12, <1>15, Zenon
<1> QED BY <1>9, <1>10, <1>13, <1>14, <1>15, Zenon DEF RunCases

\* bridge(): the first batch is on its way and still the first.
LEMMA BridgeOrder ==
  ASSUME Shapes, NEW p \in Partitions, FirstOrder(p), NEW b \in Brokers, Bridge(b)
  PROVE  FirstOrder(p)'
<1>1. PICK q : q = [bp[b] EXCEPT !.flight = Head(bp[b].m_output), !.m_output = Tail(@)]
  OBVIOUS
<1>2. bp[b] \in BrokerShape
  BY DEF Shapes
<1>3. /\ bp[b].m_output # <<>> /\ bp[b].flight = <<>>
      /\ UNCHANGED <<sent, m_input, topic_input, pp, leader, log>>
  BY DEF Bridge, worldVars
<1>4. bp' = [bp EXCEPT ![b] = q]
  BY <1>1, <1>2 DEF Bridge, Shapes
<1>5. PICK M : M = Payload(Partitions)
  OBVIOUS
<1>6. PICK o \in Seq(Seq(M)), s \in Seq(M) : o = bp[b].m_output /\ s = bp[b].m_buffer
  BY <1>2, <1>5 DEF BrokerShape
<1>7. PICK h \in Seq(M), t \in Seq(Seq(M)) : h = Head(o) /\ t = Tail(o)
  BY <1>3, <1>6, HeadTailProperties, Zenon
<1>8. q.m_input = bp[b].m_input /\ q.flight = h /\ q.m_output = t /\ q.m_buffer = s
  BY <1>1, <1>2, <1>6, <1>7 DEF BrokerShape
<1>9. FlattenSeq(o) = h \o FlattenSeq(t)
  BY <1>3, <1>6, <1>7, FlatPop, Zenon
<1>10. FlattenSeq(o) \in Seq(M)
  BY FlatPush
<1>11. <<>> \o FlattenSeq(o) = FlattenSeq(o)
  BY <1>10
<1>12. Sets(bp[b]) = <<>> \o FlattenSeq(o) \o s /\ Sets(q) = h \o FlattenSeq(t) \o s
  BY <1>3, <1>6, <1>8, Zenon DEF Sets
<1>13. Sets(q) = Sets(bp[b])
  BY <1>9, <1>11, <1>12, Zenon
<1>14. BrokerMoves(p, b, q)
  BY <1>3, <1>8, <1>13, ThinnedSame DEF BrokerMoves
<1>15. log'[p] = log[p]
  BY <1>3
<1> QED BY <1>3, <1>4, <1>14, <1>15, BrokerOrder

\* The batches of a BrokerProducer whose request is over, some of its buffer gone: the request
\* was the first of them.
LEMMA SetsLose ==
  ASSUME NEW q \in BrokerShape, NEW r \in BrokerShape, r.flight = <<>>, r.m_output = q.m_output,
         NEW S, Thinned(q.m_buffer, r.m_buffer, S)
  PROVE  /\ Thinned(Sets(q), Sets(r), S) /\ IdsIn(q.flight, S) \subseteq IdsIn(Sets(q), S)
         /\ Rising(Sets(q), S) => Rising(q.flight, S) /\ Below(IdsIn(q.flight, S), IdsIn(Sets(r), S))
<1>1. PICK M : M = Payload(Partitions)
  OBVIOUS
<1>2. PICK f \in Seq(M), o \in Seq(Seq(M)), s \in Seq(M), t \in Seq(M) :
        f = q.flight /\ o = q.m_output /\ s = q.m_buffer /\ t = r.m_buffer
  BY <1>1 DEF BrokerShape
<1>3. PICK F \in Seq(M) : F = FlattenSeq(o)
  BY FlatPush
<1>4. PICK u \in Seq(M), v \in Seq(M), x \in Seq(M) : u = f \o F /\ v = u \o s /\ x = F \o t
  BY ConcatProperties, Zenon
<1>5. Sets(q) = v
  BY <1>2, <1>3, <1>4, Zenon DEF Sets
<1>6. Sets(r) = x
  <2>1. <<>> \o F = F
    OBVIOUS
  <2> QED BY <1>2, <1>3, <1>4, <2>1, Zenon DEF Sets
<1>7. /\ IdsIn(u, S) = IdsIn(f, S) \cup IdsIn(F, S)
      /\ Rising(u, S) <=> (Rising(f, S) /\ Rising(F, S) /\ Below(IdsIn(f, S), IdsIn(F, S)))
  BY <1>4, IdsConcat
<1>8. /\ IdsIn(v, S) = IdsIn(u, S) \cup IdsIn(s, S)
      /\ Rising(v, S) <=> (Rising(u, S) /\ Rising(s, S) /\ Below(IdsIn(u, S), IdsIn(s, S)))
  <2>1. /\ IdsIn(u \o s, S) = IdsIn(u, S) \cup IdsIn(s, S)
        /\ Rising(u \o s, S) <=> (Rising(u, S) /\ Rising(s, S) /\ Below(IdsIn(u, S), IdsIn(s, S)))
    BY IdsConcat
  <2> QED BY <1>4, <2>1
<1>9. /\ IdsIn(x, S) = IdsIn(F, S) \cup IdsIn(t, S)
      /\ Rising(x, S) <=> (Rising(F, S) /\ Rising(t, S) /\ Below(IdsIn(F, S), IdsIn(t, S)))
  BY <1>4, IdsConcat
<1>10. IdsIn(t, S) \subseteq IdsIn(s, S) /\ (Rising(s, S) => Rising(t, S))
  BY <1>2 DEF Thinned
<1>11. IdsIn(x, S) \subseteq IdsIn(v, S) /\ IdsIn(f, S) \subseteq IdsIn(v, S)
  BY <1>7, <1>8, <1>9, <1>10
<1>12. ASSUME Rising(v, S) PROVE Rising(x, S) /\ Rising(f, S) /\ Below(IdsIn(f, S), IdsIn(x, S))
  <2>1. Rising(f, S) /\ Rising(F, S) /\ Rising(t, S)
    BY <1>7, <1>8, <1>10, <1>12
  <2>2. Below(IdsIn(f, S), IdsIn(F, S)) /\ Below(IdsIn(u, S), IdsIn(s, S))
    BY <1>7, <1>8, <1>12
  <2>3. Below(IdsIn(F, S), IdsIn(t, S)) /\ Below(IdsIn(f, S), IdsIn(x, S))
    BY <1>7, <1>9, <1>10, <2>2 DEF Below
  <2> QED BY <1>9, <2>1, <2>3
<1> QED BY <1>2, <1>5, <1>6, <1>11, <1>12 DEF Thinned

\* A request is over, its messages of p stored or not.
LEMMA EndsOrder ==
  ASSUME Shapes, NEW p \in Partitions, FirstOrder(p), NEW b \in Brokers, NEW r \in BrokerShape,
         bp' = [bp EXCEPT ![b] = r], r.flight = <<>>, r.m_output = bp[b].m_output, r.m_input = bp[b].m_input,
         Thinned(bp[b].m_buffer, r.m_buffer, FirstTurn({p})),
         log'[p] = log[p] \/ (b = leader[p].at /\ log'[p] = log[p] \o OfPartition(bp[b].flight, p)),
         UNCHANGED <<sent, m_input, topic_input, pp, leader>>
  PROVE  FirstOrder(p)'
<1>1. PICK S : S = FirstTurn({p})
  OBVIOUS
<1>2. bp[b] \in BrokerShape
  BY DEF Shapes
<1>3. PICK q \in BrokerShape : q = bp[b]
  BY <1>2
<1>4. /\ Thinned(Sets(q), Sets(r), S) /\ IdsIn(q.flight, S) \subseteq IdsIn(Sets(q), S)
      /\ Rising(Sets(q), S) => Rising(q.flight, S) /\ Below(IdsIn(q.flight, S), IdsIn(Sets(r), S))
  BY <1>1, <1>3, SetsLose
<1>5. Thinned(q.m_input, r.m_input, S)
  BY <1>3, ThinnedSame
<1>6. BrokerMoves(p, b, r)
  <2>1. CASE log'[p] = log[p]
    BY <1>1, <1>3, <1>4, <1>5, <2>1, ThinnedSame DEF BrokerMoves
  <2>2. CASE log'[p] = log[p] \o OfPartition(q.flight, p)
    <3>1. PICK M : M = Payload(Partitions)
      OBVIOUS
    <3>2. PICK f \in Seq(M) : f = q.flight
      BY <3>1 DEF BrokerShape
    <3>3. PICK x : x = OfPartition(f, p)
      OBVIOUS
    <3>4. x = Only(f, OfPart({p}))
      BY <3>3, Zenon DEF OfPartition, OfPartitions
    <3>5. Thinned(f, x, S)
      BY <3>4, ThinnedOnly
    <3>6. x \in Seq(Payload({p})) /\ log[p] \in Seq(Payload({p}))
      BY <3>1, <3>2, <3>3, OfPartitionItems DEF Shapes
    <3>7. PICK N : N = IdsIn(x, S)
      OBVIOUS
    <3>8. N \subseteq IdsIn(Sets(q), S)
      BY <1>4, <3>2, <3>5, <3>7 DEF Thinned
    <3>9. ASSUME Rising(Sets(q), S) PROVE Below(N, IdsIn(Sets(r), S)) /\ Gained(log[p], log'[p], S, N)
      <4>1. Below(N, IdsIn(Sets(r), S)) /\ Rising(x, S)
        BY <1>4, <3>2, <3>5, <3>7, <3>9 DEF Thinned, Below
      <4>2. Gained(log[p], log[p] \o x, S, N)
        BY <3>6, <3>7, <4>1, GainedConcat
      <4> QED BY <2>2, <3>2, <3>3, <4>1, <4>2
    <3> QED BY <1>1, <1>3, <1>4, <1>5, <3>8, <3>9 DEF BrokerMoves
  <2> QED BY <1>3, <2>1, <2>2
<1> QED BY <1>6, BrokerOrder

\* handle_error: stored at most where b leads.
LEMMA ConnectionFailsOrder ==
  ASSUME Shapes, NEW p \in Partitions, FirstOrder(p), NEW b \in Brokers, ConnectionFails(b)
  PROVE  FirstOrder(p)'
<1>1. bp[b] \in BrokerShape
  BY DEF Shapes
<1>2. bp' = [bp EXCEPT ![b].flight = <<>>] /\ UNCHANGED <<sent, m_input, topic_input, pp, leader>>
  BY Zenon DEF ConnectionFails
<1>3. PICK r : r = [bp[b] EXCEPT !.flight = <<>>]
  OBVIOUS
<1>4. bp' = [bp EXCEPT ![b] = r]
  BY <1>1, <1>2, <1>3 DEF Shapes
<1>5. /\ r \in BrokerShape /\ r.flight = <<>> /\ r.m_output = bp[b].m_output /\ r.m_buffer = bp[b].m_buffer
      /\ r.m_input = bp[b].m_input
  BY <1>1, <1>3, EmptyFlight
<1>6. log' = log \/ log' = [x \in Partitions |-> IF x \in {y \in Partitions : leader[y].at = b}
                                                 THEN log[x] \o OfPartition(bp[b].flight, x) ELSE log[x]]
  BY Zenon DEF ConnectionFails
<1>7. log'[p] = log[p] \/ (b = leader[p].at /\ log'[p] = log[p] \o OfPartition(bp[b].flight, p))
  BY <1>6
<1>8. Thinned(bp[b].m_buffer, r.m_buffer, FirstTurn({p}))
  BY <1>5, ThinnedSame
<1> QED BY <1>2, <1>4, <1>5, <1>7, <1>8, EndsOrder

\* A partition that b does not lead has nothing of b's request stored.
LEMMA AnsweredHere ==
  ASSUME NEW b, NEW z \in Partitions, Answered(b)
  PROVE  log'[z] = log[z] \/ (b = leader[z].at /\ log'[z] = log[z] \o OfPartition(bp[b].flight, z))
<1> DEFINE ps == Parts(bp[b].flight)
<1>1. PICK res \in [ps -> Verdicts] :
        /\ \A p \in ps : res[p] \in Outcomes(b, p)
        /\ log' = [p \in Partitions |-> IF p \in ps /\ res[p] \in {"stored", "retry_stored"}
                                        THEN log[p] \o OfPartition(bp[b].flight, p) ELSE log[p]]
  BY Zenon DEF Answered, Parts, Verdicts
<1> HIDE DEF ps
<1>2. CASE z \in ps /\ res[z] \in {"stored", "retry_stored"}
  <2>1. res[z] \in Outcomes(b, z)
    BY <1>1, <1>2
  <2>2. b = leader[z].at
    BY <1>2, <2>1 DEF Outcomes
  <2> QED BY <1>1, <1>2, <2>2
<1>3. CASE ~(z \in ps /\ res[z] \in {"stored", "retry_stored"})
  BY <1>1, <1>3
<1> QED BY <1>2, <1>3

\* handle_success: what goes back leaves the buffer, what is stored leaves the request.
LEMMA AnsweredOrder ==
  ASSUME Shapes, NEW z \in Partitions, FirstOrder(z), NEW b \in Brokers, Answered(b)
  PROVE  FirstOrder(z)'
<1>1. bp[b] \in BrokerShape
  BY DEF Shapes
<1>2. UNCHANGED <<sent, m_input, topic_input, pp, leader>>
  BY Zenon DEF Answered
<1>3. log'[z] = log[z] \/ (b = leader[z].at /\ log'[z] = log[z] \o OfPartition(bp[b].flight, z))
  BY AnsweredHere
<1>7. PICK res : AnswerCases(b, bp[b].flight, Parts(bp[b].flight), res,
                             {p \in Parts(bp[b].flight) : res[p] = "stored"},
                             {p \in Parts(bp[b].flight) : res[p] \in {"retry", "retry_stored"}},
                             {p \in Parts(bp[b].flight) : res[p] = "other"})
  BY AnsweredIsCases, Zenon
<1>4. PICK failed : \/ bp' = [bp EXCEPT ![b].flight = <<>>]
                    \/ bp' = [bp EXCEPT ![b].flight = <<>>,
                                        ![b].m_buffer = OfPartitions(@, Partitions \ failed),
                                        ![b].m_current_retries = [p \in Partitions |-> IF p \in failed THEN "err" ELSE @[p]]]
  BY <1>7, Zenon DEF AnswerCases
<1>5. CASE bp' = [bp EXCEPT ![b].flight = <<>>]
  <2>1. PICK r : r = [bp[b] EXCEPT !.flight = <<>>]
    OBVIOUS
  <2>2. bp' = [bp EXCEPT ![b] = r]
    BY <1>1, <1>5, <2>1 DEF Shapes
  <2>3. /\ r \in BrokerShape /\ r.flight = <<>> /\ r.m_output = bp[b].m_output /\ r.m_buffer = bp[b].m_buffer
        /\ r.m_input = bp[b].m_input
    BY <1>1, <2>1, EmptyFlight
  <2>4. Thinned(bp[b].m_buffer, r.m_buffer, FirstTurn({z}))
    BY <2>3, ThinnedSame
  <2> QED BY <1>2, <1>3, <2>2, <2>3, <2>4, EndsOrder
<1>6. ASSUME bp' = [bp EXCEPT ![b].flight = <<>>,
                              ![b].m_buffer = OfPartitions(@, Partitions \ failed),
                              ![b].m_current_retries = [p \in Partitions |-> IF p \in failed THEN "err" ELSE @[p]]]
      PROVE  FirstOrder(z)'
  <2>1. PICK F \in SUBSET Partitions : F = Partitions \cap failed
    OBVIOUS
  <2>2. Partitions \ failed = Partitions \ F /\ \A x \in Partitions : x \in failed <=> x \in F
    BY <2>1
  <2>3. bp' = [bp EXCEPT ![b] = After(b, failed)]
    BY <1>6, AnsweredIsAfter, Zenon
  <2>4. After(b, failed) = After(b, F)
    BY <2>2 DEF After
  <2>5. PICK r : r = After(b, F)
    OBVIOUS
  <2>6. /\ r \in BrokerShape /\ r.flight = <<>> /\ r.m_output = bp[b].m_output /\ r.m_input = bp[b].m_input
        /\ r.m_buffer = OfPartitions(bp[b].m_buffer, Partitions \ F)
    BY <1>1, <2>5, AfterShape
  <2>7. Thinned(bp[b].m_buffer, r.m_buffer, FirstTurn({z}))
    <3>1. PICK s : s = bp[b].m_buffer
      OBVIOUS
    <3>2. s \in Seq(Payload(Partitions))
      BY <1>1, <3>1 DEF BrokerShape
    <3>3. r.m_buffer = Only(s, OfPart(Partitions \ F))
      BY <2>6, <3>1, Zenon DEF OfPartitions
    <3> QED BY <3>1, <3>2, <3>3, ThinnedOnly
  <2>8. bp' = [bp EXCEPT ![b] = r]
    BY <2>3, <2>4, <2>5, Zenon
  <2> QED BY <1>2, <1>3, <2>6, <2>7, <2>8, EndsOrder
<1> QED BY <1>4, <1>5, <1>6, Zenon

\* The leader moves: on the first move nothing of p is with the new leader yet, and what the
\* old one holds is stored no more.
LEMMA MoveOrder ==
  ASSUME Shapes, NEW p \in Partitions, FirstOrder(p), NEW z \in Partitions, Move(z)
  PROVE  FirstOrder(p)'
<1> DEFINE S == FirstTurn({p})
           L == Line(p)
           L2 == Line(p)'
           K == Kinds(p)
<1>1. /\ sent' = sent /\ m_input' = m_input /\ topic_input' = topic_input /\ pp' = pp /\ bp' = bp /\ log' = log
      /\ \E b \in Brokers \ {leader[z].at} : leader' = [leader EXCEPT ![z] = [at |-> b, was |-> @.was \cup {b}, moves |-> @.moves + 1]]
  BY DEF Move
<1>2. PICK b \in Brokers \ {leader[z].at} : leader' = [leader EXCEPT ![z] = [at |-> b, was |-> @.was \cup {b}, moves |-> @.moves + 1]]
  BY <1>1
<1>3. leader \in [Partitions -> [at: Brokers, was: SUBSET Brokers, moves: 0..MaxMoves]] /\ MaxMoves \in Nat
  BY KafkaProducerAssumption DEF Shapes
<1>4. Retries(p, pp[p])' /\ Retries(p, pp[p])
  BY <1>1 DEF FirstOrder, Retries
<1>5. CASE p # z
  <2>1. leader'[p] = leader[p]
    BY <1>2, <1>3, <1>5
  <2>2. InLine(p)' /\ OneBroker(p)'
    BY <1>1, <2>1, Zenon DEF FirstOrder, InLine, OneBroker, Line
  <2> QED BY <1>4, <2>2 DEF FirstOrder
<1>6. CASE p = z
  <2>1. leader'[p].at = b /\ leader'[p].moves = leader[p].moves + 1 /\ leader[p].moves \in Nat
    BY <1>2, <1>3, <1>6
  <2>2. OneBroker(p)'
    BY <2>1 DEF OneBroker
  <2>3. ASSUME leader[p].moves = 0 PROVE Lined(L2, K, sent)
    <3>1. Lined(L, K, sent) /\ Without(bp[b], p)
      BY <1>6, <2>3 DEF FirstOrder, InLine, OneBroker
    <3>2. /\ L[1] = log[p] /\ L[4] = pp[p].buf[0] /\ L[5] = pp[p].m_input /\ L[6] = topic_input /\ L[7] = m_input
      BY PlacesAt DEF Line
    <3>3. /\ L2[1] = log'[p] /\ L2[2] = Sets(bp'[b]) /\ L2[3] = bp'[b].m_input
          /\ L2[4] = pp'[p].buf[0] /\ L2[5] = pp'[p].m_input /\ L2[6] = topic_input' /\ L2[7] = m_input'
      BY <2>1, PlacesAt DEF Line
    <3>4. K[2] = S /\ K[3] = S
      BY KindsAt
    <3> HIDE DEF L, L2, K
    <3>5. IdsIn(L2[2], K[2]) = {} /\ IdsIn(L2[3], K[3]) = {}
      BY <1>1, <3>1, <3>3, <3>4 DEF Without
    <3>6. Thinned(L[2], L2[2], K[2]) /\ Thinned(L[3], L2[3], K[3])
      BY <3>5, ThinnedEmpty
    <3>7. L2[1] = L[1] /\ L2[4] = L[4] /\ L2[5] = L[5] /\ L2[6] = L[6] /\ L2[7] = L[7]
      BY <1>1, <3>2, <3>3
    <3>8. /\ Thinned(L[1], L2[1], K[1]) /\ Thinned(L[4], L2[4], K[4]) /\ Thinned(L[5], L2[5], K[5])
          /\ Thinned(L[6], L2[6], K[6]) /\ Thinned(L[7], L2[7], K[7])
      BY <3>7, ThinnedSame
    <3> QED BY <3>1, <3>6, <3>8, StaysInLine
  <2>4. InLine(p)'
    BY <1>1, <2>1, <2>3 DEF InLine
  <2> QED BY <1>4, <2>2, <2>4 DEF FirstOrder
<1> QED BY <1>5, <1>6

\* At the start nothing is anywhere.
LEMMA InitOrder ==
  ASSUME Init, NEW p \in Partitions
  PROVE  FirstOrder(p)
<1>0. Shapes
  BY InitShapes
<1>1. /\ m_input = <<>> /\ topic_input = <<>> /\ log[p] = <<>>
      /\ pp[p].m_input = <<>> /\ pp[p].pc = "off" /\ pp[p].m_broker_producer = Nobody
      /\ \A l \in Level : pp[p].buf[l] = <<>>
  BY DEF Init
<1>2. ASSUME NEW b \in Brokers PROVE bp[b].m_input = <<>> /\ Sets(bp[b]) = <<>>
  <2>1. bp[b].m_input = <<>> /\ bp[b].flight = <<>> /\ bp[b].m_output = <<>> /\ bp[b].m_buffer = <<>>
    BY DEF Init
  <2>2. (<<>> \o <<>>) \o <<>> = <<>>
    OBVIOUS
  <2> QED BY <2>1, <2>2, FlatEmpty, Zenon DEF Sets
<1>3. Retries(p, pp[p])
  <2>1. \A l \in 1..RetryMax : l \in Level
    BY KafkaProducerAssumption DEF Level
  <2> QED BY <1>1, <2>1, IdsEmpty DEF Retries
<1>4. OneBroker(p)
  <2>1. leader[p].was = {leader[p].at}
    BY DEF Init
  <2> QED BY <1>1, <1>2, <2>1, IdsEmpty DEF OneBroker, Without
<1>5. InLine(p)
  <2> DEFINE L == Line(p)
             K == Kinds(p)
  <2>1. leader[p].at \in Brokers /\ 0 \in Level
    BY <1>0, PlacesType, ZeroLevel
  <2>2. /\ L[1] = log[p] /\ L[2] = Sets(bp[leader[p].at]) /\ L[3] = bp[leader[p].at].m_input
        /\ L[4] = pp[p].buf[0] /\ L[5] = pp[p].m_input /\ L[6] = topic_input /\ L[7] = m_input
    BY PlacesAt DEF Line
  <2> HIDE DEF L, K
  <2>3. \A k \in 1..7 : L[k] = <<>>
    BY <1>1, <1>2, <2>1, <2>2
  <2>4. \A k \in 1..7 : Rising(L[k], K[k]) /\ IdsIn(L[k], K[k]) = {}
    BY <2>3, IdsEmpty
  <2>5. Lined(L, K, sent)
    BY <2>4 DEF Lined, Below
  <2> QED BY <2>5 DEF InLine, L, K
<1> QED BY <1>3, <1>4, <1>5 DEF FirstOrder

\* Every step keeps the order.
LEMMA NextOrder ==
  ASSUME ProducerInv, \A z \in Partitions : FirstOrder(z), [Next]_vars, NEW p \in Partitions
  PROVE  FirstOrder(p)'
<1>0. Shapes /\ FirstOrder(p)
  BY DEF ProducerInv
<1>1. CASE Send
  BY <1>0, <1>1, SendOrder
<1>2. CASE Close
  BY <1>0, <1>2, CloseOrder
<1>3. CASE Shutdown
  <2>1. UNCHANGED <<sent, m_input, topic_input, pp, bp, leader, log>>
    BY <1>3 DEF Shutdown, worldVars
  <2> QED BY <1>0, <2>1, StillOrder
<1>4. CASE Dispatch
  BY <1>0, <1>4, DispatchOrder
<1>5. CASE RetryHandler
  BY <1>0, <1>5, RetryHandlerOrder
<1>6. CASE DispatchTopic
  BY <1>0, <1>6, DispatchTopicOrder
<1>7. ASSUME NEW z \in Partitions, PartitionStep(z) PROVE FirstOrder(p)'
  <2>1. UNCHANGED <<sent, m_input, topic_input, leader, log>>
    <3>1. CASE Start(z)
      BY <3>1, Zenon DEF Start, worldVars
    <3>2. CASE NewHighWatermark(z)
      BY <3>2, Zenon DEF NewHighWatermark, worldVars
    <3>3. CASE BehindWatermark(z)
      BY <3>3, Zenon DEF BehindWatermark, worldVars
    <3>4. CASE Chaser(z)
      BY <3>4, Zenon DEF Chaser, worldVars
    <3>5. CASE Flush(z)
      BY <3>5, Zenon DEF Flush, worldVars
    <3>6. CASE SendOn(z)
      BY <3>6, Zenon DEF SendOn, worldVars
    <3> QED BY <1>7, <3>1, <3>2, <3>3, <3>4, <3>5, <3>6, Zenon DEF PartitionStep
  <2>2. FirstOrder(z)
    OBVIOUS
  <2>3. \E q : \E b \in Brokers : \E ms : Goes(z, q, b, ms)
    BY <1>7, <2>2, StartGoes, NewHighWatermarkGoes, BehindWatermarkGoes, ChaserGoes, FlushGoes, SendOnGoes, Zenon
       DEF PartitionStep
  <2>4. PICK q : \E b \in Brokers : \E ms : Goes(z, q, b, ms)
    BY <2>3
  <2>5. PICK b \in Brokers : \E ms : Goes(z, q, b, ms)
    BY <2>4
  <2>6. PICK ms : Goes(z, q, b, ms)
    BY <2>5
  <2> QED BY <1>0, <2>1, <2>6, GoesOrder, Zenon
<1>8. ASSUME NEW z \in Partitions, Move(z) PROVE FirstOrder(p)'
  BY <1>0, <1>8, MoveOrder
<1>9. ASSUME NEW b \in Brokers, Run(b) PROVE FirstOrder(p)'
  BY <1>0, <1>9, RunOrder
<1>10. ASSUME NEW b \in Brokers, BrokerStep(b) PROVE FirstOrder(p)'
  BY <1>0, <1>10, BridgeOrder, AnsweredOrder, ConnectionFailsOrder, Zenon DEF BrokerStep
<1>11. CASE UNCHANGED vars
  <2>1. UNCHANGED <<sent, m_input, topic_input, pp, bp, leader, log>>
    BY <1>11 DEF vars
  <2> QED BY <1>0, <2>1, StillOrder
<1> QED BY <1>1, <1>2, <1>3, <1>4, <1>5, <1>6, <1>7, <1>8, <1>9, <1>10, <1>11, Zenon DEF Next

\* The order of a partition's places is that of its log.
LEMMA OrderLog ==
  ASSUME Shapes, \A p \in Partitions : FirstOrder(p)
  PROVE  FirstTurnInOrder
<1> SUFFICES ASSUME NEW p \in Partitions, leader[p].moves <= 1, NEW i \in DOMAIN log[p], NEW j \in DOMAIN log[p],
                    i < j, log[p][i].retries = 0, log[p][j].retries = 0
             PROVE  log[p][i].id < log[p][j].id
  BY DEF FirstTurnInOrder
<1>1. log[p] \in Seq(Payload({p}))
  BY DEF Shapes
<1>2. log[p][i] \in Payload({p}) /\ log[p][j] \in Payload({p})
  BY <1>1
<1>3. log[p][i] \in FirstTurn({p}) /\ log[p][j] \in FirstTurn({p})
  BY <1>2, FirstTurns
<1>4. Lined(Line(p), Kinds(p), sent) /\ Line(p)[1] = log[p] /\ Kinds(p)[1] = FirstTurn({p})
  BY PlacesAt, KindsAt DEF FirstOrder, InLine, Line
<1>5. Rising(log[p], FirstTurn({p}))
  BY <1>4 DEF Lined
<1> QED BY <1>3, <1>5 DEF Rising

\* Both in every reachable state.
OrderInv == ProducerInv /\ \A p \in Partitions : FirstOrder(p)
LEMMA OrderHolds == Spec => []OrderInv
<1>1. Init => OrderInv
  BY InitHolds, InitOrder DEF OrderInv
<1>2. OrderInv /\ [Next]_vars => OrderInv'
  BY NextHolds, NextOrder DEF OrderInv
<1>3. QED
  BY <1>1, <1>2, PTL DEF Spec

\* While the leader of a partition moves once at most: what its log has of messages on their
\* first turn is in the order they were sent, retries of others notwithstanding
\* (partition_producer.cpp 60-207, broker_producer.cpp run and handle_success).
THEOREM FirstTurnsInOrder == Spec => []FirstTurnInOrder
<1>1. OrderInv => FirstTurnInOrder
  BY OrderLog DEF OrderInv, ProducerInv
<1>2. QED
  BY <1>1, OrderHolds, PTL
=============================================================================
