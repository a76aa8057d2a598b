--------------------------- MODULE KafkaProducer ---------------------------
(* The asynchronous Kafka producer (src/src/coev_kafka/async_producer.cpp,          *)
(* topic_producer.cpp, partition_producer.cpp, broker_producer.cpp,                  *)
(* produce_set.cpp): a pipeline of coroutines of one thread joined by co_channels.    *)
(* A step takes one item from a channel and runs to the next co_await; which of        *)
(* the coroutines with something to do runs next is left open. One topic, neither      *)
(* idempotent nor transactional (NewAsyncProducer dereferences a null request when      *)
(* Producer.Idempotent is set, transaction_manager.cpp 388).                            *)
EXTENDS Integers, SequencesExt, Queues

CONSTANTS Partitions, Brokers,
          MaxSent,       \* bound on the messages sent
          RetryMax,      \* Producer.Retry.Max
          BufferLength,  \* Producer.Retry.MaxBufferLength as retry_handler raises it; 0: no limit
          FlushMessages, \* Producer.Flush.Messages; 0: every message is flushed
          MaxMoves       \* bound on the times a partition changes its leader

ASSUME KafkaProducerAssumption ==
  /\ {MaxSent, RetryMax, BufferLength, FlushMessages, MaxMoves} \subseteq Nat
  /\ IsFiniteSet(Partitions) /\ IsFiniteSet(Brokers) /\ Brokers # {}

VARIABLES
  sent,        \* messages handed to the producer so far
  m_input,     \* AsyncProducer::m_input
  topic_input, \* TopicProducer::m_input
  pp,          \* PartitionProducer of a partition
  bp,          \* BrokerProducer of a broker
  m_retries,   \* AsyncProducer::m_retries
  retry_buf,   \* retry_handler's buf
  m_replies,   \* m_replies[<<id, ok>>]: replies that message id failed or was stored
  m_in_flight, \* the waitgroup's count
  closing,     \* "no", "asked" (close() was called) or "done" (the client is closed)
  leader,      \* the broker that leads a partition, those that have, and the moves made
  log,         \* what the cluster stored: messages of a partition, in order
  dropped      \* messages answered with an error nothing handles

vars == <<sent, m_input, topic_input, pp, bp, m_retries, retry_buf, m_replies,
          m_in_flight, closing, leader, log, dropped>>
worldVars == <<leader, log, dropped>>

-----------------------------------------------------------------------------
(* State                                                                          *)

Nobody == "nobody"
NoPartition == "none"
Level == 0..RetryMax

Id == 0..MaxSent
Kind == {"msg", "syn", "fin", "shutdown"}
Place == Partitions \cup {NoPartition}

Message == [id: Id, kind: Kind, retries: Level, part: Place]

Msg(id) == [id |-> id, kind |-> "msg", retries |-> 0, part |-> NoPartition]
Mark(kind, p, n) == [id |-> 0, kind |-> kind, retries |-> n, part |-> p]
NoMsg == Mark("msg", NoPartition, 0)

\* pc: not made yet, asking for its leader first, waiting for a message, sending
\* msg, flushing the retry buffers, or ended because the first lookup failed.
PartitionProducer ==
  [pc: {"off", "start", "ready", "send", "flush", "dead"},
   m_input: Seq(Message), msg: Message, m_broker_producer: Brokers \cup {Nobody},
   m_high_watermark: Level, buf: [Level -> Seq(Message)], expect: [Level -> BOOLEAN]]

\* m_current_retries: "none" (no entry), "ok" (ErrNoError) or "err". flight: the
\* set bridge() has sent.
BrokerProducer ==
  [m_input: Seq(Message), m_buffer: Seq(Message), m_output: Seq(Seq(Message)),
   m_current_retries: [Partitions -> {"none", "ok", "err"}], flight: Seq(Message)]

TypeOK ==
  /\ sent \in 0..MaxSent /\ m_input \in Seq(Message) /\ topic_input \in Seq(Message)
  /\ pp \in [Partitions -> PartitionProducer] /\ bp \in [Brokers -> BrokerProducer]
  /\ m_retries \in Seq(Message) /\ retry_buf \in Seq(Message)
  /\ m_replies \in [(0..MaxSent) \X BOOLEAN -> Nat]
  /\ m_in_flight \in Nat /\ closing \in {"no", "asked", "done"}
  /\ leader \in [Partitions -> [at: Brokers, was: SUBSET Brokers, moves: 0..MaxMoves]]
  /\ log \in [Partitions -> Seq(Message)] /\ dropped \subseteq 1..MaxSent

Init ==
  /\ sent = 0 /\ m_input = <<>> /\ topic_input = <<>>
  /\ pp = [p \in Partitions |->
             [pc |-> "off", m_input |-> <<>>, msg |-> NoMsg, m_broker_producer |-> Nobody,
              m_high_watermark |-> 0, buf |-> [l \in Level |-> <<>>],
              expect |-> [l \in Level |-> FALSE]]]
  /\ bp = [b \in Brokers |->
             [m_input |-> <<>>, m_buffer |-> <<>>, m_output |-> <<>>,
              m_current_retries |-> [p \in Partitions |-> "none"], flight |-> <<>>]]
  /\ m_retries = <<>> /\ retry_buf = <<>> /\ m_replies = [r \in (0..MaxSent) \X BOOLEAN |-> 0]
  /\ m_in_flight = 0 /\ closing = "no"
  /\ \E b \in Brokers : leader = [p \in Partitions |-> [at |-> b, was |-> {b}, moves |-> 0]]
  /\ log = [p \in Partitions |-> <<>>] /\ dropped = {}

-----------------------------------------------------------------------------
(* Replies and retries: each takes a batch of messages                              *)

\* The messages with an id of ids, with retries among levels, of the partitions ps.
WithId(ids) == [id: ids, kind: Kind, retries: Level, part: Place]
AtLevel(levels) == [id: Id, kind: Kind, retries: levels, part: Place]
OfPart(ps) == [id: Id, kind: Kind, retries: Level, part: ps]

Replied(errs, oks) ==
  IF errs \o oks = <<>> THEN m_replies
  ELSE [r \in DOMAIN m_replies |->
          m_replies[r] + Num(IF r[2] THEN oks ELSE errs, WithId({r[1]}))]

\* Mutant: return_successes counts its messages off as one.
ReplyOnce(errs, oks, more) ==
  /\ m_replies' = Replied(errs, oks)
  /\ m_in_flight' = m_in_flight + more - Len(errs) - Min({1, Len(oks)})

\* return_error for each of errs, return_successes for oks, with in_flight's change
\* `more` of the rest of the step.
Reply(errs, oks, more) ==
  /\ m_replies' = Replied(errs, oks)
  /\ m_in_flight' = m_in_flight + more - Len(errs) - Len(oks)

\* Mutant: every message that failed is answered, also those queued again.
GivenUpAll(ms) == ms

\* retry_message: out of retries, or queued for another turn.
GivenUp(ms) == Only(ms, AtLevel({l \in Level : l >= RetryMax}))
Retried(ms) ==
  LET again == Only(ms, AtLevel({l \in Level : l < RetryMax}))
  IN [i \in DOMAIN again |-> [again[i] EXCEPT !.retries = @ + 1]]

RetryMessages(ms, oks, more) ==
  /\ m_retries' = m_retries \o Retried(ms)
  /\ Reply(GivenUp(ms), oks, more)

-----------------------------------------------------------------------------
(* The application                                                                  *)

\* m_input.set: producer(), send_message() and the like.
Send ==
  /\ sent < MaxSent
  /\ sent' = sent + 1
  /\ m_input' = Append(m_input, Msg(sent + 1))
  /\ UNCHANGED <<topic_input, pp, bp, m_retries, retry_buf, m_replies, m_in_flight, closing, worldVars>>

\* close(), async_close().
Close ==
  /\ closing = "no"
  /\ closing' = "asked"
  /\ m_in_flight' = m_in_flight + 1
  /\ m_input' = Append(m_input, Mark("shutdown", NoPartition, 0))
  /\ UNCHANGED <<sent, topic_input, pp, bp, m_retries, retry_buf, m_replies, worldVars>>

\* shutdown() after m_in_flight.wait(): the client is closed.
Shutdown ==
  /\ closing = "asked" /\ m_in_flight = 0
  /\ closing' = "done"
  /\ UNCHANGED <<sent, m_input, topic_input, pp, bp, m_retries, retry_buf, m_replies, m_in_flight, worldVars>>

-----------------------------------------------------------------------------
(* AsyncProducer::dispatcher, retry_handler; TopicProducer::dispatch                 *)

\* The flag shutting_down is set and forgotten. A message is counted on its first
\* turn, refused if its headers or its size do not do, or goes on to its topic.
Dispatch ==
  LET m == Head(m_input)
      first == IF m.retries = 0 THEN 1 ELSE 0
  IN
  /\ m_input # <<>> /\ m_input' = Tail(m_input)
  /\ \/ m.kind = "shutdown" /\ Reply(<<>>, <<>>, -1) /\ UNCHANGED topic_input
     \/ m.kind # "shutdown" /\ m.retries = 0 /\ Reply(<<m>>, <<>>, first) /\ UNCHANGED topic_input
     \/ /\ m.kind # "shutdown" /\ Reply(<<>>, <<>>, first)
        /\ topic_input' = Append(topic_input, m)
  /\ UNCHANGED <<sent, pp, bp, m_retries, retry_buf, closing, worldVars>>

\* A retried message waits until BufferLength of them have come together.
RetryHandler ==
  LET buf == Append(retry_buf, Head(m_retries))
      out == BufferLength > 0 /\ Len(buf) >= BufferLength
  IN
  /\ m_retries # <<>> /\ m_retries' = Tail(m_retries)
  /\ retry_buf' = IF out THEN Tail(buf) ELSE buf
  /\ m_input' = IF out THEN Append(m_input, Head(buf)) ELSE m_input
  /\ UNCHANGED <<sent, topic_input, pp, bp, m_replies, m_in_flight, closing, worldVars>>

\* The message goes to partition p, whose producer is made if need be.
ToPartition(m, p) ==
  pp' = [pp EXCEPT ![p].m_input = Append(@, [m EXCEPT !.part = p]),
                   ![p].pc = IF @ = "off" THEN "start" ELSE @]

\* partition_message on the first turn: no partition, or the partitioner's.
DispatchTopic ==
  LET m == Head(topic_input) IN
  /\ topic_input # <<>> /\ topic_input' = Tail(topic_input)
  /\ \/ m.retries = 0 /\ Reply(<<m>>, <<>>, 0) /\ UNCHANGED pp
     \/ /\ \E p \in Partitions : (m.retries > 0 => p = m.part) /\ ToPartition(m, p)
        /\ Reply(<<>>, <<>>, 0)
  /\ UNCHANGED <<sent, m_input, bp, m_retries, retry_buf, closing, worldVars>>

-----------------------------------------------------------------------------
(* PartitionProducer                                                                *)

\* update_leader: RefreshMetadata and Client::Leader find b: the leader, or one from
\* before a move that the broker asked has not heard of; none once the client is closed.
Found(p, b) == closing # "done" /\ b \in leader[p].was

ToBroker(b, ms) == bp' = [bp EXCEPT ![b].m_input = @ \o ms]

\* The first lookup in dispatch(). When it fails the coroutine ends and what its
\* channel holds, now and later, is never read.
Start(p) ==
  /\ pp[p].pc = "start"
  /\ \/ \E b \in Brokers :
          /\ Found(p, b)
          /\ pp' = [pp EXCEPT ![p].pc = "ready", ![p].m_broker_producer = b]
          /\ ToBroker(b, <<Mark("syn", p, 0)>>)
          /\ Reply(<<>>, <<>>, 1)
     \/ pp' = [pp EXCEPT ![p].pc = "dead"] /\ Reply(<<>>, <<>>, 0) /\ UNCHANGED bp
  /\ UNCHANGED <<sent, m_input, topic_input, m_retries, retry_buf, closing, worldVars>>

\* update_leader_if_broker_producer_is_nil, then what `then` sends there and makes
\* of the producer; a message whose leader is not found is answered.
WithLeader(p, m, q, ms, more) ==
  LET b0 == pp[p].m_broker_producer IN
  \/ /\ b0 # Nobody
     /\ pp' = [pp EXCEPT ![p] = q] /\ ToBroker(b0, ms) /\ Reply(<<>>, <<>>, more)
  \/ /\ b0 = Nobody
     /\ \/ \E b \in Brokers :
             /\ Found(p, b)
             /\ pp' = [pp EXCEPT ![p] = [q EXCEPT !.m_broker_producer =
                                           IF q.pc = "send" THEN Nobody ELSE b]]
             /\ ToBroker(b, <<Mark("syn", p, 0)>> \o ms) /\ Reply(<<>>, <<>>, more + 1)
        \/ /\ pp' = [pp EXCEPT ![p] = [q EXCEPT !.m_high_watermark = pp[p].m_high_watermark,
                                                !.expect = pp[p].expect, !.pc = "ready", !.msg = NoMsg]]
           /\ Reply(<<m>>, <<>>, 0) /\ UNCHANGED bp

\* A message retried more often than any before: new_high_watermark sends the chaser
\* to the old broker and forgets it.
NewHighWatermark(p) ==
  LET m == Head(pp[p].m_input) IN
  /\ pp[p].pc = "ready" /\ pp[p].m_input # <<>> /\ m.retries > pp[p].m_high_watermark
  /\ WithLeader(p, m,
       [pp[p] EXCEPT !.m_input = Tail(@), !.m_high_watermark = m.retries,
                     !.expect[m.retries] = TRUE, !.m_broker_producer = Nobody,
                     !.pc = "send", !.msg = m],
       <<Mark("fin", p, m.retries - 1)>>, 1)
  /\ UNCHANGED <<sent, m_input, topic_input, m_retries, retry_buf, closing, worldVars>>

\* A message of an earlier turn waits in its level's buffer; its chaser is noted.
BehindWatermark(p) ==
  LET m == Head(pp[p].m_input) IN
  /\ pp[p].pc = "ready" /\ pp[p].m_input # <<>> /\ m.retries < pp[p].m_high_watermark
  /\ \/ /\ m.kind = "fin"
        /\ pp' = [pp EXCEPT ![p].m_input = Tail(@), ![p].expect[m.retries] = FALSE]
        /\ Reply(<<>>, <<>>, -1)
     \/ /\ m.kind # "fin"
        /\ pp' = [pp EXCEPT ![p].m_input = Tail(@), ![p].buf[m.retries] = Append(@, m)]
        /\ Reply(<<>>, <<>>, 0)
  /\ UNCHANGED <<sent, m_input, topic_input, bp, m_retries, retry_buf, closing, worldVars>>

\* Mutant: the chaser that is back is still expected.
ChaserExpected(p) ==
  LET m == Head(pp[p].m_input) IN
  /\ pp[p].pc = "ready" /\ pp[p].m_input # <<>> /\ m.kind = "fin"
  /\ m.retries = pp[p].m_high_watermark /\ m.retries > 0
  /\ pp' = [pp EXCEPT ![p].m_input = Tail(@), ![p].pc = "flush"]
  /\ UNCHANGED <<sent, m_input, topic_input, bp, m_retries, retry_buf, m_replies, m_in_flight, closing, worldVars>>

\* The chaser of the current level is back: flush_retry_buffers begins.
Chaser(p) ==
  LET m == Head(pp[p].m_input) IN
  /\ pp[p].pc = "ready" /\ pp[p].m_input # <<>> /\ m.kind = "fin"
  /\ m.retries = pp[p].m_high_watermark /\ m.retries > 0
  /\ pp' = [pp EXCEPT ![p].m_input = Tail(@), ![p].expect[m.retries] = FALSE, ![p].pc = "flush"]
  /\ UNCHANGED <<sent, m_input, topic_input, bp, m_retries, retry_buf, m_replies, m_in_flight, closing, worldVars>>

\* One level is sent on, or answered when there is no leader; the loop goes on to
\* the next level unless that one waits for its own chaser or is the last.
Flush(p) ==
  LET l == pp[p].m_high_watermark - 1
      ms == pp[p].buf[l]
      last == pp[p].expect[l] \/ l = 0
      end == IF last THEN -1 ELSE 0
      q == [pp[p] EXCEPT !.m_high_watermark = l, !.buf[l] = <<>>,
                         !.pc = IF last THEN "ready" ELSE "flush"]
  IN
  /\ pp[p].pc = "flush"
  /\ \/ /\ pp[p].m_broker_producer # Nobody
        /\ pp' = [pp EXCEPT ![p] = q]
        /\ ToBroker(pp[p].m_broker_producer, ms) /\ Reply(<<>>, <<>>, end)
     \/ /\ pp[p].m_broker_producer = Nobody
        /\ \/ \E b \in Brokers :
                /\ Found(p, b)
                /\ pp' = [pp EXCEPT ![p] = [q EXCEPT !.m_broker_producer = b]]
                /\ ToBroker(b, <<Mark("syn", p, 0)>> \o ms) /\ Reply(<<>>, <<>>, end + 1)
           \/ pp' = [pp EXCEPT ![p] = q] /\ Reply(ms, <<>>, end) /\ UNCHANGED bp
  /\ UNCHANGED <<sent, m_input, topic_input, m_retries, retry_buf, closing, worldVars>>

\* A message of the current turn, or the one that raised the watermark, after the
\* pause: to the leader's BrokerProducer.
SendOn(p) ==
  LET m == IF pp[p].pc = "send" THEN pp[p].msg ELSE Head(pp[p].m_input) IN
  /\ \/ pp[p].pc = "send"
     \/ /\ pp[p].pc = "ready" /\ pp[p].m_input # <<>> /\ m.retries = pp[p].m_high_watermark
        /\ m.kind = "fin" => m.retries = 0
  /\ WithLeader(p, m,
       [pp[p] EXCEPT !.m_input = IF pp[p].pc = "send" THEN @ ELSE Tail(@), !.msg = NoMsg,
                     !.pc = "ready"],
       <<m>>, 0)
  /\ UNCHANGED <<sent, m_input, topic_input, m_retries, retry_buf, closing, worldVars>>

-----------------------------------------------------------------------------
(* BrokerProducer                                                                   *)

\* ProduceSet::ready_to_flush. (m_timer_fired is never set.)
ReadyToFlush(buffer) == buffer # <<>> /\ Len(buffer) >= FlushMessages

\* Mutant: add() puts the message before those it holds.
BufferedFront(r, m, over) ==
  LET buffer == <<m>> \o r.m_buffer
  IN IF ReadyToFlush(buffer)
     THEN [r EXCEPT !.m_output = Append(@, buffer), !.m_buffer = <<>>]
     ELSE [r EXCEPT !.m_buffer = buffer]

\* ProduceSet::add, which takes every message here (the encoders of keys and values
\* return 0, utils.cpp 25-47, and the sequence is checked for Idempotent only); the buffer is sent first when the message would not fit (by
\* size: `over`), and after it when there is enough.
Buffered(r, m, over) ==
  LET out == IF over THEN Append(r.m_output, r.m_buffer) ELSE r.m_output
      buffer == IF over THEN <<m>> ELSE Append(r.m_buffer, m)
  IN IF ReadyToFlush(buffer)
     THEN [r EXCEPT !.m_output = Append(out, buffer), !.m_buffer = <<>>]
     ELSE [r EXCEPT !.m_output = out, !.m_buffer = buffer]

\* run(): a syn ends the partition's retries; while they last everything of the
\* partition goes back, its chaser last.
Run(b) ==
  LET r == [bp[b] EXCEPT !.m_input = Tail(@)]
      m == Head(bp[b].m_input)
      needs_retry == r.m_current_retries[m.part] = "err"
  IN
  /\ bp[b].m_input # <<>>
  /\ \/ /\ m.kind = "syn"
        /\ bp' = [bp EXCEPT ![b] = [r EXCEPT !.m_current_retries[m.part] = "ok"]]
        /\ RetryMessages(<<>>, <<>>, -1)
     \/ /\ m.kind = "fin"
        /\ bp' = [bp EXCEPT ![b] = [r EXCEPT !.m_current_retries[m.part] =
                                                 IF needs_retry THEN "none" ELSE @]]
        /\ RetryMessages(<<m>>, <<>>, 0)
     \/ /\ m.kind = "msg" /\ needs_retry
        /\ bp' = [bp EXCEPT ![b] = r]
        /\ RetryMessages(<<m>>, <<>>, 0)
     \/ /\ m.kind = "msg" /\ ~needs_retry
        /\ \E over \in {FALSE, r.m_buffer # <<>>} : bp' = [bp EXCEPT ![b] = Buffered(r, m, over)]
        /\ RetryMessages(<<>>, <<>>, 0)
  /\ UNCHANGED <<sent, m_input, topic_input, pp, retry_buf, closing, worldVars>>

\* Mutant: a set waits for the next one.
BridgeLate(b) ==
  /\ Len(bp[b].m_output) > 1 /\ bp[b].flight = <<>>
  /\ bp' = [bp EXCEPT ![b].flight = Head(bp[b].m_output), ![b].m_output = Tail(@)]
  /\ UNCHANGED <<sent, m_input, topic_input, pp, m_retries, retry_buf, m_replies, m_in_flight, closing, worldVars>>

\* bridge(): one request at a time.
Bridge(b) ==
  /\ bp[b].m_output # <<>> /\ bp[b].flight = <<>>
  /\ bp' = [bp EXCEPT ![b].flight = Head(bp[b].m_output), ![b].m_output = Tail(@)]
  /\ UNCHANGED <<sent, m_input, topic_input, pp, m_retries, retry_buf, m_replies, m_in_flight, closing, worldVars>>

OfPartitions(ms, ps) == Only(ms, OfPart(ps))
OfPartition(ms, p) == OfPartitions(ms, {p})

\* What the cluster answers for a partition of the request: stored; an error that
\* is retried, stored all the same or not; another error.
Outcomes(b, p) ==
  IF leader[p].at = b THEN {"stored", "retry", "retry_stored", "other"} ELSE {"retry"}

\* handle_success: partitions that failed go back with what the buffer holds of
\* them; an error that is neither success nor retried is not answered at all.
Answered(b) ==
  LET ms == bp[b].flight
      ps == {ms[i].part : i \in DOMAIN ms}
  IN
  /\ ms # <<>> /\ closing # "done"
  /\ \E res \in [ps -> {"stored", "retry", "retry_stored", "other"}] :
       LET ok == {p \in ps : res[p] = "stored"}
           failed == {p \in ps : res[p] \in {"retry", "retry_stored"}}
           lost == OfPartitions(ms, {p \in ps : res[p] = "other"})
       IN
       /\ \A p \in ps : res[p] \in Outcomes(b, p)
       /\ log' = [p \in Partitions |-> IF p \in ps /\ res[p] \in {"stored", "retry_stored"}
                                       THEN log[p] \o OfPartition(ms, p) ELSE log[p]]
       /\ IF RetryMax = 0
          THEN /\ Reply(OfPartitions(ms, ps \ ok), OfPartitions(ms, ok), 0)
               /\ bp' = [bp EXCEPT ![b].flight = <<>>]
               /\ UNCHANGED <<m_retries, dropped>>
          ELSE /\ RetryMessages(OfPartitions(ms, failed) \o OfPartitions(bp[b].m_buffer, failed),
                                OfPartitions(ms, ok), 0)
               /\ bp' = [bp EXCEPT ![b].flight = <<>>,
                          ![b].m_buffer = OfPartitions(@, Partitions \ failed),
                          ![b].m_current_retries = [p \in Partitions |->
                                                      IF p \in failed THEN "err" ELSE @[p]]]
               /\ dropped' = dropped \cup {lost[i].id : i \in DOMAIN lost}
  /\ UNCHANGED <<sent, m_input, topic_input, pp, retry_buf, closing, leader>>

\* handle_error: the connection failed; the batch may have been stored.
ConnectionFails(b) ==
  LET ms == bp[b].flight
      ps == {p \in Partitions : leader[p].at = b}
  IN
  /\ ms # <<>>
  /\ \/ closing # "done" /\ log' = [p \in Partitions |-> IF p \in ps THEN log[p] \o OfPartition(ms, p) ELSE log[p]]
     \/ UNCHANGED log
  /\ Reply(ms, <<>>, 0)
  /\ bp' = [bp EXCEPT ![b].flight = <<>>]
  /\ UNCHANGED <<sent, m_input, topic_input, pp, m_retries, retry_buf, closing, leader, dropped>>

\* The cluster moves a partition to another broker.
Move(p) ==
  /\ leader[p].moves < MaxMoves
  /\ \E b \in Brokers \ {leader[p].at} : leader' = [leader EXCEPT ![p] = [at |-> b, was |-> @.was \cup {b}, moves |-> @.moves + 1]]
  /\ UNCHANGED <<sent, m_input, topic_input, pp, bp, m_retries, retry_buf, m_replies, m_in_flight, closing, log, dropped>>

PartitionStep(p) ==
  Start(p) \/ NewHighWatermark(p) \/ BehindWatermark(p) \/ Chaser(p) \/ Flush(p) \/ SendOn(p)

BrokerStep(b) == Bridge(b) \/ Answered(b) \/ ConnectionFails(b)

Next ==
  \/ Send \/ Close \/ Shutdown
  \/ Dispatch \/ RetryHandler \/ DispatchTopic
  \/ \E p \in Partitions : PartitionStep(p) \/ Move(p)
  \/ \E b \in Brokers : Run(b) \/ BrokerStep(b)

\* Coroutines with something to do run, and every request is answered or fails
\* (the connection's read timeout).
Fairness ==
  /\ WF_vars(Dispatch) /\ WF_vars(RetryHandler) /\ WF_vars(DispatchTopic)
  /\ \A p \in Partitions : WF_vars(PartitionStep(p))
  /\ \A b \in Brokers : WF_vars(Run(b)) /\ WF_vars(BrokerStep(b))

Spec == Init /\ [][Next]_vars /\ Fairness

-----------------------------------------------------------------------------
(* Properties                                                                      *)

\* The queues of the pipeline behind m_input, and how many of their items are in T.
PartitionQueue ==
  [p \in Partitions |-> pp[p].m_input \o (IF pp[p].pc = "send" THEN <<pp[p].msg>> ELSE <<>>)]
RetryBuffer == [x \in Partitions \X Level |-> pp[x[1]].buf[x[2]]]
BrokerQueue == [b \in Brokers |-> bp[b].m_input]
BrokerSets == [b \in Brokers |-> bp[b].flight \o FlattenSeq(bp[b].m_output) \o bp[b].m_buffer]

BeforeBrokers(T) ==
  Num(topic_input, T) + Num(m_retries, T) + Num(retry_buf, T)
    + NumIn(PartitionQueue, T) + NumIn(RetryBuffer, T)

Inside(T) == BeforeBrokers(T) + NumIn(BrokerQueue, T) + NumIn(BrokerSets, T)

\* From m_input.set to the reply (async_producer.cpp, broker_producer.cpp): whatever
\* fails, a message is in one place of the pipeline, or was answered, or dropped
\* unanswered for an error that handle_success leaves out, and only one of them;
\* nothing else is ever answered.
Conserved ==
  /\ \A id \in 1..sent :
       Num(m_input, WithId({id})) + Inside(WithId({id}))
         + m_replies[<<id, FALSE>>] + m_replies[<<id, TRUE>>]
         + Cardinality(dropped \cap {id}) = 1
  /\ m_replies[<<0, FALSE>>] + m_replies[<<0, TRUE>>] = 0

\* handle_success against what the brokers did: a message answered as stored is in
\* a partition's log, and no message is stored twice on the same turn.
StoredOnce ==
  /\ \A id \in 1..sent : m_replies[<<id, TRUE>>] > 0 =>
       \E p \in Partitions : \E i \in DOMAIN log[p] : log[p][i].id = id
  /\ \A p \in Partitions : IsInjective(log[p])

\* The messages as a whole, the types included: each is in one place or answered
\* once, and answered as stored only if it was.
MessagesSafe ==
  /\ TypeOK
  /\ Conserved
  /\ StoredOnce

\* m_in_flight (add() and done() in four files): counts exactly the messages taken
\* in and not answered, and the marks on their way, so wait() in shutdown() and
\* close() ends when all are answered and not before.
InFlightExact ==
  m_in_flight =
    Num(m_input, AtLevel({l \in Level : l > 0})
                   \cup [id: Id, kind: {"shutdown"}, retries: Level, part: Place])
      + Inside(Message) + Cardinality(dropped)
      + Cardinality({p \in Partitions : pp[p].pc = "flush"})

\* The chaser of level l for partition p: sent with one retry less, it comes back
\* through retry_message.
Fin(p, l) == [id: Id, kind: {"fin"}, retries: {l}, part: {p}]

\* new_high_watermark, flush_retry_buffers (partition_producer.cpp 155-207): a
\* level expects a chaser exactly when one is on its way, and messages are held
\* back only below a level that does, so none is held back for good while chasers
\* return.
ChaserOnItsWay ==
  \A p \in Partitions, l \in 1..RetryMax :
    /\ Num(m_input, Fin(p, l)) + BeforeBrokers(Fin(p, l))
         + NumIn(BrokerQueue, Fin(p, l - 1)) + NumIn(BrokerSets, Fin(p, l))
         = IF pp[p].expect[l] THEN 1 ELSE 0
    /\ pp[p].m_high_watermark = l /\ pp[p].pc # "flush" => pp[p].expect[l]
    /\ pp[p].m_high_watermark < l => pp[p].buf[l - 1] = <<>> /\ pp[p].buf[l] = <<>>

\* PartitionProducer's retry buffers with BrokerProducer's m_current_retries: the
\* messages a partition stores on their first turn are in the order they were sent,
\* although others are retried meanwhile and the leader moves. (Not once it has
\* moved twice: the chaser does not wait for the sets the old broker still holds,
\* and when the partition is back there they are stored after later messages.)
FirstTurnInOrder ==
  \A p \in Partitions : leader[p].moves <= 1 =>
    \A i, j \in DOMAIN log[p] :
      i < j /\ log[p][i].retries = 0 /\ log[p][j].retries = 0 => log[p][i].id < log[p][j].id

\* The whole pipeline: in the end every message is answered, or dropped, or held
\* where the code keeps it: in retry_handler's buffer, behind a watermark, below the
\* flush threshold, or in the channel of a partition whose coroutine ended.
Settles ==
  LET Held(T) ==
        Num(retry_buf, T) + NumIn([b \in Brokers |-> bp[b].m_buffer], T)
          + NumIn([x \in {y \in Partitions \X (Level \cup {-1}) :
                            pp[y[1]].pc = "dead" \/ pp[y[1]].m_high_watermark > 0} |->
                     IF x[2] = -1 THEN PartitionQueue[x[1]] ELSE RetryBuffer[x]], T)
  IN <>[](\A id \in 1..sent :
            id \in dropped \/ m_replies[<<id, FALSE>>] + m_replies[<<id, TRUE>>] = 1
              \/ Held(WithId({id})) = 1)
=============================================================================
