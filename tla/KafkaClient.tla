---------------------------- MODULE KafkaClient ----------------------------
(* The broker registry and the metadata cache of the Kafka client                *)
(* (src/src/coev_kafka/client.cpp, metadata_refresher.cpp) under several           *)
(* coroutines of one thread. A step is part of a run from one co_await to the       *)
(* next; `running` is the coroutine that has not suspended yet. Broker::Open is      *)
(* taken as KafkaBroker finds it: an open connection is reused, a closed one never    *)
(* opens again, and an opener that waited for another closes what that one opened.     *)
(* Every topic has one partition. A metadata response carries new Broker objects,       *)
(* so a registered broker is a node and a generation.                                    *)
EXTENDS Integers, Sequences, SequencesExt, FiniteSetsExt

CONSTANTS Users,    \* coroutines that look leaders up
          Groups,   \* coroutines that look a coordinator up; both refresh metadata
          Seeds,    \* seed brokers
          Nodes,    \* broker ids
          Topics,
          RetryMax, \* Metadata.Retry.Max
          MaxGen,   \* bound on the Broker objects made for a node
          MaxCalls  \* bound on the calls each coroutine makes

\* Broker ids are int32. A seed has no id of its own, so it is none of them.
MaxInt32 == 2 * (1024 * 1024 * 1024 - 1) + 1

ASSUME KafkaClientAssumption ==
  /\ Nodes \subseteq 1..MaxInt32 /\ Seeds \cap (Nodes \cup {0}) = {}
  /\ {RetryMax, MaxGen, MaxCalls} \subseteq Nat
  /\ IsFiniteSet(Seeds) /\ IsFiniteSet(Topics) /\ Topics # {}
  /\ "nobody" \notin Users \cup Groups

VARIABLES
  m_brokers,      \* node -> generation of its registered object, 0: none
  m_seed_brokers, \* seeds in use
  m_dead_seeds,   \* seeds that failed
  conn,           \* object -> "new", "opening", "up" or "dead"
  gens,           \* node -> generations made so far
  m_metadata,     \* topic -> leader of its partition, NoLeader, or Absent
  m_cached,       \* topic -> m_cached_partitions_results
  m_coordinator,  \* m_coordinators of the group: a node, or 0
  closed,         \* Close() was called
  running,        \* coroutine between two awaits, or NoOp
  op              \* op[p]: p's call and its locals

regVars == <<m_brokers, m_seed_brokers, m_dead_seeds, gens>>
metaVars == <<m_metadata, m_cached, m_coordinator>>
vars == <<regVars, conn, metaVars, closed, running, op>>

Ops == Users \cup Groups
NoOp == "nobody"
Absent == -1
NoLeader == 0
NoBroker == <<0, 0>>

Seed(s) == <<s, 0>>
Obj == {Seed(s) : s \in Seeds} \cup (Nodes \X (1..MaxGen))
Registered == {n \in Nodes : m_brokers[n] # 0}
Current(n) == <<n, m_brokers[n]>>

OpType ==
  [pc: {"idle", "pick", "seed", "none", "ask", "asked", "backoff", "cached",
        "dial", "queue", "opened"},
   kind: {"Refresh", "Leader", "LeaderAgain", "Coordinator", "CoordinatorAgain"},
   topics: SUBSET Topics,              \* asked for; {}: all of them
   topic: Topics,                      \* whose leader is looked up
   broker: Obj \cup {NoBroker},        \* the local `broker` of the retry loops
   target: Obj \cup {NoBroker},        \* the broker being opened
   why: {"least", "seed", "leader", "coordinator"}, ok: BOOLEAN,
   attempts: 0..RetryMax, calls: 0..MaxCalls]

NoCall ==
  [pc |-> "idle", kind |-> "Refresh", topics |-> {}, topic |-> CHOOSE t \in Topics : TRUE,
   broker |-> NoBroker, target |-> NoBroker, why |-> "least", ok |-> FALSE,
   attempts |-> 0, calls |-> 0]

TypeOK ==
  /\ m_brokers \in [Nodes -> 0..MaxGen] /\ gens \in [Nodes -> 0..MaxGen]
  /\ m_seed_brokers \in Seq(Seeds) /\ m_dead_seeds \in Seq(Seeds)
  /\ conn \in [Obj -> {"new", "opening", "up", "dead"}]
  /\ m_metadata \in [Topics -> Nodes \cup {NoLeader, Absent}]
  /\ m_cached \in [Topics -> {"none", "all", "writable"}]
  /\ m_coordinator \in Nodes \cup {0} /\ closed \in BOOLEAN
  /\ running \in Ops \cup {NoOp} /\ op \in [Ops -> OpType]

\* NewClient: the shuffled seeds; nothing known yet.
Init ==
  /\ m_brokers = [n \in Nodes |-> 0] /\ gens = [n \in Nodes |-> 0]
  /\ m_seed_brokers = SetToSeq(Seeds) /\ m_dead_seeds = <<>>
  /\ conn = [o \in Obj |-> "new"]
  /\ m_metadata = [t \in Topics |-> Absent] /\ m_cached = [t \in Topics |-> "none"]
  /\ m_coordinator = 0 /\ closed = FALSE
  /\ running = NoOp
  /\ op = [p \in Ops |-> NoCall]

\* Client::Closed().
Closed == Registered = {} /\ m_seed_brokers = <<>>

\* p goes on as r, or suspends as r, or its call returns.
Go(p, r) == op' = [op EXCEPT ![p] = r] /\ running' = p
Park(p, r) == op' = [op EXCEPT ![p] = r] /\ running' = NoOp
At(p, where) == running = p /\ op[p].pc = where
Wakes(p, where) == running = NoOp /\ op[p].pc = where

Returned(r) == [NoCall EXCEPT !.calls = r.calls]

\* The locals of Open are over.
Settled(r) == [r EXCEPT !.target = NoBroker, !.why = "least", !.ok = FALSE]

\* A refresh ends: LeaderAndEpoch looks a second time, other callers return.
RefreshEnds(p, ok) ==
  IF ok /\ op[p].kind = "Leader"
    THEN Go(p, [op[p] EXCEPT !.pc = "cached", !.kind = "LeaderAgain"])
    ELSE Park(p, Returned(op[p]))

\* FindCoordinator retries after a pause, while attempts are left.
BackOff(p) ==
  Park(p, IF op[p].attempts > 0 THEN [op[p] EXCEPT !.pc = "backoff"] ELSE Returned(op[p]))

-----------------------------------------------------------------------------
(* Entry points                                                                   *)

\* RefreshMetadata(topics): MetadataRefresher leaves out what was asked for or
\* answered less than m_refresh_interval_mininum ago, any of it as time is not
\* kept here; if nothing is left the request is for all topics.
Refresh(p, r, topics) ==
  \E ts \in SUBSET topics :
    Go(p, [r EXCEPT !.pc = "pick", !.topics = ts, !.broker = NoBroker, !.attempts = RetryMax])

Call(p) ==
  /\ Wakes(p, "idle") /\ op[p].calls < MaxCalls
  /\ LET r == [op[p] EXCEPT !.calls = @ + 1] IN
     \/ Closed /\ Park(p, Returned(r))
     \/ ~Closed /\ Refresh(p, r, Topics)
     \/ /\ ~Closed /\ p \in Users
        /\ \E t \in Topics : Go(p, [r EXCEPT !.pc = "cached", !.kind = "Leader", !.topic = t])
     \/ ~Closed /\ p \in Groups /\ Go(p, [r EXCEPT !.pc = "cached", !.kind = "Coordinator"])
  /\ UNCHANGED <<regVars, conn, metaVars, closed>>

\* Broker::Open(o): p goes on at "opened", or waits.
OpenBroker(p, r, o, why) ==
  LET q == [r EXCEPT !.target = o, !.why = why] IN
  \/ /\ conn[o] \in {"up", "dead"}
     /\ Go(p, [q EXCEPT !.pc = "opened", !.ok = (conn[o] = "up")]) /\ UNCHANGED conn
  \/ /\ conn[o] = "new"
     /\ Park(p, [q EXCEPT !.pc = "dial"]) /\ conn' = [conn EXCEPT ![o] = "opening"]
  \/ conn[o] = "opening" /\ Park(p, [q EXCEPT !.pc = "queue"]) /\ UNCHANGED conn

\* _CachedLeader, _CachedCoordinator: the registered broker is opened, or there is
\* none and the metadata, or the coordinator, is asked for.
Cached(p) ==
  LET why == IF op[p].kind \in {"Leader", "LeaderAgain"} THEN "leader" ELSE "coordinator"
      n == IF why = "leader" THEN m_metadata[op[p].topic] ELSE m_coordinator
  IN
  /\ At(p, "cached")
  /\ IF n \in Registered THEN OpenBroker(p, op[p], Current(n), why)
     ELSE /\ \/ op[p].kind = "Leader" /\ Closed /\ Park(p, Returned(op[p]))
             \/ op[p].kind = "Leader" /\ ~Closed /\ Refresh(p, op[p], {op[p].topic})
             \/ op[p].kind \in {"LeaderAgain", "CoordinatorAgain"} /\ Park(p, Returned(op[p]))
             \/ op[p].kind = "Coordinator" /\ Refresh(p, op[p], {})
          /\ UNCHANGED conn
  /\ UNCHANGED <<regVars, metaVars, closed>>

-----------------------------------------------------------------------------
(* Broker::Open's outcome                                                          *)

\* The dialler's connection is up, refused, or was closed meanwhile.
DialEnds(p) ==
  LET o == op[p].target IN
  /\ Wakes(p, "dial")
  /\ \E up \in BOOLEAN :
       /\ up => conn[o] = "opening"
       /\ conn' = [conn EXCEPT ![o] = IF up THEN "up" ELSE "dead"]
       /\ Go(p, [op[p] EXCEPT !.pc = "opened", !.ok = up])
  /\ UNCHANGED <<regVars, metaVars, closed>>

\* An opener that waited for another dials again, which closes the connection.
QueueEnds(p) ==
  /\ Wakes(p, "queue") /\ conn[op[p].target] # "opening"
  /\ conn' = [conn EXCEPT ![op[p].target] = "dead"]
  /\ Go(p, [op[p] EXCEPT !.pc = "opened", !.ok = FALSE])
  /\ UNCHANGED <<regVars, metaVars, closed>>

\* Mutant: the seed in front is moved, whichever failed.
MoveFrontSeed(s) ==
  /\ m_seed_brokers' = IF m_seed_brokers = <<>> THEN <<>> ELSE Tail(m_seed_brokers)
  /\ m_dead_seeds' = Append(m_dead_seeds, s)

\* LeastLoadedBroker, DeregisterBroker: the seed that failed, if it is in front.
MoveDeadSeed(s) ==
  IF m_seed_brokers # <<>> /\ Head(m_seed_brokers) = s
    THEN /\ m_seed_brokers' = Tail(m_seed_brokers)
         /\ m_dead_seeds' = Append(m_dead_seeds, s)
    ELSE UNCHANGED <<m_seed_brokers, m_dead_seeds>>

\* LeastLoadedBroker after its first Open: the broker is used, or a seed is tried.
LeastOpened(p) ==
  /\ At(p, "opened") /\ op[p].why = "least"
  /\ Go(p, [Settled(op[p]) EXCEPT !.pc = IF op[p].ok THEN "ask" ELSE "seed"])
  /\ UNCHANGED <<regVars, conn, metaVars, closed>>

\* LeastLoadedBroker after a seed's Open: a seed that fails is set aside and the
\* refresh fails with it; FindCoordinator goes on with the broker it has.
SeedOpened(p) ==
  /\ At(p, "opened") /\ op[p].why = "seed"
  /\ \/ /\ op[p].ok
        /\ Go(p, [Settled(op[p]) EXCEPT !.pc = "ask", !.broker = op[p].target])
        /\ UNCHANGED <<m_seed_brokers, m_dead_seeds>>
     \/ /\ ~op[p].ok
        /\ MoveDeadSeed(op[p].target[1])
        /\ IF op[p].kind = "Coordinator"
             THEN Go(p, [Settled(op[p]) EXCEPT !.pc = "none"])
             ELSE RefreshEnds(p, FALSE)
  /\ UNCHANGED <<m_brokers, gens, conn, metaVars, closed>>

\* _CachedLeader and GetCoordinator after Open. A leader that does not open is
\* looked up again after a refresh. (The iterators _CachedLeader keeps across the
\* await may dangle by now; it then returns whatever it reads.)
CachedOpened(p) ==
  /\ At(p, "opened") /\ op[p].why \in {"leader", "coordinator"}
  /\ IF op[p].kind = "Leader" /\ ~op[p].ok /\ ~Closed
       THEN Refresh(p, Settled(op[p]), {op[p].topic})
       ELSE Park(p, Returned(op[p]))
  /\ UNCHANGED <<regVars, conn, metaVars, closed>>

-----------------------------------------------------------------------------
(* LeastLoadedBroker                                                               *)

\* The registered broker with the largest id; else the one the loop had before.
Pick(p) ==
  LET o == IF Registered # {} THEN Current(Max(Registered)) ELSE op[p].broker IN
  /\ At(p, "pick")
  /\ IF o = NoBroker
       THEN Go(p, [op[p] EXCEPT !.pc = "seed"]) /\ UNCHANGED conn
       ELSE OpenBroker(p, [op[p] EXCEPT !.broker = o], o, "least")
  /\ UNCHANGED <<regVars, metaVars, closed>>

TrySeed(p) ==
  /\ At(p, "seed")
  /\ IF m_seed_brokers = <<>>
       THEN Go(p, [op[p] EXCEPT !.pc = "none"]) /\ UNCHANGED conn
       ELSE OpenBroker(p, op[p], Seed(Head(m_seed_brokers)), "seed")
  /\ UNCHANGED <<regVars, metaVars, closed>>

\* No broker opened. The loops go on with the broker of an earlier turn if there
\* is one. Else a refresh fails; FindCoordinator takes the dead seeds back and
\* retries after a pause.
NoneOpened(p) ==
  /\ At(p, "none")
  /\ \/ /\ op[p].broker # NoBroker
        /\ Go(p, [op[p] EXCEPT !.pc = "ask"])
        /\ UNCHANGED <<m_seed_brokers, m_dead_seeds>>
     \/ /\ op[p].broker = NoBroker /\ op[p].kind # "Coordinator"
        /\ RefreshEnds(p, FALSE)
        /\ UNCHANGED <<m_seed_brokers, m_dead_seeds>>
     \/ /\ op[p].broker = NoBroker /\ op[p].kind = "Coordinator"
        /\ m_seed_brokers' = m_seed_brokers \o m_dead_seeds /\ m_dead_seeds' = <<>>
        /\ BackOff(p)
  /\ UNCHANGED <<m_brokers, gens, conn, metaVars, closed>>

-----------------------------------------------------------------------------
(* The request and its answer                                                      *)

\* DeregisterBroker(b): by the id of b, whichever object is registered under it.
Deregister(b) ==
  IF b[1] \in Nodes
    THEN /\ m_brokers' = [m_brokers EXCEPT ![b[1]] = 0]
         /\ UNCHANGED <<m_seed_brokers, m_dead_seeds>>
    ELSE MoveDeadSeed(b[1]) /\ UNCHANGED m_brokers

\* A request failed: the broker is closed and deregistered and the loop turns.
RequestFailed(p) ==
  /\ conn' = [conn EXCEPT ![op[p].broker] = "dead"]
  /\ Deregister(op[p].broker)
  /\ Go(p, [op[p] EXCEPT !.pc = "pick"])

\* The request goes out, or fails at once on a closed connection.
Ask(p) ==
  /\ At(p, "ask")
  /\ \/ /\ conn[op[p].broker] \in {"up", "opening"}
        /\ Park(p, [op[p] EXCEPT !.pc = "asked"])
        /\ UNCHANGED <<regVars, conn>>
     \/ /\ conn[op[p].broker] \in {"new", "dead"}
        /\ RequestFailed(p) /\ UNCHANGED gens
  /\ UNCHANGED <<metaVars, closed>>

\* Mutant: the deadline is looked at only before the first request.
PastDeadlineOnce(p) ==
  /\ At(p, "ask") /\ op[p].kind # "Coordinator" /\ op[p].broker = NoBroker
  /\ RefreshEnds(p, FALSE)
  /\ UNCHANGED <<regVars, conn, metaVars, closed>>

\* TryRefreshMetadata gives up before a request when Metadata.Timeout has passed.
PastDeadline(p) ==
  /\ At(p, "ask") /\ op[p].kind # "Coordinator"
  /\ RefreshEnds(p, FALSE)
  /\ UNCHANGED <<regVars, conn, metaVars, closed>>

\* The connection fails under a request, the response names no broker, or it does
\* not decode: then the call ends.
AnswerFails(p) ==
  /\ Wakes(p, "asked")
  /\ \/ RequestFailed(p)
     \/ op[p].kind # "Coordinator" /\ RefreshEnds(p, FALSE) /\ UNCHANGED <<m_brokers, m_seed_brokers, m_dead_seeds, conn>>
  /\ UNCHANGED <<gens, metaVars, closed>>

\* UpdateBroker: unknown nodes are registered, moved ones replaced, missing ones
\* removed; what is replaced or removed is closed if it is connected.
UpdateBroker(nodes, moved) ==
  LET new == {n \in nodes : n \notin Registered \/ n \in moved}
      out == {Current(n) : n \in Registered \cap (new \cup (Nodes \ nodes))}
  IN
  /\ \A n \in new : gens[n] < MaxGen
  /\ gens' = [n \in Nodes |-> IF n \in new THEN gens[n] + 1 ELSE gens[n]]
  /\ m_brokers' = [n \in Nodes |-> IF n \in new THEN gens[n] + 1
                                   ELSE IF n \in nodes THEN m_brokers[n] ELSE 0]
  /\ conn' = [o \in Obj |-> IF o \in out /\ conn[o] = "up" THEN "dead" ELSE conn[o]]

\* _SetPartitionCache for both lists.
SetPartitionCache(leader) ==
  IF leader = Absent THEN "none" ELSE IF leader = NoLeader THEN "all" ELSE "writable"

\* Mutant: the cache of a topic is kept when the answer has none of its partitions.
UpdateTopicsKept(ts, all, told) ==
  LET known == IF all THEN [t \in Topics |-> Absent] ELSE m_metadata IN
  /\ m_metadata' = [t \in Topics |-> IF t \in ts THEN told[t] ELSE known[t]]
  /\ m_cached' = [t \in Topics |-> IF t \in ts /\ told[t] # Absent THEN SetPartitionCache(told[t])
                                   ELSE m_cached[t]]

\* UpdateMetadata: the topics told replace what was known, all of it if `all`.
UpdateTopics(ts, all, told) ==
  LET known == IF all THEN [t \in Topics |-> Absent] ELSE m_metadata IN
  /\ m_metadata' = [t \in Topics |-> IF t \in ts THEN told[t] ELSE known[t]]
  /\ m_cached' = [t \in Topics |-> IF t \in ts THEN SetPartitionCache(told[t])
                                   ELSE IF all THEN "none" ELSE m_cached[t]]

\* The metadata response: each topic asked for has a leader, none for now, or an
\* error. Unknown and leaderless topics are asked for again after a pause, while
\* attempts and time are left.
Answered(p) ==
  LET all == op[p].topics = {}
      ts == IF all THEN Topics ELSE op[p].topics
  IN
  /\ Wakes(p, "asked") /\ op[p].kind # "Coordinator" /\ conn[op[p].broker] = "up"
  /\ IF Closed THEN RefreshEnds(p, TRUE) /\ UNCHANGED <<m_brokers, gens, conn, metaVars>>
     ELSE \E nodes \in SUBSET Nodes \ {{}} : \E moved \in SUBSET nodes,
             told \in [ts -> Nodes \cup {NoLeader, Absent}], again \in BOOLEAN :
       /\ UpdateBroker(nodes, moved)
       /\ UpdateTopics(ts, all, told)
       /\ again => \E t \in ts : told[t] \in {NoLeader, Absent}
       /\ (\E t \in ts : told[t] = NoLeader) => again
       /\ IF ~again THEN RefreshEnds(p, TRUE)
          ELSE \/ RefreshEnds(p, FALSE)
               \/ op[p].attempts > 0 /\ Park(p, [op[p] EXCEPT !.pc = "backoff"])
       /\ UNCHANGED m_coordinator
  /\ UNCHANGED <<m_seed_brokers, m_dead_seeds, closed>>

\* RegisterBroker, after the answer to FindCoordinator.
RegisterBroker(n, moved) ==
  IF Closed \/ (n \in Registered /\ ~moved) THEN UNCHANGED <<m_brokers, gens, conn>>
  ELSE /\ gens[n] < MaxGen
       /\ gens' = [gens EXCEPT ![n] = @ + 1]
       /\ m_brokers' = [m_brokers EXCEPT ![n] = gens[n] + 1]
       /\ conn' = [o \in Obj |-> IF n \in Registered /\ o = Current(n) /\ conn[o] = "up"
                                 THEN "dead" ELSE conn[o]]

\* FindCoordinator's response: a node, or an error that is retried or returned. (When
\* there is no coordinator yet, FindCoordinator calls Leader() for the offsets' topic
\* before its pause and only the pause depends on the outcome: here that call is one of
\* Users, made while the group waits.)
CoordinatorAnswered(p) ==
  /\ Wakes(p, "asked") /\ op[p].kind = "Coordinator" /\ conn[op[p].broker] = "up"
  /\ \/ \E n \in Nodes, moved \in BOOLEAN :
          /\ RegisterBroker(n, moved)
          /\ m_coordinator' = n
          /\ Go(p, [op[p] EXCEPT !.pc = "cached", !.kind = "CoordinatorAgain"])
     \/ /\ BackOff(p)
        /\ UNCHANGED <<m_brokers, gens, conn, m_coordinator>>
     \/ /\ Park(p, Returned(op[p]))
        /\ UNCHANGED <<m_brokers, gens, conn, m_coordinator>>
  /\ UNCHANGED <<m_seed_brokers, m_dead_seeds, m_metadata, m_cached, closed>>

\* RetryRefreshMetadata and FindCoordinator's retry after the pause: another turn,
\* or nothing if another refresh was sent meanwhile.
Retry(p) ==
  /\ Wakes(p, "backoff")
  /\ \/ Go(p, [op[p] EXCEPT !.pc = "pick", !.broker = NoBroker, !.attempts = @ - 1])
     \/ op[p].kind # "Coordinator" /\ RefreshEnds(p, FALSE)
  /\ UNCHANGED <<regVars, conn, metaVars, closed>>

\* Client::Close, called once: the seeds stay, and so does the partition cache.
Close ==
  /\ running = NoOp /\ ~Closed /\ ~closed
  /\ conn' = [o \in Obj |->
                IF conn[o] = "up" /\ (o \in {Current(n) : n \in Registered}
                                        \/ o \in {Seed(s) : s \in ToSet(m_seed_brokers)})
                THEN "dead" ELSE conn[o]]
  /\ m_brokers' = [n \in Nodes |-> 0] /\ m_dead_seeds' = <<>>
  /\ m_metadata' = [t \in Topics |-> Absent]
  /\ closed' = TRUE
  /\ UNCHANGED <<m_seed_brokers, gens, m_cached, m_coordinator, running, op>>

Step(p) ==
  \/ Cached(p) \/ LeastOpened(p) \/ SeedOpened(p) \/ CachedOpened(p)
  \/ Pick(p) \/ TrySeed(p) \/ NoneOpened(p) \/ Ask(p) \/ PastDeadline(p)

Event(p) ==
  \/ DialEnds(p) \/ QueueEnds(p) \/ AnswerFails(p) \/ Answered(p)
  \/ CoordinatorAnswered(p) \/ Retry(p)

Next == Close \/ \E p \in Ops : Call(p) \/ Step(p) \/ Event(p)

\* Coroutines run, sockets and timers fire, and time passes: a loop that turns
\* often enough finds its deadline behind it.
Fairness ==
  /\ WF_vars(\E p \in Ops : Step(p))
  /\ \A p \in Ops : WF_vars(Event(p))
  /\ \A p \in Ops : SF_vars(PastDeadline(p))

Spec == Init /\ [][Next]_vars /\ Fairness

-----------------------------------------------------------------------------
(* Properties                                                                      *)

\* LeastLoadedBroker and DeregisterBroker (client.cpp 619-633, 662-677): until
\* Close() every seed is in use or dead, once, whatever other coroutines did to
\* the lists while a seed was being opened.
SeedsConserved ==
  LET all == m_seed_brokers \o m_dead_seeds IN
  ~closed => ToSet(all) = Seeds /\ IsInjective(all)

\* DeregisterBroker, ResurrectDeadBrokers (client.cpp 619-641): a seed is set aside
\* only with its connection closed, so the client is Closed() without Close() only
\* when no broker it was given can be used again.
ClosedMeansAllDead ==
  /\ \A s \in ToSet(m_dead_seeds) : conn[Seed(s)] = "dead"
  /\ Closed /\ ~closed => \A s \in Seeds : conn[Seed(s)] = "dead"

\* The seeds as a whole, the types included: none is lost, doubled or set aside alive.
SeedsSafe ==
  /\ TypeOK
  /\ SeedsConserved
  /\ ClosedMeansAllDead

\* UpdateMetadata (client.cpp 956-1021): until Close() the cached partition lists
\* are those of the metadata, after full, partial and failed refreshes alike.
CacheMatchesMetadata ==
  ~closed => \A t \in Topics : m_cached[t] = SetPartitionCache(m_metadata[t])

\* TryRefreshMetadata (client.cpp 872-954): a refresh, and the lookup of a leader,
\* ends: at the latest when Metadata.Timeout has passed.
RefreshEndsInTime ==
  \A p \in Users \ Groups :
    op[p].pc # "idle" ~> op[p].pc = "idle" \/ \E q \in Groups : op[q].kind = "Coordinator"
=============================================================================
