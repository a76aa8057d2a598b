------------------------- MODULE KafkaClientProofs --------------------------
(* The Kafka client's registry for any number of coroutines, seeds, nodes and     *)
(* topics: no seed is lost, doubled or set aside alive, and until Close() the       *)
(* partition cache is that of the metadata.                                          *)
EXTENDS KafkaClient, FiniteSetTheorems, TLAPS

(***************************************************************************)
(* The inductive invariant                                                   *)
(***************************************************************************)

(* What a call's locals promise the steps that use them.                           *)
Sound(r) ==
  /\ r.pc \in {"dial", "queue", "opened"} =>
       /\ r.target \in Obj
       /\ r.why = "seed" => \E s \in Seeds : r.target = Seed(s)
       /\ r.why = "least" => r.broker \in Obj
  /\ r.pc \in {"ask", "asked"} => r.broker \in Obj
  /\ r.pc = "backoff" => r.attempts > 0

(* Whoever has just opened a broker has not suspended since, so that a broker that   *)
(* did not open is still closed.                                                       *)
OpOK(p) ==
  /\ Sound(op[p])
  /\ op[p].pc = "opened" => running = p /\ (op[p].ok \/ conn[op[p].target] = "dead")

DeadSeeds == \A s \in ToSet(m_dead_seeds) : conn[Seed(s)] = "dead"

Inv ==
  /\ TypeOK
  /\ SeedsConserved
  /\ DeadSeeds
  /\ \A p \in Ops : OpOK(p)

(***************************************************************************)
(* Sequences without duplicates                                              *)
(***************************************************************************)
LEMMA ConcatSet ==
  ASSUME NEW S, NEW a \in Seq(S), NEW d \in Seq(S)
  PROVE  /\ ToSet(a \o d) = ToSet(a) \cup ToSet(d)
         /\ IsInjective(a \o d) <=> /\ IsInjective(a) /\ IsInjective(d)
                                    /\ ToSet(a) \cap ToSet(d) = {}
<1>1. PICK m \in Nat, n \in Nat, c \in Seq(S) : m = Len(a) /\ n = Len(d) /\ c = a \o d
  <2>1. Len(a) \in Nat /\ Len(d) \in Nat /\ a \o d \in Seq(S)
    OBVIOUS
  <2> QED BY <2>1, Zenon
<1>2. /\ DOMAIN a = 1..m /\ DOMAIN d = 1..n /\ DOMAIN c = 1..(m + n)
      /\ \A i \in 1..m : c[i] = a[i]
      /\ \A i \in 1..(m + n) : i > m => c[i] = d[i - m]
  BY <1>1
<1>3. \A i \in 1..n : i + m \in 1..(m + n) /\ i + m > m /\ c[i + m] = d[i]
  <2> SUFFICES ASSUME NEW i \in 1..n
               PROVE  i + m \in 1..(m + n) /\ i + m > m /\ c[i + m] = d[i]
    OBVIOUS
  <2>1. i + m \in 1..(m + n) /\ i + m > m /\ (i + m) - m = i
    OBVIOUS
  <2> QED BY <1>2, <2>1
<1>4. ToSet(c) = ToSet(a) \cup ToSet(d)
  <2>1. ASSUME NEW x \in ToSet(c) PROVE x \in ToSet(a) \cup ToSet(d)
    <3>1. PICK i \in 1..(m + n) : x = c[i]
      BY <1>2, <2>1 DEF ToSet
    <3>2. CASE i <= m
      <4>1. i \in 1..m
        BY <3>2
      <4> QED BY <1>2, <3>1, <4>1 DEF ToSet
    <3>3. CASE i > m
      <4>1. i - m \in 1..n
        BY <3>3
      <4> QED BY <1>2, <3>1, <3>3, <4>1 DEF ToSet
    <3> QED BY <3>2, <3>3
  <2>2. ASSUME NEW x \in ToSet(a) PROVE x \in ToSet(c)
    <3>1. PICK i \in 1..m : x = a[i]
      BY <1>2, <2>2 DEF ToSet
    <3>2. i \in 1..(m + n)
      OBVIOUS
    <3> QED BY <1>2, <3>1, <3>2 DEF ToSet
  <2>3. ASSUME NEW x \in ToSet(d) PROVE x \in ToSet(c)
    <3>1. PICK i \in 1..n : x = d[i]
      BY <1>2, <2>3 DEF ToSet
    <3> QED BY <1>2, <1>3, <3>1 DEF ToSet
  <2> QED BY <2>1, <2>2, <2>3
<1>5. ASSUME IsInjective(c)
      PROVE  IsInjective(a) /\ IsInjective(d) /\ ToSet(a) \cap ToSet(d) = {}
  <2>1. \A i, j \in 1..(m + n) : c[i] = c[j] => i = j
    BY <1>2, <1>5 DEF IsInjective
  <2>2. IsInjective(a)
    <3>1. \A i \in 1..m : i \in 1..(m + n)
      OBVIOUS
    <3> QED BY <1>2, <2>1, <3>1 DEF IsInjective
  <2>3. IsInjective(d)
    <3>1. ASSUME NEW i \in 1..n, NEW j \in 1..n, d[i] = d[j] PROVE i = j
      <4>1. i + m = j + m
        BY <1>3, <2>1, <3>1
      <4> QED BY <4>1
    <3> QED BY <1>2, <3>1 DEF IsInjective
  <2>4. ASSUME NEW x \in ToSet(a), x \in ToSet(d) PROVE FALSE
    <3>1. PICK i \in 1..m, j \in 1..n : a[i] = x /\ d[j] = x
      BY <1>2, <2>4 DEF ToSet
    <3>2. i \in 1..(m + n) /\ j + m \in 1..(m + n) /\ i # j + m
      OBVIOUS
    <3>3. c[i] = x /\ c[j + m] = x
      BY <1>2, <1>3, <3>1
    <3> QED BY <2>1, <3>2, <3>3
  <2> QED BY <2>2, <2>3, <2>4
<1>6. ASSUME IsInjective(a), IsInjective(d), ToSet(a) \cap ToSet(d) = {}
      PROVE  IsInjective(c)
  <2>1. /\ \A i, j \in 1..m : a[i] = a[j] => i = j
        /\ \A i, j \in 1..n : d[i] = d[j] => i = j
        /\ \A i \in 1..m, j \in 1..n : a[i] # d[j]
    <3>1. /\ \A i, j \in 1..m : a[i] = a[j] => i = j
          /\ \A i, j \in 1..n : d[i] = d[j] => i = j
      BY <1>2, <1>6 DEF IsInjective
    <3>2. (\A i \in 1..m : a[i] \in ToSet(a)) /\ \A j \in 1..n : d[j] \in ToSet(d)
      BY <1>2 DEF ToSet
    <3> QED BY <1>6, <3>1, <3>2
  <2>2. ASSUME NEW i \in 1..(m + n), NEW j \in 1..(m + n), c[i] = c[j] PROVE i = j
    <3>1. CASE i <= m /\ j <= m
      <4>1. i \in 1..m /\ j \in 1..m
        BY <3>1
      <4> QED BY <1>2, <2>1, <2>2, <4>1
    <3>2. CASE i > m /\ j > m
      <4>1. i - m \in 1..n /\ j - m \in 1..n
        BY <3>2
      <4>2. i - m = j - m
        BY <1>2, <2>1, <2>2, <3>2, <4>1
      <4> QED BY <4>2
    <3>3. CASE i <= m /\ j > m
      <4>1. i \in 1..m /\ j - m \in 1..n
        BY <3>3
      <4> QED BY <1>2, <2>1, <2>2, <3>3, <4>1
    <3>4. CASE i > m /\ j <= m
      <4>1. j \in 1..m /\ i - m \in 1..n
        BY <3>4
      <4> QED BY <1>2, <2>1, <2>2, <3>4, <4>1
    <3> QED BY <3>1, <3>2, <3>3, <3>4
  <2> QED BY <1>2, <2>2 DEF IsInjective
<1> QED BY <1>1, <1>4, <1>5, <1>6

LEMMA SingletonSet ==
  ASSUME NEW S, NEW x \in S
  PROVE  <<x>> \in Seq(S) /\ ToSet(<<x>>) = {x} /\ IsInjective(<<x>>)
<1>1. PICK u \in Seq(S) : u = <<x>> /\ DOMAIN u = 1..1 /\ u[1] = x
  <2>1. <<x>> \in Seq(S) /\ DOMAIN <<x>> = 1..1 /\ <<x>>[1] = x
    OBVIOUS
  <2> QED BY <2>1, Zenon
<1>2. \A i \in 1..1 : i = 1
  OBVIOUS
<1>3. ToSet(u) = {x}
  BY <1>1, <1>2 DEF ToSet
<1>4. IsInjective(u)
  BY <1>1, <1>2 DEF IsInjective
<1> QED BY <1>1, <1>3, <1>4

(* Moving the head of one sequence to the end of another keeps the whole.            *)
LEMMA MoveHead ==
  ASSUME NEW S, NEW a \in Seq(S), NEW d \in Seq(S), a # <<>>
  PROVE  /\ Tail(a) \in Seq(S) /\ Head(a) \in S /\ Append(d, Head(a)) \in Seq(S)
         /\ ToSet(Append(d, Head(a))) = ToSet(d) \cup {Head(a)}
         /\ ToSet(Tail(a) \o Append(d, Head(a))) = ToSet(a \o d)
         /\ IsInjective(a \o d) => IsInjective(Tail(a) \o Append(d, Head(a)))
<1>1. PICK h \in S, t \in Seq(S), u \in Seq(S), v \in Seq(S) :
         h = Head(a) /\ t = Tail(a) /\ u = <<h>> /\ v = Append(d, h)
  <2>1. PICK h \in S, t \in Seq(S) : h = Head(a) /\ t = Tail(a)
    <3>1. Head(a) \in S /\ Tail(a) \in Seq(S)
      OBVIOUS
    <3> QED BY <3>1, Zenon
  <2>2. <<h>> \in Seq(S) /\ Append(d, h) \in Seq(S)
    OBVIOUS
  <2> QED BY <2>1, <2>2, Zenon
<1>2. a = u \o t /\ v = d \o u
  BY <1>1
<1>3. ToSet(u) = {h} /\ IsInjective(u)
  BY <1>1, SingletonSet
<1>4. /\ ToSet(a) = {h} \cup ToSet(t)
      /\ IsInjective(a) => IsInjective(t) /\ h \notin ToSet(t)
  BY <1>2, <1>3, ConcatSet
<1>5. /\ ToSet(v) = ToSet(d) \cup {h}
      /\ IsInjective(d) /\ h \notin ToSet(d) => IsInjective(v)
  BY <1>2, <1>3, ConcatSet
<1>6. ToSet(t \o v) = ToSet(t) \cup ToSet(v) /\ ToSet(a \o d) = ToSet(a) \cup ToSet(d)
  BY ConcatSet
<1>7. ASSUME IsInjective(a \o d) PROVE IsInjective(t \o v)
  <2>1. IsInjective(a) /\ IsInjective(d) /\ ToSet(a) \cap ToSet(d) = {}
    BY <1>7, ConcatSet
  <2>2. IsInjective(t) /\ IsInjective(v) /\ ToSet(t) \cap ToSet(v) = {}
    BY <1>4, <1>5, <2>1
  <2> QED BY <2>2, ConcatSet
<1> QED BY <1>1, <1>4, <1>5, <1>6, <1>7

(* SetToSeq of a finite set has every element once.                                   *)
LEMMA SetToSeqOK ==
  ASSUME NEW S, IsFiniteSet(S)
  PROVE  /\ SetToSeq(S) \in Seq(S) /\ ToSet(SetToSeq(S)) = S
         /\ IsInjective(SetToSeq(S))
<1>1. PICK n \in Nat : n = Cardinality(S) /\ ExistsBijection(1..n, S)
  BY FS_CardinalityType
<1>2. \E f \in [1..n -> S] : IsInjective(f)
  BY <1>1 DEF ExistsBijection, Bijection, Injection
<1>3. PICK f \in [1..n -> S] : f = SetToSeq(S) /\ IsInjective(f)
  BY <1>1, <1>2 DEF SetToSeq
<1>4. ToSet(f) = S
  <2>1. ToSet(f) \subseteq S
    BY DEF ToSet
  <2>2. f \in Bijection(1..n, ToSet(f))
    <3>1. f \in [1..n -> ToSet(f)] /\ \A x \in ToSet(f) : \E i \in 1..n : f[i] = x
      BY DEF ToSet
    <3> QED BY <1>3, <3>1 DEF Bijection, Injection, Surjection, IsInjective
  <2>3. Cardinality(ToSet(f)) = n
    BY <2>2, FS_CountingElements DEF ExistsBijection
  <2> QED BY <1>1, <2>1, <2>3, FS_Subset
<1> QED BY <1>3, <1>4

(* A bounded set of naturals has a largest element.                                     *)
LEMMA MaxIn ==
  ASSUME NEW N \in Nat, NEW S \in SUBSET (1..N), S # {}
  PROVE  Max(S) \in S
<1> DEFINE T == {N - x : x \in S}
<1>1. T \subseteq Nat /\ T # {}
  <2>1. \A x \in S : x \in 1..N
    OBVIOUS
  <2>2. \A x \in 1..N : N - x \in Nat
    OBVIOUS
  <2> QED BY <2>1, <2>2
<1>2. \E y \in T : \A z \in T : ~(<<z, y>> \in OpToRel(<, Nat))
  BY <1>1, NatLessThanWellFounded, WFMin
<1>3. PICK y \in T : \A z \in T : ~(z < y)
  BY <1>1, <1>2 DEF OpToRel
<1>4. PICK x \in S : y = N - x
  OBVIOUS
<1>5. \A w \in S : x >= w
  BY <1>3, <1>4
<1> QED BY <1>5 DEF Max

(***************************************************************************)
(* The parts of a step                                                       *)
(***************************************************************************)
LEMMA OpTypes ==
  ASSUME TypeOK, NEW p \in Ops
  PROVE  /\ op[p] \in OpType
         /\ op[p].pc \in {"idle", "pick", "seed", "none", "ask", "asked", "backoff", "cached",
                          "dial", "queue", "opened"}
         /\ op[p].kind \in {"Refresh", "Leader", "LeaderAgain", "Coordinator", "CoordinatorAgain"}
         /\ op[p].topics \in SUBSET Topics /\ op[p].topic \in Topics
         /\ op[p].broker \in Obj \cup {NoBroker} /\ op[p].target \in Obj \cup {NoBroker}
         /\ op[p].why \in {"least", "seed", "leader", "coordinator"} /\ op[p].ok \in BOOLEAN
         /\ op[p].attempts \in 0..RetryMax /\ op[p].calls \in 0..MaxCalls
<1>1. op[p] \in OpType
  BY DEF TypeOK
<1> QED BY <1>1 DEF OpType

(* p suspends or goes on as r.                                                         *)
Turn(p, r) ==
  /\ r \in OpType /\ Sound(r)
  /\ op' = [op EXCEPT ![p] = r] /\ running' \in {p, NoOp}
  /\ r.pc = "opened" => running' = p /\ (r.ok \/ conn'[r.target] = "dead")

Turns(p) == \E r : Turn(p, r)

LEMMA TurnOK ==
  ASSUME Inv, NEW p \in Ops, running \in {p, NoOp}, Turns(p)
  PROVE  /\ op' \in [Ops -> OpType] /\ running' \in Ops \cup {NoOp}
         /\ \A q \in Ops : OpOK(q)'
<1>1. PICK r : Turn(p, r)
  BY DEF Turns
<1>2. op' = [op EXCEPT ![p] = r] /\ r \in OpType /\ op \in [Ops -> OpType]
  BY <1>1 DEF Turn, Inv, TypeOK
<1>3. op' \in [Ops -> OpType] /\ op'[p] = r /\ \A q \in Ops : q # p => op'[q] = op[q]
  BY <1>2
<1>4. OpOK(p)'
  BY <1>1, <1>3, SMT DEF Turn, OpOK, Sound
<1>5. ASSUME NEW q \in Ops, q # p PROVE OpOK(q)'
  <2>1. OpOK(q) /\ running # q
    BY <1>5, KafkaClientAssumption DEF Inv, NoOp, Ops
  <2>2. Sound(op[q]) /\ op[q].pc # "opened" /\ op'[q] = op[q]
    BY <1>3, <1>5, <2>1 DEF OpOK
  <2> QED BY <2>2 DEF OpOK, Sound
<1> QED BY <1>1, <1>3, <1>4, <1>5 DEF Turn

(* A closed connection stays closed.                                                  *)
ConnOK ==
  /\ conn' \in [Obj -> {"new", "opening", "up", "dead"}]
  /\ \A o \in Obj : conn[o] = "dead" => conn'[o] = "dead"

LEMMA ConnUnchanged ==
  ASSUME TypeOK, UNCHANGED conn
  PROVE  ConnOK
BY DEF TypeOK, ConnOK

LEMMA ConnSet ==
  ASSUME TypeOK, NEW o, NEW v \in {"new", "opening", "up", "dead"},
         conn' = [conn EXCEPT ![o] = v], o \in Obj /\ v # "dead" => conn[o] # "dead"
  PROVE  ConnOK
BY DEF TypeOK, ConnOK

(* The constructors of the locals.                                                    *)
LEMMA ReturnedType ==
  ASSUME NEW r \in OpType
  PROVE  Returned(r) \in OpType /\ Returned(r).pc = "idle"
<1>1. r.calls \in 0..MaxCalls /\ 0 \in 0..RetryMax /\ 0 \in 0..MaxCalls
  BY KafkaClientAssumption DEF OpType
<1>2. (CHOOSE t \in Topics : TRUE) \in Topics
  BY KafkaClientAssumption
<1>3. PICK c \in 0..MaxCalls, t \in Topics : c = r.calls /\ t = (CHOOSE x \in Topics : TRUE)
  BY <1>1, <1>2
<1>4. Returned(r) = [NoCall EXCEPT !.calls = c]
  BY <1>3 DEF Returned
<1>5. NoCall = [pc |-> "idle", kind |-> "Refresh", topics |-> {}, topic |-> t,
                broker |-> NoBroker, target |-> NoBroker, why |-> "least", ok |-> FALSE,
                attempts |-> 0, calls |-> 0]
  BY <1>3 DEF NoCall
<1> QED BY <1>1, <1>4, <1>5 DEF OpType

LEMMA SettledType ==
  ASSUME NEW r \in OpType
  PROVE  /\ Settled(r) \in OpType /\ Settled(r).pc = r.pc /\ Settled(r).broker = r.broker
         /\ Settled(r).kind = r.kind /\ Settled(r).topic = r.topic
         /\ Settled(r).attempts = r.attempts
BY DEF Settled, OpType

LEMMA ReturnTurn ==
  ASSUME NEW p \in Ops, NEW r \in OpType, Park(p, Returned(r))
  PROVE  Turns(p)
<1>1. PICK k \in OpType : k = Returned(r) /\ k.pc = "idle"
  BY ReturnedType
<1>2. Turn(p, k)
  BY <1>1 DEF Turn, Park, Sound
<1> QED BY <1>2 DEF Turns

LEMMA RefreshEndsTurn ==
  ASSUME TypeOK, NEW p \in Ops, NEW ok, RefreshEnds(p, ok)
  PROVE  Turns(p)
<1>1. CASE Park(p, Returned(op[p]))
  BY <1>1, OpTypes, ReturnTurn
<1>2. CASE Go(p, [op[p] EXCEPT !.pc = "cached", !.kind = "LeaderAgain"])
  <2>1. PICK k : k = [op[p] EXCEPT !.pc = "cached", !.kind = "LeaderAgain"]
    OBVIOUS
  <2>a. op[p] \in OpType
    BY OpTypes
  <2>2. k \in OpType /\ k.pc = "cached"
    BY <2>1, <2>a DEF OpType
  <2>3. Turn(p, k)
    BY <1>2, <2>1, <2>2 DEF Turn, Go, Sound
  <2> QED BY <2>3 DEF Turns
<1> QED BY <1>1, <1>2 DEF RefreshEnds

LEMMA BackOffTurn ==
  ASSUME TypeOK, NEW p \in Ops, BackOff(p)
  PROVE  Turns(p)
<1>1. CASE Park(p, Returned(op[p]))
  BY <1>1, OpTypes, ReturnTurn
<1>2. CASE op[p].attempts > 0 /\ Park(p, [op[p] EXCEPT !.pc = "backoff"])
  <2>1. PICK k : k = [op[p] EXCEPT !.pc = "backoff"]
    OBVIOUS
  <2>2. k \in OpType /\ k.pc = "backoff" /\ k.attempts = op[p].attempts
    BY <2>1, OpTypes DEF OpType
  <2>3. Turn(p, k)
    BY <1>2, <2>1, <2>2 DEF Turn, Park, Sound
  <2> QED BY <2>3 DEF Turns
<1> QED BY <1>1, <1>2 DEF BackOff

LEMMA RefreshTurn ==
  ASSUME NEW p \in Ops, NEW r \in OpType, NEW topics \in SUBSET Topics, Refresh(p, r, topics)
  PROVE  Turns(p)
<1>1. PICK ts \in SUBSET topics :
        Go(p, [r EXCEPT !.pc = "pick", !.topics = ts, !.broker = NoBroker, !.attempts = RetryMax])
  BY DEF Refresh
<1>2. PICK k : k = [r EXCEPT !.pc = "pick", !.topics = ts, !.broker = NoBroker, !.attempts = RetryMax]
  OBVIOUS
<1>3. ts \in SUBSET Topics /\ RetryMax \in 0..RetryMax
  BY KafkaClientAssumption
<1>4. k \in OpType /\ k.pc = "pick"
  BY <1>2, <1>3 DEF OpType
<1>5. Turn(p, k)
  BY <1>1, <1>2, <1>4 DEF Turn, Go, Sound
<1> QED BY <1>5 DEF Turns

LEMMA OpenTurn ==
  ASSUME TypeOK, NEW p \in Ops, NEW r \in OpType, NEW o \in Obj,
         NEW why \in {"least", "seed", "leader", "coordinator"},
         why = "seed" => \E s \in Seeds : o = Seed(s),
         why = "least" => r.broker \in Obj,
         OpenBroker(p, r, o, why)
  PROVE  Turns(p) /\ ConnOK
<1>1. PICK q : q = [r EXCEPT !.target = o, !.why = why]
  OBVIOUS
<1>2. q \in OpType /\ q.target = o /\ q.why = why /\ q.broker = r.broker
  BY <1>1 DEF OpType
<1>3. CASE /\ conn[o] \in {"up", "dead"}
           /\ Go(p, [q EXCEPT !.pc = "opened", !.ok = (conn[o] = "up")]) /\ UNCHANGED conn
  <2>1. PICK up \in BOOLEAN : up = (conn[o] = "up")
    BY Zenon
  <2>2. PICK k : k = [q EXCEPT !.pc = "opened", !.ok = up]
    OBVIOUS
  <2>3. k \in OpType /\ k.pc = "opened" /\ k.ok = up /\ k.target = o /\ k.why = why
        /\ k.broker = r.broker
    <3>1. k \in OpType
      BY <1>2, <2>2 DEF OpType
    <3>2. k.pc = "opened" /\ k.ok = up
      BY <1>2, <2>2 DEF OpType
    <3>3. k.target = o /\ k.why = why /\ k.broker = r.broker
      BY <1>2, <2>2 DEF OpType
    <3> QED BY <3>1, <3>2, <3>3
  <2>4. op' = [op EXCEPT ![p] = k] /\ running' = p /\ conn' = conn
    BY <1>3, <2>1, <2>2 DEF Go
  <2>5. k.ok \/ conn'[k.target] = "dead"
    BY <1>3, <2>1, <2>3, <2>4
  <2>6. Turn(p, k)
    BY <2>3, <2>4, <2>5 DEF Turn, Sound
  <2> QED BY <2>4, <2>6, ConnUnchanged DEF Turns
<1>4. ASSUME NEW where \in {"dial", "queue"}, Park(p, [q EXCEPT !.pc = where])
      PROVE  Turns(p)
  <2>1. PICK k : k = [q EXCEPT !.pc = where]
    OBVIOUS
  <2>2. k \in OpType /\ k.pc = where /\ k.target = o /\ k.why = why /\ k.broker = r.broker
    BY <1>2, <2>1 DEF OpType
  <2>3. Turn(p, k)
    BY <1>4, <2>1, <2>2 DEF Turn, Sound, Park
  <2> QED BY <2>3 DEF Turns
<1>5. CASE conn[o] = "new" /\ Park(p, [q EXCEPT !.pc = "dial"])
           /\ conn' = [conn EXCEPT ![o] = "opening"]
  BY <1>4, <1>5, ConnSet
<1>6. CASE conn[o] = "opening" /\ Park(p, [q EXCEPT !.pc = "queue"]) /\ UNCHANGED conn
  BY <1>4, <1>6, ConnUnchanged
<1> QED BY <1>1, <1>3, <1>5, <1>6 DEF OpenBroker

(* The lists of seeds.                                                                *)
SeedsOK ==
  /\ m_seed_brokers \in Seq(Seeds) /\ m_dead_seeds \in Seq(Seeds)
  /\ SeedsConserved /\ DeadSeeds

LEMMA SeedIsObj ==
  ASSUME NEW s \in Seeds
  PROVE  Seed(s) \in Obj
BY DEF Obj

LEMMA DeadStay ==
  ASSUME Inv, ConnOK
  PROVE  \A s \in ToSet(m_dead_seeds) : s \in Seeds /\ conn'[Seed(s)] = "dead"
<1>1. m_dead_seeds \in Seq(Seeds)
  BY DEF Inv, TypeOK
<1>2. ToSet(m_dead_seeds) \subseteq Seeds
  BY <1>1 DEF ToSet
<1> QED BY <1>2, SeedIsObj DEF Inv, DeadSeeds, ConnOK

LEMMA SeedsStay ==
  ASSUME Inv, ConnOK, UNCHANGED <<m_seed_brokers, m_dead_seeds>>, closed' = closed
  PROVE  SeedsOK'
<1>1. SeedsConserved'
  BY DEF Inv, SeedsConserved
<1>2. DeadSeeds'
  BY DeadStay DEF DeadSeeds
<1> QED BY <1>1, <1>2 DEF Inv, TypeOK, SeedsOK

LEMMA SeedMoved ==
  ASSUME Inv, ConnOK, NEW s, MoveDeadSeed(s), closed' = closed,
         s \in Seeds => conn'[Seed(s)] = "dead"
  PROVE  SeedsOK'
<1>1. CASE UNCHANGED <<m_seed_brokers, m_dead_seeds>>
  BY <1>1, SeedsStay
<1>2. CASE /\ m_seed_brokers # <<>> /\ Head(m_seed_brokers) = s
           /\ m_seed_brokers' = Tail(m_seed_brokers)
           /\ m_dead_seeds' = Append(m_dead_seeds, s)
  <2>1. PICK a \in Seq(Seeds), d \in Seq(Seeds) : a = m_seed_brokers /\ d = m_dead_seeds
    BY DEF Inv, TypeOK
  <2>2. PICK b, e : b = Tail(a) /\ e = Append(d, Head(a))
    OBVIOUS
  <2>3. m_seed_brokers' = b /\ m_dead_seeds' = e /\ Head(a) = s
    BY <1>2, <2>1, <2>2
  <2>4. /\ b \in Seq(Seeds) /\ s \in Seeds /\ e \in Seq(Seeds) /\ ToSet(e) = ToSet(d) \cup {s}
        /\ ToSet(b \o e) = ToSet(a \o d)
        /\ IsInjective(a \o d) => IsInjective(b \o e)
    BY <1>2, <2>1, <2>2, <2>3, MoveHead
  <2>5. SeedsConserved'
    BY <2>1, <2>3, <2>4 DEF Inv, SeedsConserved
  <2>6. DeadSeeds'
    BY <2>1, <2>3, <2>4, DeadStay DEF DeadSeeds
  <2> QED BY <2>3, <2>4, <2>5, <2>6 DEF SeedsOK
<1> QED BY <1>1, <1>2 DEF MoveDeadSeed

(* What a step of a call does, put together.                                           *)
RegType == m_brokers \in [Nodes -> 0..MaxGen] /\ gens \in [Nodes -> 0..MaxGen]
MetaType ==
  /\ m_metadata \in [Topics -> Nodes \cup {NoLeader, Absent}]
  /\ m_cached \in [Topics -> {"none", "all", "writable"}]
  /\ m_coordinator \in Nodes \cup {0}

LEMMA StepOK ==
  ASSUME Inv, NEW p \in Ops, running \in {p, NoOp}, Turns(p), ConnOK, SeedsOK',
         RegType', MetaType', closed' = closed
  PROVE  Inv'
<1>1. op' \in [Ops -> OpType] /\ running' \in Ops \cup {NoOp} /\ \A q \in Ops : OpOK(q)'
  BY TurnOK
<1>2. closed' \in BOOLEAN
  BY DEF Inv, TypeOK
<1>3. TypeOK'
  BY <1>1, <1>2 DEF TypeOK, SeedsOK, RegType, MetaType, ConnOK
<1> QED BY <1>1, <1>3 DEF Inv, SeedsOK

LEMMA RegStay ==
  ASSUME Inv, UNCHANGED <<m_brokers, gens>>
  PROVE  RegType'
BY DEF Inv, TypeOK, RegType

LEMMA MetaStay ==
  ASSUME Inv, UNCHANGED metaVars
  PROVE  MetaType'
BY DEF Inv, TypeOK, MetaType, metaVars

(* A step that leaves the registry and the metadata alone.                              *)
LEMMA LocalStep ==
  ASSUME Inv, NEW p \in Ops, running \in {p, NoOp}, Turns(p), ConnOK,
         UNCHANGED <<regVars, metaVars, closed>>
  PROVE  Inv'
<1>1. SeedsOK'
  BY SeedsStay DEF regVars
<1>2. RegType' /\ MetaType'
  BY RegStay, MetaStay DEF regVars
<1> QED BY <1>1, <1>2, StepOK

LEMMA CurrentIsObj ==
  ASSUME TypeOK, NEW n \in Registered
  PROVE  Current(n) \in Obj
<1>1. n \in Nodes /\ m_brokers[n] \in 1..MaxGen
  BY KafkaClientAssumption DEF Registered, TypeOK
<1> QED BY <1>1 DEF Current, Obj

(***************************************************************************)
(* One lemma per action                                                      *)
(***************************************************************************)
LEMMA CallStep ==
  ASSUME Inv, NEW p \in Ops, Call(p)
  PROVE  Inv'
<1>1. PICK r : r = [op[p] EXCEPT !.calls = op[p].calls + 1]
  OBVIOUS
<1>2. running \in {p, NoOp} /\ op[p].calls < MaxCalls /\ op[p] \in OpType
      /\ op[p].calls + 1 \in 0..MaxCalls
  <2>1. running \in {p, NoOp} /\ op[p].calls < MaxCalls
    BY DEF Call, Wakes
  <2>2. op[p] \in OpType /\ op[p].calls \in 0..MaxCalls /\ MaxCalls \in Nat
    BY OpTypes, KafkaClientAssumption DEF Inv
  <2> QED BY <2>1, <2>2
<1>3. r \in OpType
  BY <1>1, <1>2 DEF OpType
<1>4. ConnOK
  BY ConnUnchanged DEF Inv, Call
<1>5. ASSUME Park(p, Returned(r)) PROVE Turns(p)
  BY <1>3, <1>5, ReturnTurn
<1>6. ASSUME Refresh(p, r, Topics) PROVE Turns(p)
  BY <1>3, <1>6, RefreshTurn
<1>7. ASSUME NEW k, k.pc = "cached", k \in OpType, Go(p, k) PROVE Turns(p)
  <2>1. Turn(p, k)
    BY <1>7 DEF Turn, Sound, Go
  <2> QED BY <2>1 DEF Turns
<1>8. ASSUME \E t \in Topics : Go(p, [r EXCEPT !.pc = "cached", !.kind = "Leader", !.topic = t])
      PROVE  Turns(p)
  <2>1. PICK t \in Topics : Go(p, [r EXCEPT !.pc = "cached", !.kind = "Leader", !.topic = t])
    BY <1>8
  <2>2. PICK k : k = [r EXCEPT !.pc = "cached", !.kind = "Leader", !.topic = t]
    OBVIOUS
  <2>3. k.pc = "cached" /\ k \in OpType
    BY <1>3, <2>2 DEF OpType
  <2> QED BY <1>7, <2>1, <2>2, <2>3
<1>9. ASSUME Go(p, [r EXCEPT !.pc = "cached", !.kind = "Coordinator"])
      PROVE  Turns(p)
  <2>1. PICK k : k = [r EXCEPT !.pc = "cached", !.kind = "Coordinator"]
    OBVIOUS
  <2>2. k.pc = "cached" /\ k \in OpType
    BY <1>3, <2>1 DEF OpType
  <2> QED BY <1>7, <1>9, <2>1, <2>2
<1>10. Turns(p)
  BY <1>1, <1>5, <1>6, <1>8, <1>9 DEF Call
<1> QED BY <1>2, <1>4, <1>10, LocalStep DEF Call

LEMMA CachedStep ==
  ASSUME Inv, NEW p \in Ops, Cached(p)
  PROVE  Inv'
<1>1. PICK why, n : /\ why \in {"leader", "coordinator"}
                    /\ IF n \in Registered THEN OpenBroker(p, op[p], Current(n), why)
                       ELSE /\ \/ Park(p, Returned(op[p]))
                               \/ Refresh(p, op[p], {op[p].topic})
                               \/ Refresh(p, op[p], {})
                            /\ UNCHANGED conn
  BY SMTT(60) DEF Cached
<1>2. /\ running \in {p, NoOp} /\ TypeOK /\ op[p] \in OpType
      /\ {op[p].topic} \in SUBSET Topics /\ {} \in SUBSET Topics
  BY OpTypes DEF Cached, At, Inv
<1>3. Turns(p) /\ ConnOK
  <2>1. CASE n \in Registered
    <3>1. PICK o \in Obj : o = Current(n)
      BY <1>2, <2>1, CurrentIsObj
    <3>2. OpenBroker(p, op[p], o, why)
      BY <1>1, <2>1, <3>1
    <3> QED BY <1>1, <1>2, <3>2, OpenTurn
  <2>2. CASE n \notin Registered
    BY <1>1, <1>2, <2>2, ReturnTurn, RefreshTurn, ConnUnchanged
  <2> QED BY <2>1, <2>2
<1> QED BY <1>2, <1>3, LocalStep DEF Cached

LEMMA DialEndsStep ==
  ASSUME Inv, NEW p \in Ops, DialEnds(p)
  PROVE  Inv'
<1>0. PICK o : o = op[p].target
  OBVIOUS
<1>1. PICK up \in BOOLEAN :
        /\ up => conn[o] = "opening"
        /\ conn' = [conn EXCEPT ![o] = IF up THEN "up" ELSE "dead"]
        /\ Go(p, [op[p] EXCEPT !.pc = "opened", !.ok = up])
  BY <1>0 DEF DialEnds
<1>2. running \in {p, NoOp} /\ op[p].pc = "dial" /\ op[p] \in OpType /\ Sound(op[p])
  BY OpTypes DEF DialEnds, Wakes, Inv, OpOK
<1>3. o \in Obj /\ o = op[p].target
  BY <1>0, <1>2 DEF Sound
<1>4. ConnOK
  BY <1>1, <1>3, ConnSet DEF Inv
<1>5. PICK k : k = [op[p] EXCEPT !.pc = "opened", !.ok = up]
  OBVIOUS
<1>6. /\ k \in OpType /\ k.pc = "opened" /\ k.ok = up /\ k.target = o
      /\ k.why = op[p].why /\ k.broker = op[p].broker
  BY <1>2, <1>3, <1>5 DEF OpType
<1>7. up \/ conn'[o] = "dead"
  BY <1>1, <1>3 DEF Inv, TypeOK
<1>8. Sound(k)
  BY <1>2, <1>3, <1>6 DEF Sound
<1>9. Turn(p, k)
  BY <1>1, <1>5, <1>6, <1>7, <1>8 DEF Turn, Go
<1>10. Turns(p)
  BY <1>9 DEF Turns
<1> QED BY <1>2, <1>4, <1>10, LocalStep DEF DialEnds

LEMMA QueueEndsStep ==
  ASSUME Inv, NEW p \in Ops, QueueEnds(p)
  PROVE  Inv'
<1>1. PICK o : /\ o = op[p].target
               /\ conn' = [conn EXCEPT ![o] = "dead"]
               /\ Go(p, [op[p] EXCEPT !.pc = "opened", !.ok = FALSE])
  BY DEF QueueEnds
<1>2. running \in {p, NoOp} /\ op[p].pc = "queue" /\ op[p] \in OpType /\ Sound(op[p])
  BY OpTypes DEF QueueEnds, Wakes, Inv, OpOK
<1>3. o \in Obj
  BY <1>1, <1>2 DEF Sound
<1>4. ConnOK
  BY <1>1, ConnSet DEF Inv
<1>5. PICK k : k = [op[p] EXCEPT !.pc = "opened", !.ok = FALSE]
  OBVIOUS
<1>6. /\ k \in OpType /\ k.pc = "opened" /\ k.target = o
      /\ k.why = op[p].why /\ k.broker = op[p].broker
  BY <1>1, <1>2, <1>5 DEF OpType
<1>7. conn'[o] = "dead"
  BY <1>1, <1>3 DEF Inv, TypeOK
<1>8. Sound(k)
  BY <1>1, <1>2, <1>6 DEF Sound
<1>9. Turn(p, k)
  BY <1>1, <1>5, <1>6, <1>7, <1>8 DEF Turn, Go
<1>10. Turns(p)
  BY <1>9 DEF Turns
<1> QED BY <1>2, <1>4, <1>10, LocalStep DEF QueueEnds

LEMMA LeastOpenedStep ==
  ASSUME Inv, NEW p \in Ops, LeastOpened(p)
  PROVE  Inv'
<1>1. PICK s : s = Settled(op[p])
  OBVIOUS
<1>2. PICK w \in {"ask", "seed"} : w = IF op[p].ok THEN "ask" ELSE "seed"
  OBVIOUS
<1>3. running \in {p, NoOp} /\ op[p].pc = "opened" /\ op[p].why = "least" /\ op[p] \in OpType
  BY OpTypes DEF LeastOpened, At, Inv
<1>4. op[p].broker \in Obj
  BY <1>3 DEF Inv, OpOK, Sound
<1>5. s \in OpType /\ s.broker = op[p].broker
  BY <1>1, <1>3, SettledType
<1>6. PICK k : k = [s EXCEPT !.pc = w]
  OBVIOUS
<1>7. k \in OpType /\ k.pc = w /\ k.broker = op[p].broker
  BY <1>5, <1>6 DEF OpType
<1>8. Turn(p, k)
  BY <1>1, <1>2, <1>4, <1>6, <1>7 DEF Turn, Go, Sound, LeastOpened
<1>9. Turns(p) /\ ConnOK
  BY <1>8, ConnUnchanged DEF Turns, LeastOpened, Inv
<1> QED BY <1>3, <1>9, LocalStep DEF LeastOpened

LEMMA SeedOpenedStep ==
  ASSUME Inv, NEW p \in Ops, SeedOpened(p)
  PROVE  Inv'
<1>1. PICK s, o : s = Settled(op[p]) /\ o = op[p].target
  OBVIOUS
<1>2. /\ running \in {p, NoOp} /\ op[p].pc = "opened" /\ op[p].why = "seed" /\ op[p] \in OpType
      /\ TypeOK /\ UNCHANGED <<m_brokers, gens, conn, metaVars, closed>>
  BY OpTypes DEF SeedOpened, At, Inv
<1>3. PICK x \in Seeds : o = Seed(x) /\ (op[p].ok \/ conn[o] = "dead")
  BY <1>1, <1>2 DEF Inv, OpOK, Sound
<1>4. o \in Obj /\ o[1] = x
  BY <1>3, SeedIsObj DEF Seed
<1>5. s \in OpType
  BY <1>1, <1>2, SettledType
<1>6. ConnOK
  BY <1>2, ConnUnchanged
<1>7. RegType' /\ MetaType' /\ closed' = closed
  BY <1>2, RegStay, MetaStay
<1>8. Turns(p) /\ SeedsOK'
  <2>1. CASE /\ Go(p, [s EXCEPT !.pc = "ask", !.broker = o])
             /\ UNCHANGED <<m_seed_brokers, m_dead_seeds>>
    <3>1. PICK k : k = [s EXCEPT !.pc = "ask", !.broker = o]
      OBVIOUS
    <3>2. k \in OpType /\ k.pc = "ask" /\ k.broker = o
      BY <1>4, <1>5, <3>1 DEF OpType
    <3>3. Turn(p, k)
      BY <1>4, <2>1, <3>1, <3>2 DEF Turn, Go, Sound
    <3>4. SeedsOK'
      BY <1>6, <1>7, <2>1, SeedsStay
    <3> QED BY <3>3, <3>4 DEF Turns
  <2>2. CASE /\ ~op[p].ok /\ MoveDeadSeed(o[1])
             /\ Go(p, [s EXCEPT !.pc = "none"]) \/ RefreshEnds(p, FALSE)
    <3>1. SeedsOK'
      <4>1. MoveDeadSeed(x) /\ conn'[Seed(x)] = "dead"
        BY <1>2, <1>3, <1>4, <2>2
      <4> QED BY <1>6, <1>7, <4>1, SeedMoved
    <3>2. ASSUME Go(p, [s EXCEPT !.pc = "none"]) PROVE Turns(p)
      <4>1. PICK k : k = [s EXCEPT !.pc = "none"]
        OBVIOUS
      <4>2. k \in OpType /\ k.pc = "none"
        BY <1>5, <4>1 DEF OpType
      <4>3. Turn(p, k)
        BY <3>2, <4>1, <4>2 DEF Turn, Go, Sound
      <4> QED BY <4>3 DEF Turns
    <3> QED BY <1>2, <2>2, <3>1, <3>2, RefreshEndsTurn
  <2> QED BY <1>1, <2>1, <2>2 DEF SeedOpened
<1> QED BY <1>2, <1>6, <1>7, <1>8, StepOK

LEMMA CachedOpenedStep ==
  ASSUME Inv, NEW p \in Ops, CachedOpened(p)
  PROVE  Inv'
<1>1. running \in {p, NoOp} /\ op[p] \in OpType /\ {op[p].topic} \in SUBSET Topics
  BY OpTypes DEF CachedOpened, At, Inv
<1>2. ConnOK
  BY ConnUnchanged DEF CachedOpened, Inv
<1>3. Settled(op[p]) \in OpType
  BY <1>1, SettledType
<1>4. Turns(p)
  BY <1>1, <1>3, RefreshTurn, ReturnTurn DEF CachedOpened
<1> QED BY <1>1, <1>2, <1>4, LocalStep DEF CachedOpened

LEMMA PickStep ==
  ASSUME Inv, NEW p \in Ops, Pick(p)
  PROVE  Inv'
<1>1. PICK o : o = IF Registered # {} THEN Current(Max(Registered)) ELSE op[p].broker
  OBVIOUS
<1>2. running \in {p, NoOp} /\ op[p] \in OpType /\ TypeOK
  BY OpTypes DEF Pick, At, Inv
<1>3. o \in Obj \cup {NoBroker}
  <2>1. CASE Registered # {}
    <3>1. MaxInt32 \in Nat /\ Registered \in SUBSET (1..MaxInt32)
      <4>1. MaxInt32 \in Nat
        BY DEF MaxInt32
      <4>2. Registered \subseteq Nodes /\ Nodes \subseteq 1..MaxInt32
        BY KafkaClientAssumption DEF Registered
      <4> QED BY <4>1, <4>2
    <3>2. Max(Registered) \in Registered
      BY <2>1, <3>1, MaxIn
    <3> QED BY <1>1, <1>2, <2>1, <3>2, CurrentIsObj
  <2>2. CASE Registered = {}
    BY <1>1, <1>2, <2>2, OpTypes
  <2> QED BY <2>1, <2>2
<1>4. Turns(p) /\ ConnOK
  <2>1. CASE o = NoBroker /\ Go(p, [op[p] EXCEPT !.pc = "seed"]) /\ UNCHANGED conn
    <3>1. PICK k : k = [op[p] EXCEPT !.pc = "seed"]
      OBVIOUS
    <3>2. k \in OpType /\ k.pc = "seed"
      BY <1>2, <3>1 DEF OpType
    <3>3. Turn(p, k)
      BY <2>1, <3>1, <3>2 DEF Turn, Go, Sound
    <3> QED BY <1>2, <2>1, <3>3, ConnUnchanged DEF Turns
  <2>2. CASE o # NoBroker /\ OpenBroker(p, [op[p] EXCEPT !.broker = o], o, "least")
    <3>1. PICK r : r = [op[p] EXCEPT !.broker = o]
      OBVIOUS
    <3>2. o \in Obj
      BY <1>3, <2>2
    <3>3. r \in OpType /\ r.broker = o
      BY <1>2, <1>3, <3>1 DEF OpType
    <3>4. OpenBroker(p, r, o, "least")
      BY <2>2, <3>1
    <3> QED BY <1>2, <3>2, <3>3, <3>4, OpenTurn
  <2> QED BY <1>1, <2>1, <2>2 DEF Pick
<1> QED BY <1>2, <1>4, LocalStep DEF Pick

LEMMA TrySeedStep ==
  ASSUME Inv, NEW p \in Ops, TrySeed(p)
  PROVE  Inv'
<1>1. running \in {p, NoOp} /\ op[p] \in OpType /\ TypeOK /\ m_seed_brokers \in Seq(Seeds)
  BY OpTypes DEF TrySeed, At, Inv, TypeOK
<1>2. Turns(p) /\ ConnOK
  <2>1. CASE m_seed_brokers = <<>>
    <3>1. PICK k : k = [op[p] EXCEPT !.pc = "none"]
      OBVIOUS
    <3>2. k \in OpType /\ k.pc = "none"
      BY <1>1, <3>1 DEF OpType
    <3>3. Turn(p, k)
      BY <2>1, <3>1, <3>2 DEF Turn, Go, Sound, TrySeed
    <3> QED BY <1>1, <2>1, <3>3, ConnUnchanged DEF Turns, TrySeed
  <2>2. CASE m_seed_brokers # <<>>
    <3>1. PICK s \in Seeds, o \in Obj : s = Head(m_seed_brokers) /\ o = Seed(s)
      <4>1. Head(m_seed_brokers) \in Seeds
        BY <1>1, <2>2
      <4> QED BY <4>1, SeedIsObj, Zenon
    <3>2. OpenBroker(p, op[p], o, "seed")
      BY <2>2, <3>1 DEF TrySeed
    <3> QED BY <1>1, <3>1, <3>2, OpenTurn
  <2> QED BY <2>1, <2>2
<1> QED BY <1>1, <1>2, LocalStep DEF TrySeed

LEMMA NoneOpenedStep ==
  ASSUME Inv, NEW p \in Ops, NoneOpened(p)
  PROVE  Inv'
<1>1. /\ running \in {p, NoOp} /\ op[p] \in OpType /\ TypeOK
      /\ op[p].broker \in Obj \cup {NoBroker}
      /\ UNCHANGED <<m_brokers, gens, conn, metaVars, closed>>
  BY OpTypes DEF NoneOpened, At, Inv
<1>2. ConnOK /\ RegType' /\ MetaType' /\ closed' = closed
  BY <1>1, ConnUnchanged, RegStay, MetaStay
<1>3. Turns(p) /\ SeedsOK'
  <2>1. CASE /\ op[p].broker # NoBroker /\ Go(p, [op[p] EXCEPT !.pc = "ask"])
             /\ UNCHANGED <<m_seed_brokers, m_dead_seeds>>
    <3>1. PICK k : k = [op[p] EXCEPT !.pc = "ask"]
      OBVIOUS
    <3>2. k \in OpType /\ k.pc = "ask" /\ k.broker = op[p].broker
      BY <1>1, <3>1 DEF OpType
    <3>3. Turn(p, k)
      BY <1>1, <2>1, <3>1, <3>2 DEF Turn, Go, Sound
    <3>4. SeedsOK'
      BY <1>2, <2>1, SeedsStay
    <3> QED BY <3>3, <3>4 DEF Turns
  <2>2. CASE RefreshEnds(p, FALSE) /\ UNCHANGED <<m_seed_brokers, m_dead_seeds>>
    BY <1>1, <1>2, <2>2, SeedsStay, RefreshEndsTurn
  <2>3. CASE /\ m_seed_brokers' = m_seed_brokers \o m_dead_seeds /\ m_dead_seeds' = <<>>
             /\ BackOff(p)
    <3>1. PICK a \in Seq(Seeds), d \in Seq(Seeds), c \in Seq(Seeds) :
            a = m_seed_brokers /\ d = m_dead_seeds /\ c = a \o d
      <4>1. PICK a \in Seq(Seeds), d \in Seq(Seeds) : a = m_seed_brokers /\ d = m_dead_seeds
        BY <1>1 DEF TypeOK
      <4>2. a \o d \in Seq(Seeds)
        OBVIOUS
      <4> QED BY <4>1, <4>2, Zenon
    <3>2. c \o <<>> = c /\ <<>> \in Seq(Seeds) /\ ToSet(<<>>) = {}
      BY DEF ToSet
    <3>3. m_seed_brokers' = c /\ m_dead_seeds' = <<>>
      BY <2>3, <3>1
    <3>4. SeedsConserved'
      BY <1>2, <3>1, <3>2, <3>3 DEF Inv, SeedsConserved
    <3>5. DeadSeeds'
      BY <3>2, <3>3 DEF DeadSeeds
    <3> QED BY <1>1, <2>3, <3>2, <3>3, <3>4, <3>5, BackOffTurn DEF SeedsOK
  <2> QED BY <2>1, <2>2, <2>3 DEF NoneOpened
<1> QED BY <1>1, <1>2, <1>3, StepOK

(* RequestFailed: the broker is closed, and gone from the registry or the seeds.        *)
LEMMA RequestFailedTurn ==
  ASSUME Inv, NEW p \in Ops, op[p].pc \in {"ask", "asked"}, RequestFailed(p),
         UNCHANGED gens, closed' = closed
  PROVE  Turns(p) /\ ConnOK /\ SeedsOK' /\ RegType'
<1>1. op[p] \in OpType /\ op[p].broker \in Obj /\ TypeOK
  BY OpTypes DEF Inv, OpOK, Sound
<1>2. PICK b \in Obj : b = op[p].broker
  BY <1>1
<1>3. conn' = [conn EXCEPT ![b] = "dead"] /\ Deregister(b)
  BY <1>2 DEF RequestFailed
<1>4. ConnOK /\ conn'[b] = "dead"
  BY <1>1, <1>3, ConnSet DEF TypeOK
<1>5. Turns(p)
  <2>1. PICK k : k = [op[p] EXCEPT !.pc = "pick"]
    OBVIOUS
  <2>2. k \in OpType /\ k.pc = "pick"
    BY <1>1, <2>1 DEF OpType
  <2>3. Turn(p, k)
    BY <2>1, <2>2 DEF Turn, Go, Sound, RequestFailed
  <2> QED BY <2>3 DEF Turns
<1>6. SeedsOK' /\ RegType'
  <2>1. CASE b[1] \in Nodes
    <3>1. /\ m_brokers' = [m_brokers EXCEPT ![b[1]] = 0]
          /\ UNCHANGED <<m_seed_brokers, m_dead_seeds>>
      BY <1>3, <2>1 DEF Deregister
    <3>2. 0 \in 0..MaxGen
      BY KafkaClientAssumption
    <3>3. RegType'
      BY <1>1, <3>1, <3>2 DEF RegType, TypeOK
    <3> QED BY <1>4, <3>1, <3>3, SeedsStay
  <2>2. CASE b[1] \notin Nodes
    <3>1. MoveDeadSeed(b[1]) /\ UNCHANGED m_brokers
      BY <1>3, <2>2 DEF Deregister
    <3>2. PICK s \in Seeds : b = Seed(s)
      BY <2>2 DEF Obj
    <3>3. b[1] = s
      BY <3>2 DEF Seed
    <3> QED BY <1>4, <3>1, <3>2, <3>3, SeedMoved, RegStay
  <2> QED BY <2>1, <2>2
<1> QED BY <1>4, <1>5, <1>6

LEMMA AskStep ==
  ASSUME Inv, NEW p \in Ops, Ask(p)
  PROVE  Inv'
<1>1. /\ running \in {p, NoOp} /\ op[p] \in OpType /\ op[p].pc = "ask"
      /\ UNCHANGED <<metaVars, closed>>
  BY OpTypes DEF Ask, At, Inv
<1>2. CASE Park(p, [op[p] EXCEPT !.pc = "asked"]) /\ UNCHANGED <<regVars, conn>>
  <2>1. PICK k : k = [op[p] EXCEPT !.pc = "asked"]
    OBVIOUS
  <2>2. k \in OpType /\ k.pc = "asked" /\ k.broker = op[p].broker
    BY <1>1, <2>1 DEF OpType
  <2>3. op[p].broker \in Obj
    BY <1>1 DEF Inv, OpOK, Sound
  <2>4. Turn(p, k)
    BY <1>2, <2>1, <2>2, <2>3 DEF Turn, Park, Sound
  <2>5. Turns(p) /\ ConnOK
    BY <1>2, <2>4, ConnUnchanged DEF Turns, Inv
  <2> QED BY <1>1, <1>2, <2>5, LocalStep
<1>3. CASE RequestFailed(p) /\ UNCHANGED gens
  BY <1>1, <1>3, RequestFailedTurn, MetaStay, StepOK
<1> QED BY <1>2, <1>3 DEF Ask

LEMMA PastDeadlineStep ==
  ASSUME Inv, NEW p \in Ops, PastDeadline(p)
  PROVE  Inv'
<1>1. running \in {p, NoOp} /\ Turns(p)
  BY RefreshEndsTurn DEF PastDeadline, At, Inv
<1>2. ConnOK
  BY ConnUnchanged DEF PastDeadline, Inv
<1> QED BY <1>1, <1>2, LocalStep DEF PastDeadline

LEMMA AnswerFailsStep ==
  ASSUME Inv, NEW p \in Ops, AnswerFails(p)
  PROVE  Inv'
<1>1. /\ running \in {p, NoOp} /\ op[p].pc = "asked" /\ TypeOK
      /\ UNCHANGED <<gens, metaVars, closed>>
  BY DEF AnswerFails, Wakes, Inv
<1>2. CASE RequestFailed(p)
  BY <1>1, <1>2, RequestFailedTurn, MetaStay, StepOK
<1>3. CASE RefreshEnds(p, FALSE) /\ UNCHANGED <<m_brokers, m_seed_brokers, m_dead_seeds, conn>>
  <2>1. Turns(p) /\ ConnOK
    BY <1>1, <1>3, RefreshEndsTurn, ConnUnchanged
  <2> QED BY <1>1, <1>3, <2>1, LocalStep DEF regVars
<1> QED BY <1>2, <1>3 DEF AnswerFails

(* UpdateBroker and UpdateMetadata.                                                     *)
LEMMA UpdateBrokerOK ==
  ASSUME TypeOK, NEW nodes, NEW moved, UpdateBroker(nodes, moved)
  PROVE  RegType' /\ ConnOK
<1>1. PICK new, out :
        /\ new \subseteq nodes /\ \A n \in new : gens[n] < MaxGen
        /\ gens' = [n \in Nodes |-> IF n \in new THEN gens[n] + 1 ELSE gens[n]]
        /\ m_brokers' = [n \in Nodes |-> IF n \in new THEN gens[n] + 1
                                         ELSE IF n \in nodes THEN m_brokers[n] ELSE 0]
        /\ conn' = [o \in Obj |-> IF o \in out /\ conn[o] = "up" THEN "dead" ELSE conn[o]]
  BY DEF UpdateBroker
<1>2. MaxGen \in Nat /\ 0 \in 0..MaxGen
  BY KafkaClientAssumption
<1>3. \A n \in Nodes : gens[n] \in 0..MaxGen /\ m_brokers[n] \in 0..MaxGen
                       /\ (n \in new => gens[n] + 1 \in 0..MaxGen)
  BY <1>1, <1>2 DEF TypeOK
<1>4. RegType'
  <2>1. gens' \in [Nodes -> 0..MaxGen]
    BY <1>1, <1>3
  <2>2. m_brokers' \in [Nodes -> 0..MaxGen]
    BY <1>1, <1>2, <1>3
  <2> QED BY <2>1, <2>2 DEF RegType
<1>5. ConnOK
  BY <1>1 DEF ConnOK, TypeOK
<1> QED BY <1>4, <1>5

LEMMA UpdateTopicsOK ==
  ASSUME TypeOK, NEW ts, NEW all \in BOOLEAN, NEW told \in [ts -> Nodes \cup {NoLeader, Absent}],
         UpdateTopics(ts, all, told), UNCHANGED m_coordinator
  PROVE  /\ MetaType'
         /\ \A t \in Topics :
              \/ m_cached'[t] = SetPartitionCache(m_metadata'[t])
              \/ m_cached'[t] = m_cached[t] /\ m_metadata'[t] = m_metadata[t]
<1>0. PICK known : known = IF all THEN [t \in Topics |-> Absent] ELSE m_metadata
  OBVIOUS
<1>1. m_metadata' = [t \in Topics |-> IF t \in ts THEN told[t] ELSE known[t]]
  BY <1>0 DEF UpdateTopics
<1>2. m_cached' = [t \in Topics |-> IF t \in ts THEN SetPartitionCache(told[t])
                                   ELSE IF all THEN "none" ELSE m_cached[t]]
  BY DEF UpdateTopics
<1>3. \A t \in Topics : /\ known[t] \in Nodes \cup {NoLeader, Absent}
                        /\ m_cached[t] \in {"none", "all", "writable"}
                        /\ known[t] = IF all THEN Absent ELSE m_metadata[t]
  BY <1>0 DEF TypeOK
<1>4. \A x : SetPartitionCache(x) \in {"none", "all", "writable"}
  BY DEF SetPartitionCache
<1>5. SetPartitionCache(Absent) = "none"
  BY DEF SetPartitionCache
<1>6. m_metadata' \in [Topics -> Nodes \cup {NoLeader, Absent}]
  BY <1>1, <1>3
<1>7. m_cached' \in [Topics -> {"none", "all", "writable"}]
  BY <1>2, <1>3, <1>4
<1>8. m_coordinator' \in Nodes \cup {0}
  BY DEF TypeOK
<1>9. ASSUME NEW t \in Topics
      PROVE  \/ m_cached'[t] = SetPartitionCache(m_metadata'[t])
             \/ m_cached'[t] = m_cached[t] /\ m_metadata'[t] = m_metadata[t]
  <2>1. CASE t \in ts
    BY <1>1, <1>2, <2>1
  <2>2. CASE t \notin ts /\ all
    BY <1>1, <1>2, <1>3, <1>5, <2>2
  <2>3. CASE t \notin ts /\ ~all
    BY <1>1, <1>2, <1>3, <2>3
  <2> QED BY <2>1, <2>2, <2>3
<1> QED BY <1>6, <1>7, <1>8, <1>9 DEF MetaType

LEMMA AnsweredStep ==
  ASSUME Inv, NEW p \in Ops, Answered(p)
  PROVE  Inv'
<1>1. /\ running \in {p, NoOp} /\ op[p].pc = "asked" /\ TypeOK /\ op[p] \in OpType
      /\ UNCHANGED <<m_seed_brokers, m_dead_seeds, closed>>
  BY OpTypes DEF Answered, Wakes, Inv
<1>2. CASE RefreshEnds(p, TRUE) /\ UNCHANGED <<m_brokers, gens, conn, metaVars>>
  <2>1. Turns(p) /\ ConnOK
    BY <1>1, <1>2, RefreshEndsTurn, ConnUnchanged
  <2> QED BY <1>1, <1>2, <2>1, LocalStep DEF regVars
<1>3. CASE ~Closed
  <2>1. PICK all, ts, nodes, moved, told :
          /\ all \in BOOLEAN /\ told \in [ts -> Nodes \cup {NoLeader, Absent}]
          /\ UpdateBroker(nodes, moved) /\ UpdateTopics(ts, all, told)
          /\ \/ RefreshEnds(p, TRUE) \/ RefreshEnds(p, FALSE)
             \/ op[p].attempts > 0 /\ Park(p, [op[p] EXCEPT !.pc = "backoff"])
          /\ UNCHANGED m_coordinator
    <3>1. PICK all, ts : /\ all \in BOOLEAN /\ all = (op[p].topics = {})
                         /\ ts = IF all THEN Topics ELSE op[p].topics
      BY Zenon
    <3>2. PICK nodes \in SUBSET Nodes \ {{}} : \E moved \in SUBSET nodes,
             told \in [ts -> Nodes \cup {NoLeader, Absent}], again \in BOOLEAN :
               /\ UpdateBroker(nodes, moved)
               /\ UpdateTopics(ts, all, told)
               /\ IF ~again THEN RefreshEnds(p, TRUE)
                  ELSE \/ RefreshEnds(p, FALSE)
                       \/ op[p].attempts > 0 /\ Park(p, [op[p] EXCEPT !.pc = "backoff"])
               /\ UNCHANGED m_coordinator
      BY <1>3, <3>1, Zenon DEF Answered
    <3> QED BY <3>1, <3>2, Zenon
  <2>2. RegType' /\ ConnOK /\ MetaType'
    BY <1>1, <2>1, UpdateBrokerOK, UpdateTopicsOK
  <2>3. SeedsOK'
    BY <1>1, <2>2, SeedsStay
  <2>4. ASSUME op[p].attempts > 0, Park(p, [op[p] EXCEPT !.pc = "backoff"]) PROVE Turns(p)
    <3>1. PICK k : k = [op[p] EXCEPT !.pc = "backoff"]
      OBVIOUS
    <3>2. k \in OpType /\ k.pc = "backoff" /\ k.attempts = op[p].attempts
      BY <1>1, <3>1 DEF OpType
    <3>3. Turn(p, k)
      BY <2>4, <3>1, <3>2 DEF Turn, Park, Sound
    <3> QED BY <3>3 DEF Turns
  <2>5. Turns(p)
    BY <1>1, <2>1, <2>4, RefreshEndsTurn
  <2> QED BY <1>1, <2>2, <2>3, <2>5, StepOK
<1> QED BY <1>2, <1>3 DEF Answered

LEMMA CoordinatorAnsweredStep ==
  ASSUME Inv, NEW p \in Ops, CoordinatorAnswered(p)
  PROVE  Inv'
<1>1. /\ running \in {p, NoOp} /\ op[p].pc = "asked" /\ TypeOK /\ op[p] \in OpType
      /\ UNCHANGED <<m_seed_brokers, m_dead_seeds, m_metadata, m_cached, closed>>
  BY OpTypes DEF CoordinatorAnswered, Wakes, Inv
<1>2. CASE \E n \in Nodes, moved \in BOOLEAN :
             /\ RegisterBroker(n, moved)
             /\ m_coordinator' = n
             /\ Go(p, [op[p] EXCEPT !.pc = "cached", !.kind = "CoordinatorAgain"])
  <2>1. PICK n \in Nodes, moved \in BOOLEAN :
          /\ RegisterBroker(n, moved) /\ m_coordinator' = n
          /\ Go(p, [op[p] EXCEPT !.pc = "cached", !.kind = "CoordinatorAgain"])
    BY <1>2
  <2>2. RegType' /\ ConnOK
    <3>1. CASE UNCHANGED <<m_brokers, gens, conn>>
      BY <1>1, <3>1, RegStay, ConnUnchanged
    <3>2. CASE /\ gens[n] < MaxGen
               /\ gens' = [gens EXCEPT ![n] = gens[n] + 1]
               /\ m_brokers' = [m_brokers EXCEPT ![n] = gens[n] + 1]
               /\ conn' = [o \in Obj |-> IF n \in Registered /\ o = Current(n) /\ conn[o] = "up"
                                         THEN "dead" ELSE conn[o]]
      <4>1. gens[n] + 1 \in 0..MaxGen
        BY <1>1, <3>2, KafkaClientAssumption DEF TypeOK
      <4>2. RegType'
        BY <1>1, <3>2, <4>1 DEF TypeOK, RegType
      <4>3. ConnOK
        BY <1>1, <3>2 DEF TypeOK, ConnOK
      <4> QED BY <4>2, <4>3
    <3> QED BY <2>1, <3>1, <3>2 DEF RegisterBroker
  <2>3. MetaType'
    BY <1>1, <2>1 DEF MetaType, TypeOK
  <2>4. SeedsOK'
    BY <1>1, <2>2, SeedsStay
  <2>5. PICK k : k = [op[p] EXCEPT !.pc = "cached", !.kind = "CoordinatorAgain"]
    OBVIOUS
  <2>6. k \in OpType /\ k.pc = "cached"
    BY <1>1, <2>5 DEF OpType
  <2>7. Turn(p, k)
    BY <2>1, <2>5, <2>6 DEF Turn, Go, Sound
  <2>8. Turns(p)
    BY <2>7 DEF Turns
  <2> QED BY <1>1, <2>2, <2>3, <2>4, <2>8, StepOK
<1>3. CASE /\ BackOff(p) \/ Park(p, Returned(op[p]))
           /\ UNCHANGED <<m_brokers, gens, conn, m_coordinator>>
  <2>1. Turns(p) /\ ConnOK
    BY <1>1, <1>3, BackOffTurn, ReturnTurn, ConnUnchanged
  <2> QED BY <1>1, <1>3, <2>1, LocalStep DEF regVars, metaVars
<1> QED BY <1>2, <1>3 DEF CoordinatorAnswered

LEMMA RetryStep ==
  ASSUME Inv, NEW p \in Ops, Retry(p)
  PROVE  Inv'
<1>1. /\ running \in {p, NoOp} /\ op[p] \in OpType /\ TypeOK
      /\ op[p].attempts - 1 \in 0..RetryMax
  <2>1. running = NoOp /\ op[p].pc = "backoff"
    BY DEF Retry, Wakes
  <2>2. op[p].attempts > 0 /\ op[p].attempts \in 0..RetryMax /\ RetryMax \in Nat
    BY <2>1, OpTypes, KafkaClientAssumption DEF Inv, OpOK, Sound
  <2> QED BY <2>1, <2>2, OpTypes DEF Inv
<1>2. CASE Go(p, [op[p] EXCEPT !.pc = "pick", !.broker = NoBroker, !.attempts = op[p].attempts - 1])
  <2>1. PICK a \in 0..RetryMax : a = op[p].attempts - 1
    BY <1>1
  <2>2. PICK k : k = [op[p] EXCEPT !.pc = "pick", !.broker = NoBroker, !.attempts = a]
    OBVIOUS
  <2>3. k \in OpType /\ k.pc = "pick"
    BY <1>1, <2>2 DEF OpType
  <2>4. Turn(p, k)
    BY <1>2, <2>1, <2>2, <2>3 DEF Turn, Go, Sound
  <2>5. Turns(p) /\ ConnOK
    BY <1>1, <2>4, ConnUnchanged DEF Turns, Retry
  <2> QED BY <1>1, <2>5, LocalStep DEF Retry
<1>3. CASE RefreshEnds(p, FALSE)
  <2>1. Turns(p) /\ ConnOK
    BY <1>1, <1>3, RefreshEndsTurn, ConnUnchanged DEF Retry
  <2> QED BY <1>1, <2>1, LocalStep DEF Retry
<1> QED BY <1>2, <1>3 DEF Retry

LEMMA CloseStep ==
  ASSUME Inv, Close
  PROVE  Inv'
<1>1. PICK A, B : conn' = [o \in Obj |-> IF conn[o] = "up" /\ (o \in A \/ o \in B)
                                        THEN "dead" ELSE conn[o]]
  BY Zenon DEF Close
<1>2. /\ m_brokers' = [n \in Nodes |-> 0] /\ m_dead_seeds' = <<>>
      /\ m_metadata' = [t \in Topics |-> Absent] /\ closed' = TRUE /\ running = NoOp
      /\ UNCHANGED <<m_seed_brokers, gens, m_cached, m_coordinator, running, op>>
  BY DEF Close
<1>3. TypeOK
  BY DEF Inv
<1>4. ConnOK
  BY <1>1, <1>3 DEF TypeOK, ConnOK
<1>5. RegType'
  <2>1. 0 \in 0..MaxGen
    BY KafkaClientAssumption
  <2> QED BY <1>2, <1>3, <2>1 DEF TypeOK, RegType
<1>6. MetaType'
  BY <1>2, <1>3 DEF TypeOK, MetaType
<1>7. /\ m_seed_brokers' \in Seq(Seeds) /\ m_dead_seeds' \in Seq(Seeds)
      /\ SeedsConserved' /\ DeadSeeds'
  <2>1. <<>> \in Seq(Seeds) /\ ToSet(<<>>) = {}
    BY DEF ToSet
  <2> QED BY <1>2, <1>3, <2>1 DEF TypeOK, SeedsConserved, DeadSeeds
<1>8. \A p \in Ops : OpOK(p)'
  <2> SUFFICES ASSUME NEW p \in Ops PROVE OpOK(p)'
    OBVIOUS
  <2>1. OpOK(p) /\ running # p
    BY <1>2, KafkaClientAssumption DEF Inv, NoOp, Ops
  <2>2. Sound(op[p]) /\ op[p].pc # "opened" /\ op'[p] = op[p]
    BY <1>2, <2>1 DEF OpOK
  <2> QED BY <2>2 DEF OpOK, Sound
<1>9. TypeOK'
  <2>1. op' \in [Ops -> OpType] /\ running' \in Ops \cup {NoOp} /\ closed' \in BOOLEAN
    BY <1>2, <1>3 DEF TypeOK
  <2> QED BY <1>4, <1>5, <1>6, <1>7, <2>1 DEF TypeOK, RegType, MetaType, ConnOK
<1> QED BY <1>7, <1>8, <1>9 DEF Inv

LEMMA InitInv == Init => Inv
<1> SUFFICES ASSUME Init PROVE Inv
  OBVIOUS
<1>1. PICK a \in Seq(Seeds) : a = SetToSeq(Seeds) /\ ToSet(a) = Seeds /\ IsInjective(a)
  BY SetToSeqOK, KafkaClientAssumption
<1>2. <<>> \in Seq(Seeds) /\ ToSet(<<>>) = {} /\ a \o <<>> = a
  BY DEF ToSet
<1>3. m_seed_brokers = a /\ m_dead_seeds = <<>>
  BY <1>1 DEF Init
<1>4. SeedsConserved /\ DeadSeeds
  BY <1>1, <1>2, <1>3 DEF SeedsConserved, DeadSeeds
<1>5. PICK k : k = NoCall
  OBVIOUS
<1>6. k \in OpType /\ k.pc = "idle"
  <2>1. PICK t \in Topics : t = (CHOOSE x \in Topics : TRUE)
    BY KafkaClientAssumption
  <2>2. k = [pc |-> "idle", kind |-> "Refresh", topics |-> {}, topic |-> t,
             broker |-> NoBroker, target |-> NoBroker, why |-> "least", ok |-> FALSE,
             attempts |-> 0, calls |-> 0]
    BY <1>5, <2>1 DEF NoCall
  <2>3. 0 \in 0..RetryMax /\ 0 \in 0..MaxCalls
    BY KafkaClientAssumption
  <2> QED BY <2>2, <2>3 DEF OpType
<1>7. op \in [Ops -> OpType] /\ \A p \in Ops : OpOK(p)
  <2>1. op = [p \in Ops |-> k]
    BY <1>5 DEF Init
  <2> QED BY <1>6, <2>1 DEF OpOK, Sound
<1>8. RegType /\ MetaType
  BY KafkaClientAssumption DEF Init, RegType, MetaType
<1>9. conn \in [Obj -> {"new", "opening", "up", "dead"}] /\ closed \in BOOLEAN
      /\ running \in Ops \cup {NoOp}
  BY DEF Init
<1>10. TypeOK
  BY <1>1, <1>2, <1>3, <1>7, <1>8, <1>9 DEF TypeOK, RegType, MetaType
<1> QED BY <1>4, <1>7, <1>10 DEF Inv

LEMMA NextInv ==
  ASSUME Inv, [Next]_vars
  PROVE  Inv'
<1>1. CASE UNCHANGED vars
  <2>1. UNCHANGED <<m_brokers, m_seed_brokers, m_dead_seeds, gens, conn, m_metadata, m_cached,
                    m_coordinator, closed, running, op>>
    BY <1>1 DEF vars, regVars, metaVars
  <2>2. TypeOK'
    BY <2>1 DEF Inv, TypeOK
  <2>3. SeedsConserved' /\ DeadSeeds'
    BY <2>1 DEF Inv, SeedsConserved, DeadSeeds
  <2>4. \A p \in Ops : OpOK(p)'
    BY <2>1 DEF Inv, OpOK
  <2> QED BY <2>2, <2>3, <2>4 DEF Inv
<1>2. CASE Close
  BY <1>2, CloseStep
<1>3. ASSUME NEW p \in Ops, Call(p) \/ Step(p) \/ Event(p)
      PROVE  Inv'
  <2>1. CASE Call(p)
    BY <2>1, CallStep
  <2>2. CASE Step(p)
    BY <2>2, CachedStep, LeastOpenedStep, SeedOpenedStep, CachedOpenedStep, PickStep, TrySeedStep,
       NoneOpenedStep, AskStep, PastDeadlineStep DEF Step
  <2>3. CASE Event(p)
    BY <2>3, DialEndsStep, QueueEndsStep, AnswerFailsStep, AnsweredStep, CoordinatorAnsweredStep,
       RetryStep DEF Event
  <2> QED BY <1>3, <2>1, <2>2, <2>3
<1> QED BY <1>1, <1>2, <1>3 DEF Next

(***************************************************************************)
(* The theorems                                                              *)
(***************************************************************************)
LEMMA Invariance == Spec => []Inv
<1>1. Inv /\ [Next]_vars => Inv'
  BY NextInv
<1> QED BY <1>1, InitInv, PTL DEF Spec

(* LeastLoadedBroker, DeregisterBroker, ResurrectDeadBrokers (client.cpp 619-677): for     *)
(* any seeds and any interleaving of the coroutines at their awaits, every seed is in use    *)
(* or set aside, once, and the ones set aside are closed for good.                             *)
THEOREM SeedsKept == Spec => []SeedsSafe
<1>1. Inv => SeedsSafe
  <2> SUFFICES ASSUME Inv PROVE SeedsSafe
    OBVIOUS
  <2>1. ASSUME Closed, ~closed, NEW s \in Seeds PROVE conn[Seed(s)] = "dead"
    <3>1. PICK d \in Seq(Seeds) : d = m_dead_seeds
      BY DEF Inv, TypeOK
    <3>2. <<>> \o d = d
      OBVIOUS
    <3>3. s \in ToSet(d)
      BY <2>1, <3>1, <3>2 DEF Inv, SeedsConserved, Closed
    <3> QED BY <3>1, <3>3 DEF Inv, DeadSeeds
  <2> QED BY <2>1 DEF Inv, SeedsSafe, ClosedMeansAllDead, DeadSeeds
<1> QED BY <1>1, Invariance, PTL

(* UpdateMetadata (client.cpp 956-1021): whatever topics a refresh asks for and whatever    *)
(* it is told, the cached partition lists are those of the metadata until Close().           *)
THEOREM CacheFollowsMetadata == Spec => []CacheMatchesMetadata
<1> DEFINE C == CacheMatchesMetadata
<1>1. Init => C
  BY DEF Init, CacheMatchesMetadata, SetPartitionCache
<1>2. Inv /\ C /\ [Next]_vars => C'
  <2> SUFFICES ASSUME Inv, C, [Next]_vars PROVE C'
    OBVIOUS
  <2>1. CASE UNCHANGED <<m_metadata, m_cached, closed>>
    BY <2>1 DEF CacheMatchesMetadata
  <2>2. CASE closed'
    BY <2>2 DEF CacheMatchesMetadata
  <2>3. ASSUME NEW p \in Ops, Answered(p) PROVE C'
    <3>1. CASE Closed
      BY <2>1, <2>3, <3>1 DEF Answered, metaVars
    <3>2. CASE ~Closed
      <4>1. PICK all, ts : /\ all \in BOOLEAN /\ all = (op[p].topics = {})
                           /\ ts = IF all THEN Topics ELSE op[p].topics
        BY Zenon
      <4>2. PICK told \in [ts -> Nodes \cup {NoLeader, Absent}] :
               UpdateTopics(ts, all, told) /\ UNCHANGED m_coordinator
        BY <2>3, <3>2, <4>1, Zenon DEF Answered
      <4>3. \A t \in Topics :
              \/ m_cached'[t] = SetPartitionCache(m_metadata'[t])
              \/ m_cached'[t] = m_cached[t] /\ m_metadata'[t] = m_metadata[t]
        BY <4>1, <4>2, UpdateTopicsOK DEF Inv
      <4>4. closed' = closed
        BY <2>3 DEF Answered
      <4> QED BY <4>3, <4>4 DEF CacheMatchesMetadata
    <3> QED BY <3>1, <3>2
  <2>4. CASE Close
    BY <2>2, <2>4 DEF Close
  <2>5. ASSUME NEW p \in Ops, Call(p) \/ Step(p) \/ Event(p), ~Answered(p)
        PROVE  UNCHANGED <<m_metadata, m_cached, closed>>
    <3>1. CASE Call(p)
      BY <3>1 DEF Call, metaVars
    <3>2. CASE Step(p)
      BY <3>2 DEF Step, Cached, LeastOpened, SeedOpened, CachedOpened, Pick, TrySeed, NoneOpened,
                  Ask, PastDeadline, metaVars
    <3>3. CASE Event(p)
      BY <2>5, <3>3 DEF Event, DialEnds, QueueEnds, AnswerFails, CoordinatorAnswered, Retry, metaVars
    <3> QED BY <2>5, <3>1, <3>2, <3>3
  <2>6. CASE UNCHANGED vars
    BY <2>1, <2>6 DEF vars, metaVars
  <2> QED BY <2>1, <2>3, <2>4, <2>5, <2>6 DEF Next
<1> HIDE DEF C
<1>3. Spec => []C
  BY <1>1, <1>2, Invariance, PTL DEF Spec
<1> QED BY <1>3 DEF C
=============================================================================
