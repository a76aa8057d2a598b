------------------------- MODULE KafkaBrokerProofs --------------------------
(* One connection and any number of coroutines that share it: one of them opens  *)
(* it, whoever waits for the opener will be resumed, the locks are held only by     *)
(* coroutines that run or wait for the socket, and a response reaches the           *)
(* coroutine that asked for it.                                                       *)
EXTENDS KafkaBroker, FiniteSetTheorems, TLAPS

(***************************************************************************)
(* The inductive invariant                                                   *)
(***************************************************************************)

\* Where a coroutine is in its thread's nest, and where it owns a lock.
Running == {"open", "woken", "dialling", "wake", "send", "readied", "write", "wunlock", "rlock",
            "read", "runlock", "result", "finish", "thrown"}
WHolding == {"write", "writing", "stuck", "wunlock"}
RHolding == {"read", "header", "body", "runlock", "thrown"}

\* A queue holds those whom f puts at the places that belong to it, each once.
QueueOK(q, f, places) == IsInjective(q) /\ ToSet(q) = {c \in Callers : f[c] \in places}

\* The first of a lock's queue holds it, the others wait.
LockOK(q, f, holding, waiting) ==
  /\ QueueOK(q, f, holding \cup {waiting})
  /\ q # <<>> => f[Head(q)] \in holding
  /\ \A c, d \in Callers : f[c] \in holding /\ f[d] \in holding => c = d

PlacesOK ==
  /\ QueueOK(stack, pc, Running)
  /\ QueueOK(opened, pc, {"opening", "ready"})
  /\ LockOK(wlock, pc, WHolding, "wwait")
  /\ LockOK(rlock, pc, RHolding, "rwait")

\* A socket is dialled once: the one who dials it and then negotiates is the opener,
\* and whoever waits for it is resumed before the opener leaves Open().
DialOK ==
  /\ \A c \in Callers : pc[c] = "dial" => fd = "connecting"
  /\ \A c, d \in Callers : pc[c] = "dial" /\ pc[d] = "dial" => c = d
  /\ conn = "opening" => \E c \in Callers : pc[c] = "dial"
  /\ fd \in {"new", "connecting"} => \A c \in Callers : job[c] = "Request"
  /\ OneOpener
  /\ opened # <<>> => \E c \in Callers : pc[c] \in {"dial", "wake"} \/ job[c] # "Request"

\* What is on the wire or in the inbox.
NetOK ==
  /\ fd # "up" => wire = <<>>
  /\ fd = "dead" => inbox = <<>>
  /\ \A i \in 1..Len(inbox) : inbox[i].part = "header" =>
       i + 1 \in 1..Len(inbox) /\ inbox[i + 1].part = "body" /\ inbox[i + 1].of = inbox[i].of
  /\ \A c \in Callers : pc[c] = "writing" => waited

\* As long as no Write waited, the one who holds m_wlock on a live socket is alone with it
\* and writes at once what it has encoded, or is stuck for good.
SoloWriter ==
  wlock # <<>> => \/ pc[Head(wlock)] = "stuck"
                  \/ Tail(wlock) = <<>> /\ stack # <<>> /\ Head(stack) = Head(wlock)

Asked == {"wunlock", "rlock", "rwait", "read", "header", "body"}
InFlight == ToSet(wire) \cup {m.of : m \in ToSet(inbox)}

\* Hence ids are never shared: whatever is in flight under the id of a coroutine that has
\* asked is what that coroutine sent.
IdsOK ==
  /\ SoloWriter
  /\ \A c \in Callers : /\ pc[c] = "write" => id[c] = cid
                        /\ pc[c] \in Asked => id[c] < cid
                        /\ pc[c] = "body" => inbox # <<>> /\ Head(inbox).of = Sent(c)
  /\ \A r \in InFlight : r.id < cid /\ \A c \in Callers : pc[c] \in Asked /\ r.id = id[c] => r = Sent(c)

OwnOK == ~waited => OwnResponse /\ (fd # "dead" => IdsOK)

Inv == TypeOK /\ PlacesOK /\ DialOK /\ NetOK /\ OwnOK

(***************************************************************************)
(* Queues                                                                    *)
(***************************************************************************)

(* Two queues one after the other.                                                  *)
LEMMA ConcatSet ==
  ASSUME NEW S, NEW a \in Seq(S), NEW d \in Seq(S)
  PROVE  /\ ToSet(a \o d) = ToSet(a) \cup ToSet(d)
         /\ IsInjective(a \o d) <=> /\ IsInjective(a) /\ IsInjective(d)
                                    /\ ToSet(a) \cap ToSet(d) = {}
<1>1. PICK m \in Nat, n \in Nat, c \in Seq(S) : m = Len(a) /\ n = Len(d) /\ c = a \o d
  <2>1. Len(a) \in Nat /\ Len(d) \in Nat /\ a \o d \in Seq(S)
    OBVIOUS
  <2> QED BY <2>1, Zenon
<1>2. /\ DOMAIN a = 1..m /\ DOMAIN d = 1..n /\ DOMAIN c = 1..(m + n)
      /\ \A i \in 1..m : c[i] = a[i]
      /\ \A i \in 1..(m + n) : i > m => c[i] = d[i - m]
  BY <1>1
<1>3. \A i \in 1..n : i + m \in 1..(m + n) /\ i + m > m /\ c[i + m] = d[i]
  <2> SUFFICES ASSUME NEW i \in 1..n
               PROVE  i + m \in 1..(m + n) /\ i + m > m /\ c[i + m] = d[i]
    OBVIOUS
  <2>1. i + m \in 1..(m + n) /\ i + m > m /\ (i + m) - m = i
    OBVIOUS
  <2> QED BY <1>2, <2>1
<1>4. ToSet(c) = ToSet(a) \cup ToSet(d)
  <2>1. ASSUME NEW x \in ToSet(c) PROVE x \in ToSet(a) \cup ToSet(d)
    <3>1. PICK i \in 1..(m + n) : x = c[i]
      BY <1>2, <2>1 DEF ToSet
    <3>2. CASE i <= m
      <4>1. i \in 1..m
        BY <3>2
      <4> QED BY <1>2, <3>1, <4>1 DEF ToSet
    <3>3. CASE i > m
      <4>1. i - m \in 1..n
        BY <3>3
      <4> QED BY <1>2, <3>1, <3>3, <4>1 DEF ToSet
    <3> QED BY <3>2, <3>3
  <2>2. ASSUME NEW x \in ToSet(a) PROVE x \in ToSet(c)
    <3>1. PICK i \in 1..m : x = a[i]
      BY <1>2, <2>2 DEF ToSet
    <3>2. i \in 1..(m + n)
      OBVIOUS
    <3> QED BY <1>2, <3>1, <3>2 DEF ToSet
  <2>3. ASSUME NEW x \in ToSet(d) PROVE x \in ToSet(c)
    <3>1. PICK i \in 1..n : x = d[i]
      BY <1>2, <2>3 DEF ToSet
    <3> QED BY <1>2, <1>3, <3>1 DEF ToSet
  <2> QED BY <2>1, <2>2, <2>3
<1>5. ASSUME IsInjective(c)
      PROVE  IsInjective(a) /\ IsInjective(d) /\ ToSet(a) \cap ToSet(d) = {}
  <2>1. \A i, j \in 1..(m + n) : c[i] = c[j] => i = j
    BY <1>2, <1>5 DEF IsInjective
  <2>2. IsInjective(a)
    <3>1. \A i \in 1..m : i \in 1..(m + n)
      OBVIOUS
    <3> QED BY <1>2, <2>1, <3>1 DEF IsInjective
  <2>3. IsInjective(d)
    <3>1. ASSUME NEW i \in 1..n, NEW j \in 1..n, d[i] = d[j] PROVE i = j
      <4>1. i + m = j + m
        BY <1>3, <2>1, <3>1
      <4> QED BY <4>1
    <3> QED BY <1>2, <3>1 DEF IsInjective
  <2>4. ASSUME NEW x \in ToSet(a), x \in ToSet(d) PROVE FALSE
    <3>1. PICK i \in 1..m, j \in 1..n : a[i] = x /\ d[j] = x
      BY <1>2, <2>4 DEF ToSet
    <3>2. i \in 1..(m + n) /\ j + m \in 1..(m + n) /\ i # j + m
      OBVIOUS
    <3>3. c[i] = x /\ c[j + m] = x
      BY <1>2, <1>3, <3>1
    <3> QED BY <2>1, <3>2, <3>3
  <2> QED BY <2>2, <2>3, <2>4
<1>6. ASSUME IsInjective(a), IsInjective(d), ToSet(a) \cap ToSet(d) = {}
      PROVE  IsInjective(c)
  <2>1. /\ \A i, j \in 1..m : a[i] = a[j] => i = j
        /\ \A i, j \in 1..n : d[i] = d[j] => i = j
        /\ \A i \in 1..m, j \in 1..n : a[i] # d[j]
    <3>1. /\ \A i, j \in 1..m : a[i] = a[j] => i = j
          /\ \A i, j \in 1..n : d[i] = d[j] => i = j
      BY <1>2, <1>6 DEF IsInjective
    <3>2. (\A i \in 1..m : a[i] \in ToSet(a)) /\ \A j \in 1..n : d[j] \in ToSet(d)
      BY <1>2 DEF ToSet
    <3> QED BY <1>6, <3>1, <3>2
  <2>2. ASSUME NEW i \in 1..(m + n), NEW j \in 1..(m + n), c[i] = c[j] PROVE i = j
    <3>1. CASE i <= m /\ j <= m
      <4>1. i \in 1..m /\ j \in 1..m
        BY <3>1
      <4> QED BY <1>2, <2>1, <2>2, <4>1
    <3>2. CASE i > m /\ j > m
      <4>1. i - m \in 1..n /\ j - m \in 1..n
        BY <3>2
      <4>2. i - m = j - m
        BY <1>2, <2>1, <2>2, <3>2, <4>1
      <4> QED BY <4>2
    <3>3. CASE i <= m /\ j > m
      <4>1. i \in 1..m /\ j - m \in 1..n
        BY <3>3
      <4> QED BY <1>2, <2>1, <2>2, <3>3, <4>1
    <3>4. CASE i > m /\ j <= m
      <4>1. j \in 1..m /\ i - m \in 1..n
        BY <3>4
      <4> QED BY <1>2, <2>1, <2>2, <3>4, <4>1
    <3> QED BY <3>1, <3>2, <3>3, <3>4
  <2> QED BY <1>2, <2>2 DEF IsInjective
<1> QED BY <1>1, <1>4, <1>5, <1>6

LEMMA SingletonSet ==
  ASSUME NEW S, NEW x \in S
  PROVE  <<x>> \in Seq(S) /\ ToSet(<<x>>) = {x} /\ IsInjective(<<x>>)
<1>1. PICK u \in Seq(S) : u = <<x>> /\ DOMAIN u = 1..1 /\ u[1] = x
  <2>1. <<x>> \in Seq(S) /\ DOMAIN <<x>> = 1..1 /\ <<x>>[1] = x
    OBVIOUS
  <2> QED BY <2>1, Zenon
<1>2. \A i \in 1..1 : i = 1
  OBVIOUS
<1>3. ToSet(u) = {x}
  BY <1>1, <1>2 DEF ToSet
<1>4. IsInjective(u)
  BY <1>1, <1>2 DEF IsInjective
<1> QED BY <1>1, <1>3, <1>4

(* SetToSeq of a finite set has every element once.                                   *)
LEMMA SetToSeqOK ==
  ASSUME NEW S, IsFiniteSet(S)
  PROVE  /\ SetToSeq(S) \in Seq(S) /\ ToSet(SetToSeq(S)) = S
         /\ IsInjective(SetToSeq(S))
<1>1. PICK n \in Nat : n = Cardinality(S) /\ ExistsBijection(1..n, S)
  BY FS_CardinalityType
<1>2. \E f \in [1..n -> S] : IsInjective(f)
  BY <1>1 DEF ExistsBijection, Bijection, Injection
<1>3. PICK f \in [1..n -> S] : f = SetToSeq(S) /\ IsInjective(f)
  BY <1>1, <1>2 DEF SetToSeq
<1>4. ToSet(f) = S
  <2>1. ToSet(f) \subseteq S
    BY DEF ToSet
  <2>2. f \in Bijection(1..n, ToSet(f))
    <3>1. f \in [1..n -> ToSet(f)] /\ \A x \in ToSet(f) : \E i \in 1..n : f[i] = x
      BY DEF ToSet
    <3> QED BY <1>3, <3>1 DEF Bijection, Injection, Surjection, IsInjective
  <2>3. Cardinality(ToSet(f)) = n
    BY <2>2, FS_CountingElements DEF ExistsBijection
  <2> QED BY <1>1, <2>1, <2>3, FS_Subset
<1> QED BY <1>3, <1>4

LEMMA Joined ==
  ASSUME NEW S, NEW s \in Seq(S), NEW x \in S
  PROVE  /\ Append(s, x) \in Seq(S) /\ ToSet(Append(s, x)) = ToSet(s) \cup {x}
         /\ IsInjective(s) /\ x \notin ToSet(s) => IsInjective(Append(s, x))
         /\ Append(s, x) # <<>>
         /\ s # <<>> => Head(Append(s, x)) = Head(s)
         /\ s = <<>> => Head(Append(s, x)) = x /\ Tail(Append(s, x)) = <<>>
<1>1. PICK u \in Seq(S) : u = <<x>>
  BY SingletonSet, Zenon
<1>2. Append(s, x) = s \o u /\ Append(s, x) \in Seq(S)
  BY <1>1
<1>3. ToSet(u) = {x} /\ IsInjective(u)
  BY <1>1, SingletonSet
<1>4. /\ ToSet(s \o u) = ToSet(s) \cup {x}
      /\ IsInjective(s) /\ x \notin ToSet(s) => IsInjective(s \o u)
  BY <1>3, ConcatSet
<1>5. Append(s, x) # <<>> /\ (s # <<>> => Head(Append(s, x)) = Head(s))
  OBVIOUS
<1>6. ASSUME s = <<>> PROVE Head(Append(s, x)) = x /\ Tail(Append(s, x)) = <<>>
  <2>1. Append(s, x) \in Seq(S) /\ Len(Append(s, x)) = 1 /\ Head(Append(s, x)) = x
    BY <1>6
  <2> QED BY <2>1
<1> QED BY <1>2, <1>4, <1>5, <1>6

LEMMA Pushed ==
  ASSUME NEW S, NEW s \in Seq(S), NEW x \in S
  PROVE  /\ <<x>> \o s \in Seq(S) /\ ToSet(<<x>> \o s) = ToSet(s) \cup {x}
         /\ IsInjective(s) /\ x \notin ToSet(s) => IsInjective(<<x>> \o s)
         /\ <<x>> \o s # <<>> /\ Head(<<x>> \o s) = x
<1>1. PICK u \in Seq(S) : u = <<x>>
  BY SingletonSet, Zenon
<1>2. ToSet(u) = {x} /\ IsInjective(u)
  BY <1>1, SingletonSet
<1>3. /\ ToSet(u \o s) = ToSet(s) \cup {x}
      /\ IsInjective(s) /\ x \notin ToSet(s) => IsInjective(u \o s)
  BY <1>2, ConcatSet
<1>4. u \o s \in Seq(S) /\ u \o s # <<>> /\ Head(u \o s) = x
  BY <1>1
<1> QED BY <1>1, <1>3, <1>4, Zenon

LEMMA Popped ==
  ASSUME NEW S, NEW s \in Seq(S), s # <<>>
  PROVE  /\ Head(s) \in S /\ Tail(s) \in Seq(S) /\ ToSet(s) = ToSet(Tail(s)) \cup {Head(s)}
         /\ IsInjective(s) => IsInjective(Tail(s)) /\ Head(s) \notin ToSet(Tail(s))
<1>1. Head(s) \in S /\ Tail(s) \in Seq(S)
  OBVIOUS
<1>2. PICK h \in S, t \in Seq(S) : h = Head(s) /\ t = Tail(s)
  BY <1>1, Zenon
<1>3. PICK u \in Seq(S) : u = <<h>>
  BY SingletonSet, Zenon
<1>4. s = u \o t
  BY <1>2, <1>3
<1>5. ToSet(u) = {h} /\ IsInjective(u)
  BY <1>3, SingletonSet
<1>6. /\ ToSet(u \o t) = ToSet(t) \cup {h}
      /\ IsInjective(u \o t) => IsInjective(t) /\ h \notin ToSet(t)
  BY <1>5, ConcatSet
<1> QED BY <1>1, <1>2, <1>4, <1>6, Zenon

LEMMA Nobody == ToSet(<<>>) = {} /\ IsInjective(<<>>)
  BY DEF ToSet, IsInjective

(* Somebody comes to the places of a queue, at its end or its front; its first leaves. *)
LEMMA QueueJoins ==
  ASSUME NEW f, NEW g, NEW q \in Seq(Callers), NEW x \in Callers, NEW P,
         QueueOK(q, f, P), f[x] \notin P, g[x] \in P, \A d \in Callers \ {x} : g[d] = f[d]
  PROVE  QueueOK(Append(q, x), g, P) /\ QueueOK(<<x>> \o q, g, P)
<1>1. x \notin ToSet(q) /\ IsInjective(q)
  BY DEF QueueOK
<1>2. ToSet(q) \cup {x} = {c \in Callers : g[c] \in P}
  BY DEF QueueOK
<1> QED BY <1>1, <1>2, Joined, Pushed DEF QueueOK

LEMMA QueueLeaves ==
  ASSUME NEW f, NEW g, NEW q \in Seq(Callers), q # <<>>, NEW P,
         QueueOK(q, f, P), g[Head(q)] \notin P, \A d \in Callers \ {Head(q)} : g[d] \in P <=> f[d] \in P
  PROVE  QueueOK(Tail(q), g, P)
<1>1. /\ IsInjective(Tail(q)) /\ Head(q) \notin ToSet(Tail(q)) /\ Head(q) \in Callers
      /\ ToSet(q) = ToSet(Tail(q)) \cup {Head(q)}
  BY Popped DEF QueueOK
<1>2. ToSet(Tail(q)) = {c \in Callers : g[c] \in P}
  BY <1>1 DEF QueueOK
<1> QED BY <1>1, <1>2 DEF QueueOK

LEMMA LockJoins ==
  ASSUME NEW f, NEW g, NEW q \in Seq(Callers), NEW x \in Callers, NEW H, NEW w, w \notin H,
         LockOK(q, f, H, w), f[x] \notin H \cup {w}, \A d \in Callers \ {x} : g[d] = f[d],
         IF q = <<>> THEN g[x] \in H ELSE g[x] = w
  PROVE  LockOK(Append(q, x), g, H, w)
<1>1. QueueOK(Append(q, x), g, H \cup {w})
  <2>1. PICK P : P = H \cup {w}
    OBVIOUS
  <2>2. QueueOK(q, f, P) /\ f[x] \notin P /\ g[x] \in P
    BY <2>1 DEF LockOK
  <2>3. QueueOK(Append(q, x), g, P)
    BY <2>2, QueueJoins
  <2> QED BY <2>1, <2>3
<1>2. CASE q = <<>>
  <2>1. \A d \in Callers : f[d] \notin H
    BY <1>2, Nobody DEF LockOK, QueueOK
  <2>2. Head(Append(q, x)) = x
    BY <1>2, Joined
  <2> QED BY <1>1, <1>2, <2>1, <2>2 DEF LockOK
<1>3. CASE q # <<>>
  <2>1. Head(Append(q, x)) = Head(q) /\ Head(q) \in Callers /\ Head(q) \in ToSet(q)
    BY <1>3, Joined, Popped
  <2>2. Head(q) # x
    BY <2>1 DEF LockOK, QueueOK
  <2> QED BY <1>1, <1>3, <2>1, <2>2 DEF LockOK
<1> QED BY <1>2, <1>3

(* The holder lets go: the first waiter, if any, is the next.                         *)
LEMMA LockLeaves ==
  ASSUME NEW f, NEW g, NEW q \in Seq(Callers), q # <<>>, NEW H, NEW w, w \notin H,
         LockOK(q, f, H, w), g[Head(q)] \notin H \cup {w},
         Tail(q) # <<>> => g[Head(Tail(q))] \in H,
         \A d \in Callers \ {Head(q)} : (Tail(q) # <<>> /\ d = Head(Tail(q))) \/ g[d] = f[d]
  PROVE  LockOK(Tail(q), g, H, w)
<1>1. /\ Tail(q) \in Seq(Callers) /\ Head(q) \in Callers
      /\ Tail(q) # <<>> => Head(Tail(q)) \in Callers /\ Head(Tail(q)) \in ToSet(Tail(q))
      /\ ToSet(q) = ToSet(Tail(q)) \cup {Head(q)}
  <2>1. Tail(q) \in Seq(Callers) /\ Head(q) \in Callers /\ ToSet(q) = ToSet(Tail(q)) \cup {Head(q)}
    BY Popped
  <2>2. PICK t \in Seq(Callers) : t = Tail(q)
    BY <2>1, Zenon
  <2>3. t # <<>> => Head(t) \in Callers /\ Head(t) \in ToSet(t)
    BY Popped
  <2> QED BY <2>1, <2>2, <2>3
<1>2. Tail(q) # <<>> => f[Head(Tail(q))] \in H \cup {w}
  BY <1>1 DEF LockOK, QueueOK
<1>3. QueueOK(Tail(q), g, H \cup {w})
  BY <1>2, QueueLeaves DEF LockOK
<1>4. \A d \in Callers : d # Head(q) => f[d] \notin H
  BY <1>1 DEF LockOK
<1> QED BY <1>1, <1>3, <1>4 DEF LockOK

(* Whoever holds a lock is the first of its queue.                                     *)
LEMMA Holder ==
  ASSUME NEW f, NEW q \in Seq(Callers), NEW H, NEW w, LockOK(q, f, H, w), NEW c \in Callers, f[c] \in H
  PROVE  q # <<>> /\ Head(q) = c
<1>1. q # <<>>
  BY Nobody DEF LockOK, QueueOK
<1> QED BY <1>1, Popped DEF LockOK

(***************************************************************************)
(* What the steps have in common                                             *)
(***************************************************************************)

\* From a to b without entering or leaving the queues of the locks and of m_opened.
SameQueues(a, b) ==
  /\ (a \in WHolding <=> b \in WHolding) /\ (a = "wwait" <=> b = "wwait")
  /\ (a \in RHolding <=> b \in RHolding) /\ (a = "rwait" <=> b = "rwait")
  /\ (a \in {"opening", "ready"} <=> b \in {"opening", "ready"})

LEMMA QueuesStay ==
  ASSUME PlacesOK, UNCHANGED <<wlock, rlock, opened>>, QueueOK(stack', pc', Running),
         TypeOK, \A d \in Callers : SameQueues(pc[d], pc'[d])
  PROVE  PlacesOK'
<1>1. QueueOK(opened, pc', {"opening", "ready"})
  BY DEF PlacesOK, QueueOK, SameQueues
<1>2. LockOK(wlock, pc', WHolding, "wwait")
  <2>1. wlock # <<>> => Head(wlock) \in Callers
    BY DEF TypeOK
  <2> QED BY <2>1 DEF PlacesOK, LockOK, QueueOK, SameQueues
<1>3. LockOK(rlock, pc', RHolding, "rwait")
  <2>1. rlock # <<>> => Head(rlock) \in Callers
    BY DEF TypeOK
  <2> QED BY <2>1 DEF PlacesOK, LockOK, QueueOK, SameQueues
<1> QED BY <1>1, <1>2, <1>3 DEF PlacesOK

LEMMA SameQueuesSame == \A a : SameQueues(a, a)
  BY DEF SameQueues

\* The running coroutine, or the event loop's next one, moves on its own.
Moves(c, w) == pc' = [pc EXCEPT ![c] = w] /\ UNCHANGED <<wlock, rlock, opened>>

LEMMA MovesOK ==
  ASSUME TypeOK, NEW c \in Callers, NEW w \in Pcs, pc' = [pc EXCEPT ![c] = w]
  PROVE  pc' \in [Callers -> Pcs] /\ pc'[c] = w /\ \A d \in Callers \ {c} : pc'[d] = pc[d]
  BY DEF TypeOK

LEMMA GoesOn ==
  ASSUME TypeOK, PlacesOK, NEW c \in Callers, NEW w \in Running \cap Pcs, Moves(c, w), Runs(c),
         SameQueues(pc[c], w), UNCHANGED stack
  PROVE  PlacesOK'
<1>1. pc'[c] = w /\ \A d \in Callers \ {c} : pc'[d] = pc[d]
  BY MovesOK DEF Moves
<1>2. c \in ToSet(stack)
  BY Popped DEF Runs, TypeOK
<1>3. pc[c] \in Running
  BY <1>2 DEF PlacesOK, QueueOK
<1>4. QueueOK(stack', pc', Running)
  BY <1>1, <1>3 DEF PlacesOK, QueueOK
<1> QED BY <1>1, <1>4, QueuesStay, SameQueuesSame DEF Moves

LEMMA Rests ==
  ASSUME TypeOK, PlacesOK, NEW c \in Callers, NEW w \in Pcs \ Running, Moves(c, w), Runs(c),
         SameQueues(pc[c], w), stack' = Tail(stack)
  PROVE  PlacesOK' /\ stack' \in Seq(Callers)
<1>1. pc'[c] = w /\ \A d \in Callers \ {c} : pc'[d] = pc[d]
  BY MovesOK DEF Moves
<1>2. stack \in Seq(Callers) /\ stack # <<>> /\ Head(stack) = c /\ Tail(stack) \in Seq(Callers)
  BY Popped DEF Runs, TypeOK
<1>3. QueueOK(stack', pc', Running)
  BY <1>1, <1>2, QueueLeaves DEF PlacesOK
<1> QED BY <1>1, <1>2, <1>3, QueuesStay, SameQueuesSame DEF Moves

LEMMA Begins ==
  ASSUME TypeOK, PlacesOK, NEW c \in Callers, NEW w \in Running \cap Pcs, Moves(c, w), Idle,
         SameQueues(pc[c], w), stack' = <<c>>
  PROVE  PlacesOK' /\ stack' \in Seq(Callers)
<1>1. pc'[c] = w /\ \A d \in Callers \ {c} : pc'[d] = pc[d]
  BY MovesOK DEF Moves
<1>2. \A d \in Callers : pc[d] \notin Running
  BY Nobody DEF Idle, PlacesOK, QueueOK
<1>3. stack' \in Seq(Callers) /\ ToSet(stack') = {c} /\ IsInjective(stack')
  BY SingletonSet
<1>4. QueueOK(stack', pc', Running)
  BY <1>1, <1>2, <1>3 DEF QueueOK
<1> QED BY <1>1, <1>3, <1>4, QueuesStay, SameQueuesSame DEF Moves

\* Nothing about the opener changes.
LEMMA DialPasses ==
  ASSUME DialOK, UNCHANGED <<fd, job>>, conn' = "opening" => conn = "opening", opened' # <<>> => opened # <<>>,
         \A d \in Callers : /\ pc'[d] = "dial" <=> pc[d] = "dial"
                            /\ pc[d] = "wake" => pc'[d] = "wake" \/ opened' = <<>>
  PROVE  DialOK'
  BY DEF DialOK, OneOpener

LEMMA NetPasses ==
  ASSUME NetOK, UNCHANGED <<fd, wire, inbox, waited>>,
         \A d \in Callers : pc'[d] = "writing" => pc[d] = "writing"
  PROVE  NetOK'
  BY DEF NetOK

LEMMA OwnPasses ==
  ASSUME OwnOK, UNCHANGED <<cid, got, wire, inbox, waited>>, fd' # "dead" => fd # "dead",
         ~waited /\ fd # "dead" /\ IdsOK => SoloWriter',
         \A d \in Callers :
           /\ pc'[d] \in Asked => pc[d] \in Asked /\ id'[d] = id[d] /\ job'[d] = job[d]
           /\ pc'[d] = "body" => pc[d] = "body"
           /\ pc'[d] = "write" /\ ~waited /\ fd # "dead" /\ IdsOK => id'[d] = cid
  PROVE  OwnOK'
<1>1. OwnResponse => OwnResponse'
  BY DEF OwnResponse
<1>2. ASSUME ~waited, fd # "dead", IdsOK PROVE IdsOK'
  <2>1. \A d \in Callers : pc'[d] \in Asked => Sent(d)' = Sent(d)
    BY DEF Sent
  <2>2. InFlight' = InFlight
    BY DEF InFlight
  <2>3. \A d \in Callers : pc'[d] = "body" => pc'[d] \in Asked
    BY DEF Asked
  <2> QED BY <1>2, <2>1, <2>2, <2>3 DEF IdsOK
<1> QED BY <1>1, <1>2 DEF OwnOK

\* A step of somebody who has nothing to do with m_wlock.
LEMMA SoloPasses ==
  ASSUME TypeOK, PlacesOK, SoloWriter, UNCHANGED wlock,
         stack # <<>> => pc[Head(stack)] \notin WHolding,
         \A d \in Callers : pc[d] = "stuck" => pc'[d] = "stuck"
  PROVE  SoloWriter'
<1>1. wlock # <<>> => Head(wlock) \in Callers /\ pc[Head(wlock)] \in WHolding
  BY Popped DEF TypeOK, PlacesOK, LockOK
<1> QED BY <1>1 DEF SoloWriter

(***************************************************************************)
(* Close: whoever waits on the socket runs inside the closer                 *)
(***************************************************************************)
LEMMA InterruptedOK ==
  ASSUME NEW d \in Callers, d \in Reading \cup Writing
  PROVE  /\ Interrupted(d) \in Running \cap Pcs /\ SameQueues(pc[d], Interrupted(d))
         /\ pc[d] \notin Running /\ Interrupted(d) \notin {"dial", "writing"}
         /\ pc[d] = "dial" => Interrupted(d) = "wake"
         /\ pc[d] # "wake"
  BY DEF Reading, Writing, Interrupted, Running, Pcs, SameQueues, WHolding, RHolding

LEMMA CloseStep ==
  ASSUME Inv, NEW c \in Callers, NEW where \in {"wake", "wunlock", "runlock", "finish"}, NEW failed \in BOOLEAN,
         Close(c, where, failed), UNCHANGED <<cid, wlock, rlock, opened, job, id, got, sasl, named, waited>>,
         SameQueues(pc[c], where), pc[c] = "dial" => where = "wake", pc[c] # "wake",
         (Idle /\ pc[c] \notin Running) \/ (~Idle /\ Head(stack) = c)
  PROVE  Inv'
<1> DEFINE R == SetToSeq(Reading \ {c})
           W == SetToSeq(Writing \ {c})
           rest == IF Idle THEN <<>> ELSE Tail(stack)
<1>1. /\ TypeOK /\ PlacesOK /\ DialOK /\ NetOK /\ OwnOK
  BY DEF Inv
<1>2. where \in Running \cap Pcs /\ where \notin {"dial", "writing"}
  BY DEF Running, Pcs
<1>3. /\ pc'[c] = where /\ pc' \in [Callers -> Pcs]
      /\ \A d \in Callers \ {c} : pc'[d] = IF d \in Reading \cup Writing THEN Interrupted(d) ELSE pc[d]
  <2>1. \A d \in Callers : pc[d] \in Pcs
    BY <1>1 DEF TypeOK
  <2> QED BY <1>2, <2>1, InterruptedOK DEF Close
<1>4. R \in Seq(Callers) /\ ToSet(R) = Reading \ {c} /\ IsInjective(R)
  <2>1. Reading \ {c} \subseteq Callers /\ IsFiniteSet(Reading \ {c})
    BY KafkaBrokerAssumption, FS_Subset DEF Reading
  <2> HIDE DEF R
  <2>2. R \in Seq(Reading \ {c}) /\ ToSet(R) = Reading \ {c} /\ IsInjective(R)
    BY <2>1, SetToSeqOK DEF R
  <2> QED BY <2>1, <2>2
<1>5. W \in Seq(Callers) /\ ToSet(W) = Writing \ {c} /\ IsInjective(W)
  <2>1. Writing \ {c} \subseteq Callers /\ IsFiniteSet(Writing \ {c})
    BY KafkaBrokerAssumption, FS_Subset DEF Writing
  <2> HIDE DEF W
  <2>2. W \in Seq(Writing \ {c}) /\ ToSet(W) = Writing \ {c} /\ IsInjective(W)
    BY <2>1, SetToSeqOK DEF W
  <2> QED BY <2>1, <2>2
<1>6. rest \in Seq(Callers) /\ IsInjective(rest) /\ ToSet(rest) = {d \in Callers \ {c} : pc[d] \in Running}
  <2>1. QueueOK(stack, pc, Running) /\ stack \in Seq(Callers)
    BY <1>1 DEF PlacesOK, TypeOK
  <2>2. CASE Idle
    BY <2>1, <2>2, Nobody DEF Idle, QueueOK
  <2>3. CASE ~Idle
    <3>1. /\ Tail(stack) \in Seq(Callers) /\ IsInjective(Tail(stack)) /\ c \notin ToSet(Tail(stack))
          /\ ToSet(stack) = ToSet(Tail(stack)) \cup {c}
      BY <2>1, <2>3, Popped DEF Idle, QueueOK
    <3> QED BY <2>1, <2>3, <3>1 DEF QueueOK
  <2> QED BY <2>2, <2>3
<1>7. stack' = R \o W \o <<c>> \o rest
  BY DEF Close
<1> HIDE DEF R, W, rest
<1>8. stack' \in Seq(Callers) /\ IsInjective(stack') /\ ToSet(stack') = Reading \cup Writing \cup {c} \cup ToSet(rest)
  <2>1. PICK u \in Seq(Callers) : u = <<c>> /\ ToSet(u) = {c} /\ IsInjective(u)
    BY SingletonSet, Zenon
  <2>2. Reading \cap Writing = {}
    BY DEF Reading, Writing
  <2>3. \A d \in Reading \cup Writing : d \in Callers /\ pc[d] \notin Running
    BY InterruptedOK DEF Reading, Writing
  <2>4. /\ R \o W \in Seq(Callers) /\ IsInjective(R \o W)
        /\ ToSet(R \o W) = (Reading \cup Writing) \ {c}
    BY <1>4, <1>5, <2>2, ConcatSet
  <2>5. PICK v \in Seq(Callers) : v = R \o W
    BY <2>4, Zenon
  <2>6. v \o u \in Seq(Callers) /\ IsInjective(v \o u) /\ ToSet(v \o u) = Reading \cup Writing \cup {c}
    <3>1. IsInjective(u) /\ IsInjective(v) /\ ToSet(v) = (Reading \cup Writing) \ {c} /\ ToSet(v) \cap ToSet(u) = {}
      BY <2>1, <2>4, <2>5
    <3>2. v \o u \in Seq(Callers) /\ IsInjective(v \o u) /\ ToSet(v \o u) = ToSet(v) \cup ToSet(u)
      BY <3>1, ConcatSet
    <3> QED BY <2>1, <3>1, <3>2
  <2>7. PICK t \in Seq(Callers) : t = v \o u
    BY <2>6, Zenon
  <2>8. ToSet(t) \cap ToSet(rest) = {}
    BY <1>6, <2>3, <2>6, <2>7
  <2>9. t \o rest \in Seq(Callers) /\ IsInjective(t \o rest) /\ ToSet(t \o rest) = ToSet(t) \cup ToSet(rest)
    <3>1. rest \in Seq(Callers) /\ IsInjective(rest) /\ IsInjective(t)
      BY <1>6, <2>6, <2>7
    <3> QED BY <2>8, <3>1, ConcatSet
  <2>10. stack' = t \o rest
    BY <1>7, <2>1, <2>5, <2>7
  <2> QED BY <2>6, <2>7, <2>9, <2>10
<1>9. QueueOK(stack', pc', Running)
  <2>1. \A d \in Callers : pc'[d] \in Running <=> d \in Reading \cup Writing \cup {c} \cup ToSet(rest)
    BY <1>2, <1>3, <1>6, InterruptedOK
  <2>2. \A d \in ToSet(stack') : d \in Callers
    BY <1>6, <1>8 DEF Reading, Writing
  <2> QED BY <1>8, <2>1, <2>2 DEF QueueOK
<1>10. PlacesOK'
  <2>1. \A d \in Callers : SameQueues(pc[d], pc'[d])
    BY <1>3, InterruptedOK, SameQueuesSame
  <2> QED BY <1>1, <1>9, <2>1, QueuesStay
<1>11. TypeOK'
  <2>1. conn' = "closed" /\ fd' = "dead" /\ wire' = <<>> /\ inbox' = <<>>
    BY DEF Close
  <2>2. err' \in [Callers -> BOOLEAN]
    BY <1>1 DEF Close, TypeOK
  <2>3. wire' \in Seq(Requests) /\ inbox' \in Seq([part: {"header", "body"}, of: Requests])
    BY <2>1
  <2> QED BY <1>1, <1>3, <1>8, <2>1, <2>2, <2>3 DEF TypeOK
<1>12. DialOK'
  <2>1. conn' = "closed" /\ fd' = "dead" /\ UNCHANGED <<job, opened>>
    BY DEF Close
  <2>2. \A d \in Callers : pc'[d] # "dial" /\ (pc[d] \in {"dial", "wake"} => pc'[d] = "wake")
    <3>1. \A d \in Callers : pc[d] = "dial" => d \in Reading
      BY DEF Reading
    <3> QED BY <1>2, <1>3, <3>1, InterruptedOK
  <2> QED BY <1>1, <2>1, <2>2 DEF DialOK, OneOpener
<1>13. NetOK'
  <2>1. fd' = "dead" /\ wire' = <<>> /\ inbox' = <<>>
    BY DEF Close
  <2>2. \A d \in Callers : pc'[d] # "writing"
    <3>1. \A d \in Callers : pc[d] = "writing" => d \in Writing
      BY DEF Writing
    <3> QED BY <1>2, <1>3, <3>1, InterruptedOK
  <2> QED BY <2>1, <2>2 DEF NetOK
<1>14. OwnOK'
  BY <1>1 DEF OwnOK, OwnResponse, Close
<1> QED BY <1>10, <1>11, <1>12, <1>13, <1>14 DEF Inv

(***************************************************************************)
(* The steps of the running coroutine                                        *)
(***************************************************************************)

\* Places that have to do with the socket or with m_wlock.
Marked == WHolding \cup {"dial", "body"}

(* A step of c that touches neither the connection nor a lock nor its request.         *)
LEMMA PlainStep ==
  ASSUME TypeOK, PlacesOK, DialOK, NetOK, OwnOK, NEW c \in Callers, NEW w \in Pcs,
         pc' = [pc EXCEPT ![c] = w], pc[c] \notin Marked \cup {"wake"}, w \notin Marked,
         w \in Asked => pc[c] \in Asked, Idle \/ Head(stack) = c,
         UNCHANGED <<fd, cid, wlock, opened, job, got, wire, inbox, waited>>,
         w \notin Asked \/ UNCHANGED id, \A d \in Callers \ {c} : id'[d] = id[d],
         conn' = "opening" => conn = "opening"
  PROVE  DialOK' /\ NetOK' /\ OwnOK'
<1>1. pc'[c] = w /\ \A d \in Callers \ {c} : pc'[d] = pc[d]
  BY MovesOK
<1>2. DialOK'
  BY <1>1, DialPasses DEF Marked
<1>3. NetOK'
  BY <1>1, NetPasses DEF Marked, WHolding
<1>4. ASSUME SoloWriter PROVE SoloWriter'
  BY <1>1, <1>4, SoloPasses DEF Marked, WHolding, Idle
<1>5. OwnOK'
  BY <1>1, <1>4, OwnPasses DEF Marked, WHolding, IdsOK
<1> QED BY <1>2, <1>3, <1>5

(* c runs at the place the code says.                                                   *)
LEMMA RunsOK ==
  ASSUME TypeOK, NEW c \in Callers, Runs(c)
  PROVE  stack \in Seq(Callers) /\ stack # <<>> /\ Head(stack) = c /\ ~Idle
  BY DEF TypeOK, Runs, Idle

LEMMA CallStep ==
  ASSUME Inv, NEW c \in Callers, Call(c)
  PROVE  Inv'
<1>1. TypeOK /\ PlacesOK /\ DialOK /\ NetOK /\ OwnOK
  BY DEF Inv
<1>2. PICK w \in {"open", "send"} : Resume(c, w)
  BY DEF Call
<1>3. /\ pc[c] = "idle" /\ Idle /\ pc' = [pc EXCEPT ![c] = w] /\ stack' = <<c>>
      /\ UNCHANGED <<conn, fd, cid, wlock, rlock, opened, job, id, err, got, wire, inbox, sasl, named, waited>>
  BY <1>2 DEF Call, Waits, Resume, connVars, lockVars, callVars, netVars, confVars
<1>4. w \in Running \cap Pcs /\ SameQueues(pc[c], w) /\ w \notin Marked \cup Asked
      /\ pc[c] \notin Marked \cup {"wake"}
  BY <1>3 DEF Running, Pcs, SameQueues, Marked, Asked, WHolding, RHolding
<1>5. PlacesOK' /\ stack' \in Seq(Callers)
  BY <1>1, <1>3, <1>4, Begins DEF Moves
<1>6. TypeOK'
  BY <1>1, <1>3, <1>4, <1>5, MovesOK DEF TypeOK
<1>7. DialOK' /\ NetOK' /\ OwnOK'
  BY <1>1, <1>3, <1>4, PlainStep
<1> QED BY <1>5, <1>6, <1>7 DEF Inv

(* Connect::Dial.                                                                        *)
LEMMA DialStep ==
  ASSUME Inv, NEW c \in Callers, Runs(c), pc[c] \in {"open", "woken", "dialling"}, Dial(c)
  PROVE  Inv'
<1>1. TypeOK /\ PlacesOK /\ DialOK /\ NetOK /\ OwnOK
  BY DEF Inv
<1>2. stack \in Seq(Callers) /\ stack # <<>> /\ Head(stack) = c /\ ~Idle
  BY <1>1, RunsOK
<1>3. CASE fd = "new"
  <2>1. /\ conn' = "opening" /\ fd' = "connecting" /\ pc' = [pc EXCEPT ![c] = "dial"] /\ stack' = Tail(stack)
        /\ UNCHANGED <<cid, wlock, rlock, opened, job, id, err, got, wire, inbox, sasl, named, waited>>
    BY <1>3 DEF Dial, Suspend, lockVars, netVars, confVars
  <2>2. "dial" \in Pcs \ Running /\ SameQueues(pc[c], "dial") /\ pc[c] \notin Marked
    BY DEF Running, Pcs, SameQueues, Marked, WHolding, RHolding
  <2>3. PlacesOK' /\ stack' \in Seq(Callers)
    BY <1>1, <2>1, <2>2, Rests DEF Moves
  <2>4. pc'[c] = "dial" /\ (\A d \in Callers \ {c} : pc'[d] = pc[d]) /\ pc' \in [Callers -> Pcs]
    BY <1>1, <2>1, <2>2, MovesOK
  <2>5. TypeOK'
    BY <1>1, <2>1, <2>3, <2>4 DEF TypeOK
  <2>6. DialOK'
    <3>1. \A d \in Callers : pc[d] # "dial" /\ job[d] = "Request"
      BY <1>1, <1>3 DEF DialOK
    <3> QED BY <2>1, <2>4, <3>1 DEF DialOK, OneOpener
  <2>7. NetOK'
    BY <1>1, <1>3, <2>1, <2>4 DEF NetOK
  <2>8. ASSUME SoloWriter PROVE SoloWriter'
    BY <1>1, <1>2, <2>1, <2>2, <2>4, <2>8, SoloPasses DEF Marked, WHolding
  <2>9. OwnOK'
    BY <1>1, <1>3, <2>1, <2>4, <2>8, OwnPasses DEF IdsOK, Asked
  <2> QED BY <2>3, <2>5, <2>6, <2>7, <2>9 DEF Inv
<1>4. CASE fd # "new"
  <2>1. Close(c, "wake", TRUE) /\ UNCHANGED <<cid, wlock, rlock, opened, job, id, got, sasl, named, waited>>
    BY <1>4 DEF Dial, lockVars, confVars
  <2>2. SameQueues(pc[c], "wake") /\ pc[c] \notin {"dial", "wake"}
    BY DEF SameQueues, WHolding, RHolding
  <2> QED BY <1>2, <2>1, <2>2, CloseStep
<1> QED BY <1>3, <1>4

(* A coroutine goes to wait in m_opened while somebody dials.                             *)
LEMMA WaitOpened ==
  ASSUME Inv, NEW c \in Callers, Runs(c), pc[c] \in {"open", "send"}, conn = "opening",
         NEW w \in {"opening", "ready"}, Suspend(c, w), opened' = Append(opened, c),
         UNCHANGED <<conn, fd, cid, wlock, rlock, job, id, err, got, wire, inbox, sasl, named, waited>>
  PROVE  Inv'
<1>1. TypeOK /\ PlacesOK /\ DialOK /\ NetOK /\ OwnOK
  BY DEF Inv
<1>2. stack \in Seq(Callers) /\ stack # <<>> /\ Head(stack) = c /\ opened \in Seq(Callers)
      /\ stack' = Tail(stack) /\ pc' = [pc EXCEPT ![c] = w]
  BY <1>1, RunsOK DEF TypeOK, Suspend
<1>3. w \in Pcs /\ w \notin Running \cup Marked \cup Asked \cup WHolding \cup RHolding \cup {"wwait", "rwait"}
      /\ pc[c] \notin Marked \cup {"wake"} \cup RHolding \cup {"wwait", "rwait", "opening", "ready"}
  BY DEF Pcs, Running, Marked, Asked, WHolding, RHolding
<1>4. pc'[c] = w /\ (\A d \in Callers \ {c} : pc'[d] = pc[d]) /\ pc' \in [Callers -> Pcs]
  BY <1>1, <1>2, <1>3, MovesOK
<1>5. opened' \in Seq(Callers) /\ stack' \in Seq(Callers)
  BY <1>2, Joined, Popped
<1>6. TypeOK'
  BY <1>1, <1>4, <1>5 DEF TypeOK
<1>7. PlacesOK'
  <2>1. QueueOK(stack', pc', Running)
    BY <1>1, <1>2, <1>3, <1>4, QueueLeaves DEF PlacesOK
  <2>2. QueueOK(opened', pc', {"opening", "ready"})
    <3>1. QueueOK(opened, pc, {"opening", "ready"})
      BY <1>1 DEF PlacesOK
    <3> QED BY <1>2, <1>3, <1>4, <3>1, QueueJoins
  <2>3. LockOK(wlock', pc', WHolding, "wwait") /\ LockOK(rlock', pc', RHolding, "rwait")
    <3>1. \A d \in Callers : /\ pc'[d] \in WHolding <=> pc[d] \in WHolding
                             /\ pc'[d] = "wwait" <=> pc[d] = "wwait"
                             /\ pc'[d] \in RHolding <=> pc[d] \in RHolding
                             /\ pc'[d] = "rwait" <=> pc[d] = "rwait"
      BY <1>3, <1>4 DEF Marked
    <3>2. (wlock # <<>> => Head(wlock) \in Callers) /\ (rlock # <<>> => Head(rlock) \in Callers)
      BY <1>1, Popped DEF TypeOK
    <3> QED BY <1>1, <3>1, <3>2 DEF PlacesOK, LockOK, QueueOK
  <2> QED BY <2>1, <2>2, <2>3 DEF PlacesOK
<1>8. DialOK'
  <2>1. \E d \in Callers : pc'[d] = "dial"
    BY <1>1, <1>3, <1>4 DEF DialOK, Marked
  <2>2. \A d \in Callers : pc'[d] = "dial" <=> pc[d] = "dial"
    BY <1>3, <1>4 DEF Marked
  <2> QED BY <1>1, <2>1, <2>2 DEF DialOK, OneOpener
<1>9. NetOK'
  BY <1>1, <1>3, <1>4, NetPasses DEF Marked, WHolding
<1>10. ASSUME SoloWriter PROVE SoloWriter'
  BY <1>1, <1>2, <1>3, <1>4, <1>10, SoloPasses DEF Marked, WHolding
<1>11. OwnOK'
  BY <1>1, <1>3, <1>4, <1>10, OwnPasses DEF Marked, WHolding, IdsOK
<1> QED BY <1>6, <1>7, <1>8, <1>9, <1>11 DEF Inv

\* What a plain step leaves alone, apart from conn, pc, stack and err.
Rest == <<fd, cid, wlock, rlock, opened, job, id, got, wire, inbox, sasl, named, waited>>

LEMMA PlainGoto ==
  ASSUME Inv, NEW c \in Callers, Runs(c), NEW w \in Running \cap Pcs, Goto(c, w),
         SameQueues(pc[c], w), pc[c] \notin Marked \cup {"wake"}, w \notin Marked,
         w \in Asked => pc[c] \in Asked, UNCHANGED Rest, UNCHANGED conn,
         err' \in [Callers -> BOOLEAN]
  PROVE  Inv'
<1>1. TypeOK /\ PlacesOK /\ DialOK /\ NetOK /\ OwnOK
  BY DEF Inv
<1>2. pc' = [pc EXCEPT ![c] = w] /\ UNCHANGED stack /\ Head(stack) = c
      /\ UNCHANGED <<fd, cid, wlock, rlock, opened, job, id, got, wire, inbox, sasl, named, waited>>
  BY <1>1, RunsOK DEF Goto, Rest
<1>3. PlacesOK'
  BY <1>1, <1>2, GoesOn DEF Moves
<1>4. TypeOK'
  BY <1>1, <1>2, MovesOK DEF TypeOK
<1>5. DialOK' /\ NetOK' /\ OwnOK'
  BY <1>1, <1>2, PlainStep
<1> QED BY <1>3, <1>4, <1>5 DEF Inv

LEMMA PlainSuspend ==
  ASSUME Inv, NEW c \in Callers, Runs(c), NEW w \in Pcs \ Running, Suspend(c, w),
         SameQueues(pc[c], w), pc[c] \notin Marked \cup {"wake"}, w \notin Marked,
         w \in Asked => pc[c] \in Asked, UNCHANGED Rest,
         conn' \in {conn, "closed"}, err' \in [Callers -> BOOLEAN]
  PROVE  Inv'
<1>1. TypeOK /\ PlacesOK /\ DialOK /\ NetOK /\ OwnOK
  BY DEF Inv
<1>2. pc' = [pc EXCEPT ![c] = w] /\ stack' = Tail(stack) /\ Head(stack) = c
      /\ UNCHANGED <<fd, cid, wlock, rlock, opened, job, id, got, wire, inbox, sasl, named, waited>>
  BY <1>1, RunsOK DEF Suspend, Rest
<1>3. PlacesOK' /\ stack' \in Seq(Callers)
  BY <1>1, <1>2, Rests DEF Moves
<1>4. TypeOK'
  BY <1>1, <1>2, <1>3, MovesOK DEF TypeOK
<1>5. DialOK' /\ NetOK' /\ OwnOK'
  BY <1>1, <1>2, PlainStep
<1> QED BY <1>3, <1>4, <1>5 DEF Inv

LEMMA FailsOK ==
  ASSUME TypeOK, NEW c \in Callers, NEW yes \in BOOLEAN, Fails(c, yes)
  PROVE  err' \in [Callers -> BOOLEAN] /\ UNCHANGED <<job, id, got>>
  BY DEF TypeOK, Fails

(* Open(), first stretch and after the wait in m_opened.                                  *)
LEMMA OpenStep ==
  ASSUME Inv, NEW c \in Callers, Open(c)
  PROVE  Inv'
<1>1. Runs(c) /\ pc[c] = "open" /\ TypeOK /\ err \in [Callers -> BOOLEAN]
  BY DEF Open, At, Inv, TypeOK
<1>2. CASE conn = "opened" /\ Goto(c, "wake") /\ Fails(c, FALSE)
           /\ UNCHANGED <<connVars, cid, lockVars, opened, netVars, confVars, waited>>
  <2>1. "wake" \in Running \cap Pcs /\ SameQueues(pc[c], "wake") /\ "wake" \notin Marked \cup Asked
        /\ pc[c] \notin Marked \cup {"wake"}
    BY <1>1 DEF Running, Pcs, SameQueues, Marked, Asked, WHolding, RHolding
  <2>2. UNCHANGED Rest /\ UNCHANGED conn /\ err' \in [Callers -> BOOLEAN]
    BY <1>1, <1>2, FailsOK DEF connVars, lockVars, netVars, confVars, Rest
  <2> QED BY <1>1, <1>2, <2>1, <2>2, PlainGoto
<1>3. CASE conn = "opening" /\ opened' = Append(opened, c) /\ Suspend(c, "opening")
           /\ UNCHANGED <<connVars, cid, lockVars, callVars, netVars, confVars, waited>>
  BY <1>1, <1>3, WaitOpened DEF connVars, lockVars, callVars, netVars, confVars
<1>4. CASE conn \in {"none", "closed"} /\ named /\ conn' = "closed" /\ Suspend(c, "resolve")
           /\ UNCHANGED <<fd, cid, lockVars, opened, callVars, netVars, confVars, waited>>
  <2>1. "resolve" \in Pcs \ Running /\ SameQueues(pc[c], "resolve") /\ "resolve" \notin Marked \cup Asked
        /\ pc[c] \notin Marked \cup {"wake"}
    BY <1>1 DEF Running, Pcs, SameQueues, Marked, Asked, WHolding, RHolding
  <2>2. UNCHANGED Rest /\ conn' = "closed" /\ err' \in [Callers -> BOOLEAN]
    BY <1>1, <1>4 DEF connVars, lockVars, netVars, callVars, confVars, Rest
  <2> QED BY <1>1, <1>4, <2>1, <2>2, PlainSuspend
<1>5. CASE Dial(c)
  BY <1>1, <1>5, DialStep
<1> QED BY <1>2, <1>3, <1>4, <1>5 DEF Open

LEMMA OpenWokenStep ==
  ASSUME Inv, NEW c \in Callers, OpenWoken(c)
  PROVE  Inv'
<1>1. Runs(c) /\ pc[c] = "woken" /\ TypeOK /\ err \in [Callers -> BOOLEAN]
  BY DEF OpenWoken, At, Inv, TypeOK
<1>2. CASE Goto(c, "wake") /\ Fails(c, TRUE)
           /\ UNCHANGED <<connVars, cid, lockVars, opened, netVars, confVars, waited>>
  <2>1. "wake" \in Running \cap Pcs /\ SameQueues(pc[c], "wake") /\ "wake" \notin Marked \cup Asked
        /\ pc[c] \notin Marked \cup {"wake"}
    BY <1>1 DEF Running, Pcs, SameQueues, Marked, Asked, WHolding, RHolding
  <2>2. UNCHANGED Rest /\ UNCHANGED conn /\ err' \in [Callers -> BOOLEAN]
    BY <1>1, <1>2, FailsOK DEF connVars, lockVars, netVars, confVars, Rest
  <2> QED BY <1>1, <1>2, <2>1, <2>2, PlainGoto
<1>3. CASE Suspend(c, "resolve")
           /\ UNCHANGED <<connVars, cid, lockVars, opened, callVars, netVars, confVars, waited>>
  <2>1. "resolve" \in Pcs \ Running /\ SameQueues(pc[c], "resolve") /\ "resolve" \notin Marked \cup Asked
        /\ pc[c] \notin Marked \cup {"wake"}
    BY <1>1 DEF Running, Pcs, SameQueues, Marked, Asked, WHolding, RHolding
  <2>2. UNCHANGED Rest /\ conn' = conn /\ err' \in [Callers -> BOOLEAN]
    BY <1>1, <1>3 DEF connVars, lockVars, netVars, callVars, confVars, Rest
  <2> QED BY <1>1, <1>3, <2>1, <2>2, PlainSuspend
<1>4. CASE Dial(c)
  BY <1>1, <1>4, DialStep
<1> QED BY <1>2, <1>3, <1>4 DEF OpenWoken

LEMMA ResolveStep ==
  ASSUME Inv, NEW c \in Callers, Resolve(c)
  PROVE  Inv'
<1>1. TypeOK /\ PlacesOK /\ DialOK /\ NetOK /\ OwnOK
  BY DEF Inv
<1>2. PICK w \in {"dialling", "wake"} : Resume(c, w)
  BY DEF Resolve
<1>3. /\ pc[c] = "resolve" /\ Idle /\ pc' = [pc EXCEPT ![c] = w] /\ stack' = <<c>>
      /\ UNCHANGED <<conn, fd, cid, wlock, rlock, opened, job, id, got, wire, inbox, sasl, named, waited>>
      /\ err' \in [Callers -> BOOLEAN]
  <2>1. err \in [Callers -> BOOLEAN]
    BY <1>1 DEF TypeOK
  <2> QED BY <1>1, <1>2, <2>1, FailsOK DEF Resolve, Waits, Resume, connVars, lockVars, callVars, netVars, confVars
<1>4. w \in Running \cap Pcs /\ SameQueues(pc[c], w) /\ w \notin Marked \cup Asked
      /\ pc[c] \notin Marked \cup {"wake"}
  BY <1>3 DEF Running, Pcs, SameQueues, Marked, Asked, WHolding, RHolding
<1>5. PlacesOK' /\ stack' \in Seq(Callers)
  BY <1>1, <1>3, <1>4, Begins DEF Moves
<1>6. TypeOK'
  BY <1>1, <1>3, <1>4, <1>5, MovesOK DEF TypeOK
<1>7. DialOK' /\ NetOK' /\ OwnOK'
  BY <1>1, <1>3, <1>4, PlainStep
<1> QED BY <1>5, <1>6, <1>7 DEF Inv

LEMMA ResolvedStep ==
  ASSUME Inv, NEW c \in Callers, Resolved(c)
  PROVE  Inv'
  BY DialStep DEF Resolved, At

(* The connection is up, or refused.                                                      *)
LEMMA ConnectedStep ==
  ASSUME Inv, NEW c \in Callers, Connected(c)
  PROVE  Inv'
<1>1. TypeOK /\ PlacesOK /\ DialOK /\ NetOK /\ OwnOK
  BY DEF Inv
<1>2. /\ pc[c] = "dial" /\ Idle /\ pc' = [pc EXCEPT ![c] = "send"] /\ stack' = <<c>>
      /\ conn' = "opened" /\ fd' = "up" /\ job' = [job EXCEPT ![c] = "ApiVersions3"]
      /\ UNCHANGED <<cid, wlock, rlock, opened, id, err, got, wire, inbox, sasl, named, waited>>
  BY DEF Connected, Waits, Resume, lockVars, netVars, confVars
<1>3. "send" \in Running \cap Pcs /\ SameQueues(pc[c], "send")
  BY <1>2 DEF Running, Pcs, SameQueues, WHolding, RHolding
<1>4. PlacesOK' /\ stack' \in Seq(Callers)
  BY <1>1, <1>2, <1>3, Begins DEF Moves
<1>5. pc'[c] = "send" /\ (\A d \in Callers \ {c} : pc'[d] = pc[d]) /\ pc' \in [Callers -> Pcs]
  BY <1>1, <1>2, <1>3, MovesOK
<1>6. job' \in [Callers -> Jobs] /\ job'[c] # "Request" /\ \A d \in Callers \ {c} : job'[d] = job[d]
  BY <1>1, <1>2 DEF TypeOK, Jobs
<1>7. TypeOK'
  BY <1>1, <1>2, <1>4, <1>5, <1>6 DEF TypeOK
<1>8. fd = "connecting" /\ \A d \in Callers : job[d] = "Request" /\ (d # c => pc[d] # "dial")
  BY <1>1, <1>2 DEF DialOK
<1>9. DialOK'
  BY <1>2, <1>5, <1>6, <1>8 DEF DialOK, OneOpener
<1>10. NetOK'
  BY <1>1, <1>2, <1>5, <1>8 DEF NetOK
<1>11. ASSUME SoloWriter PROVE SoloWriter'
  BY <1>1, <1>2, <1>5, <1>11, SoloPasses DEF Idle
<1>12. OwnOK'
  BY <1>1, <1>2, <1>5, <1>6, <1>8, <1>11, OwnPasses DEF IdsOK, Asked
<1> QED BY <1>4, <1>7, <1>9, <1>10, <1>12 DEF Inv

LEMMA RefusedStep ==
  ASSUME Inv, NEW c \in Callers, Refused(c)
  PROVE  Inv'
<1>1. /\ Idle /\ pc[c] = "dial" /\ Close(c, "wake", TRUE)
      /\ UNCHANGED <<cid, wlock, rlock, opened, job, id, got, sasl, named, waited>>
  BY DEF Refused, Waits, lockVars, confVars
<1>2. SameQueues(pc[c], "wake") /\ pc[c] \notin Running /\ pc[c] # "wake"
  BY <1>1 DEF SameQueues, WHolding, RHolding, Running
<1> QED BY <1>1, <1>2, CloseStep

(* The last loop of Open().                                                                *)
LEMMA WakeStep ==
  ASSUME Inv, NEW c \in Callers, Wake(c)
  PROVE  Inv'
<1>1. TypeOK /\ PlacesOK /\ DialOK /\ NetOK /\ OwnOK
  BY DEF Inv
<1>2. stack \in Seq(Callers) /\ stack # <<>> /\ Head(stack) = c /\ pc[c] = "wake" /\ opened \in Seq(Callers)
      /\ UNCHANGED <<conn, fd, cid, wlock, rlock, id, err, got, wire, inbox, sasl, named, waited>>
  BY <1>1, RunsOK DEF Wake, At, TypeOK, connVars, lockVars, netVars, confVars
<1>3. CASE opened # <<>>
  <2>1. PICK h \in Callers : h = Head(opened)
    BY <1>2, <1>3
  <2>2. pc[h] \in {"opening", "ready"} /\ h # c
    BY <1>1, <1>2, <1>3, <2>1, Popped DEF PlacesOK, QueueOK
  <2>3. PICK w \in {"readied", "woken"} :
          /\ pc' = [pc EXCEPT ![h] = w] /\ stack' = <<h>> \o stack /\ opened' = Tail(opened) /\ UNCHANGED job
    BY <1>3, <2>1 DEF Wake
  <2>4. w \in Running \cap Pcs /\ w \notin Marked \cup Asked \cup RHolding \cup {"wwait", "rwait", "opening", "ready"}
        /\ pc[h] \notin Marked \cup {"wake"} \cup RHolding \cup {"wwait", "rwait"} \cup Running /\ pc[c] \notin WHolding
    BY <1>2, <2>2 DEF Running, Pcs, Marked, Asked, WHolding, RHolding
  <2>5. pc'[h] = w /\ (\A d \in Callers \ {h} : pc'[d] = pc[d]) /\ pc' \in [Callers -> Pcs]
    BY <1>1, <2>3, <2>4, MovesOK
  <2>6. opened' \in Seq(Callers) /\ stack' \in Seq(Callers)
    BY <1>2, <1>3, <2>3, Pushed, Popped
  <2>7. TypeOK'
    BY <1>1, <1>2, <2>3, <2>5, <2>6 DEF TypeOK
  <2>8. PlacesOK'
    <3>1. QueueOK(stack', pc', Running)
      <4>1. QueueOK(stack, pc, Running)
        BY <1>1 DEF PlacesOK
      <4> QED BY <1>2, <2>3, <2>4, <2>5, <4>1, QueueJoins
    <3>2. QueueOK(opened', pc', {"opening", "ready"})
      <4>1. QueueOK(opened, pc, {"opening", "ready"})
        BY <1>1 DEF PlacesOK
      <4> QED BY <1>2, <1>3, <2>1, <2>3, <2>4, <2>5, <4>1, QueueLeaves
    <3>3. LockOK(wlock', pc', WHolding, "wwait") /\ LockOK(rlock', pc', RHolding, "rwait")
      <4>1. \A d \in Callers : /\ pc'[d] \in WHolding <=> pc[d] \in WHolding
                               /\ pc'[d] = "wwait" <=> pc[d] = "wwait"
                               /\ pc'[d] \in RHolding <=> pc[d] \in RHolding
                               /\ pc'[d] = "rwait" <=> pc[d] = "rwait"
        BY <2>4, <2>5 DEF Marked
      <4>2. (wlock # <<>> => Head(wlock) \in Callers) /\ (rlock # <<>> => Head(rlock) \in Callers)
        BY <1>1, Popped DEF TypeOK
      <4> QED BY <1>1, <1>2, <4>1, <4>2 DEF PlacesOK, LockOK, QueueOK
    <3> QED BY <3>1, <3>2, <3>3 DEF PlacesOK
  <2>9. DialOK'
    BY <1>1, <1>2, <1>3, <2>3, <2>4, <2>5, DialPasses DEF Marked
  <2>10. NetOK'
    BY <1>1, <1>2, <2>4, <2>5, NetPasses DEF Marked, WHolding
  <2>11. ASSUME SoloWriter PROVE SoloWriter'
    BY <1>1, <1>2, <2>4, <2>5, <2>11, SoloPasses DEF Marked, WHolding
  <2>12. OwnOK'
    BY <1>1, <1>2, <2>3, <2>4, <2>5, <2>11, OwnPasses DEF Marked, WHolding, IdsOK
  <2> QED BY <2>7, <2>8, <2>9, <2>10, <2>12 DEF Inv
<1>4. CASE opened = <<>>
  <2>1. PICK w \in {"result", "send"} :
          /\ pc' = [pc EXCEPT ![c] = w] /\ UNCHANGED stack /\ UNCHANGED opened
          /\ job' = [job EXCEPT ![c] = "Request"]
    BY <1>4 DEF Wake, Goto
  <2>2. w \in Running \cap Pcs /\ SameQueues(pc[c], w) /\ w \notin Marked \cup Asked /\ pc[c] \notin Marked
    BY <1>2 DEF Running, Pcs, SameQueues, Marked, Asked, WHolding, RHolding
  <2>3. PlacesOK'
    BY <1>1, <1>2, <2>1, <2>2, GoesOn DEF Moves, Wake, At
  <2>4. pc'[c] = w /\ (\A d \in Callers \ {c} : pc'[d] = pc[d]) /\ pc' \in [Callers -> Pcs]
    BY <1>1, <2>1, <2>2, MovesOK
  <2>5. job' \in [Callers -> Jobs] /\ job'[c] = "Request" /\ \A d \in Callers \ {c} : job'[d] = job[d]
    BY <1>1, <2>1 DEF TypeOK, Jobs
  <2>6. TypeOK'
    BY <1>1, <1>2, <2>1, <2>4, <2>5 DEF TypeOK
  <2>7. DialOK'
    <3>1. \A d \in Callers : pc'[d] = "dial" <=> pc[d] = "dial"
      BY <2>2, <2>4 DEF Marked
    <3> QED BY <1>1, <1>2, <1>4, <2>1, <2>5, <3>1 DEF DialOK, OneOpener
  <2>8. NetOK'
    BY <1>1, <1>2, <2>2, <2>4, NetPasses DEF Marked, WHolding
  <2>9. ASSUME SoloWriter PROVE SoloWriter'
    BY <1>1, <1>2, <2>2, <2>4, <2>9, SoloPasses DEF Marked, WHolding
  <2>10. OwnOK'
    BY <1>1, <1>2, <2>2, <2>4, <2>5, <2>9, OwnPasses DEF Marked, WHolding, IdsOK
  <2> QED BY <2>3, <2>6, <2>7, <2>8, <2>10 DEF Inv
<1> QED BY <1>3, <1>4

LEMMA QueueStays ==
  ASSUME NEW f, NEW g, NEW q, NEW P, QueueOK(q, f, P), \A d \in Callers : g[d] \in P <=> f[d] \in P
  PROVE  QueueOK(q, g, P)
  BY DEF QueueOK

LEMMA LockStays ==
  ASSUME NEW f, NEW g, NEW q \in Seq(Callers), NEW H, NEW w, LockOK(q, f, H, w),
         \A d \in Callers : (g[d] \in H <=> f[d] \in H) /\ (g[d] = w <=> f[d] = w)
  PROVE  LockOK(q, g, H, w)
<1>1. q # <<>> => Head(q) \in Callers
  BY Popped
<1>2. QueueOK(q, g, H \cup {w})
  BY DEF LockOK, QueueOK
<1> QED BY <1>1, <1>2 DEF LockOK

(* A request is encoded and goes for m_wlock.                                              *)
LEMMA EncodeStep ==
  ASSUME Inv, NEW c \in Callers, Runs(c), pc[c] \in {"send", "readied"}, Encode(c),
         UNCHANGED <<connVars, cid, rlock, netVars, confVars, waited>>
  PROVE  Inv'
<1>1. TypeOK /\ PlacesOK /\ DialOK /\ NetOK /\ OwnOK
  BY DEF Inv
<1>2. /\ stack \in Seq(Callers) /\ stack # <<>> /\ Head(stack) = c /\ wlock \in Seq(Callers) /\ rlock \in Seq(Callers)
      /\ wlock' = Append(wlock, c) /\ id' = [id EXCEPT ![c] = cid]
      /\ UNCHANGED <<conn, fd, cid, rlock, opened, job, err, got, wire, inbox, sasl, named, waited>>
  BY <1>1, RunsOK DEF Encode, TypeOK, connVars, netVars, confVars
<1>3. PICK w \in {"write", "wwait"} :
        /\ pc' = [pc EXCEPT ![c] = w]
        /\ IF wlock = <<>> THEN w = "write" /\ stack' = stack ELSE w = "wwait" /\ stack' = Tail(stack)
  BY DEF Encode, Goto, Suspend
<1>4. w \in Pcs /\ w \notin Asked \cup RHolding \cup {"rwait", "opening", "ready", "dial", "body", "wake", "stuck", "writing"}
      /\ pc[c] \in Running
      /\ pc[c] \notin Marked \cup WHolding \cup Asked \cup RHolding \cup {"wwait", "rwait", "opening", "ready", "wake", "dial"}
      /\ "write" \in Running \cap WHolding /\ "wwait" \notin Running \cup WHolding
  BY DEF Running, Pcs, Marked, Asked, WHolding, RHolding
<1>5. pc'[c] = w /\ (\A d \in Callers \ {c} : pc'[d] = pc[d]) /\ pc' \in [Callers -> Pcs]
  BY <1>1, <1>3, <1>4, MovesOK
<1>6. id' \in [Callers -> 0..MaxId] /\ id'[c] = cid /\ \A d \in Callers \ {c} : id'[d] = id[d]
  BY <1>1, <1>2 DEF TypeOK
<1>7. wlock' \in Seq(Callers) /\ stack' \in Seq(Callers)
  <2>1. wlock' \in Seq(Callers)
    BY <1>2, Joined
  <2>2. Tail(stack) \in Seq(Callers)
    BY <1>2, Popped
  <2> QED BY <1>2, <1>3, <2>1, <2>2
<1>8. TypeOK'
  BY <1>1, <1>2, <1>5, <1>6, <1>7 DEF TypeOK
<1>9. PlacesOK'
  <2>1. QueueOK(stack', pc', Running)
    <3>1. QueueOK(stack, pc, Running)
      BY <1>1 DEF PlacesOK
    <3>2. CASE wlock = <<>>
      BY <1>3, <1>4, <1>5, <3>1, <3>2, QueueStays
    <3>3. CASE wlock # <<>>
      <4>1. stack' = Tail(stack) /\ pc'[Head(stack)] \notin Running /\ \A d \in Callers \ {Head(stack)} : pc'[d] = pc[d]
        BY <1>2, <1>3, <1>4, <1>5, <3>3
      <4>2. QueueOK(Tail(stack), pc', Running)
        BY <1>2, <3>1, <4>1, QueueLeaves
      <4> QED BY <4>1, <4>2
    <3> QED BY <3>2, <3>3
  <2>2. QueueOK(opened', pc', {"opening", "ready"})
    BY <1>1, <1>2, <1>4, <1>5, QueueStays DEF PlacesOK
  <2>3. LockOK(wlock', pc', WHolding, "wwait")
    <3>1. LockOK(wlock, pc, WHolding, "wwait")
      BY <1>1 DEF PlacesOK
    <3> QED BY <1>2, <1>3, <1>4, <1>5, <3>1, LockJoins
  <2>4. LockOK(rlock', pc', RHolding, "rwait")
    <3>1. LockOK(rlock, pc, RHolding, "rwait")
      BY <1>1 DEF PlacesOK
    <3> QED BY <1>2, <1>4, <1>5, <3>1, LockStays
  <2> QED BY <2>1, <2>2, <2>3, <2>4 DEF PlacesOK
<1>10. DialOK'
  BY <1>1, <1>2, <1>4, <1>5, DialPasses DEF Marked
<1>11. NetOK'
  BY <1>1, <1>2, <1>4, <1>5, NetPasses DEF Marked, WHolding
<1>12. ASSUME SoloWriter PROVE SoloWriter'
  <2>1. CASE wlock = <<>>
    BY <1>2, <1>3, <2>1, Joined DEF SoloWriter
  <2>2. CASE wlock # <<>>
    <3>1. Head(wlock') = Head(wlock) /\ Head(wlock) \in Callers /\ pc[Head(wlock)] \in WHolding
      BY <1>1, <1>2, <2>2, Joined, Popped DEF PlacesOK, LockOK
    <3>2. pc[Head(wlock)] = "stuck" /\ Head(wlock) # c
      BY <1>2, <1>4, <1>12, <2>2, <3>1 DEF SoloWriter
    <3> QED BY <1>5, <3>1, <3>2 DEF SoloWriter
  <2> QED BY <2>1, <2>2
<1>13. OwnOK'
  BY <1>1, <1>2, <1>4, <1>5, <1>6, <1>12, OwnPasses DEF IdsOK
<1> QED BY <1>8, <1>9, <1>10, <1>11, <1>13 DEF Inv

(* Ready(), and what goes to SendInternal without it.                                      *)
LEMMA GivesUp ==
  ASSUME Inv, NEW c \in Callers, Runs(c), pc[c] \in {"send", "readied"}, Goto(c, "result"), Fails(c, TRUE),
         UNCHANGED <<wlock, opened>>, UNCHANGED <<connVars, cid, rlock, netVars, confVars, waited>>
  PROVE  Inv'
<1>1. "result" \in Running \cap Pcs /\ SameQueues(pc[c], "result") /\ "result" \notin Marked \cup Asked
      /\ pc[c] \notin Marked \cup {"wake"}
  BY DEF Running, Pcs, SameQueues, Marked, Asked, WHolding, RHolding
<1>2. UNCHANGED Rest /\ UNCHANGED conn /\ err' \in [Callers -> BOOLEAN]
  BY FailsOK DEF Inv, connVars, netVars, confVars, Rest
<1> QED BY <1>1, <1>2, PlainGoto

LEMMA ReadyStep ==
  ASSUME Inv, NEW c \in Callers, Ready(c)
  PROVE  Inv'
<1>1. Runs(c) /\ pc[c] = "send" /\ UNCHANGED <<connVars, cid, rlock, netVars, confVars, waited>>
  BY DEF Ready, At
<1>2. CASE Goto(c, "result") /\ Fails(c, TRUE) /\ UNCHANGED <<wlock, opened>>
  BY <1>1, <1>2, GivesUp
<1>3. CASE conn = "opening" /\ opened' = Append(opened, c) /\ Suspend(c, "ready") /\ UNCHANGED <<wlock, callVars>>
  BY <1>1, <1>3, WaitOpened DEF connVars, callVars, netVars, confVars
<1>4. CASE Encode(c)
  BY <1>1, <1>4, EncodeStep
<1> QED BY <1>2, <1>3, <1>4 DEF Ready

LEMMA ReadyWokenStep ==
  ASSUME Inv, NEW c \in Callers, ReadyWoken(c)
  PROVE  Inv'
<1>1. Runs(c) /\ pc[c] = "readied" /\ UNCHANGED <<connVars, cid, rlock, netVars, confVars, waited>>
  BY DEF ReadyWoken, At
<1>2. CASE Goto(c, "result") /\ Fails(c, TRUE) /\ UNCHANGED <<wlock, opened>>
  BY <1>1, <1>2, GivesUp
<1>3. CASE Encode(c)
  BY <1>1, <1>3, EncodeStep
<1> QED BY <1>2, <1>3 DEF ReadyWoken

LEMMA SendHandshakeStep ==
  ASSUME Inv, NEW c \in Callers, SendHandshake(c)
  PROVE  Inv'
  BY EncodeStep DEF SendHandshake, At

\* What the inbox holds.
Parts == [part: {"header", "body"}, of: Requests]

LEMMA Elements ==
  ASSUME NEW S, NEW s \in Seq(S)
  PROVE  \A x \in ToSet(s) : x \in S
  BY DEF ToSet

LEMMA InFlightOK ==
  ASSUME TypeOK
  PROVE  \A r \in InFlight : r \in Requests
<1>1. wire \in Seq(Requests) /\ inbox \in Seq(Parts)
  BY DEF TypeOK, Parts
<1>2. (\A r \in ToSet(wire) : r \in Requests) /\ \A m \in ToSet(inbox) : m \in Parts
  BY <1>1, Elements
<1>3. \A m \in Parts : m.of \in Requests
  BY DEF Parts
<1> QED BY <1>2, <1>3 DEF InFlight

(* A request is out. While no Write has waited, its id is the id of now and nothing that is *)
(* in flight has it.                                                                         *)
LEMMA WrittenPasses ==
  ASSUME Inv, NEW c \in Callers, (pc[c] = "write" /\ UNCHANGED stack) \/ pc[c] = "writing", fd # "connecting", Written(c),
         pc' = [pc EXCEPT ![c] = "wunlock"], stack' \in Seq(Callers),
         UNCHANGED <<conn, fd, inbox, waited, wlock, rlock, opened, job, id, got, sasl, named>>
  PROVE  TypeOK' /\ DialOK' /\ NetOK' /\ OwnOK'
<1>1. TypeOK /\ PlacesOK /\ DialOK /\ NetOK /\ OwnOK
  BY DEF Inv
<1>2. "wunlock" \in Pcs
  BY DEF Pcs
<1>3. pc'[c] = "wunlock" /\ (\A d \in Callers \ {c} : pc'[d] = pc[d]) /\ pc' \in [Callers -> Pcs]
  BY <1>1, <1>2, MovesOK
<1>4. Sent(c) \in Requests /\ Sent(c).id = id[c]
  BY <1>1 DEF Sent, Requests, TypeOK
<1>5. wire' = (IF fd = "up" THEN Append(wire, Sent(c)) ELSE wire) /\ cid < MaxId /\ cid' = cid + 1
      /\ err' \in [Callers -> BOOLEAN] /\ wire \in Seq(Requests) /\ cid \in 0..MaxId
  BY <1>1 DEF Written, TypeOK
<1>6. wire' \in Seq(Requests) /\ ToSet(wire') \subseteq ToSet(wire) \cup {Sent(c)}
  <2>1. PICK r \in Requests : r = Sent(c)
    BY <1>4, Zenon
  <2>2. Append(wire, r) \in Seq(Requests) /\ ToSet(Append(wire, r)) = ToSet(wire) \cup {r}
    BY <1>5, Joined
  <2> QED BY <1>5, <2>1, <2>2, Zenon
<1>7. TypeOK'
  <2>1. cid' \in 0..MaxId
    BY <1>5, KafkaBrokerAssumption
  <2> QED BY <1>1, <1>3, <1>5, <1>6, <2>1 DEF TypeOK
<1>8. DialOK'
  BY <1>1, <1>3, DialPasses
<1>9. NetOK'
  BY <1>1, <1>3, <1>5 DEF NetOK
<1>10. ASSUME ~waited, fd # "dead", IdsOK PROVE IdsOK'
  <2>1. pc[c] = "write" /\ UNCHANGED stack
    BY <1>1, <1>10 DEF NetOK
  <2>2. wlock # <<>> /\ Head(wlock) = c /\ \A d \in Callers : pc[d] = "write" => d = c
    <3>1. LockOK(wlock, pc, WHolding, "wwait") /\ pc[c] \in WHolding /\ wlock \in Seq(Callers)
      BY <1>1, <2>1 DEF PlacesOK, WHolding, TypeOK
    <3>2. wlock # <<>> /\ Head(wlock) = c
      BY <3>1, Holder
    <3>3. \A d \in Callers : pc[d] = "write" => pc[d] \in WHolding
      BY DEF WHolding
    <3> QED BY <3>1, <3>2, <3>3 DEF LockOK
  <2>3. SoloWriter'
    BY <1>10, <2>1, <2>2 DEF IdsOK, SoloWriter
  <2>4. id[c] = cid /\ \A d \in Callers : id[d] \in 0..MaxId
    BY <1>1, <1>10, <2>1 DEF IdsOK, TypeOK
  <2>5. \A d \in Callers : Sent(d)' = Sent(d)
    BY DEF Sent
  <2>6. \A r \in InFlight' : r \in InFlight \/ r = Sent(c)
    BY <1>6 DEF InFlight
  <2>7. \A r \in InFlight : r \in Requests
    BY <1>1, InFlightOK
  <2>8. \A d \in Callers : /\ pc'[d] = "write" => id'[d] = cid'
                           /\ pc'[d] \in Asked => id'[d] < cid'
                           /\ pc'[d] = "body" => inbox' # <<>> /\ (Head(inbox).of = Sent(d))'
    <3>1. \A d \in Callers : pc'[d] # "write"
      BY <1>3, <2>2
    <3>2. \A d \in Callers : pc'[d] \in Asked => id'[d] < cid'
      BY <1>3, <1>5, <1>10, <2>4 DEF IdsOK
    <3>3. \A d \in Callers : pc'[d] = "body" => inbox' # <<>> /\ (Head(inbox).of = Sent(d))'
      BY <1>3, <1>10, <2>5 DEF IdsOK
    <3> QED BY <3>1, <3>2, <3>3
  <2>9. ASSUME NEW r \in InFlight'
        PROVE  r.id < cid' /\ \A d \in Callers : pc'[d] \in Asked /\ r.id = id'[d] => r = Sent(d)'
    <3>1. CASE r \in InFlight
      <4>1. r.id < cid /\ r.id \in 0..MaxId /\ \A d \in Callers : pc[d] \in Asked /\ r.id = id[d] => r = Sent(d)
        BY <1>10, <2>7, <3>1 DEF IdsOK, Requests
      <4> QED BY <1>3, <1>5, <2>4, <2>5, <4>1
    <3>2. CASE r = Sent(c)
      <4>1. r.id = cid
        BY <1>4, <2>4, <3>2
      <4>2. \A d \in Callers \ {c} : pc'[d] \in Asked => id[d] < cid
        BY <1>3, <1>10 DEF IdsOK
      <4> QED BY <1>5, <2>4, <2>5, <3>2, <4>1, <4>2
    <3> QED BY <2>6, <3>1, <3>2
  <2> QED BY <2>3, <2>8, <2>9 DEF IdsOK
<1>11. OwnOK'
  BY <1>1, <1>10 DEF OwnOK, OwnResponse
<1> QED BY <1>7, <1>8, <1>9, <1>11

(* Connect::Write under m_wlock, and the socket that becomes writable.                       *)
LEMMA WriteStep ==
  ASSUME Inv, NEW c \in Callers, Write(c)
  PROVE  Inv'
<1>1. TypeOK /\ PlacesOK /\ DialOK /\ NetOK /\ OwnOK
  BY DEF Inv
<1>2. Runs(c) /\ pc[c] = "write" /\ UNCHANGED <<wlock, rlock, opened, job, id, got, sasl, named>>
  BY DEF Write, At, lockVars, confVars
<1>3. stack \in Seq(Callers) /\ stack # <<>> /\ Head(stack) = c /\ ~Idle
  BY <1>1, <1>2, RunsOK
<1>4. /\ {"wunlock", "writing", "stuck"} \subseteq Pcs /\ "wunlock" \in Running /\ {"writing", "stuck"} \cap Running = {}
      /\ \A w \in {"wunlock", "writing", "stuck"} : SameQueues(pc[c], w)
  BY <1>2 DEF Pcs, Running, SameQueues, WHolding, RHolding
<1>5. CASE fd # "connecting" /\ Written(c) /\ Goto(c, "wunlock") /\ UNCHANGED <<connVars, inbox, waited>>
  <2>1. pc' = [pc EXCEPT ![c] = "wunlock"] /\ UNCHANGED stack /\ UNCHANGED <<conn, fd, inbox, waited>>
    BY <1>5 DEF Goto, connVars
  <2>2. PlacesOK'
    BY <1>1, <1>2, <1>4, <2>1, GoesOn DEF Moves
  <2>3. stack' \in Seq(Callers)
    BY <1>3, <2>1
  <2>4. TypeOK' /\ DialOK' /\ NetOK' /\ OwnOK'
    BY <1>2, <1>5, <2>1, <2>3, WrittenPasses
  <2> QED BY <2>2, <2>4 DEF Inv
<1>6. CASE fd = "up" /\ Suspend(c, "writing") /\ waited' = TRUE /\ UNCHANGED <<connVars, cid, err, netVars>>
  <2>1. pc' = [pc EXCEPT ![c] = "writing"] /\ stack' = Tail(stack) /\ UNCHANGED <<conn, fd, cid, err, wire, inbox>>
    BY <1>6 DEF Suspend, connVars, netVars
  <2>2. PlacesOK' /\ stack' \in Seq(Callers)
    BY <1>1, <1>2, <1>4, <2>1, Rests DEF Moves
  <2>3. pc'[c] = "writing" /\ (\A d \in Callers \ {c} : pc'[d] = pc[d]) /\ pc' \in [Callers -> Pcs]
    BY <1>1, <1>4, <2>1, MovesOK
  <2>4. TypeOK'
    BY <1>1, <1>2, <1>6, <2>1, <2>2, <2>3 DEF TypeOK
  <2>5. DialOK'
    BY <1>1, <1>2, <2>1, <2>3, DialPasses
  <2>6. NetOK' /\ OwnOK'
    BY <1>1, <1>6, <2>1 DEF NetOK, OwnOK
  <2> QED BY <2>2, <2>4, <2>5, <2>6 DEF Inv
<1>7. CASE fd = "connecting" /\ Suspend(c, "stuck") /\ UNCHANGED <<connVars, cid, err, netVars, waited>>
  <2>1. pc' = [pc EXCEPT ![c] = "stuck"] /\ stack' = Tail(stack) /\ UNCHANGED <<conn, fd, cid, err, wire, inbox, waited>>
    BY <1>7 DEF Suspend, connVars, netVars
  <2>2. PlacesOK' /\ stack' \in Seq(Callers)
    BY <1>1, <1>2, <1>4, <2>1, Rests DEF Moves
  <2>3. pc'[c] = "stuck" /\ (\A d \in Callers \ {c} : pc'[d] = pc[d]) /\ pc' \in [Callers -> Pcs]
    BY <1>1, <1>4, <2>1, MovesOK
  <2>4. TypeOK'
    BY <1>1, <1>2, <2>1, <2>2, <2>3 DEF TypeOK
  <2>5. DialOK'
    BY <1>1, <1>2, <2>1, <2>3, DialPasses
  <2>6. NetOK'
    BY <1>1, <2>1, <2>3, NetPasses
  <2>7. wlock # <<>> /\ Head(wlock) = c
    <3>1. LockOK(wlock, pc, WHolding, "wwait") /\ pc[c] \in WHolding /\ wlock \in Seq(Callers)
      BY <1>1, <1>2 DEF PlacesOK, WHolding, TypeOK
    <3> QED BY <3>1, Holder
  <2>8. SoloWriter'
    BY <1>2, <2>3, <2>7 DEF SoloWriter
  <2>9. OwnOK'
    BY <1>1, <1>2, <2>1, <2>3, <2>8, OwnPasses DEF IdsOK, Asked
  <2> QED BY <2>2, <2>4, <2>5, <2>6, <2>9 DEF Inv
<1>8. CASE Close(c, "wunlock", TRUE) /\ UNCHANGED <<cid, waited>>
  BY <1>2, <1>3, <1>4, <1>8, CloseStep
<1> QED BY <1>5, <1>6, <1>7, <1>8 DEF Write

LEMMA WritableStep ==
  ASSUME Inv, NEW c \in Callers, Writable(c)
  PROVE  Inv'
<1>1. TypeOK /\ PlacesOK /\ DialOK /\ NetOK /\ OwnOK
  BY DEF Inv
<1>2. Idle /\ pc[c] = "writing" /\ UNCHANGED <<wlock, rlock, opened, job, id, got, sasl, named, waited>>
  BY DEF Writable, Waits, lockVars, confVars
<1>3. "wunlock" \in Pcs \cap Running /\ pc[c] \notin Running /\ SameQueues(pc[c], "wunlock")
  BY <1>2 DEF Pcs, Running, SameQueues, WHolding, RHolding
<1>4. CASE fd = "up" /\ Written(c) /\ Resume(c, "wunlock") /\ UNCHANGED <<connVars, inbox>>
  <2>1. pc' = [pc EXCEPT ![c] = "wunlock"] /\ stack' = <<c>> /\ UNCHANGED <<conn, fd, inbox>>
    BY <1>4 DEF Resume, connVars
  <2>2. PlacesOK' /\ stack' \in Seq(Callers)
    BY <1>1, <1>2, <1>3, <2>1, Begins DEF Moves
  <2>3. TypeOK' /\ DialOK' /\ NetOK' /\ OwnOK'
    BY <1>2, <1>4, <2>1, <2>2, WrittenPasses
  <2> QED BY <2>2, <2>3 DEF Inv
<1>5. CASE Close(c, "wunlock", TRUE) /\ UNCHANGED cid
  BY <1>2, <1>3, <1>5, CloseStep
<1> QED BY <1>4, <1>5 DEF Writable

(* A lock is released: the first of its waiters runs inside the one who lets go.             *)
LEMMA HandoverOK ==
  ASSUME TypeOK, PlacesOK, NEW c \in Callers, Runs(c), NEW q \in Seq(Callers), NEW H, NEW w, w \notin H \cup Running,
         LockOK(q, pc, H, w), pc[c] \in H, NEW here \in Pcs \cap Running, NEW there \in Pcs \cap Running,
         here \notin H \cup {w}, there \in H, Handover(c, q, here, there)
  PROVE  /\ q # <<>> /\ Head(q) = c /\ Tail(q) \in Seq(Callers) /\ LockOK(Tail(q), pc', H, w)
         /\ stack' \in Seq(Callers) /\ QueueOK(stack', pc', Running)
         /\ pc' \in [Callers -> Pcs] /\ pc'[c] = here
         /\ \A d \in Callers \ {c} : pc'[d] = pc[d] \/ (Tail(q) # <<>> /\ pc[d] = w /\ pc'[d] = there)
         /\ Tail(q) = <<>> => UNCHANGED stack
<1>1. q # <<>> /\ Head(q) = c
  BY Holder
<1>2. PICK t \in Seq(Callers) : t = Tail(q)
  BY <1>1, Popped, Zenon
<1>3. stack \in Seq(Callers) /\ stack # <<>> /\ Head(stack) = c /\ QueueOK(stack, pc, Running) /\ pc \in [Callers -> Pcs]
  BY DEF Runs, TypeOK, PlacesOK
<1>4. pc[c] \in Running
  BY <1>3, Popped DEF QueueOK
<1>5. PICK f \in [Callers -> Pcs] : f = [pc EXCEPT ![c] = here]
  BY <1>3
<1>6. f[c] = here /\ \A d \in Callers \ {c} : f[d] = pc[d]
  BY <1>3, <1>5
<1>7. QueueOK(stack, f, Running)
  BY <1>3, <1>4, <1>6, QueueStays
<1>8. CASE t = <<>>
  <2>1. pc' = f /\ UNCHANGED stack
    BY <1>2, <1>5, <1>8 DEF Handover, Goto
  <2>2. LockOK(t, f, H, w)
    BY <1>1, <1>2, <1>6, <1>8, LockLeaves
  <2>3. Tail(q) \in Seq(Callers) /\ LockOK(Tail(q), pc', H, w) /\ Tail(q) = <<>>
    BY <1>2, <1>8, <2>1, <2>2, Zenon
  <2>4. stack' \in Seq(Callers) /\ QueueOK(stack', pc', Running) /\ pc' \in [Callers -> Pcs]
    BY <1>3, <1>5, <1>7, <2>1
  <2>5. pc'[c] = here /\ \A d \in Callers \ {c} : pc'[d] = pc[d]
    BY <1>6, <2>1
  <2> QED BY <1>1, <2>1, <2>3, <2>4, <2>5, Zenon
<1>9. CASE t # <<>>
  <2>1. PICK x \in Callers : x = Head(t) /\ x = q[2]
    BY <1>1, <1>2, <1>9
  <2>2. x # c /\ pc[x] = w
    <3>1. /\ IsInjective(q) => c \notin ToSet(t)
          /\ ToSet(q) = ToSet(t) \cup {c}
      BY <1>1, <1>2, Popped
    <3>2. x \in ToSet(t)
      BY <1>9, <2>1, Popped
    <3>3. x # c /\ pc[x] \in H \cup {w}
      BY <3>1, <3>2 DEF LockOK, QueueOK
    <3> QED BY <3>3 DEF LockOK
  <2>3. pc' = [f EXCEPT ![x] = there] /\ stack' = <<x>> \o stack
    BY <1>2, <1>5, <1>9, <2>1 DEF Handover
  <2>4. pc'[x] = there /\ pc' \in [Callers -> Pcs] /\ \A d \in Callers \ {x} : pc'[d] = f[d]
    BY <1>5, <2>3
  <2>5. QueueOK(stack', pc', Running) /\ stack' \in Seq(Callers)
    <3>1. f[x] \notin Running /\ pc'[x] \in Running
      BY <1>6, <2>2, <2>4
    <3> QED BY <1>3, <1>7, <2>3, <2>4, <3>1, QueueJoins, Pushed
  <2>6. pc'[c] = here /\ \A d \in Callers \ {c} : d = x \/ pc'[d] = pc[d]
    BY <1>6, <2>2, <2>4
  <2>7. LockOK(t, pc', H, w)
    BY <1>1, <1>2, <1>9, <2>1, <2>4, <2>6, LockLeaves
  <2>8. Tail(q) \in Seq(Callers) /\ LockOK(Tail(q), pc', H, w) /\ Tail(q) # <<>>
    BY <1>2, <1>9, <2>7, Zenon
  <2> QED BY <1>1, <2>2, <2>4, <2>5, <2>6, <2>8, Zenon
<1> QED BY <1>8, <1>9

LEMMA WUnlockStep ==
  ASSUME Inv, NEW c \in Callers, WUnlock(c)
  PROVE  Inv'
<1>1. TypeOK /\ PlacesOK /\ DialOK /\ NetOK /\ OwnOK
  BY DEF Inv
<1>2. PICK here \in {"result", "rlock"} : Handover(c, wlock, here, "write")
  BY DEF WUnlock
<1>3. /\ Runs(c) /\ pc[c] = "wunlock" /\ wlock' = Tail(wlock)
      /\ UNCHANGED <<conn, fd, cid, rlock, opened, job, id, err, got, wire, inbox, sasl, named, waited>>
  BY DEF WUnlock, At, connVars, callVars, netVars, confVars
<1>4. /\ here \in Pcs \cap Running /\ here \notin WHolding \cup RHolding \cup {"wwait", "rwait", "opening", "ready", "dial", "body", "writing", "wake", "write"}
      /\ pc[c] \in WHolding \cap Asked /\ pc[c] \notin RHolding \cup {"rwait", "opening", "ready"}
      /\ "write" \in Pcs \cap Running \cap WHolding /\ "write" \notin RHolding \cup Asked /\ "wwait" \notin WHolding \cup Running \cup RHolding
  BY <1>3 DEF Pcs, Running, WHolding, RHolding, Asked
<1>5. LockOK(wlock, pc, WHolding, "wwait") /\ wlock \in Seq(Callers)
  BY <1>1 DEF PlacesOK, TypeOK
<1>6. /\ wlock # <<>> /\ Head(wlock) = c /\ wlock' \in Seq(Callers) /\ LockOK(wlock', pc', WHolding, "wwait")
      /\ stack' \in Seq(Callers) /\ QueueOK(stack', pc', Running)
      /\ pc' \in [Callers -> Pcs] /\ pc'[c] = here
      /\ \A d \in Callers \ {c} : pc'[d] = pc[d] \/ (Tail(wlock) # <<>> /\ pc[d] = "wwait" /\ pc'[d] = "write")
  BY <1>1, <1>2, <1>3, <1>4, <1>5, HandoverOK
<1>7. TypeOK'
  BY <1>1, <1>3, <1>6 DEF TypeOK
<1>8. PlacesOK'
  <2>1. LockOK(rlock', pc', RHolding, "rwait")
    <3>1. LockOK(rlock, pc, RHolding, "rwait") /\ rlock \in Seq(Callers)
      BY <1>1 DEF PlacesOK, TypeOK
    <3>2. \A d \in Callers : (pc'[d] \in RHolding <=> pc[d] \in RHolding) /\ (pc'[d] = "rwait" <=> pc[d] = "rwait")
      BY <1>4, <1>6
    <3>3. LockOK(rlock, pc', RHolding, "rwait")
      BY <3>1, <3>2, LockStays
    <3> QED BY <1>3, <3>3
  <2>2. QueueOK(opened', pc', {"opening", "ready"})
    BY <1>1, <1>3, <1>4, <1>6, QueueStays DEF PlacesOK
  <2> QED BY <1>6, <2>1, <2>2 DEF PlacesOK
<1>9. DialOK'
  BY <1>1, <1>3, <1>4, <1>6, DialPasses
<1>10. NetOK'
  BY <1>1, <1>3, <1>4, <1>6, NetPasses
<1>11. IdsOK => Tail(wlock) = <<>>
  BY <1>3, <1>6 DEF IdsOK, SoloWriter
<1>12. IdsOK => SoloWriter'
  BY <1>3, <1>11 DEF SoloWriter
<1>13. \A d \in Callers : /\ pc'[d] \in Asked => pc[d] \in Asked
                          /\ pc'[d] = "body" => pc[d] = "body"
                          /\ pc'[d] = "write" /\ IdsOK => id'[d] = cid
  <2>1. \A d \in Callers : pc'[d] = "write" /\ IdsOK => pc[d] = "write"
    BY <1>4, <1>6, <1>11
  <2>2. \A d \in Callers : pc'[d] = "write" /\ IdsOK => id'[d] = cid
    BY <1>3, <2>1 DEF IdsOK
  <2> QED BY <1>4, <1>6, <2>2
<1>14. OwnOK'
  BY <1>1, <1>3, <1>12, <1>13, OwnPasses
<1> QED BY <1>7, <1>8, <1>9, <1>10, <1>14 DEF Inv

LEMMA RUnlockStep ==
  ASSUME Inv, NEW c \in Callers, RUnlock(c)
  PROVE  Inv'
<1>1. TypeOK /\ PlacesOK /\ DialOK /\ NetOK /\ OwnOK
  BY DEF Inv
<1>2. /\ Runs(c) /\ pc[c] = "runlock" /\ rlock' = Tail(rlock) /\ Handover(c, rlock, "result", "read")
      /\ UNCHANGED <<conn, fd, cid, wlock, opened, job, id, err, got, wire, inbox, sasl, named, waited>>
  BY DEF RUnlock, At, connVars, callVars, netVars, confVars
<1>3. /\ "result" \in Pcs \cap Running /\ "result" \notin WHolding \cup RHolding \cup Asked \cup {"rwait"}
      /\ pc[c] \in RHolding /\ pc[c] \notin WHolding \cup {"wwait", "opening", "ready"}
      /\ "read" \in Pcs \cap Running \cap RHolding /\ "read" \notin WHolding /\ "rwait" \notin WHolding \cup Running \cup RHolding
      /\ "rwait" \in Asked
  BY <1>2 DEF Pcs, Running, WHolding, RHolding, Asked
<1>4. LockOK(rlock, pc, RHolding, "rwait") /\ rlock \in Seq(Callers)
  BY <1>1 DEF PlacesOK, TypeOK
<1>5. /\ rlock # <<>> /\ Head(rlock) = c /\ rlock' \in Seq(Callers) /\ LockOK(rlock', pc', RHolding, "rwait")
      /\ stack' \in Seq(Callers) /\ QueueOK(stack', pc', Running)
      /\ pc' \in [Callers -> Pcs] /\ pc'[c] = "result"
      /\ \A d \in Callers \ {c} : pc'[d] = pc[d] \/ (pc[d] = "rwait" /\ pc'[d] = "read")
  BY <1>1, <1>2, <1>3, <1>4, HandoverOK
<1>6. TypeOK'
  BY <1>1, <1>2, <1>5 DEF TypeOK
<1>7. PlacesOK'
  <2>1. LockOK(wlock', pc', WHolding, "wwait")
    <3>1. LockOK(wlock, pc, WHolding, "wwait") /\ wlock \in Seq(Callers)
      BY <1>1 DEF PlacesOK, TypeOK
    <3> QED BY SMTT(60), <1>2, <1>3, <1>5, <3>1, LockStays
  <2>2. QueueOK(opened', pc', {"opening", "ready"})
    BY <1>1, <1>2, <1>3, <1>5, QueueStays DEF PlacesOK
  <2> QED BY <1>5, <2>1, <2>2 DEF PlacesOK
<1>8. DialOK'
  BY <1>1, <1>2, <1>5, DialPasses
<1>9. NetOK'
  BY <1>1, <1>2, <1>5, NetPasses
<1>10. ASSUME SoloWriter PROVE SoloWriter'
  BY <1>1, <1>2, <1>3, <1>5, <1>10, SoloPasses DEF Runs
<1>11. OwnOK'
  BY <1>1, <1>2, <1>3, <1>5, <1>10, OwnPasses DEF IdsOK
<1> QED BY <1>6, <1>7, <1>8, <1>9, <1>11 DEF Inv

(* ResponseReceiver: m_rlock, the header, the body.                                          *)
LEMMA RLockStep ==
  ASSUME Inv, NEW c \in Callers, RLock(c)
  PROVE  Inv'
<1>1. TypeOK /\ PlacesOK /\ DialOK /\ NetOK /\ OwnOK
  BY DEF Inv
<1>2. /\ stack \in Seq(Callers) /\ stack # <<>> /\ Head(stack) = c /\ wlock \in Seq(Callers) /\ rlock \in Seq(Callers)
      /\ pc[c] = "rlock" /\ rlock' = Append(rlock, c)
      /\ UNCHANGED <<conn, fd, cid, wlock, opened, job, id, err, got, wire, inbox, sasl, named, waited>>
  BY <1>1, RunsOK DEF RLock, At, TypeOK, connVars, callVars, netVars, confVars
<1>3. PICK w \in {"read", "rwait"} :
        /\ pc' = [pc EXCEPT ![c] = w]
        /\ IF rlock = <<>> THEN w = "read" /\ stack' = stack ELSE w = "rwait" /\ stack' = Tail(stack)
  BY DEF RLock, Goto, Suspend
<1>4. w \in Pcs /\ w \notin Marked \cup WHolding \cup {"wwait", "opening", "ready", "wake"}
      /\ pc[c] \in Running \cap Asked
      /\ pc[c] \notin Marked \cup WHolding \cup RHolding \cup {"wwait", "rwait", "opening", "ready", "wake"}
      /\ "read" \in Running \cap RHolding /\ "rwait" \notin Running \cup RHolding
  BY <1>2 DEF Running, Pcs, Marked, Asked, WHolding, RHolding
<1>5. pc'[c] = w /\ (\A d \in Callers \ {c} : pc'[d] = pc[d]) /\ pc' \in [Callers -> Pcs]
  BY <1>1, <1>3, <1>4, MovesOK
<1>6. rlock' \in Seq(Callers) /\ stack' \in Seq(Callers)
  <2>1. rlock' \in Seq(Callers)
    BY <1>2, Joined
  <2>2. Tail(stack) \in Seq(Callers)
    BY <1>2, Popped
  <2> QED BY <1>2, <1>3, <2>1, <2>2
<1>7. TypeOK'
  BY <1>1, <1>2, <1>5, <1>6 DEF TypeOK
<1>8. PlacesOK'
  <2>1. QueueOK(stack', pc', Running)
    <3>1. QueueOK(stack, pc, Running)
      BY <1>1 DEF PlacesOK
    <3>2. CASE rlock = <<>>
      BY <1>3, <1>4, <1>5, <3>1, <3>2, QueueStays
    <3>3. CASE rlock # <<>>
      <4>1. stack' = Tail(stack) /\ pc'[Head(stack)] \notin Running /\ \A d \in Callers \ {Head(stack)} : pc'[d] = pc[d]
        BY <1>2, <1>3, <1>4, <1>5, <3>3
      <4>2. QueueOK(Tail(stack), pc', Running)
        BY <1>2, <3>1, <4>1, QueueLeaves
      <4> QED BY <4>1, <4>2
    <3> QED BY <3>2, <3>3
  <2>2. QueueOK(opened', pc', {"opening", "ready"})
    BY <1>1, <1>2, <1>4, <1>5, QueueStays DEF PlacesOK
  <2>3. LockOK(rlock', pc', RHolding, "rwait")
    <3>1. LockOK(rlock, pc, RHolding, "rwait")
      BY <1>1 DEF PlacesOK
    <3>2. IF rlock = <<>> THEN pc'[c] \in RHolding ELSE pc'[c] = "rwait"
      BY <1>3, <1>4, <1>5
    <3>3. pc[c] \notin RHolding \cup {"rwait"} /\ "rwait" \notin RHolding
      BY <1>4
    <3>4. LockOK(Append(rlock, c), pc', RHolding, "rwait")
      BY <1>2, <1>5, <3>1, <3>2, <3>3, LockJoins
    <3> QED BY <1>2, <3>4
  <2>4. LockOK(wlock', pc', WHolding, "wwait")
    <3>1. LockOK(wlock, pc, WHolding, "wwait")
      BY <1>1 DEF PlacesOK
    <3>2. \A d \in Callers : (pc'[d] \in WHolding <=> pc[d] \in WHolding) /\ (pc'[d] = "wwait" <=> pc[d] = "wwait")
      BY <1>4, <1>5
    <3>3. LockOK(wlock, pc', WHolding, "wwait")
      BY <1>2, <3>1, <3>2, LockStays
    <3> QED BY <1>2, <3>3
  <2> QED BY <2>1, <2>2, <2>3, <2>4 DEF PlacesOK
<1>9. DialOK'
  BY <1>1, <1>2, <1>4, <1>5, DialPasses DEF Marked
<1>10. NetOK'
  BY <1>1, <1>2, <1>4, <1>5, NetPasses DEF WHolding
<1>11. ASSUME SoloWriter PROVE SoloWriter'
  BY <1>1, <1>2, <1>4, <1>5, <1>11, SoloPasses DEF WHolding
<1>12. OwnOK'
  BY <1>1, <1>2, <1>4, <1>5, <1>11, OwnPasses DEF Marked, WHolding, IdsOK
<1> QED BY <1>7, <1>8, <1>9, <1>10, <1>12 DEF Inv

LEMMA ReadStep ==
  ASSUME Inv, NEW c \in Callers, Read(c)
  PROVE  Inv'
<1>1. /\ Runs(c) /\ pc[c] = "read" /\ UNCHANGED Rest /\ UNCHANGED conn /\ err \in [Callers -> BOOLEAN]
  BY DEF Read, At, connVars, lockVars, netVars, confVars, Rest, Inv, TypeOK
<1>2. CASE Suspend(c, "header") /\ UNCHANGED err
  <2>1. "header" \in Pcs \ Running /\ SameQueues(pc[c], "header") /\ "header" \notin Marked
        /\ pc[c] \notin Marked \cup {"wake"} /\ pc[c] \in Asked
    BY <1>1 DEF Running, Pcs, SameQueues, Marked, Asked, WHolding, RHolding
  <2> QED BY <1>1, <1>2, <2>1, PlainSuspend
<1>3. ASSUME NEW w \in {"thrown", "runlock"}, Goto(c, w), err' = [err EXCEPT ![c] = TRUE]
      PROVE  Inv'
  <2>1. w \in Running \cap Pcs /\ SameQueues(pc[c], w) /\ w \notin Marked \cup Asked
        /\ pc[c] \notin Marked \cup {"wake"}
    BY <1>1 DEF Running, Pcs, SameQueues, Marked, Asked, WHolding, RHolding
  <2>2. err' \in [Callers -> BOOLEAN]
    BY <1>1, <1>3
  <2> QED BY <1>1, <1>3, <2>1, <2>2, PlainGoto
<1> QED BY <1>2, <1>3 DEF Read

\* A header is followed by its body.
Paired(s) == \A i \in 1..Len(s) : s[i].part = "header" =>
               i + 1 \in 1..Len(s) /\ s[i + 1].part = "body" /\ s[i + 1].of = s[i].of

LEMMA PairedTail ==
  ASSUME NEW S, NEW s \in Seq(S), s # <<>>, Paired(s)
  PROVE  /\ Paired(Tail(s))
         /\ Head(s).part = "header" => Tail(s) # <<>> /\ Head(Tail(s)).of = Head(s).of
<1>1. PICK t \in Seq(S), n \in Nat : t = Tail(s) /\ n = Len(t)
  <2>1. Tail(s) \in Seq(S) /\ Len(Tail(s)) \in Nat
    OBVIOUS
  <2> QED BY <2>1, Zenon
<1>2. Len(s) = n + 1 /\ Head(s) = s[1] /\ \A i \in 1..n : t[i] = s[i + 1]
  BY <1>1
<1>3. Paired(t)
  <2> SUFFICES ASSUME NEW i \in 1..n, t[i].part = "header"
               PROVE  i + 1 \in 1..n /\ t[i + 1].part = "body" /\ t[i + 1].of = t[i].of
    BY <1>1 DEF Paired
  <2>1. t[i] = s[i + 1] /\ i + 1 \in 1..Len(s)
    BY <1>2
  <2>2. (i + 1) + 1 \in 1..Len(s) /\ s[(i + 1) + 1].part = "body" /\ s[(i + 1) + 1].of = s[i + 1].of
    BY <2>1 DEF Paired
  <2>3. i + 1 \in 1..n
    BY <1>2, <2>2
  <2>4. t[i + 1] = s[(i + 1) + 1]
    BY <1>2, <2>3
  <2> QED BY <2>1, <2>2, <2>3, <2>4
<1>4. ASSUME Head(s).part = "header" PROVE t # <<>> /\ Head(t).of = Head(s).of
  <2>1. 1 \in 1..Len(s) /\ s[1].part = "header"
    BY <1>2, <1>4
  <2>2. 1 + 1 \in 1..Len(s) /\ s[1 + 1].of = s[1].of
    BY <2>1 DEF Paired
  <2>3. 1 \in 1..n
    BY <1>2, <2>2
  <2>4. t[1] = s[1 + 1]
    BY <1>2, <2>3
  <2>5. Len(t) = n /\ n >= 1
    BY <1>1, <2>3
  <2>6. t # <<>> /\ Head(t) = t[1]
    BY <2>5
  <2> QED BY <1>2, <2>2, <2>4, <2>6
<1> QED BY <1>1, <1>3, <1>4

(* The reader takes the first part of what has arrived.                                      *)
LEMMA InboxPops ==
  ASSUME Inv, NEW c \in Callers, NEW w \in {"body", "runlock"}, Idle, pc[c] \in {"header", "body"},
         inbox # <<>>, inbox' = Tail(inbox), pc' = [pc EXCEPT ![c] = w],
         w = "body" => pc[c] = "header" /\ Head(inbox).part = "header" /\ Head(inbox).of.id = id[c],
         UNCHANGED <<conn, fd, cid, wlock, rlock, opened, job, id, wire, sasl, named, waited>>
  PROVE  /\ inbox' \in Seq([part: {"header", "body"}, of: Requests]) /\ DialOK' /\ NetOK'
         /\ ~waited /\ fd # "dead" /\ IdsOK => IdsOK'
<1>1. TypeOK /\ PlacesOK /\ DialOK /\ NetOK /\ OwnOK
  BY DEF Inv
<1>2. inbox \in Seq(Parts)
  BY <1>1 DEF TypeOK, Parts
<1>3. w \in Pcs /\ w # "wake"
  BY DEF Pcs
<1>4. pc'[c] = w /\ \A d \in Callers \ {c} : pc'[d] = pc[d]
  BY <1>1, <1>3, MovesOK
<1>5. /\ Tail(inbox) \in Seq(Parts) /\ Head(inbox) \in ToSet(inbox)
      /\ \A m \in ToSet(Tail(inbox)) : m \in ToSet(inbox)
  BY <1>2, Popped
<1>6. /\ Paired(Tail(inbox))
      /\ Head(inbox).part = "header" => Tail(inbox) # <<>> /\ Head(Tail(inbox)).of = Head(inbox).of
  <2>1. Paired(inbox)
    BY <1>1 DEF NetOK, Paired
  <2> QED BY <1>2, <2>1, PairedTail
<1>7. DialOK'
  BY <1>1, <1>3, <1>4, DialPasses
<1>8. NetOK'
  <2>1. fd # "dead"
    BY <1>1 DEF NetOK
  <2>2. Paired(inbox)'
    BY <1>6
  <2>3. \A d \in Callers : pc'[d] = "writing" => waited'
    BY <1>1, <1>4 DEF NetOK
  <2>4. fd' # "up" => wire' = <<>>
    BY <1>1 DEF NetOK
  <2> QED BY <2>1, <2>2, <2>3, <2>4 DEF NetOK, Paired
<1>9. ASSUME IdsOK PROVE IdsOK'
  <2>1. SoloWriter'
    <3>1. \A d \in Callers : pc[d] = "stuck" => pc'[d] = "stuck"
      BY <1>4
    <3> QED BY <1>1, <1>9, <3>1, SoloPasses DEF IdsOK, Idle
  <2>2. \A d \in Callers : Sent(d)' = Sent(d)
    BY DEF Sent
  <2>3. \A d \in Callers : pc'[d] = "body" => d = c
    <3>1. \A a, d \in Callers : pc[a] \in RHolding /\ pc[d] \in RHolding => a = d
      BY <1>1 DEF PlacesOK, LockOK
    <3> QED BY <1>4, <3>1 DEF RHolding
  <2>4. \A r \in InFlight' : r \in InFlight
    BY <1>5 DEF InFlight
  <2>5. \A d \in Callers : pc'[d] \in Asked => pc[d] \in Asked
    BY <1>4 DEF Asked
  <2>6. ASSUME pc'[c] = "body" PROVE inbox' # <<>> /\ Head(inbox').of = Sent(c)
    <3>1. Head(inbox).part = "header" /\ Head(inbox).of.id = id[c] /\ pc[c] \in Asked
      BY <1>4, <2>6 DEF Asked
    <3>2. Head(inbox).of \in InFlight
      BY <1>5 DEF InFlight
    <3>3. Head(inbox).of = Sent(c)
      BY <1>9, <3>1, <3>2 DEF IdsOK
    <3> QED BY <1>6, <3>1, <3>3
  <2>7. \A d \in Callers : /\ pc'[d] = "write" => id'[d] = cid'
                           /\ pc'[d] \in Asked => id'[d] < cid'
                           /\ pc'[d] = "body" => inbox' # <<>> /\ (Head(inbox).of = Sent(d))'
    <3>1. \A d \in Callers : /\ pc'[d] = "write" => id'[d] = cid'
                             /\ pc'[d] \in Asked => id'[d] < cid'
      BY <1>4, <1>9, <2>5 DEF IdsOK
    <3>2. \A d \in Callers : pc'[d] = "body" => inbox' # <<>> /\ (Head(inbox).of = Sent(d))'
      BY <2>2, <2>3, <2>6
    <3> QED BY <3>1, <3>2
  <2>8. \A r \in InFlight' : r.id < cid' /\ \A d \in Callers : pc'[d] \in Asked /\ r.id = id'[d] => r = Sent(d)'
    BY <1>9, <2>2, <2>4, <2>5 DEF IdsOK
  <2> QED BY <2>1, <2>7, <2>8 DEF IdsOK
<1> QED BY <1>5, <1>7, <1>8, <1>9 DEF Parts

LEMMA HeaderStep ==
  ASSUME Inv, NEW c \in Callers, Header(c)
  PROVE  Inv'
<1>1. TypeOK /\ PlacesOK /\ DialOK /\ NetOK /\ OwnOK
  BY DEF Inv
<1>2. /\ Idle /\ pc[c] = "header" /\ inbox # <<>> /\ inbox' = Tail(inbox)
      /\ UNCHANGED <<conn, fd, cid, wlock, rlock, opened, job, id, got, wire, sasl, named, waited>>
  BY DEF Header, Waits, connVars, lockVars, confVars
<1>3. {"body", "runlock"} \subseteq Pcs /\ "runlock" \in Running /\ "body" \notin Running /\ pc[c] \notin Running
      /\ SameQueues(pc[c], "body") /\ SameQueues(pc[c], "runlock")
  BY <1>2 DEF Pcs, Running, SameQueues, WHolding, RHolding
<1>4. CASE /\ Head(inbox).part = "header" /\ Head(inbox).of.id = id[c]
           /\ pc' = [pc EXCEPT ![c] = "body"] /\ UNCHANGED <<stack, err>>
  <2>1. pc'[c] = "body" /\ (\A d \in Callers \ {c} : pc'[d] = pc[d]) /\ pc' \in [Callers -> Pcs]
    BY <1>1, <1>3, <1>4, MovesOK
  <2>2. PlacesOK'
    <3>1. QueueOK(stack', pc', Running)
      BY <1>1, <1>3, <1>4, <2>1, QueueStays DEF PlacesOK
    <3> QED BY <1>1, <1>2, <1>3, <2>1, <3>1, QueuesStay, SameQueuesSame
  <2>3. /\ inbox' \in Seq([part: {"header", "body"}, of: Requests]) /\ DialOK' /\ NetOK'
        /\ ~waited /\ fd # "dead" /\ IdsOK => IdsOK'
    BY <1>2, <1>4, InboxPops
  <2>4. TypeOK'
    BY <1>1, <1>2, <1>4, <2>1, <2>3 DEF TypeOK
  <2>5. OwnOK'
    BY <1>1, <1>2, <2>3 DEF OwnOK, OwnResponse
  <2> QED BY <2>2, <2>3, <2>4, <2>5 DEF Inv
<1>5. CASE Resume(c, "runlock") /\ err' = [err EXCEPT ![c] = TRUE]
  <2>1. pc' = [pc EXCEPT ![c] = "runlock"] /\ stack' = <<c>>
    BY <1>5 DEF Resume
  <2>2. PlacesOK' /\ stack' \in Seq(Callers)
    BY <1>1, <1>2, <1>3, <2>1, Begins DEF Moves
  <2>3. /\ inbox' \in Seq([part: {"header", "body"}, of: Requests]) /\ DialOK' /\ NetOK'
        /\ ~waited /\ fd # "dead" /\ IdsOK => IdsOK'
    BY <1>2, <2>1, InboxPops
  <2>4. pc' \in [Callers -> Pcs] /\ err' \in [Callers -> BOOLEAN]
    BY <1>1, <1>3, <1>5, <2>1 DEF TypeOK
  <2>5. TypeOK'
    BY <1>1, <1>2, <2>2, <2>3, <2>4 DEF TypeOK
  <2>6. OwnOK'
    BY <1>1, <1>2, <2>3 DEF OwnOK, OwnResponse
  <2> QED BY <2>2, <2>3, <2>5, <2>6 DEF Inv
<1> QED BY <1>4, <1>5 DEF Header

(* The body a reader decodes is the answer to its own request.                               *)
LEMMA BodyStep ==
  ASSUME Inv, NEW c \in Callers, Body(c)
  PROVE  Inv'
<1>1. TypeOK /\ PlacesOK /\ DialOK /\ NetOK /\ OwnOK
  BY DEF Inv
<1>2. /\ Idle /\ pc[c] = "body" /\ inbox # <<>> /\ inbox' = Tail(inbox)
      /\ pc' = [pc EXCEPT ![c] = "runlock"] /\ stack' = <<c>>
      /\ UNCHANGED <<conn, fd, cid, wlock, rlock, opened, job, id, wire, sasl, named, waited>>
  BY DEF Body, Waits, Resume, connVars, lockVars, confVars
<1>3. "runlock" \in Pcs \cap Running /\ pc[c] \notin Running /\ SameQueues(pc[c], "runlock")
  BY <1>2 DEF Pcs, Running, SameQueues, WHolding, RHolding
<1>4. PlacesOK' /\ stack' \in Seq(Callers)
  BY <1>1, <1>2, <1>3, Begins DEF Moves
<1>5. /\ inbox' \in Seq([part: {"header", "body"}, of: Requests]) /\ DialOK' /\ NetOK'
      /\ ~waited /\ fd # "dead" /\ IdsOK => IdsOK'
  BY <1>2, InboxPops
<1>6. /\ got' = [got EXCEPT ![c] = IF Head(inbox).of = Sent(c) THEN got[c] ELSE "foreign"]
      /\ \E bad \in BOOLEAN : err' = [err EXCEPT ![c] = bad]
  BY DEF Body
<1>7. TypeOK'
  <2>1. pc' \in [Callers -> Pcs] /\ err' \in [Callers -> BOOLEAN]
    BY <1>1, <1>2, <1>3, <1>6 DEF TypeOK
  <2>2. got' \in [Callers -> {"none", "foreign"}]
    BY <1>1, <1>6 DEF TypeOK
  <2> QED BY <1>1, <1>2, <1>4, <1>5, <2>1, <2>2 DEF TypeOK
<1>8. OwnOK'
  <2> SUFFICES ASSUME ~waited PROVE OwnResponse' /\ (fd # "dead" => IdsOK')
    BY <1>2 DEF OwnOK
  <2>1. fd # "dead" /\ IdsOK /\ OwnResponse
    BY <1>1, <1>2 DEF NetOK, OwnOK
  <2>2. Head(inbox).of = Sent(c)
    BY <1>2, <2>1 DEF IdsOK
  <2>3. got \in [Callers -> {"none", "foreign"}] /\ \A d \in Callers : got[d] # "foreign"
    BY <1>1, <2>1 DEF TypeOK, OwnResponse
  <2>4. \A d \in Callers : got'[d] # "foreign"
    BY <1>6, <2>2, <2>3
  <2> QED BY <1>5, <2>1, <2>4 DEF OwnResponse
<1> QED BY <1>4, <1>5, <1>7, <1>8 DEF Inv

LEMMA EofStep ==
  ASSUME Inv, NEW c \in Callers, Eof(c)
  PROVE  Inv'
<1>1. /\ Idle /\ pc[c] \in {"header", "body"} /\ Close(c, "runlock", TRUE)
      /\ UNCHANGED <<cid, wlock, rlock, opened, job, id, got, sasl, named, waited>>
  BY DEF Eof, lockVars, confVars
<1>2. SameQueues(pc[c], "runlock") /\ pc[c] \notin Running \cup {"dial", "wake"}
  BY <1>1 DEF SameQueues, WHolding, RHolding, Running
<1> QED BY <1>1, <1>2, CloseStep

(* What the callers do with the result.                                                      *)
LEMMA OpenResultStep ==
  ASSUME Inv, NEW c \in Callers, OpenResult(c)
  PROVE  Inv'
<1>1. TypeOK /\ PlacesOK /\ DialOK /\ NetOK /\ OwnOK
  BY DEF Inv
<1>2. /\ Runs(c) /\ pc[c] = "result" /\ job[c] # "Request"
      /\ UNCHANGED <<cid, wlock, rlock, opened, id, got, sasl, named, waited>>
  BY DEF OpenResult, At, lockVars, confVars
<1>3. stack \in Seq(Callers) /\ stack # <<>> /\ Head(stack) = c /\ ~Idle
  BY <1>1, <1>2, RunsOK
<1>4. /\ {"send", "wake"} \subseteq Running \cap Pcs /\ SameQueues(pc[c], "send") /\ SameQueues(pc[c], "wake")
      /\ {"send", "wake"} \cap (Marked \cup Asked) = {} /\ pc[c] \notin Marked \cup {"wake", "dial"}
  BY <1>2 DEF Running, Pcs, SameQueues, Marked, Asked, WHolding, RHolding
<1>5. CASE Continues(c) /\ job' = [job EXCEPT ![c] = NextJob(c)] /\ Goto(c, "send") /\ UNCHANGED <<connVars, err, netVars>>
  <2>1. pc' = [pc EXCEPT ![c] = "send"] /\ UNCHANGED stack /\ UNCHANGED <<conn, fd, err, wire, inbox>>
    BY <1>5 DEF Goto, connVars, netVars
  <2>2. pc'[c] = "send" /\ (\A d \in Callers \ {c} : pc'[d] = pc[d]) /\ pc' \in [Callers -> Pcs]
    BY <1>1, <1>4, <2>1, MovesOK
  <2>3. PlacesOK'
    BY <1>1, <1>2, <1>4, <2>1, GoesOn DEF Moves
  <2>4. /\ job' \in [Callers -> Jobs] /\ job'[c] # "Request" /\ \A d \in Callers \ {c} : job'[d] = job[d]
    <3>1. NextJob(c) \in Jobs \ {"Request"}
      BY DEF NextJob, Jobs
    <3> QED BY <1>1, <1>5, <3>1 DEF TypeOK
  <2>5. TypeOK'
    BY <1>1, <1>2, <2>1, <2>2, <2>4 DEF TypeOK
  <2>6. DialOK'
    <3>1. \A d \in Callers : (pc'[d] = "dial" <=> pc[d] = "dial") /\ (job'[d] = "Request" <=> job[d] = "Request")
      BY <1>2, <1>4, <2>2, <2>4
    <3> QED BY <1>1, <1>2, <2>1, <2>4, <3>1 DEF DialOK, OneOpener
  <2>7. NetOK'
    BY <1>1, <1>2, <2>1, <2>2, NetPasses
  <2>8. ASSUME SoloWriter PROVE SoloWriter'
    BY <1>1, <1>2, <1>3, <1>4, <2>2, <2>8, SoloPasses DEF Marked
  <2>9. OwnOK'
    BY <1>1, <1>2, <1>4, <2>1, <2>2, <2>4, <2>8, OwnPasses DEF IdsOK
  <2> QED BY <2>3, <2>5, <2>6, <2>7, <2>9 DEF Inv
<1>6. CASE Close(c, "wake", TRUE) /\ UNCHANGED job
  BY <1>2, <1>3, <1>4, <1>6, CloseStep
<1>7. CASE Goto(c, "wake") /\ UNCHANGED <<connVars, job, err, netVars>>
  <2>1. UNCHANGED Rest /\ UNCHANGED conn /\ err' \in [Callers -> BOOLEAN]
    BY <1>1, <1>2, <1>7 DEF connVars, netVars, Rest, TypeOK
  <2> QED BY <1>2, <1>4, <1>7, <2>1, PlainGoto
<1> QED BY <1>5, <1>6, <1>7 DEF OpenResult

LEMMA RequestResultStep ==
  ASSUME Inv, NEW c \in Callers, RequestResult(c)
  PROVE  Inv'
<1>1. /\ Runs(c) /\ pc[c] = "result" /\ TypeOK
      /\ UNCHANGED <<cid, wlock, rlock, opened, job, id, got, sasl, named, waited>>
  BY DEF RequestResult, At, lockVars, confVars, Inv
<1>2. stack \in Seq(Callers) /\ stack # <<>> /\ Head(stack) = c /\ ~Idle
  BY <1>1, RunsOK
<1>3. /\ "finish" \in Running \cap Pcs /\ SameQueues(pc[c], "finish")
      /\ "finish" \notin Marked \cup Asked /\ pc[c] \notin Marked \cup {"wake", "dial"}
  BY <1>1 DEF Running, Pcs, SameQueues, Marked, Asked, WHolding, RHolding
<1>4. CASE Close(c, "finish", TRUE)
  BY <1>1, <1>2, <1>3, <1>4, CloseStep
<1>5. CASE Suspend(c, "done") /\ Forget(c) /\ UNCHANGED <<connVars, netVars>>
  <2>1. UNCHANGED Rest /\ UNCHANGED conn /\ err' \in [Callers -> BOOLEAN]
    BY <1>1, <1>5 DEF Forget, connVars, netVars, Rest, TypeOK
  <2>2. "done" \in Pcs \ Running /\ SameQueues(pc[c], "done") /\ "done" \notin Marked \cup Asked
    BY <1>1 DEF Running, Pcs, SameQueues, Marked, Asked, WHolding, RHolding
  <2> QED BY <1>1, <1>3, <1>5, <2>1, <2>2, PlainSuspend
<1> QED BY <1>4, <1>5 DEF RequestResult

LEMMA ReturnStep ==
  ASSUME Inv, NEW c \in Callers, Return(c)
  PROVE  Inv'
<1>1. /\ Runs(c) /\ pc[c] = "finish" /\ Suspend(c, "done") /\ UNCHANGED Rest /\ UNCHANGED conn
      /\ err' \in [Callers -> BOOLEAN]
  BY DEF Return, Forget, At, connVars, lockVars, netVars, confVars, Rest, Inv, TypeOK
<1>2. "done" \in Pcs \ Running /\ SameQueues(pc[c], "done") /\ "done" \notin Marked \cup Asked
      /\ pc[c] \notin Marked \cup {"wake"}
  BY <1>1 DEF Running, Pcs, SameQueues, Marked, Asked, WHolding, RHolding
<1> QED BY <1>1, <1>2, PlainSuspend

(***************************************************************************)
(* The peer, and a close from the client                                     *)
(***************************************************************************)
LEMMA AnswerStep ==
  ASSUME Inv, Answer
  PROVE  Inv'
<1>1. TypeOK /\ PlacesOK /\ DialOK /\ NetOK /\ OwnOK
  BY DEF Inv
<1>2. /\ fd = "up" /\ wire # <<>> /\ wire' = Tail(wire)
      /\ inbox' = inbox \o <<[part |-> "header", of |-> Head(wire)], [part |-> "body", of |-> Head(wire)]>>
      /\ UNCHANGED <<conn, fd, cid, wlock, rlock, opened, stack, pc, job, id, err, got, sasl, named, waited>>
  BY DEF Answer, connVars, lockVars, callVars, confVars
<1>3. wire \in Seq(Requests) /\ inbox \in Seq(Parts)
  BY <1>1 DEF TypeOK, Parts
<1>4. /\ Head(wire) \in Requests /\ Tail(wire) \in Seq(Requests) /\ ToSet(wire) = ToSet(Tail(wire)) \cup {Head(wire)}
  BY <1>2, <1>3, Popped
<1>5. PICK h \in Parts, b \in Parts, r \in Requests :
        /\ r = Head(wire) /\ h = [part |-> "header", of |-> r] /\ b = [part |-> "body", of |-> r]
  <2>1. \A r \in Requests : [part |-> "header", of |-> r] \in Parts /\ [part |-> "body", of |-> r] \in Parts
    BY DEF Parts
  <2> QED BY <1>4, <2>1, Zenon
<1>6. h.part = "header" /\ h.of = r /\ b.part = "body" /\ b.of = r
  BY <1>5
<1>7. inbox' = inbox \o <<h, b>>
  BY <1>2, <1>5
<1>8. PICK n \in Nat : n = Len(inbox)
  BY <1>3
<1>9. /\ inbox' \in Seq(Parts) /\ Len(inbox') = n + 2 /\ DOMAIN inbox' = 1..(n + 2) /\ DOMAIN inbox = 1..n
      /\ \A i \in 1..n : inbox'[i] = inbox[i]
      /\ inbox'[n + 1] = h /\ inbox'[n + 2] = b
  BY <1>3, <1>7, <1>8
<1>10. NetOK'
  <2>1. ASSUME NEW i \in 1..(n + 2), inbox'[i].part = "header"
        PROVE  i + 1 \in 1..(n + 2) /\ inbox'[i + 1].part = "body" /\ inbox'[i + 1].of = inbox'[i].of
    <3>1. CASE i \in 1..n
      <4>1. inbox[i].part = "header"
        BY <1>9, <2>1, <3>1
      <4>2. i + 1 \in 1..n /\ inbox[i + 1].part = "body" /\ inbox[i + 1].of = inbox[i].of
        BY <1>1, <1>8, <3>1, <4>1 DEF NetOK
      <4>3. i + 1 \in 1..(n + 2)
        BY <3>1
      <4> QED BY <1>9, <3>1, <4>2, <4>3
    <3>2. CASE i = n + 1
      <4>1. i + 1 = n + 2 /\ i + 1 \in 1..(n + 2)
        BY <3>2
      <4> QED BY <1>6, <1>9, <3>2, <4>1
    <3>3. CASE i = n + 2
      BY <1>6, <1>9, <2>1, <3>3
    <3> QED BY <3>1, <3>2, <3>3
  <2>2. \A c \in Callers : pc'[c] = "writing" => waited'
    BY <1>1, <1>2 DEF NetOK
  <2>3. fd' = "up"
    BY <1>2
  <2> QED BY <1>9, <2>1, <2>2, <2>3 DEF NetOK
<1>11. \A q \in InFlight' : q \in InFlight
  <2>1. \A q \in ToSet(wire') : q \in ToSet(wire)
    BY <1>2, <1>4
  <2>2. ASSUME NEW m \in ToSet(inbox') PROVE m.of \in InFlight
    <3>1. PICK i \in 1..(n + 2) : m = inbox'[i]
      BY <1>9, <2>2 DEF ToSet
    <3>2. CASE i \in 1..n
      BY <1>9, <3>1, <3>2 DEF ToSet, InFlight
    <3>3. CASE i \in {n + 1, n + 2}
      <4>1. m.of = Head(wire)
        BY <1>5, <1>6, <1>9, <3>1, <3>3
      <4> QED BY <1>4, <4>1 DEF InFlight
    <3> QED BY <3>2, <3>3
  <2> QED BY <2>1, <2>2 DEF InFlight
<1>12. inbox # <<>> => inbox' # <<>> /\ Head(inbox') = Head(inbox)
  BY <1>3, <1>7
<1>13. TypeOK'
  BY <1>1, <1>2, <1>4, <1>9 DEF TypeOK, Parts
<1>14. PlacesOK' /\ DialOK'
  BY <1>1, <1>2 DEF PlacesOK, DialOK, OneOpener
<1>15. ASSUME IdsOK PROVE IdsOK'
  <2>1. SoloWriter' /\ \A c \in Callers : Sent(c)' = Sent(c)
    BY <1>2, <1>15 DEF IdsOK, SoloWriter, Sent
  <2> QED BY <1>2, <1>11, <1>12, <1>15, <2>1 DEF IdsOK
<1>16. OwnOK'
  BY <1>1, <1>2, <1>15 DEF OwnOK, OwnResponse
<1> QED BY <1>10, <1>13, <1>14, <1>16 DEF Inv

LEMMA ResetStep ==
  ASSUME Inv, Reset
  PROVE  Inv'
<1>1. TypeOK /\ PlacesOK /\ DialOK /\ NetOK /\ OwnOK
  BY DEF Inv
<1>2. /\ fd = "up" /\ fd' = "reset" /\ wire' = <<>>
      /\ UNCHANGED <<conn, cid, wlock, rlock, opened, stack, pc, job, id, err, got, inbox, sasl, named, waited>>
  BY DEF Reset, lockVars, callVars, confVars
<1>3. TypeOK' /\ PlacesOK'
  BY <1>1, <1>2 DEF TypeOK, PlacesOK
<1>4. DialOK' /\ NetOK'
  BY <1>1, <1>2 DEF DialOK, OneOpener, NetOK
<1>5. \A q \in InFlight' : q \in InFlight
  BY <1>2, Nobody DEF InFlight
<1>6. ASSUME IdsOK PROVE IdsOK'
  <2>1. SoloWriter' /\ \A c \in Callers : Sent(c)' = Sent(c)
    BY <1>2, <1>6 DEF IdsOK, SoloWriter, Sent
  <2> QED BY <1>2, <1>5, <1>6, <2>1 DEF IdsOK
<1>7. OwnOK'
  BY <1>1, <1>2, <1>6 DEF OwnOK, OwnResponse
<1> QED BY <1>3, <1>4, <1>7 DEF Inv

LEMMA SafeAsyncCloseStep ==
  ASSUME Inv, SafeAsyncClose
  PROVE  Inv'
<1> DEFINE R == SetToSeq(Reading)
           W == SetToSeq(Writing)
<1>1. TypeOK /\ PlacesOK /\ DialOK /\ NetOK /\ OwnOK
  BY DEF Inv
<1>2. /\ Idle /\ conn' = "closed" /\ fd' = "dead" /\ wire' = <<>> /\ inbox' = <<>>
      /\ pc' = [d \in Callers |-> IF d \in Reading \cup Writing THEN Interrupted(d) ELSE pc[d]]
      /\ err' = [d \in Callers |-> err[d] \/ d \in Reading \cup Writing]
      /\ stack' = R \o W
      /\ UNCHANGED <<cid, wlock, rlock, opened, job, id, got, sasl, named, waited>>
  BY DEF SafeAsyncClose, lockVars, confVars
<1>3. R \in Seq(Callers) /\ ToSet(R) = Reading /\ IsInjective(R)
  <2>1. Reading \subseteq Callers /\ IsFiniteSet(Reading)
    BY KafkaBrokerAssumption, FS_Subset DEF Reading
  <2> HIDE DEF R
  <2>2. R \in Seq(Reading) /\ ToSet(R) = Reading /\ IsInjective(R)
    BY <2>1, SetToSeqOK DEF R
  <2> QED BY <2>1, <2>2
<1>4. W \in Seq(Callers) /\ ToSet(W) = Writing /\ IsInjective(W)
  <2>1. Writing \subseteq Callers /\ IsFiniteSet(Writing)
    BY KafkaBrokerAssumption, FS_Subset DEF Writing
  <2> HIDE DEF W
  <2>2. W \in Seq(Writing) /\ ToSet(W) = Writing /\ IsInjective(W)
    BY <2>1, SetToSeqOK DEF W
  <2> QED BY <2>1, <2>2
<1> HIDE DEF R, W
<1>5. /\ pc' \in [Callers -> Pcs]
      /\ \A d \in Callers : pc'[d] = IF d \in Reading \cup Writing THEN Interrupted(d) ELSE pc[d]
  <2>1. \A d \in Callers : pc[d] \in Pcs
    BY <1>1 DEF TypeOK
  <2> QED BY <1>2, <2>1, InterruptedOK
<1>6. stack' \in Seq(Callers) /\ QueueOK(stack', pc', Running)
  <2>1. Reading \cap Writing = {}
    BY DEF Reading, Writing
  <2>2. R \o W \in Seq(Callers) /\ IsInjective(R \o W) /\ ToSet(R \o W) = Reading \cup Writing
    BY <1>3, <1>4, <2>1, ConcatSet
  <2>3. \A d \in Callers : pc[d] \notin Running
    BY <1>1, <1>2, Nobody DEF Idle, PlacesOK, QueueOK
  <2>4. \A d \in Callers : pc'[d] \in Running <=> d \in Reading \cup Writing
    BY <1>5, <2>3, InterruptedOK
  <2>5. Reading \cup Writing \subseteq Callers
    BY DEF Reading, Writing
  <2> QED BY <1>2, <2>2, <2>4, <2>5 DEF QueueOK
<1>7. PlacesOK'
  <2>1. \A d \in Callers : SameQueues(pc[d], pc'[d])
    BY <1>5, InterruptedOK, SameQueuesSame
  <2> QED BY <1>1, <1>2, <1>6, <2>1, QueuesStay
<1>8. TypeOK'
  <2>1. err' \in [Callers -> BOOLEAN]
    BY <1>1, <1>2 DEF TypeOK
  <2>2. wire' \in Seq(Requests) /\ inbox' \in Seq([part: {"header", "body"}, of: Requests])
    BY <1>2
  <2> QED BY <1>1, <1>2, <1>5, <1>6, <2>1, <2>2 DEF TypeOK
<1>9. DialOK'
  <2>1. \A d \in Callers : pc'[d] # "dial" /\ (pc[d] \in {"dial", "wake"} => pc'[d] = "wake")
    <3>1. \A d \in Callers : pc[d] = "dial" => d \in Reading
      BY DEF Reading
    <3> QED BY <1>5, <3>1, InterruptedOK
  <2> QED BY <1>1, <1>2, <2>1 DEF DialOK, OneOpener
<1>10. NetOK'
  <2>1. \A d \in Callers : pc'[d] # "writing"
    <3>1. \A d \in Callers : pc[d] = "writing" => d \in Writing
      BY DEF Writing
    <3> QED BY <1>5, <3>1, InterruptedOK
  <2> QED BY <1>2, <2>1 DEF NetOK
<1>11. OwnOK'
  BY <1>1, <1>2 DEF OwnOK, OwnResponse
<1> QED BY <1>7, <1>8, <1>9, <1>10, <1>11 DEF Inv

(***************************************************************************)
(* The invariant and what it says                                            *)
(***************************************************************************)
LEMMA InitInv == Init => Inv
<1> SUFFICES ASSUME Init PROVE Inv
  OBVIOUS
<1>1. TypeOK
  <2>1. cid \in 0..MaxId /\ id \in [Callers -> 0..MaxId]
    BY KafkaBrokerAssumption DEF Init
  <2>2. pc \in [Callers -> Pcs] /\ job \in [Callers -> Jobs]
    BY DEF Init, Pcs, Jobs
  <2>3. err \in [Callers -> BOOLEAN] /\ got \in [Callers -> {"none", "foreign"}]
    BY DEF Init
  <2>4. /\ wlock \in Seq(Callers) /\ rlock \in Seq(Callers) /\ opened \in Seq(Callers) /\ stack \in Seq(Callers)
        /\ wire \in Seq(Requests) /\ inbox \in Seq([part: {"header", "body"}, of: Requests])
    BY DEF Init
  <2>5. conn = "none" /\ fd = "new" /\ {sasl, named, waited} \subseteq BOOLEAN
    BY DEF Init
  <2> QED BY <2>1, <2>2, <2>3, <2>4, <2>5 DEF TypeOK
<1>2. PlacesOK
  <2>1. \A c \in Callers : pc[c] \notin Running \cup WHolding \cup RHolding \cup {"wwait", "rwait", "opening", "ready"}
    BY DEF Init, Running, WHolding, RHolding
  <2>2. QueueOK(stack, pc, Running) /\ QueueOK(opened, pc, {"opening", "ready"})
    BY <2>1, Nobody DEF Init, QueueOK
  <2>3. LockOK(wlock, pc, WHolding, "wwait") /\ LockOK(rlock, pc, RHolding, "rwait")
    BY <2>1, Nobody DEF Init, LockOK, QueueOK
  <2> QED BY <2>2, <2>3 DEF PlacesOK
<1>3. DialOK
  BY DEF Init, DialOK, OneOpener
<1>4. NetOK
  BY DEF Init, NetOK
<1>5. OwnOK
  <2>1. InFlight = {}
    BY Nobody DEF Init, InFlight
  <2> QED BY <2>1 DEF Init, OwnOK, OwnResponse, IdsOK, SoloWriter, Asked
<1> QED BY <1>1, <1>2, <1>3, <1>4, <1>5 DEF Inv

LEMMA StutterInv ==
  ASSUME Inv, UNCHANGED vars
  PROVE  Inv'
<1>1. UNCHANGED <<conn, fd, cid, wlock, rlock, opened, stack, pc, job, id, err, got, wire, inbox, sasl, named, waited>>
  BY DEF vars, connVars, lockVars, callVars, netVars, confVars
<1>2. TypeOK' /\ PlacesOK' /\ DialOK' /\ NetOK'
  BY <1>1 DEF Inv, TypeOK, PlacesOK, DialOK, OneOpener, NetOK
<1>3. OwnOK'
  BY <1>1 DEF Inv, OwnOK, OwnResponse, IdsOK, SoloWriter, InFlight, Sent
<1> QED BY <1>2, <1>3 DEF Inv

LEMMA NextInv ==
  ASSUME Inv, [Next]_vars
  PROVE  Inv'
<1>1. ASSUME NEW c \in Callers, Step(c) PROVE Inv'
  BY <1>1, OpenStep, OpenWokenStep, ResolvedStep, WakeStep, ReadyStep, ReadyWokenStep, SendHandshakeStep, WriteStep,
     WUnlockStep, RLockStep, ReadStep, RUnlockStep, OpenResultStep, RequestResultStep, ReturnStep DEF Step
<1>2. ASSUME NEW c \in Callers, Event(c) PROVE Inv'
  BY <1>2, ResolveStep, ConnectedStep, RefusedStep, WritableStep, HeaderStep, BodyStep, EofStep DEF Event
<1>3. ASSUME NEW c \in Callers, Call(c) PROVE Inv'
  BY <1>3, CallStep
<1>4. CASE Next
  BY <1>1, <1>2, <1>3, <1>4, AnswerStep, ResetStep, SafeAsyncCloseStep DEF Next
<1>5. CASE UNCHANGED vars
  BY <1>5, StutterInv
<1> QED BY <1>4, <1>5

LEMMA Always == Spec => []Inv
<1>1. Init => Inv
  BY InitInv
<1>2. Inv /\ [Next]_vars => Inv'
  BY NextInv
<1> QED BY <1>1, <1>2, PTL DEF Spec

(* Broker::Open and Ready (broker.cpp 133-198, 526-545): for any number of callers,  *)
(* at most one coroutine negotiates on the connection, and whoever the loop finds     *)
(* waiting in m_opened has an opener that dials or negotiates.                          *)
THEOREM Opening == Spec => []OpeningSafe
<1>1. Inv => OpeningSafe
  <2> SUFFICES ASSUME Inv PROVE OpeningSafe
    OBVIOUS
  <2>1. Idle => \A c \in Callers : pc[c] # "wake"
    BY Nobody DEF Idle, Inv, PlacesOK, QueueOK, Running
  <2> QED BY <2>1 DEF Inv, DialOK, OpeningSafe, OpenedHasOpener
<1> QED BY <1>1, Always, PTL

(* ResponseReceiver (broker.h 285-362): for any number of callers and any number of    *)
(* requests in flight, as long as no Write had to wait for the socket nobody takes the *)
(* response to another's request: ids in flight are distinct, and the body that follows *)
(* a header with the reader's id is the answer to the reader.                            *)
THEOREM ResponsesOwn == Spec => []OwnResponse
<1>1. Inv => OwnResponse
  BY DEF Inv, OwnOK, OwnResponse
<1> QED BY <1>1, Always, PTL

(* WLock, WUnlock, RLock, RUnlock (broker.h 220-223) and every return between them:    *)
(* when the loop polls, whoever holds m_wlock or m_rlock waits for the socket, so no    *)
(* return and no close leaks a lock.                                                     *)
THEOREM LocksForIO == Spec => []LocksHeldForIO
<1>1. Inv => LocksHeldForIO
  <2> SUFFICES ASSUME Inv, Idle PROVE /\ wlock # <<>> => pc[Head(wlock)] \in {"writing", "stuck"}
                                      /\ rlock # <<>> => pc[Head(rlock)] \in {"header", "body"}
    BY DEF LocksHeldForIO
  <2>1. \A c \in Callers : pc[c] \notin Running
    BY Nobody DEF Idle, Inv, PlacesOK, QueueOK
  <2>2. /\ wlock # <<>> => Head(wlock) \in Callers /\ pc[Head(wlock)] \in WHolding
        /\ rlock # <<>> => Head(rlock) \in Callers /\ pc[Head(rlock)] \in RHolding
    BY Popped DEF Inv, TypeOK, PlacesOK, LockOK
  <2> QED BY <2>1, <2>2 DEF WHolding, RHolding, Running
<1> QED BY <1>1, Always, PTL

=============================================================================
