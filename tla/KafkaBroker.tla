---------------------------- MODULE KafkaBroker ----------------------------
(* One Broker of the Kafka client (src/src/coev_kafka/broker.h, broker.cpp,     *)
(* connect.cpp) and the coroutines of its thread that open it, send requests on  *)
(* it and read their responses. Coroutines run one at a time, the innermost of   *)
(* `stack`; a lock, an event or a close resumes its waiter inside the resumer,   *)
(* so the order in which nested coroutines go on is part of the model. Asserts   *)
(* are compiled out, as in the build's default (Release): code after a failed    *)
(* one goes on. The broker process at the other end is external.                 *)
EXTENDS Naturals, Sequences, SequencesExt

CONSTANTS Callers, \* coroutines that use the broker, one call each
          MaxId    \* bound on m_correlation_id

ASSUME KafkaBrokerAssumption == IsFiniteSet(Callers) /\ MaxId \in Nat

VARIABLES
  conn,   \* "none": no m_conn yet; else Connect's m_state
  fd,     \* its socket: "new", "connecting", "up", "reset" by the peer, "dead"
  cid,    \* m_correlation_id
  wlock,  \* m_wlock: the holder, then its waiters
  rlock,  \* m_rlock: the holder, then its waiters
  opened, \* coroutines waiting in m_opened
  stack,  \* nest of running coroutines, innermost first
  pc,     \* pc[c]: where c stands
  job,    \* job[c]: the request c works on
  id,     \* id[c]: the correlation id c's request was encoded with
  err,    \* err[c]: c's last step failed
  got,    \* got[c]: history: c took a "foreign" response
  wire,   \* requests the peer has not answered yet
  inbox,  \* response headers and bodies not read yet
  sasl,   \* Net.SASL.Enable, with the default Version 1 and Handshake on
  named,  \* the address is a name: _Open resolves it first
  waited  \* history: some Write had to wait for the socket

connVars == <<conn, fd>>
lockVars == <<wlock, rlock>>
callVars == <<job, id, err, got>>
netVars == <<wire, inbox>>
confVars == <<sasl, named>>
vars == <<connVars, cid, lockVars, opened, stack, pc, callVars, netVars, confVars, waited>>

\* What an opener sends before Open returns, and what callers send.
Jobs == {"ApiVersions3", "ApiVersions0", "Handshake", "Authenticate", "Request"}

Requests == [by: Callers, job: Jobs, id: 0..MaxId]

Pcs == {"idle", "open", "resolve", "opening", "woken", "dial", "wake", "send", "ready", "readied", "stuck",
        "dialling", "wwait", "write", "writing", "wunlock", "rlock", "rwait", "read", "header",
        "body", "runlock", "result", "finish", "thrown", "done"}

TypeOK ==
  /\ conn \in {"none", "closed", "opening", "opened"}
  /\ fd \in {"new", "connecting", "up", "reset", "dead"}
  /\ cid \in 0..MaxId
  /\ wlock \in Seq(Callers) /\ rlock \in Seq(Callers)
  /\ opened \in Seq(Callers) /\ stack \in Seq(Callers)
  /\ pc \in [Callers -> Pcs] /\ job \in [Callers -> Jobs]
  /\ id \in [Callers -> 0..MaxId] /\ err \in [Callers -> BOOLEAN]
  /\ got \in [Callers -> {"none", "foreign"}]
  /\ wire \in Seq(Requests)
  /\ inbox \in Seq([part: {"header", "body"}, of: Requests])
  /\ {sasl, named, waited} \subseteq BOOLEAN

Init ==
  /\ conn = "none" /\ fd = "new" /\ cid = 0
  /\ wlock = <<>> /\ rlock = <<>> /\ opened = <<>> /\ stack = <<>>
  /\ pc = [c \in Callers |-> "idle"] /\ job = [c \in Callers |-> "Request"]
  /\ id = [c \in Callers |-> 0] /\ err = [c \in Callers |-> FALSE]
  /\ got = [c \in Callers |-> "none"]
  /\ wire = <<>> /\ inbox = <<>>
  /\ sasl \in BOOLEAN /\ named \in BOOLEAN /\ waited = FALSE

\* Steps of the running coroutine; Idle when the loop polls.
Crashed == \E c \in Callers : pc[c] = "thrown"
Runs(c) == stack # <<>> /\ Head(stack) = c /\ ~Crashed
Idle == stack = <<>>
At(c, where) == Runs(c) /\ pc[c] = where
Waits(c, where) == Idle /\ pc[c] = where

Goto(c, where) == pc' = [pc EXCEPT ![c] = where] /\ UNCHANGED stack
Suspend(c, where) == pc' = [pc EXCEPT ![c] = where] /\ stack' = Tail(stack)
Resume(c, where) == pc' = [pc EXCEPT ![c] = where] /\ stack' = <<c>>
Fails(c, yes) == err' = [err EXCEPT ![c] = yes] /\ UNCHANGED <<job, id, got>>

-----------------------------------------------------------------------------
(* Connect::Close and io_context::__close: every coroutine that waits on the     *)
(* socket is resumed with an error, inside the closer: the reader or the dialler  *)
(* first, then the writer.                                                         *)
Reading == {c \in Callers : pc[c] \in {"dial", "header", "body"}}
Writing == {c \in Callers : pc[c] \in {"writing", "stuck"}}

Interrupted(c) ==
  CASE pc[c] = "dial" -> "wake"
    [] pc[c] \in {"header", "body"} -> "runlock"
    [] pc[c] \in {"writing", "stuck"} -> "wunlock"

\* The closer goes on at `where` with `failed` once the interrupted are through.
Close(c, where, failed) ==
  /\ conn' = "closed" /\ fd' = "dead" /\ wire' = <<>> /\ inbox' = <<>>
  /\ pc' = [d \in Callers |-> IF d = c THEN where
                              ELSE IF d \in Reading \cup Writing THEN Interrupted(d) ELSE pc[d]]
  /\ err' = [d \in Callers |-> IF d = c THEN failed ELSE err[d] \/ d \in Reading \cup Writing]
  /\ stack' = SetToSeq(Reading \ {c}) \o SetToSeq(Writing \ {c}) \o <<c>> \o (IF Idle THEN <<>> ELSE Tail(stack))

\* Mutant: the socket is closed and its waiters are left.
CloseSilently ==
  /\ Idle /\ ~Crashed /\ conn \in {"opening", "opened"}
  /\ conn' = "closed" /\ fd' = "dead" /\ wire' = <<>> /\ inbox' = <<>>
  /\ UNCHANGED <<cid, lockVars, opened, stack, pc, callVars, confVars, waited>>

\* Broker::Close or SafeAsyncClose, called from the client (a broker replaced,
\* removed or deregistered, the client closed).
SafeAsyncClose ==
  /\ Idle /\ ~Crashed /\ conn \in {"opening", "opened"}
  /\ conn' = "closed" /\ fd' = "dead" /\ wire' = <<>> /\ inbox' = <<>>
  /\ pc' = [d \in Callers |-> IF d \in Reading \cup Writing THEN Interrupted(d) ELSE pc[d]]
  /\ err' = [d \in Callers |-> err[d] \/ d \in Reading \cup Writing]
  /\ stack' = SetToSeq(Reading) \o SetToSeq(Writing)
  /\ UNCHANGED <<cid, lockVars, opened, job, id, got, confVars, waited>>

-----------------------------------------------------------------------------
(* Broker::Open                                                                   *)

\* A coroutine starts a call: it opens the broker, or it uses a pointer it kept.
Call(c) ==
  /\ Waits(c, "idle") /\ ~Crashed
  /\ \E first \in {"open", "send"} : Resume(c, first)
  /\ UNCHANGED <<connVars, cid, lockVars, opened, callVars, netVars, confVars, waited>>

\* Mutant: ::connect on a socket in use counts as under way.
DialAgain(c) ==
  /\ conn' = "opening" /\ fd' = "connecting"
  /\ Suspend(c, "dial")
  /\ UNCHANGED <<err, netVars, cid, lockVars, opened, job, id, got, confVars, waited>>

\* Connect::Dial and io_context::connect. A socket that was closed, or that is
\* connected or connecting already, makes ::connect fail at once and is closed.
Dial(c) ==
  /\ IF fd = "new"
       THEN /\ conn' = "opening" /\ fd' = "connecting"
            /\ Suspend(c, "dial")
            /\ UNCHANGED <<err, netVars>>
       ELSE Close(c, "wake", TRUE)
  /\ UNCHANGED <<cid, lockVars, opened, job, id, got, confVars, waited>>

\* _Open up to its first wait: an open connection is reused, an opener waits for
\* the one before it.
Open(c) ==
  /\ At(c, "open")
  /\ \/ /\ conn = "opened"
        /\ Goto(c, "wake") /\ Fails(c, FALSE)
        /\ UNCHANGED <<connVars, cid, lockVars, opened, netVars, confVars, waited>>
     \/ /\ conn = "opening"
        /\ opened' = Append(opened, c) /\ Suspend(c, "opening")
        /\ UNCHANGED <<connVars, cid, lockVars, callVars, netVars, confVars, waited>>
     \/ /\ conn \in {"none", "closed"} /\ named
        /\ conn' = "closed" /\ Suspend(c, "resolve")
        /\ UNCHANGED <<fd, cid, lockVars, opened, callVars, netVars, confVars, waited>>
     \/ conn \in {"none", "closed"} /\ ~named /\ Dial(c)

\* _Open after its wait in m_opened: it fails when the connection is closed, else
\* it dials (the opened connection is not reused here).
OpenWoken(c) ==
  /\ At(c, "woken")
  /\ \/ /\ conn = "closed"
        /\ Goto(c, "wake") /\ Fails(c, TRUE)
        /\ UNCHANGED <<connVars, cid, lockVars, opened, netVars, confVars, waited>>
     \/ conn # "closed" /\ named /\ Suspend(c, "resolve")
        /\ UNCHANGED <<connVars, cid, lockVars, opened, callVars, netVars, confVars, waited>>
     \/ conn # "closed" /\ ~named /\ Dial(c)

\* parse_dns answers: the address, or an error.
Resolve(c) ==
  /\ Waits(c, "resolve") /\ ~Crashed
  /\ \/ Resume(c, "dialling") /\ UNCHANGED callVars
     \/ Resume(c, "wake") /\ Fails(c, TRUE)
  /\ UNCHANGED <<connVars, cid, lockVars, opened, netVars, confVars, waited>>

Resolved(c) == At(c, "dialling") /\ Dial(c)

\* The dialled connection is up: the opener asks for the API versions.
Connected(c) ==
  /\ Waits(c, "dial") /\ ~Crashed
  /\ conn' = "opened" /\ fd' = "up"
  /\ job' = [job EXCEPT ![c] = "ApiVersions3"]
  /\ Resume(c, "send")
  /\ UNCHANGED <<cid, lockVars, opened, id, err, got, netVars, confVars, waited>>

\* The peer refuses the connection: connect() closes the socket, under a writer that
\* was let through too early.
Refused(c) ==
  /\ Waits(c, "dial") /\ ~Crashed
  /\ Close(c, "wake", TRUE)
  /\ UNCHANGED <<cid, lockVars, opened, job, id, got, confVars, waited>>

\* Open's last loop: whoever waits in m_opened runs, one after the other; then
\* Open returns and its caller sends its request, or gives up.
Wake(c) ==
  /\ At(c, "wake")
  /\ IF opened # <<>>
       THEN /\ pc' = [pc EXCEPT ![Head(opened)] = IF @ = "ready" THEN "readied" ELSE "woken"]
            /\ stack' = <<Head(opened)>> \o stack
            /\ opened' = Tail(opened)
            /\ UNCHANGED job
       ELSE /\ Goto(c, IF err[c] THEN "result" ELSE "send")
            /\ job' = [job EXCEPT ![c] = "Request"]
            /\ UNCHANGED opened
  /\ UNCHANGED <<connVars, cid, lockVars, id, err, got, netVars, confVars, waited>>

-----------------------------------------------------------------------------
(* SendAndReceive: Ready, SendInternal, ResponseReceiver                          *)

\* The request is encoded with the id of now; then WLock().
Encode(c) ==
  /\ id' = [id EXCEPT ![c] = cid]
  /\ wlock' = Append(wlock, c)
  /\ IF wlock = <<>> THEN Goto(c, "write") ELSE Suspend(c, "wwait")
  /\ UNCHANGED <<job, err, got, opened>>

\* Ready(): a closed connection fails, one that opens is waited for. The SASL
\* handshake goes to SendInternal without it.
Ready(c) ==
  /\ At(c, "send") /\ job[c] # "Handshake"
  /\ \/ /\ conn \in {"none", "closed"}
        /\ Goto(c, "result") /\ Fails(c, TRUE) /\ UNCHANGED <<wlock, opened>>
     \/ /\ conn = "opening"
        /\ opened' = Append(opened, c) /\ Suspend(c, "ready")
        /\ UNCHANGED <<wlock, callVars>>
     \/ conn = "opened" /\ Encode(c)
  /\ UNCHANGED <<connVars, cid, rlock, netVars, confVars, waited>>

\* Ready() after its wait asks only whether the connection is closed.
ReadyWoken(c) ==
  /\ At(c, "readied")
  /\ \/ /\ conn = "closed"
        /\ Goto(c, "result") /\ Fails(c, TRUE) /\ UNCHANGED <<wlock, opened>>
     \/ conn # "closed" /\ Encode(c)
  /\ UNCHANGED <<connVars, cid, rlock, netVars, confVars, waited>>

SendHandshake(c) ==
  /\ At(c, "send") /\ job[c] = "Handshake" /\ Encode(c)
  /\ UNCHANGED <<connVars, cid, rlock, netVars, confVars, waited>>

\* The request c encoded.
Sent(c) == [by |-> c, job |-> job[c], id |-> id[c]]

Written(c) ==
  /\ cid < MaxId
  /\ wire' = IF fd = "up" THEN Append(wire, Sent(c)) ELSE wire
  /\ cid' = cid + 1
  /\ err' = [err EXCEPT ![c] = FALSE]

\* Connect::Write, holding m_wlock: the bytes go out, or it waits for the socket,
\* or the socket fails and is closed. On a closed socket it does nothing and
\* reports success; on one that still connects it waits for a write event that the
\* end of the connect switches off.
Write(c) ==
  /\ At(c, "write")
  /\ \/ /\ fd # "connecting" /\ Written(c) /\ Goto(c, "wunlock")
        /\ UNCHANGED <<connVars, inbox, waited>>
     \/ /\ fd = "up"
        /\ Suspend(c, "writing") /\ waited' = TRUE
        /\ UNCHANGED <<connVars, cid, err, netVars>>
     \/ /\ fd = "connecting"
        /\ Suspend(c, "stuck")
        /\ UNCHANGED <<connVars, cid, err, netVars, waited>>
     \/ /\ fd = "reset"
        /\ Close(c, "wunlock", TRUE)
        /\ UNCHANGED <<cid, waited>>
  /\ UNCHANGED <<lockVars, opened, job, id, got, confVars>>

\* The socket takes the rest, or fails.
Writable(c) ==
  /\ Waits(c, "writing") /\ ~Crashed
  /\ \/ /\ fd = "up" /\ Written(c) /\ Resume(c, "wunlock")
        /\ UNCHANGED <<connVars, inbox>>
     \/ /\ fd = "reset"
        /\ Close(c, "wunlock", TRUE)
        /\ UNCHANGED cid
  /\ UNCHANGED <<lockVars, opened, job, id, got, confVars, waited>>

\* Releases a lock: its first waiter runs at `there`, inside c.
Handover(c, lock, here, there) ==
  IF Tail(lock) = <<>> THEN Goto(c, here)
  ELSE /\ pc' = [pc EXCEPT ![c] = here, ![lock[2]] = there]
       /\ stack' = <<lock[2]>> \o stack

\* Mutant: an early return keeps the lock.
WUnlockKept(c) ==
  /\ At(c, "wunlock")
  /\ IF err[c]
       THEN Goto(c, "result") /\ UNCHANGED wlock
       ELSE wlock' = Tail(wlock) /\ Handover(c, wlock, IF job[c] = "Handshake" THEN "result" ELSE "rlock", "write")
  /\ UNCHANGED <<connVars, cid, rlock, opened, callVars, netVars, confVars, waited>>

\* finally(WUnlock()); only the SASL handshake does not wait for its response.
WUnlock(c) ==
  /\ At(c, "wunlock")
  /\ wlock' = Tail(wlock)
  /\ Handover(c, wlock, IF err[c] \/ job[c] = "Handshake" THEN "result" ELSE "rlock", "write")
  /\ UNCHANGED <<connVars, cid, rlock, opened, callVars, netVars, confVars, waited>>

\* ResponseReceiver's RLock().
RLock(c) ==
  /\ At(c, "rlock")
  /\ rlock' = Append(rlock, c)
  /\ IF rlock = <<>> THEN Goto(c, "read") ELSE Suspend(c, "rwait")
  /\ UNCHANGED <<connVars, cid, wlock, opened, callVars, netVars, confVars, waited>>

\* ReadFull of the fixed header. On a closed socket it returns at once with eight
\* zero bytes: correlation id 0 and a length of 0, whose remaining -4 bytes make
\* the resize of the body throw.
Read(c) ==
  /\ At(c, "read")
  /\ \/ /\ fd # "dead" /\ Suspend(c, "header") /\ UNCHANGED err
     \/ /\ fd = "dead"
        /\ Goto(c, IF id[c] = 0 THEN "thrown" ELSE "runlock")
        /\ err' = [err EXCEPT ![c] = TRUE]
  /\ UNCHANGED <<connVars, cid, lockVars, opened, job, id, got, netVars, confVars, waited>>

\* Mutant: the id is not compared.
HeaderUnchecked(c) ==
  /\ Waits(c, "header") /\ ~Crashed /\ inbox # <<>>
  /\ inbox' = Tail(inbox)
  /\ pc' = [pc EXCEPT ![c] = "body"]
  /\ UNCHANGED <<stack, err, connVars, cid, lockVars, opened, job, id, got, wire, confVars, waited>>

\* The header arrives: a foreign id is ErrCorrelationID and leaves the body.
Header(c) ==
  /\ Waits(c, "header") /\ ~Crashed /\ inbox # <<>>
  /\ inbox' = Tail(inbox)
  /\ \/ /\ Head(inbox).part = "header" /\ Head(inbox).of.id = id[c]
        /\ pc' = [pc EXCEPT ![c] = "body"] /\ UNCHANGED <<stack, err>>
     \/ /\ Head(inbox).part = "body" \/ Head(inbox).of.id # id[c]
        /\ Resume(c, "runlock") /\ err' = [err EXCEPT ![c] = TRUE]
  /\ UNCHANGED <<connVars, cid, lockVars, opened, job, id, got, wire, confVars, waited>>

\* The body arrives and is decoded, which may fail (a response of a version this
\* code reads wrongly, or another request's).
Body(c) ==
  /\ Waits(c, "body") /\ ~Crashed /\ inbox # <<>>
  /\ inbox' = Tail(inbox)
  /\ Resume(c, "runlock")
  /\ got' = [got EXCEPT ![c] = IF Head(inbox).of = Sent(c) THEN @ ELSE "foreign"]
  /\ \E bad \in BOOLEAN : err' = [err EXCEPT ![c] = bad]
  /\ UNCHANGED <<connVars, cid, lockVars, opened, job, id, wire, confVars, waited>>

\* The peer closed and everything it sent is read: ReadFull closes the socket.
Eof(c) ==
  /\ Idle /\ ~Crashed /\ pc[c] \in {"header", "body"} /\ fd = "reset" /\ inbox = <<>>
  /\ Close(c, "runlock", TRUE)
  /\ UNCHANGED <<cid, lockVars, opened, job, id, got, confVars, waited>>

\* finally(RUnlock()).
RUnlock(c) ==
  /\ At(c, "runlock")
  /\ rlock' = Tail(rlock)
  /\ Handover(c, rlock, "result", "read")
  /\ UNCHANGED <<connVars, cid, wlock, opened, callVars, netVars, confVars, waited>>

-----------------------------------------------------------------------------
(* What the callers of SendAndReceive do with the result                          *)

\* _Open after ApiVersions, with and without SASL; version 0 is the second try.
NextJob(c) ==
  CASE job[c] = "ApiVersions3" /\ err[c] -> "ApiVersions0"
    [] job[c] = "Handshake" -> "Authenticate"
    [] OTHER -> "Handshake"

Continues(c) ==
  \/ job[c] = "ApiVersions3" /\ err[c]
  \/ job[c] \in {"ApiVersions3", "ApiVersions0"} /\ sasl /\ ~err[c]
  \/ job[c] = "Handshake" /\ ~err[c]

\* The opener's next request, or the end of _Open: a failure closes the socket.
OpenResult(c) ==
  /\ At(c, "result") /\ job[c] # "Request"
  /\ \/ /\ Continues(c)
        /\ job' = [job EXCEPT ![c] = NextJob(c)]
        /\ Goto(c, "send")
        /\ UNCHANGED <<connVars, err, netVars>>
     \/ /\ ~Continues(c) /\ err[c]
        /\ Close(c, "wake", TRUE) /\ UNCHANGED job
     \/ /\ ~Continues(c) /\ ~err[c]
        /\ Goto(c, "wake") /\ UNCHANGED <<connVars, job, err, netVars>>
  /\ UNCHANGED <<cid, lockVars, opened, id, got, confVars, waited>>

\* The call returned: how is of no consequence here.
Forget(c) == err' = [err EXCEPT ![c] = FALSE]

\* The client closes a broker whose request failed; other callers (the producer, for
\* most errors) leave it open.
RequestResult(c) ==
  /\ At(c, "result") /\ job[c] = "Request"
  /\ \/ err[c] /\ conn \in {"opening", "opened"} /\ Close(c, "finish", TRUE)
     \/ Suspend(c, "done") /\ Forget(c) /\ UNCHANGED <<connVars, netVars>>
  /\ UNCHANGED <<cid, lockVars, opened, job, id, got, confVars, waited>>

Return(c) ==
  /\ At(c, "finish") /\ Suspend(c, "done") /\ Forget(c)
  /\ UNCHANGED <<connVars, cid, lockVars, opened, job, id, got, netVars, confVars, waited>>

-----------------------------------------------------------------------------
(* The peer                                                                        *)

\* A Kafka broker answers the requests of a connection in order.
Answer ==
  /\ ~Crashed /\ fd = "up" /\ wire # <<>> /\ Idle
  /\ wire' = Tail(wire)
  /\ inbox' = inbox \o <<[part |-> "header", of |-> Head(wire)], [part |-> "body", of |-> Head(wire)]>>
  /\ UNCHANGED <<connVars, cid, lockVars, opened, stack, pc, callVars, confVars, waited>>

\* It closes the connection: what it did not answer is lost.
Reset ==
  /\ ~Crashed /\ fd = "up" /\ Idle
  /\ fd' = "reset" /\ wire' = <<>>
  /\ UNCHANGED <<conn, cid, lockVars, opened, stack, pc, callVars, inbox, confVars, waited>>

Step(c) ==
  \/ Open(c) \/ OpenWoken(c) \/ Resolved(c) \/ Wake(c)
  \/ Ready(c) \/ ReadyWoken(c) \/ SendHandshake(c) \/ Write(c) \/ WUnlock(c) \/ RLock(c) \/ Read(c) \/ RUnlock(c)
  \/ OpenResult(c) \/ RequestResult(c) \/ Return(c)

Event(c) ==
  Resolve(c) \/ Connected(c) \/ Refused(c) \/ Writable(c) \/ Header(c) \/ Body(c) \/ Eof(c)

Next ==
  \/ \E c \in Callers : Call(c) \/ Step(c) \/ Event(c)
  \/ Answer \/ Reset \/ SafeAsyncClose

\* The thread runs what is ready; the loop delivers what the socket has; the peer
\* answers what it got. Nobody has to call, to close or to reset.
Fairness ==
  /\ WF_vars(\E c \in Callers : Step(c))
  /\ WF_vars(\E c \in Callers : Event(c))
  /\ WF_vars(Answer)

Spec == Init /\ [][Next]_vars /\ Fairness

-----------------------------------------------------------------------------
(* Properties                                                                      *)

\* ResponseReceiver (broker.h 285-362): as long as no Write had to wait for the
\* socket, the response a coroutine takes is the answer to the request it sent,
\* however many requests are in flight. (Once a Write has waited, a second sender
\* may have been encoded with the same id and may read first.)
OwnResponse ==
  ~waited => \A c \in Callers : got[c] # "foreign"

\* m_wlock and m_rlock (broker.h 220-223): when the thread polls, the holder of a
\* lock waits for the socket it guards; no early return leaks a lock, so every
\* waiter of a lock has a holder that will hand it over.
LocksHeldForIO ==
  Idle => /\ wlock # <<>> => pc[Head(wlock)] \in {"writing", "stuck"}
          /\ rlock # <<>> => pc[Head(rlock)] \in {"header", "body"}

\* Open and Ready (broker.cpp 133-175, 526-545): whoever waits in m_opened has an
\* opener under way that will resume it: one that dials or that negotiates.
OpenedHasOpener ==
  Idle /\ opened # <<>> => \E c \in Callers : pc[c] = "dial" \/ job[c] # "Request"

\* _Open (broker.cpp 151-198): one coroutine at a time negotiates on a connection.
OneOpener ==
  \A c, d \in Callers : job[c] # "Request" /\ job[d] # "Request" => c = d

\* Open() and Ready() as a whole, the types included: one opener, and whoever waits
\* for it has one.
OpeningSafe ==
  /\ TypeOK
  /\ OpenedHasOpener
  /\ OneOpener

\* SendAndReceive (broker.h 225-256): calls whose peer answers or closes return.
\* Two ends are excepted: the exception of a resize to -4 bytes, and a writer that
\* was let through Ready() while the socket still connected.
CallsReturn ==
  <>[](\/ \A c \in Callers : pc[c] \in {"idle", "done"}
       \/ Crashed
       \/ \E c \in Callers : pc[c] = "stuck")

\* Broker::Write and Broker::ReadFull (broker.cpp 548, 560):
\* assert(m_conn->IsOpened()).
AssertIsOpened ==
  \A c \in Callers : At(c, "write") \/ At(c, "read") => conn = "opened"
=============================================================================
