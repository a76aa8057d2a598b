----------------------------- MODULE ClientPool -----------------------------
(* client_pool<CLI>::SQueue (src/src/coev/client_pool.h): the connections one   *)
(* thread shares between its coroutines. get_cli() waits, connects or takes an   *)
(* idle client according to three counters; ~Instance releases the client and     *)
(* runs the first waiter on the spot.                                              *)
EXTENDS LocalAsync, FiniteSets

CONSTANTS MaxClients, \* Config::max_connections
          Watched,    \* the coroutines whose waits HeadServed follows
          MaxDead     \* bound: how often the del() of a client that was never counted
                      \* may take another client off m_connected (0 would leave it out)

ASSUME PoolAssumption ==
  /\ IsFiniteSet(Co)
  /\ MaxClients \in Nat \ {0} /\ MaxDead \in Nat /\ Watched \subseteq Co

VARIABLES max_connections, \* Config::max_connections, 0 once stopped
          m_connected, m_connecting, m_used,
          idle,  \* the number of released clients in the queue
          at,    \* at[c]: where c stands in get_cli(), or what it holds
  lost,  \* history: a connection was given up or deleted since the waiters queue
  uncounted \* history: how often del() of a client that was never counted lowered m_connected

poolVars ==
  <<max_connections, m_connected, m_connecting, m_used, idle, at, lost, uncounted>>
allPoolVars == <<localVars, poolVars>>

(* "out": no client; "loop": head of the loop; "connect", "retry", "quick":      *)
(* awaits create() and the two sleeps; "holds": uses a client. A peer may close a   *)
(* connection at any time and nothing but get_cli() tests it (operator bool), so    *)
(* whether the first idle client is alive is chosen where get_cli() takes it.        *)
At == {"out", "loop", "connect", "retry", "quick", "holds"}

Holders == {c \in Co : at[c] = "holds"}
Connecting == {c \in Co : at[c] \in {"connect", "retry"}}

PoolTypeOK ==
  /\ LocalTypeOK
  /\ max_connections \in {0, MaxClients}
  /\ m_connected \in 0..Cardinality(Co) + MaxClients /\ m_connecting \in 0..MaxClients
  /\ m_used \in 0..Cardinality(Co)
  /\ idle \in Nat
  /\ at \in [Co -> At]
  /\ lost \in BOOLEAN
  /\ uncounted \in 0..MaxDead

PoolInit ==
  /\ LocalInit
  /\ max_connections = MaxClients
  /\ m_connected = 0 /\ m_connecting = 0 /\ m_used = 0
  /\ idle = 0
  /\ at = [c \in Co |-> "out"]
  /\ lost = FALSE /\ uncounted = 0

\* c runs at point p of get_cli().
Here(c, p) == Runs(c) /\ at[c] = p

\* c awaits I/O or a timer at point p of get_cli().
AwaitAt(c, p) ==
  /\ at' = [at EXCEPT ![c] = p]
  /\ Goto(c, "io") /\ stack' = Tail(stack)
  /\ UNCHANGED <<waiters, next, phase>>

\* get_cli() returns: with a client, or with INVALID ("out").
ReturnWith(c, what) ==
  /\ at' = [at EXCEPT ![c] = what]
  /\ Goto(c, "run")
  /\ UNCHANGED <<stack, waiters, next, phase>>

Total == m_connected + m_connecting
Full == m_used = m_connected /\ max_connections = Total

\* The call of get_cli().
GetCli(c) ==
  /\ Here(c, "out") /\ pc[c] = "run"
  /\ at' = [at EXCEPT ![c] = "loop"]
  /\ UNCHANGED <<localVars, max_connections, m_connected, m_connecting, m_used, idle, lost, uncounted>>

\* max_connections == 0: return INVALID.
LoopStopped(c) ==
  /\ Here(c, "loop") /\ max_connections = 0
  /\ ReturnWith(c, "out")
  /\ UNCHANGED <<max_connections, m_connected, m_connecting, m_used, idle, lost, uncounted>>

\* Every connection is in use or being made: wait for a release.
LoopWait(c) ==
  /\ Here(c, "loop") /\ max_connections # 0 /\ Full
  /\ waiters' = Append(waiters, c)
  /\ Goto(c, "parked") /\ stack' = Tail(stack)
  /\ UNCHANGED <<next, phase, poolVars>>

\* Room for one more connection: m_connecting++ and create().
LoopConnect(c) ==
  /\ Here(c, "loop") /\ max_connections # 0 /\ ~Full /\ Total < max_connections
  /\ m_connecting' = m_connecting + 1
  /\ AwaitAt(c, "connect")
  /\ UNCHANGED <<max_connections, m_connected, m_used, idle, lost, uncounted>>

\* The loop takes an idle client.
MayTake(c) == Here(c, "loop") /\ max_connections # 0 /\ ~Full /\ Total >= max_connections

\* The first idle client is alive: use it.
LoopTake(c) ==
  /\ MayTake(c) /\ idle > 0
  /\ idle' = idle - 1 /\ m_used' = m_used + 1
  /\ ReturnWith(c, "holds")
  /\ UNCHANGED <<max_connections, m_connected, m_connecting, lost, uncounted>>

\* del(): one connection less.
Del == m_connected' = IF m_connected > 0 THEN m_connected - 1 ELSE 0

\* Mutant: a broken idle client is deleted without being taken off the count.
LoopDelUncounted(c) ==
  /\ MayTake(c) /\ idle > 0
  /\ idle' = idle - 1
  /\ AwaitAt(c, "quick")
  /\ lost' = (waiters # <<>>)
  /\ UNCHANGED <<max_connections, m_connected, m_connecting, m_used, uncounted>>

\* The first idle client is broken: delete it and sleep for quick_retry_time.
LoopDel(c) ==
  /\ MayTake(c) /\ idle > 0
  /\ idle' = idle - 1 /\ Del
  /\ AwaitAt(c, "quick")
  /\ lost' = (waiters # <<>>)
  /\ UNCHANGED <<max_connections, m_connecting, m_used, uncounted>>

\* No idle client to take: nothing in the loop awaits or changes what it tests.
Spins(c) == MayTake(c) /\ idle = 0

\* continue: the loop goes round for ever, and no other coroutine of the thread runs.
LoopSpin(c) == Spins(c) /\ UNCHANGED allPoolVars

\* After quick_retry_time: round the loop again.
AfterQuick(c) ==
  /\ Here(c, "quick")
  /\ at' = [at EXCEPT ![c] = "loop"]
  /\ UNCHANGED <<localVars, max_connections, m_connected, m_connecting, m_used, idle, lost, uncounted>>

\* create() returned a client that is alive; m_connecting-- as get_cli() returns.
Connected(c) ==
  /\ Here(c, "connect")
  /\ m_connected' = m_connected + 1 /\ m_used' = m_used + 1
  /\ m_connecting' = m_connecting - 1
  /\ ReturnWith(c, "holds")
  /\ UNCHANGED <<max_connections, idle, lost, uncounted>>

\* create() returned nullptr: sleep for retry_time.
Refused(c) ==
  /\ Here(c, "connect")
  /\ AwaitAt(c, "retry")
  /\ UNCHANGED <<max_connections, m_connected, m_connecting, m_used, idle, lost, uncounted>>

\* create() returned a client that is not alive: del() it, sleep for retry_time. The
\* client was never counted: m_connected loses another one.
HalfOpen(c) ==
  /\ Here(c, "connect")
  /\ Del
  /\ uncounted' = uncounted + (m_connected - m_connected')
  /\ uncounted' <= MaxDead \* bound
  /\ AwaitAt(c, "retry")
  /\ UNCHANGED <<max_connections, m_connecting, m_used, idle, lost>>

\* After retry_time: connect again while i < retry_count. (retry_count is any
\* number above 0 and i is not kept: "retry" may be the last turn or not.)
Retry(c) ==
  /\ Here(c, "retry")
  /\ AwaitAt(c, "connect")
  /\ UNCHANGED <<max_connections, m_connected, m_connecting, m_used, idle, lost, uncounted>>

\* Mutant: m_connecting stays when get_cli() gives up.
GiveUpStays(c) ==
  /\ Here(c, "retry")
  /\ ReturnWith(c, "out")
  /\ lost' = (waiters # <<>>)
  /\ UNCHANGED <<max_connections, m_connected, m_connecting, m_used, idle, uncounted>>

\* After the last retry: m_connecting-- and INVALID; nobody is woken.
GiveUp(c) ==
  /\ Here(c, "retry")
  /\ m_connecting' = m_connecting - 1
  /\ ReturnWith(c, "out")
  /\ lost' = (waiters # <<>>)
  /\ UNCHANGED <<max_connections, m_connected, m_used, idle, uncounted>>

\* Mutant: release() wakes nobody.
ReleaseSilent(c) ==
  /\ Runs(c) /\ c \in Holders /\ max_connections > 0
  /\ idle' = idle + 1
  /\ m_used' = m_used - 1
  /\ at' = [at EXCEPT ![c] = "out"]
  /\ UNCHANGED <<localVars, max_connections, m_connected, m_connecting, lost, uncounted>>

\* ~Instance with the pool open: release() queues the client, then runs the first
\* waiter, which goes round its loop.
Release(c) ==
  /\ Runs(c) /\ c \in Holders /\ max_connections > 0
  /\ idle' = idle + 1
  /\ m_used' = m_used - 1
  /\ at' = [at EXCEPT ![c] = "out"]
  /\ ResumeInline(c)
  /\ lost' = (lost /\ waiters' # <<>>)
  /\ UNCHANGED <<max_connections, m_connected, m_connecting, uncounted>>

\* ~Instance with the pool stopped: the client is deleted, no counter changes.
Drop(c) ==
  /\ Runs(c) /\ c \in Holders /\ max_connections = 0
  /\ at' = [at EXCEPT ![c] = "out"]
  /\ UNCHANGED <<localVars, max_connections, m_connected, m_connecting, m_used, idle, lost, uncounted>>

\* client_pool::stop(): no more connections; the coroutine of init() wakes and
\* clear()s the idle ones.
Stop(c) ==
  /\ Runs(c) /\ pc[c] = "run" /\ max_connections > 0
  /\ max_connections' = 0
  /\ idle' = 0
  /\ m_connected' = IF m_connected > idle THEN m_connected - idle ELSE 0
  /\ UNCHANGED <<localVars, m_connecting, m_used, at, lost, uncounted>>

\* User code awaits something else.
UserWait(c) == (c \in Holders \/ at[c] = "out") /\ IoWait(c) /\ UNCHANGED poolVars

\* libev, which runs once every coroutine of Co has been started.
PoolLoop ==
  /\ phase = "start" => \A c \in Co : pc[c] # "new"
  /\ LoopStep
  /\ UNCHANGED poolVars

GetCliStep(c) ==
  \/ LoopStopped(c) \/ LoopWait(c) \/ LoopConnect(c) \/ LoopTake(c) \/ LoopDel(c) \/ LoopSpin(c)
  \/ AfterQuick(c) \/ Connected(c) \/ Refused(c) \/ HalfOpen(c) \/ Retry(c) \/ GiveUp(c)

PoolStep(c) ==
  \/ (Start(c) \/ IoReady(c)) /\ UNCHANGED poolVars
  \/ UserWait(c)
  \/ GetCli(c) \/ GetCliStep(c) \/ Release(c) \/ Drop(c) \/ Stop(c)

PoolNext == (\E c \in Co : PoolStep(c)) \/ PoolLoop

PoolSpec == PoolInit /\ [][PoolNext]_allPoolVars

(***************************************************************************)
(* Properties                                                                *)
(***************************************************************************)

(* While the pool is open m_used counts the clients held and m_connecting the     *)
(* coroutines in create() or its retries, whatever connections fail, break or are   *)
(* replaced. m_connected counts the clients held or idle, less at most one for each  *)
(* time del() of a client that was never counted lowered it (client_pool.h:220): it    *)
(* is exact in a pool where that has not happened, and never too high.                  *)
CountersMatch ==
  max_connections > 0 =>
    /\ m_used = Cardinality(Holders)
    /\ m_connecting = Cardinality(Connecting)
    /\ Cardinality(Holders) + idle \in m_connected .. m_connected + uncounted

(* max_connections bounds the connections open or being made, but for one more for  *)
(* each time del() of a client that was never counted lowered m_connected.             *)
Bounded ==
  Cardinality(Holders) + idle + Cardinality(Connecting) <= MaxClients + uncounted

(* get_cli() finds no room, not every client in use and yet no idle client, and so  *)
(* loops without an await, only after del() of a client that was never counted has    *)
(* lowered m_connected.                                                                *)
SpinsOnlyMiscounted == (\E c \in Co : Spins(c)) => uncounted > 0

(* As long as no connection is given up or deleted while somebody waits, a waiter  *)
(* and an idle client exist together only while the release() that woke the          *)
(* waiter's predecessor is still on the stack. (A waiter woken where a connection      *)
(* was lost opens a new one and leaves the idle client to nobody, and where              *)
(* m_connected was lowered below the clients there are, so does any caller.)               *)
NoWaiterWithIdle ==
  idle > 0 /\ phase = "loop" => waiters = <<>> \/ lost \/ uncounted > 0

(* The pool as a whole, the types included: its counters, the connections it opens   *)
(* and its waiters are as stated above, exactly so in a pool where no uncounted         *)
(* client was deleted next to a counted one.                                             *)
PoolSafe ==
  /\ PoolTypeOK
  /\ CountersMatch
  /\ Bounded
  /\ NoWaiterWithIdle

\* All coroutines are started, callbacks run to their end, timers and sockets fire, holders release.
PoolFairness ==
  /\ WF_allPoolVars(\/ PoolLoop
                    \/ \E c \in Co : GetCliStep(c) \/ UserWait(c)
                                       \/ (Start(c) /\ UNCHANGED poolVars))
  /\ \A c \in Co :
       /\ SF_allPoolVars(IoReady(c) /\ UNCHANGED poolVars)
       /\ SF_allPoolVars(Release(c))

FairPoolSpec == PoolSpec /\ PoolFairness

(* While somebody holds a client of an open pool, the first get_cli() in the      *)
(* queue is woken, whatever connections fail or break meanwhile, unless the thread   *)
(* hangs in the loop of another get_cli() (SpinsOnlyMiscounted says when). The         *)
(* coroutines are alike: to follow the waits of one of them is to follow any.           *)
HeadServed ==
  \A c \in Watched : pc[c] = "parked" /\ Head(waiters) = c /\ Holders # {}
                  ~> pc[c] # "parked" \/ max_connections = 0 \/ \E d \in Co : Spins(d)
=============================================================================
