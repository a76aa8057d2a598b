# A TLA+ model of coev

coev is a C++20 coroutine library on libev with clients and servers built on it
(TCP, HTTP, HTTP/2, Redis, MySQL, Kafka, ZooKeeper). This directory models its
core (how a coroutine waits, who resumes it, on which thread and in which order, and
what channels, mutexes, wait groups, task groups and connection pools promise) and
the largest program built on it, the Kafka client: its protocol messages, its
connections, its metadata, its producer and its consumer. TLC checks the modules on
small instances; TLAPS proves their safety properties (mutexes, channels, the wait group, the
task group, the connection pool, the connection, the seeds, the cache, the producer and the consumer
of the Kafka client) for every number of threads, coroutines, brokers and partitions. Section 4 says which and from what.

`PROJECT.json` has, for every definition, the lines it models; for every property,
a mutated definition that breaks it; and the list of hazards the properties are
for. Paths below are relative to the repository's root (`src/` in PROJECT.json).

## 1. The system

A *coroutine* runs on one thread until it awaits something. A *thread* runs an event
loop (`cosys::start`, `ev_run`); its callbacks resume coroutines. Resuming one runs
it on top of the resumer until it suspends, so a thread's running coroutines form
a nest, a stack. Coroutines that `runnable` starts run before `ev_run` is entered.

| component | state | operations | what is hard |
|---|---|---|---|
| `co_event` (`src/coev/co_event.*`) | status word, caller, thread, place in a queue | await_ready, await_suspend, resume, destructor | the awaiting and the resuming thread race on the status word |
| `co_async` | intrusive queue of events | suspend, resume, resume_next_loop, resume_all | inline resumption nests; `local_async` is drained only when a callback ends |
| `guard::co_async` | the same under `m_mutex` | suspend(test, getter), deliver, resume | the waiter is popped and served under the lock and woken after it |
| `co_deliver` | per thread: queue of events, `ev_async` | resume, cb_async, stop | events arrive while a batch is resumed; signals coalesce; the thread may have stopped |
| `co_mutex`, `guard::co_mutex` | a flag and waiters | lock, unlock, try_lock | hand-off to a coroutine that runs later, on another thread |
| `co_channel`, `guard::co_channel` | a queue and waiters | set, get, try_get | an item, a sleeping getter and a wake-up on its way |
| `co_waitgroup` | an atomic counter and waiters | add, done, wait | the counter is changed outside the lock under which it is tested |
| `co_task`, `guard::co_task`, `wait_for_any/all` | promises with ids, a waiter | load, unload, wait, destroy | tasks that end inside load(), tasks destroyed while suspended or running |
| `client_pool` | three counters, idle clients, waiters | get_cli, create, release, del, stop | the counters decide who waits, who connects; failures in between |
| `runnable`, `cosys` | thread count, exit queues | start, end, stop | threads starting and ending while the exit message is sent |
| `io_context`, `server`, `udp` | fd, two watchers, two queues | connect, accept, send, recv, close | close while others wait; partial writes |
| `awaitable`, `promise` | caller, status, type | await, destroy | who owns a frame |
| timers, DNS, curl, Redis, MySQL, SSL | one library handle, one `co_async` each | one call, one callback | late callbacks |
| HTTP, HTTP/2 | sessions and streams | request, response | the stream table |
| ZooKeeper client | xid, pending requests, watches | request, reply, reconnect | replies matched by order |
| Kafka: broker | state of the connection, correlation id, a write and a read lock, waiters for the open | open, send, receive, close | several openers; ids and responses that must match; close under waiting coroutines |
| Kafka: client | seeds, dead seeds, brokers by id, metadata, partition cache, coordinators | refresh, leader, coordinator, close | lists that change during an await, stale and dead brokers, retries against deadlines |
| Kafka: producer | topic, partition and broker stages, in-flight count, retry levels | input, dispatch, flush, retry, shutdown | order per partition over retries; every message answered once; the count at shutdown |
| Kafka: consumer | a child per partition, a fetch loop per broker | consume, fetch, hand over, abort, close | children between two brokers; late and repeated responses |
| Kafka: group, offsets | generation, marked and committed offsets | join, sync, heartbeat, commit | unfinished in the code |
| Kafka: messages | the layout of every request and response by version | encode, decode, pick a version | encoder, decoder and version tables must agree for every version |
| Kafka: balance strategies, partitioners | none | pure functions | every partition assigned once, balanced, sticky |

Components call one another and share state only through `co_async` queues, `co_deliver`
queues and the objects above; there are no other channels between threads.

What makes the core correct: an event is resumed exactly once per wait; no wake-up is
lost between the object's queue, the status word, the `co_deliver` queue and the
signal; what was handed to a coroutine (a lock, an item) belongs to it and to nobody
else from then on; an object never has both something to give and somebody waiting
for it; a frame is not used after it is destroyed nor destroyed while it runs.

## 2. Modules

    CoEvent            the status word
      GuardAsync       threads, guard::co_async, co_deliver, event loops
        GuardMutex     guard::co_mutex
        GuardChannel   guard::co_channel          implements FifoChannel
        WaitGroup      co_waitgroup
    LocalAsync         one thread: co_async, local_async, callbacks
        LocalMutex     co_mutex
        LocalChannel   co_channel
        CoTask         co_task, wait_for_any, wait_for_all
        ClientPool     client_pool::SQueue
    FifoChannel        what a channel promises
    Queues             lists: keep some of the items, count them, merge into one
      QueueLemmas      what the proofs need to know of them
    GuardAsyncProofs   what GuardAsync keeps
      GuardProofs      over it, GuardMutex, GuardChannel and WaitGroup
    LocalProofs        LocalAsync and, over it, LocalMutex, LocalChannel, ClientPool, CoTask
    KafkaBrokerProofs, KafkaClientProofs, KafkaProducerProofs, KafkaConsumerProofs
    KafkaWire          packet_encoder, packet_decoder, layouts
      KafkaGroupMsgs, KafkaDataMsgs, KafkaAdminMsgs   the messages
      KafkaVersions    which version a request is made in
        KafkaCodec     encode, send, decode; composes the four above
    KafkaBroker        a connection and the coroutines that share it
    KafkaClient        seeds, brokers, metadata
    KafkaProducer      AsyncProducer and its stages
    KafkaConsumer      Consumer, PartitionConsumer, BrokerConsumer

### Several threads: GuardAsync

A coroutine awaits one event at a time, so an event is named by its owner. Variables:
`pc` (where a coroutine stands), `status` and `tid` (its event's `m_status`, `m_tid`),
`waiting` (the object's queue), `hand` (the event a coroutine popped in `__ev` and has
still to wake), `stack` (each thread's nest), `deliverq`, `signal`, `batch` (a thread's
`co_deliver::m_waiter`, its pending `ev_async`, the local list of `cb_async`), `open`
(threads in `all_delivers`), `live` (threads still in `ev_run`).

Every critical section and every compare-exchange is one step, so all that can happen
between them does happen: `suspend()` is `Enqueue` (or `PassThrough`), then `CheckReady`
(await_ready), then `CheckSuspend` (await_suspend); `deliver()` is `PopWaiter` (with the
object's hand-off, in the same step, as the getter runs under `m_mutex`), then `WakeInline`
or `WakeRemote`; the other thread does `Collect` and one `ResumeNext` per event. `StopLoop` and
`ThreadExit` are `cosys::stop` and the end of a thread, which destroys its suspended
coroutines and unlinks their events. `IoWait` and `IoReady` stand for every await of a
watcher. `ASSERT` as a status stands for the `assert(false)` branches. The definitions of the three
objects carry the object's name (`MutexSpec`, `ChannelSpec`, `GroupSpec`), so that one module,
`GuardProofs`, can extend them all.

The steps are sequentially consistent: the code uses acquire-only exchanges, and what a
weaker memory order could do to `m_reserved` and `m_caller` is not modelled. The objects outlive the
coroutines that wait in them: the INVALID of `co_async::suspend` and of its callers is returned only when
`~co_async` runs with waiters in its queue, and no model has that.

### One thread: LocalAsync

`stack` is the nest, `waiters` the object's queue, `next` is `local_async`, `phase` tells
whether the thread is before `ev_run`, polling, or in a callback. `ResumeInline` is
`co_async::resume`, `ResumeNextLoop` moves a waiter to `next`, `LocalResume` and
`EndCallback` are the loop of `local_resume()` at the end of a callback. Here too the four objects
name their definitions (`MutexSpec`, `ChannelSpec`, `PoolSpec`, `TaskSpec`) so that `LocalProofs` can
extend them all.

*CoTask*: `Load` enters a task and runs it inside `load()`; `End` is the end of a task,
`~promise()` and `unload()`, which runs the waiting parent in its place; `ReturnAny` and
`ReturnAll` are the rest of `wait_for_any` and `wait_for_all`. `External` is another object's
callback that resumes a task. The ids never wrap (TASK_ID_MAX is 10^18), so `__increase`
is +1. The `wait_all()` member is the loop of `wait_for_all`.

*ClientPool*: one branch of `get_cli()` per action. `idle` is the number of idle clients; a peer may
break a connection at any time and only `get_cli()` looks, so whether the first idle client is alive
is chosen where it is taken (`LoopTake`, `LoopDel`). `retry_count` is any number above 0: after a failed
attempt there is another one (`Retry`) or none (`GiveUp`). `LoopSpin` is the branch that goes round the
loop without an await. Two history variables: `lost`, a connection was given up or deleted while
somebody waited, and the queue has not been empty at a release since; and `uncounted`, how often the
`del()` of a client that `connect()` returned dead, and that was never added to `m_connected`, took
another client off that counter (`HalfOpen`, `client_pool.h:218-221`). This may happen at any time;
`MaxDead` bounds how often. `Watched` are the coroutines whose waits HeadServed follows: one of four
that are alike.

### Kafka messages: KafkaWire, the message modules, KafkaCodec

An `encode()` is a sequence of puts that depends on the version, a `decode()` a sequence
of gets. A message module has for every type `X_encode(v)` and `X_decode(v)`, the puts
and gets of the two functions in their order, and `X_meta`: valid versions, first flexible
version, header version and the release each version needs. `KafkaWire` interprets both as
`packet_encoder` and `packet_decoder` do, on a wire of tokens: a width and, for lengths, the
value. Reading a token with another width stands for reading wrong bytes; a fixed array length with a byte
above 0x7f is read as `getArrayLength` reads it, negative. Early returns,
inverted tests, values read and dropped and the two passes (PREP adds lengths up, REAL
writes) are kept; field values are not, only the lengths of arrays and strings.
`KafkaCodec` takes any type, version and shape, encodes it with the header `Request::encode`
writes, and decodes it with the header the other end reads; or it picks a version for a
release (`KafkaVersions`, the code's `IsAtLeast` ladders) and restricts it to what a broker of
any release announces (`RestrictApiVersion`). A batch of records is one value.

### Kafka connection: KafkaBroker

`conn` is `Connect::m_state`, `fd` the socket, `wlock` and `rlock` the two `co_mutex` (holder
first), `opened` the queue `m_opened`, `cid` the correlation id, `stack` the nest of running
coroutines. `pc` names where a coroutine is inside `Open`, `SendInternal` or
`ResponseReceiver`. A close resumes whoever waits on the socket inside the closer, a lock
hands over inside `unlock()`, and `Open` resumes its waiters one after the other: the order
of those nested runs is exactly the code's. The peer (`Answer`, `Reset`) answers in order or
closes. A response may fail to decode, whoever's it is: in `Open` this makes ApiVersions go on to
version 0 and then on without versions, and elsewhere the call fails. A caller whose request failed may
close the connection, as the Client does, or leave it open, as the producer does for most errors. A
closed socket behaves as in `Connect`: writes succeed, reads return zeros. A writer that
`Ready()` lets through while a second opener dials waits at `stuck`: the end of the connect switches
off the write event it waits for, and only a close gets it out.

### Kafka metadata: KafkaClient

Two kinds of coroutines call `Leader`, `RefreshMetadata` and `GetCoordinator`; `op[p]` is a
call and its locals. Each step is a stretch between two awaits; `running` keeps other
coroutines out until then. `Broker::Open` is used with the outcomes KafkaBroker shows it
has. A broker is a node and a generation because every metadata response brings new objects. One
call is left to the other coroutines: when no coordinator is available, the code looks up the leader of
`__consumer_offsets` before it sleeps (`client.cpp:1138-1156`). That is a `Leader` call like one of
`Users`, made while the lookup waits; only how long it then sleeps depends on the outcome.

### Kafka producer: KafkaProducer

The channels are the variables: `m_input`, `topic_input`, `pp[p].m_input`, `bp[b].m_input`,
`m_output`, `m_retries`. A step takes an item from one and runs its stage to the next await.
`NewHighWatermark`, `BehindWatermark`, `Chaser` and `Flush` are the branches of
`PartitionProducer::dispatch` on retry levels; `Answered` and `ConnectionFails` are
`handle_success` and `handle_error`. `log` is what the brokers stored, `dropped` what
`handle_success` neither answers nor retries. `leader[p].was` are the brokers that have led the
partition: a lookup finds any of them (`Found`), since the metadata of the cache, or of a broker that lags
behind, may still name an old one. `ProduceSet::add` cannot fail: its encoders return 0 (`utils.cpp`) and
its check of sequence numbers is for idempotent producers.

### Kafka consumer: KafkaConsumer

`pc[p]` is a PartitionConsumer, `bc[b]` the BrokerConsumer now in the consumer's map, with its
channel, the batch being collected, `m_new_subscriptions`, `m_subscriptions` and the position
of `SubscriptionConsumer`. `gen` tells a BrokerConsumer from the aborted ones before it. `cached` is
the leader of each partition as the Client knows it, which may be an old one until a refresh. `closed`
holds the brokers whose Broker object an abort has closed, and `closing` those an abort closes once it has
slept: their Connect cannot be dialled again and `UpdateBroker` keeps the object while the address is the
same, which here it always is, so every later lookup that finds such a broker fails in its `Open`.
Ghosts: `lost` holds children put where nobody looks any more, `twice` those handed to a
second BrokerConsumer while subscribed at one.

## 3. Runs

Each bound is a CONSTANT of the cfg. Two threads and three coroutines are enough for an owner,
a waiter on its thread and one on the other, for two waiters in one queue, and for two
wakers of one thread.

Plain facts and types are conjuncts of one invariant per module (`HandOffSafe`, `PoolSafe`,
`MessagesSafe`...); what is argued separately is a property of its own. The parts keep their
names, which this text uses.

| run | properties | shows |
|---|---|---|
| `guard_mutex` | MutexTypeOK, NoAssert, MutualExclusion, WakeInFlight, NoBarging, LockGranted | mutual exclusion over the hand-off, nobody barges, no event resumed twice, no wake-up lost, every lock() granted |
| `guard_channel` | HandOffSafe (TypeOK, NoAssert, ServedHasItem, ReceivedInOrder, ExactlyOnce), NoSleeperWithItem, ImplementsFifo, HandedIsReceived | two items, threads that stop: items exactly once and in order, no item next to a sleeping getter, refinement of FifoChannel, a handed item is received unless the thread stops |
| `waitgroup` | WaitersSafe (TypeOK, NoAssert, NobodyLeftBehind), ReturnsAfterZero, WaitReturns | nobody is left behind, wait() returns only after zero (up to the first reuse), and returns |
| `local_channel` | QueueSafe (TypeOK, PopsAnItem, Fifo), NoSleeperWithItem, WokenAfterCallback | one getter, two producers: order, no pop of an empty queue, woken when the callback ends |
| `local_mutex` | LockSafe (TypeOK, MutualExclusion, AssertsHold, FreeMeansNobodyWaits), LockGranted | exclusion over awaits, the code's asserts, every lock() granted |
| `co_task` | GroupSafe (TypeOK, IdsIdentify, WaiterHasTask, NothingSurvives), WaitReturns | nothing of a group survives its return, a waiting parent has a task that will wake it, ids identify tasks, wait() returns |
| `client_pool` | PoolSafe (TypeOK, CountersMatch, Bounded, NoWaiterWithIdle), SpinsOnlyMiscounted, HeadServed | four coroutines, two connections, one `del()` of a client that was never counted: but for what that takes off, the counters agree with the clients and the limit holds; `get_cli()` loops without an await only after it; no waiter next to an idle client unless a connection was lost; the first waiter is woken (61 323 states) |
| `kafka_codec` | VersionsAgree (TypeOK, ChosenIsSupported, RestrictedIsUnderstood), RoundTrip | all messages in all versions, arrays of 0, 2 and 128, strings of 0 and 5: decode gives what encode was given, to the last byte; chosen and restricted versions are understood (27 230 states) |
| `kafka_broker` | OpeningSafe (TypeOK, OpenedHasOpener, OneOpener), OwnResponse, LocksHeldForIO, CallsReturn | three callers on a connection with SASL or not, by name or address, responses that do not decode, callers that close after an error or not: own response, locks held only for I/O, waiters of the open have an opener, one opener, calls return (1 749 213 states) |
| `kafka_client` | SeedsSafe (TypeOK, SeedsConserved, ClosedMeansAllDead), CacheMatchesMetadata, RefreshEndsInTime | a leader lookup or refresh against a coordinator lookup, two seeds, one node with two generations, one retry: seeds conserved, closed only when all are dead, the cache is that of the metadata, a refresh ends (621 778 states) |
| `kafka_producer` | MessagesSafe (TypeOK, Conserved, StoredOnce), InFlightExact, ChaserOnItsWay, FirstTurnInOrder, Settles | three messages, one partition, two brokers, one move, lookups that find the old leader, one retry, batches of two: conservation, in-flight count, chasers, order of first turns, everything settles (696 782 states) |
| `kafka_consumer` | DeliverySafe (TypeOK, DeliveredOnce, NoGap), Owned, ReadToTheEnd | two partitions, two brokers, two messages, one move, deletion or close, one fault: no message repeated or left out, a child always has an owner, it reads to the end unless its leader is a Broker the client has closed (956 372 states) |

Why the Kafka bounds suffice: a third caller of a connection is the first that can be queued
behind an opener and a sender; a message that fails, one behind it in the same batch and one
sent after the failure are the three the retry levels tell apart; two brokers and one move
give a hand-over, and a fault at any point of it. The pool has four coroutines because the fourth is
the first that can wait behind a waiter that was woken and lost its connection, and the first that can
find every connection made, none idle and the count one short.

Deadlock is checked in `guard_mutex`, the only model that never has to end. The others
are bounded by a number of items, loads, calls or messages or end with their coroutines.

*Fairness.* Running code goes on to its next await and threads are scheduled (weak
fairness of the machinery's steps); libev serves a watcher that stays or comes pending
again (strong fairness of `Collect` and `IoReady`, since the loop may be busy in between);
owners unlock and holders release (strong fairness of `Unlock` and `Release`, the user's part);
tasks end. For Kafka: coroutines with something to do run, the loop delivers what the
socket has, a broker answers what it got or the connection fails, and sleeps end (`CloseBroker`, the
end of an abort). Nothing else is
assumed: in particular not that anybody calls `set`, `add`, `lock`, `Send` or `Close`, nor that
a leader stays where it is.

*Exceptions in the properties.* Several Kafka properties hold only outside a known defect, and
name it rather than hide it: `OwnResponse` until a `Write` had to wait; `CallsReturn` except for
the throwing `resize` and the writer stuck behind a connect; `RefreshEndsInTime` unless a
coordinator lookup hangs the thread; `Settles` except for messages the code holds or drops;
`DeliveredOnce`, `NoGap`, `Owned` and `ReadToTheEnd` except for children in `lost` and `twice`;
`ReadToTheEnd` also while the leader is in `closed`, as no Dispatch then succeeds;
`RoundTrip` and `ChosenIsSupported` except for `Lossy` and `VersionTooNew`. In the core,
`ReturnsAfterZero` holds until a wait group is `reused` while its waiters are being woken,
`NoWaiterWithIdle` unless a connection was `lost`. A `del()` of a client that was never counted makes
the pool's counters wrong for good: `CountersMatch` and `Bounded` hold up to the number of those
(`uncounted`), `NoWaiterWithIdle` and `SpinsOnlyMiscounted` while there were none, and `HeadServed` unless
a coroutine spins, since then nobody else of its thread runs. Section 5 says what happens there.

## 4. Proofs

Every theorem is about the specification the run checks, for every value of the constants that
the module's ASSUME allows: the bounds (`MaxItems`, `MaxAdds`, `MaxLocks`, `MaxGen`...) are any
natural numbers, and the sets of threads, coroutines, brokers, nodes and partitions any sets
(finite where a proof counts). Hypotheses beyond that are in the statement.

| theorem | states | assumes |
|---|---|---|
| `GuardProofs.TypeCorrect`, `Mutex`, `EventsResumedOnce`, `HandOffNotLost`, `FirstComeFirstServed` | MutexTypeOK, MutualExclusion, NoAssert, WakeInFlight, and NoBarging (an action property) | |
| `GuardProofs.ChannelInvariant`, `HandOff`, `ChannelIsFifo` | NoSleeperWithItem; HandOffSafe (once, in order); the refinement of FifoChannel; all with threads that stop | |
| `GuardProofs.WaitersServed`, `WaitOutlastsWork` | WaitersSafe (nobody left behind), ReturnsAfterZero | |
| `LocalProofs.LockKept` | LockSafe | |
| `LocalProofs.QueueKept`, `GetterNotLost` | QueueSafe, NoSleeperWithItem | `OneGetter`: one coroutine gets |
| `LocalProofs.PoolKept`, `GetCliAwaits` | PoolSafe (counters and limit up to `uncounted`, waiters), SpinsOnlyMiscounted | |
| `LocalProofs.GroupKept` | GroupSafe (nothing survives its group, a waiting parent has a task, ids identify tasks) | |
| `KafkaBrokerProofs.Opening`, `ResponsesOwn`, `LocksForIO` | OpeningSafe (one opener, its waiters have it), OwnResponse, LocksHeldForIO | |
| `KafkaClientProofs.SeedsKept`, `CacheFollowsMetadata` | SeedsSafe, CacheMatchesMetadata | |
| `KafkaProducerProofs.MessagesAreSafe`, `InFlightIsExact`, `ChasersComeBack`, `FirstTurnsInOrder` | MessagesSafe (every message in one place or answered once, stored once), InFlightExact, ChaserOnItsWay, FirstTurnInOrder (while the leader has moved once at most) | |
| `KafkaConsumerProofs.Delivery`, `NoChildDropped` | DeliverySafe (once, in order, no gap), Owned | |

`OneGetter` excludes a behaviour for which the statement is false in the code (section 5), not a case
that was inconvenient.

*Several threads.* Mutual exclusion is not inductive: that two coroutines are never both given
the lock depends on where events are. `AsyncInv` is the strengthening. It says that the status word
agrees with where the owner stands (`StatusOK`); that a queued event has an owner that
awaits it and was not resumed, and that it is queued once (`WaitingOK`); that a popped event
is in one hand and nowhere else (`HandOK`); that events in `deliverq` and `batch` are there
once, on the owner's thread, and in no other queue (`QueuesOK`); and that an event that was
popped is carried or resumed, unless its thread takes no more events (`WakeKept`, which is
`WakeInFlight` where no thread stops). Threads that end make two of these false as first
written. An event in a hand need not have an owner any more: `HandOK` allows that (`Orphaned`), and
`LiveOK`, that nothing runs on a thread that has ended and that whoever was destroyed belongs to one,
shows that only `deliver()` can hold such an event, and that it will find the thread closed and drop
it: with the guards' `resume()`, which runs the waiter wherever it is, the invariant would break, so
`ThreadExitInv` asks that nobody uses it, which `ChannelInv` provides. And the queues lose the destroyed
coroutines in one step, wherever in them these are (`InSeqOnly`). `GuardAsyncProofs` proves it inductive once,
action by action, and proves what the machinery does to `Holds` (who was given something):
nothing, except that `PopWaiter` moves it. The objects then only look at their own operations:

* the channel adds where each item is (`ItemsOK`: in the queue, in one variable, or received
  once) and that a getter's items and the one it was handed are in the order of `set()`
  (`OrderOK`). In the refinement an event popped with its item is `Put`, the return of the
  coroutine is `Tell`, the end of a thread is `Leave`, and everything between is stuttering. A
  getter that was destroyed keeps the item it was handed, so items are still in one place;
* the wait group adds that `m_count` is the number of pieces of work not reported (`CountOK`,
  by cardinality) and that, until a reuse, whoever was let go or is queued while a `done()` wakes
  has seen zero (`RoundOK`): the second half is what lets `done()` wake outside the lock.

*One thread.* `LocalInv` says that the nest of running coroutines has each of them once, only the
innermost just woken, and none while the loop polls (`StackOK`), and that whoever is queued is
suspended, in one queue and once (`QueuesOK`). One lemma per kind of step (`Begins`, `Leaves`,
`Parks`, `Wakes`, `Moves`, `Loops`) shows that the machinery keeps it. The mutex adds that a coroutine
woken by `unlock()` is alone with a free lock (`MutexInv`); the channel that a getter chosen to be
woken has an item waiting for it (`GetterOK`) and that the queue is the run after what was received
(`ItemsInOrder`); the pool that the three counters are cardinalities, `m_connected` up to
`uncounted`, also after `stop()`, when they only grow (`PoolCounts`), and that while somebody waits and nothing was lost all connections
exist and a client is idle only until the waiter woken for it runs (`PoolWaits`). The last part
could not be proved in its first form, without `lost`: it is false with four coroutines (section 5).
The task group adds that the parent's mode and its place in the queue say the same as where it
stands (`ParentOK`), that whoever is suspended or running is loaded and nobody is once `wait()`
returned (`AliveOK`), and that the queue holds suspended tasks, each once (`ParkedOK`). The step that
needs all three is `ReturnAny`: it destroys the tasks of the group wherever they stand, in the
queue (`Only` keeps the rest, in order) or inside the nest, where one of them is the destroyer's caller.

*Kafka connection.* None of the three invariants says where a coroutine is, and all of them
depend on it. `PlacesOK` ties `pc` to the queues: the nest, `m_opened` and the two locks hold exactly the
coroutines whose place says so, each once, and the first of a lock is its only holder. From it
`LocksHeldForIO` is immediate, as nobody at a running place is outside the nest. `DialOK` says that
a socket is dialled once, that the dialler then negotiates as the only opener, and that an opener does
not leave while `m_opened` has somebody in it. `OwnResponse` needs that ids are not shared
(`IdsOK`), which is not obvious: a request is encoded *before* `WLock()` and the id is counted up
after the write. It holds because a sender that does not wait in `Write` never lets another run
between the two (`SoloWriter`); that is where the hypothesis `~waited` comes in. It also needs that
a header on the wire is followed by its own body (`NetOK`). `CloseStep` carries most of the
argument: one close moves every coroutine that waits on the socket at once. Looking for the invariant
showed that the model had let a request out on a socket that was still connecting; the code waits
there, and the model now does.

*Kafka, the rest.* `SeedsConserved` needs to know that the seed a call is opening is one of the seeds, that
a broker that did not open is still closed when the call goes on (`OpOK`: it has not suspended in
between) and that set-aside seeds are closed (`DeadSeeds`). The consumer's `DeliverySafe` needs that
a child not in `twice` has one owner (`OneOwner`: triggered, or at one BrokerConsumer, in one of its
places, save a timed-out child that `HandleResponses` has still to take out), that a request asks for
the offset its child is at and its answer covers it (`AskedOK`), and that what was delivered is the run
up to that offset (`SentOK`). `Owned` needs in addition that a timed-out child is queued before it
is unsubscribed (`KeptOK`). All parts of `OneOwner` are needed at once: with two owners two
answers for the same offset are in flight.

*Kafka producer.* `MessagesSafe` and `InFlightExact` count items over all the channels. The proof
counts positions: `Num(q, T)`, the items of a list that are in T, is a cardinality, and `QueueLemmas` says
what appending, taking, keeping and merging do to it for *every* T. A step is described once, by
`Effect`: what each group of places gains of an arbitrary T. The invariants then follow from choosing T:
the items with one id (`Accounts`), the messages and those m_in_flight already counts (`Message`,
`Taken`), the chasers of a level (`Fin`). Where a definition does recurse (`Only` and `FlattenSeq`, which
keep and merge lists), its function is unfolded by induction stated on a set of positions (`UpTo`), as the
library's induction theorems, which take an operator, are out of the provers' reach. `ProducerInv` has six parts:

* `Shapes`: which items may be in which channel, and what a stage holds at each place;
* `Accounts`: every id is in one place of the pipeline, or answered once, or dropped; what has no id is
  never answered;
* `Stored`: a message answered as stored is in a log, no log has an item twice, and of a message in a log
  the pipeline holds later turns at most (`Older`): so no turn is stored twice;
* `InFlightExact` with `Expected`: of the chasers of a partition there is one for each level the
  PartitionProducer expects and no other, which is why `m_in_flight` counts each down once;
* `Watermark`: the levels above `m_high_watermark` expect nothing and the ones from it up hold nothing.
  Without it `NewHighWatermark` could expect a second chaser of one level, and a flush could pass a message by.

`FirstTurnInOrder` speaks of order, not of counts. The places a message of a partition passes on its
first turn form a line, last place first: the log, the sets and the channel of the leader's
BrokerProducer, `buf[0]` and the channel of the PartitionProducer, the topic's channel, `m_input`
(`Line`). `InLine` says that the ids rise along each place and from each to the next, and a step moves a
message to an earlier place, past empty ones only (`LinePasses` in `QueueLemmas`). Three things make that
true. The buffers above the first hold no first turn (`Retries`), so a flush cannot bring one in from
the side. A message is sent on past `buf[0]` only when that is empty (`Watermark`). And before the
first move no other broker has led it, so none has anything of it (`OneBroker`): that move takes the old
broker's two queues out of the line and puts empty ones in. A second move can bring the old ones back,
which is why the invariant ends there, as the property does (section 5).

Only model-checked:

* liveness: fairness is out of TLAPS's reach here;
* `KafkaCodec.VersionsAgree` and `RoundTrip`: `KafkaWire` uses RECURSIVE operators for nested layouts.

## 5. Where the code falls short

### Stated and refuted

These are definitions of the modules that no run lists, because TLC refutes them; adding one as
an INVARIANT to the module's cfg shows the behaviour.

| definition | what happens | who says otherwise |
|---|---|---|
| `GuardChannel.NoDangling` | `deliver()` (`src/coev/co_async.cpp:112`) pops the waiter's event under `m_mutex` and reads and resumes it after the unlock; the waiter's thread may have stopped and destroyed it | README.md:20 "type-safe and thread-safe Channel mechanism" |
| `LocalChannel.PopsAnItem` (in `QueueSafe`) with two coroutines in `Getters` | `get()` (`src/coev/co_channel.h:41`) tests once, before its wait; another getter takes the item and the woken one pops an empty `std::queue` | README.md:20, the same sentence |
| `CoTask.ReturnsWithFirst` | a task that completes inside `load()` is not seen by `wait_for_any` (`src/coev/wait_for.h:22`) | README.md:15 "returns as soon as any one task completes" |
| `CoTask.ReturnsItsId` | `co_event::resume(int64_t x = 0)` overwrites the id `co_async::resume(id)` has stored (`src/coev/co_async.cpp:27`); `wait()` returns 0 | examples/task/main.cpp:145-147 `assert(_ == r)` |
| `CoTask.DestroysOnlySuspended` | task B resumes task A inline, A ends, the parent runs inside A's end and destroys B, which is still on the stack | README.md:18 "automatically release their resources upon completion" |
| `KafkaBroker.AssertIsOpened` | a coroutine that waited for a lock writes or reads after another closed the connection | `assert(m_conn->IsOpened())`, `src/coev_kafka/broker.cpp:548`, `560` |
| `KafkaCodec.AssertsHold` | `putStringArray` reserves four bytes for a string and writes more; the downgrade of an ApiVersionsResponse pops `m_flexible` twice | the asserts of `putRawBytes` and `__pop_flexible` |

### Met while modelling

Core, where no document promises otherwise: a waiter of the pool can sleep next to an idle client
(found by the proof of `NoWaiterWithIdle`: a connection is given up, so `Total` falls; the waiter that
the next release wakes connects instead of taking the released client, which stays idle while
the others sleep, for ever if that connect fails and nobody releases); a wait group reused while its waiters are being
woken releases waiters of the new round; a pool whose connects fail leaves its waiters asleep,
as does `stop()`; a dead client from a successful `connect()` is subtracted from a count it was
never added to, so that the pool makes more connections than it may, and, once these are all in use,
a further `get_cli()` goes round its loop for ever without an await and stops its thread; a `set()` outside a callback leaves the getter in `local_async` until some
callback ends.

Messages: the lines of `KafkaCodec.Lossy` and `VersionTooNew`, each with its reason. Besides,
`varintLen` forgets the zigzag, `VariantLengthField` reserves one byte, `RecordBatch::decode` does not
look at the CRC. In fixed encoding `getArrayLength` ORs the four bytes as signed chars
(`packet_decoder.cpp:182`), so an array of 128 elements is read as one of -128 and its elements as what
follows it: the run has such arrays, and `RoundTrip` excepts them by name (`SignExtended`, a line of `Lossy`).

Connection: a closed `Connect` can never be dialled again; a second opener dials an open
connection and so closes it; the state is OPENED before API versions and SASL are through;
the response to the SASL handshake is not read and meets the next request; a request with
acks = NoResponse still waits.

Metadata: a topic refreshed less than 100 ms ago turns its next refresh into one of all
topics; `FindCoordinator` spins without an await once every broker is closed; `Closed()` is
true when all brokers failed; `Close()` keeps seeds and cached partitions; `_CachedLeader` uses
iterators after an await.

Producer: with the default `Retry.MaxBufferLength` of 0 `retry_handler` never forwards anything, else
it holds back 4 095 messages; a non-retriable error with `Retry.Max > 0` answers nobody and
`close()` waits for ever; the retry branch of `handle_error` cannot be reached; `m_timer_fired` is
never set; a set already in `m_output` overtakes a failed one, so order is kept on first turns only, and
after a second leader move not even there (with `MaxMoves = 2` TLC needs 38 states): the chaser does not
wait for the sets the first broker still holds, and when the partition is back there they are stored after
later messages. `FirstTurnInOrder` therefore speaks of partitions that moved once at most;
`dispatch()` of a partition ends when its first leader lookup fails.

Consumer: an abort closes the Broker for good (`broker_consumer.cpp:237`): while its address is
unchanged every metadata response keeps that object (`client.cpp:575`), its `Open` fails
(`client.cpp:749`), and the children it leads are dispatched again and again without success
(`ReadToTheEnd` excepts them by name; the same after a failed `GetOffset`, which closes it too); a BrokerConsumer
that no child's `m_broker` holds frees itself when the abort takes it out of the map, while its
coroutine runs; a batch of new subscriptions overwrites the one before it; an abort forgets children in
the channel and in the batch; an offset out of range subscribes a child twice; a timeout hands
a child to the broker it started with, and with two leader moves messages are skipped and repeated;
`m_dying` is taken by whoever looks first, so `AsyncClose()` seldom ends the Dispatcher.

Hazards with no property, besides those of PROJECT.json: the acquire-only exchange of the status
word (`src/coev/co_event.cpp:65`); ids of 64 bits returned as int (`src/coev/co_task.cpp:102`); the
exit message that reaches only threads already waiting for it (`src/coev/runnable.cpp:53`);
`stop()` of a pool, which leaves its waiters alone (`src/coev/client_pool.h:64`); the iterators of
`_CachedLeader` after `Open()` (`src/coev_kafka/client.cpp:749`).

## 6. Not modelled, and the plan

Not modelled: the bytes inside a batch of records; timers beyond their firing; TLS, SASL version 0
and SCRAM's rounds; the idempotent and the transactional producer (the constructor dereferences
null); pause, preferred replicas, interceptors and aborted transactions in the consumer; the
consumer group and the offset manager beyond their messages (`Consume()` and `Close()` wait on
`m_closed`, which nothing sets, session methods are stubs, `OffsetManager::coordinator` returns no
broker); the retry loops of the admin client; HTTP, HTTP/2, Redis, MySQL, curl, DNS, ZooKeeper; the
libraries underneath (libev, hiredis, mysqlclient, libcurl, nghttp2); compression and hashes.
Memory orders below sequential consistency. `guard::co_task` shared by threads.

Next, in this order:

1. `Runnable` (start, end, `g_exit`, `g_exception`, the thread count) over GuardAsync, and
   `GuardTask`: `guard::co_task` shared by threads.
2. Balance strategies and partitioners against reference definitions; record batches.
3. ZooKeeper client (xids, pending queue, session), the stream table of HTTP/2.
4. Consumer group and offset manager, once the code is finished.
