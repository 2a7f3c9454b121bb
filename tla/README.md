# A TLA+ development for unlimit

This directory holds TLA+ specifications of the components of *unlimit*, TLC
configurations that model-check them on small instances, and TLAPS proofs of the
safety of most of them for every instance. `PROJECT.json` says which line of the source each
definition stands for, which run checks which property, and which theorem proves
it.

    tlc -config HFTRing.cfg HFTRing        # model-check one run
    tlapm HFTRing_proofs.tla               # check one proof module

## 1. The system

unlimit is a Go library of infrastructure components that a service links in.
There is no main program: each component is a data structure with its own
goroutines, mutexes, atomics or shared memory, and the interesting question is
what happens when several goroutines or processes call it at once, in an order
nobody wrote a test for.

| Component | State | Operations | What is hard | What makes it correct |
|---|---|---|---|---|
| HFT ring (`messages/msg_hft_shared_memory.go`) | mapped file: two sequence numbers, closed word, one state word and message per slot | Publish, Consume, SendOrder(Wait), Run, Stop, Close, open | two processes without a lock; crash of either between two atomics; reopening; Consume hands out a pointer into a slot it has given back | bounded FIFO; no slot shared; nothing repeated; drained before Run ends, unless its own process closes |
| Shared-memory ring (`messages/msg_shared_memory.go`) | mapped file: two indices, message counter, closed word, one flag and payload per slot | Write, Read, Send, consumeLoop, Close | many producers and consumers with stale indices; counter lags and wraps; crash with a claimed slot; bytes of longer messages left in a slot | bounded FIFO; the flag is a lock; every accepted message is handled, as it was written |
| Flush buffer (`efflux/flush_buffer.go`) | item list, timer, context | Start, Add, AddBatch, Flush, flushLoop, Stop | the lock is released around flushFunc; the timer is re-armed by hand; Stop races with a tick | nothing lost, repeated or reordered; timer never dies; Stop returns and drains |
| Circuit breaker (`stability/default_circuit_breaker.go`) | state, counts, two time stamps, config | Execute, CanExecute, State, Trip, Reset, UpdateConfig | results are counted in a later state than the one that admitted the request | trips in time; closes only on enough successes; never stuck; recovers |
| Leaky bucket (`stability/ratelimit.go`) | level, wait queue of channels | AllowN, WaitN, ReserveN, leak loop, Close | check and enqueue are two critical sections; close wakes waiters that queue up again | level within capacity; a sleeper wakes while the bucket leaks |
| Redis limiters (`stability/redis_ratelimit*.go`) | per-key tokens in Redis, pending queue of each pipeline shard, result map | Allow, script, batch pipeline, failPending, Close | read-decide-write is not atomic across shards and processes; requests enter a dying pipeline; results of requests that gave up | admitted tokens within the limit; a request in one place; no stale result |
| Load balancer (`stability/load_balancer.go`) | targets, index of the next one | AddTarget, RemoveTarget, SetTargetAvailability, SelectTarget | the index counts in a list that changes | available targets take turns |
| Event-based workflow (`efflux/event_based_workflow.go`) | task queue, return channel, workers | Submit, puller, event loop, workers, Stop | workers return tasks to the queue that feeds them: cyclic waiting | each task in one place; all processed as long as the queues can hold them; Stop returns |
| Pollers (`efflux/polling.go`, `onetime_polling.go`) | registry by name, one goroutine each | RunPoller, StopPoller, Close, poll, retry, backoff | a stop that timed out and a restart under the same name | registry matches the goroutines; every poller ends after Close |
| Worker pool, jobs (`efflux/worker_pool.go`, `job.go`, ...) | task channel, stopped flag; one goroutine per job | Submit, Start, Stop, worker | Submit races with Stop and the send into a closed channel | what Submit answers is true; Stop returns |
| Pipeline (`efflux/pipeline.go`) | stages and transitions | AddStage, Validate, Execute | stages changed during Execute; cycles | execution follows the transitions, once through each stage; unreachable stages are reported |
| Scheduler (`scheduler/scheduler.go`) | task table, timers | AddTask, RemoveTask, Start, Stop, timer callback | a callback re-arms a task that was removed or replaced meanwhile | no registered task is forgotten, none runs in more chains than it was started |
| State machine (`state/statemachine.go`) | current state, transitions | Initialize, SendEvent, hooks | the mutex is released between choosing and entering a state | what was entered is left |
| Triggers (`trigger/`) | triggers, listeners, executed flags | FireEvent, RegisterTrigger, AddEventListener, Execute | flag checked and set under a read lock; events inside events under nested read locks | once means once unless events overlap; events end |
| Caches (`algo/lfu.go`, `algo/lru.go`, `cache/`) | tables, lists, frequency lists, expiry | Get, Set, Remove, Has, Resize | minFreq stale after a removal; resizing under load; an expired entry seen in one critical section and removed in another | size within capacity; victim is least used; what was set last is kept while it lives |
| Queues (`algo/queue.go`, `algo/deque_list.go`) | linked nodes, slice, channel | Push, Pop, Peek | lock-free helping; Peek that takes out and puts back | FIFO; no wrong "empty" |
| Trees, graphs, sets (`algo/`) | nodes, containers, parents | insert, delete, search, set algebra | rebalancing; change of representation at a threshold; path compression under a read lock | agree with the abstract set, partition or graph |
| Kafka (`messages/kafka.go`, `kafka_consumer.go`) | closed flag, library's channels; offsets | Send, Close, report handlers; ConsumeClaim | Close against Send under a shared lock; marks against crashes and rebalances | what was taken is reported, what was committed was handled |
| NATS, adapters, collections, generators | clients of external systems, helpers | thin wrappers | those of the external system | not modelled |

How they interact. The components are independent of each other, with few
exceptions: the batch limiter v4 chooses its shard with the load balancer (and
all shards share Redis); `cache` uses `algo` (the LRU and LFU caches wrap the
lists there); the ordered set uses the red-black tree; actions of triggers and
hooks of the state machine are user code that may call back. Inside a component
the interaction is by shared memory (rings), atomics (lock-free queue), a mutex
released around user code (flush buffer, state machine), a read lock held around
it (triggers, Kafka's Send), a mutex around every method with user code in
between (circuit breaker), or channels (workflow, pools, pollers).

## 2. The modules

| Module | Models | Extends or uses |
|---|---|---|
| `BoundedFIFO` | what a ring or queue promises: a queue of at most `Capacity` messages | - |
| `HFTRing` | the single-producer single-consumer ring | refines `BoundedFIFO` |
| `HFTRing_proofs` | proofs about it | `HFTRing` |
| `SharedMemoryRing` | the ring with many producers and consumers | refines `BoundedFIFO` |
| `SharedMemoryRing_proofs` | proofs about it | `SharedMemoryRing` |
| `MCSharedMemoryRing` | the teams of processes TLC checks | `SharedMemoryRing` |
| `RingMemory` | the bytes of that ring's slots | - |
| `CircuitBreaker` | the circuit breaker | - |
| `LeakyBucket` | the leaky-bucket rate limiter | - |
| `Stability` | breaker or bucket, for one run | `CircuitBreaker`, `LeakyBucket` |
| `Stability_proofs` | proofs about both | `Stability` |
| `RedisBucket` | the key's hash in Redis, the commands on it, and the Lua script (v1, v2) | - |
| `RedisDirect` | its use in optimistic transactions (v3) | `RedisBucket` |
| `RedisBatch` | its use through pipeline shards (batch v3, v4) | `RedisBucket` |
| `RedisLimiters` | any one use of the same bucket | `RedisDirect`, `RedisBatch` |
| `RedisLimiters_proofs` | proofs about it | `RedisLimiters` |
| `MCRedisLimiters` | its symmetry and requests for TLC | `RedisLimiters` |
| `FlushBuffer` | the flush buffer | - |
| `FlushBuffer_proofs` | proofs about it | `FlushBuffer` |
| `EventWorkflow` | the event-based workflow | - |
| `Pollers`, `OneTimePoller` | the polling manager and the one-time poller | - |
| `WorkerPool`, `Job` | the worker pool; a job | - |
| `Scheduler` | the scheduler | - |
| `StateMachine` | the state machine | - |
| `Triggers` | trigger manager and triggers | - |
| `KafkaProducer`, `KafkaConsumer` | producers; the consumer's claim | - |
| `Runners` | any one of these twelve, for one run | all of them |
| `Runners_proofs` | proofs about all of them | `Runners`, `FlushBuffer_proofs` |
| `LFU` | the LFU cache as operators on its state | - |
| `DynamicLFU` | the LFU cache with dynamic capacity | `LFU` |
| `LockFreeQueue` | the Michael-Scott queue | refines `BoundedFIFO` |
| `Queues` | slice queue, channel queue, deque | - |
| `Queues_proofs` | proofs about all these queues | `LockFreeQueue`, `Queues` |
| `TTLCaches` | LRU and hash table with a time to live | - |
| `RedBlackTree` | the tree as operators on its nodes | - |
| `OrderedSet` | the set in it, with the algebra of sets | `RedBlackTree` |
| `RoaringBitmap` | the compressed bitmap | - |
| `UnionFind` | union-find with concurrent queries | - |
| `AdjacencyGraph` | directed and undirected graphs | - |
| `LoadBalancer` | round robin over available targets | - |
| `Pipeline` | the pipeline of stages | - |
| `Structures` | any one of the data structures, for one run | `DynamicLFU` to `Pipeline`, `RingMemory` |
| `Structures_proofs` | proofs about the caches, the queues, the load balancer, the union-find and the pipeline | `Structures`, `Queues_proofs` |

`Stability`, `RedisLimiters`, `Runners` and `Structures` put independent components
side by side: a variable chosen initially (`part`, `kind`) says which one a behavior
is about, and the others stay as they are initially. Nothing is multiplied by
that; the states of a run are the sum of those of its parts.

The modules contain, beside some definitions, variants of them marked
"Mutant of": the definition as a plausible programming error would have it.
Substituting a mutant for its original makes TLC report the property that
`PROJECT.json` lists with it. They document what each property guards against
and appear in no specification.

### HFTRing

Every atomic load, store, add or compare-and-swap of `Publish` and `Consume` on
the mapped memory is one action, named after the step (`PublishClaim`,
`PublishCopy`, `PublishReady`, `PublishAdvance`, `ConsumeClaim`, `ConsumeFree`,
`ConsumeAdvance`, ...). The program counters `pPc` and `cPc` say where each
process is. Two accesses are merged in one place: `ConsumeClaim` is the load of
the slot's state and the compare-and-swap after it, because with one consumer
nobody else changes a ready slot. A process may crash between any two steps and
reopen the file, which keeps its content. `HFTConsumer.Close`, called by another
goroutine than `Run`'s and without waiting for it, is three steps: Stop
(`ConsumerClose`), the store to the closed word (`ConsumerSetClosed`) and the unmapping
(`ConsumerUnmap`). Between the second and the third `Run` may find a ring closed by its
own process; after the third it takes no step that touches the memory (in the
program the process dies there). `closer` remembers who closed the ring first. A
message is the number of its order; formatting an order into the slot is left
out. `sent`, `taken` and `handled` are history variables: published, in the slot when consumed, read by
the handler through the returned pointer.

### SharedMemoryRing

The same granularity for any number of producers and consumers, each with its
own loaded index (`wIdx`, `rIdx`), which may be stale when the slot is claimed.
A claim with a stale index is detected by the failing compare-and-swap of the
index and given back (`WriteRelease`, `ReadRelease`). `messageCount` is kept
modulo `CountModulus` because the code decrements it before the increment of a
slower producer and it does wrap below zero. Crashed processes do not come
back, and nobody repairs their slots, as in the code.

### FlushBuffer

The mutex is held except around `flushFunc`, so a critical section up to the
unlock in `doFlush` is one action, and the call lies between two actions
(`BeginFlush`, and one of `ClientFlushed`, `LoopFlushed`, `StopFlushed`).
`AddBatch` appends in a loop; the part up to the next flush is one critical
section (`AppendItems`), and it continues in the action that ends the flush.
The timer is the flag `armed`: it may fire at any time when set and must be set
again by hand. `ContextAware` says whether the user's `flushFunc` returns an
error once its context is cancelled.

### CircuitBreaker

A method holds the mutex from beginning to end and is one action; a request is
three (`Execute`, the user's function, and `Succeed`, `Fail` or `Panic`). Time is
reduced to the two comparisons the code makes, `timeoutOver` and
`intervalOver`. `CurrentState` is called at the head of every operation that
calls `currentState` in the code, and is composed with the rest of that
operation in the same action. `Trip` keeps the counts, as the code does.
The ready-to-trip function is the default one with the threshold `TripAfter`.

### LeakyBucket and Stability

The bucket is guarded by one mutex and the wait queue by another. Each critical
section is an action, so that `WaitN` is several: the failed look at the bucket
(`WaitN`), joining the queue (`Join`), and after each wake-up `Retry`, which takes
one unit of space or queues up again. `GiveUp` is the end of the context. The
leaking goroutine (`loop`) waits for the ticker it looked up at the head of its
round; `listens` says whether that ticker still runs, because `SetLimit` stops
it and stores another. A waiting caller's channel has the name of the caller.
Time is a ticker that may tick whenever it runs; delays of reservations and the
rate are left out. `Stability` puts the breaker and the bucket side by side: they
share nothing, and in each behavior one of them is used.

### LFU and DynamicLFU

`LFU` has the operations of `algo/lfu.go` as operators on a record: capacity,
minFreq, the use count of each key and the list of keys per use count.
The history `recent` has a pair for any two cached keys: the first was used after
the second. (`TTLCaches` has the same, `lastUse`.)
`DynamicLFU` is the cache of `cache/dynamic_lfu.go` around it; every method holds
one mutex and is one action, including the call of the capacity controller and
the resize it may lead to. `stuck` means that a method will not return with the
mutex held: `Resize` in its eviction loop, or `tryAutoShrink`, which calls a method
that locks the mutex again. `MaxFreq` bounds the use counts.

### The Redis limiters

`RedisBucket` has the key's hash (`tokens`, `last_ns`, either may be missing), the
clock and the Redis commands as operators; Redis is external and modelled by
what the code relies on: commands and scripts are atomic, `HINCRBY` starts a
missing field from 0, `EXEC` is refused when a watched key was written, keys
expire. `RedisDirect` is `RedisRateLimiterV3`: an attempt reads the clock and the
hash (`Look`), then executes its transaction (`DirectAllow`, `DirectDeny`) or is
refused and starts again (`DirectConflict`). `ScriptAllowN` is the Lua script that
the first two versions decide with, whichever way it gets to Redis. `RedisBatch`
is the batch limiter in both versions: a request is queued at a shard (`AllowN`,
chosen by round robin or by the hash of the key), the shard takes a batch, reads
and decides (`ExecutePipeline`), Redis runs the pipeline command by command
(`WriteBucket`; an `HINCRBY` of 0 is sent too), and the answers go out (`SendResults`),
in v3 through the map `results`. A request that the shard passes over, because it
has given up, has the verdict "none". The context of a request may end meanwhile (`GiveUp`). Pipelines and
reads may fail, the key may expire or be initialized, `Close` stops the shards.
Only one key is modelled: keys are read, decided and written independently. A
request comes once.

### The components with goroutines of their own (Runners)

Each of these modules has one action per critical section, select or channel
operation of the code, and the goroutines' places in it as a program counter or
a record.

* `EventWorkflow`: the queue's channel (`taskChan`) and the task queue of the
  workers are bounded sequences; every send and receive is a select with a context. `returns`
  says whether workers hand their tasks back. `gone` keeps what a done context
  made somebody drop, and why.
* `Pollers`: `registry` maps an ID to the number of a `RunPoller` call, so that an
  entry that belongs to another poller of the same name can be told. Tickers
  always fire; polls succeed, fail or ask to stop.
* `OneTimePoller`: `Run` of the one-time poller with retries and backoff, its
  deadline and its caller's context, its metrics and its result.
* `WorkerPool`: `Submit` and `TrySubmit` are two steps, the look at the flags and the
  select; a send into the closed channel panics into the recover (`SubmitFails`).
  The slice of workers is never filled (`NewWorkerPool`, `WorkersKept`), so a
  goroutine that receives a task panics at the lookup, recovers, and ends, and
  the task is in `panicked`.
* `Job`: each `Start` makes another run with a context of its own; the job remembers
  the last cancel function only.
* `Scheduler`: a registration is a number. `timer` is the armed timer the task
  points to, `others` are armed ones it has lost, `fired` and `executing` callbacks
  before and after the first critical section of `executeTask`.
* `StateMachine`: `SendEvent` is `ChooseNext`, `FindNext`, `ExitState`, `EnterState` and
  `SetCurrent`; hooks succeed or fail, and `Initialize` may be called again, which enters
  the initial state without leaving the current one. `inside` counts entrances less
  exits per state, `balance` all of them; `disturbed` says that events overlapped or
  the machine was initialized again.
* `Triggers`: the `stack` of a goroutine holds the events it processes inside each
  other, each under a read lock; `writer` is who wants or has the write lock of
  Go's RWMutex, in which a waiting writer keeps new readers out. Conditions and `Enabled` may change at every look.
* `KafkaProducer`, `KafkaConsumer`: the library's channels and sessions are external
  (`LibraryTakes`, `LibraryReports`, the committed offset). Messages are counted in
  the producer and are offsets in the consumer.

### The data structures (Structures)

Structures whose methods hold one mutex from beginning to end have one action
per method and are checked against what they stand for, kept beside them as a
history variable: a set, a sequence, a partition. Where the code lets calls
overlap the steps are smaller:

* `LockFreeQueue`: every atomic load, compare-and-swap and addition of `Push` and
  `Pop` by any number of threads. It refines `BoundedFIFO`: the compare-and-swap that
  links a node is the `Put`, the one that moves the head the `Take`.
* `UnionFind`: `Connected` compresses paths under a read lock, so each of its loads
  and stores is a step, interleaved with those of other queries. (Go's race
  detector would call that a data race; the loads and stores are of one word.)
* `TTLCaches`: finding an entry expired and removing it are two critical sections
  (`Look`, `RemoveExpired`), in which the hash table looks again and the LRU does not.
* `Queues`: `Peek` of the channel queue takes an element out and puts it back.

`RedBlackTree` has insertion and deletion with their repairs as operators and
recursive functions on parents, children and colours, including the parent that deletion stores in the
sentinel; `OrderedSet` and the algebra of sets use them. `RoaringBitmap` has arrays
and bitmaps as different containers with the thresholds as CONSTANTS and half
words of `Width` values. `AdjacencyGraph` checks both searches and the detection of
cycles against reachability in the set of edges, `Pipeline` the stages called
against the transitions. `RingMemory` is the layout of a message byte by byte: the
only place where bytes matter is what a short message leaves of a long one, and
whether a message that just fits does fit.

## 3. The runs

| Run | Instance | Shows |
|---|---|---|
| `ring_hft` | 2 slots, 4 orders, 2 crashes, all send modes | the ring implements `BoundedFIFO`; slots are exclusive, nothing is repeated, a returned pointer is good until its slot is claimed, `Run` ends on a drained ring (but for one order under way when the consumer closes it), every order is delivered, `SendOrder` returns |
| `ring_hft_pointer` | 1 slot, 2 orders | *violated:* the pointer `Consume` returns is overwritten before the next `Consume` |
| `ring_shm` | 2 producers and 1 consumer, or 1 and 2; 2 slots, 3 sends, 1 crash | `BoundedFIFO`, exclusive slots, handlers get messages in order, the counter settles, every message is handled while nobody crashes |
| `flush_buffer_stop` | context-aware `flushFunc` that never fails by itself | *violated:* Stop loses the remaining items |
| `stability` | 3 callers; breaker: limits 1 and 2, 3 failures, 1 manual call; bucket: capacities 1 and 2, requests up to 2, 1 manual call | breaker: tripping, half-open admission, closing, timeout, recovery; bucket: level within capacity, the queue holds exactly the sleepers, nobody enters a closed bucket, sleepers beside a bucket that is not empty wake |
| `breaker_half_open` | 2 callers, limit 1 | *violated:* more than `MaxRequests` requests run half-open |
| `redis` | 2 callers, or 3 requests over 2 shards with queues and batches of 2 (2 requests where both shards are used), asking for 1 or for the whole capacity, 1 upset | requests allowed are covered by capacity and time; a waiting request is in exactly one place; v3's map keeps no answer nobody will fetch, but those that came too late |
| `redis_denies` | 3 callers, capacity 2 | *violated:* a request is denied although the bucket is not exhausted |
| `structures` | 3 keys over capacity 2; 3 threads with 2 pushes and 2 pops; 7 elements in the tree; 8 integers in containers of 4; 4 elements and 2 queries; 3 nodes and edges; 3 targets; 3 stages | each structure is what it stands for; evictions hit the least used key, the lock-free queue is a FIFO and never says "empty" wrongly, available targets take turns |
| `cache_resize` | 3 keys, capacity 3, resize to 1 | *violated:* `Resize` does not end |
| `runners` | 2 clients or so of each component; 4 items, 3 tasks, 2 pollers, 4 submissions, 3 starts, 3 events, 3 messages | each component keeps its books; what was sent is flushed and processed; every Stop, Close and event ends (but a chain that meets a writer) |
| `triggers_chain` | 1 trigger, 1 goroutine, 1 registration | *violated:* an action that fires an event never returns when a registration waits |

The runs together fire every action of every module. The type invariants
`TypeOK` of `HFTRing` and `CircuitBreaker` are proved, not run; that of `LeakyBucket` is
part of `BucketExact`.

Why the bounds are enough. In the HFT ring 4 orders over 2 slots use each slot
twice, so that lapping, a stale slot and the reuse of a returned pointer occur;
the second crash hits the process that recovers from the first, or its peer. In
the shared-memory ring three messages over two slots let an index go stale by a
whole lap, which is when a claim with it succeeds wrongly and must be given
back; one team has two processes on the writing side, the other on the reading
side, because a stale index needs two on its own side only. In the circuit
breaker three callers are enough for one result to be late by a full
closed-open-half-open cycle while another request decides; `TripAfter = 1` makes
two failures in a row trip. In the leaky bucket three callers make a queue in
which somebody is in the middle when another gives up; requests for 2 with
capacity 1 have to queue up twice.

In `redis`, two callers conflict again and again, which uses up `MaxRetry = 2` (8 in
the code). Two ticks refill one token and three requests for the whole capacity
ask for three times what there is. Three requests over queues of two fill a
queue when the hash sends all of them to one shard, and make a batch of two. One
upset (expiry, initialization or a failed pipeline) may hit any step. For the
round robin of v4 the bound of `WithinLimit` is three times the capacity, which
only a fourth request for all of it could exceed; the two requests of the run
cannot, so that the run shows `OnePlace` and `ResultsKept` there, and `WithinLimit` for
direct callers, scripts and the batches of one shard. For round robin it is proved
(`AllWithinLimit`).

In `structures`, three keys over a capacity of two evict, and use counts up to three
leave gaps that `minFreq` must cross. Two pushes and two pops by three threads let
a tail lag while another thread pushes and a third pops. Seven elements give
every case of the repair of red-black trees on both sides, with a black height
of three. The thresholds of the bitmap are two over half words of four values, so
that containers change their kind twice on the way up and down. Four elements
make parents of rank two, and paths that two queries compress at once. In
`RingMemory` a slot of 36 bytes holds the short samples and not the longest, and a
slot is written again after a longer message.

In `runners`, a batch of three exceeds the flush buffer's capacity of two, so
`AddBatch` flushes in its middle while the other client and the timer use the
buffer. The workflow has as many tasks as its two channels of one and its one
worker can hold (`FlowCapacity`): with one more it may block for ever. Two pollers
of one name make the takeover of a registry entry, two stoppers a `StopPoller` that
times out while another waits. Two starts and two registrations under one ID make
a callback meet every stop, start, removal and replacement. Three events of two
senders overlap in every critical section of the state machine, with a second
`Initialize` among them. Events two deep
with two writers make the chain that waits for a writer. Three sessions over
three messages have a crash before and after a mark is committed.

`CHECK_DEADLOCK FALSE` is used where the system may stop: rings and buffer end
when everything is sent or stopped and closed; the bucket when it is closed and
everybody sleeps; the cache when it is stuck; the others when their bounds are
used up.

Symmetry is used in `redis` (callers, requests) only, which checks no liveness.

### Fairness

* `HFTRing`: weak fairness of `Publish` and `Run`. Both are loops that never
  block; the operating system schedules their process. Nothing obliges anyone
  to send, close or crash.
* `SharedMemoryRing`: weak fairness of each producer's `Write` and each
  consumer's loop, for the same reason; the ticker fires.
* `CircuitBreaker`: weak fairness of the timeout and of the callers: time
  passes, user functions return, and requests keep coming. Without requests the
  breaker cannot recover: it only moves when called. `Recovers` moreover needs
  that failures and manual calls end, which the bounds `MaxFailures` and
  `MaxManual` say.
* `LeakyBucket`: weak fairness of the leaking goroutine (the ticker ticks) and of
  each caller's `Join` and `Retry`, which wait for a mutex only. No context has to
  end, nobody has to call.
* `Runners` (`RunnersFairness`): weak fairness of every goroutine a component
  starts, of the user's functions it calls (they return), and of the calls that wait
  for it; strong fairness of the case of a select that sees the end of a context
  or a closed channel (`SeesDone`), because Go's select picks among ready cases at
  random and does not prefer the others for ever. Nobody has to submit, stop or
  close anything. `Scheduler` and `StateMachine` state safety only.
* `Triggers` alone (`TriggersSpec`) has weak fairness of firing goroutines and of
  the writer, so that `triggers_chain` shows a deadlock and not an idle system.
* `Structures` and `RedisLimiters` state safety only.

## 4. The proofs

Eight modules prove 39 theorems. Each is proved the same way: an inductive
invariant, a lemma that the initial states satisfy it, lemmas that the steps
keep it (one step per action, and under it one per conjunct that the action
disturbs), and the theorem from these by temporal logic. The bounds of the runs
(`MaxSends`, `MaxItems`, ...) are arbitrary numbers there, so that the theorems hold for
any number of messages, tasks or events, and the sets of goroutines are arbitrary.

### HFTRing_proofs

For every slot count, number of orders and number of
crashes (assuming only that `SlotCount` is positive and `NoMsg` is not an
order): `TypeOK`, `SlotExclusion`, `NoOverwrite`, `PublishedOnce`,
`PointerUntilReused`, `DrainedWhenFinished`, and that the ring implements
`BoundedFIFO`. None of these is inductive by itself. The inductive invariant
`IInv` adds

* `HistoryInv`: the history has one element per sequence number, the sequence
  numbers are at most `SlotCount` apart, and `taken` is a prefix of `sent`;
* `ProducerInv`, `ConsumerInv`: what each program counter implies about the
  loaded sequence number and the slot's state, in particular that a claimed
  slot is in state writing and that the consumer only claims below `writeSeq`;
* `OrderInv`: published orders are below the one being built, which is what
  excludes repetition after a retry or crash;
* `CloseInv`: a producer that closed the ring is gone. If the consumer closed it, no
  order passes the check of the closed word any more, and the only one that may
  still be published after `Run` has returned is the one that had passed it.
  `DrainedWhenFinished` needs both, because `Consume` loads the closed word before
  the sequence numbers, and `Publish` loads it before everything else.

The arithmetic core is `ModDiffer`: two different sequence numbers less than
`SlotCount` apart have different slots. Each conjunct has a lemma with one step
per action; the refinement theorem shows that `PublishAdvance` is a `Put`,
`ConsumeAdvance` a `Take`, and everything else a stutter.

### SharedMemoryRing_proofs

For any sets of producers and consumers and any number of crashes:
`SlotExclusion`, `HandledInOrder`, `CountSettles`, and that the ring implements
`BoundedFIFO`. Assumed are a positive `SlotCount`, a `CountModulus` above it (2^64 in
the code), producers that are not consumers, and `NoMsg` outside the messages.
With several processes the loaded index is not the current one, so the
invariant speaks of both:

* `LockInv`: a process between its claim and its release has the flag of the slot
  of its *own* index, and no two of them the same one, whoever of them is stale;
* `IndexInv`: the indices are at most `SlotCount` apart, and no loaded one is ahead of
  the shared one it was loaded from. A claim with a stale index finds a slot whose
  flag allows it and then loses the compare-and-swap (`WriteLoses`, `ReadLoses`);
* `SlotInv`: each index between the two has a slot with its message, unless its
  producer still copies or died in it;
* `WriterInv`, `ReaderInv`: what a process that has won its index may still do with
  the slot and what it has in hand;
* `CountInv`: while nobody has crashed, the counter is the distance of the
  indices, less the writers and more the readers between their index and the
  counter, modulo `CountModulus`. `CountSettles` is the case without such processes,
  and follows only because `CountModulus` is larger than the distance.

### Queues_proofs

The Michael-Scott queue implements `BoundedFIFO` and never answers "empty" wrongly
(`AnswersTruthful`), for any set of threads and any number of pushes and pops.
`ChainInv` says that the nodes linked so far form one chain without a repetition,
of which the head is the last node taken and the tail one of the last two;
`NodeInv` that a thread that pushes has a node of its own; `LoadedInv` where in the
chain the nodes are that a thread has loaded. From it a successful
compare-and-swap of a `next` happens at the end of the chain, and one of the head takes the
oldest node (`LinksBehindLast`, `TakesOldest`). `EmptyInv` is the linearization of
"empty": a thread that found no node behind the head has seen the queue empty at
some moment of its call. `CountInv` says by how much `Size` lags behind.

Of the slice and channel queue, for any users, capacity and elements: every element
pushed is taken, queued, or in one hand, a `Peek` or the goroutine it has left, and in
one of these only (`ChannelInv`). What is checked counts them; that the count is right
follows from the places being apart (`ChannelInvImplies`). Elements leave in their order
as long as nobody has peeked: then the taken and the queued ones are numbered on from
1, which the invariant says of both lists.

Of the deque: `DequeInv` gives each node's links by its position in the list, and says
that a node not yet pushed is linked nowhere, since pushing sets only one of its links.
A popped node keeps its links, and nothing reaches it. That following the links
forwards gives the list, and backwards its reverse, is an induction over the steps of
the walk (`ChainIs`). `Structures_proofs` takes both invariants over to the composed
specification (`QueuesAreExact`).

### FlushBuffer_proofs

For any clients, capacity and batches, with a `flushFunc` that may fail or not:
every item is in exactly one of the buffer, the rest of an `AddBatch`, the
batch of a flush, delivered, failed or lost (`Conserved`), the buffer is within its
capacity, what waits keeps the order in which it was given, and after `Stop`
nothing it found is left. The inductive invariant states the one
place of every item over all goroutines (`Placed`), so that it is kept by each
kind of move: into the buffer, out of it into a batch, and out of the batch. What
`Stop` leaves needs to know of the others as well: an item it found is in nobody's
rest, from where it could get into the buffer again (`LeftoversGone`).

### Stability_proofs

Of the breaker: `TypeOK`, `CountsAdd`, `TripsInTime`,
`HalfOpenAdmits` are invariants and `ClosesAfterSuccesses`, `StaysOpen` action
properties, for any set of callers, any positive limits, any threshold and any
bounds. The strengthening is `HalfOpenClean`: a half-open breaker has counted
nothing but successes. It holds although late results of earlier periods are
counted in it, because a failure always ends the half-open state, and it makes
"requests = consecutive successes", from which admission follows: the breaker
closes at the same number at which it would stop to admit. `UpdateConfig` breaks
that (`reconfigured`), see below. They hold of the breaker by itself, and
`BreakerInStability` carries them over to `Stability`.

Of the bucket: `BucketExact` (the level is within the capacity, and the
queue holds exactly the callers that sleep, each once) is an invariant, and nobody
pours into a closed bucket, for any callers and capacities. A caller on its way through
`waitForSpace` has something left to pour (`StillPours`): without that `Retry` could
count below zero.

### Runners_proofs

The seven invariants of `Runners`, which say that each of the components keeps its
books. A step of one part leaves the variables of the others alone (`PartStep`), so
each part has its own invariant:

* `Pollers`: `RegistryExact` is inductive with the types. `OneTimePoller`: `OneTimeInv`
  says that nothing has ended or been counted before the end of the first cycle,
  and that who waits for a retry has one left.
* `Scheduler` (`NoExtraRuns` and that no task is forgotten): the chains of a task are
  counted as `Links` (armed timers, lost ones, callbacks before and after the first
  critical section). There are at most as many as there were starts, none once
  the task is retired, and at least one while it is registered and the scheduler
  runs. For a task that runs once the runs that are done count too
  (`RunsAhead`).
* `WorkerPool`: `Submit` answers yes exactly for the tasks that are in the queue, with
  a worker, processed or lost in a panic, and each is in one of these
  (`PoolInv`). A cardinality follows from this, not the other way round.
* `EventWorkflow`: `TaskInOnePlace` counts how often a task is in the channels, in hands
  and with workers. It is inductive only together with `HoldWhatTheyHandle`: who is
  not at work on a task has none, so that none is overwritten.
* `StateMachine`: each event that has left a state and not entered the next one owes
  an entrance, and each initialization one more (`Balanced`); while events do not
  overlap and there was one initialization, the event under way is in
  the state it came from, between the two, or in the one it goes to
  (`OneAfterAnother`).
* `Triggers` (`OnceUnlessOverlapping`): of the executions of a trigger that runs once and has
  not been marked as overlapping, at most one is under way or done, and the
  events that hold the lock under one another cannot begin it again (`Sole`, `Once`).
* `KafkaProducer`: every message taken is in the library or reported, and a report
  handler that ended leaves nothing behind. `KafkaConsumer`: what is to be marked was
  seen by all handlers, what is being handled by those before, and what is
  committed by all of them (`AtLeastOnce`).
* `FlushBuffer`: `BufferKeepsItems`.

Assumed is what the modules declare: bounds that are natural numbers, and that
goroutines are finitely many where they are counted (`Workers`, `Submitters`,
`EventSenders`). `MaxPolls` is positive because it bounds a poller that polls at
least once, and `"none"` is no trigger's ID because it marks a frame without a
trigger. The state machine keeps the number of entrances less the number of exits
in `balance`, beside the count per state in `inside`: a sum over all states would be
defined by recursion on the set, and what such a sum becomes when one summand changes needs
induction.

### RedisLimiters_proofs

For any requests, shards, callers, queue and batch sizes, capacity and rate (assuming
only that the numbers are positive, that no request of a batch asks for more than the capacity, and
that `Kinds` are of the three that there are).

`OnePlace` and `ResultsKept` (`RequestsInOnePlace`, `ResultsAreKept`) need what a shard
knows of its batch (`ShardExact`: a verdict on each request once the pipeline has
returned, and whom it passes over does not wait) and of a request what its caller's
place means (`RequestExact`: one that waits without an answer is in exactly one list,
one that is not made or has its answer in none).

`AllWithinLimit` proves `WithinLimit` for every use of the bucket. It holds one
invariant for each use (`LimitInv`):

* The transactions of v3 (`DirectInv`). Counted in time, the tokens granted and those in the
  hash are covered by `last_ns` (`Covered`): a refill moves `last_ns` by what it is worth. The
  expiry of the key grants one capacity more. A caller whose transaction will
  not be refused has seen the hash as it is (`Decided`), because `EXEC` is refused
  when the key was written after `WATCH`; so what it computed from an earlier clock is
  still covered. `HINCRBY` on a new key starts at 0, so that the counter goes below
  zero, but not by more than the capacity.
* The scripts (`ScriptInv`) of v1, and of the batches of v2 (`QueuesInv`), where what was
  allowed counts from the moment the script has run (`Told`), not only when the
  requests are told.
* The pipelines of v3 and v4 (`PipesInv`). Between its reading and its last command a shard
  has decided on requests that are not told yet (`Promised`) and has commands
  outstanding (`Pending`), which Redis runs one by one among those of other shards. `Main`
  bounds what is granted, promised, in the hash and outstanding, with what shards may still add
  to a missing bucket (`Unfilled`), by capacities and time. The time is what
  makes it hard: `last_ns` is the moment at which some shard has read the bucket, and it
  may be written late, after another shard has refilled more recently. The
  same time may then be refilled again by each of the shards that have read in between.
  So each shard has a claim on the time since its own reading (`Claim`), and each pair of
  shards on the larger of the two ages (`PairSum`), which together bound the time
  refilled by S(S + 1)/2 times what has passed. A refill is limited to the capacity
  minus the tokens that were read, which is more than the capacity only if the
  counter is overdrawn; `Debt` is what overdrafts beyond the capacity of the other shards are
  worth, and `Alone` says that one shard by itself has none that it does not
  repay. The sums over requests and shards (`SumTo`, `PairSum`) and what they become when
  one summand changes are proved by induction, like the loops in `Structures_proofs`.

### Structures_proofs

The LFU cache, the caches with a time to live, the load balancer, the union-find and the
pipeline, for any keys, readers, targets, elements, askers, stages and capacities. The
code searches lists, evicts in a loop, follows paths and marks stages, so that the proofs
need induction over the length of a list, the number of evictions or of stages left. The
library's induction theorems take a predicate as parameter, which the provers
cannot instantiate; here induction is a fact about sets (`Induction`, from
`NatLessThanWellFounded` and `WFMin`), applied to the set of the numbers for which
something holds.

* `LFUInv`: the lists agree with the frequencies (`ListsExact`), each is ordered by
  recency (`OrderKept`), minFreq is not above any frequency, and as long as no
  resize has lowered the capacity a full cache has something in the list of minFreq
  (`Roomy`), without which the next `Set` would evict nothing and exceed the capacity.
  What eviction does is `Trims`: nothing that goes was used more often, or as often and
  later, than what stays. It is transitive, which gives the loop of `Resize` by
  induction (`LFUResizeOK`), and with it `EvictsLeastUsed` for every step.
* `CachesInv`: what a reader is about to remove has expired, is gone or was stored
  after the reader looked (`Doomed`). Only the LRU removes it without
  looking again, and so `lost` is empty for the hash table.
* `BalancerInv`: on the circle of the available targets those from some place up to the
  index have been selected once more than the others (`InTurn`, `Arc`). That the list
  built by the loop of `AvailableTargetIDs` has each available target once, and stays
  the same when a target is removed that was not available, is shown by induction over
  the loop (`IdsElements`, `IdsWithout`).

* `UnionInv`: parents stay within the block that the unions made, each block has one
  root, and the rank rises along every parent (`Forest`). Because it rises, a path has
  no member twice, so that `find` meets a root within as many steps as there are
  elements (`WayRises`, by induction over the steps). `Connected` rewrites parents under a
  read lock; an asker that has found its root and is about to store it, after others
  have stored theirs, still moves an element of its block below the one root that the block
  has (`AskerExact`, `Rewritten`), because no union can run meanwhile. That the count is the
  number of the blocks follows since a union makes one of two (`OneBlockLess`).
* `PipelineInv`: the stages called are all different, each is called by a transition of
  the one before (`Called`), and the transition that ended an execution with "cycle" led
  back to one of them (`FoundCycle`). No change that a stage makes to the pipeline that
  executes it takes a transition away (`BuildingKeeps`), which is why these facts outlive it.
  The other half is `Validate`, an algorithm, which reports unreachable stages exactly if
  there are some (of cycles `PipelineExact` says nothing):
  `markReachable` calls itself for each target in turn, passing on what has been marked. That this recursion has a result is shown by
  induction over the number of stages not yet marked (`MarksExist`, `UnmarkedIs`), for which
  `PipelineAssumption` says that the stages are finitely many, and that the result is
  what the transitions lead to in two halves: it stays within every set that no transition
  leaves (`MarksWithin`), and it is itself such a set (`MarksLead`).

### What is only model-checked

`TypeOK` and `NoOverwrite` of the HFT ring, `TypeOK` and `CountsAdd` of the breaker, and
`AnswersTruthful` and the invariant of the flush buffer by itself are
proved and named by no run: the runs check what they are part of.

The following is only model-checked:

* all liveness properties (`Delivered`, `SendReturns`, `WorkGetsDone`, `EverythingEnds`,
  `Recovers`, `SleeperWakes`), which need fairness and ENABLED;
* `OthersExact`, the ordered set, bitmap, graph and message layout: what recursive
  functions over trees, bitmaps, graphs and bytes compute for every input. Induction
  over numbers is at hand, but the invariants of these structures and the functions
  that check them are each a proof of their own, and the layout of the bytes is
  stated with powers, about which the provers know nothing.

## 5. What the work found

Six runs show the code differing from its comments or documents (`findings`):

1. `Consume` gives the slot back before the caller has read the message, so
   that the returned pointer is good until the producer claims the slot, not
   "until the next Consume call". `PointerUntilReused` is what holds.
2. `FlushBuffer.Stop` cancels the context and then uses it for the last flush:
   a `flushFunc` that respects its context drops the remaining data.
3. `allowRequest` compares `MaxRequests` with finished requests; any number may
   be running in the half-open state.
4. `Resize` of the LFU cache never returns when it has to evict across more than
   one frequency: `removeEntry` leaves `minFreq` at the list it has emptied, and
   `evict` then finds nothing.
5. `RedisRateLimiterV3` decides on a new key as if it held the full capacity, but
   `HINCRBY` stores its outcome counted from 0: after one allowed request the key
   denies until the refill has made up for the whole difference.
6. `processEvent` holds the read lock while actions run. An action that fires an
   event takes it again, and deadlocks with a registration that waits for the
   write lock in between, although registering during operation is documented
   as safe. `EventsEndOrChainWaits` is what holds.

Noted in reading and modelling, without a run of their own. Some of these are what a
hazard in `PROJECT.json` warns of, and the code runs into it without contradicting what it
says of itself. The properties of such a hazard say what remains true, and do not catch
the hazard itself; its note says where they stop.

Rings and buffers:

* a process that dies with a claimed slot blocks both rings for ever;
* when `HFTConsumer.Close` closes the ring under a `Publish` that has passed its check,
  `Run` may return and `Publish` then report an order as sent that nobody consumes
  (one at most: `DrainedWhenFinished`);
* `HFTConsumer.Close` unmaps memory under a running `Run`, and
  `SharedMemoryRingBuffer.Close` under a running `Write` or `Read`;
* the message counter wraps when a consumer overtakes the increment, so that
  `IsFull` (`msg_shared_memory.go:603`) may be true and `Size` huge for a moment;
* a panic of `flushFunc` unlocks a mutex that is not locked.

Stability:

* `UpdateConfig` may lower `MaxRequests` of a half-open breaker to a number
  already counted; it then refuses everything until a late result or `Reset`;
* `LeakyBucket.SetLimit` stops the ticker that `startLeaking` is waiting for: the
  bucket leaks no more, and who sleeps in `WaitN` sleeps until its context ends;
* callers woken by `LeakyBucket.Close` find the bucket closed and queue up again,
  with nobody left to wake them; and a caller that joins the queue just after the
  last leak sleeps beside an empty bucket until somebody pours;
* `ReserveN` takes nothing out of the bucket's room, but `Cancel` gives back;
* the round robin of the v4 batch limiter sends the requests of one key to all
  shards: each decides from its own reading, so that S shards may allow up to
  (2S - 1) times the capacity at once; and a shard that stores an older time than another
  has stored lets the time between be refilled again, in all at most S(S + 1)/2 times
  (`WithinLimit` has these bounds, and `AllWithinLimit` proves them);
* a request that passed the check of `closed` may enter the queue of a shard that
  has exited. In v4 it waits until its caller's context ends, in v3 until the
  timeout of the operation. (The test "pending requests blocked after Close",
  `redis_ratelimit_batch_v4_test.go:231`, gives all callers a deadline.)
* v3's map keeps the answer of a request that gave up before its shard answered;
* the batch limiters store the time with every batch, even if nothing was
  refilled: frequent batches keep a slow limit from refilling at all;
* `RedisRateLimiterV3` adds the refill of an allowed request without the limit to
  the capacity that its decision used: after a long pause the key holds more
  than its capacity;
* nothing calls the pipeline of `redis_ratelimit.go`.

efflux, scheduler, state, trigger:

* the event workflow blocks for ever when more tasks go round than its channels
  and workers hold (`FlowCapacity`), until it is stopped;
* after a `StopPoller` that timed out, the end of the old poller removes the
  registry entry of a new one: `IsRunning` (`polling.go:297`) says no, `StopPoller`
  cannot find it, only `Close` ends it;
* the error of a one-time poller's first poll is missing from its metrics;
* `NewWorkerPool` and the simple worker's constructor leave out what their workers
  need (`workers`, the handler), and the error of `Process` is dropped
  (`worker_pool.go:105`), while `docs/efflux.md:129-130` promises retries;
* a second `Start` of a job overwrites the cancel function of the first, and `Stop`
  then waits for a run nobody can cancel;
* `Pipeline.Validate` is said to return an error "if there are issues like unreachable
  stages or cycles" (`pipeline.go:93` and `:315`), and accepts a stage with a transition to
  itself: it looks for unreachable stages only. `PipelineExact` therefore says what it
  reports of those and nothing of cycles. `Execute` meets the cycle and ends with an error;
* a scheduler stopped and started while a callback is between its critical
  sections runs the task in two chains of timers;
* a second `Initialize` enters the initial state again without leaving the current one,
  and two events at a time leave a state twice and enter two (`HooksBalanced` is what
  remains), and run an execute-once trigger twice (`OnceUnlessOverlapping`).

Data structures:

* after a resize of the LFU cache that stopped in time `minFreq` may still be stale,
  and `Set` then evicts nothing and exceeds the capacity (`CapacityKept` excludes it);
* `tryAutoShrink` (`dynamic_lfu.go:239`) calls `Resize`, which locks the mutex `Set`
  holds already;
* the LRU with a time to live removes by its key what it saw expired, and may
  remove a value set in between (`CachesExact` says exactly when); its map
  `expiration` is written and never read;
* `Peek` of the channel queue moves the front element to the end; the comment
  says that under high concurrency only. `Pop` after `Close` returns a zero value
  without an error (the comment at `queue.go:325` says ErrQueueEmpty), so that
  `Range` then does not end.

Kafka:

* the "non-blocking send" of the asynchronous producer blocks when the input is
  full, under the read lock, and the case `cancel` of its select can not fire,
  because `Close` needs the write lock first;
* a message whose handlers failed is marked all the same; and the loop of `Start`
  goes on after `Close`.

## 6. Not modelled

* In the modelled components: formatting and logging, thread pinning,
  prefetching, warm-up, sizes and statistics, file removal; listeners, callbacks
  and metrics that change nothing in the component.
* Memory order: Go's atomics are sequentially consistent, and the models
  interleave them so. `PublishCopy` and `Handle` are plain copies of many
  words; they are one action each because `SlotExclusion` (proved) shows that
  no other access to the slot lies between the claim and the release, except
  for the handler's read, whose overlap with the producer is finding 1.
* In the Redis limiters: the registration of shards (once, before use), the
  counters of `Stats`, the fail-open mode (it changes the answer to an error, not
  the bucket), and commands that Redis still runs after their pipeline was
  reported as failed.
* Real time: delays, rates, cron expressions and backoffs are timers that may
  fire at any moment; where an order of times matters (expiry, the buckets in
  Redis) there is a small clock.
* The simple and the sharding worker pool and the progress task, which repeat
  the worker pool's protocol with less; the typed triggers, event factories and
  time-based events, which end in `FireEvent`; `cache/memory.go`, a count of bytes
  beside a map; stack, linked list and trie, sequential structures without a
  hazard that a unit test does not reach; reservoir sampling, whose property is
  a probability (by reading: `ReservoirSample` and `ReservoirSampleStream` skip the
  item after the first k).
* Overflow of sequence numbers and counters at 2^64 (except the message
  counter, which wraps in practice).
* NATS, databases, object stores, mail, metrics, HTTP, logging: wrappers of
  client libraries without protocol state; generators, examples, commands.

## 7. Plan

Every module of the plan is written. Proved is what the runs check of the rings, the
breaker and the bucket, the flush buffer, the components with goroutines, the queues,
the caches, the load balancer, the union-find and the pipeline, and of the Redis
limiters. What is left:

1. `OthersExact`: the search order of the tree and the sorted arrays of the bitmap,
   then the searches of the graph, for which the lemmas about `markReachable` are a pattern.
