# Formal models of kafka_msa

kafka_msa is an event-driven system: Node.js servers send JSON messages to Kafka, Node.js and
Kotlin/Spring services receive them. This directory holds TLA+ models of its Node.js core and of
the Spring listeners, the configurations that model-check them with TLC, and proofs that TLAPS
checks. Paths are
relative to the repository; `libs/` stands for `node_kafka/libs/`.

1. [The system](#1-the-system)
2. [What is hard about it](#2-what-is-hard-about-it)
3. [The modules](#3-the-modules)
4. [The runs](#4-the-runs)
5. [Fairness](#5-fairness)
6. [The proofs](#6-the-proofs)
7. [Where code and documents disagree](#7-where-code-and-documents-disagree)
8. [What is not modelled](#8-what-is-not-modelled)
9. [Plan](#9-plan)

## 1. The system

| component | state it keeps | operations | correct when |
|---|---|---|---|
| Graceful shutdown, `libs/shutdown.js` | `STATUS`, `callbackMap`, listeners of the process | `init`, `addCallBack`, `gracefulShutdown`, handlers of signals, rejections and exceptions | every registered callback runs once, a failing one delays nobody, the shutdown ends |
| Consumer wrapper, `libs/kafka/config/consumer.js` and `handler/consumer/report.js` | `#consumer`, consume type | `init`, `#earlyCommit`, `#eachMessageEarlyCommit`, CRASH listener, `consumerReconnect`, `shutdown` | what is delivered twice or lost is what early acknowledgement allows |
| kafkajs consumer, `node_modules/kafkajs/src/consumer` | runner, restart timer, resolved and committed offsets, membership | join, fetch, handle a batch, heartbeat, commit, crash, restart, stop | one runner at a time; offsets that are committed never move back |
| th-checker, `node_kafka/th-checker` | the process | start, consume, shut down | a consumer that is gone comes back or takes the server down |
| Producer wrapper, `libs/kafka/config/producer.js` and `handler/producer/report.js` | `#producer`, counter of fast reconnects | `start`, `send`, `producerReconnect`, `shutdown` | a resolved send is in the log; a shutdown does not lose what was sent |
| kafkajs producer, `node_modules/kafkajs/src/producer`, `network`, `retry` | connection status, pending requests, retriers | connect, send with retries, disconnect | every send settles |
| server1, `node_kafka/server1` | an interval of ten seconds | four sends per tick, none awaited | a producer that fails takes the server down |
| MySQL access, `libs/rdb.js` over mysql2 | one connection, its queue of commands, MySQL's open transaction | `execute`, `executePromise`, `executeWithTransaction`, `end` | a transaction is atomic, durable once it resolved, never left open |
| Row helpers, `libs/dataTransform.js` | none | grouping, merging and comparing lists of rows by key | each equals its definition over sets of keys |
| retry, `libs/retry.js` | none | run a function until it succeeds, up to n times | its result says whether one of the runs succeeded |
| Logger, exceptions, response codes, ids, `libs/*.js` | none | formatting | |
| Spring services, `eda_producer`, `eda_consumer` | the framework's containers and offsets | REST to Kafka; batch listeners that acknowledge by hand | a batch is acknowledged only after it was processed; a record is repeated only for a reason |
| Deployment, `docker-compose.yml`, `kafkaConfig` | | containers of broker, ZooKeeper and services | |

How they interact. A server calls `shutdown.init()` and then its own `start()`, which nobody
awaits. `start()` brings up a producer (server1) or a consumer (th-checker) and then registers
its `shutdown` with `addCallBack`. Signals, unhandled rejections and uncaught exceptions end in
`gracefulShutdown`, which calls every registered callback; a callback calls kafkajs'
`disconnect()`. Sends that server1 does not await come back to the same process as unhandled
rejections. The consumer's fetch loop calls `#earlyCommit` for every batch, and a failure in
there is kafkajs' to handle: fetch again, rejoin, or crash, disconnect and restart from a timer.
Producer and consumer meet only in the broker's log, where the Spring listeners read, in groups
of their own, what Node.js and Spring producers have written. No server uses `rdb.js` or
`dataTransform.js` at this commit; they are library code and are modelled as such.

## 2. What is hard about it

PROJECT.json lists every hazard with the line where it bites. The main ones:

* One-threaded code with many owners of the same promise. The shutdown and a crash handler may
  both be in `disconnect()`, sharing one `stop()`, while a restart timer is set or due.
* State read before an `await` and used after it: the callbacks taken by `gracefulShutdown`, the
  `#producer` a disconnect is about to forget, offsets resolved before the heartbeat and the
  commit that may fail.
* Acknowledgement before processing: whether a message is lost or delivered again depends on
  which of heartbeat, commit, processing, second commit and second heartbeat fails, and on what
  the coordinator thinks of the member at that time.
* Answers that are lost: a commit or an append the broker has made and the client believes failed.
* Promises nobody awaits: sends of server1, `beginTransaction`, `commit` and `rollback` of `rdb.js`.
* One connection shared by transactions that interleave, and one field, `#producer`, shared by
  calls that overlap.
* Two consumer threads for a partition, of which the one that was given up still handles its batch.

## 3. The modules

Variables and actions have the names of the code where the code has one. Each entry of "map" in
PROJECT.json gives the lines a definition stands for. A definition directly before another with
the same parameters (`AnySettled` before `AllSettled`, `ResolveNone` before `ResolveLast`) is a
deliberately wrong variant of it. Nothing uses it: the properties have been tested by putting
it in the other's place and seeing the property fail.

**Shutdown** models `libs/shutdown.js` as the servers use it. `GracefulShutdown` is the code up to
its first `await`, including the call of every registered callback, since `map` calls them all
before one can settle. `CallbackSettles` and `EndShutdown` are what follows. A signal's first
delivery removes its `process.once` listener (`SignalTrapped`), the next one meets the default
action (`SignalDefault`). `Acquire`, `Register` and `AcquireFails` are the servers' `start()`.
`promised`, `calls` and `ended` are history.

**BatchConsumer** is one consumer of a group from the broker's log to `consumeMethod`: the loop of
kafkajs' fetch manager and worker (`pc`), the offset manager (`committed`, `resolved`), the
coordinator's view (`member`, `groupOffset`) and the wrapper's `#earlyCommit` in between
(`TakeBatch`, `Beat`, `CommitIfNecessary`, `Consume`). The consume type is drawn once:
`#earlyCommit` gives consumeMethod the batch (`ConsumeBatch`), `#eachMessageEarlyCommit` message
after message (`ConsumeMessage`), each tried again at once up to `RetryCount` times
(`ConsumeFails`) and passed over after that. A message is its offset. The two timers
(heartbeat interval, commit interval) are nondeterminism: a heartbeat or a timed commit may or may
not be due. `Restart` is a process that dies anywhere and starts under a new group, because the
group id ends in an id drawn at every start. `RoundEnd` is what the fetch manager does with the
first error of a round: join again, fetch again, or crash. A crash that kafkajs restarts joins
again, so that it is a `join` here and taken apart in ThChecker; one it does not restart, because
the error is not retriable, leaves the consumer `dead`, as a failed join (`JoinFails`) or fetch may.

**Delivery** says what such a consumer promises, without heartbeats, timers, retries or membership:
take the messages of a partition in order and advance first, hand over once or give up, let some
earlier or the present position become durable. BatchConsumer implements it.

**KafkaJsConsumer** is the life of the kafkajs consumer object: `start`, join, crash, the shared
`stop()`, `disconnect()` by several callers, the restart timer. An instance is one ConsumerGroup
with its Runner.

**ThChecker** composes Shutdown and KafkaJsConsumer into the process: `report.init`, the CRASH
listener, the callback that disconnects. `ConsumerReconnect` is the wrapper's retry of
reading a property, which cannot fail.

**Server1** composes Shutdown with the producer: a tick's sends, their metadata and produce
requests, kafkajs' retries, `disconnect()` that waits for pending requests, and rejections that come
back as an unhandled rejection. The broker may have appended a message whose request failed. The
catch of a failed attempt awaits `cluster.connect()` and `refreshMetadata()` before it throws, also
for the last time and in a producer that is being shut down: the send is `recovering` then, and
`Recovered` opens a connection before it waits for a retry or rejects. `link` says whether a
connection that `disconnect()` has not ended may be open.

**KafkaProducer** is the wrapper's object under calls of `start`, `producerReconnect` and
`shutdown` in any order, each running from `await` to `await`: the kafkajs producers they make,
the one field `#producer` they share and read again after every `await`, `retry`'s rounds, and
the counter of fast reconnects, at whose limit the CONNECT listener calls an `errorCallback` that
is undefined. Whether a connect comes fast, succeeds or fails is nondeterminism. Sending is left
to Server1, since `send` changes nothing in the object.

**SpringListener** is a batch listener of `eda_consumer` or `eda_producer` on a topic of one
partition: the container's threads join, poll, handle and commit (`Join`, `Poll`,
`HandleRecord`, `Commit`), the coordinator gives the partition to one of them and may take it
back while it handles (`Evict`, `Fenced`), the process may die (`Restart`), a commit may fail with
or without effect (`CommitFails`). The services differ in their deserializer: the plain one cannot
read a record without type header, which is all that matters of a record's writer.

**AtLeastOnce** is what such a listener promises: it begins once, at the end of the log, and what
is acknowledged from there on has been handled. SpringListener implements it. Delivery and
AtLeastOnce are the two opposite orders of acknowledging and processing in this repository.

**Rdb** is the RDB class over mysql2's first-in-first-out queue and MySQL's session: statements
that are sent and not awaited, the query that is awaited, `COMMIT` or `ROLLBACK` appended to the
queue when its answer is there, `end()` and a broken connection.

**DataTransform** states the helpers as operators and compares them on every pair of lists a caller
can build. A text is a sequence of tokens, so that `join` with a separator does what it does in
the code, a separator inside a key part included. The reduces are folds of a step (`Override`, which
spreads one object over another, and `MergeDeep`); `MapOf` is a reduce with `map.set`, `RowsAt` a
`forEach` that pushes the rows of some places. Rows of JSON columns and messages hold arrays and
objects beside texts, which only deepmerge looks into: its `mergeObject` appears at the three depths
that occur, for keyed objects of rows (`MergeDeep`), rows (`MergeRows`) and objects in a field
(`MergeFields`), each behind `propertyIsUnsafe` (`SafeKeys`), and `MergeValue` is what it makes of
two values of one field. `Inherited` are the names of the members that every object inherits.

The MC modules give the constants their values. **ShutdownProofs**, **BatchConsumerProofs**,
**ThCheckerProofs**, **Server1Proofs**, **KafkaProducerProofs**, **SpringListenerProofs**,
**RdbProofs** and **DataTransformProofs** hold the theorems.

## 4. The runs

| run | asks | bounds |
|---|---|---|
| `shutdown` | Signals, errors, acquisitions and callbacks in every order: no callback twice, none lost, no kill before a shutdown, an end that waits for all and comes | three resources, two of them with one name; four signals, SIGUSR1 harmless by default |
| `shutdown_late` | fails: a resource registered during or after a shutdown is never closed | one resource per name |
| `batch_one` | What is delivered again, what is lost, what is committed when, in both consume types; the consumer implements Delivery; everything is accounted for in the end | two partitions of two messages and one, threshold two, one retry per message, two faults, one restart |
| `batch_retried` | fails: a batch whose heartbeat or early commit fails is committed and never processed | one fault |
| `th_checker` | Crash, restart timer and shutdown in every order: one consumer at a time, a restart after a crash, an end of the shutdown, nothing alive behind a calm one | three starts of the consumer |
| `th_checker_dead` | fails: a consumer that is dead for good leaves the server ACTIVE | three starts |
| `server1` | Sends, reconnects, retries, lost answers and shutdown in every order: what is in the log, what a shutdown leaves behind; every send settles, a rejected one takes the server down | three ticks of one send, two faults |
| `rdb` | Queries and transactions that overlap, fail, meet `end()` or a broken connection | two plain calls, three transactions |
| `rdb_overlap` | fails: the rollback of one transaction undoes the row of another that resolved | two transactions |
| `producer` | `start`, reconnects and shutdowns that follow or overlap each other, with connects that fail: which connections are left, what results mean, every call settles | three calls, two rounds of retry, a limit of two fast connects |
| `spring` | Two threads on one partition, evictions, a restart, a failed commit, unreadable records: the listener implements AtLeastOnce, repeats a record only for a reason and handles every readable one | three records, one failed commit, two losses, both deserializers |
| `data_transform` | The helpers against their definitions over keys, and merging by key with deepmerge | fifteen rows of texts, arrays, objects and inherited names, lists of up to two |

Why the bounds suffice. In `batch_one` a threshold of two allows batches below and at the threshold,
reached by one partition alone or by two together; the partitions' batches share a round, a commit
and an error, and two messages make a second batch in a session or an each-message loop that is
interrupted in its middle. Two faults allow an eviction on top of a lost acknowledgement, a failed
commit in the error path of a failed heartbeat, and a rebalance that becomes an eviction; the
restart brings the change of groups. The real threshold is 100 and the real count of retries five;
the code only compares each with a count. In `th_checker` three instances are a crash, its restart,
and a crash of that; the handlers of the first two can be in flight together. In `server1` three
ticks give sends on both sides of a shutdown, and since no send is awaited one may settle while
another recovers and a third retries; sends of one tick differ from sends of several only in when
they can begin. Two faults let a retry fail for good while the producer shuts down. In `rdb` three
transactions let one begin, one run and one close at the same time, with a plain query in between.
In `producer` three calls are a start, a reconnect and a shutdown in every overlap, or two
reconnects in a row, which exhaust a retry and reach the limit of fast connects. In `spring` two
threads and two losses allow a thread to handle a batch after another has committed it, with a
failed commit before; three records make two batches and an unreadable record between readable ones.
The rows of `data_transform` are picked for the cases of the code: equal keys with equal and
different values, a key part that is missing, empty or the word `null`, two keys that differ only in
how they are cut, key parts holding the separator, every pair of kinds of values in one field, and
fields and keys of inherited names. deepmerge takes two lists at a time and looks at one row of each
under a key, and the other helpers treat a third row as they treat a second; what they do with longer
lists is proved.

All passing runs switch the deadlock check off because all systems may stop: a killed or shut down
process, a stopped consumer, a closed connection and full bounds are ends.

Some properties carry a condition that reports something about the code:

* `CleanShutdownIsFinal` (ThChecker) excludes a start or a crash in flight. kafkajs' `Runner.start`
  does not look whether the consumer was disconnected while it joined (runner.js:89), and a
  crash handler may set its timer behind the shutdown: either leaves a consumer alive. No
  document promises otherwise, so this is a condition and not a finding.
* `EventuallyAccounted` (BatchConsumer) excludes a consumer that crashed with an error that is not
  retriable: nobody starts it again, and the server goes on without it (the finding of
  `th_checker_dead`).
* `CleanShutdownDrains` (Server1) holds when, since the shutdown began, no send had to fetch
  metadata, wait for a retry or recover. Any of them makes another request and opens a connection
  nobody closes; in particular a produce request that fails while `disconnect()` waits for it
  finds the cluster disconnected and connects again before it rejects (sendMessages.js:140-148),
  even when its error is final. `FailureStopsServer` excludes a producer that came
  up after a shutdown had taken its callbacks (the finding of `shutdown_late`): its failures reach
  `gracefulShutdown`, which returns early. The interval itself runs on after a shutdown, and it
  logs success whatever becomes of its sends.
* The parts of `CompositeKeysAreTuples` and `GroupingsAgree` that speak of tuples hold for key parts
  that hold nothing of the separator; otherwise `x`,`x/x` and `x/x`,`x` are one key. A missing part is
  the same as an empty one in a composite key and as the word `null` in a group key, and the
  properties say that nothing else falls together.
* `GroupingsAgree` excludes rows whose key is the name of a member every object inherits, such as
  `constructor`: `groupByKey` finds that member, and its `push` throws. `MergeIsOuterJoin` says that
  deepmerge drops rows and fields of such names without a word, and that arrays under one
  key are concatenated, so that merging a list with itself doubles them.
* `LargeBatchPreCommitted` (BatchConsumer) needs a batch of at least the threshold. A smaller one
  is, unless the interval is due, processed before it is committed, although the enumeration
  says of the mode that messages are marked done first (consumer.js:18).
* `NoOrphan` and `ResultTellsConnection` (KafkaProducer) exclude a start or a reconnect that
  overlaps another call. Then `#producer = null` behind the `await` of one call may drop the
  producer that the other has connected, and a start may resolve without connecting. Shutdowns may
  overlap each other. At the limit of fast reconnects a start fails whose connection stands; the
  next round closes it.
* `EventuallyHandled` (SpringListener) asks that the service can read the record and all before
  it. The listener of `eda_producer` stops for good at the first record without type header,
  such as one of server1; that of `eda_consumer` goes on, with an object of default values or none.
  After a failed commit the group's offset lags until the next batch is acknowledged.
* `ResolvedIsDurable` and `RejectedLeavesNothing` (Rdb) hold for calls that did not overlap a
  transaction; the others are what `rdb_overlap` is about.

## 5. Fairness

* Shutdown, ThChecker, Server1: weak fairness of continuations whose promise is settled
  (`EndShutdown`, `Closed`, `Disconnected`, `CrashEvent`), of timers that are due (`TimerFires`,
  `Retry`) and of callbacks, whose only waiting is a kafkajs request or `stop()`, bounded by
  kafkajs' timeouts. This is the event loop's promise, and it is conditioned on `alive`.
  In ThChecker nothing obliges a join to succeed or to fail, nor a signal or a crash to come.
  In Server1 `Answer(s)` is fair: a request that does not fail is answered, and the bound on
  faults stands for retries that are not exhausted by failing for ever.
* BatchConsumer: weak fairness of the consumer as a whole. Its loop has one continuation at a time,
  so no step of it can starve another. Faults are bounded; with unbounded faults nothing would
  ever have to be delivered.
* KafkaProducer: weak fairness of each call's continuation: settled promises continue, and connect
  and disconnect settle because kafkajs bounds requests by timeouts and retries by a count.
  Which way a connect ends is open, so `CallsSettle` holds with every connect failing.
* SpringListener: weak fairness of each thread, which is a loop of its own around requests with
  timeouts. Failed commits, evictions and restarts are bounded.
* Rdb: weak fairness of the server's step, which answers the oldest command. There is one such step
  at a time; whether a query succeeds or fails is left open.

Fairness of `Append`, of ticks, signals, restarts and faults is never assumed.

## 6. The proofs

All theorems hold for every value of the constants that satisfies the module's ASSUME:
any sets of resources, names and signals; any finite set of partitions, any threshold of at
least one, any bounds and any number of retries; any number of starts of the th-checker's consumer;
any number of messages per tick of server1, of ticks and of faults; any set of producer calls, any
positive count of rounds and limit of fast reconnects; any finite set of threads; any disjoint sets
of calls of Rdb; any rows whose fields have names and whose key fields hold texts, any list of key
fields and any separator but the empty one. Together they cover every safety property that a run checks.

* **ShutdownProofs**: `TypeCorrect`, `AtMostOnce`, `EndSettled`, `NoEarlyKill`. The inductive
  invariant adds to the types `Progress` (no call before a shutdown, promised resources are past
  "open", what ended has settled) and `TrapsInPlace` (an active process has all its traps). The
  lemma `GracefulShutdownStep` treats the common part of the five callers once.
* **BatchConsumerProofs**: `TypeCorrect`, `AtMostOncePerSession`, `AtMostOncePerProcess`,
  `CommittedIsBehind`, `NothingLostSilently`, `StopIsClean`, `LargeBatchesFirst`, `Refinement`,
  `CommittedAdvances`. `IInv` is TypeOK, `Safe` and NoSilentLoss. `Safe` says that offsets are known
  while the worker works, that nothing is beyond the log's end, that batches not taken yet start at
  the position and the one in hand ends there (`Fresh`), that the group's offset is not beyond the
  position, and that what was handed over, in this session or by an earlier process, lies below the
  position and below the batch in hand. Each part is needed: without `Fresh` a taken batch could
  move the position back; without the bound by the log's end a start at the end could fall behind
  what an earlier process handled. Most actions are a `QuietStep`: they move the worker on and
  commit at most what is resolved. `SafeQuiet` and `LossQuiet` treat them together; `SafeLoud` and
  `LossLoud` the others one by one. `StopIsClean` adds `Undisturbed`: while there is no fault, a
  batch that was taken is either committed or resolved beyond the local committed offset, so that a
  later commit covers it (a commit skips partitions whose two local offsets agree), and what was
  handed over is committed before the worker turns to anything else. `LargeBatchesFirst` needs that
  the local committed offset is never beyond the resolved one, and lies below a batch until that has
  been committed (`CommittedIsPrior`): then the batch alone reaches the threshold, since the count
  of resolved offsets, a sum over the partitions, is not smaller than any of its terms
  (`SumOfTerms`). `Refinement` is `Spec => EarlyAcknowledgement`. The mapping shows Delivery the
  group's offsets as durable, the position once committed offsets are known, and the batch between
  `TakeBatch` and `Consume` or `Abort` as in hand. A commit of any kind maps to `Commit`, an abort
  to `GiveUp`, a join or a restart to `Close`, everything else to one action or a stutter.
* **ThCheckerProofs**: `ProcessIsShutdown` and `ShutdownOfThChecker`: the process, with its consumer
  as the one resource, is an instance of Shutdown, so that all theorems of ShutdownProofs hold of
  it. `TypeCorrect`, `OneConsumer`, `CleanShutdown`. `Chain` says that an instance of the consumer
  is born when the ones before it are down, and that a restart timer is set by the last of them
  only. `Stopping` says that the shared `stop()` is of an instance that is going, `Upkeep` when the
  consumer's resource may be registered and closed, and `Settling` what a shutdown that no start or
  crash falls into has taken down at each of its stages.
* **Server1Proofs**: `ProcessIsShutdown` and `ShutdownOfServer1`, as above; `TypeCorrect`,
  `ResolvedIsThere`, `CleanShutdown`. Messages of later ticks are nowhere yet (`Unborn`); every
  append of a message but the acknowledged one was a fault's (`Counted`); the producer's connection
  follows its resource (`Upkeep`); and in a calm shutdown, in which no send prepares, recovers or
  waits, what `disconnect()` waits for is all there is (`Draining`).
* **KafkaProducerProofs**: `TypeCorrect`, `NoConnectionLost`, `ResultsAreTrue`. Without overlaps all
  calls in progress are shutdowns, or there is only one and it began last (`Alone`). `Holds` says
  where a lone call's producer is at each `await`, so that the field it reads again is its own;
  `Told` is the property for the last call, kept while a call that settles leaves the others alone.
  `AloneStep`, `AloneBegin` and `SoleStep` carry the frame of the other calls once for all actions.
* **SpringListenerProofs**: `TypeCorrect`, `Refinement` (`Spec => AtLeastOnceDelivery`). The
  invariant `Behind` says that the group has an offset once a thread has joined, and that from the
  group's offset to where the owner reads everything is handled. It holds of the owner only: a
  thread that was given up may be anywhere, and cannot commit. `OncePerLoss` counts: the handlings
  of a record so far, the threads that may yet handle it and the vacancy of the partition are at
  most one more than the losses (`FewChances`); a handling uses a thread up, a join the vacancy.
* **RdbProofs**: `TypeCorrect`, `NoTransactionLeftOpen`, `ResolvedStays`, `RejectedIsGone`. An open
  transaction has its end ahead of it in the queue: a `COMMIT`, `ROLLBACK` or `QUIT`, or the query
  of a transaction, which will queue one (`OpenIsClosing`). For that, `BEGIN` must always be
  followed by its query (`BeginIsFollowed`), and a call that settles after `end()`, and so queues
  nothing, must have `QUIT` behind it (`EndedIsQuitting`). The two statements about rows rest on
  `Rows`. A plain query that overlapped no transaction finds none open at its turn
  (`PlainIsOutside`). The query of a transaction that overlapped none stands right behind its
  `BEGIN`, and behind it nothing that could end or replace the transaction (`TransactionIsInside`),
  so that a call that resolved has its row, or its `COMMIT` ahead with only plain queries before it
  (`CommitIsAhead`).
* **DataTransformProofs**: `Synchronisation`, `CompositeKeys`, `Grouping` and `OuterJoin` state what
  the run `data_transform` checks on short lists, for lists of any length.
  Every reduce of the module is shown to be a
  `Fold` over places, whose value is one step of the reduce behind the fold without the last place
  (`FoldStep`). From there: a map holds the last value of each key (`MapOfIsLastWins`), the map of
  picked rows is that of their places (`PickedRows`), a group holds the rows of its key in their
  order (`GroupsOf`), the list of distinct keys has each of them once (`DistinctKeys`). Composite
  keys rest on `Unjoin`: two texts that are free of the separator, each behind a separator, can be
  told from what they are joined to; hence so can tuples of such texts (`JoinInjective`), and there
  are as many keys as tuples (`AsManyKeys`). `OuterJoin` follows what the two merges of a list of two
  do to a key that one list or both have (`RowsJoin`): a row merged into nothing and then
  left alone is cloned twice, a clone shows what the value shows (`CloneShowsTheSame`), and a value
  merged into the clone of another shows what the two stand for together (`ValuesCombine`).

How facts about folds are proved. The induction theorems of the library take an operator as a
parameter, which the provers cannot instantiate, but its theorem that strict inclusion is
well-founded on the subsets of a finite set does not. A claim about the fold over every part of a
finite set is proved by assuming it false for some part, taking a part for which it is false that
includes no other (`MinimalSubset`), and removing one element from it.

Only model-checked is liveness: `ShutdownEnds`, `EventuallyAccounted`, `RestartFollowsCrash`,
`FailureStopsServer`, `EverySendSettles`, `EveryCallSettles`, `CallsSettle`, `EventuallyHandled`,
which the provers cannot treat under fairness, and the four findings.
`NoRedeliveryOfCommitted` and `CommittedNeverRegresses` of BatchConsumer are proved and in no run;
Delivery implies the second.

## 7. Where code and documents disagree

| run | the document says | the code does |
|---|---|---|
| `shutdown_late` | the callbacks of the registered resources are carried out (shutdown.js:18) | `addCallBack` accepts a callback while or after the shutdown that will not call it |
| `batch_retried` | a Kafka error of the prelude is thrown, kafkajs retries (consumer.js:95) | the error path commits the failed batch, the retry starts behind it |
| `th_checker_dead` | a non-retriable crash runs `crashCallback`, which shuts down (report.js:55-56) | `consumerReconnect` cannot fail, so the callback is never called |
| `rdb_overlap` | executes a query with a transaction (rdb.js:133) | overlapping calls share one connection and undo each other |

## 8. What is not modelled

* What selects a consume type: the report handler's init passes `CONSUME_TYPE` where the constructor
  reads `consumeType`, and the default has the value `PRE_COMMIT_BATCH`, so that no server runs
  `#eachMessageEarlyCommit` at this commit. BatchConsumer has both. `producerReconnect` has no
  caller either and is modelled as a method anyone may call; `#addShutdownTimer` is called
  nowhere, so that there are no timers to remove.
* A connection the broker drops by itself: kafkajs' producer notices it at its next request, the
  wrapper, whose DISCONNECT listener is commented out, not at all.
* Several brokers and fetchers. The compose files run one broker and create topics of one
  partition, so that one fetcher and one worker handle everything, as the default concurrency of one
  does. `batch_one` has two partitions because th-checker subscribes to two topics.
* Offsets out of range, `seek` and `pause`, assignment strategies, metadata refresh as such, SASL
  and the wire protocol. Partition reassignment appears as loss of membership and a join.
* What MySQL and mysql2 do is modelled from how `rdb.js` uses them: a failed statement changes
  nothing and leaves the transaction open (a deadlock's own rollback is left out),
  `START TRANSACTION` commits what is open, a broken connection rolls back. `beginTransaction`,
  `commit` and `rollback` appear as `executeWithTransaction` calls them, not as calls of their own.
  The connection's `error` event, which nobody handles, is left to the process.
* Objects and arrays that hold objects or arrays again: a field holds a text, an array of texts or an
  object of texts, and deepmerge does below that what it does here. Of names, `__proto__`, which an
  assignment treats in a way of its own.
* `filterExist` and `isJsonParse` of dataTransform.js, one line each; logging, exceptions, response
  codes, ids, which keep no state.
* spring-kafka itself, modelled from how the services configure it: automatic commit off,
  AckMode.MANUAL, a start at the end of the log that is committed at once, a commit of what was
  acknowledged before the next poll, a failed commit that is logged. The listeners' own failure is
  left out: they print, and nothing in them throws for a record they can read. The controllers'
  send is the arrival of a record; the answer to the caller does not wait for it. Several
  partitions, which the threads would share, are independent of each other.
* Deployment scripts, the Kafka distribution and
  everything under node_modules that the modules do not name.

Over-approximations to know of: a signal may arrive between `init()` and `start()`, which run in one
turn of the event loop; a commit may be due at any time; any retry may be the last.

## 9. Plan

Done, in this order: 1. Shutdown with its proofs. 2. BatchConsumer, Delivery, proofs and refinement.
3. KafkaJsConsumer and ThChecker. 4. Server1. 5. Rdb with its proofs. 6. DataTransform. 7. The
each-message loop with `retry`, in BatchConsumer and its proofs. 8. KafkaProducer with its proofs.
9. SpringListener, AtLeastOnce, proof and refinement. 10. The proofs of ThChecker, Server1 and
DataTransform, and those of `LargeBatchPreCommitted` and of the rows of Rdb.

Next:

11. Pipeline: server1's sends as the appends of BatchConsumer's log, for the end-to-end statement
    "a resolved send is handed over, reported or skipped".
