--------------------------- MODULE BatchConsumer ---------------------------
(***************************************************************************)
(* One consumer of a group, from the broker's log to consumeMethod:        *)
(* KafkaConsumer.#earlyCommit, or #eachMessageEarlyCommit, in              *)
(* node_kafka/libs/kafka/config/consumer.js, run by the kafkajs Runner,    *)
(* FetchManager and OffsetManager with concurrency 1,                      *)
(* eachBatchAutoResolve false, autoCommit true.                            *)
(*                                                                         *)
(* A message is its offset.  Every round fetches at most one batch per     *)
(* partition; the single worker handles them one after the other, the rest *)
(* of a round included when one of them fails.  Time (heartbeat interval,  *)
(* autoCommitInterval) is nondeterminism: a heartbeat or a timed commit    *)
(* may or may not be due.  The coordinator sees the member as              *)
(*   valid        heartbeats and commits are accepted                      *)
(*   rebalancing  a heartbeat is refused, a commit is still accepted       *)
(*   fenced       both are refused (evicted, or of an old generation)      *)
(***************************************************************************)
EXTENDS Integers, FiniteSets, Folds

CONSTANTS
  Partitions,      \* the assigned topic partitions
  Threshold,       \* autoCommitThreshold
  ConsumeTypes,    \* the consume types a server may be configured with
  RetryCount,      \* #reconnectCount: retries of a message that failed
  MaxLog,          \* bound: messages of each partition
  MaxFaults,       \* bound: network errors and membership losses
  MaxRestarts      \* bound: process crashes followed by a restart

ASSUME BatchAssumption ==
  /\ IsFiniteSet(Partitions)
  /\ Threshold \in Nat \ {0}
  /\ RetryCount \in Nat
  /\ MaxLog \in [Partitions -> Nat]
  /\ MaxFaults \in Nat /\ MaxRestarts \in Nat

Unknown == -1      \* an offset that is not there

VARIABLES
  (* the broker *)
  log,             \* end offset of each partition: messages 0..log-1 exist
  groupOffset,     \* offsets committed for the consumer's group
  member,          \* how the coordinator sees the member
  (* the consumer *)
  pc,              \* where the consumer loop is
  committed,       \* OffsetManager.committedOffsets
  resolved,        \* OffsetManager.resolvedOffsets
  batch,           \* what the last fetch returned: offsets from .. to-1
  todo,            \* batches of the round the worker has not taken yet
  cur,             \* the partition whose batch the worker handles
  next,            \* offset of the next message of it for consumeMethod
  tries,           \* how often consumeMethod failed on that message
  errs,            \* kinds of the errors this round's batches rejected with
  stopping,        \* runner.stop() was called
  consumeType,     \* #consumeType, fixed when the consumer is constructed
  (* history *)
  handed,          \* offsets given to consumeMethod since the last join
  before,          \* ... by earlier memberships of this process
  older,           \* ... by earlier processes
  dropped,         \* offsets of batches that failed before consumeMethod
  skipped,         \* offsets below a start at the end of the log
  faults, restarts \* counters behind the bounds

broker == <<log, groupOffset, member>>
offsets == <<committed, resolved>>
hand == <<cur, next, tries>>
round == <<batch, todo, hand, errs>>
control == <<stopping, consumeType>>
history == <<handed, before, older, dropped, skipped>>
counters == <<faults, restarts>>
vars == <<broker, pc, offsets, round, control, history, counters>>

Nothing == [p \in Partitions |-> {}]
NoOffset == [p \in Partitions |-> Unknown]
EmptyBatch == [from |-> 0, to |-> 0]
Offsets(b) == b.from .. b.to - 1

\* What of the batch in the worker's hands consumeMethod is not done with yet.
InHand(p) ==
  IF cur = p /\ pc \in {"beat", "commit", "consume", "abort"}
  THEN next .. batch[p].to - 1 ELSE {}

Handed(p) == handed[p] \cup before[p] \cup older[p]
Accounted(p) == Handed(p) \cup dropped[p] \cup skipped[p] \cup InHand(p)

Init ==
  /\ log = [p \in Partitions |-> 0]
  /\ groupOffset = NoOffset
  /\ member = "valid"
  /\ pc = "join"
  /\ committed = NoOffset
  /\ resolved = NoOffset
  /\ batch = [p \in Partitions |-> EmptyBatch]
  /\ todo = {}
  /\ cur \in Partitions /\ next = 0 /\ tries = 0
  /\ errs = {}
  /\ stopping = FALSE
  /\ consumeType \in ConsumeTypes
  /\ handed = Nothing /\ before = Nothing /\ older = Nothing
  /\ dropped = Nothing /\ skipped = Nothing
  /\ faults = 0 /\ restarts = 0

-----------------------------------------------------------------------------
(* The broker.                                                              *)

Append(p) ==
  /\ log[p] < MaxLog[p]
  /\ log' = [log EXCEPT ![p] = @ + 1]
  /\ UNCHANGED <<groupOffset, member, pc, offsets, round, control, history,
                 counters>>

Fault == faults < MaxFaults /\ faults' = faults + 1

\* A rebalance begins, or the coordinator gives the member up.
LoseMembership ==
  /\ Fault
  /\ \/ member = "valid" /\ member' \in {"rebalancing", "fenced"}
     \/ member = "rebalancing" /\ member' = "fenced"
  /\ UNCHANGED <<log, groupOffset, pc, offsets, round, control, history,
                 restarts>>

-----------------------------------------------------------------------------
(* OffsetManager and heartbeat, as seen by the code that awaits them.       *)

PositionRefetched(p) == committed[p]
Position(p) == IF resolved[p] = Unknown THEN committed[p] ELSE resolved[p]

NothingToCommit == resolved = committed

\* The broker's group offsets after it has taken the uncommitted ones.
Flushed ==
  [p \in Partitions |->
     IF resolved[p] = committed[p] THEN groupOffset[p] ELSE resolved[p]]

CommitSucceeds ==
  /\ member # "fenced" \/ NothingToCommit
  /\ groupOffset' = Flushed
  /\ committed' = resolved
  /\ UNCHANGED faults

CommitForgotten == UNCHANGED <<groupOffset, committed, faults>>

\* The commit is refused, or the network fails before or after it took effect.
CommitFails ==
  /\ ~NothingToCommit
  /\ \/ /\ member = "fenced"
        /\ errs' = errs \cup {"rejoin"}
        /\ UNCHANGED <<groupOffset, faults>>
     \/ /\ member # "fenced"
        /\ Fault
        /\ errs' = errs \cup {"retry"}
        /\ groupOffset' \in {groupOffset, Flushed}
  /\ UNCHANGED committed

\* countResolvedOffsets: what is resolved beyond the local committed offsets.
CountResolved ==
  MapThenFoldSet(+, 0, LAMBDA p : resolved[p] - committed[p],
                 LAMBDA S : CHOOSE p \in S : TRUE, Partitions)

ThresholdPassed == CountResolved > Threshold
ThresholdReached == CountResolved >= Threshold

\* Rebalance errors and UNKNOWN_MEMBER_ID make the runner rejoin; any other error
\* makes it try again, or crash.  Runner.heartbeat commits what is resolved when the group
\* is rebalancing; an error of that commit takes the place of the first.
BeatFails ==
  \/ /\ member = "valid"
     /\ Fault
     /\ errs' = errs \cup {"retry"}
     /\ UNCHANGED <<groupOffset, committed>>
  \/ /\ member = "fenced"
     /\ errs' = errs \cup {"rejoin"}
     /\ UNCHANGED <<groupOffset, committed, faults>>
  \/ /\ member = "rebalancing"
     /\ \/ CommitSucceeds /\ errs' = errs \cup {"rejoin"}
        \/ CommitFails

-----------------------------------------------------------------------------
(* Joining and fetching.                                                    *)

\* joinAndSync: a new member generation with a new, empty OffsetManager.
Join ==
  /\ pc = "join"
  /\ member' = "valid"
  /\ committed' = NoOffset
  /\ resolved' = NoOffset
  /\ before' = [p \in Partitions |-> before[p] \cup handed[p]]
  /\ handed' = Nothing
  /\ errs' = {}
  /\ pc' = "fetch"
  /\ UNCHANGED <<log, groupOffset, batch, todo, hand, control, older, dropped,
                 skipped, counters>>

\* joinAndSync fails: the runner's retrier tries again, or the consumer crashes,
\* and is restarted or not.
JoinFails ==
  /\ pc = "join"
  /\ Fault
  /\ pc' \in {"join", "dead"}
  /\ UNCHANGED <<broker, offsets, round, control, history, restarts>>

StartAtLastRead(p) == groupOffset[p] - 1
StartAtBeginning(p) == IF groupOffset[p] = Unknown THEN 0 ELSE groupOffset[p]
StartOffset(p) == IF groupOffset[p] = Unknown THEN log[p] ELSE groupOffset[p]

\* resolveOffsets, before the first fetch: fromBeginning is false, so without a
\* committed offset the consumer starts at the end of the log.
ResolveOffsets ==
  /\ pc = "fetch"
  /\ \E p \in Partitions : committed[p] = Unknown
  /\ committed' = [p \in Partitions |->
       IF committed[p] = Unknown THEN StartOffset(p) ELSE committed[p]]
  /\ skipped' = [p \in Partitions |->
       IF committed[p] = Unknown /\ groupOffset[p] = Unknown
       THEN skipped[p] \cup ((0 .. log[p] - 1) \ Accounted(p))
       ELSE skipped[p]]
  /\ UNCHANGED <<broker, pc, resolved, round, control, handed, before, older,
                 dropped, counters>>

\* A fetch returns a (possibly empty) batch of every partition, starting at its
\* next offset, and not only empty ones when there is something to read.
Fetch ==
  /\ pc = "fetch"
  /\ ~stopping
  /\ \A p \in Partitions : committed[p] # Unknown
  /\ \E end \in [Partitions -> UNION {0 .. log[p] : p \in Partitions}] :
       /\ \A p \in Partitions : Position(p) <= end[p] /\ end[p] <= log[p]
       /\ (\E p \in Partitions : Position(p) < log[p]) =>
            \E p \in Partitions : Position(p) < end[p]
       /\ batch' = [p \in Partitions |-> [from |-> Position(p), to |-> end[p]]]
  /\ resolved' = [p \in Partitions |-> Position(p)]
  /\ todo' = Partitions
  /\ pc' = "work"
  /\ UNCHANGED <<broker, committed, hand, errs, control, history, counters>>

\* Stale metadata, or an error of the fetch that outlives the retries or has none.
FetchFails ==
  /\ pc = "fetch"
  /\ ~stopping
  /\ Fault
  /\ pc' \in {"join", "dead"}
  /\ UNCHANGED <<broker, offsets, round, control, history, restarts>>

-----------------------------------------------------------------------------
(* The worker: handleBatch, processEachBatch and #earlyCommit.              *)

HandleEmpty(p) ==
  /\ pc = "work"
  /\ ~stopping
  /\ p \in todo
  /\ Offsets(batch[p]) = {}
  /\ todo' = todo \ {p}
  /\ \/ UNCHANGED <<groupOffset, committed, errs, faults>>
     \/ BeatFails
  /\ UNCHANGED <<log, member, pc, resolved, batch, hand, control, history,
                 restarts>>

\* handleBatch returns at once when the runner no longer runs.
SkipBatch(p) ==
  /\ pc = "work"
  /\ stopping
  /\ p \in todo
  /\ todo' = todo \ {p}
  /\ UNCHANGED <<broker, pc, offsets, batch, hand, errs, control, history,
                 counters>>

ResolveOneMore(p) == resolved' = [resolved EXCEPT ![p] = batch[p].to + 1]
ResolveNone(p) == UNCHANGED resolved
ResolveLast(p) == resolved' = [resolved EXCEPT ![p] = batch[p].to]

\* #earlyCommit or #eachMessageEarlyCommit begins: resolveOffset(lastOffset).
TakeBatch(p) ==
  /\ pc = "work"
  /\ ~stopping
  /\ p \in todo
  /\ Offsets(batch[p]) # {}
  /\ todo' = todo \ {p}
  /\ cur' = p /\ next' = batch[p].from /\ tries' = 0
  /\ ResolveLast(p)
  /\ pc' = "beat"
  /\ UNCHANGED <<broker, committed, batch, errs, control, history, counters>>

\* await heartbeat(): not due, accepted, or refused.
Beat ==
  /\ pc = "beat"
  /\ \/ pc' = "commit" /\ UNCHANGED <<groupOffset, committed, errs, faults>>
     \/ pc' = "abort" /\ BeatFails
  /\ UNCHANGED <<log, member, resolved, batch, todo, hand, control, history,
                 restarts>>

\* await commitOffsetsIfNecessary(): due by the interval or the threshold.
CommitIfNecessary ==
  /\ pc = "commit"
  /\ \/ /\ ~ThresholdReached
        /\ pc' = "consume"
        /\ UNCHANGED <<groupOffset, committed, errs, faults>>
     \/ pc' = "consume" /\ CommitSucceeds /\ UNCHANGED errs
     \/ pc' = "abort" /\ CommitFails
  /\ UNCHANGED <<log, member, resolved, batch, todo, hand, control, history,
                 restarts>>

HandOver(offs, n) ==
  /\ handed' = [handed EXCEPT ![cur] = @ \cup offs]
  /\ next' = n
  /\ tries' = 0
  /\ pc' = IF n = batch[cur].to THEN "autocommit" ELSE "consume"

\* #earlyCommit: await consumeMethod(batch.messages); what it throws is logged
\* and forgotten.
ConsumeBatch ==
  /\ consumeType = "PRE_COMMIT_BATCH"
  /\ HandOver(InHand(cur), batch[cur].to)

\* #eachMessageEarlyCommit: await consumeMethod(message), which is repeated at
\* once when it fails.
ConsumeFails ==
  /\ consumeType # "PRE_COMMIT_BATCH"
  /\ tries < RetryCount
  /\ tries' = tries + 1
  /\ UNCHANGED <<next, handed, pc>>

LeaveLoop ==
  /\ consumeType # "PRE_COMMIT_BATCH"
  /\ HandOver({next}, batch[cur].to)

\* consumeMethod succeeds, or the last retry fails and the loop goes on.
ConsumeMessage ==
  /\ consumeType # "PRE_COMMIT_BATCH"
  /\ HandOver({next}, next + 1)

Consume ==
  /\ pc = "consume"
  /\ ConsumeBatch \/ ConsumeFails \/ ConsumeMessage
  /\ UNCHANGED <<broker, offsets, batch, todo, cur, errs, control, before,
                 older, dropped, skipped, counters>>

\* The error of the prelude reaches processEachBatch, which commits everything
\* resolved (the failed batch included) and throws on.
Abort ==
  /\ pc = "abort"
  /\ \/ CommitSucceeds /\ UNCHANGED errs
     \/ CommitFails
  /\ dropped' = [dropped EXCEPT ![cur] = @ \cup InHand(cur)]
  /\ pc' = "work"
  /\ UNCHANGED <<log, member, resolved, batch, todo, hand, control, handed,
                 before, older, skipped, restarts>>

\* handleBatch: autoCommitOffsets() and heartbeat() after the batch.
CommitAfterwards == CommitSucceeds
AutoCommit ==
  /\ pc = "autocommit"
  /\ \/ pc' = "lastbeat" /\ CommitAfterwards /\ UNCHANGED errs
     \/ pc' = "work" /\ CommitFails
  /\ UNCHANGED <<log, member, resolved, batch, todo, hand, control, history,
                 restarts>>

LastBeat ==
  /\ pc = "lastbeat"
  /\ pc' = "work"
  /\ \/ UNCHANGED <<groupOffset, committed, errs, faults>>
     \/ BeatFails
  /\ UNCHANGED <<log, member, resolved, batch, todo, hand, control, history,
                 restarts>>

\* All batches of the round have settled.  The first rejection decides: rejoin;
\* or fetch again with the same offsets; or crash and leave the group, which is
\* followed by a restart that joins anew when retries were exhausted, and by
\* nothing at all when the error was not retriable.
AfterRound ==
  IF stopping THEN {"stopped"}
  ELSE IF errs = {} THEN {"fetch"}
  ELSE {"join"} \cup (IF "retry" \in errs THEN {"fetch", "dead"} ELSE {})

RoundEnd ==
  /\ \/ pc = "work" /\ todo = {}
     \/ pc = "fetch" /\ stopping
  /\ pc' \in AfterRound
  /\ errs' = IF stopping THEN errs ELSE {}
  /\ UNCHANGED <<broker, offsets, batch, todo, hand, control, history, counters>>

-----------------------------------------------------------------------------
(* The process.                                                             *)

\* runner.stop() of a running consumer (a stop that meets a consumer which is
\* still joining is the business of module ThChecker).
Stop ==
  /\ pc \notin {"join", "stopped", "dead"}
  /\ ~stopping
  /\ stopping' = TRUE
  /\ UNCHANGED <<broker, pc, offsets, round, consumeType, history, counters>>

FreshGroup == NoOffset

\* The process dies and starts again, under a group of its own: the group id
\* ends in an instance id drawn at every start.
Restart ==
  /\ restarts < MaxRestarts
  /\ restarts' = restarts + 1
  /\ groupOffset' = FreshGroup
  /\ member' = "valid"
  /\ pc' = "join"
  /\ committed' = NoOffset
  /\ resolved' = NoOffset
  /\ todo' = {}
  /\ errs' = {}
  /\ stopping' = FALSE
  /\ older' = [p \in Partitions |-> Handed(p)]
  /\ before' = Nothing
  /\ handed' = Nothing
  /\ UNCHANGED <<log, batch, hand, consumeType, dropped, skipped, faults>>

Worker ==
  \/ \E p \in Partitions : HandleEmpty(p) \/ SkipBatch(p) \/ TakeBatch(p)
  \/ Beat \/ CommitIfNecessary \/ Consume \/ Abort \/ AutoCommit \/ LastBeat

Consumer ==
  \/ Join \/ JoinFails \/ ResolveOffsets \/ Fetch \/ FetchFails
  \/ Worker \/ RoundEnd

Next ==
  \/ \E p \in Partitions : Append(p)
  \/ LoseMembership
  \/ Consumer
  \/ Stop
  \/ Restart

Spec == Init /\ [][Next]_vars

\* The event loop keeps running the consumer, and the broker answers.
FairSpec == Spec /\ WF_vars(Consumer)

-----------------------------------------------------------------------------
(* Properties.                                                              *)

Offset == Nat \cup {Unknown}
Batch == [from : Nat, to : Nat]

\* Every variable keeps its type.
TypeOK ==
  /\ log \in [Partitions -> Nat]
  /\ groupOffset \in [Partitions -> Offset]
  /\ member \in {"valid", "rebalancing", "fenced"}
  /\ pc \in {"join", "fetch", "work", "beat", "commit", "consume", "abort",
             "autocommit", "lastbeat", "stopped", "dead"}
  /\ committed \in [Partitions -> Offset]
  /\ resolved \in [Partitions -> Offset]
  /\ batch \in [Partitions -> Batch]
  /\ todo \subseteq Partitions
  /\ cur \in Partitions
  /\ next \in Nat
  /\ tries \in 0 .. RetryCount
  /\ errs \subseteq {"retry", "rejoin"}
  /\ stopping \in BOOLEAN
  /\ consumeType \in ConsumeTypes
  /\ handed \in [Partitions -> SUBSET Nat]
  /\ before \in [Partitions -> SUBSET Nat]
  /\ older \in [Partitions -> SUBSET Nat]
  /\ dropped \in [Partitions -> SUBSET Nat]
  /\ skipped \in [Partitions -> SUBSET Nat]
  /\ faults \in Nat /\ restarts \in Nat

\* Between two joins consumeMethod is not given a message again once it is done
\* with it (retries of the same call apart), whatever commits and heartbeats fail,
\* however often the fetch loop is retried and in whichever consume type.
SessionAtMostOnce ==
  pc = "consume" => InHand(cur) \cap handed[cur] = {}

\* A message is never given to consumeMethod again by a later process.
ProcessAtMostOnce ==
  pc = "consume" => InHand(cur) \cap older[cur] = {}

\* The consumer never reads again what its group has committed, not even after
\* a commit whose acknowledgement was lost: redelivery after a rejoin is
\* confined to uncommitted messages.
NoRedeliveryOfCommitted ==
  \A p \in Partitions :
    committed[p] # Unknown => groupOffset[p] <= Position(p)

\* No message is lost without a trace: everything below the consumer's position
\* and everything committed was given to consumeMethod, is about to be, belongs
\* to a batch that was reported as failed, or lay before a start at the end.
NoSilentLoss ==
  \A p \in Partitions :
    /\ 0 .. Position(p) - 1 \subseteq Accounted(p)
    /\ 0 .. groupOffset[p] - 1 \subseteq Accounted(p)

\* A batch of at least Threshold messages is committed before it is processed.
LargeBatchPreCommitted ==
  pc = "consume" /\ Cardinality(Offsets(batch[cur])) >= Threshold =>
    groupOffset[cur] >= batch[cur].to

\* A graceful stop after an undisturbed run leaves nothing processed and
\* uncommitted.
StopLeavesNothingUncommitted ==
  pc = "stopped" /\ faults = 0 =>
    \A p \in Partitions : \A o \in handed[p] : o < groupOffset[p]

\* The group's offset never moves backwards while the group lives.
CommittedNeverRegresses ==
  [][\A p \in Partitions :
       groupOffset'[p] >= groupOffset[p] \/ restarts' # restarts]_vars

\* Every message of the log is eventually given to consumeMethod, reported as
\* failed or skipped at a start, through every retry, rejoin and crash that
\* kafkajs restarts, unless the consumer is stopped first or crashes with an
\* error that is not retriable, after which nobody starts it again.
EventuallyAccounted ==
  \A p \in Partitions : \A o \in 0 .. MaxLog[p] - 1 :
    o < log[p] ~> (o \in Accounted(p) \/ stopping \/ pc = "dead")

\* The consumer implements early acknowledgement (module Delivery): the position
\* is known once resolveOffsets has run, and moves when a batch is taken.
SessionPosition ==
  [p \in Partitions |-> IF committed[p] = Unknown THEN Unknown ELSE Position(p)]
Promise == INSTANCE Delivery WITH
  durable <- groupOffset,
  position <- SessionPosition,
  inhand <- [p \in Partitions |-> InHand(p)]
EarlyAcknowledgement == Promise!Spec

\* consumer.js:95: a Kafka error of the prelude is thrown to kafkajs and retried.
\* So no message is committed that consumeMethod has not been given.
FailedBatchIsRetried ==
  \A p \in Partitions :
    0 .. groupOffset[p] - 1 \subseteq Handed(p) \cup skipped[p] \cup InHand(p)
=============================================================================
