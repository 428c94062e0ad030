------------------------- MODULE BatchConsumerProofs -------------------------
(***************************************************************************)
(* Proofs about BatchConsumer for every number of partitions, messages,    *)
(* faults and restarts: redelivery and loss are confined to what the       *)
(* comments of the properties say; large batches are committed first; and  *)
(* BatchConsumer implements Delivery.                                      *)
(*                                                                         *)
(* The strengthening IInv relates the local offsets, the broker's offsets, *)
(* the fetched batches and the history.  Most actions only move the worker *)
(* on and commit at most what is resolved; QuietStep says so once.         *)
(***************************************************************************)
EXTENDS BatchConsumer, FiniteSetTheorems, WellFoundedInduction, TLAPS

Holding == {"beat", "commit", "consume", "abort", "autocommit", "lastbeat"}
HandPcs == {"beat", "commit", "consume", "abort"}
Working == Holding \cup {"work"}

\* Offsets are known while the worker works.
Known ==
  /\ pc \in Working => \A p \in Partitions : resolved[p] # Unknown
  /\ \A p \in Partitions : resolved[p] # Unknown => committed[p] # Unknown

\* Nothing is beyond the end of the log.
Bounded ==
  \A p \in Partitions :
    /\ groupOffset[p] <= log[p]
    /\ committed[p] <= log[p]
    /\ resolved[p] <= log[p]
    /\ batch[p].to <= log[p]
    /\ \A o \in before[p] \cup older[p] : o < log[p]

\* What the worker has not taken yet starts at the position; what it has taken
\* ends there.
Fresh ==
  /\ pc \in Working => \A p \in todo :
       batch[p].from = resolved[p] /\ batch[p].from <= batch[p].to
  /\ pc \in Holding =>
       /\ cur \notin todo
       /\ batch[cur].to = resolved[cur]
  /\ pc \in HandPcs => next < batch[cur].to

\* What was handed over in this session lies below the position, and below the
\* next message in hand.
HandedBelow ==
  \A p \in Partitions : \A o \in handed[p] :
    /\ committed[p] # Unknown
    /\ o < Position(p)
    /\ pc \in HandPcs /\ p = cur => o < next

\* What earlier processes handled lies below wherever this one starts.
OlderBelow ==
  \A p \in Partitions : \A o \in older[p] :
    /\ groupOffset[p] # Unknown => o < groupOffset[p]
    /\ committed[p] # Unknown => o < Position(p)
    /\ pc \in HandPcs /\ p = cur => o < next

Safe == Known /\ Bounded /\ Fresh /\ NoRedeliveryOfCommitted /\ HandedBelow /\ OlderBelow
IInv == TypeOK /\ Safe /\ NoSilentLoss

QuietStep ==
  /\ UNCHANGED <<log, resolved, batch, cur, next, handed, before, older>>
  /\ todo' \subseteq todo
  /\ pc' \in Working => pc \in Working
  /\ pc' \in Holding => pc \in Holding
  /\ pc' \in HandPcs => pc \in HandPcs
  /\ \/ UNCHANGED <<groupOffset, committed>>
     \/ /\ pc \in Working
        /\ groupOffset' \in {groupOffset, Flushed}
        /\ committed' \in {committed, resolved}
  /\ \A p \in Partitions : Accounted(p) \subseteq Accounted(p)'

-----------------------------------------------------------------------------
\* A commit that is tried, whatever comes of it, leaves the broker with its old
\* offsets or the resolved ones, and the consumer likewise.
LEMMA CommitEffect ==
  ASSUME CommitSucceeds \/ CommitFails \/ BeatFails
  PROVE  /\ groupOffset' \in {groupOffset, Flushed}
         /\ committed' \in {committed, resolved}
BY DEF CommitSucceeds, CommitFails, BeatFails

\* The actions that take, hand over, join or fetch nothing are quiet.
LEMMA QuietActions ==
  ASSUME TypeOK,
         \/ LoseMembership \/ JoinFails \/ FetchFails \/ RoundEnd \/ Stop
         \/ \E p \in Partitions : HandleEmpty(p) \/ SkipBatch(p)
         \/ Beat \/ CommitIfNecessary \/ Abort \/ AutoCommit \/ LastBeat
  PROVE  QuietStep
<1> USE DEF QuietStep, Working, Holding, HandPcs, Accounted, Handed, InHand,
            round, offsets, history, broker, counters, hand, control
<1>1. CASE LoseMembership
  BY <1>1 DEF LoseMembership
<1>2. CASE JoinFails \/ FetchFails
  BY <1>2 DEF JoinFails, FetchFails
<1>3. CASE RoundEnd
  BY <1>3 DEF RoundEnd, AfterRound
<1>4. CASE Stop
  BY <1>4 DEF Stop
<1>5. ASSUME NEW p \in Partitions, HandleEmpty(p) PROVE QuietStep
  BY <1>5, CommitEffect DEF HandleEmpty
<1>6. ASSUME NEW p \in Partitions, SkipBatch(p) PROVE QuietStep
  BY <1>6 DEF SkipBatch
<1>7. CASE Beat
  BY <1>7, CommitEffect DEF Beat
<1>8. CASE CommitIfNecessary
  BY <1>8, CommitEffect DEF CommitIfNecessary
<1>9. CASE Abort
  <2>1. /\ UNCHANGED <<log, resolved, batch, todo, cur, next, handed, before, older,
                       skipped>>
        /\ pc = "abort" /\ pc' = "work"
        /\ groupOffset' \in {groupOffset, Flushed}
        /\ committed' \in {committed, resolved}
    BY <1>9, CommitEffect DEF Abort
  <2>2. ASSUME NEW p \in Partitions PROVE Accounted(p) \subseteq Accounted(p)'
    BY <1>9, <2>1 DEF Abort, TypeOK
  <2> QED BY <2>1, <2>2
<1>10. CASE AutoCommit
  BY <1>10, CommitEffect DEF AutoCommit, CommitAfterwards
<1>11. CASE LastBeat
  BY <1>11, CommitEffect DEF LastBeat
<1> QED BY <1>1, <1>2, <1>3, <1>4, <1>5, <1>6, <1>7, <1>8, <1>9, <1>10, <1>11

-----------------------------------------------------------------------------
\* The initial states are well typed and satisfy the strengthening.
LEMMA InitIInv == Init => IInv
<1> SUFFICES ASSUME Init PROVE IInv
  OBVIOUS
<1> USE DEF Init, NoOffset, Nothing, EmptyBatch, Unknown, Working, Holding, HandPcs
<1>1. TypeOK
  <2>1. next \in Nat /\ tries \in 0 .. RetryCount /\ faults \in Nat /\ restarts \in Nat
    BY BatchAssumption DEF BatchAssumption
  <2>2. /\ log \in [Partitions -> Nat] /\ batch \in [Partitions -> Batch]
        /\ groupOffset \in [Partitions -> Offset]
        /\ committed \in [Partitions -> Offset]
        /\ resolved \in [Partitions -> Offset]
    BY DEF Offset, Batch
  <2> QED BY <2>1, <2>2 DEF TypeOK
<1>2. Known /\ Bounded /\ Fresh
  BY DEF Known, Bounded, Fresh
<1>3. HandedBelow /\ OlderBelow /\ NoRedeliveryOfCommitted
  BY DEF HandedBelow, OlderBelow, NoRedeliveryOfCommitted
<1>4. NoSilentLoss
  <2> SUFFICES ASSUME NEW p \in Partitions
               PROVE  /\ 0 .. Position(p) - 1 \subseteq Accounted(p)
                      /\ 0 .. groupOffset[p] - 1 \subseteq Accounted(p)
    BY DEF NoSilentLoss
  <2>1. Position(p) = -1 /\ groupOffset[p] = -1
    BY DEF Position
  <2> QED BY <2>1
<1> QED BY <1>1, <1>2, <1>3, <1>4 DEF IInv, Safe

\* A failed commit or heartbeat counts a fault at most and records its error.
LEMMA FaultEffect ==
  ASSUME CommitFails \/ BeatFails
  PROVE  /\ faults' = faults \/ faults' = faults + 1
         /\ errs' = errs \cup {"rejoin"} \/ errs' = errs \cup {"retry"}
<1>1. CASE CommitFails
  BY <1>1 DEF CommitFails, Fault
<1>2. CASE BeatFails
  BY <1>1, <1>2 DEF BeatFails, Fault, CommitSucceeds
<1> QED BY <1>1, <1>2

\* Every step keeps the variables' types.
LEMMA TypeStep ==
  ASSUME TypeOK, [Next]_vars
  PROVE  TypeOK'
<1> USE DEF TypeOK, Offset, Batch, broker, offsets, round, history, counters, hand, control
<1> USE BatchAssumption DEF BatchAssumption
<1>0. CASE UNCHANGED vars
  BY <1>0 DEF vars
<1>c. ASSUME CommitSucceeds \/ CommitFails \/ BeatFails
      PROVE  /\ groupOffset' \in [Partitions -> Offset]
             /\ committed' \in [Partitions -> Offset]
  BY <1>c, CommitEffect DEF Flushed
<1>f. ASSUME CommitFails \/ BeatFails
      PROVE  faults' \in Nat /\ errs' \subseteq {"retry", "rejoin"}
  <2>1. faults \in Nat /\ errs \subseteq {"retry", "rejoin"}
    OBVIOUS
  <2>2. faults' \in Nat
    BY ONLY <1>f, <2>1, FaultEffect
  <2>3. errs' \subseteq {"retry", "rejoin"}
    BY ONLY <1>f, <2>1, FaultEffect
  <2> QED BY <2>2, <2>3
<1>1. ASSUME NEW p \in Partitions, Append(p) PROVE TypeOK'
  BY <1>1 DEF Append
<1>2. CASE LoseMembership
  BY <1>2 DEF LoseMembership, Fault
<1>3. CASE Join
  BY <1>3 DEF Join, NoOffset, Nothing, Unknown
<1>4. CASE ResolveOffsets
  <2>1. committed' \in [Partitions -> Offset]
    BY <1>4 DEF ResolveOffsets, StartOffset, Unknown
  <2>2. skipped' \in [Partitions -> SUBSET Nat]
    BY <1>4 DEF ResolveOffsets
  <2> QED BY <1>4, <2>1, <2>2 DEF ResolveOffsets
<1>5. CASE Fetch
  <2>1. \A p \in Partitions : Position(p) \in Nat
    BY <1>5 DEF Fetch, Position, Unknown
  <2>2. resolved' \in [Partitions -> Offset]
    BY <1>5, <2>1 DEF Fetch
  <2>3. batch' \in [Partitions -> Batch]
    <3>1. PICK end \in [Partitions -> UNION {0 .. log[p] : p \in Partitions}] :
            batch' = [p \in Partitions |-> [from |-> Position(p), to |-> end[p]]]
      BY <1>5 DEF Fetch
    <3> QED BY <2>1, <3>1
  <2> QED BY <1>5, <2>2, <2>3 DEF Fetch
<1>6. CASE JoinFails \/ FetchFails
  <2>1. /\ pc' \in {"join", "dead"} /\ faults' \in Nat
        /\ UNCHANGED <<broker, offsets, round, control, history, restarts>>
    BY <1>6 DEF JoinFails, FetchFails, Fault
  <2> QED BY <2>1
<1>7. ASSUME NEW p \in Partitions, HandleEmpty(p) PROVE TypeOK'
  BY <1>7, <1>c, <1>f DEF HandleEmpty
<1>8. ASSUME NEW p \in Partitions, SkipBatch(p) PROVE TypeOK'
  BY <1>8 DEF SkipBatch
<1>9. ASSUME NEW p \in Partitions, TakeBatch(p) PROVE TypeOK'
  BY <1>9 DEF TakeBatch, ResolveLast
<1>10. CASE Beat
  BY <1>10, <1>c, <1>f DEF Beat
<1>11. CASE CommitIfNecessary
  BY <1>11, <1>c, <1>f DEF CommitIfNecessary, CommitSucceeds
<1>12. CASE Consume
  <2>1. /\ next' \in Nat /\ tries' \in 0 .. RetryCount
        /\ handed' \in [Partitions -> SUBSET Nat]
        /\ pc' \in {"autocommit", "consume"}
    <3>1. CASE ConsumeBatch
      BY <1>12, <3>1 DEF ConsumeBatch, HandOver, InHand
    <3>2. CASE ConsumeFails
      BY <1>12, <3>2 DEF Consume, ConsumeFails
    <3>3. CASE ConsumeMessage
      BY <1>12, <3>3 DEF ConsumeMessage, HandOver
    <3> QED BY <1>12, <3>1, <3>2, <3>3 DEF Consume
  <2> QED BY <1>12, <2>1 DEF Consume
<1>13. CASE Abort
  <2>1. dropped' \in [Partitions -> SUBSET Nat]
    BY <1>13 DEF Abort, InHand
  <2> QED BY <1>13, <1>c, <1>f, <2>1 DEF Abort, CommitSucceeds
<1>14. CASE AutoCommit
  BY <1>14, <1>c, <1>f DEF AutoCommit, CommitAfterwards, CommitSucceeds
<1>15. CASE LastBeat
  BY <1>15, <1>c, <1>f DEF LastBeat
<1>16. CASE RoundEnd
  BY <1>16 DEF RoundEnd, AfterRound
<1>17. CASE Stop
  BY <1>17 DEF Stop
<1>18. CASE Restart
  <2>1. older' \in [Partitions -> SUBSET Nat]
    BY <1>18 DEF Restart, Handed
  <2>2. /\ groupOffset' \in [Partitions -> Offset]
        /\ committed' \in [Partitions -> Offset]
        /\ resolved' \in [Partitions -> Offset]
        /\ before' \in [Partitions -> SUBSET Nat]
        /\ handed' \in [Partitions -> SUBSET Nat]
    BY <1>18 DEF Restart, FreshGroup, NoOffset, Nothing
  <2>3. /\ log' = log /\ batch' = batch
        /\ cur' = cur /\ next' = next /\ tries' = tries /\ consumeType' = consumeType
        /\ dropped' = dropped /\ skipped' = skipped /\ faults' = faults
    BY <1>18 DEF Restart
  <2>4. /\ member' \in {"valid", "rebalancing", "fenced"}
        /\ pc' = "join"
        /\ todo' \subseteq Partitions
        /\ errs' \subseteq {"retry", "rejoin"}
        /\ stopping' \in BOOLEAN
    BY <1>18 DEF Restart
  <2>5. restarts' \in Nat
    BY <1>18 DEF Restart
  <2> QED BY <2>1, <2>2, <2>3, <2>4, <2>5
<1> QED
  BY <1>0, <1>1, <1>2, <1>3, <1>4, <1>5, <1>6, <1>7, <1>8, <1>9, <1>10, <1>11,
     <1>12, <1>13, <1>14, <1>15, <1>16, <1>17, <1>18 DEF Next, Consumer, Worker

-----------------------------------------------------------------------------
\* A member of a range lies below whatever bounds the range.
LEMMA RangeBound ==
  ASSUME NEW first \in Nat, NEW past \in Nat, NEW bound \in Nat, past <= bound,
         NEW o \in first .. past - 1
  PROVE  o \in Nat /\ o < past /\ o < bound
OBVIOUS

\* In either consume type consumeMethod gets the next messages of the batch, up to
\* wherever `next` moves; or the same message is tried again.
LEMMA ConsumeEffect ==
  ASSUME TypeOK, Fresh, Consume
  PROVE  /\ UNCHANGED <<broker, offsets, batch, todo, cur, before, older, dropped,
                         skipped>>
         /\ pc = "consume" /\ next < batch[cur].to
         /\ \/ UNCHANGED <<pc, next, handed>>
            \/ /\ next' \in next + 1 .. batch[cur].to
               /\ handed' = [handed EXCEPT ![cur] = @ \cup (next .. next' - 1)]
               /\ pc' = IF next' = batch[cur].to THEN "autocommit" ELSE "consume"
<1>1. /\ UNCHANGED <<broker, offsets, batch, todo, cur, before, older, dropped, skipped>>
      /\ pc = "consume"
  BY DEF Consume
<1>2. next < batch[cur].to /\ next \in Nat /\ batch[cur].to \in Nat
  BY <1>1 DEF Fresh, HandPcs, TypeOK, Batch
<1>3. CASE ConsumeBatch
  BY <1>1, <1>2, <1>3 DEF ConsumeBatch, HandOver, InHand
<1>4. CASE ConsumeFails
  BY <1>1, <1>2, <1>4 DEF ConsumeFails
<1>5. CASE ConsumeMessage
  <2>1. next' = next + 1 /\ next .. next' - 1 = {next}
    BY <1>2, <1>5 DEF ConsumeMessage, HandOver
  <2> QED BY <1>1, <1>2, <1>5, <2>1 DEF ConsumeMessage, HandOver
<1> QED BY <1>1, <1>3, <1>4, <1>5 DEF Consume

\* A commit moves the broker's offset of a partition at most to its position.
LEMMA FlushedOffset ==
  ASSUME TypeOK, Known, pc \in Working, groupOffset' \in {groupOffset, Flushed},
         NEW p \in Partitions
  PROVE  /\ groupOffset'[p] \in {groupOffset[p], resolved[p]}
         /\ Position(p) = resolved[p]
         /\ resolved[p] # Unknown
BY DEF Flushed, Known, Position

\* Quiet steps preserve the safety strengthening.
LEMMA SafeQuiet ==
  ASSUME TypeOK, Safe, QuietStep
  PROVE  Safe'
<1> USE DEF Safe, QuietStep, Working, Holding, HandPcs
<1>0. \A p \in Partitions :
        /\ groupOffset[p] \in Int /\ committed[p] \in Int /\ resolved[p] \in Int
        /\ log[p] \in Int
  BY DEF TypeOK, Offset, Unknown
<1>1. ASSUME NEW p \in Partitions
      PROVE  /\ groupOffset'[p] \in {groupOffset[p], resolved[p]}
             /\ committed'[p] \in {committed[p], resolved[p]}
             /\ groupOffset'[p] # groupOffset[p] \/ committed'[p] # committed[p] =>
                  resolved[p] # Unknown
  <2>1. CASE UNCHANGED <<groupOffset, committed>>
    BY <2>1
  <2>2. CASE /\ pc \in Working
             /\ groupOffset' \in {groupOffset, Flushed}
             /\ committed' \in {committed, resolved}
    BY <2>2, FlushedOffset
  <2> QED BY <2>1, <2>2
<1>2. ASSUME NEW p \in Partitions
      PROVE  /\ committed'[p] # Unknown <=> committed[p] # Unknown
             /\ Position(p)' = Position(p)
  BY <1>1 DEF Known, Position
<1>3. Known' /\ Bounded' /\ Fresh'
  BY <1>0, <1>1, <1>2 DEF Known, Bounded, Fresh
<1>4. NoRedeliveryOfCommitted'
  BY <1>0, <1>1, <1>2 DEF NoRedeliveryOfCommitted, Position
<1>5. HandedBelow'
  BY <1>2 DEF HandedBelow
<1>6. OlderBelow'
  <2> SUFFICES ASSUME NEW p \in Partitions, NEW o \in older[p]
               PROVE  /\ groupOffset'[p] # Unknown => o < groupOffset'[p]
                      /\ committed'[p] # Unknown => o < Position(p)'
                      /\ pc' \in HandPcs /\ p = cur => o < next
    BY DEF OlderBelow
  <2>1. committed[p] # Unknown => o < Position(p)
    BY DEF OlderBelow
  <2>2. groupOffset'[p] # groupOffset[p] => o < groupOffset'[p]
    BY <1>1, <2>1 DEF Known, Position
  <2> QED BY <1>2, <2>1, <2>2 DEF OlderBelow
<1> QED BY <1>3, <1>4, <1>5, <1>6

\* The actions that move offsets, take, hand over or begin anew preserve it too.
LEMMA SafeLoud ==
  ASSUME TypeOK, Safe,
         \/ \E p \in Partitions : Append(p) \/ TakeBatch(p)
         \/ Join \/ ResolveOffsets \/ Fetch \/ Consume \/ Restart
  PROVE  Safe'
<1> USE DEF Safe, Working, Holding, HandPcs, broker, offsets, round, history, counters, hand, control
<1>0. \A p \in Partitions :
        /\ groupOffset[p] \in Int /\ committed[p] \in Int /\ resolved[p] \in Int
        /\ log[p] \in Nat
        /\ batch[p].from \in Nat /\ batch[p].to \in Nat
        /\ handed[p] \subseteq Nat /\ before[p] \subseteq Nat /\ older[p] \subseteq Nat
  BY DEF TypeOK, Offset, Batch, Unknown
<1>1. ASSUME NEW q \in Partitions, Append(q) PROVE Safe'
  <2>1. /\ UNCHANGED <<groupOffset, pc, committed, resolved, batch, todo, cur, next,
                       handed, before, older>>
        /\ \A p \in Partitions : log'[p] >= log[p]
    BY <1>0, <1>1 DEF Append, TypeOK
  <2>2. Bounded'
    BY <1>0, <2>1, <1>1 DEF Bounded, Append, TypeOK
  <2>3. Known' /\ Fresh' /\ HandedBelow' /\ OlderBelow' /\ NoRedeliveryOfCommitted'
    BY <2>1 DEF Known, Fresh, HandedBelow, OlderBelow, NoRedeliveryOfCommitted, Position
  <2> QED BY <2>2, <2>3
<1>2. ASSUME NEW q \in Partitions, TakeBatch(q) PROVE Safe'
  <2>1. /\ UNCHANGED <<log, groupOffset, committed, batch, handed, before, older>>
        /\ resolved' = [resolved EXCEPT ![q] = batch[q].to]
        /\ todo' = todo \ {q} /\ cur' = q /\ next' = batch[q].from /\ q \in todo
        /\ pc = "work" /\ pc' = "beat"
    BY <1>2 DEF TakeBatch, ResolveLast
  <2>2. /\ batch[q].from = resolved[q]
        /\ batch[q].from < batch[q].to
    BY <1>0, <1>2, <2>1 DEF TakeBatch, Offsets, Fresh
  <2>3. \A p \in Partitions :
          /\ resolved[p] # Unknown /\ committed[p] # Unknown
          /\ Position(p) = resolved[p]
          /\ resolved'[p] = IF p = q THEN batch[q].to ELSE resolved[p]
          /\ resolved'[p] # Unknown
          /\ Position(p)' = resolved'[p]
    BY <1>0, <2>1 DEF Known, Position, TypeOK, Unknown
  <2>4. Known' /\ Bounded'
    BY <1>0, <2>1, <2>3 DEF Known, Bounded
  <2>5. Fresh'
    BY <2>1, <2>2, <2>3 DEF Fresh
  <2>6. NoRedeliveryOfCommitted'
    BY <1>0, <2>1, <2>2, <2>3 DEF NoRedeliveryOfCommitted
  <2>7. HandedBelow'
    <3> SUFFICES ASSUME NEW p \in Partitions, NEW o \in handed[p]
                 PROVE  /\ committed[p] # Unknown
                        /\ o < Position(p)'
                        /\ p = q => o < batch[q].from
      BY <2>1 DEF HandedBelow
    <3>1. o < resolved[p] /\ o \in Nat
      BY <1>0, <2>3 DEF HandedBelow
    <3> QED BY <1>0, <2>2, <2>3, <3>1
  <2>8. OlderBelow'
    <3> SUFFICES ASSUME NEW p \in Partitions, NEW o \in older[p]
                 PROVE  /\ groupOffset[p] # Unknown => o < groupOffset[p]
                        /\ o < Position(p)'
                        /\ p = q => o < batch[q].from
      BY <2>1 DEF OlderBelow
    <3>1. o < resolved[p] /\ o \in Nat /\ (groupOffset[p] # Unknown => o < groupOffset[p])
      BY <1>0, <2>3 DEF OlderBelow
    <3> QED BY <1>0, <2>2, <2>3, <3>1
  <2> QED BY <2>4, <2>5, <2>6, <2>7, <2>8
<1>3. CASE Join
  <2>1. /\ UNCHANGED <<log, groupOffset, batch, older>>
        /\ committed' = NoOffset /\ resolved' = NoOffset
        /\ before' = [p \in Partitions |-> before[p] \cup handed[p]]
        /\ handed' = Nothing /\ pc' = "fetch"
    BY <1>3 DEF Join
  <2>2. \A p \in Partitions :
          committed'[p] = -1 /\ resolved'[p] = -1 /\ handed'[p] = {}
    BY <2>1 DEF NoOffset, Nothing, Unknown
  <2>3. \A p \in Partitions : \A o \in handed[p] : o < log[p]
    BY <1>0 DEF HandedBelow, Bounded, Position
  <2>4. Bounded'
    <3> SUFFICES ASSUME NEW p \in Partitions
                 PROVE  /\ committed'[p] <= log[p] /\ resolved'[p] <= log[p]
                        /\ \A o \in before'[p] : o < log[p]
      BY <2>1 DEF Bounded
    <3> QED BY <1>0, <2>1, <2>2, <2>3 DEF Bounded
  <2>5. Known' /\ Fresh' /\ HandedBelow' /\ NoRedeliveryOfCommitted'
    BY <2>1, <2>2 DEF Known, Fresh, HandedBelow, NoRedeliveryOfCommitted, Unknown
  <2>6. OlderBelow'
    BY <2>1, <2>2 DEF OlderBelow, Unknown
  <2> QED BY <2>4, <2>5, <2>6
<1>4. CASE ResolveOffsets
  <2>1. /\ UNCHANGED <<log, groupOffset, pc, resolved, batch, todo, cur, handed,
                       before, older>>
        /\ pc = "fetch"
    BY <1>4 DEF ResolveOffsets
  <2>2. \A p \in Partitions :
          /\ committed'[p] = IF committed[p] = Unknown THEN StartOffset(p) ELSE committed[p]
          /\ committed'[p] # Unknown
          /\ committed'[p] <= log[p]
    BY <1>0, <1>4 DEF ResolveOffsets, StartOffset, Bounded, Unknown
  <2>3. \A p \in Partitions :
          /\ committed[p] # Unknown => Position(p)' = Position(p)
          /\ committed[p] = Unknown => Position(p)' = StartOffset(p)
    BY <2>1, <2>2 DEF Position, Known
  <2>4. Known' /\ Bounded' /\ Fresh'
    BY <2>1, <2>2 DEF Known, Bounded, Fresh
  <2>5. NoRedeliveryOfCommitted'
    BY <1>0, <2>1, <2>2, <2>3
       DEF NoRedeliveryOfCommitted, StartOffset, Bounded
  <2>6. HandedBelow'
    BY <2>1, <2>2, <2>3 DEF HandedBelow
  <2>7. OlderBelow'
    BY <2>1, <2>2, <2>3 DEF OlderBelow, StartOffset, Bounded
  <2> QED BY <2>4, <2>5, <2>6, <2>7
<1>5. CASE Fetch
  <2>1. /\ UNCHANGED <<log, groupOffset, committed, cur, handed, before, older>>
        /\ resolved' = [p \in Partitions |-> Position(p)]
        /\ pc = "fetch" /\ pc' = "work" /\ todo' = Partitions
        /\ \A p \in Partitions : committed[p] # Unknown
    BY <1>5 DEF Fetch
  <2>2. PICK end \in [Partitions -> UNION {0 .. log[p] : p \in Partitions}] :
          /\ \A p \in Partitions : Position(p) <= end[p] /\ end[p] <= log[p]
          /\ batch' = [p \in Partitions |-> [from |-> Position(p), to |-> end[p]]]
    BY <1>5 DEF Fetch
  <2>3. \A p \in Partitions :
          /\ Position(p) \in Int /\ Position(p) # Unknown
          /\ resolved'[p] = Position(p) /\ Position(p)' = Position(p)
          /\ batch'[p].from = Position(p) /\ batch'[p].to = end[p]
          /\ end[p] \in Int
    BY <1>0, <2>1, <2>2 DEF Position
  <2>4. Known' /\ Fresh'
    BY <2>1, <2>2, <2>3 DEF Known, Fresh, TypeOK
  <2>5. Bounded'
    BY <1>0, <2>1, <2>2, <2>3 DEF Bounded
  <2>6. NoRedeliveryOfCommitted' /\ HandedBelow' /\ OlderBelow'
    BY <2>1, <2>3 DEF NoRedeliveryOfCommitted, HandedBelow, OlderBelow
  <2> QED BY <2>4, <2>5, <2>6
<1>6. CASE Consume
  <2>0. /\ UNCHANGED <<log, groupOffset, committed, resolved, batch, todo, cur,
                       before, older>>
        /\ pc = "consume" /\ cur \in Partitions /\ next \in Nat
        /\ next < batch[cur].to
    BY <1>6, ConsumeEffect DEF TypeOK
  <2>1. CASE UNCHANGED <<pc, next, handed>>
    BY <2>0, <2>1 DEF Known, Bounded, Fresh, NoRedeliveryOfCommitted, HandedBelow,
       OlderBelow, Position
  <2>2. CASE /\ next' \in next + 1 .. batch[cur].to
             /\ handed' = [handed EXCEPT ![cur] = @ \cup (next .. next' - 1)]
             /\ pc' = IF next' = batch[cur].to THEN "autocommit" ELSE "consume"
    <3>1. /\ batch[cur].to = resolved[cur]
          /\ \A p \in Partitions : Position(p)' = Position(p)
          /\ \A p \in Partitions : Position(p) = resolved[p] /\ committed[p] # Unknown
      BY <2>0 DEF Fresh, Position, Known
    <3>2. /\ next' \in Nat /\ next < next' /\ next' <= batch[cur].to
          /\ pc' \in HandPcs => next' < batch[cur].to
          /\ pc' \in Holding
      BY <1>0, <2>0, <2>2
    <3>3. HandedBelow'
      <4> SUFFICES ASSUME NEW p \in Partitions, NEW o \in handed'[p]
                   PROVE  o < Position(p) /\ (p = cur => o < next')
        BY <2>0, <3>1 DEF HandedBelow
      <4>1. o \in handed[p] \/ (p = cur /\ o \in next .. next' - 1)
        BY <2>0, <2>2 DEF TypeOK
      <4>2. CASE o \in handed[p]
        BY <1>0, <2>0, <3>1, <3>2, <4>2 DEF HandedBelow, TypeOK
      <4>3. CASE p = cur /\ o \in next .. next' - 1
        <5>1. /\ o \in next .. next' - 1 /\ next \in Nat /\ next' \in Nat
              /\ next' <= batch[cur].to /\ batch[cur].to \in Nat
              /\ p = cur /\ Position(cur) = batch[cur].to
          BY <1>0, <2>0, <3>1, <3>2, <4>3
        <5>2. o \in Nat /\ o < next' /\ o < batch[cur].to
          BY ONLY <5>1, RangeBound
        <5> QED BY ONLY <5>1, <5>2
      <4> QED BY <4>1, <4>2, <4>3
    <3>4. OlderBelow'
      <4> SUFFICES ASSUME NEW p \in Partitions, NEW o \in older[p]
                   PROVE  /\ groupOffset[p] # Unknown => o < groupOffset[p]
                          /\ committed[p] # Unknown => o < Position(p)
                          /\ p = cur => o < next'
        BY <2>0, <3>1 DEF OlderBelow
      <4>1. o \in Nat /\ (p = cur => o < next)
        BY <1>0, <2>0 DEF OlderBelow
      <4> QED BY <2>0, <3>2, <4>1 DEF OlderBelow
    <3>5. Known' /\ Bounded' /\ Fresh' /\ NoRedeliveryOfCommitted'
      BY <2>0, <3>1, <3>2 DEF Known, Bounded, Fresh, NoRedeliveryOfCommitted
    <3> QED BY <3>3, <3>4, <3>5
  <2> QED BY <1>6, <2>1, <2>2, ConsumeEffect
<1>7. CASE Restart
  <2>1. /\ UNCHANGED <<log, batch>>
        /\ groupOffset' = NoOffset /\ committed' = NoOffset /\ resolved' = NoOffset
        /\ before' = Nothing /\ handed' = Nothing
        /\ older' = [p \in Partitions |-> Handed(p)]
        /\ pc' = "join"
    BY <1>7 DEF Restart, FreshGroup
  <2>2. \A p \in Partitions :
          /\ groupOffset'[p] = -1 /\ committed'[p] = -1 /\ resolved'[p] = -1
          /\ before'[p] = {} /\ handed'[p] = {}
    BY <2>1 DEF NoOffset, Nothing, Unknown
  <2>3. \A p \in Partitions : \A o \in Handed(p) : o < log[p]
    BY <1>0 DEF HandedBelow, Bounded, Position, Handed
  <2>4. Bounded'
    <3> SUFFICES ASSUME NEW p \in Partitions
                 PROVE  /\ groupOffset'[p] <= log[p] /\ committed'[p] <= log[p]
                        /\ resolved'[p] <= log[p]
                        /\ \A o \in before'[p] \cup older'[p] : o < log[p]
      BY <2>1 DEF Bounded
    <3> QED BY <1>0, <2>1, <2>2, <2>3
  <2>5. Known' /\ Fresh' /\ HandedBelow' /\ NoRedeliveryOfCommitted' /\ OlderBelow'
    BY <2>1, <2>2
       DEF Known, Fresh, HandedBelow, NoRedeliveryOfCommitted, OlderBelow, Unknown
  <2> QED BY <2>4, <2>5
<1> QED BY <1>1, <1>2, <1>3, <1>4, <1>5, <1>6, <1>7

\* Every step preserves the safety strengthening.
LEMMA SafeStep ==
  ASSUME TypeOK, Safe, [Next]_vars
  PROVE  Safe'
<1>1. CASE UNCHANGED vars
  BY <1>1 DEF vars, broker, offsets, round, history, counters, hand, control, Safe, Known, Bounded,
     Fresh, NoRedeliveryOfCommitted, HandedBelow, OlderBelow, Position
<1>2. CASE Next
  BY <1>2, QuietActions, SafeQuiet, SafeLoud DEF Next, Consumer, Worker
<1> QED BY <1>1, <1>2

-----------------------------------------------------------------------------
(* Loss.                                                                    *)

\* Quiet steps lose nothing.
LEMMA LossQuiet ==
  ASSUME TypeOK, Safe, NoSilentLoss, QuietStep
  PROVE  NoSilentLoss'
<1> SUFFICES ASSUME NEW p \in Partitions
             PROVE  /\ 0 .. Position(p)' - 1 \subseteq Accounted(p)'
                    /\ 0 .. groupOffset'[p] - 1 \subseteq Accounted(p)'
  BY DEF NoSilentLoss
<1>1. Accounted(p) \subseteq Accounted(p)'
  BY DEF QuietStep
<1>2. /\ 0 .. Position(p) - 1 \subseteq Accounted(p)
      /\ 0 .. groupOffset[p] - 1 \subseteq Accounted(p)
  BY DEF NoSilentLoss
<1>3. /\ Position(p)' = Position(p)
      /\ groupOffset'[p] = groupOffset[p] \/ groupOffset'[p] = Position(p)
  <2>1. CASE UNCHANGED <<groupOffset, committed>>
    BY <2>1 DEF QuietStep, Position
  <2>2. CASE /\ pc \in Working
             /\ groupOffset' \in {groupOffset, Flushed}
             /\ committed' \in {committed, resolved}
    BY <2>2, FlushedOffset DEF QuietStep, Position, Safe
  <2> QED BY <2>1, <2>2 DEF QuietStep
<1> QED BY <1>1, <1>2, <1>3

\* Neither do the others: what a batch takes is in hand, then handed over; a
\* start at the end of the log is recorded as skipped.
LEMMA LossLoud ==
  ASSUME TypeOK, Safe, NoSilentLoss,
         \/ \E p \in Partitions : Append(p) \/ TakeBatch(p)
         \/ Join \/ ResolveOffsets \/ Fetch \/ Consume \/ Restart
  PROVE  NoSilentLoss'
<1> USE DEF broker, offsets, round, history, counters, hand, control
<1>0. ASSUME NEW p \in Partitions
      PROVE  /\ groupOffset[p] \in Int /\ committed[p] \in Int /\ resolved[p] \in Int
             /\ log[p] \in Nat /\ Position(p) \in Int
             /\ 0 .. Position(p) - 1 \subseteq Accounted(p)
             /\ 0 .. groupOffset[p] - 1 \subseteq Accounted(p)
  BY DEF TypeOK, Offset, Unknown, NoSilentLoss, Position
<1> SUFFICES ASSUME NEW p \in Partitions
             PROVE  /\ 0 .. Position(p)' - 1 \subseteq Accounted(p)'
                    /\ 0 .. groupOffset'[p] - 1 \subseteq Accounted(p)'
  BY DEF NoSilentLoss
<1>1. ASSUME NEW q \in Partitions, Append(q)
      PROVE  Position(p)' = Position(p) /\ groupOffset' = groupOffset
             /\ Accounted(p)' = Accounted(p)
  BY <1>1 DEF Append, Position, Accounted, Handed, InHand
<1>2. ASSUME NEW q \in Partitions, TakeBatch(q)
      PROVE  /\ 0 .. Position(p)' - 1 \subseteq Accounted(p)'
             /\ 0 .. groupOffset'[p] - 1 \subseteq Accounted(p)'
  <2>1. /\ pc = "work" /\ pc' = "beat" /\ cur' = q /\ q \in todo
        /\ next' = batch[q].from
        /\ UNCHANGED <<groupOffset, batch, history>>
        /\ resolved' = [resolved EXCEPT ![q] = batch[q].to]
        /\ committed' = committed
    BY <1>2 DEF TakeBatch, ResolveLast
  <2>2. /\ Accounted(p) \subseteq Accounted(p)'
        /\ p = q => Offsets(batch[p]) \subseteq Accounted(p)'
    BY <2>1 DEF Accounted, Handed, InHand, Offsets
  <2>3. /\ p # q => Position(p)' = Position(p)
        /\ p = q => Position(p)' = batch[p].to /\ Position(p) = batch[p].from
    BY <2>1 DEF Position, TypeOK, Batch, Unknown, Safe, Known, Fresh, Working, Holding
  <2>4. batch[p].from \in Nat /\ batch[p].to \in Nat
    BY DEF TypeOK, Batch
  <2> QED BY <1>0, <2>1, <2>2, <2>3, <2>4 DEF Offsets
<1>3. CASE Join
  <2>1. /\ Position(p)' = -1
        /\ groupOffset' = groupOffset
        /\ pc = "join" /\ pc' = "fetch"
    BY <1>3 DEF Join, Position, NoOffset, Unknown
  <2>2. Accounted(p)' = Accounted(p)
    BY <1>3 DEF Join, Accounted, Handed, InHand, Nothing, TypeOK
  <2> QED BY <1>0, <2>1, <2>2
<1>4. CASE ResolveOffsets
  <2>1. /\ groupOffset' = groupOffset /\ resolved' = resolved
        /\ committed'[p] = IF committed[p] = Unknown THEN StartOffset(p) ELSE committed[p]
        /\ pc = "fetch" /\ pc' = "fetch"
    BY <1>4 DEF ResolveOffsets
  <2>2. /\ Accounted(p) \subseteq Accounted(p)'
        /\ committed[p] = Unknown /\ groupOffset[p] = Unknown =>
             0 .. log[p] - 1 \subseteq Accounted(p)'
    BY <1>4 DEF ResolveOffsets, Accounted, Handed, InHand
  <2>3. /\ committed[p] # Unknown => Position(p)' = Position(p)
        /\ committed[p] = Unknown => Position(p)' = StartOffset(p)
    BY <2>1 DEF Position, Safe, Known
  <2> QED BY <1>0, <2>1, <2>2, <2>3 DEF StartOffset
<1>5. CASE Fetch
  <2>1. Position(p)' = Position(p) /\ groupOffset' = groupOffset
    BY <1>5 DEF Fetch, Position, TypeOK
  <2>2. Accounted(p)' = Accounted(p)
    BY <1>5 DEF Fetch, Accounted, Handed, InHand
  <2> QED BY <1>0, <2>1, <2>2
<1>6. CASE Consume
  <2>0. Fresh
    BY DEF Safe
  <2>1. Position(p)' = Position(p) /\ groupOffset' = groupOffset
    BY <1>6, <2>0, ConsumeEffect DEF Position
  <2>2. Accounted(p) \subseteq Accounted(p)'
    <3> SUFFICES ASSUME NEW o \in InHand(p), p = cur
                 PROVE  o \in handed'[p] \cup InHand(p)'
      BY <1>6, <2>0, ConsumeEffect DEF Accounted, Handed, InHand, TypeOK
    <3>1. /\ next \in Nat /\ batch[cur].to \in Nat
          /\ o \in next .. batch[cur].to - 1
      BY <2>0, <1>6, ConsumeEffect DEF InHand, TypeOK, Batch
    <3>2. CASE UNCHANGED <<pc, next, handed>>
      BY <1>6, <2>0, <3>2, ConsumeEffect DEF InHand
    <3>3. CASE /\ next' \in next + 1 .. batch[cur].to
               /\ handed' = [handed EXCEPT ![cur] = @ \cup (next .. next' - 1)]
               /\ pc' = IF next' = batch[cur].to THEN "autocommit" ELSE "consume"
      <4>1. CASE o < next'
        <5>1. o \in next .. next' - 1
          BY <3>1, <3>3, <4>1
        <5> QED BY <3>3, <5>1 DEF TypeOK
      <4>2. CASE o >= next'
        BY <1>6, <2>0, <3>1, <3>3, <4>2, ConsumeEffect DEF InHand
      <4> QED BY <3>1, <3>3, <4>1, <4>2
    <3> QED BY <1>6, <2>0, <3>2, <3>3, ConsumeEffect
  <2> QED BY <1>0, <2>1, <2>2
<1>7. CASE Restart
  <2>1. Position(p)' = -1 /\ groupOffset'[p] = -1
    BY <1>7 DEF Restart, FreshGroup, NoOffset, Position, Unknown
  <2> QED BY <2>1
<1> QED BY <1>0, <1>1, <1>2, <1>3, <1>4, <1>5, <1>6, <1>7

\* Every step preserves the account of all messages.
LEMMA LossStep ==
  ASSUME TypeOK, Safe, NoSilentLoss, [Next]_vars
  PROVE  NoSilentLoss'
<1>1. CASE UNCHANGED vars
  BY <1>1 DEF vars, broker, offsets, round, history, counters, hand, control, NoSilentLoss,
     Position, Accounted, Handed, InHand
<1>2. CASE Next
  BY <1>2, QuietActions, LossQuiet, LossLoud DEF Next, Consumer, Worker
<1> QED BY <1>1, <1>2

-----------------------------------------------------------------------------
(* A graceful stop, as long as there was no fault.                          *)

\* Without faults no error comes up, what is taken is committed unless it is
\* resolved beyond the local committed offset, and only what was just handed over
\* is still to be committed.
Undisturbed ==
  faults = 0 =>
    /\ member = "valid" /\ errs = {} /\ pc # "abort"
    /\ \A p \in Partitions : resolved[p] # Unknown => committed[p] <= resolved[p]
    /\ pc \in {"beat", "commit", "consume"} =>
         resolved[cur] # committed[cur] \/ groupOffset[cur] = resolved[cur]
    /\ \A p \in Partitions : \A o \in handed[p] :
         \/ o < groupOffset[p]
         \/ pc \in {"consume", "autocommit"} /\ resolved[p] # committed[p]

\* No fault happened if none is counted afterwards.
LEMMA StillUndisturbed ==
  ASSUME TypeOK, [Next]_vars, faults' = 0
  PROVE  faults = 0
<1> USE DEF TypeOK, Fault, broker, offsets, round, history, counters, hand, control,
        CommitSucceeds, CommitFails, BeatFails
<1>1. CASE UNCHANGED vars
  BY <1>1 DEF vars
<1>2. CASE LoseMembership \/ JoinFails \/ FetchFails
  BY <1>2 DEF LoseMembership, JoinFails, FetchFails
<1>3. ASSUME NEW p \in Partitions,
             Append(p) \/ HandleEmpty(p) \/ SkipBatch(p) \/ TakeBatch(p)
      PROVE  faults = 0
  BY <1>3 DEF Append, HandleEmpty, SkipBatch, TakeBatch
<1>4. CASE Beat \/ CommitIfNecessary \/ Abort \/ AutoCommit \/ LastBeat
  BY <1>4 DEF Beat, CommitIfNecessary, Abort, AutoCommit, CommitAfterwards, LastBeat
<1>5. CASE Join \/ ResolveOffsets \/ Fetch \/ Consume \/ RoundEnd \/ Stop \/ Restart
  BY <1>5 DEF Join, ResolveOffsets, Fetch, Consume, RoundEnd, Stop, Restart
<1> QED BY <1>1, <1>2, <1>3, <1>4, <1>5 DEF Next, Consumer, Worker

\* Commits and heartbeats fail only when something is wrong.
LEMMA NothingFails ==
  ASSUME TypeOK, faults = 0, faults' = 0, member = "valid"
  PROVE  ~CommitFails /\ ~BeatFails
BY DEF CommitFails, BeatFails, Fault

\* A commit that succeeds commits whatever was handed over.
LEMMA CommitCoversHanded ==
  ASSUME TypeOK, Safe, Undisturbed, faults = 0, CommitSucceeds, pc \in Working,
         NEW p \in Partitions
  PROVE  /\ \A o \in handed[p] : o < groupOffset'[p]
         /\ committed'[p] = resolved[p]
         /\ resolved[p] # committed[p] => groupOffset'[p] = resolved[p]
         /\ resolved[p] = committed[p] => groupOffset'[p] = groupOffset[p]
<1>1. /\ committed'[p] = resolved[p]
      /\ resolved[p] # committed[p] => groupOffset'[p] = resolved[p]
      /\ resolved[p] = committed[p] => groupOffset'[p] = groupOffset[p]
  BY DEF CommitSucceeds, Flushed
<1>2. \A o \in handed[p] : o < resolved[p]
  BY DEF Safe, HandedBelow, Known, Position
<1> QED BY <1>1, <1>2 DEF Undisturbed

\* Every step keeps an undisturbed run in order.
LEMMA UndisturbedStep ==
  ASSUME TypeOK, Safe, Undisturbed, [Next]_vars
  PROVE  Undisturbed'
<1> SUFFICES ASSUME faults = 0, faults' = 0
             PROVE  Undisturbed'
  BY StillUndisturbed DEF Undisturbed
<1> USE DEF broker, offsets, round, history, counters, hand, control
<1>u. /\ member = "valid" /\ errs = {} /\ pc # "abort"
      /\ \A p \in Partitions : resolved[p] # Unknown => committed[p] <= resolved[p]
      /\ pc \in {"beat", "commit", "consume"} =>
           resolved[cur] # committed[cur] \/ groupOffset[cur] = resolved[cur]
      /\ \A p \in Partitions : \A o \in handed[p] :
           \/ o < groupOffset[p]
           \/ pc \in {"consume", "autocommit"} /\ resolved[p] # committed[p]
  BY DEF Undisturbed
<1>n. ~CommitFails /\ ~BeatFails
  BY <1>u, NothingFails
<1>i. \A p \in Partitions :
        /\ groupOffset[p] \in Int /\ committed[p] \in Int /\ resolved[p] \in Int
        /\ batch[p].from \in Nat /\ batch[p].to \in Nat
  BY DEF TypeOK, Offset, Batch, Unknown
\* Steps that leave offsets and history alone and go nowhere near the handing over.
<1>s. ASSUME UNCHANGED <<groupOffset, committed, resolved, handed, cur>>,
             member' = "valid", errs' = {}, pc' # "abort",
             \/ pc' = pc
             \/ pc' \notin {"beat", "commit", "consume"}
                /\ pc \notin {"consume", "autocommit"}
      PROVE  Undisturbed'
  BY <1>u, <1>s DEF Undisturbed
\* A commit, and whatever else the worker then does.
<1>c. ASSUME CommitSucceeds, pc \in Working,
             UNCHANGED <<resolved, handed, cur>>,
             member' = "valid", errs' = {}, pc' # "abort",
             \/ pc' \in {"work", "lastbeat"}
             \/ pc \in {"commit", "beat"} /\ pc' = "consume"
      PROVE  Undisturbed'
  <2>1. \A p \in Partitions :
          /\ \A o \in handed[p] : o < groupOffset'[p]
          /\ committed'[p] = resolved[p]
          /\ resolved[p] # committed[p] => groupOffset'[p] = resolved[p]
          /\ resolved[p] = committed[p] => groupOffset'[p] = groupOffset[p]
    BY <1>c, CommitCoversHanded
  <2>2. \A p \in Partitions : committed'[p] <= resolved'[p]
    BY <1>c, <1>i, <2>1
  <2>3. pc' = "consume" => groupOffset'[cur] = resolved'[cur]
    BY <1>c, <1>u, <2>1 DEF TypeOK
  <2> QED BY <1>c, <2>1, <2>2, <2>3 DEF Undisturbed
<1>0. CASE UNCHANGED vars
  BY <1>0, <1>u, <1>s DEF vars
<1>1. ASSUME NEW q \in Partitions, Append(q) PROVE Undisturbed'
  BY <1>1, <1>u, <1>s DEF Append
<1>2. CASE LoseMembership \/ JoinFails \/ FetchFails
  BY <1>2 DEF LoseMembership, JoinFails, FetchFails, Fault, TypeOK
<1>3. CASE Join
  BY <1>3 DEF Join, Undisturbed, NoOffset, Nothing, Unknown
<1>4. CASE ResolveOffsets
  <2>1. /\ UNCHANGED <<groupOffset, member, pc, resolved, cur, errs, handed>>
        /\ pc = "fetch"
        /\ \A p \in Partitions : committed[p] # Unknown => committed'[p] = committed[p]
    BY <1>4 DEF ResolveOffsets
  <2>2. \A p \in Partitions : resolved[p] # Unknown => committed'[p] <= resolved[p]
    BY <1>u, <2>1 DEF Safe, Known
  <2> QED BY <1>u, <2>1, <2>2 DEF Undisturbed
<1>5. CASE Fetch
  <2>1. /\ UNCHANGED <<groupOffset, member, committed, cur, errs, handed>>
        /\ pc = "fetch" /\ pc' = "work"
        /\ \A p \in Partitions : resolved'[p] = Position(p)
    BY <1>5 DEF Fetch
  <2>2. \A p \in Partitions : committed[p] <= resolved'[p]
    BY <1>i, <1>u, <2>1 DEF Position
  <2> QED BY <1>u, <2>1, <2>2 DEF Undisturbed
<1>6. CASE RoundEnd
  BY <1>6, <1>u, <1>s DEF RoundEnd, AfterRound
<1>7. CASE Stop
  BY <1>7, <1>u, <1>s DEF Stop
<1>8. CASE Restart
  BY <1>8 DEF Restart, Undisturbed, NoOffset, Nothing, Unknown
<1>9. ASSUME NEW q \in Partitions, HandleEmpty(q) \/ SkipBatch(q) PROVE Undisturbed'
  BY <1>9, <1>u, <1>n, <1>s DEF HandleEmpty, SkipBatch
<1>10. ASSUME NEW q \in Partitions, TakeBatch(q) PROVE Undisturbed'
  <2>1. /\ UNCHANGED <<groupOffset, member, committed, errs, handed>>
        /\ resolved' = [resolved EXCEPT ![q] = batch[q].to]
        /\ q \in todo /\ cur' = q /\ pc = "work" /\ pc' = "beat"
        /\ batch[q].from = resolved[q] /\ batch[q].from < batch[q].to
        /\ resolved[q] # Unknown
    BY <1>10, <1>i DEF TakeBatch, ResolveLast, Offsets, Safe, Fresh, Known, Working
  <2>2. \A p \in Partitions :
          resolved'[p] = IF p = q THEN batch[q].to ELSE resolved[p]
    BY <2>1 DEF TypeOK
  <2>3. committed[q] < resolved'[q]
    BY <1>i, <1>u, <2>1, <2>2
  <2>4. \A p \in Partitions : resolved'[p] # Unknown => committed[p] <= resolved'[p]
    BY <1>i, <1>u, <2>2, <2>3
  <2>5. resolved'[cur'] # committed'[cur']
    BY <1>i, <2>1, <2>2, <2>3
  <2> QED BY <1>u, <2>1, <2>4, <2>5 DEF Undisturbed
<1>11. CASE Beat
  <2>1. /\ UNCHANGED <<groupOffset, committed, resolved, member, errs, cur, handed>>
        /\ pc = "beat" /\ pc' = "commit"
    BY <1>11, <1>n DEF Beat
  <2> QED BY <1>u, <2>1 DEF Undisturbed
<1>12. CASE CommitIfNecessary
  <2>1. /\ UNCHANGED <<resolved, member, errs, cur, handed>>
        /\ pc = "commit" /\ pc' = "consume"
        /\ CommitSucceeds \/ UNCHANGED <<groupOffset, committed>>
    BY <1>12, <1>n DEF CommitIfNecessary
  <2>2. CASE CommitSucceeds
    BY <1>c, <1>u, <2>1, <2>2 DEF Working, Holding
  <2>3. CASE UNCHANGED <<groupOffset, committed>>
    BY <1>u, <2>1, <2>3 DEF Undisturbed
  <2> QED BY <2>1, <2>2, <2>3
<1>13. CASE Consume
  <2>1. /\ UNCHANGED <<groupOffset, member, committed, resolved, errs, cur, batch>>
        /\ pc = "consume" /\ next < batch[cur].to
        /\ \/ UNCHANGED <<pc, next, handed>>
           \/ /\ next' \in next + 1 .. batch[cur].to
              /\ handed' = [handed EXCEPT ![cur] = @ \cup (next .. next' - 1)]
              /\ pc' \in {"autocommit", "consume"}
    <3>1. UNCHANGED <<groupOffset, member, committed, resolved, errs, cur, batch>>
      BY <1>13 DEF Consume
    <3>2. Fresh
      BY DEF Safe
    <3> QED BY <1>13, <3>1, <3>2, ConsumeEffect
  <2>2. CASE UNCHANGED <<pc, next, handed>>
    BY <1>s, <1>u, <2>1, <2>2
  <2>3. CASE /\ next' \in next + 1 .. batch[cur].to
             /\ handed' = [handed EXCEPT ![cur] = @ \cup (next .. next' - 1)]
             /\ pc' \in {"autocommit", "consume"}
    <3>1. cur \in Partitions /\ batch[cur].to = resolved[cur] /\ next \in Nat
      BY <2>1 DEF Safe, Fresh, Holding, TypeOK
    <3>2. \A p \in Partitions : \A o \in handed'[p] :
            \/ o \in handed[p]
            \/ p = cur /\ o \in next .. next' - 1
      BY <2>3 DEF TypeOK
    <3>3. \A o \in next .. next' - 1 : o < resolved[cur]
      BY <1>i, <2>3, <3>1
    <3>4. ASSUME NEW p \in Partitions, NEW o \in handed'[p]
          PROVE  o < groupOffset[p] \/ resolved[p] # committed[p]
      <4>1. CASE o \in handed[p]
        BY <1>u, <4>1
      <4>2. CASE p = cur /\ o \in next .. next' - 1
        <5>1. o < resolved[cur]
          BY <3>3, <4>2
        <5> QED BY <1>u, <2>1, <4>2, <5>1
      <4> QED BY <3>2, <4>1, <4>2
    <3> QED BY <1>u, <2>1, <2>3, <3>4 DEF Undisturbed
  <2> QED BY <2>1, <2>2, <2>3
<1>14. CASE Abort
  BY <1>14, <1>u DEF Abort
<1>15. CASE AutoCommit
  <2>1. /\ UNCHANGED <<resolved, member, errs, cur, handed>>
        /\ pc = "autocommit" /\ pc' = "lastbeat" /\ CommitSucceeds
    BY <1>15, <1>n DEF AutoCommit, CommitAfterwards
  <2> QED BY <1>c, <1>u, <2>1 DEF Working, Holding
<1>16. CASE LastBeat
  BY <1>16, <1>u, <1>n, <1>s DEF LastBeat
<1> QED
  BY <1>0, <1>1, <1>2, <1>3, <1>4, <1>5, <1>6, <1>7, <1>8, <1>9, <1>10, <1>11,
     <1>12, <1>13, <1>14, <1>15, <1>16 DEF Next, Consumer, Worker

-----------------------------------------------------------------------------
(* The threshold.  CountResolved folds over the partitions by a recursive   *)
(* function: that there is one, and what it bounds, follows from the least  *)
(* of the subsets for which it would fail.                                  *)

\* The terms of CountResolved, and the function of the subsets that sums them up.
Pick(s) == CHOOSE p \in s : TRUE
Ahead(p) == resolved[p] - committed[p]
Added(g, s) == IF s = {} THEN 0 ELSE Ahead(Pick(s)) + g[s \ {Pick(s)}]
SumsUpTo(g, S) == g = [s \in SUBSET S |-> Added(g, s)]
Sums(S) == CHOOSE g : SumsUpTo(g, S)

\* CountResolved is that function's value for all partitions.
LEMMA CountIsSum == CountResolved = Sums(Partitions)[Partitions]
BY DEF CountResolved, MapThenFoldSet, Sums, SumsUpTo, Added, Pick, Ahead

\* Among subsets of a finite set there is one that includes no other.
LEMMA MinimalSubset ==
  ASSUME NEW STATE S, IsFiniteSet(S), NEW STATE T, T \in SUBSET SUBSET S, T # {}
  PROVE  \E s \in T : \A u \in T : ~(u \subseteq s /\ u # s)
<1>1. IsWellFoundedOn(StrictSubsetOrdering(S), SUBSET S)
  BY FS_StrictSubsetOrderingWellFounded, FS_FiniteSubsetsOfFinite
<1>2. \E s \in T : \A u \in T : <<u, s>> \notin StrictSubsetOrdering(S)
  BY <1>1, WFMin
<1> QED BY <1>2 DEF StrictSubsetOrdering

\* Two such functions agree where both are defined.
LEMMA SumsAgree ==
  ASSUME NEW STATE A, NEW STATE B, NEW STATE g, NEW STATE h, IsFiniteSet(A),
         SumsUpTo(g, A), SumsUpTo(h, B),
         NEW STATE s, s \subseteq A, s \subseteq B
  PROVE  g[s] = h[s]
<1> DEFINE Bad == {u \in SUBSET A : u \subseteq B /\ g[u] # h[u]}
<1> SUFFICES ASSUME Bad # {} PROVE FALSE
  OBVIOUS
<1>1. PICK u \in Bad : \A v \in Bad : ~(v \subseteq u /\ v # u)
  <2> HIDE DEF Bad
  <2>1. Bad \in SUBSET SUBSET A
    BY DEF Bad
  <2> QED BY <2>1, MinimalSubset
<1>2. g[u] = Added(g, u) /\ h[u] = Added(h, u)
  BY DEF SumsUpTo
<1>3. u # {}
  BY <1>2 DEF Added
<1>4. Pick(u) \in u
  BY <1>3 DEF Pick
<1>5. u \ {Pick(u)} \notin Bad
  BY <1>1, <1>4
<1> QED BY <1>2, <1>5 DEF Added

\* For every finite set there is one: it is put together from those of the subsets.
LEMMA SumsExist ==
  ASSUME NEW STATE S, IsFiniteSet(S)
  PROVE  SumsUpTo(Sums(S), S)
<1> DEFINE Bad == {t \in SUBSET S : ~SumsUpTo(Sums(t), t)}
<1> SUFFICES ASSUME Bad # {} PROVE FALSE
  OBVIOUS
<1>1. PICK t \in Bad : \A v \in Bad : ~(v \subseteq t /\ v # t)
  <2> HIDE DEF Bad
  <2>1. Bad \in SUBSET SUBSET S
    BY DEF Bad
  <2> QED BY <2>1, MinimalSubset
<1>2. ASSUME NEW v \in SUBSET t, v # t PROVE SumsUpTo(Sums(v), v) /\ IsFiniteSet(v)
  BY <1>1, <1>2, FS_Subset
<1> DEFINE glue == [s \in SUBSET t |-> IF s = {} THEN 0
                     ELSE Ahead(Pick(s)) + Sums(s \ {Pick(s)})[s \ {Pick(s)}]]
<1>3. ASSUME NEW s \in SUBSET t PROVE glue[s] = Added(glue, s)
  <2>1. CASE s = {}
    BY <2>1 DEF Added
  <2>2. CASE s # {}
    <3> DEFINE v == s \ {Pick(s)}
    <3> DEFINE w == v \ {Pick(v)}
    <3>1. Pick(s) \in s
      BY <2>2 DEF Pick
    <3>2. v \in SUBSET t /\ v # t /\ w \in SUBSET t /\ w # t /\ w \subseteq v
      BY <3>1
    <3>3. glue[s] = Ahead(Pick(s)) + Sums(v)[v]
      BY <2>2
    <3>4. Sums(v)[v] = Added(Sums(v), v)
      BY <1>2, <3>2 DEF SumsUpTo
    <3>5. v # {} => Sums(v)[w] = Sums(w)[w]
      BY <1>2, <3>2, SumsAgree
    <3>6. glue[v] = Sums(v)[v]
      BY <3>2, <3>4, <3>5 DEF Added
    <3> QED BY <2>2, <3>3, <3>6 DEF Added
  <2> QED BY <2>1, <2>2
<1>4. SumsUpTo(glue, t)
  <2> HIDE DEF glue
  <2>1. glue = [s \in SUBSET t |-> glue[s]]
    BY DEF glue
  <2> QED BY <1>3, <2>1 DEF SumsUpTo
<1>5. SumsUpTo(Sums(t), t)
  BY <1>4 DEF Sums
<1> QED BY <1>1, <1>5

\* The sum is at least each of its terms when none of them is negative.
LEMMA SumOfTerms ==
  ASSUME \A p \in Partitions : Ahead(p) \in Nat
  PROVE  /\ CountResolved \in Nat
         /\ \A p \in Partitions : Ahead(p) <= CountResolved
<1> DEFINE Sum == Sums(Partitions)
<1> DEFINE Bad == {s \in SUBSET Partitions :
                     ~(Sum[s] \in Nat /\ \A p \in s : Ahead(p) <= Sum[s])}
<1>1. ASSUME Bad # {} PROVE FALSE
  <2>1. PICK s \in Bad : \A v \in Bad : ~(v \subseteq s /\ v # s)
    <3> HIDE DEF Bad
    <3>1. Bad \in SUBSET SUBSET Partitions
      BY DEF Bad
    <3> QED BY <1>1, <3>1, MinimalSubset, BatchAssumption DEF BatchAssumption
  <2>2. Sum[s] = Added(Sum, s)
    <3>1. SumsUpTo(Sum, Partitions)
      BY SumsExist, BatchAssumption DEF BatchAssumption
    <3>2. s \in SUBSET Partitions
      BY <2>1
    <3> HIDE DEF Sum
    <3> QED BY <3>1, <3>2 DEF SumsUpTo
  <2>3. s # {}
    BY <2>2 DEF Added
  <2>4. Pick(s) \in s
    BY <2>3 DEF Pick
  <2> DEFINE rest == s \ {Pick(s)}
  <2>5. Sum[rest] \in Nat /\ \A p \in rest : Ahead(p) <= Sum[rest]
    BY <2>1, <2>4
  <2>6. Sum[s] = Ahead(Pick(s)) + Sum[rest]
    BY <2>2, <2>3 DEF Added
  <2>7. Ahead(Pick(s)) \in Nat /\ \A p \in rest : Ahead(p) \in Nat
    BY <2>4
  <2> HIDE DEF Sum
  <2>8. Sum[s] \in Nat /\ \A p \in s : Ahead(p) <= Sum[s]
    BY <2>4, <2>5, <2>6, <2>7
  <2> QED BY <2>1, <2>8
<1>2. Partitions \notin Bad
  BY <1>1
<1> QED BY <1>2, CountIsSum

\* A large batch is committed in time because the local committed offset lies below
\* it until then, so that its messages alone reach the threshold.
CommittedIsPrior ==
  /\ \A p \in Partitions : resolved[p] # Unknown => committed[p] <= resolved[p]
  /\ pc \in {"beat", "commit"} => committed[cur] <= batch[cur].from
Timely == CommittedIsPrior /\ LargeBatchPreCommitted

\* commitOffsetsIfNecessary: below the threshold is every batch whose messages are
\* fewer than it; the others are committed.
LEMMA LargeBatchCommits ==
  ASSUME TypeOK, Safe, CommittedIsPrior, CommitIfNecessary, pc' = "consume"
  PROVE  LargeBatchPreCommitted'
<1> DEFINE from == batch[cur].from
<1> DEFINE to == batch[cur].to
<1>1. /\ pc = "commit" /\ UNCHANGED <<resolved, batch, cur>>
      /\ cur \in Partitions /\ from \in Nat /\ to \in Nat
      /\ groupOffset \in [Partitions -> Offset]
  BY DEF CommitIfNecessary, TypeOK, Batch, hand
<1>2. /\ resolved[cur] = to /\ committed[cur] <= from /\ next < to
      /\ \A p \in Partitions :
           /\ resolved[p] \in Nat /\ committed[p] \in Nat
           /\ committed[p] <= resolved[p]
  BY <1>1 DEF Safe, Fresh, Known, CommittedIsPrior, TypeOK, Offset, Unknown, Holding,
     HandPcs, Working
<1>3. CASE from >= to
  <2>1. Offsets(batch[cur]) = {}
    BY <1>1, <1>3 DEF Offsets
  <2>2. Cardinality(Offsets(batch'[cur'])) = 0
    BY <1>1, <2>1, FS_EmptySet
  <2> QED BY <2>2, BatchAssumption DEF LargeBatchPreCommitted, BatchAssumption
<1>4. CASE from < to
  <2>1. Cardinality(Offsets(batch[cur])) = to - from
    <3> DEFINE last == to - 1
    <3>1. from \in Int /\ last \in Int /\ ~(from > last) /\ last - from + 1 = to - from
      BY <1>1, <1>4
    <3>2. Cardinality(from .. last) = last - from + 1
      <4> HIDE DEF from, last
      <4> QED BY <3>1, FS_Interval
    <3> QED BY <3>1, <3>2 DEF Offsets
  <2>2. CASE ~ThresholdReached
    <3>1. CountResolved \in Nat /\ Ahead(cur) <= CountResolved
      BY <1>1, <1>2, SumOfTerms DEF Ahead
    <3>2. to - from <= Ahead(cur) /\ Ahead(cur) \in Nat
      BY <1>1, <1>2 DEF Ahead
    <3>3. CountResolved < Threshold
      BY <2>2, <3>1, BatchAssumption DEF ThresholdReached, BatchAssumption
    <3>4. to - from < Threshold
      BY <1>1, <3>1, <3>2, <3>3, BatchAssumption DEF BatchAssumption
    <3>5. ~(Cardinality(Offsets(batch'[cur'])) >= Threshold)
      BY <1>1, <2>1, <3>4, BatchAssumption DEF BatchAssumption
    <3> QED BY <3>5 DEF LargeBatchPreCommitted
  <2>3. CASE CommitSucceeds
    <3>1. groupOffset'[cur] = to
      BY <1>1, <1>2, <1>4, <2>3 DEF CommitSucceeds, Flushed
    <3> QED BY <1>1, <3>1 DEF LargeBatchPreCommitted
  <2> QED BY <2>2, <2>3 DEF CommitIfNecessary
<1> QED BY <1>1, <1>3, <1>4

\* Every step keeps it.
LEMMA TimelyStep ==
  ASSUME TypeOK, Safe, Timely, [Next]_vars
  PROVE  Timely'
<1> USE DEF Timely, CommittedIsPrior, Unknown
<1> USE DEF broker, offsets, round, history, counters, hand, control
<1>a. ASSUME UNCHANGED <<pc, groupOffset, committed, resolved, batch, cur>>
      PROVE  Timely'
  BY <1>a DEF LargeBatchPreCommitted
<1>b. ASSUME QuietStep, pc' \notin {"beat", "commit", "consume"}
      PROVE  Timely'
  <2>1. UNCHANGED <<resolved, batch, cur>> /\ committed' \in {committed, resolved}
    BY <1>b DEF QuietStep
  <2>2. \A p \in Partitions : resolved[p] \in Int
    BY DEF TypeOK, Offset
  <2> QED BY <1>b, <2>1, <2>2 DEF LargeBatchPreCommitted
<1>c. ASSUME NEW p \in Partitions PROVE committed[p] \in Int /\ resolved[p] \in Int
  BY DEF TypeOK, Offset
<1>0. CASE UNCHANGED vars
  BY <1>a, <1>0 DEF vars
<1>1. ASSUME NEW p \in Partitions, Append(p) PROVE Timely'
  BY <1>a, <1>1 DEF Append
<1>2. CASE LoseMembership
  BY <1>a, <1>2 DEF LoseMembership
<1>3. CASE Join
  BY <1>3 DEF Join, NoOffset, LargeBatchPreCommitted
<1>4. CASE ResolveOffsets
  <2>1. pc' = "fetch" /\ resolved' = resolved
    BY <1>4 DEF ResolveOffsets
  <2>2. ASSUME NEW p \in Partitions, resolved[p] # Unknown
        PROVE  committed'[p] = committed[p]
    BY <1>4, <2>2 DEF ResolveOffsets, Safe, Known
  <2> QED BY <2>1, <2>2 DEF LargeBatchPreCommitted
<1>5. CASE Fetch
  <2>1. pc' = "work" /\ committed' = committed
        /\ resolved' = [p \in Partitions |-> Position(p)]
    BY <1>5 DEF Fetch
  <2>2. ASSUME NEW p \in Partitions PROVE committed[p] <= resolved'[p]
    BY <1>c, <2>1 DEF Position
  <2> QED BY <2>1, <2>2 DEF LargeBatchPreCommitted
<1>6. CASE JoinFails \/ FetchFails
  BY <1>b, <1>6, QuietActions DEF JoinFails, FetchFails
<1>7. ASSUME NEW p \in Partitions, HandleEmpty(p) PROVE Timely'
  <2>1. pc' = "work"
    BY <1>7 DEF HandleEmpty
  <2> QED BY <1>b, <1>7, <2>1, QuietActions
<1>8. ASSUME NEW p \in Partitions, SkipBatch(p) PROVE Timely'
  <2>1. pc' = "work"
    BY <1>8 DEF SkipBatch
  <2> QED BY <1>b, <1>8, <2>1, QuietActions
<1>9. ASSUME NEW q \in Partitions, TakeBatch(q) PROVE Timely'
  <2>1. /\ UNCHANGED <<committed, batch>>
        /\ resolved' = [resolved EXCEPT ![q] = batch[q].to]
        /\ pc = "work" /\ pc' = "beat" /\ cur' = q /\ q \in todo
    BY <1>9 DEF TakeBatch, ResolveLast
  <2>2. /\ resolved[q] # Unknown
        /\ batch[q].from = resolved[q] /\ batch[q].from <= batch[q].to
        /\ batch[q].to \in Nat
    BY <2>1 DEF Safe, Known, Fresh, Working, TypeOK, Batch
  <2>3. \A p \in Partitions :
          resolved'[p] = IF p = q THEN batch[q].to ELSE resolved[p]
    BY <2>1 DEF TypeOK
  <2> QED BY <1>c, <2>1, <2>2, <2>3 DEF LargeBatchPreCommitted
<1>10. CASE Beat
  <2>1. CASE pc' = "abort"
    BY <1>b, <1>10, <2>1, QuietActions
  <2>2. CASE pc' = "commit" /\ UNCHANGED <<groupOffset, committed, errs, faults>>
    BY <1>10, <2>2 DEF Beat, LargeBatchPreCommitted
  <2> QED BY <1>10, <2>1, <2>2 DEF Beat
<1>11. CASE CommitIfNecessary
  <2>1. CASE pc' = "abort"
    BY <1>b, <1>11, <2>1, QuietActions
  <2>2. CASE pc' = "consume"
    <3>1. /\ UNCHANGED <<resolved, batch, cur>>
          /\ committed' \in {committed, resolved}
      BY <1>11 DEF CommitIfNecessary, CommitSucceeds, CommitFails
    <3> QED BY <1>c, <1>11, <2>2, <3>1, LargeBatchCommits
  <2> QED BY <1>11, <2>1, <2>2 DEF CommitIfNecessary
<1>12. CASE Consume
  <2>1. /\ UNCHANGED <<groupOffset, committed, resolved, batch, cur>>
        /\ pc = "consume" /\ pc' \in {"consume", "autocommit"}
    BY <1>12, ConsumeEffect DEF Safe
  <2> QED BY <2>1 DEF LargeBatchPreCommitted
<1>13. CASE Abort
  <2>1. pc' = "work"
    BY <1>13 DEF Abort
  <2> QED BY <1>b, <1>13, <2>1, QuietActions
<1>14. CASE AutoCommit
  <2>1. pc' \in {"lastbeat", "work"}
    BY <1>14 DEF AutoCommit
  <2> QED BY <1>b, <1>14, <2>1, QuietActions
<1>15. CASE LastBeat
  <2>1. pc' = "work"
    BY <1>15 DEF LastBeat
  <2> QED BY <1>b, <1>15, <2>1, QuietActions
<1>16. CASE RoundEnd
  <2>1. pc' \in {"stopped", "fetch", "join", "dead"}
    BY <1>16 DEF RoundEnd, AfterRound
  <2> QED BY <1>b, <1>16, <2>1, QuietActions
<1>17. CASE Stop
  BY <1>a, <1>17 DEF Stop
<1>18. CASE Restart
  BY <1>18 DEF Restart, NoOffset, LargeBatchPreCommitted
<1> QED
  BY <1>0, <1>1, <1>2, <1>3, <1>4, <1>5, <1>6, <1>7, <1>8, <1>9, <1>10, <1>11,
     <1>12, <1>13, <1>14, <1>15, <1>16, <1>17, <1>18 DEF Next, Consumer, Worker

-----------------------------------------------------------------------------
(* Theorems.                                                                *)

\* The strengthening is an invariant of the specification.
THEOREM Invariance == Spec => []IInv
<1>1. IInv /\ [Next]_vars => IInv'
  BY TypeStep, SafeStep, LossStep DEF IInv
<1> QED BY InitIInv, <1>1, PTL DEF Spec

\* Every variable keeps its type.
THEOREM TypeCorrect == Spec => []TypeOK
BY Invariance, PTL DEF IInv

\* Between two joins no message is given to consumeMethod twice.
THEOREM AtMostOncePerSession == Spec => []SessionAtMostOnce
<1>1. IInv => SessionAtMostOnce
  BY DEF IInv, Safe, SessionAtMostOnce, HandedBelow, HandPcs, TypeOK, InHand, Batch
<1> QED BY Invariance, <1>1, PTL

\* No message is given to consumeMethod again by a later process.
THEOREM AtMostOncePerProcess == Spec => []ProcessAtMostOnce
<1>1. IInv => ProcessAtMostOnce
  BY DEF IInv, Safe, ProcessAtMostOnce, OlderBelow, HandPcs, TypeOK, InHand, Batch
<1> QED BY Invariance, <1>1, PTL

\* What the group has committed is not read again.
THEOREM CommittedIsBehind == Spec => []NoRedeliveryOfCommitted
BY Invariance, PTL DEF IInv, Safe

\* No message is lost without a trace.
THEOREM NothingLostSilently == Spec => []NoSilentLoss
BY Invariance, PTL DEF IInv

\* A stop after a run without faults leaves nothing handed over and uncommitted.
THEOREM StopIsClean == Spec => []StopLeavesNothingUncommitted
<1>1. Init => Undisturbed
  BY DEF Init, Undisturbed, NoOffset, Nothing, Unknown
<1>2. IInv /\ Undisturbed /\ [Next]_vars => Undisturbed'
  BY UndisturbedStep DEF IInv
<1>3. Undisturbed => StopLeavesNothingUncommitted
  BY DEF Undisturbed, StopLeavesNothingUncommitted
<1> QED BY Invariance, <1>1, <1>2, <1>3, PTL DEF Spec

\* A batch of at least Threshold messages is committed before it is processed.
THEOREM LargeBatchesFirst == Spec => []LargeBatchPreCommitted
<1>1. Init => Timely
  BY DEF Init, Timely, CommittedIsPrior, LargeBatchPreCommitted, NoOffset, Unknown
<1>2. IInv /\ Timely /\ [Next]_vars => Timely'
  BY TimelyStep DEF IInv
<1>3. Timely => LargeBatchPreCommitted
  BY DEF Timely
<1> QED BY Invariance, <1>1, <1>2, <1>3, PTL DEF Spec

-----------------------------------------------------------------------------
(* BatchConsumer implements Delivery: each step of the consumer is a step   *)
(* of early acknowledgement or changes nothing Delivery sees.               *)

InHands == [p \in Partitions |-> InHand(p)]
Seen == <<log, groupOffset, SessionPosition, InHands, handed>>

\* What Delivery sees is what the refinement mapping shows it.
LEMMA SeenIsPromiseVars ==
  UNCHANGED Seen => UNCHANGED Promise!vars
BY DEF Seen, InHands, Promise!vars

\* The consumer starts as Delivery does.
LEMMA InitRefines == Init => Promise!Init
BY DEF Init, Promise!Init, SessionPosition, InHand, NoOffset, Nothing,
   Promise!NoOffset, Promise!Nothing, Unknown, Promise!Unknown

\* A quiet step keeps the positions and makes at most some of them durable.
LEMMA QuietCommits ==
  ASSUME TypeOK, Known, QuietStep
  PROVE  /\ UNCHANGED <<log, handed>>
         /\ SessionPosition' = SessionPosition
         /\ Promise!Acknowledge
<1>1. ASSUME NEW p \in Partitions
      PROVE  /\ SessionPosition'[p] = SessionPosition[p]
             /\ groupOffset'[p] # groupOffset[p] =>
                  groupOffset'[p] = SessionPosition[p] /\ SessionPosition[p] # Unknown
  <2>1. CASE UNCHANGED <<groupOffset, committed>>
    BY <2>1 DEF QuietStep, SessionPosition, Position
  <2>2. CASE /\ pc \in Working
             /\ groupOffset' \in {groupOffset, Flushed}
             /\ committed' \in {committed, resolved}
    <3>1. /\ committed[p] # Unknown
          /\ committed'[p] # Unknown
          /\ Position(p)' = Position(p)
          /\ Position(p) = resolved[p] /\ resolved[p] # Unknown
      BY <2>2, FlushedOffset DEF QuietStep, Position, Known
    <3> QED BY <2>2, <3>1, FlushedOffset DEF SessionPosition
  <2> QED BY <2>1, <2>2 DEF QuietStep
<1>2. SessionPosition' = SessionPosition
  BY <1>1 DEF SessionPosition
<1>3. Promise!Acknowledge
  <2> DEFINE acked == {p \in Partitions : groupOffset'[p] # groupOffset[p]}
  <2>1. acked \in SUBSET {p \in Partitions : SessionPosition[p] # Promise!Unknown}
    BY <1>1 DEF Unknown, Promise!Unknown
  <2>2. groupOffset' = [p \in Partitions |->
          IF p \in acked THEN SessionPosition[p] ELSE groupOffset[p]]
    <3>1. groupOffset' = [p \in Partitions |-> groupOffset'[p]]
      BY DEF QuietStep, TypeOK, Flushed
    <3> QED BY <1>1, <3>1
  <2> QED BY <2>1, <2>2 DEF Promise!Acknowledge
<1> QED BY <1>2, <1>3 DEF QuietStep

\* Apart from an abort, quiet steps leave the batch in hand alone.
LEMMA QuietHands ==
  ASSUME TypeOK,
         \/ LoseMembership \/ JoinFails \/ FetchFails \/ RoundEnd \/ Stop
         \/ \E p \in Partitions : HandleEmpty(p) \/ SkipBatch(p)
         \/ Beat \/ CommitIfNecessary \/ AutoCommit \/ LastBeat
  PROVE  InHands' = InHands
<1> USE DEF InHands, InHand, round, offsets, history, broker, counters, hand, control
<1>1. CASE LoseMembership \/ JoinFails \/ FetchFails \/ RoundEnd \/ Stop
  BY <1>1 DEF LoseMembership, JoinFails, FetchFails, RoundEnd, AfterRound, Stop
<1>2. ASSUME NEW p \in Partitions, HandleEmpty(p) \/ SkipBatch(p)
      PROVE  InHands' = InHands
  BY <1>2 DEF HandleEmpty, SkipBatch
<1>3. CASE Beat \/ CommitIfNecessary
  BY <1>3 DEF Beat, CommitIfNecessary
<1>4. CASE AutoCommit \/ LastBeat
  BY <1>4 DEF AutoCommit, LastBeat
<1> QED BY <1>1, <1>2, <1>3, <1>4

\* What a prefix of a range is, and what it leaves.
LEMMA RangePrefix ==
  ASSUME NEW first \in Nat, NEW past \in Nat, NEW bound \in Nat,
         first < past, past <= bound
  PROVE  /\ first \in first .. bound - 1
         /\ past - 1 \in first .. bound - 1
         /\ {o \in first .. bound - 1 : o <= past - 1} = first .. past - 1
         /\ (first .. bound - 1) \ (first .. past - 1) = past .. bound - 1
OBVIOUS

\* Every step of the consumer is a step of Delivery or a stuttering step.
LEMMA StepRefines ==
  ASSUME IInv, [Next]_vars
  PROVE  [Promise!Next]_Promise!vars
<1> USE DEF broker, offsets, round, history, counters, hand, control
<1>0. TypeOK /\ Known /\ Bounded /\ Fresh
  BY DEF IInv, Safe
<1>i. ASSUME NEW p \in Partitions
      PROVE  /\ groupOffset[p] \in Int /\ committed[p] \in Int /\ resolved[p] \in Int
             /\ log[p] \in Nat /\ batch[p].from \in Nat /\ batch[p].to \in Nat
  BY <1>0 DEF TypeOK, Offset, Batch, Unknown
<1>1. CASE UNCHANGED vars
  BY <1>1, SeenIsPromiseVars
     DEF vars, Seen, InHands, InHand, SessionPosition, Position
<1>2. CASE \/ LoseMembership \/ JoinFails \/ FetchFails \/ RoundEnd \/ Stop
           \/ \E p \in Partitions : HandleEmpty(p) \/ SkipBatch(p)
           \/ Beat \/ CommitIfNecessary \/ AutoCommit \/ LastBeat
  <2>1. QuietStep
    BY <1>0, <1>2, QuietActions
  <2>2. Promise!Commit
    BY <1>0, <1>2, <2>1, QuietCommits, QuietHands DEF Promise!Commit, InHands
  <2> QED BY <2>2 DEF Promise!Next
<1>3. CASE Abort
  <2>1. QuietStep
    BY <1>0, <1>3, QuietActions
  <2>2. pc = "abort" /\ pc' = "work" /\ cur \in Partitions /\ batch' = batch
    BY <1>0, <1>3 DEF Abort, TypeOK
  <2>3. InHand(cur) # {}
    <3>1. next < batch[cur].to /\ next \in Nat /\ batch[cur].to \in Nat
      BY <1>0, <1>i, <2>2 DEF Fresh, HandPcs, TypeOK
    <3>2. InHand(cur) = next .. batch[cur].to - 1
      BY <2>2 DEF InHand
    <3>3. next \in next .. batch[cur].to - 1
      BY <3>1
    <3> QED BY <3>2, <3>3
  <2>4. /\ InHands[cur] # {}
        /\ InHands' = [InHands EXCEPT ![cur] = {}]
    BY <2>2, <2>3 DEF InHands, InHand
  <2>5. Promise!GiveUp(cur)
    BY <1>0, <2>1, <2>4, QuietCommits DEF Promise!GiveUp, InHands
  <2> QED BY <2>2, <2>5 DEF Promise!Next
<1>4. ASSUME NEW q \in Partitions, Append(q) PROVE Promise!Append(q)
  BY <1>4 DEF Append, Promise!Append, SessionPosition, Position, InHand
<1>5. CASE Join
  <2>1. /\ SessionPosition' = NoOffset
        /\ InHands' = Nothing /\ handed' = Nothing
        /\ UNCHANGED <<groupOffset, log>>
    BY <1>5 DEF Join, SessionPosition, InHands, InHand, NoOffset, Nothing, Unknown
  <2>2. Promise!Close
    BY <2>1 DEF Promise!Close, InHands, NoOffset, Nothing, Promise!NoOffset,
       Promise!Nothing, Unknown, Promise!Unknown
  <2> QED BY <2>2 DEF Promise!Next
<1>6. CASE Restart
  <2>1. /\ SessionPosition' = NoOffset
        /\ InHands' = Nothing /\ handed' = Nothing
        /\ groupOffset' = NoOffset /\ log' = log
    BY <1>6 DEF Restart, FreshGroup, SessionPosition, InHands, InHand, NoOffset,
       Nothing, Unknown
  <2>2. Promise!Close
    BY <2>1 DEF Promise!Close, InHands, NoOffset, Nothing, Promise!NoOffset,
       Promise!Nothing, Unknown, Promise!Unknown
  <2> QED BY <2>2 DEF Promise!Next
<1>7. CASE ResolveOffsets
  <2>1. /\ UNCHANGED <<log, groupOffset, handed>>
        /\ InHands' = InHands
    BY <1>7 DEF ResolveOffsets, InHands, InHand
  <2>2. \A p \in Partitions :
          SessionPosition'[p] = IF SessionPosition[p] # Unknown THEN SessionPosition[p]
                                ELSE StartOffset(p)
    <3> SUFFICES ASSUME NEW p \in Partitions
                 PROVE  SessionPosition'[p] =
                          IF SessionPosition[p] # Unknown THEN SessionPosition[p]
                          ELSE StartOffset(p)
      OBVIOUS
    <3>1. /\ resolved' = resolved
          /\ committed'[p] = IF committed[p] = Unknown THEN StartOffset(p)
                             ELSE committed[p]
          /\ StartOffset(p) # Unknown
      BY <1>7, <1>i DEF ResolveOffsets, StartOffset, Unknown
    <3>2. /\ committed[p] = Unknown => resolved[p] = Unknown
          /\ committed[p] # Unknown => Position(p) # Unknown
      BY <1>0 DEF Known, Position
    <3> QED BY <3>1, <3>2 DEF SessionPosition, Position
  <2>3. SessionPosition' = [p \in Partitions |->
          IF SessionPosition[p] # Promise!Unknown THEN SessionPosition[p]
          ELSE IF groupOffset[p] # Promise!Unknown THEN groupOffset[p] ELSE log[p]]
    BY <2>2 DEF SessionPosition, StartOffset, Unknown, Promise!Unknown
  <2>4. Promise!Open
    BY <2>1, <2>3 DEF Promise!Open, InHands
  <2> QED BY <2>4 DEF Promise!Next
<1>8. CASE Fetch
  <2>1. /\ UNCHANGED <<log, groupOffset, committed, handed>>
        /\ \A p \in Partitions : Position(p)' = Position(p)
        /\ pc = "fetch" /\ pc' = "work"
    BY <1>8 DEF Fetch, Position
  <2>2. UNCHANGED Seen
    BY <2>1 DEF Seen, SessionPosition, InHands, InHand
  <2> QED BY <2>2, SeenIsPromiseVars
<1>9. ASSUME NEW q \in Partitions, TakeBatch(q) PROVE Promise!Take(q)
  <2>1. /\ pc = "work" /\ pc' = "beat" /\ q \in todo
        /\ cur' = q /\ next' = batch[q].from
        /\ UNCHANGED <<log, groupOffset, committed, batch, handed>>
        /\ resolved' = [resolved EXCEPT ![q] = batch[q].to]
        /\ Offsets(batch[q]) # {}
    BY <1>9 DEF TakeBatch, ResolveLast
  <2>2. \A p \in Partitions :
          /\ SessionPosition[p] = resolved[p] /\ resolved[p] # Unknown
          /\ SessionPosition'[p] = IF p = q THEN batch[q].to ELSE resolved[p]
    BY <1>0, <1>i, <2>1 DEF Known, Working, SessionPosition, Position, TypeOK, Unknown
  <2>3. /\ batch[q].from = resolved[q]
        /\ batch[q].to \in SessionPosition[q] + 1 .. log[q]
    BY <1>0, <1>i, <2>1, <2>2 DEF Fresh, Working, Bounded, Offsets
  <2>4. SessionPosition' = [SessionPosition EXCEPT ![q] = batch[q].to]
    BY <2>2 DEF SessionPosition
  <2>5. /\ InHands = Nothing
        /\ InHands' = [InHands EXCEPT ![q] = SessionPosition[q] .. batch[q].to - 1]
    BY <2>1, <2>2, <2>3 DEF InHands, InHand, Nothing, Offsets
  <2>6. SessionPosition[q] # Promise!Unknown
    BY <2>2 DEF Unknown, Promise!Unknown
  <2> QED BY <2>1, <2>3, <2>4, <2>5, <2>6
         DEF Promise!Take, InHands, Nothing, Promise!Nothing
<1>10. CASE Consume
  <2>1. /\ UNCHANGED <<log, groupOffset, committed, resolved, batch, cur>>
        /\ pc = "consume" /\ next < batch[cur].to
        /\ cur \in Partitions /\ next \in Nat
    BY <1>0, <1>10, ConsumeEffect DEF TypeOK
  <2>2. SessionPosition' = SessionPosition
    BY <2>1 DEF SessionPosition, Position
  <2>3. CASE UNCHANGED <<pc, next, handed>>
    <3>1. UNCHANGED Seen
      BY <2>1, <2>2, <2>3 DEF Seen, InHands, InHand
    <3> QED BY <3>1, SeenIsPromiseVars
  <2>4. CASE /\ next' \in next + 1 .. batch[cur].to
             /\ handed' = [handed EXCEPT ![cur] = @ \cup (next .. next' - 1)]
             /\ pc' = IF next' = batch[cur].to THEN "autocommit" ELSE "consume"
    <3> DEFINE last == next' - 1
               part == {o \in InHands[cur] : o <= last}
    <3>1. InHands[cur] = next .. batch[cur].to - 1
      BY <2>1 DEF InHands, InHand
    <3>2. last \in InHands[cur] /\ part = next .. next' - 1
      <4>1. batch[cur].to \in Nat /\ next' \in Nat /\ next < next' /\ next' <= batch[cur].to
        BY <1>i, <2>1, <2>4
      <4>2. part = {o \in next .. batch[cur].to - 1 : o <= next' - 1}
        BY <3>1
      <4> QED BY ONLY <2>1, <3>1, <4>1, <4>2, RangePrefix
    <3>3. InHands' = [InHands EXCEPT ![cur] = @ \ part]
      <4>1. ASSUME NEW p \in Partitions, p # cur PROVE InHand(p)' = InHand(p)
        BY <2>1, <4>1 DEF InHand
      <4>2. InHand(cur)' = InHands[cur] \ part
        <5>1. InHands[cur] \ part = next' .. batch[cur].to - 1
          BY <1>i, <2>1, <2>4, <3>1, <3>2
        <5>2. CASE next' = batch[cur].to
          BY <1>i, <2>1, <2>4, <5>1, <5>2 DEF InHand
        <5>3. CASE next' # batch[cur].to
          BY <2>1, <2>4, <5>1, <5>3 DEF InHand
        <5> QED BY <5>2, <5>3
      <4> QED BY <2>1, <4>1, <4>2 DEF InHands
    <3>4. handed' = [handed EXCEPT ![cur] = @ \cup part]
      BY <2>4, <3>2
    <3>5. Promise!HandOver(cur)
      BY <2>1, <2>2, <3>2, <3>3, <3>4 DEF Promise!HandOver, InHands
    <3> QED BY <2>1, <3>5 DEF Promise!Next
  <2> QED BY <1>0, <1>10, <2>3, <2>4, ConsumeEffect
<1> QED BY <1>1, <1>2, <1>3, <1>4, <1>5, <1>6, <1>7, <1>8, <1>9, <1>10
        DEF Next, Consumer, Worker, Promise!Next

\* A step moves no group offset backwards, unless the process starts again.
LEMMA StepAdvances ==
  ASSUME IInv, [Next]_vars
  PROVE  [\A p \in Partitions :
            groupOffset'[p] >= groupOffset[p] \/ restarts' # restarts]_vars
<1> USE DEF broker, offsets, round, history, counters, hand, control
<1>0. TypeOK /\ Known /\ NoRedeliveryOfCommitted
  BY DEF IInv, Safe
<1>1. CASE UNCHANGED vars
  BY <1>1
<1>2. CASE UNCHANGED groupOffset
  BY <1>0, <1>2 DEF TypeOK, Offset, Unknown
<1>3. CASE QuietStep
  <2> SUFFICES ASSUME NEW p \in Partitions
               PROVE  groupOffset'[p] >= groupOffset[p]
    OBVIOUS
  <2>1. groupOffset[p] \in Int
    BY <1>0 DEF TypeOK, Offset, Unknown
  <2>2. CASE UNCHANGED <<groupOffset, committed>>
    BY <2>1, <2>2
  <2>3. CASE pc \in Working /\ groupOffset' \in {groupOffset, Flushed}
    <3>1. /\ groupOffset'[p] \in {groupOffset[p], resolved[p]}
          /\ Position(p) = resolved[p]
          /\ committed[p] # Unknown
      BY <1>0, <2>3, FlushedOffset DEF Known
    <3> QED BY <1>0, <2>1, <3>1 DEF NoRedeliveryOfCommitted, TypeOK, Offset, Unknown
  <2> QED BY <1>3, <2>2, <2>3 DEF QuietStep
<1>4. CASE Restart
  BY <1>0, <1>4 DEF Restart, TypeOK
<1>5. CASE \/ \E p \in Partitions : Append(p) \/ TakeBatch(p)
           \/ Join \/ ResolveOffsets \/ Fetch \/ Consume
  BY <1>2, <1>5 DEF Append, TakeBatch, Join, ResolveOffsets, Fetch, Consume
<1>6. CASE \/ LoseMembership \/ JoinFails \/ FetchFails \/ RoundEnd \/ Stop
           \/ \E p \in Partitions : HandleEmpty(p) \/ SkipBatch(p)
           \/ Beat \/ CommitIfNecessary \/ Abort \/ AutoCommit \/ LastBeat
  <2>1. QuietStep
    BY <1>0, <1>6, QuietActions
  <2> QED BY <1>3, <2>1
<1> QED BY <1>1, <1>4, <1>5, <1>6 DEF Next, Consumer, Worker

-----------------------------------------------------------------------------
\* The consumer implements early acknowledgement.
THEOREM Refinement == Spec => EarlyAcknowledgement
<1>1. Spec => []IInv
  BY Invariance
<1>2. []IInv /\ [][Next]_vars => [][Promise!Next]_Promise!vars
  BY StepRefines, PTL
<1> QED BY InitRefines, <1>1, <1>2, PTL DEF Spec, EarlyAcknowledgement, Promise!Spec

\* The group's offset never moves backwards while the group lives.
THEOREM CommittedAdvances == Spec => CommittedNeverRegresses
<1>1. []IInv /\ [][Next]_vars => CommittedNeverRegresses
  BY StepAdvances, PTL DEF CommittedNeverRegresses
<1> QED BY Invariance, <1>1, PTL DEF Spec
=============================================================================
