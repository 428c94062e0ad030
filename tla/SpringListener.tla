--------------------------- MODULE SpringListener ---------------------------
(***************************************************************************)
(* The batch listeners of the Spring services: eda_consumer and            *)
(* eda_producer, src/main/kotlin/com/example/kafka/batchConsumer.kt with   *)
(* config/kafka.kt, on a topic of one partition.  The members are the      *)
(* consumer threads of the container (setConcurrency(2)), of which the     *)
(* group gives the partition to one.  A record is its offset; all that     *)
(* matters of its content is who wrote it:                                 *)
(*   typed    KafkaTemplate, whose JsonSerializer adds the type as a header*)
(*   foreign  another client, such as server1: JSON without that header    *)
(* What spring-kafka and the broker do is modelled from the configuration: *)
(* ENABLE_AUTO_COMMIT false, AckMode.MANUAL, AUTO_OFFSET_RESET latest.     *)
(***************************************************************************)
EXTENDS Integers, Sequences, FiniteSets

CONSTANTS
  Members,         \* the consumer threads
  Deserializers,   \* the deserializers a service may be configured with
  MaxLog,          \* bound: records
  MaxFaults,       \* bound: failed commits
  MaxLosses,       \* bound: evictions and process restarts
  None             \* no member

ASSUME ListenerAssumption ==
  /\ IsFiniteSet(Members)
  /\ Deserializers \subseteq {"plain", "errorHandling"}
  /\ MaxLog \in Nat /\ MaxFaults \in Nat /\ MaxLosses \in Nat
  /\ None \notin Members

Unknown == -1      \* an offset that is not there

VARIABLES
  (* the broker *)
  log,             \* who wrote each record; offset o is log[o + 1]
  groupOffset,     \* the offset committed for the group
  owner,           \* the member the partition is assigned to
  (* the service *)
  deserializer,    \* its VALUE_DESERIALIZER
  pc,              \* what each member does
  next,            \* offset it polls or handles next
  to,              \* end of the batch it handles
  (* history *)
  handled,         \* how often the listener has handled each offset
  first,           \* where the group began
  faults, losses   \* counters behind the bounds

broker == <<log, groupOffset, owner>>
members == <<pc, next, to>>
counters == <<faults, losses>>
vars == <<broker, deserializer, members, handled, first, counters>>

Offsets == 0 .. MaxLog - 1

Init ==
  /\ log = <<>>
  /\ groupOffset = Unknown
  /\ owner = None
  /\ deserializer \in Deserializers
  /\ pc = [m \in Members |-> "joining"]
  /\ next = [m \in Members |-> 0]
  /\ to = [m \in Members |-> 0]
  /\ handled = [o \in Offsets |-> 0]
  /\ first = Unknown
  /\ faults = 0 /\ losses = 0

-----------------------------------------------------------------------------
(* The broker.                                                              *)

\* A record arrives: from MessageController.sendMessage, or of another client.
Arrive ==
  /\ Len(log) < MaxLog
  /\ \E writer \in {"typed", "foreign"} : log' = Append(log, writer)
  /\ UNCHANGED <<groupOffset, owner, deserializer, members, handled, first,
                 counters>>

Lose == losses < MaxLosses /\ losses' = losses + 1

\* The owner is given up (a rebalance, a session or a poll that took too long)
\* and does not know it before its next request.
Evict ==
  /\ Lose
  /\ owner # None
  /\ owner' = None
  /\ UNCHANGED <<log, groupOffset, deserializer, members, handled, first, faults>>

\* The process dies and starts again, in the same group.
Restart ==
  /\ Lose
  /\ owner' = None
  /\ pc' = [m \in Members |-> "joining"]
  /\ UNCHANGED <<log, groupOffset, deserializer, next, to, handled, first, faults>>

-----------------------------------------------------------------------------
(* A consumer thread: subscribe, then poll, the listener, and the commit of *)
(* what the listener has acknowledged before the next poll.                 *)

StartBehindIt == IF groupOffset = Unknown THEN Len(log) ELSE groupOffset + 1
Start == IF groupOffset = Unknown THEN Len(log) ELSE groupOffset

\* Without a committed offset it starts at the end of the log, and commits that.
CommitStart == groupOffset' = IF groupOffset = Unknown THEN Len(log) ELSE groupOffset

Join(m) ==
  /\ pc[m] = "joining"
  /\ owner = None
  /\ owner' = m
  /\ pc' = [pc EXCEPT ![m] = "polling"]
  /\ next' = [next EXCEPT ![m] = Start]
  /\ CommitStart
  /\ first' = IF first = Unknown THEN Start ELSE first
  /\ UNCHANGED <<log, deserializer, to, handled, counters>>

\* JsonDeserializer needs the type header, having no default type; behind
\* ErrorHandlingDeserializer it has one, and what it cannot read is null.
Readable(o) == deserializer = "errorHandling" \/ log[o + 1] = "typed"

AllOrNothing(from, end) == \A o \in from .. Len(log) - 1 : Readable(o)
Returned(from, end) == \A o \in from .. end - 1 : Readable(o)

\* A poll returns the records before the first that cannot be read.  At that
\* record it throws, now and ever after: the position stays, so nothing changes.
Poll(m) ==
  /\ pc[m] = "polling"
  /\ owner = m
  /\ \E end \in next[m] + 1 .. Len(log) :
       /\ Returned(next[m], end)
       /\ to' = [to EXCEPT ![m] = end]
  /\ pc' = [pc EXCEPT ![m] = "handling"]
  /\ UNCHANGED <<broker, deserializer, next, handled, first, counters>>

\* forEachIndexed; behind the last record the batch is acknowledged.
HandleRecord(m) ==
  /\ pc[m] = "handling"
  /\ next[m] < to[m]
  /\ handled' = [handled EXCEPT ![next[m]] = @ + 1]
  /\ next' = [next EXCEPT ![m] = @ + 1]
  /\ UNCHANGED <<broker, deserializer, pc, to, first, counters>>

AcknowledgedEarly(m) == pc[m] = "handling"
Acknowledged(m) == pc[m] = "handling" /\ next[m] = to[m]

CommittedOffset(m) == to[m]

Commit(m) ==
  /\ Acknowledged(m)
  /\ owner = m
  /\ groupOffset' = CommittedOffset(m)
  /\ pc' = [pc EXCEPT ![m] = "polling"]
  /\ UNCHANGED <<log, owner, deserializer, next, to, handled, first, counters>>

SeekToCommitted(m) == next' = [next EXCEPT ![m] = groupOffset]
KeepPosition(m) == UNCHANGED next

\* The commit times out, with or without effect.  The error handler logs it, the
\* acknowledgement is forgotten, and polling goes on behind the batch.
CommitFails(m) ==
  /\ Acknowledged(m)
  /\ owner = m
  /\ faults < MaxFaults /\ faults' = faults + 1
  /\ groupOffset' \in {groupOffset, CommittedOffset(m)}
  /\ pc' = [pc EXCEPT ![m] = "polling"]
  /\ KeepPosition(m)
  /\ UNCHANGED <<log, owner, deserializer, to, handled, first, losses>>

\* A member that was given up learns so from its commit, or from its poll.
Fenced(m) ==
  /\ owner # m
  /\ Acknowledged(m) \/ pc[m] = "polling"
  /\ pc' = [pc EXCEPT ![m] = "joining"]
  /\ UNCHANGED <<broker, deserializer, next, to, handled, first, counters>>

Thread(m) == Join(m) \/ Poll(m) \/ HandleRecord(m) \/ Commit(m) \/ Fenced(m)

Next ==
  \/ Arrive \/ Evict \/ Restart
  \/ \E m \in Members : Thread(m) \/ CommitFails(m)

Spec == Init /\ [][Next]_vars

\* A consumer thread runs its loop; what it waits for is a request with a timeout.
FairSpec == Spec /\ \A m \in Members : WF_vars(Thread(m))

-----------------------------------------------------------------------------
(* Properties.                                                              *)

\* Every variable keeps its type.
TypeOK ==
  /\ log \in Seq({"typed", "foreign"}) /\ Len(log) <= MaxLog
  /\ groupOffset \in 0 .. Len(log) \cup {Unknown}
  /\ owner \in Members \cup {None}
  /\ deserializer \in Deserializers
  /\ pc \in [Members -> {"joining", "polling", "handling"}]
  /\ next \in [Members -> 0 .. Len(log)]
  /\ to \in [Members -> 0 .. Len(log)]
  /\ handled \in [Offsets -> Nat]
  /\ first \in 0 .. Len(log) \cup {Unknown}
  /\ faults \in 0 .. MaxFaults
  /\ losses \in 0 .. MaxLosses

Contract ==
  INSTANCE AtLeastOnce WITH
    end <- Len(log), acknowledged <- groupOffset,
    done <- {o \in Offsets : handled[o] > 0}

\* Whatever threads are evicted while they handle a batch, commits fail or
\* processes die, nothing is acknowledged that was not handled, and the group's
\* offset never moves back.
AtLeastOnceDelivery == Contract!Spec

\* A record is handled again only when a member was given up or the process died:
\* two threads on one partition and a failed commit do not repeat any.
DuplicatesAreExplained == \A o \in Offsets : handled[o] <= 1 + losses

\* Every record behind the group's beginning is handled in the end, if the
\* service can read it and every record before it.
EventuallyHandled ==
  \A o \in Offsets :
    (/\ first # Unknown /\ first <= o /\ o < Len(log)
     /\ \A r \in first .. o : Readable(r))
    ~> handled[o] > 0
=============================================================================
