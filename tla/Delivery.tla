------------------------------ MODULE Delivery ------------------------------
(***************************************************************************)
(* What a consumer with early acknowledgement promises, without heartbeats,*)
(* commit timers, retries or membership: within a session it takes each    *)
(* partition's messages in order, advancing its position before it hands   *)
(* them over; what it has taken is handed over once or given up, never     *)
(* both and never twice; and the offset that survives the session is some  *)
(* earlier or the present position.  BatchConsumer implements it.          *)
(***************************************************************************)
EXTENDS Integers

CONSTANT Partitions
Unknown == -1

VARIABLES
  log,        \* end offset of each partition
  durable,    \* the group's offsets, which survive a session
  position,   \* next offset to take in this session
  inhand,     \* taken, and not handed over yet
  handed      \* handed over in this session

vars == <<log, durable, position, inhand, handed>>

Nothing == [p \in Partitions |-> {}]
NoOffset == [p \in Partitions |-> Unknown]

Init ==
  /\ log = [p \in Partitions |-> 0]
  /\ durable = NoOffset
  /\ position = NoOffset
  /\ inhand = Nothing
  /\ handed = Nothing

Append(p) ==
  /\ log' = [log EXCEPT ![p] = @ + 1]
  /\ UNCHANGED <<durable, position, inhand, handed>>

\* A session learns where to start: where the group left off, or at the end.
Open ==
  /\ position' = [p \in Partitions |->
       IF position[p] # Unknown THEN position[p]
       ELSE IF durable[p] # Unknown THEN durable[p] ELSE log[p]]
  /\ UNCHANGED <<log, durable, inhand, handed>>

Take(p) ==
  /\ inhand = Nothing
  /\ position[p] # Unknown
  /\ \E to \in position[p] + 1 .. log[p] :
       /\ position' = [position EXCEPT ![p] = to]
       /\ inhand' = [inhand EXCEPT ![p] = position[p] .. to - 1]
  /\ UNCHANGED <<log, durable, handed>>

\* One message, or several at once, but always from the first on.
HandOver(p) ==
  /\ \E last \in inhand[p] :
       LET part == {o \in inhand[p] : o <= last} IN
       /\ handed' = [handed EXCEPT ![p] = @ \cup part]
       /\ inhand' = [inhand EXCEPT ![p] = @ \ part]
  /\ UNCHANGED <<log, durable, position>>

\* Some of the positions become durable.
Acknowledge ==
  \E acked \in SUBSET {p \in Partitions : position[p] # Unknown} :
    durable' = [p \in Partitions |-> IF p \in acked THEN position[p] ELSE durable[p]]

GiveUp(p) ==
  /\ inhand[p] # {}
  /\ inhand' = [inhand EXCEPT ![p] = {}]
  /\ Acknowledge
  /\ UNCHANGED <<log, position, handed>>

Commit == Acknowledge /\ UNCHANGED <<log, position, inhand, handed>>

\* The session is over; a new process does not even inherit the group.
Close ==
  /\ durable' \in {durable, NoOffset}
  /\ position' = NoOffset
  /\ inhand' = Nothing
  /\ handed' = Nothing
  /\ UNCHANGED log

Next ==
  \/ \E p \in Partitions : Append(p) \/ Take(p) \/ HandOver(p) \/ GiveUp(p)
  \/ Open \/ Commit \/ Close

Spec == Init /\ [][Next]_vars
=============================================================================
