--------------------------- MODULE KafkaProducer ---------------------------
(***************************************************************************)
(* The class KafkaProducer (node_kafka/libs/kafka/config/producer.js):     *)
(* start, producerReconnect and shutdown, called in any order and before   *)
(* earlier calls have settled, over the kafkajs producers they make and    *)
(* the one field they share, #producer.  A call runs from await to await.  *)
(* Whether a connect comes within #boundTime of the last one is            *)
(* nondeterminism, as is whether a connect succeeds.  Sending is the       *)
(* business of module Server1.                                             *)
(***************************************************************************)
EXTENDS Integers, FiniteSets

CONSTANTS
  Calls,            \* the calls that will be made
  ReconnectCount,   \* #reconnectCount
  MaxFast,          \* #maxfastReconnectCount
  None              \* null

ASSUME ProducerAssumption ==
  /\ ReconnectCount \in Nat \ {0}
  /\ MaxFast \in Nat \ {0}
  /\ None \notin Nat

VARIABLES
  producer,         \* #producer: number of a kafkajs producer, or None
  made,             \* kafkajs producers made so far: 1 .. made
  status,           \* connectionStatus of each
  fast,             \* #fastReconnectCount
  kind,             \* which method a call is of
  pc,               \* where a call waits
  obj,              \* the kafkajs producer whose promise it waits for
  tries,            \* failed rounds of its retry
  latest,           \* history: the call that began last
  overlapped        \* history: a start or reconnect overlapped another call

this == <<producer, made, status, fast>>
call == <<pc, obj, tries>>
history == <<kind, latest, overlapped>>
vars == <<this, call, history>>

Kinds == {"start", "reconnect", "shutdown"}
Settled == {"resolved", "rejected"}
Labels == Settled \cup {"idle", "again", "closing", "closed", "listening", "ready",
                       "connecting"}
InProgress == {c \in Calls : pc[c] \notin Settled \cup {"idle"}}

Init ==
  /\ producer = None
  /\ made = 0
  /\ status = [o \in 1 .. 0 |-> "disconnected"]
  /\ fast = 0
  /\ kind = [c \in Calls |-> "shutdown"]
  /\ pc = [c \in Calls |-> "idle"]
  /\ obj = [c \in Calls |-> None]
  /\ tries = [c \in Calls |-> 0]
  /\ latest = None
  /\ overlapped = FALSE

-----------------------------------------------------------------------------
(* Pieces of the methods.                                                   *)

Goto(c, label) == pc' = [pc EXCEPT ![c] = label]

Await(c, label) ==
  /\ Goto(c, label)
  /\ obj' = [obj EXCEPT ![c] = producer]

ReleaseNothing(c) == UNCHANGED obj
Release(c) == obj' = [obj EXCEPT ![c] = None]

\* start(), up to its first await: a new kafkajs producer with its listener.
Create(c) ==
  /\ made' = made + 1
  /\ producer' = made'
  /\ status' = [o \in 1 .. made' |-> IF o = made' THEN "disconnected" ELSE status[o]]
  /\ Goto(c, "listening")
  /\ UNCHANGED <<fast, obj, tries>>

\* shutdown(), up to its await, as a method of its own (k) or in producerReconnect.
Behind(k) == IF k = "shutdown" THEN "resolved" ELSE "closed"

DropThenClose(c, k) ==
  /\ producer' = None
  /\ Goto(c, Behind(k))
  /\ UNCHANGED <<made, status, fast, obj, tries>>

Close(c, k) ==
  \/ /\ producer # None
     /\ Await(c, "closing")
     /\ status' = [status EXCEPT ![producer] = "disconnecting"]
     /\ UNCHANGED <<producer, made, fast, tries>>
  \/ /\ producer = None
     /\ Goto(c, Behind(k))
     /\ UNCHANGED <<this, obj, tries>>

\* A round of producerReconnect has failed: once more, or the result is false.
TryAgain(c) ==
  /\ tries' = [tries EXCEPT ![c] = @ + 1]
  /\ Goto(c, IF tries'[c] < ReconnectCount THEN "again" ELSE "rejected")

\* start() resolves, and with it the call: producerReconnect with true.
StartResolves(c) == Goto(c, "resolved") /\ UNCHANGED tries

StartRejects(c) ==
  \/ kind[c] = "start" /\ Goto(c, "rejected") /\ UNCHANGED tries
  \/ kind[c] = "reconnect" /\ TryAgain(c)

-----------------------------------------------------------------------------
(* A call begins.  start is called once, by the handler's init.             *)

Begin(c, k) ==
  /\ pc[c] = "idle"
  /\ kind' = [kind EXCEPT ![c] = k]
  /\ latest' = c
  /\ overlapped' = (overlapped \/
       \E d \in InProgress : k # "shutdown" \/ kind[d] # "shutdown")

Start(c) ==
  /\ made = 0
  /\ Begin(c, "start")
  /\ Create(c)

\* producerReconnect and shutdown: both begin with shutdown().
ReconnectOrShutdown(c) ==
  \E k \in {"reconnect", "shutdown"} : Begin(c, k) /\ Close(c, k)

\* shutdown() of a further round of producerReconnect.
NextRound(c) ==
  /\ pc[c] = "again"
  /\ Close(c, "reconnect")
  /\ UNCHANGED history

(* Continuations.                                                           *)

DisconnectedOfField(c) ==
  /\ pc[c] = "closing" /\ producer = obj[c]
  /\ status' = [status EXCEPT ![producer] = "disconnected"]
  /\ producer' = None
  /\ Goto(c, Behind(kind[c]))
  /\ Release(c)
  /\ UNCHANGED <<made, fast, tries, history>>

\* disconnect() is over: whatever #producer is by now, it is dropped.
Disconnected(c) ==
  /\ pc[c] = "closing"
  /\ status' = [status EXCEPT ![obj[c]] = "disconnected"]
  /\ producer' = None
  /\ Goto(c, Behind(kind[c]))
  /\ Release(c)
  /\ UNCHANGED <<made, fast, tries, history>>

StartAgain(c) ==
  /\ pc[c] = "closed"
  /\ Create(c)
  /\ UNCHANGED history

\* The second listener is for whatever #producer is by now; null throws.
Listen(c) ==
  /\ pc[c] = "listening"
  /\ \/ producer # None /\ Goto(c, "ready") /\ UNCHANGED tries
     \/ producer = None /\ StartRejects(c)
  /\ UNCHANGED <<this, obj, history>>

\* if (#producer) await connect(): without one, start resolves all the same.
Connect(c) ==
  /\ pc[c] = "ready"
  /\ \/ producer # None /\ Await(c, "connecting") /\ UNCHANGED tries
     \/ producer = None /\ StartResolves(c) /\ UNCHANGED obj
  /\ UNCHANGED <<this, history>>

CheckBeforeCount(c) ==
  /\ fast' \in {0, fast + 1}
  /\ \/ fast < MaxFast /\ StartResolves(c)
     \/ fast >= MaxFast /\ StartRejects(c)

\* The CONNECT listener: #periodicReconnectionChecker.  At the limit it calls
\* #errorCallback, which is undefined: connect() rejects although it connected.
CountFast(c) ==
  \/ fast' = 0 /\ StartResolves(c)
  \/ /\ fast' = fast + 1
     /\ \/ fast' < MaxFast /\ StartResolves(c)
        \/ fast' >= MaxFast /\ StartRejects(c)

ConnectSucceeds(c) ==
  /\ pc[c] = "connecting"
  /\ status' = [status EXCEPT ![obj[c]] = "connected"]
  /\ CountFast(c)
  /\ Release(c)
  /\ UNCHANGED <<producer, made, history>>

ConnectFails(c) ==
  /\ pc[c] = "connecting"
  /\ status[obj[c]] # "connected"
  /\ StartRejects(c)
  /\ Release(c)
  /\ UNCHANGED <<this, history>>

Continue(c) ==
  \/ NextRound(c) \/ Disconnected(c) \/ StartAgain(c) \/ Listen(c) \/ Connect(c)
  \/ ConnectSucceeds(c) \/ ConnectFails(c)

Next ==
  \E c \in Calls : Start(c) \/ ReconnectOrShutdown(c) \/ Continue(c)

Spec == Init /\ [][Next]_vars

\* Promises that are settled continue; disconnect and connect settle, because
\* kafkajs bounds their requests by timeouts and its retries by a count.
FairSpec == Spec /\ \A c \in Calls : WF_vars(Continue(c))

-----------------------------------------------------------------------------
(* Properties.                                                              *)

\* Every variable keeps its type.
TypeOK ==
  /\ producer \in 1 .. made \cup {None}
  /\ made \in Nat
  /\ status \in [1 .. made -> {"connected", "disconnecting", "disconnected"}]
  /\ fast \in Nat
  /\ kind \in [Calls -> Kinds]
  /\ pc \in [Calls -> Labels]
  /\ obj \in [Calls -> 1 .. made \cup {None}]
  /\ \A c \in Calls : obj[c] # None <=> pc[c] \in {"closing", "connecting"}
  /\ tries \in [Calls -> Nat]
  /\ latest \in Calls \cup {None}
  /\ overlapped \in BOOLEAN

Connected == {o \in 1 .. made : status[o] = "connected"}

\* Unless a start or a reconnect overlapped another call, every connected kafkajs
\* producer is the one in #producer: however often connects fail, the retry
\* goes round or shutdowns overlap, no connection is left that nobody can close.
NoOrphan == ~overlapped => Connected \subseteq {producer}

\* Without such overlaps a call's result tells the truth about the connection:
\* resolved (or true) is connected, a finished shutdown left nothing, and
\* rejected (or false) is not connected, except that at the limit of fast
\* reconnects a start fails whose connection stands.
ResultTellsConnection ==
  ~overlapped => \A c \in Calls : latest = c =>
    /\ pc[c] = "resolved" /\ kind[c] # "shutdown" => Connected = {producer}
    /\ pc[c] = "resolved" /\ kind[c] = "shutdown" => producer = None
    /\ pc[c] = "rejected" /\ fast < MaxFast => Connected = {}

\* Every call settles, overlapped or not: a reconnect whose connects all fail
\* gives up, and no call waits for a promise another one has dropped.
CallsSettle == \A c \in Calls : c \in InProgress ~> pc[c] \in Settled
=============================================================================
