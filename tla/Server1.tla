------------------------------- MODULE Server1 -------------------------------
(***************************************************************************)
(* The server1 process: node_kafka/server1/index.js, its producer handler, *)
(* KafkaProducer (libs/kafka/config/producer.js) and the kafkajs producer  *)
(* below it, composed with the process-wide Shutdown.                      *)
(*                                                                         *)
(* An interval sends PerTick messages without awaiting them.  A message is *)
(* its number.  A send fetches metadata when they are missing or expired,  *)
(* then makes a produce request.  After a failure kafkajs reconnects or    *)
(* refreshes its metadata, unless the error asks for neither, and only     *)
(* then tries again, or rejects: its retries are exhausted or the error is *)
(* not retriable.  Which failure is the last one is left open.  Microtasks *)
(* run to their end within a step, the process event of a rejection nobody *)
(* handles included.                                                       *)
(***************************************************************************)
EXTENDS Integers

CONSTANTS
  PerTick,                              \* messages an interval tick sends
  MaxTicks,                             \* bound: interval ticks
  MaxFaults,                            \* bound: failed requests, lost connections
  TermSignals, AbnormalSignals, Benign, None

Producer == "producer"

ASSUME ServerAssumption ==
  /\ PerTick \in Nat \ {0} /\ MaxTicks \in Nat /\ MaxFaults \in Nat
  /\ None # Producer

Sends == 1 .. PerTick * MaxTicks

VARIABLES
  alive, STATUS, callbackMap, traps, resource, promised, calls, ended,
  ticks,      \* interval ticks so far
  status,     \* connectionStatus of the kafkajs producer
  link,       \* a connection that disconnect() has not ended may be open
  sends,      \* where each send is
  appended,   \* how often the broker appended each message
  awaited,    \* sends whose request disconnect() waits for
  faults,     \* counter behind the bound
  calm        \* history: since shutdown began no send needed another request

SD == INSTANCE Shutdown WITH
  Resources <- {Producer},
  Names <- {"kafkaProducer"},
  NameOf <- [r \in {Producer} |-> "kafkaProducer"]

svars == <<alive, STATUS, callbackMap, traps, resource, promised, calls, ended>>
conn == <<status, link, awaited>>
msgs == <<sends, appended>>
server == <<svars, ticks, conn, msgs, faults>>
vars == <<server, calm>>

Requesting == {s \in Sends : sends[s] \in {"preparing", "producing"}}
Recovering == {s \in Sends : sends[s] = "recovering"}
Waiting == {s \in Sends : sends[s] = "waiting"}
Unsettled == Requesting \cup Recovering \cup Waiting

Init ==
  /\ SD!Init
  /\ ticks = 0
  /\ status = "disconnected"
  /\ link = "down"
  /\ sends = [s \in Sends |-> "none"]
  /\ appended = [s \in Sends |-> 0]
  /\ awaited = {}
  /\ faults = 0
  /\ calm = TRUE

-----------------------------------------------------------------------------
(* start(): the producer is connected, its callback registered, the         *)
(* interval set.                                                            *)

ServerInit == SD!ServerInit /\ UNCHANGED <<ticks, conn, msgs, faults>>
StartBegins == SD!Acquire(Producer) /\ UNCHANGED <<ticks, conn, msgs, faults>>

Connected ==
  /\ SD!Register(Producer)
  /\ status' = "connected"
  /\ link' = "up"
  /\ UNCHANGED <<ticks, awaited, msgs, faults>>

\* connect() gives up: start() rejects, nobody awaits it.
ConnectFails ==
  /\ SD!AcquireFails(Producer)
  /\ UNCHANGED <<ticks, conn, msgs, faults>>

-----------------------------------------------------------------------------
(* Shutdown.  KafkaProducer.shutdown calls disconnect() in the same step in *)
(* which gracefulShutdown invokes the callback.                             *)

AwaitNothing == {{}}
AwaitUnsettled == {Unsettled'}
\* Of the sends that recover from a failure, those whose request is on its way
\* over a connection that disconnect() finds.
AwaitRequests == {Requesting' \cup recovering : recovering \in SUBSET Recovering'}

\* What becomes of the link, the producer being taken down or not.
BeginDisconnect(otherwise) ==
  IF resource'[Producer] = "closing" /\ resource[Producer] # "closing"
  THEN /\ status' = "disconnecting"
       /\ link' = "down"
       /\ awaited' \in AwaitRequests
  ELSE status' = status /\ link' = otherwise

\* A rejection nobody handles reaches unexpectedErrorHandler.
Swallow(failing) == UNCHANGED svars
Reject(failing) ==
  IF failing = {} THEN UNCHANGED svars ELSE SD!UnexpectedError

ShutdownTrigger ==
  /\ \/ \E sig \in SD!Signals : SD!SignalTrapped(sig)
     \/ SD!UnexpectedError
  /\ UNCHANGED <<ticks, msgs, faults>>
  /\ BeginDisconnect(link)
  /\ resource' = resource => UNCHANGED awaited

SignalDefault ==
  /\ \E sig \in SD!Signals : SD!SignalDefault(sig)
  /\ UNCHANGED <<ticks, conn, msgs, faults>>

\* The requests disconnect() waits for have settled.  A connection that a later
\* attempt of some send opened meanwhile may be closed too, or be missed.
Disconnected ==
  /\ resource[Producer] = "closing"
  /\ awaited = {}
  /\ resource' = [resource EXCEPT ![Producer] = "closed"]
  /\ status' = "disconnected"
  /\ \/ UNCHANGED link
     \/ Requesting = {} /\ link' = "down"
  /\ UNCHANGED <<alive, STATUS, callbackMap, traps, promised, calls, ended,
                 ticks, awaited, msgs, faults>>

EndShutdown == SD!EndShutdown /\ UNCHANGED <<ticks, conn, msgs, faults>>

-----------------------------------------------------------------------------
(* Sending.                                                                 *)

Burst == PerTick * ticks + 1 .. PerTick * (ticks + 1)

\* validateConnectionStatus; `#producer` is null only when it is disconnected.
Accepts == status = "connected"

\* The interval's callback: its sends are accepted, or all of them reject, which
\* the callback does not see because report.send does not await them.
Tick ==
  /\ resource[Producer] \in {"open", "closing", "closed"}
  /\ ticks < MaxTicks
  /\ ticks' = ticks + 1
  /\ IF Accepts
     THEN /\ \E stale \in SUBSET Burst :
               sends' = [s \in Sends |->
                 IF s \notin Burst THEN sends[s]
                 ELSE IF s \in stale THEN "preparing" ELSE "producing"]
          /\ UNCHANGED svars
     ELSE /\ sends' = [s \in Sends |-> IF s \in Burst THEN "failed" ELSE sends[s]]
          /\ Reject(Burst)
  /\ UNCHANGED <<conn, appended, faults>>

\* Metadata arrive; the produce request opens a connection when there is none.
Prepared(s) ==
  /\ sends[s] = "preparing"
  /\ sends' = [sends EXCEPT ![s] = "producing"]
  /\ link' = "up"
  /\ awaited' = awaited \ {s}
  /\ UNCHANGED <<svars, ticks, status, appended, faults>>

AppendLater(s) == UNCHANGED appended
AppendOnce(s) == appended' = [appended EXCEPT ![s] = @ + 1]

\* The broker has appended the message and its answer arrives (acks = -1).
Acknowledged(s) ==
  /\ sends[s] = "producing"
  /\ sends' = [sends EXCEPT ![s] = "acked"]
  /\ AppendOnce(s)
  /\ awaited' = awaited \ {s}
  /\ UNCHANGED <<svars, ticks, status, link, faults>>

\* Requests fail: an error response, a timeout of one of them, or a lost
\* connection for all.  The broker may have appended their messages.  Where the
\* cluster is disconnected, the connection was lost or the metadata may be stale,
\* a send first recovers; otherwise it waits for its next attempt or is rejected.
RequestsFail ==
  /\ faults < MaxFaults
  /\ faults' = faults + 1
  /\ \E failing \in {{s} : s \in Requesting} \cup ({Requesting} \ {{}}) :
     \E after \in [failing -> {"recovering", "waiting", "failed"}] :
     \E kept \in SUBSET {s \in failing : sends[s] = "producing"} :
       /\ sends' = [s \in Sends |-> IF s \in failing THEN after[s] ELSE sends[s]]
       /\ appended' = [s \in Sends |->
            IF s \in kept THEN appended[s] + 1 ELSE appended[s]]
       /\ Reject({s \in failing : after[s] = "failed"})
       /\ BeginDisconnect(link)
       /\ resource' = resource => awaited' = awaited \ failing
  /\ UNCHANGED ticks

RecoverNever(s) == FALSE
RecoverDue(s) == sends[s] = "recovering"

\* cluster.connect() and refreshMetadata() have succeeded or given up, also after
\* the last attempt and in a producer that is shut down: only now is the error
\* thrown to the retrier.
Recovered(s) ==
  /\ RecoverDue(s)
  /\ \E after \in {"waiting", "failed"} :
       /\ sends' = [sends EXCEPT ![s] = after]
       /\ Reject(IF after = "failed" THEN {s} ELSE {})
  /\ BeginDisconnect("up")
  /\ resource' = resource => awaited' = awaited \ {s}
  /\ UNCHANGED <<ticks, appended, faults>>

RetryConnectedOnly(s) == sends[s] = "waiting" /\ status = "connected"
RetryDue(s) == sends[s] = "waiting"

\* The retrier's timer: a new attempt, which connects again where it must, the
\* producer's own status notwithstanding.
Retry(s) ==
  /\ RetryDue(s)
  /\ \E phase \in {"preparing", "producing"} :
       sends' = [sends EXCEPT ![s] = phase]
  /\ link' = "up"
  /\ UNCHANGED <<svars, ticks, status, awaited, appended, faults>>

Answer(s) == Prepared(s) \/ Acknowledged(s) \/ Recovered(s)

Next ==
  /\ alive
  /\ \/ ServerInit \/ StartBegins \/ Connected \/ ConnectFails
     \/ ShutdownTrigger \/ SignalDefault \/ Disconnected \/ EndShutdown
     \/ Tick \/ RequestsFail
     \/ \E s \in Sends : Prepared(s) \/ Acknowledged(s) \/ Recovered(s) \/ Retry(s)
  /\ calm' = (calm /\ (STATUS' = "SHUTDOWN" =>
       \A s \in Sends : sends'[s] \notin {"preparing", "recovering", "waiting"}))

Spec == Init /\ [][Next]_vars

\* Retry timers fire, continuations run, the broker answers a request that does
\* not fail, and a reconnect succeeds or gives up; faults are bounded.  Nothing
\* obliges an interval or a signal.
FairSpec ==
  /\ Spec
  /\ \A s \in Sends : WF_server(alive /\ Answer(s)) /\ WF_server(alive /\ Retry(s))
  /\ WF_server(alive /\ Disconnected)
  /\ WF_server(alive /\ EndShutdown)

-----------------------------------------------------------------------------
(* Properties.                                                              *)

\* Every variable keeps its type.
TypeOK ==
  /\ SD!TypeOK
  /\ ticks \in 0 .. MaxTicks
  /\ status \in {"disconnected", "connected", "disconnecting"}
  /\ link \in {"up", "down"}
  /\ sends \in [Sends -> {"none", "preparing", "producing", "recovering", "waiting",
                          "acked", "failed"}]
  /\ appended \in [Sends -> Nat]
  /\ awaited \subseteq Requesting \cup Recovering
  /\ faults \in 0 .. MaxFaults
  /\ calm \in BOOLEAN

\* A send that resolved is in the log, and was appended twice only when one of
\* its requests failed: at least once, with no duplicate that no fault explains.
ResolvedIsAppended ==
  \A s \in Sends : sends[s] = "acked" => appended[s] \in 1 .. 1 + faults

\* When every unfinished send is waiting for the answer of its produce request
\* as shutdown begins, and none of them needs another request afterwards, closing
\* the producer loses none of them and leaves no connection behind.  (A request
\* that fails after disconnect() makes kafkajs connect again before the error is
\* thrown, even for the last time; so does a send that still prepares or retries.
\* Nobody closes the connection they open.)
CleanShutdownDrains ==
  resource[Producer] = "closed" /\ calm => Unsettled = {} /\ link = "down"

\* Nothing in the server handles a failed send, so it ends in a shutdown of the
\* producer, unless the producer had come up behind a shutdown already.
FailureStopsServer ==
  \A s \in Sends :
    sends[s] = "failed" ~>
      \/ resource[Producer] = "closed"
      \/ STATUS = "SHUTDOWN" /\ promised = {}
      \/ ~alive

\* Every send settles, whether or not the producer is shut down under it.
EverySendSettles ==
  \A s \in Sends :
    s \in Unsettled ~> (sends[s] \in {"acked", "failed"} \/ ~alive)
=============================================================================
