------------------------------ MODULE ThChecker ------------------------------
(***************************************************************************)
(* The th-checker server: node_kafka/th-checker/index.js.  One process     *)
(* with one Kafka consumer, brought up by the report handler's init, whose *)
(* shutdown callback is KafkaConsumer.shutdown.  Composes the process-wide *)
(* Shutdown with the kafkajs consumer object.                              *)
(***************************************************************************)
EXTENDS KafkaJsConsumer

CONSTANTS TermSignals, AbnormalSignals, Benign

ASSUME ServerAssumption == None # "consumer"

VARIABLES
  alive, STATUS, callbackMap, traps, resource, promised, calls, ended,
  initPc,  \* how far report.init has come
  calm     \* history: no start and no crash was in flight since shutdown began

Names == {"kafkaConsumer"}
NameOf == [r \in {"consumer"} |-> "kafkaConsumer"]
SD == INSTANCE Shutdown WITH Resources <- {"consumer"}

svars == <<alive, STATUS, callbackMap, traps, resource, promised, calls, ended>>
server == <<kvars, svars, initPc>>
vars == <<server, calm>>

Init ==
  /\ KInit
  /\ SD!Init
  /\ initPc = "idle"
  /\ calm = TRUE

-----------------------------------------------------------------------------
(* start(): the consumer is connected and its callback registered.          *)

ServerInit == SD!ServerInit /\ UNCHANGED <<kvars, initPc>>

InitBegin ==
  /\ initPc = "idle"
  /\ SD!Acquire("consumer")
  /\ initPc' = "connecting"
  /\ UNCHANGED kvars

\* subscribe() succeeded; run() makes the first instance.
RunStarts ==
  /\ initPc = "connecting"
  /\ Start
  /\ initPc' = "running"
  /\ UNCHANGED <<restartable, stopOf, disconnecting, timers, restartTimeout,
                 svars>>

\* subscribe() rejects, or run() returns: it awaits the join or, when the join
\* fails, the whole crash handler.  init logs a rejection and returns normally,
\* so the callback is registered either way.
RunIsOver ==
  \/ initPc = "connecting"
  \/ initPc = "running" /\ inst[1] \notin {"starting", "crashed"}

InitDone ==
  /\ RunIsOver
  /\ initPc' = "done"
  /\ SD!Register("consumer")
  /\ UNCHANGED kvars

-----------------------------------------------------------------------------
(* Shutdown.  KafkaConsumer.shutdown calls disconnect() in the same step in *)
(* which gracefulShutdown invokes the callbacks.                            *)

ShutdownTrigger ==
  /\ \/ \E s \in SD!Signals : SD!SignalTrapped(s)
     \/ SD!UnexpectedError
  /\ IF resource' # resource
     THEN /\ Disconnect(App, inst)
          /\ UNCHANGED <<restartable, restartTimeout>>
     ELSE UNCHANGED kvars
  /\ UNCHANGED initPc

SignalDefault ==
  /\ \E s \in SD!Signals : SD!SignalDefault(s)
  /\ UNCHANGED <<kvars, initPc>>

\* disconnect() of the callback resolves; `#consumer = null`.
Closed ==
  /\ Disconnected
  /\ resource["consumer"] = "closing"
  /\ resource' = [resource EXCEPT !["consumer"] = "closed"]
  /\ UNCHANGED <<alive, STATUS, callbackMap, traps, promised, calls, ended,
                 initPc>>

EndShutdown == SD!EndShutdown /\ UNCHANGED <<kvars, initPc>>

-----------------------------------------------------------------------------
(* The consumer.  The CRASH listener calls consumerReconnect, which only    *)
(* reads the property `this.gracefulShutdown` and therefore never fails:    *)
(* nothing else in the process changes, and crashCallback is never called.  *)

ConsumerReconnect == UNCHANGED svars

Consumer ==
  /\ \/ \E i \in Instances :
          \/ Joined(i)
          \/ Crash(i)
          \/ TimerFires(i)
     \/ StopDone
  /\ UNCHANGED <<svars, initPc>>

CrashEvent ==
  /\ \E i \in Instances : CrashHandled(i)
  /\ ConsumerReconnect
  /\ UNCHANGED initPc

InstancesSettled ==
  \A i \in Instances : inst[i] \notin {"starting", "crashed"}

Next ==
  /\ alive
  /\ \/ ServerInit \/ InitBegin \/ RunStarts \/ InitDone
     \/ ShutdownTrigger \/ SignalDefault \/ Closed \/ EndShutdown
     \/ Consumer \/ CrashEvent
  /\ calm' = (calm /\ (STATUS' = "SHUTDOWN" => InstancesSettled'))

Spec == Init /\ [][Next]_vars

\* Promises and timers that are due run; stop() and disconnect() are bounded by
\* kafkajs' request timeouts.  Nothing obliges a join to succeed or fail, a
\* signal to come or a consumer to crash.
FairSpec ==
  /\ Spec
  /\ WF_server(alive /\ StopDone /\ UNCHANGED <<svars, initPc>>)
  /\ WF_server(alive /\ CrashEvent)
  /\ WF_server(alive /\ Closed)
  /\ WF_server(alive /\ EndShutdown)
  /\ \A i \in Instances :
       WF_server(alive /\ TimerFires(i) /\ UNCHANGED <<svars, initPc>>)

-----------------------------------------------------------------------------
(* Properties.                                                              *)

\* Every variable keeps its type.
TypeOK ==
  /\ SD!TypeOK
  /\ inst \in [Instances -> InstanceStates]
  /\ restartable \subseteq Instances
  /\ runner \in Instances \cup {None}
  /\ stopOf \in Instances \cup {None}
  /\ disconnecting \in [Callers -> {"no", "stopping", "stopped"}]
  /\ timers \subseteq Instances
  /\ restartTimeout \in Instances \cup {None}
  /\ initPc \in {"idle", "connecting", "running", "done"}
  /\ calm \in BOOLEAN

\* When shutdown finds the consumer running, waiting for its restart timer, or
\* already gone, and no start and no crash falls into it, then after it no Runner
\* consumes and no timer can start one.  (A shutdown that meets a start or a
\* crash promises nothing: the join or the crash handler completes behind it.)
CleanShutdownIsFinal ==
  resource["consumer"] = "closed" /\ calm =>
    /\ timers = {}
    /\ \A i \in Instances : ~Live(i)

\* A process never has a restart timer beside a consumer that joins or runs,
\* and never two of either: two Runners would take the same batches twice.
OneConsumerAtATime ==
  Cardinality({i \in Instances : Live(i)} \cup timers) <= 1

\* A crash that asks for a restart is followed by the next Runner, unless the
\* server shuts down or is killed first.
RestartFollowsCrash ==
  \A i \in Instances \ {MaxInstances} :
    inst[i] = "down" /\ i \in restartable ~>
      \/ inst[i + 1] # "unborn"
      \/ STATUS = "SHUTDOWN"
      \/ ~alive

\* Shutdown ends whatever the consumer was doing, the crash handler that shares
\* its stop() included.
ShutdownEnds == STATUS = "SHUTDOWN" ~> (ended \/ ~alive)

\* report.js:55-56: on a non-retriable error "the consumer is usually dead, so
\* registering shutdown as crashCallback is recommended", and that is what is
\* registered: a consumer that crashed for good shuts the server down.
DeadConsumerShutsDown ==
  \A i \in Instances :
    inst[i] = "down" /\ disconnecting[i] = "no" /\ i \notin restartable ~>
      (STATUS # "ACTIVE" \/ ~alive)
=============================================================================
