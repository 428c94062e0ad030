--------------------------- MODULE KafkaJsConsumer ---------------------------
(***************************************************************************)
(* The kafkajs consumer object as KafkaConsumer drives it                  *)
(* (kafkajs/src/consumer/index.js and runner.js): run() starts a Runner,   *)
(* which may crash; the crash handler disconnects and may set a timer that *)
(* starts the next Runner; disconnect() may be called by the application   *)
(* and by crash handlers at the same time and shares one stop().           *)
(*                                                                         *)
(* An instance is one ConsumerGroup + Runner made by start(onCrash).       *)
(***************************************************************************)
EXTENDS Naturals, FiniteSets

CONSTANTS
  MaxInstances,   \* bound: starts of the consumer
  App,            \* the application as a caller of disconnect()
  None            \* no runner, no timer

Instances == 1 .. MaxInstances
Callers == Instances \cup {App}

ASSUME ConsumerAssumption ==
  MaxInstances \in Nat \ {0} /\ App \notin Instances /\ None \notin Callers

VARIABLES
  inst,           \* life of each instance
  restartable,    \* instances whose crash asks for a restart
  runner,         \* index.js: the `runner` reference
  stopOf,         \* the instance the shared stop() promise is waiting for
  disconnecting,  \* where each caller of disconnect() is: in stop() or beyond
  timers,         \* crash handlers whose restart timer is pending
  restartTimeout  \* index.js: the last timer set

kvars == <<inst, restartable, runner, stopOf, disconnecting, timers,
           restartTimeout>>

InstanceStates == {"unborn", "starting", "running", "stopping", "crashed", "down"}
Live(i) == inst[i] \in {"starting", "running"}

KInit ==
  /\ inst = [i \in Instances |-> "unborn"]
  /\ restartable = {}
  /\ runner = None
  /\ stopOf = None
  /\ disconnecting = [c \in Callers |-> "no"]
  /\ timers = {}
  /\ restartTimeout = None

-----------------------------------------------------------------------------
StartNextSlot ==
  \E i \in Instances :
    /\ inst[i] = "unborn"
    /\ \A j \in Instances : j < i => inst[j] # "unborn"
    /\ inst' = [inst EXCEPT ![i] = "starting"]
    /\ runner' = i + 1

\* start(onCrash): a new ConsumerGroup and a new Runner, which begins to join.
Start ==
  \E i \in Instances :
    /\ inst[i] = "unborn"
    /\ \A j \in Instances : j < i => inst[j] # "unborn"
    /\ inst' = [inst EXCEPT ![i] = "starting"]
    /\ runner' = i

\* Runner.start: joined.  Nobody looks whether the consumer was stopped meanwhile.
Joined(i) ==
  /\ inst[i] = "starting"
  /\ inst' = [inst EXCEPT ![i] = "running"]
  /\ UNCHANGED <<restartable, runner, stopOf, disconnecting, timers,
                 restartTimeout>>

ClearNothing == UNCHANGED timers
ClearTimer == timers' = timers \ {restartTimeout}

\* disconnect() of caller c up to its first await.  stop() is shared: a second
\* caller joins the running one.  A runner that is not running has nothing to
\* wait for.  next is the instances' state after what the caller did itself.
Disconnect(c, next) ==
  IF stopOf # None
  THEN /\ inst' = next
       /\ disconnecting' = [disconnecting EXCEPT ![c] = "stopping"]
       /\ UNCHANGED <<runner, stopOf, timers>>
  ELSE IF runner # None /\ inst[runner] = "running"
  THEN /\ stopOf' = runner
       /\ inst' = [next EXCEPT ![runner] = IF @ = "running" THEN "stopping" ELSE @]
       /\ disconnecting' = [disconnecting EXCEPT ![c] = "stopping"]
       /\ UNCHANGED <<runner, timers>>
  ELSE /\ inst' = next
       /\ runner' = None
       /\ ClearTimer
       /\ disconnecting' = [disconnecting EXCEPT ![c] = "stopped"]
       /\ UNCHANGED stopOf

\* onCrash(e): a failed start, or a fetch loop whose retrier gave up, a loop that
\* is being stopped included.  An error is restartable when its retries were
\* exhausted or its original cause is retriable.
Crash(i) ==
  /\ inst[i] \in {"starting", "running", "stopping"}
  /\ restartable' \in {restartable, restartable \cup {i}}
  /\ Disconnect(i, [inst EXCEPT ![i] = "crashed"])
  /\ UNCHANGED restartTimeout

\* The promise of the shared stop() resolves for everyone who awaits it.
ReleaseOwnCaller ==
  disconnecting' = [c \in Callers |->
    IF c = stopOf THEN "stopped" ELSE disconnecting[c]]
ReleaseStoppers ==
  disconnecting' = [c \in Callers |->
    IF disconnecting[c] = "stopping" THEN "stopped" ELSE disconnecting[c]]

\* runner.stop() is over: left the group.
StopDone ==
  /\ stopOf # None
  /\ inst' = [inst EXCEPT ![stopOf] = IF @ = "stopping" THEN "down" ELSE @]
  /\ runner' = None
  /\ stopOf' = None
  /\ ReleaseStoppers
  /\ ClearTimer
  /\ UNCHANGED <<restartable, restartTimeout>>

\* The rest of onCrash, once cluster.disconnect() has resolved: emit CRASH, and
\* set the timer.
RestartOnce(i) == i \in restartable /\ restartTimeout = None
ShouldRestart(i) == i \in restartable

CrashHandled(i) ==
  /\ inst[i] = "crashed"
  /\ disconnecting[i] = "stopped"
  /\ inst' = [inst EXCEPT ![i] = "down"]
  /\ disconnecting' = [disconnecting EXCEPT ![i] = "no"]
  /\ IF ShouldRestart(i)
     THEN timers' = timers \cup {i} /\ restartTimeout' = i
     ELSE UNCHANGED <<timers, restartTimeout>>
  /\ UNCHANGED <<restartable, runner, stopOf>>

IntervalFires(i) ==
  /\ i \in timers
  /\ Start
  /\ UNCHANGED <<timers, restartable, stopOf, disconnecting, restartTimeout>>

TimerFires(i) ==
  /\ i \in timers
  /\ timers' = timers \ {i}
  /\ Start
  /\ UNCHANGED <<restartable, stopOf, disconnecting, restartTimeout>>

\* disconnect() of the application resolves.
Disconnected ==
  /\ disconnecting[App] = "stopped"
  /\ disconnecting' = [disconnecting EXCEPT ![App] = "no"]
  /\ UNCHANGED <<inst, restartable, runner, stopOf, timers, restartTimeout>>
=============================================================================
