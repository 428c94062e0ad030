------------------------------ MODULE Shutdown ------------------------------
(***************************************************************************)
(* Process-wide graceful shutdown: node_kafka/libs/shutdown.js, as the     *)
(* servers use it.  A server calls init() once, then acquires its          *)
(* resources (a Kafka producer, a Kafka consumer) and registers a shutdown *)
(* callback for each one after the resource is up.  Signals, unhandled     *)
(* rejections and uncaught exceptions may reach gracefulShutdown at any    *)
(* moment, in any order and more than once.                                *)
(***************************************************************************)
EXTENDS Naturals

CONSTANTS
  Resources,         \* the resources the process acquires
  Names,             \* the names addCallBack registers them under
  NameOf,            \* NameOf[r]: the name resource r is registered under
  TermSignals,       \* trapped by intentionalShutdownHandler
  AbnormalSignals,   \* trapped by abnormalSignalTrapHandler
  Benign,            \* signals whose default action leaves node running (SIGUSR1)
  None               \* no callback under that name

Signals == TermSignals \cup AbnormalSignals

ASSUME ShutdownAssumption ==
  /\ NameOf \in [Resources -> Names]
  /\ None \notin Resources

VARIABLES
  alive,        \* the operating system process exists
  STATUS,       \* SERVER_STATUS
  callbackMap,  \* name -> resource whose shutdown callback is registered
  traps,        \* signals whose process.once listener is still installed
  resource,     \* where each resource is in its life
  promised,     \* history: what the one running gracefulShutdown has to close
  calls,        \* history: how often each shutdown callback was invoked
  ended         \* gracefulShutdown ran to its end ("End Shutdown")

vars == <<alive, STATUS, callbackMap, traps, resource, promised, calls, ended>>

Statuses == {"INACTIVE", "ACTIVE", "SHUTDOWN"}
ResourceStates == {"none", "acquiring", "open", "closing", "closed", "failed"}
NoCallbacks == [n \in Names |-> None]

Init ==
  /\ alive = TRUE
  /\ STATUS = "INACTIVE"
  /\ callbackMap = NoCallbacks
  /\ traps = {}
  /\ resource = [r \in Resources |-> "none"]
  /\ promised = {}
  /\ calls = [r \in Resources |-> 0]
  /\ ended = FALSE

-----------------------------------------------------------------------------
(* gracefulShutdown(type).  Array.map calls every callback before the first *)
(* of them can settle, so the part up to the await is one step.             *)

Registered == {callbackMap[n] : n \in Names} \ {None}

MayShutdownTwice == STATUS # "INACTIVE"
MayShutdown == STATUS = "ACTIVE"

\* res is the state in which the caller leaves the resources.
GracefulShutdown(res) ==
  IF MayShutdown
  THEN /\ STATUS' = "SHUTDOWN"
       /\ promised' = Registered
       /\ calls' = [r \in Resources |->
                      IF r \in Registered THEN calls[r] + 1 ELSE calls[r]]
       /\ resource' = [r \in Resources |->
                         IF r \in Registered THEN "closing" ELSE res[r]]
  ELSE resource' = res /\ UNCHANGED <<STATUS, promised, calls>>

\* A callback of the running shutdown resolves, or rejects and is caught.
CallbackSettles(r) ==
  /\ resource[r] = "closing"
  /\ \E outcome \in {"closed", "failed"} :
       resource' = [resource EXCEPT ![r] = outcome]
  /\ UNCHANGED <<alive, STATUS, callbackMap, traps, promised, calls, ended>>

AnySettled == promised = {} \/ \E r \in promised : resource[r] # "closing"
AllResolved == \A r \in promised : resource[r] = "closed"
AllSettled == \A r \in promised : resource[r] # "closing"

\* Promise.all is fulfilled; the map is cleared.
EndShutdown ==
  /\ STATUS = "SHUTDOWN"
  /\ ~ended
  /\ AllSettled
  /\ callbackMap' = NoCallbacks
  /\ ended' = TRUE
  /\ UNCHANGED <<alive, STATUS, traps, resource, promised, calls>>

-----------------------------------------------------------------------------
(* init and the handlers it installs.                                       *)

TrapTermOnly == TermSignals
Trapped == Signals

ServerInit ==
  /\ STATUS = "INACTIVE"
  /\ STATUS' = "ACTIVE"
  /\ traps' = Trapped
  /\ UNCHANGED <<alive, callbackMap, resource, promised, calls, ended>>

\* The first delivery of a signal finds the once-listener, which is removed;
\* a later one meets the default action of the signal.
SignalTrapped(s) ==
  /\ s \in traps
  /\ traps' = traps \ {s}
  /\ GracefulShutdown(resource)
  /\ UNCHANGED <<alive, callbackMap, ended>>

SignalDefault(s) ==
  /\ s \notin traps \cup Benign
  /\ alive' = FALSE
  /\ UNCHANGED <<STATUS, callbackMap, traps, resource, promised, calls, ended>>

\* unhandledRejection and uncaughtException stay trapped (process.on).
UnexpectedError ==
  /\ STATUS # "INACTIVE"
  /\ GracefulShutdown(resource)
  /\ UNCHANGED <<alive, callbackMap, traps, ended>>

-----------------------------------------------------------------------------
(* The servers: start() acquires a resource and registers it afterwards.    *)

Acquire(r) ==
  /\ STATUS # "INACTIVE"
  /\ resource[r] = "none"
  /\ resource' = [resource EXCEPT ![r] = "acquiring"]
  /\ UNCHANGED <<alive, STATUS, callbackMap, traps, promised, calls, ended>>

Addable(n) == callbackMap[n] = None

AddKeyAsValue(n, r) ==
  callbackMap' = IF Addable(n) THEN [callbackMap EXCEPT ![n] = n] ELSE callbackMap
AddCallBack(n, r) ==
  callbackMap' = IF Addable(n) THEN [callbackMap EXCEPT ![n] = r] ELSE callbackMap

Register(r) ==
  /\ resource[r] = "acquiring"
  /\ resource' = [resource EXCEPT ![r] = "open"]
  /\ AddCallBack(NameOf[r], r)
  /\ UNCHANGED <<alive, STATUS, traps, promised, calls, ended>>

\* The producer's start() rejects; nobody awaits the server's start().
AcquireFails(r) ==
  /\ resource[r] = "acquiring"
  /\ GracefulShutdown([resource EXCEPT ![r] = "failed"])
  /\ UNCHANGED <<alive, callbackMap, traps, ended>>

Next ==
  /\ alive
  /\ \/ ServerInit
     \/ \E s \in Signals : SignalTrapped(s) \/ SignalDefault(s)
     \/ UnexpectedError
     \/ \E r \in Resources :
          Acquire(r) \/ Register(r) \/ AcquireFails(r) \/ CallbackSettles(r)
     \/ EndShutdown

Spec == Init /\ [][Next]_vars

\* Callbacks settle (kafkajs bounds every request of a disconnect by a timeout)
\* and the continuation of a fulfilled promise runs.
FairSpec ==
  /\ Spec
  /\ \A r \in Resources : WF_vars(alive /\ CallbackSettles(r))
  /\ WF_vars(alive /\ EndShutdown)

-----------------------------------------------------------------------------
(* Properties.                                                              *)

\* Every variable keeps its type.
TypeOK ==
  /\ alive \in BOOLEAN
  /\ STATUS \in Statuses
  /\ callbackMap \in [Names -> Resources \cup {None}]
  /\ traps \subseteq Signals
  /\ resource \in [Resources -> ResourceStates]
  /\ promised \subseteq Resources
  /\ calls \in [Resources -> Nat]
  /\ ended \in BOOLEAN

\* However many signals and errors arrive, and in whatever order, no shutdown
\* callback is invoked twice (kafkajs disconnect is not meant to be re-entered
\* while `#consumer = null` of the first call is still pending).
CallbackAtMostOnce == \A r \in Resources : calls[r] <= 1

\* "End Shutdown" is not reached while a callback that was registered when the
\* shutdown began has not settled, one that failed included.
EndMeansSettled ==
  ended => \A r \in promised : resource[r] \in {"closed", "failed"}

\* No signal ends an initialised process that has not begun to shut down: the
\* first delivery of each signal is trapped.
NoKillBeforeShutdown == ~alive => STATUS # "ACTIVE"

\* A begun shutdown ends, even when callbacks reject, unless a repeated signal
\* kills the process first.
ShutdownEnds == STATUS = "SHUTDOWN" ~> (ended \/ ~alive)

\* libs/shutdown.js:18: the shutdown callbacks of the registered resources are
\* carried out.  Stated of every resource that addCallBack accepted.
EveryRegisteredResourceIsClosed ==
  ended => \A r \in Resources : resource[r] # "open"
=============================================================================
