--------------------------- MODULE ThCheckerProofs ---------------------------
(***************************************************************************)
(* Proofs about ThChecker for any number of restarts: the process is an    *)
(* instance of Shutdown, so that everything proved about that module holds *)
(* of it; no two Runners and no Runner beside a restart timer; and a       *)
(* shutdown that meets no start and no crash leaves nothing that consumes. *)
(***************************************************************************)
EXTENDS ThChecker, FiniteSetTheorems, TLAPS

Process == INSTANCE ShutdownProofs WITH Resources <- {"consumer"}

-----------------------------------------------------------------------------
(* The process is an instance of Shutdown.                                  *)

\* What a shutdown does to the kafkajs consumer has no part in Shutdown.
LEMMA ProcessStep ==
  ASSUME [Next]_vars
  PROVE  [SD!Next]_SD!vars
<1> USE DEF svars, SD!vars
<1>1. CASE UNCHANGED vars
  BY <1>1 DEF vars, server
<1>2. CASE alive /\ (ServerInit \/ InitBegin \/ InitDone)
  BY <1>2 DEF ServerInit, InitBegin, InitDone, SD!Next
<1>3. CASE alive /\ (ShutdownTrigger \/ SignalDefault \/ EndShutdown)
  BY <1>3 DEF ShutdownTrigger, SignalDefault, EndShutdown, SD!Next
<1>4. CASE alive /\ Closed
  <2>1. SD!CallbackSettles("consumer")
    BY <1>4 DEF Closed, SD!CallbackSettles
  <2> QED BY <1>4, <2>1 DEF SD!Next
<1>5. CASE RunStarts \/ Consumer \/ CrashEvent
  BY <1>5 DEF RunStarts, Consumer, CrashEvent, ConsumerReconnect
<1> QED BY <1>1, <1>2, <1>3, <1>4, <1>5 DEF Next

\* The th-checker's process, with its one consumer, behaves as Shutdown says.
THEOREM ProcessIsShutdown == Spec => SD!Spec
<1>1. Init => SD!Init
  BY DEF Init
<1> QED BY <1>1, ProcessStep, PTL DEF Spec, SD!Spec

\* The two instances of Shutdown are one.
LEMMA SameProcess ==
  /\ SD!Init => Process!Init
  /\ [SD!Next]_SD!vars => [Process!Next]_Process!vars
  /\ Process!TypeOK => SD!TypeOK
  /\ Process!CallbackAtMostOnce => SD!CallbackAtMostOnce
  /\ Process!EndMeansSettled => SD!EndMeansSettled
  /\ Process!NoKillBeforeShutdown => SD!NoKillBeforeShutdown
<1>1. SD!Init => Process!Init
  BY DEF SD!Init, Process!Init, SD!NoCallbacks, Process!NoCallbacks
<1>2. [SD!Next]_SD!vars => [Process!Next]_Process!vars
  BY DEF SD!Next, SD!vars, SD!Signals, SD!ServerInit, SD!SignalTrapped, SD!SignalDefault,
     SD!UnexpectedError, SD!Acquire, SD!Register, SD!AcquireFails, SD!CallbackSettles,
     SD!EndShutdown, SD!GracefulShutdown, SD!MayShutdown, SD!Registered, SD!AllSettled,
     SD!NoCallbacks, SD!Trapped, SD!AddCallBack, SD!Addable,
     Process!Next, Process!vars, Process!Signals, Process!ServerInit, Process!SignalTrapped,
     Process!SignalDefault, Process!UnexpectedError, Process!Acquire, Process!Register,
     Process!AcquireFails, Process!CallbackSettles, Process!EndShutdown,
     Process!GracefulShutdown, Process!MayShutdown, Process!Registered, Process!AllSettled,
     Process!NoCallbacks, Process!Trapped, Process!AddCallBack, Process!Addable
<1>3. Process!TypeOK => SD!TypeOK
  BY DEF SD!TypeOK, Process!TypeOK, SD!Signals, Process!Signals, SD!Statuses, Process!Statuses,
     SD!ResourceStates, Process!ResourceStates
<1>4. /\ Process!CallbackAtMostOnce => SD!CallbackAtMostOnce
      /\ Process!EndMeansSettled => SD!EndMeansSettled
      /\ Process!NoKillBeforeShutdown => SD!NoKillBeforeShutdown
  BY DEF SD!CallbackAtMostOnce, Process!CallbackAtMostOnce, SD!EndMeansSettled,
     Process!EndMeansSettled, SD!NoKillBeforeShutdown, Process!NoKillBeforeShutdown
<1> QED BY <1>1, <1>2, <1>3, <1>4

\* So the process closes the consumer at most once, ends after the consumer has
\* settled, and is not killed before it has begun to shut down.
THEOREM ShutdownOfThChecker ==
  Spec => [](/\ SD!TypeOK /\ SD!CallbackAtMostOnce /\ SD!EndMeansSettled
             /\ SD!NoKillBeforeShutdown)
<1>1. Process!Spec => [](/\ Process!TypeOK /\ Process!CallbackAtMostOnce
                         /\ Process!EndMeansSettled /\ Process!NoKillBeforeShutdown)
  <2>0. NameOf \in [{"consumer"} -> Names]
    BY DEF NameOf, Names
  <2>1. Process!Spec => []Process!TypeOK
    BY <2>0, ServerAssumption, Process!TypeCorrect
  <2>2. Process!Spec => []Process!CallbackAtMostOnce
    BY <2>0, ServerAssumption, Process!AtMostOnce
  <2>3. Process!Spec => []Process!EndMeansSettled
    BY <2>0, ServerAssumption, Process!EndSettled
  <2>4. Process!Spec => []Process!NoKillBeforeShutdown
    BY <2>0, ServerAssumption, Process!NoEarlyKill
  <2> QED BY <2>1, <2>2, <2>3, <2>4, PTL
<1>2. SD!Spec => Process!Spec
  BY SameProcess, PTL DEF SD!Spec, Process!Spec
<1> QED BY <1>1, <1>2, ProcessIsShutdown, SameProcess, PTL

-----------------------------------------------------------------------------
(* The consumer.                                                            *)

\* An instance is born when the ones before it are down, and a restart timer is the
\* one that the last instance's crash handler set.
Chain ==
  /\ \A i, j \in Instances : i < j /\ inst[j] # "unborn" => inst[i] = "down"
  /\ \A i \in timers :
       /\ inst[i] = "down" /\ restartTimeout = i
       /\ \A j \in Instances : i < j => inst[j] = "unborn"
  /\ initPc \in {"idle", "connecting"} => \A i \in Instances : inst[i] = "unborn"

\* The stop() in progress is of an instance that is going, and the crash handler of
\* that instance, when it has one, awaits it too.
Stopping ==
  stopOf # None =>
    \/ inst[stopOf] = "stopping"
    \/ inst[stopOf] = "crashed" /\ disconnecting[stopOf] = "stopping"

\* The consumer's resource is registered before it is closed, and closed only by a
\* shutdown.
Upkeep ==
  /\ resource["consumer"] \in {"closing", "closed"} => STATUS = "SHUTDOWN"
  /\ callbackMap["kafkaConsumer"] = "consumer" =>
       resource["consumer"] \in {"open", "closing", "closed"}

\* As long as no start or crash falls into a shutdown, `runner` is what consumes,
\* and disconnect() has left nothing that consumes or will.
Settling ==
  /\ STATUS # "SHUTDOWN" \/ calm => \A i \in Instances : Live(i) => runner = i
  /\ STATUS = "SHUTDOWN" /\ calm => InstancesSettled
  /\ resource["consumer"] \in {"closing", "closed"} /\ calm =>
       timers = {} /\ \A i \in Instances : ~Live(i)

IInv == TypeOK /\ Chain /\ Stopping /\ Upkeep /\ Settling

\* While one instance is in use, the ones before it are down, the ones after it
\* unborn, and no timer is set.
LEMMA Alone ==
  ASSUME TypeOK, Chain, NEW i \in Instances, inst[i] \notin {"unborn", "down"}
  PROVE  /\ timers = {}
         /\ \A j \in Instances : (j < i => inst[j] = "down") /\ (i < j => inst[j] = "unborn")
         /\ \A j \in Instances : inst[j] \notin {"unborn", "down"} => j = i
<1>1. \A j \in Instances : j \in Nat
  BY ConsumerAssumption DEF Instances
<1>2. \A j \in Instances : (j < i => inst[j] = "down") /\ (i < j => inst[j] = "unborn")
  BY DEF Chain
<1>3. \A j \in timers : FALSE
  <2> SUFFICES ASSUME NEW j \in timers PROVE FALSE
    OBVIOUS
  <2>1. j \in Instances /\ inst[j] = "down" /\ (j < i => inst[i] = "unborn")
    BY DEF Chain, TypeOK
  <2> QED BY <1>1, <1>2, <2>1
<1>4. \A j \in Instances : j < i \/ j = i \/ i < j
  BY <1>1
<1> QED BY <1>2, <1>3, <1>4

\* There is one restart timer, and all that came before it is down.
LEMMA OneTimer ==
  ASSUME TypeOK, Chain, NEW i \in timers
  PROVE  /\ timers = {i} /\ i \in Instances /\ restartTimeout = i
         /\ \A j \in Instances : inst[j] \in {"unborn", "down"}
<1>1. i \in Instances /\ \A j \in timers : j = i
  BY DEF Chain, TypeOK
<1>2. \A j \in Instances : inst[j] \in {"unborn", "down"}
  BY <1>1, Alone
<1> QED BY <1>1, <1>2 DEF Chain

\* Steps that bring nothing up, set no timer and leave init where it is.
LEMMA ChainKept ==
  ASSUME Chain, timers' \subseteq timers, UNCHANGED <<initPc, restartTimeout>>,
         \A i \in Instances : /\ inst'[i] = "unborn" <=> inst[i] = "unborn"
                              /\ inst[i] = "down" => inst'[i] = "down",
         timers \subseteq Instances
  PROVE  Chain'
BY DEF Chain

\* start() begins the life of the next instance when all before it are down.
LEMMA StartEffect ==
  ASSUME TypeOK, Chain, Start, \A j \in Instances : inst[j] \in {"unborn", "down"},
         timers' = {}, initPc' \notin {"idle", "connecting"}
  PROVE  /\ Chain'
         /\ inst' \in [Instances -> InstanceStates] /\ runner' \in Instances
         /\ inst'[runner'] = "starting"
         /\ \A j \in Instances : j # runner' => inst'[j] \in {"unborn", "down"} /\ inst'[j] = inst[j]
<1>1. PICK i \in Instances :
        /\ inst[i] = "unborn"
        /\ \A j \in Instances : j < i => inst[j] # "unborn"
        /\ inst' = [inst EXCEPT ![i] = "starting"]
        /\ runner' = i
  BY DEF Start
<1>2. inst \in [Instances -> InstanceStates]
  BY DEF TypeOK
<1>3. /\ inst' \in [Instances -> InstanceStates] /\ inst'[i] = "starting"
      /\ \A j \in Instances : j # i => inst'[j] = inst[j]
  BY <1>1, <1>2 DEF InstanceStates
<1>4. \A j, k \in Instances : j < k /\ inst'[k] # "unborn" => inst'[j] = "down"
  <2> SUFFICES ASSUME NEW j \in Instances, NEW k \in Instances, j < k, inst'[k] # "unborn"
               PROVE  inst'[j] = "down"
    OBVIOUS
  <2>1. j \in Nat /\ k \in Nat /\ i \in Nat
    BY ConsumerAssumption DEF Instances
  <2>2. j # k
    BY <2>1
  <2>3. CASE k = i
    BY <1>1, <1>3, <2>2, <2>3
  <2>4. CASE k # i
    <3>1. inst[j] = "down"
      BY <1>3, <2>4 DEF Chain
    <3> QED BY <1>1, <1>3, <3>1
  <2> QED BY <2>3, <2>4
<1>5. Chain'
  BY <1>4 DEF Chain
<1> QED BY <1>1, <1>3, <1>5

\* Up to its first await, disconnect() takes a running consumer down, or finds none
\* and drops the restart timer; next is the state of the instances it finds.
LEMMA DisconnectEffect ==
  ASSUME TypeOK, Chain, NEW c \in Callers, NEW next \in [Instances -> InstanceStates],
         Disconnect(c, next)
  PROVE  /\ inst' \in [Instances -> InstanceStates]
         /\ \A j \in Instances : inst'[j] # next[j] => next[j] = "running" /\ inst'[j] = "stopping"
         /\ runner' \in {runner, None} /\ timers' \subseteq timers
         /\ disconnecting' \in [Callers -> {"no", "stopping", "stopped"}]
         /\ \A d \in Callers : d # c => disconnecting'[d] = disconnecting[d]
         /\ \/ /\ stopOf # None /\ UNCHANGED stopOf /\ inst' = next
               /\ disconnecting'[c] = "stopping"
               /\ UNCHANGED runner
            \/ /\ stopOf = None /\ runner # None /\ inst[runner] = "running"
               /\ UNCHANGED runner /\ stopOf' = runner
               /\ disconnecting'[c] = "stopping"
               /\ inst'[runner] = IF next[runner] = "running" THEN "stopping" ELSE next[runner]
            \/ /\ stopOf = None /\ (runner = None \/ inst[runner] # "running")
               /\ UNCHANGED stopOf /\ runner' = None /\ inst' = next /\ timers' = {}
<1> USE DEF InstanceStates
<1>1. /\ disconnecting \in [Callers -> {"no", "stopping", "stopped"}]
      /\ inst \in [Instances -> InstanceStates]
      /\ runner \in Instances \cup {None} /\ timers \subseteq {restartTimeout}
  BY DEF TypeOK, Chain
<1>2. CASE stopOf # None
  BY <1>1, <1>2 DEF Disconnect
<1>3. CASE stopOf = None /\ runner # None /\ inst[runner] = "running"
  BY <1>1, <1>3 DEF Disconnect
<1>4. CASE stopOf = None /\ (runner = None \/ inst[runner] # "running")
  BY <1>1, <1>4 DEF Disconnect, ClearTimer
<1> QED BY <1>2, <1>3, <1>4

\* In the beginning there is nothing.
LEMMA InitIInv == Init /\ SD!TypeOK => IInv
<1> SUFFICES ASSUME Init, SD!TypeOK PROVE IInv
  OBVIOUS
<1> USE ServerAssumption, ConsumerAssumption
<1>1. TypeOK
  BY DEF Init, KInit, TypeOK, InstanceStates
<1>2. Chain /\ Stopping /\ Upkeep /\ Settling
  BY DEF Init, KInit, SD!Init, SD!NoCallbacks, Names, Chain, Stopping, Upkeep, Settling, Live
<1> QED BY <1>1, <1>2 DEF IInv

\* Every step keeps the invariant.
LEMMA NextIInv ==
  ASSUME IInv, SD!TypeOK, SD!TypeOK', [Next]_vars
  PROVE  IInv'
<1> USE ServerAssumption, ConsumerAssumption DEF svars, kvars
<1>t. /\ TypeOK /\ Chain /\ Stopping /\ Upkeep /\ Settling
      /\ inst \in [Instances -> InstanceStates] /\ restartable \subseteq Instances
      /\ runner \in Instances \cup {None} /\ stopOf \in Instances \cup {None}
      /\ disconnecting \in [Callers -> {"no", "stopping", "stopped"}]
      /\ timers \subseteq Instances /\ restartTimeout \in Instances \cup {None}
      /\ initPc \in {"idle", "connecting", "running", "done"} /\ calm \in BOOLEAN
      /\ resource \in [{"consumer"} -> SD!ResourceStates]
      /\ callbackMap \in [Names -> {"consumer", None}]
  BY DEF IInv, TypeOK, SD!TypeOK
<1>0. CASE UNCHANGED vars
  <2>1. UNCHANGED <<kvars, svars, initPc, calm>>
    BY <1>0 DEF vars, server
  <2>2. TypeOK' /\ Chain' /\ Stopping' /\ Upkeep' /\ Settling'
    BY <1>t, <2>1 DEF TypeOK, Chain, Stopping, Upkeep, Settling, InstancesSettled, Live
  <2> QED BY <2>2 DEF IInv
<1> SUFFICES ASSUME Next PROVE IInv'
  BY <1>0
<1>c. calm' \in BOOLEAN /\ (calm' => calm) /\ (calm' /\ STATUS' = "SHUTDOWN" => InstancesSettled')
  BY <1>t DEF Next
\* Steps of the process that leave the consumer as it is.
<1>p. ASSUME UNCHANGED kvars, STATUS = "SHUTDOWN" => STATUS' = "SHUTDOWN",
             initPc' \in {initPc, "done"} \/ (initPc = "idle" /\ initPc' = "connecting"),
             resource'["consumer"] \in {"closing", "closed"} =>
               resource["consumer"] \in {"closing", "closed"},
             callbackMap'["kafkaConsumer"] = "consumer" =>
               resource'["consumer"] \in {"open", "closing", "closed"}
      PROVE  IInv'
  <2>1. TypeOK'
    BY <1>t, <1>p, <1>c DEF TypeOK
  <2>2. Chain' /\ Stopping' /\ Upkeep'
    BY <1>t, <1>p DEF Chain, Stopping, Upkeep
  <2>3. Settling'
    BY <1>t, <1>p, <1>c DEF Settling, Live
  <2> QED BY <2>1, <2>2, <2>3 DEF IInv
\* Steps of the consumer alone.
<1>k. ASSUME UNCHANGED svars, inst' \in [Instances -> InstanceStates],
             restartable' \subseteq Instances, runner' \in Instances \cup {None},
             stopOf' \in Instances \cup {None},
             disconnecting' \in [Callers -> {"no", "stopping", "stopped"}],
             timers' \subseteq Instances, restartTimeout' \in Instances \cup {None},
             initPc' \in {initPc, "running"}
      PROVE  TypeOK' /\ Upkeep'
  BY <1>t, <1>k, <1>c DEF TypeOK, Upkeep
<1>1. CASE ServerInit \/ SignalDefault \/ EndShutdown
  <2>1. /\ UNCHANGED <<kvars, initPc, resource>>
        /\ callbackMap' \in {callbackMap, SD!NoCallbacks}
        /\ STATUS = "SHUTDOWN" => STATUS' = "SHUTDOWN"
    BY <1>1 DEF ServerInit, SignalDefault, EndShutdown, SD!ServerInit, SD!SignalDefault,
       SD!EndShutdown
  <2>2. callbackMap'["kafkaConsumer"] \in {callbackMap["kafkaConsumer"], None}
    BY <2>1 DEF SD!NoCallbacks, Names
  <2> QED BY <1>p, <1>t, <2>1, <2>2 DEF Upkeep
<1>2. CASE InitBegin \/ InitDone
  <2>1. CASE InitBegin
    BY <1>p, <1>t, <2>1 DEF InitBegin, SD!Acquire, Upkeep
  <2>2. CASE InitDone
    BY <1>p, <1>t, <2>2 DEF InitDone, SD!Register, Upkeep
  <2> QED BY <1>2, <2>1, <2>2
<1>3. CASE Closed
  <2>1. /\ UNCHANGED <<inst, restartable, runner, stopOf, timers, restartTimeout, initPc, STATUS,
                       callbackMap>>
        /\ disconnecting' = [disconnecting EXCEPT ![App] = "no"]
        /\ resource["consumer"] = "closing" /\ resource'["consumer"] = "closed"
    BY <1>3, <1>t DEF Closed, Disconnected
  <2>2. TypeOK'
    BY <1>t, <1>c, <2>1 DEF TypeOK
  <2>3. Chain' /\ Upkeep'
    BY <1>t, <2>1 DEF Chain, Upkeep
  <2>4. Stopping'
    BY <1>t, <2>1 DEF Stopping, Callers
  <2>5. Settling'
    BY <1>t, <1>c, <2>1 DEF Settling, Live
  <2> QED BY <2>2, <2>3, <2>4, <2>5 DEF IInv
<1>4. CASE RunStarts
  <2>1. /\ UNCHANGED <<restartable, stopOf, disconnecting, timers, restartTimeout, svars>>
        /\ initPc = "connecting" /\ initPc' = "running" /\ Start
    BY <1>4 DEF RunStarts
  <2>2. \A i \in Instances : inst[i] = "unborn"
    BY <1>t, <2>1 DEF Chain
  <2>3. timers = {}
    BY <1>t, <2>2 DEF Chain
  <2>4. /\ Chain' /\ inst' \in [Instances -> InstanceStates] /\ runner' \in Instances
        /\ inst'[runner'] = "starting"
        /\ \A j \in Instances : j # runner' => inst'[j] = "unborn"
    BY <1>t, <2>1, <2>2, <2>3, StartEffect
  <2>5. TypeOK' /\ Upkeep'
    BY <1>t, <1>k, <2>1, <2>4
  <2>6. stopOf = None
    BY <1>t, <2>2 DEF Stopping
  <2>7. Stopping'
    BY <2>1, <2>6 DEF Stopping
  <2>8. Settling'
    BY <1>t, <1>c, <2>1, <2>4 DEF Settling, InstancesSettled, Live, Upkeep
  <2> QED BY <2>4, <2>5, <2>7, <2>8 DEF IInv
<1>5. CASE ShutdownTrigger
  <2>1. /\ SD!GracefulShutdown(resource) /\ UNCHANGED <<callbackMap, initPc>>
        /\ resource' = resource => UNCHANGED kvars
        /\ resource' # resource => Disconnect(App, inst) /\ UNCHANGED <<restartable, restartTimeout>>
    BY <1>5 DEF ShutdownTrigger, SD!SignalTrapped, SD!UnexpectedError
  <2>2. CASE resource' = resource
    <3>1. STATUS' \in {STATUS, "SHUTDOWN"}
      BY <2>1 DEF SD!GracefulShutdown
    <3>2. UNCHANGED <<kvars, initPc, callbackMap>>
      BY <2>1, <2>2
    <3> QED BY <1>p, <1>t, <2>2, <3>1, <3>2 DEF Upkeep
  <2>3. CASE resource' # resource
    <3>1. STATUS = "ACTIVE" /\ STATUS' = "SHUTDOWN"
      BY <2>1, <2>3 DEF SD!GracefulShutdown, SD!MayShutdown
    <3>2. resource'["consumer"] = "closing"
      BY <1>t, <2>1, <2>3 DEF SD!GracefulShutdown
    <3>3. App \in Callers /\ Disconnect(App, inst) /\ UNCHANGED <<restartable, restartTimeout>>
      BY <2>1, <2>3 DEF Callers
    <3>4. /\ inst' \in [Instances -> InstanceStates]
          /\ \A j \in Instances : inst'[j] # inst[j] => inst[j] = "running" /\ inst'[j] = "stopping"
          /\ runner' \in {runner, None} /\ timers' \subseteq timers
          /\ disconnecting' \in [Callers -> {"no", "stopping", "stopped"}]
          /\ \A d \in Callers : d # App => disconnecting'[d] = disconnecting[d]
          /\ \/ stopOf # None /\ UNCHANGED stopOf /\ inst' = inst
             \/ /\ stopOf = None /\ runner # None /\ inst[runner] = "running"
                /\ stopOf' = runner /\ inst'[runner] = "stopping"
             \/ /\ stopOf = None /\ (runner = None \/ inst[runner] # "running")
                /\ UNCHANGED stopOf /\ inst' = inst /\ timers' = {}
      BY <1>t, <3>3, DisconnectEffect
    <3>5. Chain'
      <4>1. \A i \in Instances : /\ inst'[i] = "unborn" <=> inst[i] = "unborn"
                                 /\ inst[i] = "down" => inst'[i] = "down"
        BY <3>4
      <4> QED BY <1>t, <2>1, <3>3, <3>4, <4>1, ChainKept
    <3>6. TypeOK'
      BY <1>t, <1>c, <2>1, <3>3, <3>4 DEF TypeOK
    <3>7. Upkeep'
      BY <3>1, <3>2 DEF Upkeep
    <3>8. Stopping'
      BY <1>t, <3>4 DEF Stopping, Callers
    <3>9. calm' => timers' = {} /\ \A i \in Instances : ~Live(i)'
      <4> SUFFICES ASSUME calm' PROVE timers' = {} /\ \A i \in Instances : ~Live(i)'
        OBVIOUS
      <4>1. \A i \in Instances : inst'[i] \notin {"starting", "crashed"}
        BY <1>c, <3>1 DEF InstancesSettled
      <4>2. ASSUME NEW i \in Instances, inst'[i] = "stopping"
            PROVE  timers' = {} /\ \A j \in Instances : ~Live(j)'
        <5>1. timers' = {} /\ \A j \in Instances : inst'[j] \notin {"unborn", "down"} => j = i
          <6>1. inst[i] \notin {"unborn", "down"}
            BY <3>4, <4>2
          <6> QED BY <1>t, <3>4, <6>1, Alone
        <5> QED BY <4>2, <5>1 DEF Live
      <4>3. CASE stopOf # None
        BY <1>t, <3>4, <4>1, <4>2, <4>3 DEF Stopping
      <4>4. CASE stopOf = None /\ runner # None /\ inst[runner] = "running"
        BY <1>t, <3>4, <4>2, <4>4
      <4>5. CASE stopOf = None /\ (runner = None \/ inst[runner] # "running")
        <5>1. inst' = inst /\ timers' = {}
          BY <3>4, <4>5
        <5>2. \A i \in Instances : Live(i) => runner = i
          BY <1>t, <3>1 DEF Settling
        <5> QED BY <4>1, <4>5, <5>1, <5>2 DEF Live, Callers
      <4> QED BY <4>3, <4>4, <4>5
    <3>10. Settling'
      BY <1>c, <3>1, <3>9 DEF Settling
    <3> QED BY <3>5, <3>6, <3>7, <3>8, <3>10 DEF IInv
  <2> QED BY <2>2, <2>3
<1>6. ASSUME NEW i \in Instances, Joined(i), UNCHANGED <<svars, initPc>> PROVE IInv'
  <2>1. /\ inst[i] = "starting" /\ inst' = [inst EXCEPT ![i] = "running"]
        /\ UNCHANGED <<restartable, runner, stopOf, disconnecting, timers, restartTimeout>>
    BY <1>6 DEF Joined
  <2>2. inst' \in [Instances -> InstanceStates]
    BY <1>t, <2>1 DEF InstanceStates
  <2>3. TypeOK' /\ Upkeep'
    BY <1>t, <1>k, <1>6, <2>1, <2>2
  <2>4. Chain'
    BY <1>t, <1>6, <2>1, ChainKept
  <2>5. Stopping'
    BY <1>t, <2>1 DEF Stopping
  <2>6. Settling'
    BY <1>t, <1>c, <1>6, <2>1 DEF Settling, InstancesSettled, Live, Upkeep
  <2> QED BY <2>3, <2>4, <2>5, <2>6 DEF IInv
<1>7. ASSUME NEW i \in Instances, Crash(i), UNCHANGED <<svars, initPc>> PROVE IInv'
  <2> DEFINE next == [inst EXCEPT ![i] = "crashed"]
  <2>1. /\ inst[i] \in {"starting", "running", "stopping"} /\ restartable' \subseteq Instances
        /\ UNCHANGED restartTimeout
        /\ i \in Callers /\ next \in [Instances -> InstanceStates] /\ Disconnect(i, next)
    BY <1>7, <1>t DEF Crash, Callers, InstanceStates
  <2>2. next[i] = "crashed" /\ \A j \in Instances : j # i => next[j] = inst[j]
    BY <1>t
  <2> HIDE DEF next
  <2>3. /\ timers = {}
        /\ \A j \in Instances : inst[j] \notin {"unborn", "down"} => j = i
    BY <1>t, <2>1, Alone
  <2>4. /\ inst' \in [Instances -> InstanceStates]
        /\ \A j \in Instances : inst'[j] # next[j] => next[j] = "running"
        /\ runner' \in {runner, None} /\ timers' \subseteq timers
        /\ disconnecting' \in [Callers -> {"no", "stopping", "stopped"}]
        /\ \/ stopOf # None /\ UNCHANGED stopOf /\ disconnecting'[i] = "stopping"
           \/ /\ stopOf = None /\ runner # None /\ inst[runner] = "running" /\ stopOf' = runner
              /\ disconnecting'[i] = "stopping"
           \/ stopOf = None /\ UNCHANGED stopOf
    BY <1>t, <2>1, DisconnectEffect
  <2>5. inst'[i] = "crashed" /\ \A j \in Instances : j # i => inst'[j] = inst[j]
    BY <2>2, <2>3, <2>4
  <2>6. Chain'
    BY <1>t, <1>7, <2>1, <2>4, <2>5, ChainKept
  <2>7. stopOf' \in {i, None} /\ (stopOf' = i => disconnecting'[i] = "stopping")
    BY <1>t, <2>3, <2>4 DEF Stopping, Callers
  <2>8. TypeOK' /\ Upkeep'
    BY <1>t, <1>k, <1>7, <2>1, <2>4, <2>7
  <2>9. Stopping'
    BY <2>5, <2>7 DEF Stopping
  <2>10. Settling'
    BY <1>t, <1>c, <1>7, <2>3, <2>5 DEF Settling, InstancesSettled, Live, Upkeep
  <2> QED BY <2>6, <2>8, <2>9, <2>10 DEF IInv
<1>8. ASSUME NEW i \in Instances, TimerFires(i), UNCHANGED <<svars, initPc>> PROVE IInv'
  <2>1. /\ i \in timers /\ timers' = timers \ {i} /\ Start
        /\ UNCHANGED <<restartable, stopOf, disconnecting, restartTimeout>>
    BY <1>8 DEF TimerFires
  <2>2. timers' = {} /\ \A j \in Instances : inst[j] \in {"unborn", "down"}
    BY <1>t, <2>1, OneTimer
  <2>3. initPc' \notin {"idle", "connecting"}
    BY <1>t, <1>8, <2>1 DEF Chain
  <2>4. /\ Chain' /\ inst' \in [Instances -> InstanceStates] /\ runner' \in Instances
        /\ inst'[runner'] = "starting"
        /\ \A j \in Instances : j # runner' => inst'[j] \in {"unborn", "down"}
    BY <1>t, <2>1, <2>2, <2>3, StartEffect
  <2>5. TypeOK' /\ Upkeep'
    BY <1>t, <1>k, <1>8, <2>1, <2>2, <2>4
  <2>6. stopOf = None
    BY <1>t, <2>2 DEF Stopping
  <2>7. Stopping'
    BY <2>1, <2>6 DEF Stopping
  <2>8. Settling'
    BY <1>t, <1>c, <1>8, <2>4 DEF Settling, InstancesSettled, Live, Upkeep
  <2> QED BY <2>4, <2>5, <2>7, <2>8 DEF IInv
<1>9. CASE StopDone /\ UNCHANGED <<svars, initPc>>
  <2>1. /\ stopOf # None /\ stopOf \in Instances
        /\ inst' = [inst EXCEPT ![stopOf] = IF @ = "stopping" THEN "down" ELSE @]
        /\ runner' = None /\ stopOf' = None
        /\ disconnecting' \in [Callers -> {"no", "stopping", "stopped"}]
        /\ timers' \subseteq timers
        /\ UNCHANGED <<restartable, restartTimeout>>
    BY <1>9, <1>t DEF StopDone, ReleaseStoppers, ClearTimer
  <2>2. inst[stopOf] \in {"stopping", "crashed"}
    BY <1>t, <2>1 DEF Stopping
  <2>3. timers = {} /\ \A j \in Instances : inst[j] \notin {"unborn", "down"} => j = stopOf
    BY <1>t, <2>1, <2>2, Alone
  <2>4. inst' \in [Instances -> InstanceStates]
    BY <1>t, <2>1, <2>2 DEF InstanceStates
  <2>5. \A j \in Instances : /\ inst'[j] = "unborn" <=> inst[j] = "unborn"
                             /\ inst[j] = "down" => inst'[j] = "down"
                             /\ inst'[j] \in {inst[j], "down"}
    BY <1>t, <2>1, <2>2
  <2>6. Chain'
    BY <1>t, <1>9, <2>1, <2>5, ChainKept
  <2>7. TypeOK' /\ Upkeep'
    BY <1>t, <1>k, <1>9, <2>1, <2>4
  <2>8. Stopping'
    BY <2>1 DEF Stopping
  <2>9. \A j \in Instances : ~Live(j)'
    BY <2>2, <2>3, <2>5 DEF Live
  <2>10. Settling'
    BY <1>t, <1>c, <1>9, <2>1, <2>3, <2>9 DEF Settling
  <2> QED BY <2>6, <2>7, <2>8, <2>10 DEF IInv
<1>10. CASE CrashEvent
  <2>1. PICK i \in Instances : CrashHandled(i)
    BY <1>10 DEF CrashEvent
  <2>2. /\ inst[i] = "crashed" /\ disconnecting[i] = "stopped" /\ inst' = [inst EXCEPT ![i] = "down"]
        /\ disconnecting' = [disconnecting EXCEPT ![i] = "no"]
        /\ \/ timers' = timers \cup {i} /\ restartTimeout' = i
           \/ UNCHANGED <<timers, restartTimeout>>
        /\ UNCHANGED <<restartable, runner, stopOf, svars, initPc>>
    BY <1>10, <2>1 DEF CrashHandled, CrashEvent, ConsumerReconnect
  <2>3. /\ timers = {}
        /\ \A j \in Instances : (j < i => inst[j] = "down") /\ (i < j => inst[j] = "unborn")
        /\ \A j \in Instances : inst[j] \notin {"unborn", "down"} => j = i
    BY <1>t, <2>2, Alone
  <2>4. /\ inst' \in [Instances -> InstanceStates] /\ inst'[i] = "down"
        /\ \A j \in Instances : j # i => inst'[j] = inst[j]
    BY <1>t, <2>2 DEF InstanceStates
  <2>5. disconnecting' \in [Callers -> {"no", "stopping", "stopped"}]
    BY <1>t, <2>2
  <2>6. TypeOK' /\ Upkeep'
    BY <1>t, <1>k, <2>2, <2>3, <2>4, <2>5
  <2>7. stopOf = None
    BY <1>t, <2>2, <2>3 DEF Stopping
  <2>8. Stopping'
    BY <2>2, <2>7 DEF Stopping
  <2>9. initPc' \notin {"idle", "connecting"}
    BY <1>t, <2>2 DEF Chain
  <2>10. \A j \in Instances : i < j => inst'[j] = "unborn"
    <3>1. \A j \in Instances : i < j => j # i
      BY DEF Instances
    <3> QED BY <2>3, <2>4, <3>1
  <2>11. \A j, k \in Instances : j < k /\ inst'[k] # "unborn" => inst'[j] = "down"
    BY <1>t, <2>2, <2>4 DEF Chain
  <2>12. Chain'
    BY <2>2, <2>3, <2>4, <2>9, <2>10, <2>11 DEF Chain
  <2>13. Settling'
    BY <1>t, <1>c, <2>2, <2>3, <2>4 DEF Settling, InstancesSettled, Live, Upkeep
  <2> QED BY <2>6, <2>8, <2>12, <2>13 DEF IInv
<1>11. CASE Consumer
  BY <1>6, <1>7, <1>8, <1>9, <1>11 DEF Consumer
<1> QED BY <1>1, <1>2, <1>3, <1>4, <1>5, <1>10, <1>11 DEF Next

\* The strengthening is an invariant of the specification.
LEMMA Invariance == Spec => []IInv
<1>1. Spec => []SD!TypeOK
  BY ShutdownOfThChecker, PTL
<1>2. IInv /\ SD!TypeOK /\ SD!TypeOK' /\ [Next]_vars => IInv'
  BY NextIInv
<1> QED BY <1>1, <1>2, InitIInv, PTL DEF Spec

-----------------------------------------------------------------------------
(* Theorems.                                                                *)

\* Every variable keeps its type.
THEOREM TypeCorrect == Spec => []TypeOK
<1>1. IInv => TypeOK
  BY DEF IInv
<1> QED BY <1>1, Invariance, PTL

\* A shutdown that no start and no crash falls into leaves neither a Runner that
\* consumes nor a timer that could start one.
THEOREM CleanShutdown == Spec => []CleanShutdownIsFinal
<1>1. IInv => CleanShutdownIsFinal
  BY DEF IInv, Settling, CleanShutdownIsFinal
<1> QED BY <1>1, Invariance, PTL

\* Never two Runners that join or run, nor one beside a restart timer.
THEOREM OneConsumer == Spec => []OneConsumerAtATime
<1>1. IInv => OneConsumerAtATime
  <2> SUFFICES ASSUME TypeOK, Chain PROVE OneConsumerAtATime
    BY DEF IInv
  <2> DEFINE Coming == {i \in Instances : Live(i)} \cup timers
  <2>1. ASSUME NEW i \in Coming, NEW j \in Coming PROVE i = j
    <3>1. i \in Instances /\ j \in Instances
      BY DEF TypeOK
    <3>2. CASE Live(i)
      BY <2>1, <3>1, <3>2, Alone DEF Live
    <3>3. CASE i \in timers
      BY <2>1, <3>1, <3>3, OneTimer DEF Live
    <3> QED BY <2>1, <3>2, <3>3
  <2>2. CASE Coming = {}
    BY <2>2, FS_EmptySet DEF OneConsumerAtATime
  <2>3. CASE Coming # {}
    <3>1. PICK i \in Coming : Coming = {i}
      BY <2>1, <2>3
    <3>2. Cardinality({i}) = 1
      BY FS_Singleton
    <3> QED BY <3>1, <3>2 DEF OneConsumerAtATime
  <2> QED BY <2>2, <2>3
<1> QED BY <1>1, Invariance, PTL
=============================================================================
