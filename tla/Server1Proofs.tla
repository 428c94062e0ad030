--------------------------- MODULE Server1Proofs ---------------------------
(***************************************************************************)
(* Proofs about Server1 for any number of messages, ticks and faults: the  *)
(* process is an instance of Shutdown, so that everything proved about     *)
(* that module holds of it; a send that resolved is in the log; and a      *)
(* shutdown that meets no unfinished attempt drains the producer.          *)
(***************************************************************************)
EXTENDS Server1, TLAPS

Process == INSTANCE ShutdownProofs WITH
  Resources <- {Producer},
  Names <- {"kafkaProducer"},
  NameOf <- [r \in {Producer} |-> "kafkaProducer"]

-----------------------------------------------------------------------------
(* The process is an instance of Shutdown.                                  *)

\* What a shutdown does to the producer's connection has no part in Shutdown.
LEMMA ProcessStep ==
  ASSUME [Next]_vars
  PROVE  [SD!Next]_SD!vars
<1> USE DEF svars, SD!vars
<1>1. CASE UNCHANGED vars
  BY <1>1 DEF vars, server
<1>2. CASE alive /\ (ServerInit \/ StartBegins \/ Connected \/ ConnectFails)
  BY <1>2 DEF ServerInit, StartBegins, Connected, ConnectFails, SD!Next
<1>3. CASE alive /\ (ShutdownTrigger \/ SignalDefault \/ EndShutdown)
  BY <1>3 DEF ShutdownTrigger, SignalDefault, EndShutdown, SD!Next
<1>4. CASE alive /\ Disconnected
  <2>1. SD!CallbackSettles(Producer)
    BY <1>4 DEF Disconnected, SD!CallbackSettles
  <2> QED BY <1>4, <2>1 DEF SD!Next
<1>5. CASE alive /\ (Tick \/ RequestsFail \/ \E s \in Sends : Recovered(s))
  <2>1. SD!UnexpectedError \/ UNCHANGED svars
    BY <1>5 DEF Tick, RequestsFail, Recovered, Reject
  <2> QED BY <1>5, <2>1 DEF SD!Next
<1>6. ASSUME alive, NEW s \in Sends, Prepared(s) \/ Acknowledged(s) \/ Retry(s)
      PROVE  UNCHANGED svars
  BY <1>6 DEF Prepared, Acknowledged, Retry
<1> QED BY <1>1, <1>2, <1>3, <1>4, <1>5, <1>6 DEF Next

\* The process of server1, with its one producer, behaves as Shutdown says.
THEOREM ProcessIsShutdown == Spec => SD!Spec
<1>1. Init => SD!Init
  BY DEF Init
<1> QED BY <1>1, ProcessStep, PTL DEF Spec, SD!Spec

\* The two instances of Shutdown are one.
LEMMA SameProcess ==
  /\ SD!Init => Process!Init
  /\ [SD!Next]_SD!vars => [Process!Next]_Process!vars
  /\ Process!TypeOK => SD!TypeOK
  /\ Process!CallbackAtMostOnce => SD!CallbackAtMostOnce
  /\ Process!EndMeansSettled => SD!EndMeansSettled
  /\ Process!NoKillBeforeShutdown => SD!NoKillBeforeShutdown
<1>1. SD!Init => Process!Init
  BY DEF SD!Init, Process!Init, SD!NoCallbacks, Process!NoCallbacks
<1>2. [SD!Next]_SD!vars => [Process!Next]_Process!vars
  BY DEF SD!Next, SD!vars, SD!Signals, SD!ServerInit, SD!SignalTrapped, SD!SignalDefault,
     SD!UnexpectedError, SD!Acquire, SD!Register, SD!AcquireFails, SD!CallbackSettles,
     SD!EndShutdown, SD!GracefulShutdown, SD!MayShutdown, SD!Registered, SD!AllSettled,
     SD!NoCallbacks, SD!Trapped, SD!AddCallBack, SD!Addable,
     Process!Next, Process!vars, Process!Signals, Process!ServerInit, Process!SignalTrapped,
     Process!SignalDefault, Process!UnexpectedError, Process!Acquire, Process!Register,
     Process!AcquireFails, Process!CallbackSettles, Process!EndShutdown,
     Process!GracefulShutdown, Process!MayShutdown, Process!Registered, Process!AllSettled,
     Process!NoCallbacks, Process!Trapped, Process!AddCallBack, Process!Addable
<1>3. Process!TypeOK => SD!TypeOK
  BY DEF SD!TypeOK, Process!TypeOK, SD!Signals, Process!Signals, SD!Statuses, Process!Statuses,
     SD!ResourceStates, Process!ResourceStates
<1>4. /\ Process!CallbackAtMostOnce => SD!CallbackAtMostOnce
      /\ Process!EndMeansSettled => SD!EndMeansSettled
      /\ Process!NoKillBeforeShutdown => SD!NoKillBeforeShutdown
  BY DEF SD!CallbackAtMostOnce, Process!CallbackAtMostOnce, SD!EndMeansSettled,
     Process!EndMeansSettled, SD!NoKillBeforeShutdown, Process!NoKillBeforeShutdown
<1> QED BY <1>1, <1>2, <1>3, <1>4

\* So the process closes the producer at most once, ends after the producer has
\* settled, and is not killed before it has begun to shut down.
THEOREM ShutdownOfServer1 ==
  Spec => [](/\ SD!TypeOK /\ SD!CallbackAtMostOnce /\ SD!EndMeansSettled
             /\ SD!NoKillBeforeShutdown)
<1>1. Process!Spec => [](/\ Process!TypeOK /\ Process!CallbackAtMostOnce
                         /\ Process!EndMeansSettled /\ Process!NoKillBeforeShutdown)
  <2>0. [r \in {Producer} |-> "kafkaProducer"] \in [{Producer} -> {"kafkaProducer"}]
    OBVIOUS
  <2>1. Process!Spec => []Process!TypeOK
    BY <2>0, ServerAssumption, Process!TypeCorrect
  <2>2. Process!Spec => []Process!CallbackAtMostOnce
    BY <2>0, ServerAssumption, Process!AtMostOnce
  <2>3. Process!Spec => []Process!EndMeansSettled
    BY <2>0, ServerAssumption, Process!EndSettled
  <2>4. Process!Spec => []Process!NoKillBeforeShutdown
    BY <2>0, ServerAssumption, Process!NoEarlyKill
  <2> QED BY <2>1, <2>2, <2>3, <2>4, PTL
<1>2. SD!Spec => Process!Spec
  BY SameProcess, PTL DEF SD!Spec, Process!Spec
<1> QED BY <1>1, <1>2, ProcessIsShutdown, SameProcess, PTL

-----------------------------------------------------------------------------
(* The sends.                                                               *)

SendStates ==
  {"none", "preparing", "producing", "recovering", "waiting", "acked", "failed"}

\* Messages of ticks to come are not on their way yet.
Unborn == \A s \in Sends : s > PerTick * ticks => sends[s] = "none"

\* The kafkajs producer is connected as long as its resource is up, which is
\* registered before it is closed, and closed only by a shutdown.
Upkeep ==
  /\ status = "connected" <=> resource[Producer] = "open"
  /\ resource[Producer] \in {"closing", "closed"} => STATUS = "SHUTDOWN"
  /\ callbackMap["kafkaProducer"] = Producer =>
       resource[Producer] \in {"open", "closing", "closed"}

\* Every append but the acknowledged one is a fault's.
Counted ==
  \A s \in Sends :
    /\ sends[s] = "acked" => appended[s] >= 1
    /\ appended[s] <= IF sends[s] = "acked" THEN 1 + faults ELSE faults

\* In a calm shutdown disconnect() waits for all there is, and nothing connects again.
Draining ==
  calm =>
    /\ STATUS = "SHUTDOWN" => \A s \in Sends : sends[s] \notin {"preparing", "recovering", "waiting"}
    /\ resource[Producer] = "closing" => awaited = Requesting /\ link = "down"
    /\ resource[Producer] = "closed" => Requesting = {} /\ link = "down"

IInv == TypeOK /\ Unborn /\ Upkeep /\ Counted /\ Draining

\* The kinds of numbers sends and bursts are made of.
LEMMA BurstBound ==
  ASSUME ticks \in Nat
  PROVE  /\ Sends \subseteq Nat
         /\ \A s \in Burst : s > PerTick * ticks
         /\ \A s \in Sends : s > PerTick * (ticks + 1) => s > PerTick * ticks /\ s \notin Burst
<1>1. PerTick \in Nat /\ PerTick * ticks \in Nat /\ PerTick * MaxTicks \in Nat
  BY ServerAssumption
<1>2. PerTick * (ticks + 1) = PerTick * ticks + PerTick
  BY <1>1
<1> QED BY <1>1, <1>2 DEF Sends, Burst

\* gracefulShutdown takes an open producer down, or leaves it as it is.
LEMMA ShutdownEffect ==
  ASSUME SD!TypeOK, Upkeep, SD!GracefulShutdown(resource)
  PROVE  \/ /\ resource[Producer] = "open" /\ resource'[Producer] = "closing"
            /\ STATUS' = "SHUTDOWN"
         \/ resource' = resource /\ STATUS' \in {STATUS, "SHUTDOWN"}
<1>1. CASE SD!MayShutdown
  <2>1. /\ STATUS = "ACTIVE" /\ STATUS' = "SHUTDOWN"
        /\ resource' = [r \in {Producer} |->
                          IF r \in SD!Registered THEN "closing" ELSE resource[r]]
    BY <1>1 DEF SD!MayShutdown, SD!GracefulShutdown
  <2>2. CASE Producer \in SD!Registered
    <3>1. callbackMap["kafkaProducer"] = Producer
      BY <2>2 DEF SD!Registered
    <3> QED BY <2>1, <2>2, <3>1 DEF Upkeep
  <2>3. CASE Producer \notin SD!Registered
    <3>1. resource' = resource
      BY <2>1, <2>3 DEF SD!TypeOK
    <3> QED BY <2>1, <3>1
  <2> QED BY <2>2, <2>3
<1>2. CASE ~SD!MayShutdown
  BY <1>2 DEF SD!GracefulShutdown
<1> QED BY <1>1, <1>2

\* The shutdown closes the producer, whose disconnect() takes the link down and waits
\* for the requests it finds.
TakesDown ==
  /\ resource[Producer] = "open" /\ resource'[Producer] = "closing"
  /\ STATUS' = "SHUTDOWN" /\ resource' # resource
  /\ status' = "disconnecting" /\ link' = "down"
  /\ Requesting' \subseteq awaited' /\ awaited' \subseteq Requesting' \cup Recovering'

\* An error or a signal that reaches the handlers either closes the producer, and
\* disconnect() takes down what requests it finds, or leaves it alone.
LEMMA DisconnectEffect ==
  ASSUME SD!TypeOK, Upkeep, SD!GracefulShutdown(resource), NEW l, BeginDisconnect(l)
  PROVE  \/ TakesDown
         \/ /\ resource' = resource /\ STATUS' \in {STATUS, "SHUTDOWN"}
            /\ status' = status /\ link' = l
BY ShutdownEffect DEF BeginDisconnect, AwaitRequests, TakesDown

\* In the beginning nothing was sent.
LEMMA InitIInv == Init /\ SD!TypeOK => IInv
<1> SUFFICES ASSUME Init, SD!TypeOK PROVE IInv
  OBVIOUS
<1> USE ServerAssumption
<1>1. TypeOK
  BY DEF Init, TypeOK
<1>2. Unborn /\ Counted /\ Draining /\ Upkeep
  BY DEF Init, Unborn, Counted, Draining, Upkeep, SD!Init, SD!NoCallbacks
<1> QED BY <1>1, <1>2 DEF IInv

\* Every step keeps the invariant.
LEMMA NextIInv ==
  ASSUME IInv, SD!TypeOK', [Next]_vars
  PROVE  IInv'
<1> USE ServerAssumption DEF svars, conn, msgs
<1>t. /\ SD!TypeOK /\ TypeOK /\ Unborn /\ Upkeep /\ Counted /\ Draining
      /\ ticks \in Nat /\ faults \in Nat
      /\ sends \in [Sends -> SendStates]
      /\ appended \in [Sends -> Nat] /\ awaited \subseteq Requesting \cup Recovering
      /\ resource \in [{Producer} -> SD!ResourceStates]
  BY DEF IInv, TypeOK, SD!TypeOK, SendStates
\* Steps that leave the sends as they are.
<1>m. ASSUME UNCHANGED <<sends, appended, ticks>>, faults' \in {faults, faults + 1}
      PROVE  Unborn' /\ Counted' /\ Requesting' = Requesting /\ Recovering' = Recovering
  BY <1>t, <1>m DEF Unborn, Counted, Requesting, Recovering
\* Steps of the process that leave the producer's resource and connection as they are.
<1>p. ASSUME UNCHANGED <<msgs, ticks, faults, conn>>, resource'[Producer] = resource[Producer],
             STATUS' \in {STATUS, "SHUTDOWN"}, callbackMap' = callbackMap \/ callbackMap' = SD!NoCallbacks,
             calm' \in BOOLEAN,
             calm' => calm /\ (STATUS' = "SHUTDOWN" =>
                \A s \in Sends : sends'[s] \notin {"preparing", "recovering", "waiting"})
      PROVE  IInv'
  <2>1. TypeOK'
    BY <1>t, <1>m, <1>p DEF TypeOK
  <2>2. Upkeep'
    BY <1>t, <1>p DEF Upkeep, SD!NoCallbacks
  <2>3. Draining'
    BY <1>t, <1>m, <1>p DEF Draining
  <2> QED BY <1>m, <1>p, <2>1, <2>2, <2>3 DEF IInv
\* Steps that take the producer down.
<1>d. ASSUME TakesDown,
             calm' => calm /\ (STATUS' = "SHUTDOWN" =>
                \A s \in Sends : sends'[s] \notin {"preparing", "recovering", "waiting"})
      PROVE  Upkeep' /\ Draining'
  <2>1. Upkeep'
    BY <1>d DEF Upkeep, TakesDown
  <2>2. calm' => Recovering' = {}
    BY <1>d DEF TakesDown, Recovering
  <2>3. Draining'
    BY <1>d, <2>2 DEF Draining, TakesDown
  <2> QED BY <2>1, <2>3
<1>0. CASE UNCHANGED vars
  BY <1>0, <1>t DEF vars, server, IInv, TypeOK, Unborn, Upkeep, Counted, Draining, Requesting, Recovering,
     SD!TypeOK
<1> SUFFICES ASSUME Next PROVE IInv'
  BY <1>0
<1>c. /\ calm' \in BOOLEAN
      /\ calm' => calm /\ (STATUS' = "SHUTDOWN" =>
           \A s \in Sends : sends'[s] \notin {"preparing", "recovering", "waiting"})
  BY DEF Next
<1>1. CASE ServerInit \/ SignalDefault \/ EndShutdown
  <2>1. /\ UNCHANGED <<msgs, ticks, faults, conn, resource>>
        /\ callbackMap' = callbackMap \/ callbackMap' = SD!NoCallbacks
    BY <1>1 DEF ServerInit, SignalDefault, EndShutdown, SD!ServerInit, SD!SignalDefault,
       SD!EndShutdown
  <2>2. resource[Producer] \notin {"closing", "closed"} \/ STATUS' = "SHUTDOWN"
    BY <1>1, <1>t DEF ServerInit, SignalDefault, EndShutdown, SD!ServerInit, SD!SignalDefault,
       SD!EndShutdown, Upkeep
  <2>3. TypeOK' /\ Unborn' /\ Counted' /\ Requesting' = Requesting /\ Recovering' = Recovering
    BY <1>t, <1>m, <1>c, <2>1 DEF TypeOK
  <2>4. Upkeep'
    BY <1>t, <2>1, <2>2 DEF Upkeep, SD!NoCallbacks
  <2>5. Draining'
    BY <1>t, <1>c, <2>1, <2>3 DEF Draining
  <2> QED BY <2>3, <2>4, <2>5 DEF IInv
<1>2. CASE StartBegins
  <2>1. /\ UNCHANGED <<msgs, ticks, faults, conn, STATUS, callbackMap>>
        /\ resource[Producer] = "none" /\ resource'[Producer] = "acquiring"
    BY <1>2, <1>t DEF StartBegins, SD!Acquire
  <2>2. TypeOK' /\ Unborn' /\ Counted' /\ Requesting' = Requesting /\ Recovering' = Recovering
    BY <1>t, <1>m, <1>c, <2>1 DEF TypeOK
  <2>3. Upkeep'
    BY <1>t, <2>1 DEF Upkeep
  <2>4. Draining'
    BY <1>t, <1>c, <2>1 DEF Draining
  <2> QED BY <2>2, <2>3, <2>4 DEF IInv
<1>3. CASE Connected
  <2>1. /\ UNCHANGED <<msgs, ticks, faults, awaited, STATUS>>
        /\ resource[Producer] = "acquiring" /\ resource'[Producer] = "open"
        /\ status' = "connected" /\ link' = "up"
    BY <1>3, <1>t DEF Connected, SD!Register
  <2>2. TypeOK' /\ Unborn' /\ Counted' /\ Requesting' = Requesting /\ Recovering' = Recovering
    BY <1>t, <1>m, <1>c, <2>1 DEF TypeOK
  <2>3. Upkeep'
    BY <2>1 DEF Upkeep
  <2>4. Draining'
    BY <1>t, <1>c, <2>1 DEF Draining
  <2> QED BY <2>2, <2>3, <2>4 DEF IInv
<1>4. CASE ConnectFails
  <2>1. /\ UNCHANGED <<msgs, ticks, faults, conn, callbackMap>>
        /\ resource[Producer] = "acquiring" /\ STATUS' \in {STATUS, "SHUTDOWN"}
        /\ SD!GracefulShutdown([resource EXCEPT ![Producer] = "failed"])
    BY <1>4, <1>t DEF ConnectFails, SD!AcquireFails, SD!GracefulShutdown
  <2>2. Producer \notin SD!Registered
    BY <1>t, <2>1 DEF Upkeep, SD!Registered
  <2>3. resource'[Producer] = "failed"
    BY <1>t, <2>1, <2>2 DEF SD!GracefulShutdown
  <2>4. TypeOK' /\ Unborn' /\ Counted' /\ Requesting' = Requesting /\ Recovering' = Recovering
    BY <1>t, <1>m, <1>c, <2>1 DEF TypeOK
  <2>5. Upkeep'
    BY <1>t, <2>1, <2>3 DEF Upkeep
  <2>6. Draining'
    BY <1>t, <1>c, <2>1, <2>3 DEF Draining
  <2> QED BY <2>4, <2>5, <2>6 DEF IInv
<1>5. CASE ShutdownTrigger
  <2>1. /\ SD!GracefulShutdown(resource) /\ BeginDisconnect(link)
        /\ UNCHANGED <<msgs, ticks, faults, callbackMap>>
        /\ resource' = resource => UNCHANGED awaited
    BY <1>5 DEF ShutdownTrigger, SD!SignalTrapped, SD!UnexpectedError
  <2>2. Unborn' /\ Counted'
    BY <1>m, <2>1
  <2>3. CASE resource' = resource /\ STATUS' \in {STATUS, "SHUTDOWN"} /\ UNCHANGED <<status, link>>
    BY <1>p, <1>c, <2>1, <2>3
  <2>4. CASE TakesDown
    <3>1. TypeOK'
      BY <1>t, <1>c, <2>1, <2>4 DEF TypeOK, TakesDown
    <3> QED BY <1>d, <1>c, <2>2, <2>4, <3>1 DEF IInv
  <2> QED BY <1>t, <2>1, <2>3, <2>4, DisconnectEffect
<1>6. CASE Disconnected
  <2>1. /\ UNCHANGED <<msgs, ticks, faults, awaited, STATUS, callbackMap>>
        /\ resource[Producer] = "closing" /\ resource'[Producer] = "closed"
        /\ awaited = {} /\ status' = "disconnected" /\ link' \in {link, "down"}
    BY <1>6, <1>t DEF Disconnected
  <2>2. TypeOK' /\ Unborn' /\ Counted' /\ Requesting' = Requesting /\ Recovering' = Recovering
    BY <1>t, <1>m, <1>c, <2>1 DEF TypeOK
  <2>3. Upkeep'
    BY <1>t, <2>1 DEF Upkeep
  <2>4. Draining'
    BY <1>t, <1>c, <2>1, <2>2 DEF Draining
  <2> QED BY <2>2, <2>3, <2>4 DEF IInv
<1>7. CASE Tick
  <2>1. /\ ticks < MaxTicks /\ ticks' = ticks + 1 /\ UNCHANGED <<conn, appended, faults>>
        /\ resource[Producer] \in {"open", "closing", "closed"}
    BY <1>7 DEF Tick
  <2>2. /\ sends' \in [Sends -> SendStates]
        /\ \A s \in Sends : s \notin Burst => sends'[s] = sends[s]
        /\ \A s \in Sends : s \in Burst =>
             /\ sends[s] = "none" /\ sends'[s] \notin {"none", "waiting", "acked"}
             /\ status # "connected" => sends'[s] = "failed"
    <3>1. \A s \in Sends : s \in Burst => sends[s] = "none"
      BY <1>t, BurstBound DEF Unborn
    <3> QED BY <1>7, <1>t, <3>1 DEF Tick, Accepts, SendStates
  <2>3. /\ UNCHANGED callbackMap /\ STATUS' \in {STATUS, "SHUTDOWN"}
        /\ UNCHANGED resource
    <3>1. CASE status = "connected"
      BY <1>7, <3>1 DEF Tick, Accepts
    <3>2. CASE status # "connected"
      <4>1. UNCHANGED svars \/ (SD!GracefulShutdown(resource) /\ UNCHANGED callbackMap)
        BY <1>7, <3>2 DEF Tick, Accepts, Reject, SD!UnexpectedError
      <4>2. resource[Producer] # "open"
        BY <1>t, <3>2 DEF Upkeep
      <4> QED BY <1>t, <4>1, <4>2, ShutdownEffect
    <3> QED BY <3>1, <3>2
  <2>4. Unborn'
    BY <1>t, <2>1, <2>2, BurstBound DEF Unborn
  <2>5. Counted'
    BY <1>t, <2>1, <2>2 DEF Counted
  <2>6. /\ Requesting \subseteq Requesting' /\ Recovering \subseteq Recovering'
        /\ status # "connected" => Requesting' = Requesting
    BY <2>2 DEF Requesting, Recovering
  <2>7. TypeOK'
    BY <1>t, <1>c, <2>1, <2>2, <2>6 DEF TypeOK, SendStates
  <2>8. Upkeep'
    BY <1>t, <2>1, <2>3 DEF Upkeep
  <2>9. Draining'
    BY <1>t, <1>c, <2>1, <2>3, <2>6 DEF Draining, Upkeep
  <2> QED BY <2>4, <2>5, <2>7, <2>8, <2>9 DEF IInv
<1>8. ASSUME NEW s \in Sends, Prepared(s) PROVE IInv'
  <2>1. /\ UNCHANGED <<svars, ticks, status, appended, faults>>
        /\ sends[s] = "preparing" /\ sends' = [sends EXCEPT ![s] = "producing"]
        /\ awaited' = awaited \ {s} /\ link' = "up"
    BY <1>8 DEF Prepared
  <2>2. Unborn' /\ Counted'
    BY <1>t, <2>1 DEF Unborn, Counted
  <2>3. Requesting' = Requesting /\ Recovering' = Recovering
    BY <1>t, <2>1 DEF Requesting, Recovering
  <2>4. TypeOK'
    BY <1>t, <1>c, <2>1, <2>3 DEF TypeOK
  <2>5. Upkeep'
    BY <1>t, <2>1 DEF Upkeep
  <2>6. Draining'
    BY <1>t, <1>c, <2>1 DEF Draining, Upkeep
  <2> QED BY <2>2, <2>4, <2>5, <2>6 DEF IInv
<1>9. ASSUME NEW s \in Sends, Acknowledged(s) PROVE IInv'
  <2>1. /\ UNCHANGED <<svars, ticks, status, link, faults>>
        /\ sends[s] = "producing" /\ sends' = [sends EXCEPT ![s] = "acked"]
        /\ appended' = [appended EXCEPT ![s] = @ + 1]
        /\ awaited' = awaited \ {s}
    BY <1>9 DEF Acknowledged, AppendOnce
  <2>2. Unborn' /\ Counted'
    BY <1>t, <2>1 DEF Unborn, Counted
  <2>3. Requesting' = Requesting \ {s} /\ Recovering' = Recovering
    BY <1>t, <2>1 DEF Requesting, Recovering
  <2>4. TypeOK'
    BY <1>t, <1>c, <2>1, <2>3 DEF TypeOK
  <2>5. Upkeep'
    BY <1>t, <2>1 DEF Upkeep
  <2>6. Draining'
    BY <1>t, <1>c, <2>1, <2>3 DEF Draining
  <2> QED BY <2>2, <2>4, <2>5, <2>6 DEF IInv
<1>10. ASSUME NEW s \in Sends, Retry(s) PROVE IInv'
  <2>1. /\ UNCHANGED <<svars, ticks, status, awaited, appended, faults>>
        /\ sends[s] = "waiting" /\ link' = "up"
        /\ \E phase \in {"preparing", "producing"} : sends' = [sends EXCEPT ![s] = phase]
    BY <1>10 DEF Retry, RetryDue
  <2>2. Unborn' /\ Counted'
    BY <1>t, <2>1 DEF Unborn, Counted
  <2>3. Requesting \subseteq Requesting' /\ Recovering' = Recovering
    BY <1>t, <2>1 DEF Requesting, Recovering
  <2>4. TypeOK'
    BY <1>t, <1>c, <2>1, <2>3 DEF TypeOK
  <2>5. Upkeep'
    BY <1>t, <2>1 DEF Upkeep
  <2>6. Draining'
    BY <1>t, <1>c, <2>1 DEF Draining, Upkeep
  <2> QED BY <2>2, <2>4, <2>5, <2>6 DEF IInv
<1>11. CASE RequestsFail
  <2> DEFINE
    Fails(failing, after, kept) ==
      /\ sends' = [s \in Sends |-> IF s \in failing THEN after[s] ELSE sends[s]]
      /\ appended' = [s \in Sends |->
           IF s \in kept THEN appended[s] + 1 ELSE appended[s]]
      /\ Reject({s \in failing : after[s] = "failed"})
      /\ BeginDisconnect(link)
      /\ resource' = resource => awaited' = awaited \ failing
  <2>0. PICK failing \in SUBSET Requesting :
          \E after \in [failing -> {"recovering", "waiting", "failed"}] :
          \E kept \in SUBSET {s \in failing : sends[s] = "producing"} : Fails(failing, after, kept)
    <3>1. {{s} : s \in Requesting} \cup ({Requesting} \ {{}}) \subseteq SUBSET Requesting
      OBVIOUS
    <3> QED BY <1>11, <3>1, Zenon DEF RequestsFail
  <2>a. PICK after \in [failing -> {"recovering", "waiting", "failed"}] :
          \E kept \in SUBSET {s \in failing : sends[s] = "producing"} : Fails(failing, after, kept)
    BY <2>0
  <2>1. PICK kept \in SUBSET {s \in failing : sends[s] = "producing"} : Fails(failing, after, kept)
    BY <2>a
  <2>2. faults < MaxFaults /\ faults' = faults + 1 /\ UNCHANGED ticks
    BY <1>11 DEF RequestsFail
  <2>3. /\ failing \subseteq Requesting
        /\ \A s \in failing : s \in Sends /\ sends[s] \in {"preparing", "producing"}
        /\ \A s \in Sends : sends'[s] \in
             IF s \in failing THEN {"recovering", "waiting", "failed"} ELSE {sends[s]}
    BY <2>1 DEF Requesting
  <2>4. Requesting' = Requesting \ failing /\ Recovering \subseteq Recovering'
    BY <2>3 DEF Requesting, Recovering
  <2>5. Unborn'
    BY <1>t, <2>1, <2>2, <2>3 DEF Unborn
  <2>6. Counted'
    BY <1>t, <2>1, <2>2, <2>3 DEF Counted
  <2>8. sends' \in [Sends -> SendStates] /\ appended' \in [Sends -> Nat]
    BY <1>t, <2>1 DEF SendStates
  <2>7. /\ UNCHANGED callbackMap
        /\ \/ TakesDown
           \/ /\ resource' = resource /\ STATUS' \in {STATUS, "SHUTDOWN"}
              /\ UNCHANGED <<status, link>> /\ awaited' = awaited \ failing
    <3>1. CASE UNCHANGED svars
      BY <2>1, <3>1 DEF BeginDisconnect
    <3>2. CASE SD!UnexpectedError
      BY <1>t, <2>1, <3>2, DisconnectEffect DEF SD!UnexpectedError
    <3> QED BY <2>1, <3>1, <3>2 DEF Reject
  <2>9. TypeOK'
    BY <1>t, <1>c, <2>2, <2>4, <2>7, <2>8 DEF TypeOK, TakesDown, SendStates
  <2>10. CASE TakesDown
    BY <1>d, <1>c, <2>5, <2>6, <2>9, <2>10 DEF IInv
  <2>11. CASE ~TakesDown
    <3>1. Upkeep'
      BY <1>t, <2>7, <2>11 DEF Upkeep
    <3>2. Draining'
      BY <1>t, <1>c, <2>4, <2>7, <2>11 DEF Draining
    <3> QED BY <2>5, <2>6, <2>9, <3>1, <3>2 DEF IInv
  <2> QED BY <2>10, <2>11
<1>12. ASSUME NEW s \in Sends, Recovered(s) PROVE IInv'
  <2> DEFINE
    Settles(after) ==
      /\ sends' = [sends EXCEPT ![s] = after]
      /\ Reject(IF after = "failed" THEN {s} ELSE {})
  <2>1. /\ sends[s] = "recovering" /\ BeginDisconnect("up")
        /\ resource' = resource => awaited' = awaited \ {s}
        /\ UNCHANGED <<ticks, appended, faults>>
    BY <1>12 DEF Recovered, RecoverDue
  <2>2. PICK after \in {"waiting", "failed"} : Settles(after)
    BY <1>12 DEF Recovered
  <2>3. Unborn' /\ Counted'
    BY <1>t, <2>1, <2>2 DEF Unborn, Counted
  <2>4. Requesting' = Requesting /\ Recovering' = Recovering \ {s}
    BY <1>t, <2>1, <2>2 DEF Requesting, Recovering
  <2>5. /\ UNCHANGED callbackMap
        /\ \/ TakesDown
           \/ /\ resource' = resource /\ STATUS' \in {STATUS, "SHUTDOWN"}
              /\ status' = status /\ link' = "up" /\ awaited' = awaited \ {s}
    <3>1. CASE UNCHANGED svars
      BY <2>1, <3>1 DEF BeginDisconnect
    <3>2. CASE SD!UnexpectedError
      BY <1>t, <2>1, <3>2, DisconnectEffect DEF SD!UnexpectedError
    <3> QED BY <2>2, <3>1, <3>2 DEF Reject
  <2>6. TypeOK'
    BY <1>t, <1>c, <2>1, <2>2, <2>4, <2>5 DEF TypeOK, TakesDown, SendStates
  <2>7. CASE TakesDown
    BY <1>d, <1>c, <2>3, <2>6, <2>7 DEF IInv
  <2>8. CASE ~TakesDown
    <3>1. Upkeep'
      BY <1>t, <2>5, <2>8 DEF Upkeep
    <3>2. calm' => resource[Producer] \notin {"closing", "closed"}
      BY <1>t, <1>c, <2>1 DEF Draining, Upkeep
    <3>3. Draining'
      BY <1>c, <2>5, <2>8, <3>2 DEF Draining
    <3> QED BY <2>3, <2>6, <3>1, <3>3 DEF IInv
  <2> QED BY <2>7, <2>8
<1> QED
  BY <1>1, <1>2, <1>3, <1>4, <1>5, <1>6, <1>7, <1>8, <1>9, <1>10, <1>11, <1>12 DEF Next

\* The strengthening is an invariant of the specification.
LEMMA Invariance == Spec => []IInv
<1>1. Spec => []SD!TypeOK
  BY ShutdownOfServer1, PTL
<1>2. IInv /\ SD!TypeOK' /\ [Next]_vars => IInv'
  BY NextIInv
<1> QED BY <1>1, <1>2, InitIInv, PTL DEF Spec

-----------------------------------------------------------------------------
(* Theorems.                                                                *)

\* Every variable keeps its type.
THEOREM TypeCorrect == Spec => []TypeOK
<1>1. IInv => TypeOK
  BY DEF IInv
<1> QED BY <1>1, Invariance, PTL

\* A send that resolved is in the log, at most once more than there were faults.
THEOREM ResolvedIsThere == Spec => []ResolvedIsAppended
<1>1. IInv => ResolvedIsAppended
  BY DEF IInv, TypeOK, Counted, ResolvedIsAppended
<1> QED BY <1>1, Invariance, PTL

\* A calm shutdown loses no send and leaves no connection behind.
THEOREM CleanShutdown == Spec => []CleanShutdownDrains
<1>1. IInv => CleanShutdownDrains
  BY DEF IInv, TypeOK, Draining, Upkeep, Requesting, Recovering, Waiting,
     Unsettled, CleanShutdownDrains
<1> QED BY <1>1, Invariance, PTL
=============================================================================
