--------------------------- MODULE ShutdownProofs ---------------------------
(* Proofs about module Shutdown for any resources, names and signals.       *)
EXTENDS Shutdown, TLAPS

\* The shape of a shutdown in progress: callbacks have been invoked only by it,
\* what it promised to close is past "open", and it ends when all have settled.
Progress ==
  /\ STATUS # "SHUTDOWN" => /\ \A r \in Resources : calls[r] = 0
                            /\ ~ended
  /\ \A r \in Resources : calls[r] <= 1
  /\ \A r \in promised : resource[r] \in {"closing", "closed", "failed"}
  /\ ended => AllSettled

\* The traps of an active process are all in place.
TrapsInPlace ==
  /\ STATUS = "ACTIVE" => traps = Signals
  /\ ~alive => STATUS # "ACTIVE"

IInv == TypeOK /\ Progress /\ TrapsInPlace

-----------------------------------------------------------------------------
\* Registered is what callbackMap maps to: resources, never None.
LEMMA RegisteredType == TypeOK => Registered \subseteq Resources
  BY DEF TypeOK, Registered

\* gracefulShutdown keeps the types of what it changes and invokes a callback at
\* most once, whatever resource states (res) its caller leaves, provided the
\* caller touches only resources that were being acquired.
LEMMA GracefulShutdownStep ==
  ASSUME TypeOK, Progress, NEW res \in [Resources -> ResourceStates],
         \A r \in Resources : res[r] = resource[r] \/ resource[r] = "acquiring",
         GracefulShutdown(res), UNCHANGED <<callbackMap, ended>>
  PROVE  /\ STATUS' \in {STATUS, "SHUTDOWN"}
         /\ STATUS = "ACTIVE" => STATUS' = "SHUTDOWN"
         /\ promised' \subseteq Resources
         /\ resource' \in [Resources -> ResourceStates]
         /\ calls' \in [Resources -> Nat]
         /\ Progress'
<1>1. Registered \subseteq Resources
  BY RegisteredType
<1>2. CASE MayShutdown
  <2>1. /\ STATUS = "ACTIVE" /\ STATUS' = "SHUTDOWN" /\ promised' = Registered
        /\ calls' = [r \in Resources |->
                       IF r \in Registered THEN calls[r] + 1 ELSE calls[r]]
        /\ resource' = [r \in Resources |->
                          IF r \in Registered THEN "closing" ELSE res[r]]
    BY <1>2 DEF GracefulShutdown, MayShutdown
  <2>2. /\ \A r \in Resources : calls[r] = 0
        /\ ~ended /\ ~ended'
    BY <2>1 DEF Progress
  <2>3. calls' \in [Resources -> Nat] /\ \A r \in Resources : calls'[r] <= 1
    BY <2>1, <2>2
  <2>4. resource' \in [Resources -> ResourceStates]
    BY <2>1 DEF ResourceStates
  <2>5. \A r \in promised' : resource'[r] = "closing"
    BY <1>1, <2>1
  <2>6. Progress'
    BY <2>1, <2>2, <2>3, <2>5 DEF Progress
  <2> QED BY <1>1, <2>1, <2>3, <2>4, <2>6
<1>3. CASE ~MayShutdown
  <2>1. resource' = res /\ UNCHANGED <<STATUS, promised, calls>>
    BY <1>3 DEF GracefulShutdown
  <2>2. \A r \in promised : resource'[r] = resource[r]
    BY <2>1 DEF Progress, TypeOK
  <2>3. Progress'
    BY <2>1, <2>2 DEF Progress, AllSettled
  <2> QED BY <1>3, <2>1, <2>3 DEF TypeOK, MayShutdown
<1> QED BY <1>2, <1>3

\* The strengthened invariant holds initially.
LEMMA InitIInv == Init => IInv
<1> SUFFICES ASSUME Init PROVE IInv
  OBVIOUS
<1>1. TypeOK
  BY DEF Init, TypeOK, Statuses, ResourceStates, NoCallbacks
<1>2. Progress
  BY DEF Init, Progress, AllSettled
<1>3. TrapsInPlace
  BY DEF Init, TrapsInPlace
<1> QED BY <1>1, <1>2, <1>3 DEF IInv

\* Every step preserves it.
LEMMA NextIInv == IInv /\ [Next]_vars => IInv'
<1> SUFFICES ASSUME IInv, [Next]_vars PROVE IInv'
  OBVIOUS
<1> USE DEF IInv
<1>1. ASSUME ServerInit, alive PROVE IInv'
  <2>1. TypeOK'
    BY <1>1 DEF ServerInit, TypeOK, Statuses, Trapped
  <2>2. Progress'
    BY <1>1 DEF ServerInit, Progress, AllSettled
  <2>3. TrapsInPlace'
    BY <1>1 DEF ServerInit, TrapsInPlace, Trapped
  <2> QED BY <2>1, <2>2, <2>3
<1>2. ASSUME NEW s \in Signals, SignalTrapped(s), alive PROVE IInv'
  <2>1. resource \in [Resources -> ResourceStates]
    BY DEF TypeOK
  <2>2. GracefulShutdown(resource) /\ UNCHANGED <<alive, callbackMap, ended>>
    BY <1>2 DEF SignalTrapped
  <2>3. /\ STATUS' \in {STATUS, "SHUTDOWN"}
        /\ STATUS = "ACTIVE" => STATUS' = "SHUTDOWN"
        /\ promised' \subseteq Resources
        /\ resource' \in [Resources -> ResourceStates]
        /\ calls' \in [Resources -> Nat]
        /\ Progress'
    BY <2>1, <2>2, GracefulShutdownStep
  <2>4. traps' \subseteq Signals
    BY <1>2 DEF SignalTrapped, TypeOK
  <2> QED BY <1>2, <2>2, <2>3, <2>4 DEF TypeOK, TrapsInPlace, Statuses
<1>3. ASSUME NEW s \in Signals, SignalDefault(s) PROVE IInv'
  BY <1>3 DEF SignalDefault, TypeOK, Progress, TrapsInPlace, AllSettled
<1>4. ASSUME UnexpectedError, alive PROVE IInv'
  <2>1. resource \in [Resources -> ResourceStates]
    BY DEF TypeOK
  <2>2. /\ GracefulShutdown(resource)
        /\ UNCHANGED <<alive, callbackMap, traps, ended>>
    BY <1>4 DEF UnexpectedError
  <2>3. /\ STATUS' \in {STATUS, "SHUTDOWN"}
        /\ STATUS = "ACTIVE" => STATUS' = "SHUTDOWN"
        /\ promised' \subseteq Resources
        /\ resource' \in [Resources -> ResourceStates]
        /\ calls' \in [Resources -> Nat]
        /\ Progress'
    BY <2>1, <2>2, GracefulShutdownStep
  <2> QED BY <1>4, <2>2, <2>3 DEF TypeOK, TrapsInPlace, Statuses
<1>5. ASSUME NEW r \in Resources, Acquire(r) PROVE IInv'
  <2>1. \A p \in promised : p # r
    BY <1>5 DEF Acquire, Progress
  <2> QED BY <1>5, <2>1 DEF Acquire, TypeOK, Progress, TrapsInPlace,
                            ResourceStates, AllSettled
<1>6. ASSUME NEW r \in Resources, Register(r) PROVE IInv'
  <2>1. \A p \in promised : p # r
    BY <1>6 DEF Register, Progress
  <2>2. callbackMap' \in [Names -> Resources \cup {None}]
    BY <1>6, ShutdownAssumption DEF Register, AddCallBack, TypeOK
  <2> QED BY <1>6, <2>1, <2>2 DEF Register, TypeOK, Progress, TrapsInPlace,
                                  ResourceStates, AllSettled
<1>7. ASSUME NEW r \in Resources, AcquireFails(r), alive PROVE IInv'
  <2> DEFINE res == [resource EXCEPT ![r] = "failed"]
  <2>1. /\ res \in [Resources -> ResourceStates]
        /\ \A q \in Resources : res[q] = resource[q] \/ resource[q] = "acquiring"
    BY <1>7 DEF AcquireFails, TypeOK, ResourceStates
  <2>2. GracefulShutdown(res) /\ UNCHANGED <<alive, callbackMap, traps, ended>>
    BY <1>7 DEF AcquireFails
  <2> HIDE DEF res
  <2>3. /\ STATUS' \in {STATUS, "SHUTDOWN"}
        /\ STATUS = "ACTIVE" => STATUS' = "SHUTDOWN"
        /\ promised' \subseteq Resources
        /\ resource' \in [Resources -> ResourceStates]
        /\ calls' \in [Resources -> Nat]
        /\ Progress'
    BY <2>1, <2>2, GracefulShutdownStep
  <2> QED BY <1>7, <2>2, <2>3 DEF TypeOK, TrapsInPlace, Statuses
<1>8. ASSUME NEW r \in Resources, CallbackSettles(r) PROVE IInv'
  <2>1. PICK outcome \in {"closed", "failed"} :
          resource' = [resource EXCEPT ![r] = outcome]
    BY <1>8 DEF CallbackSettles
  <2> QED BY <1>8, <2>1 DEF CallbackSettles, TypeOK, Progress, TrapsInPlace,
                            ResourceStates, AllSettled
<1>9. CASE EndShutdown
  BY <1>9, ShutdownAssumption
  DEF EndShutdown, TypeOK, Progress, TrapsInPlace, NoCallbacks, AllSettled
<1>10. CASE UNCHANGED vars
  BY <1>10 DEF vars, TypeOK, Progress, TrapsInPlace, AllSettled
<1> QED BY <1>1, <1>2, <1>3, <1>4, <1>5, <1>6, <1>7, <1>8, <1>9, <1>10 DEF Next

\* The strengthened invariant is an invariant of the specification.
THEOREM Invariance == Spec => []IInv
  BY InitIInv, NextIInv, PTL DEF Spec

\* Every variable keeps its type, for any resources, names and signals.
THEOREM TypeCorrect == Spec => []TypeOK
<1>1. IInv => TypeOK
  BY DEF IInv
<1> QED BY <1>1, Invariance, PTL

\* gracefulShutdown invokes no callback twice, whoever calls it and how often.
THEOREM AtMostOnce == Spec => []CallbackAtMostOnce
<1>1. IInv => CallbackAtMostOnce
  BY DEF IInv, Progress, CallbackAtMostOnce
<1> QED BY <1>1, Invariance, PTL

\* "End Shutdown" comes after every promised callback has settled.
THEOREM EndSettled == Spec => []EndMeansSettled
<1>1. IInv => EndMeansSettled
  BY DEF IInv, Progress, AllSettled, EndMeansSettled
<1> QED BY <1>1, Invariance, PTL

\* An active process is not killed by the signals it traps.
THEOREM NoEarlyKill == Spec => []NoKillBeforeShutdown
<1>1. IInv => NoKillBeforeShutdown
  BY DEF IInv, TrapsInPlace, NoKillBeforeShutdown
<1> QED BY <1>1, Invariance, PTL
=============================================================================
