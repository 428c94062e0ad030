------------------------ MODULE KafkaProducerProofs ------------------------
(***************************************************************************)
(* Proofs about KafkaProducer for any set of calls, any retry count and    *)
(* any limit of fast reconnects: calls that do not overlap leave no        *)
(* connection behind and tell the truth about it.                          *)
(***************************************************************************)
EXTENDS KafkaProducer, TLAPS

\* Calls that have not overlapped are alone, or all of them shutdowns; among them
\* the one that began last.
Alone ==
  \A c \in InProgress : \A d \in Calls :
    d # c /\ (d \in InProgress \/ d = latest) =>
      kind[c] = "shutdown" /\ kind[d] = "shutdown"

\* A start is at work on #producer; a shutdown has it, or it is dropped already.
Holds ==
  \A c \in Calls :
    /\ pc[c] \in {"again", "closed"} => kind[c] = "reconnect"
    /\ pc[c] = "closing" => kind[c] # "start"
    /\ pc[c] \in {"listening", "ready", "connecting"} => kind[c] # "shutdown"
    /\ pc[c] \in {"listening", "ready", "connecting"} => producer # None
    /\ pc[c] = "connecting" => obj[c] = producer
    /\ pc[c] = "closing" => producer \in {obj[c], None}
    /\ pc[c] = "closed" => producer = None

Told ==
  \A c \in Calls : latest = c =>
    /\ pc[c] = "resolved" /\ kind[c] # "shutdown" => Connected = {producer}
    /\ pc[c] = "resolved" /\ kind[c] = "shutdown" => producer = None
    /\ pc[c] = "rejected" /\ fast < MaxFast => Connected = {}

Tidy == Alone /\ Holds /\ Connected \subseteq {producer} /\ Told
IInv == TypeOK /\ (~overlapped => Tidy)

-----------------------------------------------------------------------------
\* The initial state is well typed and tidy.
LEMMA InitIInv == Init => IInv
<1> SUFFICES ASSUME Init PROVE IInv
  OBVIOUS
<1>1. TypeOK
  <2>1. pc \in [Calls -> Labels] /\ kind \in [Calls -> Kinds]
    BY DEF Init, Labels, Kinds
  <2>2. /\ status \in [1 .. made -> {"connected", "disconnecting", "disconnected"}]
        /\ obj \in [Calls -> 1 .. made \cup {None}]
        /\ tries \in [Calls -> Nat]
    BY DEF Init
  <2> QED BY <2>1, <2>2 DEF Init, TypeOK
<1>2. Connected = {}
  BY DEF Init, Connected
<1>3. Alone /\ Holds /\ Told
  BY <1>2 DEF Init, Alone, Holds, Told, InProgress
<1> QED BY <1>1, <1>2, <1>3 DEF IInv, Tidy

\* A call that resolves or rejects moves itself on and forgets its promise.
LEMMA Outcome ==
  ASSUME TypeOK, NEW c \in Calls, StartResolves(c) \/ StartRejects(c)
  PROVE  /\ tries' \in [Calls -> Nat]
         /\ \/ Goto(c, "resolved")
            \/ Goto(c, "rejected")
            \/ Goto(c, "again") /\ kind[c] = "reconnect"
<1>1. CASE StartResolves(c)
  BY <1>1 DEF StartResolves, TypeOK
<1>2. CASE kind[c] = "start" /\ Goto(c, "rejected") /\ UNCHANGED tries
  BY <1>2 DEF TypeOK
<1>3. CASE kind[c] = "reconnect" /\ TryAgain(c)
  BY <1>3 DEF TryAgain, TypeOK
<1> QED BY <1>1, <1>2, <1>3 DEF StartRejects

\* Every step keeps the variables' types.
LEMMA TypeStep ==
  ASSUME TypeOK, [Next]_vars
  PROVE  TypeOK'
<1> USE ProducerAssumption DEF ProducerAssumption, TypeOK, this, call, history
<1>0. CASE UNCHANGED vars
  BY <1>0 DEF vars
<1>a. ASSUME NEW c \in Calls, NEW k \in Kinds, Begin(c, k)
      PROVE  /\ kind' \in [Calls -> Kinds]
             /\ latest' \in Calls \cup {None}
             /\ overlapped' \in BOOLEAN
             /\ pc[c] = "idle"
  BY <1>a DEF Begin
<1>b. ASSUME NEW c \in Calls, Create(c), pc[c] \in {"idle", "closed"}
      PROVE  /\ producer' \in 1 .. made' \cup {None} /\ made' \in Nat
             /\ status' \in [1 .. made' -> {"connected", "disconnecting", "disconnected"}]
             /\ fast' \in Nat /\ tries' \in [Calls -> Nat]
             /\ pc' \in [Calls -> Labels] /\ obj' \in [Calls -> 1 .. made' \cup {None}]
             /\ \A d \in Calls : obj'[d] # None <=> pc'[d] \in {"closing", "connecting"}
  <2>1. /\ made' = made + 1 /\ producer' = made + 1
        /\ status' = [o \in 1 .. made + 1 |->
                        IF o = made + 1 THEN "disconnected" ELSE status[o]]
        /\ pc' = [pc EXCEPT ![c] = "listening"]
        /\ UNCHANGED <<fast, obj, tries>>
    BY <1>b DEF Create, Goto
  <2>2. 1 .. made \subseteq 1 .. made' /\ made' \in 1 .. made'
    BY <2>1
  <2>3. \A o \in 1 .. made + 1 : o # made + 1 => o \in 1 .. made
    OBVIOUS
  <2>4. status' \in [1 .. made' -> {"connected", "disconnecting", "disconnected"}]
    BY <2>1, <2>3
  <2>5. obj' \in [Calls -> 1 .. made' \cup {None}]
    BY <2>1, <2>2
  <2>6. pc' \in [Calls -> Labels]
    BY <2>1 DEF Labels
  <2>7. \A d \in Calls : obj'[d] # None <=> pc'[d] \in {"closing", "connecting"}
    BY <1>b, <2>1
  <2> QED BY <2>1, <2>2, <2>4, <2>5, <2>6, <2>7
<1>c. ASSUME NEW c \in Calls, NEW k \in Kinds, Close(c, k), pc[c] \in {"idle", "again"}
      PROVE  /\ UNCHANGED <<producer, made, fast, tries>>
             /\ status' \in [1 .. made -> {"connected", "disconnecting", "disconnected"}]
             /\ pc' \in [Calls -> Labels] /\ obj' \in [Calls -> 1 .. made \cup {None}]
             /\ \A d \in Calls : obj'[d] # None <=> pc'[d] \in {"closing", "connecting"}
  BY <1>c DEF Close, Await, Goto, Behind, Labels, Settled
<1>d. ASSUME NEW c \in Calls, Goto(c, "resolved") \/ Goto(c, "rejected") \/ Goto(c, "again"),
             Release(c) \/ (pc[c] \in {"listening", "ready"} /\ UNCHANGED obj)
      PROVE  /\ pc' \in [Calls -> Labels] /\ obj' \in [Calls -> 1 .. made \cup {None}]
             /\ \A d \in Calls : obj'[d] # None <=> pc'[d] \in {"closing", "connecting"}
  BY <1>d DEF Goto, Release, Labels, Settled
<1>1. ASSUME NEW c \in Calls, Start(c) PROVE TypeOK'
  BY <1>1, <1>a, <1>b DEF Start, Kinds
<1>2. ASSUME NEW c \in Calls, ReconnectOrShutdown(c) PROVE TypeOK'
  BY <1>2, <1>a, <1>c DEF ReconnectOrShutdown, Kinds
<1>3. ASSUME NEW c \in Calls, NextRound(c) PROVE TypeOK'
  BY <1>3, <1>c DEF NextRound, Kinds
<1>4. ASSUME NEW c \in Calls, Disconnected(c) PROVE TypeOK'
  BY <1>4 DEF Disconnected, Goto, Behind, Release, Labels, Settled
<1>5. ASSUME NEW c \in Calls, StartAgain(c) PROVE TypeOK'
  BY <1>5, <1>b DEF StartAgain
<1>6. ASSUME NEW c \in Calls, Listen(c) PROVE TypeOK'
  <2>1. CASE Goto(c, "ready") /\ UNCHANGED tries
    BY <1>6, <2>1 DEF Listen, Goto, Labels
  <2>2. CASE StartRejects(c)
    BY <1>6, <2>2, <1>d, Outcome DEF Listen
  <2> QED BY <1>6, <2>1, <2>2 DEF Listen
<1>7. ASSUME NEW c \in Calls, Connect(c) PROVE TypeOK'
  <2>1. CASE producer # None /\ Await(c, "connecting") /\ UNCHANGED tries
    BY <1>7, <2>1 DEF Connect, Await, Goto, Labels
  <2>2. CASE StartResolves(c) /\ UNCHANGED obj
    BY <1>7, <2>2, <1>d, Outcome DEF Connect
  <2> QED BY <1>7, <2>1, <2>2 DEF Connect
<1>8. ASSUME NEW c \in Calls, ConnectSucceeds(c) PROVE TypeOK'
  <2>1. StartResolves(c) \/ StartRejects(c)
    BY <1>8 DEF ConnectSucceeds, CountFast
  <2>2. fast' \in Nat /\ status' \in [1 .. made -> {"connected", "disconnecting", "disconnected"}]
    BY <1>8 DEF ConnectSucceeds, CountFast
  <2> QED BY <1>8, <2>1, <2>2, <1>d, Outcome DEF ConnectSucceeds
<1>9. ASSUME NEW c \in Calls, ConnectFails(c) PROVE TypeOK'
  BY <1>9, <1>d, Outcome DEF ConnectFails
<1> QED BY <1>0, <1>1, <1>2, <1>3, <1>4, <1>5, <1>6, <1>7, <1>8, <1>9 DEF Next, Continue

-----------------------------------------------------------------------------
\* A continuation of c keeps everybody else where they are.
LEMMA AloneStep ==
  ASSUME TypeOK, Alone, UNCHANGED history, NEW c \in Calls, c \in InProgress,
         \A d \in Calls \ {c} : pc'[d] = pc[d]
  PROVE  Alone'
<1>1. InProgress' \subseteq InProgress
  BY DEF InProgress, TypeOK
<1> QED BY <1>1 DEF Alone, history

\* A new call that overlaps nothing but shutdowns.
LEMMA AloneBegin ==
  ASSUME TypeOK, Alone, NEW c \in Calls, NEW k \in Kinds, Begin(c, k), ~overlapped',
         \A d \in Calls \ {c} : pc'[d] = pc[d]
  PROVE  /\ Alone'
         /\ \A d \in InProgress : k = "shutdown" /\ kind[d] = "shutdown"
         /\ kind'[c] = k /\ \A d \in Calls \ {c} : kind'[d] = kind[d]
<1>1. /\ kind' = [kind EXCEPT ![c] = k] /\ latest' = c /\ pc[c] = "idle"
      /\ \A d \in InProgress : k = "shutdown" /\ kind[d] = "shutdown"
  BY DEF Begin
<1>2. kind'[c] = k /\ \A d \in Calls \ {c} : kind'[d] = kind[d]
  BY <1>1 DEF TypeOK
<1>3. InProgress' \subseteq InProgress \cup {c} /\ c \notin InProgress
  BY <1>1 DEF InProgress
<1>4. ASSUME NEW d \in InProgress', NEW e \in Calls, e # d, e \in InProgress' \/ e = latest'
      PROVE  kind'[d] = "shutdown" /\ kind'[e] = "shutdown"
  BY <1>1, <1>2, <1>3, <1>4 DEF InProgress
<1> QED BY <1>1, <1>2, <1>4 DEF Alone

\* A step of a start or reconnect at work disturbs nobody: the others have settled.
LEMMA SoleStep ==
  ASSUME TypeOK, Tidy, UNCHANGED history, NEW c \in Calls,
         pc[c] \in {"closed", "listening", "ready", "connecting"},
         \A d \in Calls \ {c} : pc'[d] = pc[d],
         Connected' \subseteq {producer'}, Holds!(c)', Told!(c)'
  PROVE  Tidy'
<1>1. c \in InProgress /\ kind[c] # "shutdown"
  BY DEF Tidy, Holds, InProgress, Settled
<1>2. \A d \in Calls \ {c} : latest # d /\ pc'[d] \in Settled \cup {"idle"}
  BY <1>1 DEF Tidy, Alone, InProgress
<1>3. Alone'
  BY <1>1, AloneStep DEF Tidy
<1>4. Holds'
  BY <1>2 DEF Holds, Settled
<1>5. Told'
  BY <1>2 DEF Told, history
<1> QED BY <1>3, <1>4, <1>5 DEF Tidy

\* Every step keeps calls that have not overlapped tidy.
LEMMA TidyStep ==
  ASSUME TypeOK, ~overlapped => Tidy, [Next]_vars
  PROVE  ~overlapped' => Tidy'
<1> SUFFICES ASSUME ~overlapped' PROVE Tidy'
  OBVIOUS
<1> USE DEF this, call, history
<1>0. CASE UNCHANGED vars
  BY <1>0 DEF vars, Tidy, Alone, Holds, Told, Connected, InProgress
<1>n. None \notin 1 .. made /\ made \in Nat
  BY ProducerAssumption DEF ProducerAssumption, TypeOK
<1>1. ASSUME NEW c \in Calls, Start(c) PROVE Tidy'
  <2>1. Begin(c, "start") /\ Create(c) /\ made = 0 /\ Tidy
    BY <1>1 DEF Start, Begin
  <2>2. /\ pc' = [pc EXCEPT ![c] = "listening"] /\ producer' = 1 /\ latest' = c
        /\ made' = 1 /\ status' = [o \in 1 .. 1 |-> "disconnected"]
        /\ UNCHANGED obj
    BY <2>1 DEF Create, Goto, Begin
  <2>3. Connected' = {}
    BY <2>2 DEF Connected
  <2>4. /\ Alone' /\ InProgress = {}
        /\ kind'[c] = "start" /\ \A d \in Calls \ {c} : kind'[d] = kind[d]
    BY <2>1, <2>2, AloneBegin DEF TypeOK, Tidy, Kinds
  <2>5. \A d \in Calls \ {c} : pc'[d] \in Settled \cup {"idle"}
    BY <2>2, <2>4 DEF InProgress, TypeOK
  <2>6. Holds'
    <3>1. pc'[c] = "listening" /\ producer' # None
      BY <2>2, ProducerAssumption DEF TypeOK, ProducerAssumption
    <3> QED BY <2>4, <2>5, <3>1 DEF Holds, Settled
  <2>7. Told'
    BY <2>2 DEF Told, TypeOK
  <2> QED BY ONLY <2>3, <2>4, <2>6, <2>7 DEF Tidy
<1>c. ASSUME NEW c \in Calls, NEW k \in {"reconnect", "shutdown"}, Close(c, k), Tidy, Alone',
             \A d \in InProgress \ {c} : kind[d] = "shutdown" /\ k = "shutdown",
             kind'[c] = k, \A d \in Calls \ {c} : kind'[d] = kind[d],
             latest' = c \/ (latest' = latest /\ c \in InProgress)
      PROVE  Tidy'
  <2>1. /\ UNCHANGED <<producer, made, fast>>
        /\ \A d \in Calls \ {c} : pc'[d] = pc[d] /\ obj'[d] = obj[d]
    BY <1>c DEF Close, Goto, Await, TypeOK
  <2>2. Connected' \subseteq Connected
    BY <1>c, <2>1 DEF Close, Connected, TypeOK
  <2>3. /\ producer = None => pc'[c] = Behind(k)
        /\ producer # None => pc'[c] = "closing" /\ obj'[c] = producer
    BY <1>c DEF Close, Goto, Await, TypeOK
  <2>4. Holds'
    <3> SUFFICES ASSUME NEW d \in Calls PROVE Holds!(d)'
      BY DEF Holds
    <3>1. CASE d = c
      BY <1>c, <2>1, <2>3, <3>1 DEF Behind
    <3>2. CASE d # c
      BY <1>c, <2>1, <3>2 DEF Tidy, Holds
    <3> QED BY <3>1, <3>2
  <2>5. Told'
    BY <1>c, <1>n, <2>1, <2>2, <2>3 DEF Told, Tidy, Behind, Alone, Connected
  <2> QED BY <1>c, <2>1, <2>2, <2>4, <2>5 DEF Tidy
<1>2. ASSUME NEW c \in Calls, ReconnectOrShutdown(c) PROVE Tidy'
  <2>1. PICK k \in {"reconnect", "shutdown"} : Begin(c, k) /\ Close(c, k)
    BY <1>2 DEF ReconnectOrShutdown
  <2>2. Tidy /\ latest' = c /\ k \in Kinds
    BY <2>1 DEF Begin, Kinds
  <2>3. \A d \in Calls \ {c} : pc'[d] = pc[d]
    BY <2>1 DEF Close, Goto, Await, TypeOK
  <2>4. /\ Alone'
        /\ \A d \in InProgress : k = "shutdown" /\ kind[d] = "shutdown"
        /\ kind'[c] = k /\ \A d \in Calls \ {c} : kind'[d] = kind[d]
    BY <2>1, <2>2, <2>3, AloneBegin DEF Tidy
  <2> QED BY <1>c, <2>1, <2>2, <2>4
<1>3. ASSUME NEW c \in Calls, NextRound(c) PROVE Tidy'
  <2>1. /\ pc[c] = "again" /\ Close(c, "reconnect") /\ UNCHANGED history /\ Tidy
        /\ c \in InProgress
    BY <1>3 DEF NextRound, InProgress, Settled
  <2>2. \A d \in Calls \ {c} : pc'[d] = pc[d]
    BY <2>1 DEF Close, Goto, Await, TypeOK
  <2>3. kind[c] = "reconnect" /\ InProgress = {c}
    BY <2>1 DEF Tidy, Holds, Alone, InProgress
  <2>4. Alone'
    BY <2>1, <2>2, AloneStep DEF Tidy
  <2> QED BY <1>c, <2>1, <2>3, <2>4
<1>4. ASSUME NEW c \in Calls, Disconnected(c) PROVE Tidy'
  <2>1. /\ pc[c] = "closing" /\ Tidy /\ c \in InProgress /\ obj[c] \in 1 .. made
        /\ UNCHANGED <<made, fast, history>> /\ producer' = None
        /\ status' = [status EXCEPT ![obj[c]] = "disconnected"]
        /\ pc' = [pc EXCEPT ![c] = Behind(kind[c])]
        /\ obj' = [obj EXCEPT ![c] = None]
    BY <1>4, <1>n DEF Disconnected, Goto, Release, InProgress, Settled, TypeOK
  <2>2. Connected' = {}
    BY <1>n, <2>1 DEF Tidy, Holds, Connected, TypeOK
  <2>3. /\ pc'[c] = Behind(kind[c])
        /\ \A d \in Calls \ {c} : pc'[d] = pc[d] /\ obj'[d] = obj[d]
    BY <2>1 DEF TypeOK
  <2>4. kind[c] \in {"reconnect", "shutdown"}
    BY <2>1 DEF Tidy, Holds, TypeOK, Kinds
  <2>5. Alone'
    BY <2>1, <2>3, AloneStep DEF Tidy
  <2>6. \A d \in InProgress \ {c} : kind[d] = "shutdown"
    BY <2>1 DEF Tidy, Alone, InProgress
  <2>7. Holds'
    <3> SUFFICES ASSUME NEW d \in Calls PROVE Holds!(d)'
      BY DEF Holds
    <3>1. CASE d = c
      BY <2>1, <2>3, <2>4, <3>1 DEF Behind
    <3>2. CASE d # c
      <4>1. pc[d] \notin {"again", "closed", "listening", "ready", "connecting"}
        BY <2>1, <2>6, <3>2 DEF Tidy, Holds, InProgress, Settled
      <4> QED BY <2>1, <2>3, <3>2, <4>1 DEF Tidy, Holds
    <3> QED BY <3>1, <3>2
  <2>8. Told'
    BY <2>1, <2>2, <2>3, <2>4 DEF Told, Tidy, Alone, Behind
  <2> QED BY <2>1, <2>2, <2>5, <2>7, <2>8 DEF Tidy
<1>5. ASSUME NEW c \in Calls, StartAgain(c) PROVE Tidy'
  <2>1. /\ pc[c] = "closed" /\ Tidy /\ kind[c] = "reconnect" /\ producer = None
        /\ UNCHANGED history
        /\ made' = made + 1 /\ producer' = made + 1
        /\ status' = [o \in 1 .. made + 1 |->
                        IF o = made + 1 THEN "disconnected" ELSE status[o]]
        /\ pc' = [pc EXCEPT ![c] = "listening"] /\ UNCHANGED obj
    BY <1>5 DEF StartAgain, Create, Goto, Tidy, Holds
  <2>2. Connected' = {}
    BY <1>n, <2>1 DEF Tidy, Connected
  <2>3. pc'[c] = "listening" /\ \A d \in Calls \ {c} : pc'[d] = pc[d]
    BY <2>1 DEF TypeOK
  <2>4. Holds!(c)' /\ Told!(c)'
    BY <1>n, <2>1, <2>3, ProducerAssumption DEF ProducerAssumption
  <2> QED BY <2>1, <2>2, <2>3, <2>4, SoleStep
<1>6. ASSUME NEW c \in Calls, Listen(c) PROVE Tidy'
  <2>1. /\ pc[c] = "listening" /\ Tidy /\ kind[c] # "shutdown" /\ producer # None
        /\ UNCHANGED <<this, obj, history>> /\ pc' = [pc EXCEPT ![c] = "ready"]
    BY <1>6 DEF Listen, Goto, Tidy, Holds
  <2>2. Connected' \subseteq {producer'}
    BY <2>1 DEF Tidy, Connected
  <2>3. pc'[c] = "ready" /\ \A d \in Calls \ {c} : pc'[d] = pc[d]
    BY <2>1 DEF TypeOK
  <2>4. Holds!(c)' /\ Told!(c)'
    BY <2>1, <2>3
  <2> QED BY <2>1, <2>2, <2>3, <2>4, SoleStep
<1>7. ASSUME NEW c \in Calls, Connect(c) PROVE Tidy'
  <2>1. /\ pc[c] = "ready" /\ Tidy /\ kind[c] # "shutdown" /\ producer # None
        /\ UNCHANGED <<this, history>> /\ pc' = [pc EXCEPT ![c] = "connecting"]
        /\ obj' = [obj EXCEPT ![c] = producer]
    BY <1>7 DEF Connect, Await, Goto, Tidy, Holds
  <2>2. Connected' \subseteq {producer'}
    BY <2>1 DEF Tidy, Connected
  <2>3. /\ pc'[c] = "connecting" /\ obj'[c] = producer
        /\ \A d \in Calls \ {c} : pc'[d] = pc[d]
    BY <2>1 DEF TypeOK
  <2>4. Holds!(c)' /\ Told!(c)'
    BY <2>1, <2>3
  <2> QED BY <2>1, <2>2, <2>3, <2>4, SoleStep
<1>8. ASSUME NEW c \in Calls, ConnectSucceeds(c) PROVE Tidy'
  <2>1. /\ pc[c] = "connecting" /\ Tidy /\ kind[c] # "shutdown"
        /\ producer # None /\ obj[c] = producer /\ producer \in 1 .. made
        /\ UNCHANGED <<producer, made, history>> /\ CountFast(c)
        /\ status' = [status EXCEPT ![producer] = "connected"]
    BY <1>8, <1>n DEF ConnectSucceeds, Tidy, Holds, TypeOK
  <2>2. Connected' = {producer'}
    BY <2>1 DEF Tidy, Connected, TypeOK
  <2>3. /\ StartResolves(c) \/ StartRejects(c)
        /\ fast' < MaxFast => StartResolves(c)
    BY <2>1, ProducerAssumption DEF CountFast, ProducerAssumption, TypeOK
  <2>4. /\ \A d \in Calls \ {c} : pc'[d] = pc[d]
        /\ pc'[c] \in {"resolved", "rejected", "again"}
        /\ pc'[c] = "again" => kind[c] = "reconnect"
        /\ fast' < MaxFast => pc'[c] = "resolved"
    BY <2>3, Outcome DEF Goto, StartResolves, TypeOK
  <2>5. Holds!(c)' /\ Told!(c)'
    BY <2>1, <2>2, <2>4
  <2> QED BY <2>1, <2>2, <2>4, <2>5, SoleStep
<1>9. ASSUME NEW c \in Calls, ConnectFails(c) PROVE Tidy'
  <2>1. /\ pc[c] = "connecting" /\ Tidy /\ kind[c] # "shutdown"
        /\ obj[c] = producer /\ producer \in 1 .. made /\ status[producer] # "connected"
        /\ UNCHANGED <<this, history>> /\ StartRejects(c)
    BY <1>9, <1>n DEF ConnectFails, Tidy, Holds, TypeOK
  <2>2. Connected' = {}
    BY <2>1 DEF Tidy, Connected
  <2>3. /\ \A d \in Calls \ {c} : pc'[d] = pc[d]
        /\ pc'[c] \in {"rejected", "again"}
        /\ pc'[c] = "again" => kind[c] = "reconnect"
    BY <2>1 DEF StartRejects, TryAgain, Goto, TypeOK
  <2>4. Holds!(c)' /\ Told!(c)'
    BY <2>1, <2>2, <2>3
  <2> QED BY <2>1, <2>2, <2>3, <2>4, SoleStep
<1> QED BY <1>0, <1>1, <1>2, <1>3, <1>4, <1>5, <1>6, <1>7, <1>8, <1>9 DEF Next, Continue

-----------------------------------------------------------------------------
\* The invariant holds in every reachable state.
THEOREM Invariance == Spec => []IInv
<1>1. IInv /\ [Next]_vars => IInv'
  BY TypeStep, TidyStep DEF IInv
<1> QED BY <1>1, InitIInv, PTL DEF Spec

\* Every variable keeps its type.
THEOREM TypeCorrect == Spec => []TypeOK
<1>1. IInv => TypeOK
  BY DEF IInv
<1> QED BY <1>1, Invariance, PTL

\* For any number of calls, retries and fast reconnects: as long as no start and
\* no reconnect overlaps another call, no kafkajs producer other than #producer
\* is connected.
THEOREM NoConnectionLost == Spec => []NoOrphan
<1>1. IInv => NoOrphan
  BY DEF IInv, Tidy, NoOrphan
<1> QED BY <1>1, Invariance, PTL

\* For any number of calls, retries and fast reconnects: the result of the call
\* that began last agrees with the connection.
THEOREM ResultsAreTrue == Spec => []ResultTellsConnection
<1>1. IInv => ResultTellsConnection
  BY DEF IInv, Tidy, Told, ResultTellsConnection
<1> QED BY <1>1, Invariance, PTL
=============================================================================
