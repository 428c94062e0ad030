------------------------ MODULE SpringListenerProofs ------------------------
(***************************************************************************)
(* Proofs about SpringListener for any set of consumer threads and any     *)
(* bounds: it implements AtLeastOnce, and repeats a record only when a     *)
(* member was given up or the process died.                                *)
(***************************************************************************)
EXTENDS SpringListener, FiniteSetTheorems, TLAPS

Done == {o \in Offsets : handled[o] > 0}

\* The owner has handled everything from the group's offset to where it is; who
\* polls or handles does so in a group that has begun.
Behind ==
  \A m \in Members :
    /\ pc[m] # "joining" => groupOffset # Unknown
    /\ pc[m] = "handling" => next[m] <= to[m]
    /\ owner = m =>
         /\ groupOffset # Unknown
         /\ groupOffset <= next[m]
         /\ groupOffset .. next[m] - 1 \subseteq Done

IInv == TypeOK /\ Behind

-----------------------------------------------------------------------------
\* The initial state is well typed, and nobody owns the partition.
LEMMA InitIInv == Init => IInv
<1> SUFFICES ASSUME Init PROVE IInv
  OBVIOUS
<1>1. TypeOK
  BY ListenerAssumption DEF Init, TypeOK, Offsets, Unknown, ListenerAssumption
<1>2. Behind
  BY ListenerAssumption DEF Init, Behind, ListenerAssumption
<1> QED BY <1>1, <1>2 DEF IInv

\* What the log is to the other steps: its length, which only Arrive changes.
LEMMA ArriveStep ==
  ASSUME TypeOK, Arrive
  PROVE  /\ log' \in Seq({"typed", "foreign"}) /\ Len(log') <= MaxLog
         /\ Len(log') = Len(log) + 1 /\ Len(log) \in Nat
BY ListenerAssumption DEF Arrive, TypeOK, ListenerAssumption

\* Every step keeps the variables' types.
LEMMA TypeStep ==
  ASSUME IInv, [Next]_vars
  PROVE  TypeOK'
<1> USE ListenerAssumption DEF ListenerAssumption, IInv, TypeOK, Unknown,
        broker, members, counters
<1>n. Len(log) \in Nat
  OBVIOUS
<1>0. CASE UNCHANGED vars
  BY <1>0 DEF vars
<1>1. CASE Arrive
  <2>1. \A o \in 0 .. Len(log) : o \in 0 .. Len(log')
    BY <1>1, ArriveStep
  <2>2. /\ log' \in Seq({"typed", "foreign"}) /\ Len(log') <= MaxLog
        /\ UNCHANGED <<groupOffset, owner, deserializer, members, handled, first, counters>>
    BY <1>1, ArriveStep DEF Arrive
  <2>3. next' \in [Members -> 0 .. Len(log')] /\ to' \in [Members -> 0 .. Len(log')]
    BY <2>1, <2>2
  <2> QED BY <2>1, <2>2, <2>3
<1>2. CASE Evict
  BY <1>2 DEF Evict, Lose
<1>3. CASE Restart
  BY <1>3 DEF Restart, Lose
<1>4. ASSUME NEW m \in Members, Join(m) PROVE TypeOK'
  BY <1>4, <1>n DEF Join, Start, CommitStart
<1>5. ASSUME NEW m \in Members, Poll(m) PROVE TypeOK'
  BY <1>5, <1>n DEF Poll
<1>6. ASSUME NEW m \in Members, HandleRecord(m) PROVE TypeOK'
  BY <1>6, <1>n DEF HandleRecord, Offsets
<1>7. ASSUME NEW m \in Members, Commit(m) PROVE TypeOK'
  BY <1>7 DEF Commit, CommittedOffset
<1>8. ASSUME NEW m \in Members, CommitFails(m) PROVE TypeOK'
  BY <1>8 DEF CommitFails, CommittedOffset, KeepPosition
<1>9. ASSUME NEW m \in Members, Fenced(m) PROVE TypeOK'
  BY <1>9 DEF Fenced
<1> QED BY <1>0, <1>1, <1>2, <1>3, <1>4, <1>5, <1>6, <1>7, <1>8, <1>9 DEF Next, Thread

\* Every step keeps the owner's past handled.
LEMMA BehindStep ==
  ASSUME IInv, [Next]_vars
  PROVE  Behind'
<1> USE ListenerAssumption DEF ListenerAssumption, IInv, Unknown, broker, members,
        counters, Done
<1>t. /\ next \in [Members -> Nat] /\ to \in [Members -> Nat]
      /\ pc \in [Members -> {"joining", "polling", "handling"}]
      /\ groupOffset \in Nat \cup {Unknown} /\ Len(log) \in Nat
      /\ handled \in [Offsets -> Nat]
      /\ \A m \in Members : next[m] <= Len(log) /\ to[m] <= Len(log)
      /\ Len(log) <= MaxLog
  BY DEF TypeOK
<1>0. CASE UNCHANGED vars
  BY <1>0 DEF vars, Behind
<1>1. CASE Arrive
  BY <1>1 DEF Arrive, Behind
<1>2. CASE Evict
  BY <1>2 DEF Evict, Behind
<1>3. CASE Restart
  BY <1>3 DEF Restart, Behind
<1>4. ASSUME NEW m \in Members, Join(m) PROVE Behind'
  <2>1. /\ owner' = m /\ pc' = [pc EXCEPT ![m] = "polling"]
        /\ groupOffset' = Start /\ Start \in Nat
        /\ next' = [next EXCEPT ![m] = Start] /\ UNCHANGED <<to, handled>>
    BY <1>4, <1>t DEF Join, Start, CommitStart
  <2> QED BY <1>t, <2>1 DEF Behind
<1>5. ASSUME NEW m \in Members, Poll(m) PROVE Behind'
  <2>1. PICK end \in next[m] + 1 .. Len(log) :
          /\ to' = [to EXCEPT ![m] = end] /\ pc' = [pc EXCEPT ![m] = "handling"]
          /\ owner = m /\ UNCHANGED <<next, owner, groupOffset, handled>>
    BY <1>5 DEF Poll
  <2> QED BY <1>t, <2>1 DEF Behind
<1>6. ASSUME NEW m \in Members, HandleRecord(m) PROVE Behind'
  <2>1. /\ next[m] < to[m] /\ next[m] \in Offsets
        /\ handled' = [handled EXCEPT ![next[m]] = @ + 1]
        /\ next' = [next EXCEPT ![m] = @ + 1]
        /\ UNCHANGED <<pc, to, owner, groupOffset>>
    BY <1>6, <1>t DEF HandleRecord, Offsets
  <2>2. Done \cup {next[m]} \subseteq Done'
    BY <1>t, <2>1
  <2>3. next'[m] = next[m] + 1 /\ \A n \in Members \ {m} : next'[n] = next[n]
    BY <1>t, <2>1
  <2>4. ASSUME NEW n \in Members PROVE Behind!(n)'
    <3>1. CASE n = m
      <4>1. owner = m =>
              \A o \in groupOffset .. next[m] : o \in groupOffset .. next[m] - 1 \/ o = next[m]
        BY <1>t DEF Behind
      <4> QED BY <1>t, <2>1, <2>2, <2>3, <3>1, <4>1 DEF Behind
    <3>2. CASE n # m
      BY <1>t, <2>1, <2>2, <2>3, <3>2 DEF Behind
    <3> QED BY <3>1, <3>2
  <2> QED BY <2>4 DEF Behind
<1>7. ASSUME NEW m \in Members, Commit(m) PROVE Behind'
  <2>1. /\ owner = m /\ next[m] = to[m] /\ groupOffset' = next[m]
        /\ pc' = [pc EXCEPT ![m] = "polling"]
        /\ UNCHANGED <<owner, next, to, handled>>
    BY <1>7 DEF Commit, Acknowledged, CommittedOffset
  <2> QED BY <1>t, <2>1 DEF Behind
<1>8. ASSUME NEW m \in Members, CommitFails(m) PROVE Behind'
  <2>1. /\ owner = m /\ next[m] = to[m] /\ groupOffset' \in {groupOffset, next[m]}
        /\ pc' = [pc EXCEPT ![m] = "polling"]
        /\ UNCHANGED <<owner, next, to, handled>>
    BY <1>8 DEF CommitFails, Acknowledged, CommittedOffset, KeepPosition
  <2> QED BY <1>t, <2>1 DEF Behind
<1>9. ASSUME NEW m \in Members, Fenced(m) PROVE Behind'
  BY <1>9, <1>t DEF Fenced, Behind
<1> QED BY <1>0, <1>1, <1>2, <1>3, <1>4, <1>5, <1>6, <1>7, <1>8, <1>9 DEF Next, Thread

\* The invariant holds in every reachable state.
LEMMA Invariance == Spec => []IInv
<1>1. IInv /\ [Next]_vars => IInv'
  BY TypeStep, BehindStep DEF IInv
<1> QED BY <1>1, InitIInv, PTL DEF Spec

\* Every variable keeps its type.
THEOREM TypeCorrect == Spec => []TypeOK
<1>1. IInv => TypeOK
  BY DEF IInv
<1> QED BY <1>1, Invariance, PTL

-----------------------------------------------------------------------------
\* Every step of the listener is one of the contract, or changes nothing of it.
LEMMA ContractStep ==
  ASSUME IInv, [Next]_vars
  PROVE  [Contract!Next]_Contract!vars
<1> USE DEF broker, members, counters, Contract!vars, Contract!Unknown, Unknown
<1>t. /\ next \in [Members -> Nat] /\ to \in [Members -> Nat] /\ Len(log) \in Nat
      /\ groupOffset \in Nat \cup {Unknown} /\ handled \in [Offsets -> Nat]
      /\ \A m \in Members : next[m] <= Len(log) /\ to[m] <= Len(log)
      /\ Len(log) <= MaxLog /\ MaxLog \in Nat
  BY ListenerAssumption DEF IInv, TypeOK, ListenerAssumption
<1>0. CASE UNCHANGED vars
  BY <1>0 DEF vars
<1>1. CASE Arrive
  <2>1. Contract!Append
    BY <1>1, ArriveStep DEF Arrive, Contract!Append, IInv
  <2> QED BY <2>1 DEF Contract!Next
<1>2. CASE Evict \/ Restart
  BY <1>2 DEF Evict, Restart
<1>4. ASSUME NEW m \in Members, Join(m) PROVE [Contract!Next]_Contract!vars
  <2>1. CASE groupOffset = Unknown
    <3>1. Contract!Begin
      BY <1>4, <2>1 DEF Join, CommitStart, Contract!Begin
    <3> QED BY <3>1 DEF Contract!Next
  <2>2. CASE groupOffset # Unknown
    BY <1>4, <2>2 DEF Join, CommitStart
  <2> QED BY <2>1, <2>2
<1>5. ASSUME NEW m \in Members, Poll(m) \/ Fenced(m) PROVE [Contract!Next]_Contract!vars
  BY <1>5 DEF Poll, Fenced
<1>6. ASSUME NEW m \in Members, HandleRecord(m) PROVE [Contract!Next]_Contract!vars
  <2>1. /\ next[m] < to[m] /\ next[m] \in Offsets /\ groupOffset # Unknown
        /\ handled' = [handled EXCEPT ![next[m]] = @ + 1]
        /\ UNCHANGED <<log, groupOffset>>
    <3>1. groupOffset # Unknown
      BY <1>6 DEF HandleRecord, IInv, Behind
    <3> QED BY <1>6, <1>t, <3>1 DEF HandleRecord, Offsets
  <2>2. Done' = Done \cup {next[m]}
    BY <1>t, <2>1 DEF Done
  <2>3. next[m] \in 0 .. Len(log) - 1
    BY <1>t, <2>1
  <2>4. Contract!Handle
    BY <2>1, <2>2, <2>3 DEF Contract!Handle, Done
  <2> QED BY <2>4 DEF Contract!Next
<1>7. ASSUME NEW m \in Members, Commit(m) \/ CommitFails(m)
      PROVE  [Contract!Next]_Contract!vars
  <2>1. /\ owner = m /\ next[m] = to[m] /\ groupOffset' \in {groupOffset, next[m]}
        /\ UNCHANGED <<log, handled>>
    BY <1>7 DEF Commit, CommitFails, Acknowledged, CommittedOffset
  <2>2. CASE groupOffset' = next[m]
    <3>1. /\ groupOffset # Unknown /\ next[m] \in groupOffset .. Len(log)
          /\ groupOffset .. next[m] - 1 \subseteq Done
      BY <1>t, <2>1 DEF IInv, Behind
    <3>2. Contract!Acknowledge
      BY <2>1, <2>2, <3>1 DEF Contract!Acknowledge, Done
    <3> QED BY <3>2 DEF Contract!Next
  <2>3. CASE groupOffset' = groupOffset
    BY <2>1, <2>3
  <2> QED BY <2>1, <2>2, <2>3
<1> QED BY <1>0, <1>1, <1>2, <1>4, <1>5, <1>6, <1>7 DEF Next, Thread

\* For any number of threads, records, failed commits, evictions and restarts:
\* what is acknowledged was handled, and stays acknowledged.
THEOREM Refinement == Spec => AtLeastOnceDelivery
<1>1. Init => Contract!Init
  BY DEF Init, Contract!Init, Contract!Unknown, Unknown, Offsets
<1>2. IInv /\ [Next]_vars => [Contract!Next]_Contract!vars
  BY ContractStep
<1> QED BY <1>1, <1>2, Invariance, PTL DEF Spec, AtLeastOnceDelivery, Contract!Spec

-----------------------------------------------------------------------------
\* The threads that may yet handle o before they join again: the owner, unless it
\* is past o, and those that were given up with o left in their batch.
Ahead(o) ==
  {m \in Members : /\ pc[m] # "joining" /\ next[m] <= o
                   /\ owner = m \/ (pc[m] = "handling" /\ o < to[m])}
Vacant == IF owner = None THEN 1 ELSE 0

\* Every handling of o uses up a thread that joined, and every join a loss but the
\* first.
FewChances ==
  \A o \in Offsets : handled[o] + Cardinality(Ahead(o)) + Vacant <= 1 + losses

\* The threads ahead are finitely many, as are those of any subset.
LEMMA AheadFinite ==
  ASSUME NEW o \in Offsets
  PROVE  /\ IsFiniteSet(Ahead(o)) /\ Cardinality(Ahead(o)) \in Nat
         /\ \A S \in SUBSET Ahead(o) : Cardinality(S) \in Nat
                                       /\ Cardinality(S) <= Cardinality(Ahead(o))
<1>1. IsFiniteSet(Ahead(o))
  BY ListenerAssumption, FS_Subset DEF ListenerAssumption, Ahead
<1> QED BY <1>1, FS_Subset, FS_CardinalityType

\* In the beginning nobody has joined.
LEMMA InitChances == Init => FewChances
<1> SUFFICES ASSUME Init, NEW o \in Offsets
             PROVE  handled[o] + Cardinality(Ahead(o)) + Vacant <= 1 + losses
  BY DEF FewChances
<1>1. Ahead(o) = {}
  BY DEF Init, Ahead
<1>2. Cardinality(Ahead(o)) = 0
  BY <1>1, FS_EmptySet
<1> QED BY <1>2 DEF Init, Vacant

\* Every step keeps the account of chances.
LEMMA ChancesStep ==
  ASSUME IInv, FewChances, [Next]_vars
  PROVE  FewChances'
<1> USE ListenerAssumption DEF ListenerAssumption, broker, members, counters
<1>t. /\ next \in [Members -> Nat] /\ to \in [Members -> Nat]
      /\ pc \in [Members -> {"joining", "polling", "handling"}]
      /\ handled \in [Offsets -> Nat] /\ losses \in Nat
      /\ Vacant \in 0 .. 1
  BY DEF IInv, TypeOK, Vacant
<1> SUFFICES ASSUME NEW o \in Offsets
             PROVE  handled'[o] + Cardinality(Ahead(o)') + Vacant' <= 1 + losses'
  BY DEF FewChances, Offsets
<1>h. handled[o] + Cardinality(Ahead(o)) + Vacant <= 1 + losses
  BY DEF FewChances
<1>f. /\ handled[o] \in Nat /\ Cardinality(Ahead(o)) \in Nat
      /\ IsFiniteSet(Ahead(o))
  BY <1>t, AheadFinite
\* A step that adds no thread and handles nothing.
<1>s. ASSUME Ahead(o)' \subseteq Ahead(o), handled' = handled,
             \/ Vacant' = Vacant /\ losses' = losses
             \/ Vacant' \in 0 .. 1 /\ losses' = losses + 1
      PROVE  handled'[o] + Cardinality(Ahead(o)') + Vacant' <= 1 + losses'
  <2>1. Cardinality(Ahead(o)') \in Nat /\ Cardinality(Ahead(o)') <= Cardinality(Ahead(o))
    BY <1>s, AheadFinite
  <2> QED BY <1>s, <1>t, <1>h, <1>f, <2>1
<1>0. CASE UNCHANGED vars \/ Arrive
  <2>1. UNCHANGED <<owner, members, handled, losses>>
    BY <1>0 DEF vars, Arrive
  <2>2. Ahead(o)' \subseteq Ahead(o)
    BY <2>1 DEF Ahead
  <2>3. Vacant' = Vacant
    BY <2>1 DEF Vacant
  <2> QED BY <1>s, <2>1, <2>2, <2>3
<1>2. CASE Evict
  <2>1. Ahead(o)' \subseteq Ahead(o)
    BY <1>2 DEF Evict, Ahead
  <2> QED BY <1>2, <1>s, <2>1 DEF Evict, Lose, Vacant
<1>3. CASE Restart
  <2>1. Ahead(o)' = {}
    BY <1>3 DEF Restart, Ahead
  <2> QED BY <1>3, <1>s, <2>1 DEF Restart, Lose, Vacant
<1>4. ASSUME NEW m \in Members, Join(m)
      PROVE  handled'[o] + Cardinality(Ahead(o)') + Vacant' <= 1 + losses'
  <2>1. Ahead(o)' \subseteq Ahead(o) \cup {m}
    BY <1>4, <1>t DEF Join, Ahead
  <2>2. Vacant = 1 /\ Vacant' = 0 /\ handled' = handled /\ losses' = losses
    BY <1>4 DEF Join, Vacant
  <2>3. /\ IsFiniteSet(Ahead(o) \cup {m})
        /\ Cardinality(Ahead(o) \cup {m}) \in Nat
        /\ Cardinality(Ahead(o) \cup {m}) <= Cardinality(Ahead(o)) + 1
    <3>1. /\ IsFiniteSet(Ahead(o) \cup {m})
          /\ \/ Cardinality(Ahead(o) \cup {m}) = Cardinality(Ahead(o))
             \/ Cardinality(Ahead(o) \cup {m}) = Cardinality(Ahead(o)) + 1
      BY <1>f, FS_AddElement
    <3> QED BY <1>f, <3>1
  <2>4. /\ Cardinality(Ahead(o)') \in Nat
        /\ Cardinality(Ahead(o)') <= Cardinality(Ahead(o) \cup {m})
    BY <2>1, <2>3, FS_Subset, FS_CardinalityType
  <2> QED BY <1>h, <1>f, <1>t, <2>2, <2>3, <2>4
<1>5. ASSUME NEW m \in Members, Poll(m)
      PROVE  handled'[o] + Cardinality(Ahead(o)') + Vacant' <= 1 + losses'
  <2>1. Ahead(o)' \subseteq Ahead(o)
    <3>1. /\ owner = m /\ pc[m] = "polling" /\ UNCHANGED <<owner, next>>
          /\ pc' = [pc EXCEPT ![m] = "handling"]
          /\ \A n \in Members \ {m} : to'[n] = to[n]
      BY <1>5, <1>t DEF Poll
    <3> QED BY <1>t, <3>1 DEF Ahead
  <2>2. handled' = handled /\ Vacant' = Vacant /\ losses' = losses
    BY <1>5 DEF Poll, Vacant
  <2> QED BY <1>s, <2>1, <2>2
<1>6. ASSUME NEW m \in Members, HandleRecord(m)
      PROVE  handled'[o] + Cardinality(Ahead(o)') + Vacant' <= 1 + losses'
  <2>1. /\ pc[m] = "handling" /\ next[m] < to[m]
        /\ handled' = [handled EXCEPT ![next[m]] = @ + 1]
        /\ next' = [next EXCEPT ![m] = @ + 1]
        /\ UNCHANGED <<owner, pc, to, losses>>
    BY <1>6 DEF HandleRecord
  <2>2. Vacant' = Vacant
    BY <2>1 DEF Vacant
  <2>3. CASE next[m] = o
    <3>1. m \in Ahead(o) /\ Ahead(o)' \subseteq Ahead(o) \ {m}
      BY <1>t, <2>1, <2>3 DEF Ahead, Offsets
    <3>2. /\ IsFiniteSet(Ahead(o) \ {m})
          /\ Cardinality(Ahead(o) \ {m}) = Cardinality(Ahead(o)) - 1
      BY <1>f, <3>1, FS_RemoveElement
    <3>3. /\ Cardinality(Ahead(o)') \in Nat
          /\ Cardinality(Ahead(o)') <= Cardinality(Ahead(o)) - 1
      BY <3>1, <3>2, FS_Subset, FS_CardinalityType
    <3>4. handled'[o] = handled[o] + 1
      BY <1>t, <2>1, <2>3
    <3> QED BY <1>h, <1>f, <1>t, <2>1, <2>2, <3>3, <3>4
  <2>4. CASE next[m] # o
    <3>1. Ahead(o)' \subseteq Ahead(o)
      BY <1>t, <2>1 DEF Ahead, Offsets
    <3>2. /\ Cardinality(Ahead(o)') \in Nat
          /\ Cardinality(Ahead(o)') <= Cardinality(Ahead(o))
      BY <3>1, AheadFinite
    <3>3. handled'[o] = handled[o]
      BY <1>t, <2>1, <2>4
    <3> QED BY <1>h, <1>f, <1>t, <2>1, <2>2, <3>2, <3>3
  <2> QED BY <2>3, <2>4
<1>7. ASSUME NEW m \in Members, Commit(m) \/ CommitFails(m)
      PROVE  handled'[o] + Cardinality(Ahead(o)') + Vacant' <= 1 + losses'
  <2>1. /\ owner = m /\ pc[m] = "handling" /\ pc' = [pc EXCEPT ![m] = "polling"]
        /\ UNCHANGED <<owner, next, to, handled, losses>>
    BY <1>7 DEF Commit, CommitFails, Acknowledged, KeepPosition
  <2>2. Ahead(o)' \subseteq Ahead(o)
    BY <1>t, <2>1 DEF Ahead
  <2>3. Vacant' = Vacant
    BY <2>1 DEF Vacant
  <2> QED BY <1>s, <2>1, <2>2, <2>3
<1>8. ASSUME NEW m \in Members, Fenced(m)
      PROVE  handled'[o] + Cardinality(Ahead(o)') + Vacant' <= 1 + losses'
  <2>1. Ahead(o)' \subseteq Ahead(o)
    BY <1>8, <1>t DEF Fenced, Ahead
  <2>2. handled' = handled /\ Vacant' = Vacant /\ losses' = losses
    BY <1>8 DEF Fenced, Vacant
  <2> QED BY <1>s, <2>1, <2>2
<1> QED BY <1>0, <1>2, <1>3, <1>4, <1>5, <1>6, <1>7, <1>8 DEF Next, Thread

\* However many threads and failed commits there are, a record is handled once,
\* and once more at most for every eviction and restart.
THEOREM OncePerLoss == Spec => []DuplicatesAreExplained
<1>1. IInv /\ FewChances /\ [Next]_vars => FewChances'
  BY ChancesStep
<1>2. IInv /\ FewChances => DuplicatesAreExplained
  <2> SUFFICES ASSUME IInv, FewChances, NEW o \in Offsets PROVE handled[o] <= 1 + losses
    BY DEF DuplicatesAreExplained
  <2>1. handled[o] + Cardinality(Ahead(o)) + Vacant <= 1 + losses
    BY DEF FewChances
  <2>2. /\ handled[o] \in Nat /\ Cardinality(Ahead(o)) \in Nat
        /\ Vacant \in Nat /\ losses \in Nat
    BY AheadFinite DEF IInv, TypeOK, Vacant
  <2> QED BY <2>1, <2>2
<1> QED BY InitChances, <1>1, <1>2, Invariance, PTL DEF Spec
=============================================================================
