----------------------------- MODULE RdbProofs -----------------------------
(***************************************************************************)
(* Proofs about Rdb for any sets of calls: types, that an idle connection  *)
(* has no transaction open, and what becomes of the rows of calls that     *)
(* overlapped no transaction.  The second needs to know what is still      *)
(* queued: a transaction that is open will be closed by a command that is  *)
(* queued already, or by one that a queued query will queue.  The third    *)
(* needs to know what stands in the queue before and behind a query.       *)
(***************************************************************************)
EXTENDS Rdb, TLAPS

\* Commands whose execution closes a transaction, or queues the one that does.
Closing(command) ==
  \/ command.op \in {"COMMIT", "ROLLBACK", "QUIT"}
  \/ command.op = "QUERY" /\ command.call \in Transactional

\* A transaction that is open has its end ahead of it.
OpenIsClosing ==
  session = "alive" /\ inTransaction => \E i \in DOMAIN queue : Closing(queue[i])

\* BEGIN is followed by the query of its call.
BeginIsFollowed ==
  \A i \in DOMAIN queue : queue[i].op = "BEGIN" =>
    /\ i + 1 \in DOMAIN queue
    /\ queue[i + 1].op = "QUERY"
    /\ queue[i + 1].call \in Transactional

\* end() has queued QUIT; a dead connection has no session.
EndedIsQuitting ==
  /\ connection = "ended" /\ session = "alive" => \E i \in DOMAIN queue : queue[i].op = "QUIT"
  /\ connection = "dead" => session = "gone"

IInv == TypeOK /\ OpenIsClosing /\ BeginIsFollowed /\ EndedIsQuitting

-----------------------------------------------------------------------------
\* What the tail of a sequence holds.
LEMMA TailOf ==
  ASSUME NEW S, NEW q \in Seq(S), q /= <<>>
  PROVE  /\ Head(q) = q[1] /\ Head(q) \in S
         /\ Tail(q) \in Seq(S)
         /\ DOMAIN Tail(q) = 1 .. Len(q) - 1
         /\ \A i \in 1 .. Len(q) - 1 : Tail(q)[i] = q[i + 1]
         /\ DOMAIN q = 1 .. Len(q) /\ Len(q) \in Nat \ {0}
  OBVIOUS

\* What an element appended to a sequence changes.
LEMMA AppendOf ==
  ASSUME NEW S, NEW q \in Seq(S), NEW e \in S
  PROVE  /\ Append(q, e) \in Seq(S)
         /\ DOMAIN Append(q, e) = 1 .. Len(q) + 1
         /\ \A i \in DOMAIN q : Append(q, e)[i] = q[i]
         /\ Append(q, e)[Len(q) + 1] = e
         /\ DOMAIN q = 1 .. Len(q) /\ Len(q) \in Nat
  OBVIOUS

\* What two elements appended to a sequence change.
LEMMA AppendTwoOf ==
  ASSUME NEW S, NEW q \in Seq(S), NEW d \in S, NEW e \in S
  PROVE  /\ q \o <<d, e>> \in Seq(S)
         /\ DOMAIN (q \o <<d, e>>) = 1 .. Len(q) + 2
         /\ \A i \in DOMAIN q : (q \o <<d, e>>)[i] = q[i]
         /\ (q \o <<d, e>>)[Len(q) + 1] = d
         /\ (q \o <<d, e>>)[Len(q) + 2] = e
         /\ DOMAIN q = 1 .. Len(q) /\ Len(q) \in Nat
<1>1. <<d, e>> \in Seq(S) /\ Len(<<d, e>>) = 2 /\ <<d, e>>[1] = d /\ <<d, e>>[2] = e
  OBVIOUS
<1>2. /\ q \o <<d, e>> \in Seq(S)
      /\ Len(q \o <<d, e>>) = Len(q) + 2
      /\ \A i \in 1 .. Len(q) + 2 :
           (q \o <<d, e>>)[i] = IF i <= Len(q) THEN q[i] ELSE <<d, e>>[i - Len(q)]
  BY <1>1
<1> QED BY <1>1, <1>2

\* The commands a call may send.
LEMMA CommandType ==
  /\ \A c \in Calls, op \in {"BEGIN", "QUERY", "COMMIT", "ROLLBACK"} : Command(op, c) \in Commands
  /\ Command("QUIT", None) \in Commands
  /\ \A command \in Commands : command.op /= "QUIT" => command.call \in Calls
  BY DEF Command, Commands

\* What a settling query does to the queue and to its call.
LEMMA SettlesType ==
  ASSUME TypeOK, queue /= <<>>, Head(queue).op = "QUERY",
         NEW outcome \in {"resolved", "rejected"}, NEW closing \in {"COMMIT", "ROLLBACK"},
         QuerySettles(Head(queue).call, outcome, closing)
  PROVE  /\ Head(queue).call \in Calls
         /\ queue' \in Seq(Commands)
         /\ call' \in [Calls -> {"idle", "waiting", "resolved", "rejected"}]
<1>1. Tail(queue) \in Seq(Commands) /\ Head(queue) \in Commands
  BY TailOf DEF TypeOK
<1>2. Head(queue).call \in Calls
  BY <1>1, CommandType
<1>3. Command(closing, Head(queue).call) \in Commands
  BY <1>2, CommandType
<1>8. Append(Tail(queue), Command(closing, Head(queue).call)) \in Seq(Commands)
  BY <1>1, <1>3, AppendOf
<1>4. queue' \in Seq(Commands)
  BY <1>1, <1>8 DEF QuerySettles
<1>5. PICK c \in Calls : c = Head(queue).call
  BY <1>2
<1>6. \E result \in {"resolved", "rejected"} : call' = [call EXCEPT ![c] = result]
  BY <1>5 DEF QuerySettles
<1>7. call' \in [Calls -> {"idle", "waiting", "resolved", "rejected"}]
  BY <1>6 DEF TypeOK
<1> QED BY <1>2, <1>4, <1>7

\* Variables keep their types: what the callers, mysql2 and MySQL may do to them.
LEMMA TypeInvariance == TypeOK /\ [Next]_vars => TypeOK'
<1> SUFFICES ASSUME TypeOK, [Next]_vars PROVE TypeOK'
  OBVIOUS
<1> USE DEF TypeOK, serverVars, historyVars
<1>1. ASSUME NEW c \in Plain, Execute(c) PROVE TypeOK'
  <2>1. c \in Calls /\ Command("QUERY", c) \in Commands
    BY CommandType DEF Calls
  <2>2. queue' \in Seq(Commands)
    BY <1>1, <2>1, AppendOf DEF Execute
  <2> QED BY <1>1, <2>1, <2>2 DEF Execute
<1>2. ASSUME NEW c \in Transactional, ExecuteWithTransaction(c) PROVE TypeOK'
  <2>1. c \in Calls /\ Command("BEGIN", c) \in Commands /\ Command("QUERY", c) \in Commands
    BY CommandType DEF Calls
  <2>2. queue \o <<Command("BEGIN", c), Command("QUERY", c)>> \in Seq(Commands)
    BY <2>1, AppendTwoOf
  <2>3. queue' \in Seq(Commands)
    BY <1>2, <2>2 DEF ExecuteWithTransaction
  <2>4. InTransactionCall \subseteq Calls
    BY DEF InTransactionCall, Calls
  <2> QED BY <1>2, <2>1, <2>3, <2>4 DEF ExecuteWithTransaction
<1>3. CASE End
  <2>1. queue' \in Seq(Commands)
    BY <1>3, CommandType, AppendOf DEF End
  <2> QED BY <1>3, <2>1 DEF End
<1>4. CASE ControlDone
  <2>1. queue' \in Seq(Commands)
    BY <1>4, TailOf DEF ControlDone
  <2>2. Head(queue).op /= "QUERY"
    BY <1>4 DEF ControlDone
  <2> QED BY <1>4, <2>1, <2>2 DEF ControlDone, Effect, Begin, Commit, Rollback
<1>5. CASE QuerySucceeds
  <2>1. /\ Head(queue).call \in Calls
        /\ queue' \in Seq(Commands)
        /\ call' \in [Calls -> {"idle", "waiting", "resolved", "rejected"}]
    BY <1>5, SettlesType DEF QuerySucceeds
  <2>2. Write(Head(queue).call)
    BY <1>5 DEF QuerySucceeds, Effect
  <2> QED BY <1>5, <2>1, <2>2 DEF QuerySucceeds, Write
<1>6. CASE QueryFails
  <2>1. /\ queue' \in Seq(Commands)
        /\ call' \in [Calls -> {"idle", "waiting", "resolved", "rejected"}]
    BY <1>6, SettlesType DEF QueryFails
  <2> QED BY <1>6, <2>1 DEF QueryFails
<1>7. CASE Quit
  <2>1. queue' \in Seq(Commands)
    BY <1>7, TailOf DEF Quit
  <2> QED BY <1>7, <2>1 DEF Quit, Rollback
<1>8. CASE Break
  <2>1. durable' \subseteq Calls
    <3>1. CASE UNCHANGED durable
      BY <3>1
    <3>2. ASSUME queue /= <<>>, Head(queue).op = "QUERY", durable' = durable \cup {Head(queue).call}
          PROVE  durable' \subseteq Calls
      <4>1. Head(queue) \in Commands
        BY <3>2, TailOf
      <4> QED BY <3>2, <4>1, CommandType
    <3>3. ASSUME durable' = durable \cup pending PROVE durable' \subseteq Calls
      BY <3>3
    <3> QED BY <1>8, <3>1, <3>2, <3>3 DEF Break
  <2>2. queue' \in Seq(Commands) /\ call' \in [Calls -> {"idle", "waiting", "resolved", "rejected"}]
    BY <1>8 DEF Break
  <2> QED BY <1>8, <2>1, <2>2 DEF Break
<1>9. CASE UNCHANGED vars
  BY <1>9 DEF vars
<1> QED BY <1>1, <1>2, <1>3, <1>4, <1>5, <1>6, <1>7, <1>8, <1>9 DEF Next

-----------------------------------------------------------------------------
\* Sending commands keeps what is known of the queue, provided a BEGIN is sent with its query.
LEMMA Sent ==
  ASSUME IInv, DOMAIN queue \subseteq DOMAIN queue',
         \A i \in DOMAIN queue : queue'[i] = queue[i],
         \A i \in DOMAIN queue' \ DOMAIN queue : queue'[i].op = "BEGIN" =>
            /\ i + 1 \in DOMAIN queue'
            /\ queue'[i + 1].op = "QUERY"
            /\ queue'[i + 1].call \in Transactional,
         UNCHANGED <<session, inTransaction>>
  PROVE  /\ OpenIsClosing' /\ BeginIsFollowed'
         /\ UNCHANGED connection => EndedIsQuitting'
<1>1. OpenIsClosing'
  <2> SUFFICES ASSUME session = "alive", inTransaction
               PROVE  \E i \in DOMAIN queue' : Closing(queue'[i])
    BY DEF OpenIsClosing, Closing
  <2>1. PICK i \in DOMAIN queue : Closing(queue[i])
    BY DEF IInv, OpenIsClosing
  <2> QED BY <2>1
<1>2. BeginIsFollowed'
  <2> SUFFICES ASSUME NEW i \in DOMAIN queue', queue'[i].op = "BEGIN"
               PROVE  /\ i + 1 \in DOMAIN queue'
                      /\ queue'[i + 1].op = "QUERY"
                      /\ queue'[i + 1].call \in Transactional
    BY DEF BeginIsFollowed
  <2>1. CASE i \in DOMAIN queue
    BY <2>1 DEF IInv, BeginIsFollowed
  <2>2. CASE i \notin DOMAIN queue
    BY <2>2
  <2> QED BY <2>1, <2>2
<1>3. UNCHANGED connection => EndedIsQuitting'
  <2> SUFFICES ASSUME UNCHANGED connection, connection = "ended", session = "alive"
               PROVE  \E i \in DOMAIN queue' : queue'[i].op = "QUIT"
    BY DEF IInv, EndedIsQuitting
  <2>1. PICK i \in DOMAIN queue : queue[i].op = "QUIT"
    BY DEF IInv, EndedIsQuitting
  <2> QED BY <2>1
<1> QED BY <1>1, <1>2, <1>3

\* Executing the oldest command keeps what is known of the rest, whatever is
\* queued behind it that is not a BEGIN.
LEMMA Executed ==
  ASSUME IInv, queue /= <<>>, 1 .. Len(queue) - 1 \subseteq DOMAIN queue',
         \A i \in 1 .. Len(queue) - 1 : queue'[i] = queue[i + 1],
         \A i \in DOMAIN queue' \ (1 .. Len(queue) - 1) : queue'[i].op /= "BEGIN",
         DOMAIN queue' \subseteq Nat \ {0}
  PROVE  /\ BeginIsFollowed'
         /\ \A i \in DOMAIN queue : i /= 1 => i - 1 \in DOMAIN queue' /\ queue'[i - 1] = queue[i]
         /\ queue[1].op /= "QUIT" /\ UNCHANGED <<connection, session>> => EndedIsQuitting'
         /\ ~Closing(queue[1]) /\ UNCHANGED <<session, inTransaction>> => OpenIsClosing'
<1>1. DOMAIN queue = 1 .. Len(queue) /\ Len(queue) \in Nat \ {0}
  BY TailOf DEF IInv, TypeOK
<1>2. \A i \in DOMAIN queue : i /= 1 => i - 1 \in DOMAIN queue' /\ queue'[i - 1] = queue[i]
  <2> SUFFICES ASSUME NEW i \in 1 .. Len(queue), i /= 1
               PROVE  i - 1 \in DOMAIN queue' /\ queue'[i - 1] = queue[i]
    BY <1>1
  <2>1. i - 1 \in 1 .. Len(queue) - 1 /\ (i - 1) + 1 = i
    BY <1>1
  <2> QED BY <2>1
<1>3. BeginIsFollowed'
  <2> SUFFICES ASSUME NEW i \in DOMAIN queue', queue'[i].op = "BEGIN"
               PROVE  /\ i + 1 \in DOMAIN queue'
                      /\ queue'[i + 1].op = "QUERY"
                      /\ queue'[i + 1].call \in Transactional
    BY DEF BeginIsFollowed
  <2>1. i \in 1 .. Len(queue) - 1 /\ queue[i + 1].op = "BEGIN"
    OBVIOUS
  <2>2. i + 1 \in DOMAIN queue
    BY <1>1, <2>1
  <2>3. /\ (i + 1) + 1 \in DOMAIN queue
        /\ queue[(i + 1) + 1].op = "QUERY"
        /\ queue[(i + 1) + 1].call \in Transactional
    BY <2>1, <2>2 DEF IInv, BeginIsFollowed
  <2>4. i + 1 \in 1 .. Len(queue) - 1
    BY <1>1, <2>1, <2>3
  <2> QED BY <2>3, <2>4
<1>4. ASSUME queue[1].op /= "QUIT", UNCHANGED <<connection, session>> PROVE EndedIsQuitting'
  <2> SUFFICES ASSUME connection = "ended", session = "alive"
               PROVE  \E i \in DOMAIN queue' : queue'[i].op = "QUIT"
    BY <1>4 DEF IInv, EndedIsQuitting
  <2>1. PICK i \in DOMAIN queue : queue[i].op = "QUIT"
    BY DEF IInv, EndedIsQuitting
  <2> QED BY <1>2, <1>4, <2>1
<1>5. ASSUME ~Closing(queue[1]), UNCHANGED <<session, inTransaction>> PROVE OpenIsClosing'
  <2> SUFFICES ASSUME session = "alive", inTransaction
               PROVE  \E i \in DOMAIN queue' : Closing(queue'[i])
    BY <1>5 DEF OpenIsClosing, Closing
  <2>1. PICK i \in DOMAIN queue : Closing(queue[i])
    BY DEF IInv, OpenIsClosing
  <2>2. i /= 1
    BY <1>5, <2>1
  <2> QED BY <1>2, <2>1, <2>2
<1> QED BY <1>2, <1>3, <1>4, <1>5

-----------------------------------------------------------------------------
\* A settling query leaves a closing statement behind it, or QUIT, when a transaction may be open.
LEMMA Settled ==
  ASSUME IInv, queue /= <<>>, Head(queue).op = "QUERY",
         NEW outcome \in {"resolved", "rejected"}, NEW closing \in {"COMMIT", "ROLLBACK"},
         QuerySettles(Head(queue).call, outcome, closing),
         UNCHANGED <<connection, session, inTransaction>>
  PROVE  OpenIsClosing' /\ BeginIsFollowed' /\ EndedIsQuitting'
<1> DEFINE c == Head(queue).call
<1>1. /\ Tail(queue) \in Seq(Commands) /\ DOMAIN Tail(queue) = 1 .. Len(queue) - 1
      /\ \A i \in 1 .. Len(queue) - 1 : Tail(queue)[i] = queue[i + 1]
      /\ Head(queue) = queue[1] /\ DOMAIN queue = 1 .. Len(queue) /\ Len(queue) \in Nat \ {0}
      /\ Len(Tail(queue)) = Len(queue) - 1
  BY TailOf DEF IInv, TypeOK
<1>2. c \in Calls
  BY SettlesType DEF IInv
<1>3. ASSUME queue' = Tail(queue) PROVE BeginIsFollowed' /\ EndedIsQuitting'
  BY <1>1, <1>3, Executed
<1>4. CASE c \in Plain
  <2>1. queue' = Tail(queue)
    BY <1>4 DEF QuerySettles
  <2>2. ~Closing(queue[1])
    BY <1>1, <1>4, CallsAssumption DEF Closing
  <2>3. OpenIsClosing'
    BY <1>1, <2>1, <2>2, Executed
  <2> QED BY <1>3, <2>1, <2>3
<1>5. CASE c \notin Plain /\ connection = "open"
  <2>1. queue' = Append(Tail(queue), Command(closing, c))
    BY <1>5 DEF QuerySettles
  <2>2. Command(closing, c) \in Commands /\ Command(closing, c).op = closing
    BY <1>2, CommandType DEF Command
  <2>3. /\ DOMAIN queue' = 1 .. Len(queue)
        /\ \A i \in 1 .. Len(queue) - 1 : queue'[i] = queue[i + 1]
        /\ queue'[Len(queue)].op = closing
    BY <1>1, <2>1, <2>2, AppendOf
  <2>4. \A i \in DOMAIN queue' \ (1 .. Len(queue) - 1) : queue'[i].op /= "BEGIN"
    BY <1>1, <2>3
  <2>5. BeginIsFollowed' /\ EndedIsQuitting'
    BY <1>1, <2>3, <2>4, Executed
  <2>6. Len(queue) \in DOMAIN queue' /\ Closing(queue'[Len(queue)])
    BY <1>1, <2>3 DEF Closing
  <2> QED BY <2>5, <2>6 DEF OpenIsClosing, Closing
<1>6. CASE c \notin Plain /\ connection /= "open"
  <2>1. queue' = Tail(queue)
    BY <1>6 DEF QuerySettles
  <2>2. BeginIsFollowed' /\ EndedIsQuitting'
    BY <1>3, <2>1
  <2>3. session' = "alive" => \E i \in DOMAIN queue' : queue'[i].op = "QUIT"
    BY <1>6, <2>2 DEF EndedIsQuitting, IInv, TypeOK
  <2> QED BY <2>2, <2>3 DEF OpenIsClosing, Closing
<1> QED BY <1>4, <1>5, <1>6

LEMMA Invariance == IInv /\ [Next]_vars => IInv'
<1> SUFFICES ASSUME IInv, [Next]_vars
             PROVE  OpenIsClosing' /\ BeginIsFollowed' /\ EndedIsQuitting'
  BY TypeInvariance DEF IInv
<1> USE DEF serverVars, historyVars
<1>0. TypeOK /\ TypeOK'
  BY TypeInvariance DEF IInv
<1>1. ASSUME NEW c \in Plain, Execute(c) PROVE OpenIsClosing' /\ BeginIsFollowed' /\ EndedIsQuitting'
  <2>1. CASE connection = "open"
    <3>1. Command("QUERY", c) \in Commands /\ Command("QUERY", c).op = "QUERY"
      BY CommandType DEF Calls, Command
    <3>2. queue' = Append(queue, Command("QUERY", c))
      BY <1>1, <2>1 DEF Execute
    <3>3. /\ DOMAIN queue \subseteq DOMAIN queue'
          /\ \A i \in DOMAIN queue : queue'[i] = queue[i]
          /\ \A i \in DOMAIN queue' \ DOMAIN queue : queue'[i].op = "QUERY"
      BY <1>0, <3>1, <3>2, AppendOf DEF TypeOK
    <3> QED BY <1>1, <3>3, Sent DEF Execute
  <2>2. CASE connection /= "open"
    BY <1>1, <2>2, Sent DEF Execute
  <2> QED BY <2>1, <2>2
<1>2. ASSUME NEW c \in Transactional, ExecuteWithTransaction(c)
      PROVE  OpenIsClosing' /\ BeginIsFollowed' /\ EndedIsQuitting'
  <2>1. CASE connection = "open"
    <3>1. /\ Command("BEGIN", c) \in Commands /\ Command("QUERY", c) \in Commands
          /\ Command("QUERY", c).op = "QUERY" /\ Command("QUERY", c).call = c
      BY CommandType DEF Calls, Command
    <3>2. queue' = queue \o <<Command("BEGIN", c), Command("QUERY", c)>>
      BY <1>2, <2>1 DEF ExecuteWithTransaction
    <3>3. /\ DOMAIN queue = 1 .. Len(queue) /\ Len(queue) \in Nat
          /\ DOMAIN queue' = 1 .. Len(queue) + 2
          /\ \A i \in DOMAIN queue : queue'[i] = queue[i]
          /\ queue'[Len(queue) + 1] = Command("BEGIN", c)
          /\ queue'[Len(queue) + 2] = Command("QUERY", c)
      BY <1>0, <3>1, <3>2, AppendTwoOf DEF TypeOK
    <3>4. ASSUME NEW i \in DOMAIN queue' \ DOMAIN queue, queue'[i].op = "BEGIN"
          PROVE  /\ i + 1 \in DOMAIN queue'
                 /\ queue'[i + 1].op = "QUERY"
                 /\ queue'[i + 1].call \in Transactional
      <4>1. i = Len(queue) + 1
        <5>1. i = Len(queue) + 1 \/ i = Len(queue) + 2
          BY <3>3
        <5> QED BY <3>1, <3>3, <3>4, <5>1
      <4>2. i + 1 = Len(queue) + 2 /\ i + 1 \in DOMAIN queue'
        BY <3>3, <4>1
      <4> QED BY <3>1, <3>3, <4>2
    <3> QED BY <1>2, <3>3, <3>4, Sent DEF ExecuteWithTransaction
  <2>2. CASE connection /= "open"
    BY <1>2, <2>2, Sent DEF ExecuteWithTransaction
  <2> QED BY <2>1, <2>2
<1>3. CASE End
  <2>1. Command("QUIT", None) \in Commands /\ Command("QUIT", None).op = "QUIT"
    BY CommandType DEF Command
  <2>2. /\ DOMAIN queue \subseteq DOMAIN queue' /\ Len(queue) + 1 \in DOMAIN queue'
        /\ \A i \in DOMAIN queue : queue'[i] = queue[i]
        /\ \A i \in DOMAIN queue' \ DOMAIN queue : queue'[i].op = "QUIT"
        /\ queue'[Len(queue) + 1].op = "QUIT"
    BY <1>0, <1>3, <2>1, AppendOf DEF TypeOK, End
  <2>3. OpenIsClosing' /\ BeginIsFollowed'
    BY <1>3, <2>2, Sent DEF End
  <2> QED BY <1>3, <2>2, <2>3 DEF End, EndedIsQuitting
<1>4. CASE ControlDone
  <2>1. /\ queue' = Tail(queue) /\ queue /= <<>>
        /\ Head(queue) = queue[1] /\ DOMAIN queue = 1 .. Len(queue) /\ Len(queue) \in Nat \ {0}
        /\ DOMAIN queue' = 1 .. Len(queue) - 1
        /\ \A i \in 1 .. Len(queue) - 1 : queue'[i] = queue[i + 1]
    BY <1>0, <1>4, TailOf DEF ControlDone, TypeOK
  <2>2. BeginIsFollowed' /\ EndedIsQuitting'
    BY <1>4, <2>1, Executed DEF ControlDone
  <2>3. CASE queue[1].op = "BEGIN"
    <3>1. 2 \in DOMAIN queue /\ queue[2].op = "QUERY" /\ queue[2].call \in Transactional
      <4>1. 1 \in DOMAIN queue /\ 1 + 1 = 2
        BY <2>1
      <4> QED BY <2>3, <4>1 DEF IInv, BeginIsFollowed
    <3>2. 1 \in DOMAIN queue' /\ queue'[1] = queue[2]
      BY <2>1, <3>1
    <3> QED BY <2>2, <3>1, <3>2 DEF OpenIsClosing, Closing
  <2>4. CASE queue[1].op \in {"COMMIT", "ROLLBACK"}
    <3>1. inTransaction' = FALSE
      BY <1>4, <2>1, <2>4 DEF ControlDone, Effect, Commit, Rollback
    <3> QED BY <2>2, <3>1 DEF OpenIsClosing
  <2> QED BY <1>4, <2>1, <2>3, <2>4 DEF ControlDone
<1>5. CASE QuerySucceeds
  <2>1. Write(Head(queue).call)
    BY <1>5 DEF QuerySucceeds, Effect
  <2> QED BY <1>5, <2>1, Settled DEF QuerySucceeds, Write
<1>6. CASE QueryFails
  BY <1>6, Settled DEF QueryFails
<1>7. CASE Quit
  <2>1. /\ queue' = Tail(queue) /\ queue /= <<>>
        /\ DOMAIN queue' = 1 .. Len(queue) - 1
        /\ \A i \in 1 .. Len(queue) - 1 : queue'[i] = queue[i + 1]
        /\ Len(queue) \in Nat
    BY <1>0, <1>7, TailOf DEF Quit, TypeOK
  <2>2. BeginIsFollowed'
    BY <2>1, Executed
  <2> QED BY <1>7, <2>2 DEF Quit, OpenIsClosing, EndedIsQuitting
<1>8. CASE Break
  BY <1>8 DEF Break, OpenIsClosing, BeginIsFollowed, EndedIsQuitting
<1>9. CASE UNCHANGED vars
  BY <1>9 DEF vars, IInv, OpenIsClosing, BeginIsFollowed, EndedIsQuitting, Closing
<1> QED BY <1>1, <1>2, <1>3, <1>4, <1>5, <1>6, <1>7, <1>8, <1>9 DEF Next

LEMMA Initially == Init => IInv
<1> SUFFICES ASSUME Init PROVE IInv
  OBVIOUS
<1>1. queue = <<>> /\ <<>> \in Seq(Commands) /\ DOMAIN queue = {}
  BY DEF Init
<1>2. TypeOK
  BY <1>1 DEF Init, TypeOK
<1> QED BY <1>1, <1>2 DEF Init, IInv, OpenIsClosing, BeginIsFollowed, EndedIsQuitting

LEMMA AlwaysIInv == Spec => []IInv
  BY Initially, Invariance, PTL DEF Spec

\* For any sets of calls, however they overlap, every variable keeps its type.
THEOREM TypeCorrect == Spec => []TypeOK
<1>1. IInv => TypeOK
  BY DEF IInv
<1> QED BY <1>1, AlwaysIInv, PTL

\* However many calls overlap, fail or meet end(): when the queue of the living
\* connection has drained, no transaction is open on it.
THEOREM NoTransactionLeftOpen == Spec => []IdleHasNoTransaction
<1>1. IInv => IdleHasNoTransaction
  BY DEF IInv, OpenIsClosing, IdleHasNoTransaction
<1> QED BY <1>1, AlwaysIInv, PTL

-----------------------------------------------------------------------------
\* The query of a transaction.
TransactionQuery(command) == command.op = "QUERY" /\ command.call \in Transactional

\* Every call has one query in the queue, at most and only while it waits; a BEGIN
\* stands right before its own; QUIT comes with the end.
QueuedIsWaiting ==
  /\ \A i \in DOMAIN queue :
       /\ queue[i].op \in {"BEGIN", "QUERY"} => call[queue[i].call] = "waiting"
       /\ queue[i].op = "BEGIN" =>
            /\ queue[i].call \in Transactional
            /\ i + 1 \in DOMAIN queue
            /\ queue[i + 1].op = "QUERY" /\ queue[i + 1].call = queue[i].call
       /\ queue[i].op = "QUIT" => connection = "ended"
  /\ \A i, j \in DOMAIN queue :
       queue[i].op = "QUERY" /\ queue[j].op = "QUERY" /\ queue[i].call = queue[j].call => i = j
  /\ session = "gone" => connection /= "open"

\* A row is written by nothing but its call's query.
UnwrittenBefore ==
  \A c \in Calls : call[c] \in {"idle", "waiting"} => c \notin pending \cup durable

\* Nothing that may open a transaction is queued before the i-th command, and one
\* that is open is closed before it.
Outside(i) ==
  /\ \A j \in DOMAIN queue : j < i =>
       queue[j].op \notin {"BEGIN", "QUIT"} /\ ~TransactionQuery(queue[j])
  /\ inTransaction => \E j \in DOMAIN queue : j < i /\ queue[j].op \in {"COMMIT", "ROLLBACK"}

\* What an undisturbed plain query finds when its turn comes.
PlainIsOutside ==
  \A i \in DOMAIN queue :
    queue[i].op = "QUERY" /\ queue[i].call \in Plain \ disturbed => Outside(i)

\* The commands behind an undisturbed transaction's query: nothing that could end
\* or replace its transaction.
Harmless(command) ==
  command.op = "QUIT" \/ (command.op = "QUERY" /\ command.call \in Plain)

\* What an undisturbed transaction's query finds, and what follows it.
TransactionIsInside ==
  /\ \A i \in DOMAIN queue :
       TransactionQuery(queue[i]) /\ queue[i].call \notin disturbed =>
         /\ IF i = 1 THEN inTransaction ELSE queue[i - 1].op = "BEGIN"
         /\ \A j \in DOMAIN queue : i < j => Harmless(queue[j])
  /\ \A c, d \in Transactional :
       call[c] = "waiting" /\ call[d] = "waiting" /\ c \notin disturbed => c = d

\* An undisturbed transaction that resolved is committed, or will be by its COMMIT.
CommitIsAhead(c) ==
  /\ c \in pending /\ inTransaction
  /\ \E k \in DOMAIN queue :
       /\ queue[k].op = "COMMIT" /\ queue[k].call = c
       /\ \A j \in DOMAIN queue : j < k => queue[j].op = "QUERY" /\ queue[j].call \in Plain

ResolvedWillLast ==
  \A c \in Calls \ disturbed : call[c] = "resolved" =>
    c \in durable \/ (c \in Transactional /\ (lost \/ CommitIsAhead(c)))

\* One that rejected is not committed, nor will it be: what it wrote is rolled back
\* with the connection.
RejectedWillVanish ==
  \A c \in Calls \ disturbed : call[c] = "rejected" =>
    /\ c \in Transactional =>
         /\ c \notin durable
         /\ c \in pending => connection /= "open" /\ \A j \in DOMAIN queue : Harmless(queue[j])
    /\ c \in Plain /\ ~lost => c \notin pending \cup durable

Rows ==
  /\ QueuedIsWaiting /\ UnwrittenBefore /\ PlainIsOutside /\ TransactionIsInside
  /\ ResolvedWillLast /\ RejectedWillVanish

-----------------------------------------------------------------------------
\* What the type of the queue says of its commands.
LEMMA QueueType ==
  ASSUME TypeOK
  PROVE  /\ DOMAIN queue = 1 .. Len(queue) /\ Len(queue) \in Nat
         /\ \A i \in DOMAIN queue : i \in Nat \ {0}
         /\ \A i \in DOMAIN queue : queue[i].op \in {"BEGIN", "QUERY", "COMMIT", "ROLLBACK", "QUIT"}
         /\ \A i \in DOMAIN queue : queue[i].op /= "QUIT" => queue[i].call \in Calls
<1>1. DOMAIN queue = 1 .. Len(queue) /\ Len(queue) \in Nat
      /\ \A i \in DOMAIN queue : queue[i] \in Commands
  BY DEF TypeOK
<1> QED BY <1>1, CommandType DEF Commands

\* What sending commands of call c, or none, does to the rows.
LEMMA SentRows ==
  ASSUME IInv, Rows, NEW c \in Calls, call[c] = "idle",
         NEW outcome \in {"waiting", "rejected"}, call' = [call EXCEPT ![c] = outcome],
         DOMAIN queue \subseteq DOMAIN queue',
         \A i \in DOMAIN queue : queue'[i] = queue[i],
         \A i \in DOMAIN queue, j \in DOMAIN queue' : j < i => j \in DOMAIN queue,
         connection /= "open" => queue' = queue,
         disturbed \subseteq disturbed', UNCHANGED <<connection, lost, serverVars>>
  PROVE  UnwrittenBefore' /\ ResolvedWillLast' /\ RejectedWillVanish'
<1> USE DEF serverVars
<1>0. /\ call \in [Calls -> {"idle", "waiting", "resolved", "rejected"}]
      /\ UnwrittenBefore /\ ResolvedWillLast /\ RejectedWillVanish
      /\ \A d \in Calls : d /= c => call'[d] = call[d]
      /\ call'[c] = outcome
  BY DEF IInv, TypeOK, Rows
<1>1. UnwrittenBefore'
  BY <1>0 DEF UnwrittenBefore
<1>2. ResolvedWillLast'
  <2> SUFFICES ASSUME NEW d \in Calls \ disturbed', call'[d] = "resolved", d \notin durable
               PROVE  d \in Transactional /\ (lost \/ CommitIsAhead(d)')
    BY DEF ResolvedWillLast
  <2>1. d \in Transactional /\ (lost \/ CommitIsAhead(d))
    BY <1>0 DEF ResolvedWillLast
  <2>2. CommitIsAhead(d) => CommitIsAhead(d)'
    BY DEF CommitIsAhead
  <2> QED BY <2>1, <2>2
<1>3. RejectedWillVanish'
  <2> SUFFICES ASSUME NEW d \in Calls \ disturbed', call'[d] = "rejected"
               PROVE  /\ d \in Transactional =>
                           /\ d \notin durable
                           /\ d \in pending =>
                                connection /= "open" /\ \A j \in DOMAIN queue' : Harmless(queue'[j])
                      /\ d \in Plain /\ ~lost => d \notin pending \cup durable
    BY DEF RejectedWillVanish, Harmless
  <2>1. CASE d = c
    BY <1>0, <2>1 DEF UnwrittenBefore
  <2>2. CASE d /= c
    BY <1>0, <2>2 DEF RejectedWillVanish
  <2> QED BY <2>1, <2>2
<1> QED BY <1>1, <1>2, <1>3

\* A call that is rejected before it sends anything changes nothing in the queue.
LEMMA UnsentRows ==
  ASSUME IInv, Rows, NEW c \in Calls, call[c] = "idle", call' = [call EXCEPT ![c] = "rejected"],
         disturbed \subseteq disturbed', UNCHANGED <<connection, queue, lost, serverVars>>
  PROVE  Rows'
<1> USE DEF serverVars
<1>0. /\ call \in [Calls -> {"idle", "waiting", "resolved", "rejected"}] /\ TypeOK
      /\ QueuedIsWaiting /\ PlainIsOutside /\ TransactionIsInside
      /\ \A d \in Calls : call'[d] = "waiting" <=> call[d] = "waiting"
  BY DEF IInv, TypeOK, Rows
<1>1. QueuedIsWaiting'
  BY <1>0, QueueType DEF QueuedIsWaiting
<1>2. PlainIsOutside'
  BY <1>0 DEF PlainIsOutside, Outside, TransactionQuery
<1>3. TransactionIsInside'
  BY <1>0 DEF TransactionIsInside, TransactionQuery, Harmless, Calls
<1>4. UnwrittenBefore' /\ ResolvedWillLast' /\ RejectedWillVanish'
  BY <1>0, SentRows
<1> QED BY <1>1, <1>2, <1>3, <1>4 DEF Rows

\* A plain query that is sent finds no transaction ahead of it, unless it is disturbed.
LEMMA ExecuteRows ==
  ASSUME IInv, Rows, NEW c \in Plain, Execute(c)
  PROVE  Rows'
<1> USE DEF serverVars
<1>0. /\ call \in [Calls -> {"idle", "waiting", "resolved", "rejected"}] /\ TypeOK
      /\ QueuedIsWaiting /\ PlainIsOutside /\ TransactionIsInside
      /\ c \in Calls /\ call[c] = "idle" /\ c \notin Transactional
      /\ disturbed \subseteq disturbed' /\ (InTransactionCall /= {} => c \in disturbed')
      /\ UNCHANGED <<connection, lost, session, inTransaction, pending, durable>>
  BY CallsAssumption DEF IInv, TypeOK, Rows, Execute, Calls
<1>1. CASE connection /= "open"
  BY <1>0, <1>1, UnsentRows DEF Execute
<1>2. CASE connection = "open"
  <2> DEFINE last == Len(queue) + 1
  <2>1. queue' = Append(queue, Command("QUERY", c)) /\ call' = [call EXCEPT ![c] = "waiting"]
    BY <1>2 DEF Execute
  <2>2. Command("QUERY", c) \in Commands
    BY <1>0, CommandType
  <2>3. /\ DOMAIN queue = 1 .. Len(queue) /\ Len(queue) \in Nat /\ DOMAIN queue' = 1 .. last
        /\ \A i \in DOMAIN queue : queue'[i] = queue[i]
        /\ queue'[last].op = "QUERY" /\ queue'[last].call = c
    BY <1>0, <2>1, <2>2, AppendOf DEF TypeOK, Command
  <2> HIDE DEF last
  <2>4. /\ DOMAIN queue \subseteq DOMAIN queue' /\ last \in DOMAIN queue' /\ last \notin DOMAIN queue
        /\ \A i \in DOMAIN queue' : i \in DOMAIN queue \/ i = last
        /\ \A i \in DOMAIN queue : i \in Nat \ {0} /\ i < last /\ ~(last < i)
    BY <2>3 DEF last
  <2>5. \A d \in Calls : d /= c => call'[d] = call[d]
    BY <1>0, <2>1
  <2>6. call'[c] = "waiting"
    BY <1>0, <2>1
  <2>7. QueuedIsWaiting'
    <3>1. ASSUME NEW i \in DOMAIN queue'
          PROVE  /\ queue'[i].op \in {"BEGIN", "QUERY"} => call'[queue'[i].call] = "waiting"
                 /\ queue'[i].op = "BEGIN" =>
                      /\ queue'[i].call \in Transactional
                      /\ i + 1 \in DOMAIN queue'
                      /\ queue'[i + 1].op = "QUERY" /\ queue'[i + 1].call = queue'[i].call
                 /\ queue'[i].op = "QUIT" => connection' = "ended"
      <4>1. CASE i = last
        BY <2>3, <2>6, <4>1
      <4>2. CASE i \in DOMAIN queue
        BY <1>0, <2>3, <2>4, <2>5, <2>6, <4>2, QueueType DEF QueuedIsWaiting
      <4> QED BY <2>4, <4>1, <4>2
    <3>2. ASSUME NEW i \in DOMAIN queue', NEW j \in DOMAIN queue',
                 queue'[i].op = "QUERY", queue'[j].op = "QUERY", queue'[i].call = queue'[j].call
          PROVE  i = j
      <4>1. \A k \in DOMAIN queue : queue[k].op = "QUERY" => queue[k].call /= c
        BY <1>0 DEF QueuedIsWaiting
      <4> QED BY <1>0, <2>3, <2>4, <3>2, <4>1 DEF QueuedIsWaiting
    <3>3. session' = "gone" => connection' /= "open"
      BY <1>0 DEF QueuedIsWaiting
    <3> QED BY <3>1, <3>2, <3>3 DEF QueuedIsWaiting
  <2>8. PlainIsOutside'
    <3> SUFFICES ASSUME NEW i \in DOMAIN queue', queue'[i].op = "QUERY",
                        queue'[i].call \in Plain \ disturbed'
                 PROVE  Outside(i)'
      BY DEF PlainIsOutside
    <3>1. CASE i \in DOMAIN queue
      <4>1. Outside(i)
        BY <1>0, <2>3, <3>1 DEF PlainIsOutside
      <4>2. \A j \in DOMAIN queue' : j < i => j \in DOMAIN queue
        BY <2>4, <3>1
      <4> QED BY <1>0, <2>3, <2>4, <4>1, <4>2 DEF Outside, TransactionQuery
    <3>2. CASE i = last
      <4>1. InTransactionCall = {}
        BY <1>0, <2>3, <3>2
      <4>2. \A j \in DOMAIN queue :
              queue[j].op \notin {"BEGIN", "QUIT"} /\ ~TransactionQuery(queue[j])
        BY <1>0, <1>2, <4>1 DEF QueuedIsWaiting, TransactionQuery, InTransactionCall
      <4>3. inTransaction => \E j \in DOMAIN queue : queue[j].op \in {"COMMIT", "ROLLBACK"}
        BY <1>0, <1>2, <4>2 DEF IInv, OpenIsClosing, Closing, QueuedIsWaiting, TransactionQuery, TypeOK
      <4>4. \A j \in DOMAIN queue' : j < last => j \in DOMAIN queue
        BY <2>3 DEF last
      <4> QED BY <1>0, <2>3, <2>4, <3>2, <4>2, <4>3, <4>4 DEF Outside, TransactionQuery
    <3> QED BY <2>4, <3>1, <3>2
  <2>9. TransactionIsInside'
    <3>1. ASSUME NEW i \in DOMAIN queue', TransactionQuery(queue'[i]), queue'[i].call \notin disturbed'
          PROVE  /\ IF i = 1 THEN inTransaction' ELSE queue'[i - 1].op = "BEGIN"
                 /\ \A j \in DOMAIN queue' : i < j => Harmless(queue'[j])
      <4>1. i \in DOMAIN queue
        BY <1>0, <2>3, <2>4, <3>1 DEF TransactionQuery
      <4>2. /\ IF i = 1 THEN inTransaction ELSE queue[i - 1].op = "BEGIN"
            /\ \A j \in DOMAIN queue : i < j => Harmless(queue[j])
        BY <1>0, <2>3, <3>1, <4>1 DEF TransactionIsInside, TransactionQuery
      <4>3. Harmless(queue'[last])
        BY <2>3 DEF Harmless
      <4>4. i /= 1 => i - 1 \in DOMAIN queue
        BY <2>3, <4>1
      <4> QED BY <1>0, <2>3, <2>4, <4>1, <4>2, <4>3, <4>4
    <3>2. \A x, y \in Transactional :
            call'[x] = "waiting" /\ call'[y] = "waiting" /\ x \notin disturbed' => x = y
      BY <1>0, <2>5 DEF TransactionIsInside, Calls
    <3> QED BY <3>1, <3>2 DEF TransactionIsInside, TransactionQuery, Harmless
  <2>10. UnwrittenBefore' /\ ResolvedWillLast' /\ RejectedWillVanish'
    <3>1. \A i \in DOMAIN queue, j \in DOMAIN queue' : j < i => j \in DOMAIN queue
      BY <2>4
    <3> QED BY <1>0, <1>2, <2>1, <2>3, <2>4, <3>1, SentRows
  <2> QED BY <2>7, <2>8, <2>9, <2>10 DEF Rows
<1> QED BY <1>1, <1>2

\* A transaction that is sent disturbs, and is disturbed by, every one that waits.
LEMMA ExecuteWithTransactionRows ==
  ASSUME IInv, Rows, NEW c \in Transactional, ExecuteWithTransaction(c)
  PROVE  Rows'
<1> USE DEF serverVars
<1>0. /\ call \in [Calls -> {"idle", "waiting", "resolved", "rejected"}] /\ TypeOK
      /\ QueuedIsWaiting /\ PlainIsOutside /\ TransactionIsInside
      /\ c \in Calls /\ call[c] = "idle" /\ c \notin Plain
      /\ disturbed \subseteq disturbed'
      /\ InTransactionCall /= {} => c \in disturbed' /\ InTransactionCall \subseteq disturbed'
      /\ UNCHANGED <<connection, lost, session, inTransaction, pending, durable>>
  BY CallsAssumption DEF IInv, TypeOK, Rows, ExecuteWithTransaction, Calls
<1>1. CASE connection /= "open"
  BY <1>0, <1>1, UnsentRows DEF ExecuteWithTransaction
<1>2. CASE connection = "open"
  <2> DEFINE begin == Len(queue) + 1
             last == Len(queue) + 2
  <2>1. /\ queue' = queue \o <<Command("BEGIN", c), Command("QUERY", c)>>
        /\ call' = [call EXCEPT ![c] = "waiting"]
    BY <1>2 DEF ExecuteWithTransaction
  <2>2. Command("BEGIN", c) \in Commands /\ Command("QUERY", c) \in Commands
    BY <1>0, CommandType
  <2>3. /\ DOMAIN queue = 1 .. Len(queue) /\ Len(queue) \in Nat /\ DOMAIN queue' = 1 .. last
        /\ \A i \in DOMAIN queue : queue'[i] = queue[i]
        /\ queue'[begin].op = "BEGIN" /\ queue'[begin].call = c
        /\ queue'[last].op = "QUERY" /\ queue'[last].call = c
    BY <1>0, <2>1, <2>2, AppendTwoOf DEF TypeOK, Command
  <2>a. begin + 1 = last /\ last - 1 = begin /\ last /= 1
    BY <2>3
  <2> HIDE DEF last, begin
  <2>4. /\ DOMAIN queue \subseteq DOMAIN queue' /\ {begin, last} \subseteq DOMAIN queue'
        /\ \A i \in DOMAIN queue' : i \in DOMAIN queue \/ i = last \/ i = begin
        /\ \A i \in DOMAIN queue : i \in Nat \ {0} /\ i < begin /\ ~(last < i) /\ ~(begin < i)
        /\ \A i \in DOMAIN queue' : ~(last < i)
        /\ last \notin DOMAIN queue /\ begin \notin DOMAIN queue
    BY <2>3 DEF last, begin
  <2>5. \A d \in Calls : d /= c => call'[d] = call[d]
    BY <1>0, <2>1
  <2>6. call'[c] = "waiting"
    BY <1>0, <2>1
  <2>7. QueuedIsWaiting'
    <3>1. ASSUME NEW i \in DOMAIN queue'
          PROVE  /\ queue'[i].op \in {"BEGIN", "QUERY"} => call'[queue'[i].call] = "waiting"
                 /\ queue'[i].op = "BEGIN" =>
                      /\ queue'[i].call \in Transactional
                      /\ i + 1 \in DOMAIN queue'
                      /\ queue'[i + 1].op = "QUERY" /\ queue'[i + 1].call = queue'[i].call
                 /\ queue'[i].op = "QUIT" => connection' = "ended"
      <4>1. CASE i = last
        BY <2>3, <2>6, <4>1
      <4>2. CASE i = begin
        BY <2>3, <2>4, <2>a, <2>6, <4>2
      <4>3. CASE i \in DOMAIN queue
        BY <1>0, <2>3, <2>4, <2>5, <2>6, <4>3, QueueType DEF QueuedIsWaiting
      <4> QED BY <2>4, <4>1, <4>2, <4>3
    <3>2. ASSUME NEW i \in DOMAIN queue', NEW j \in DOMAIN queue',
                 queue'[i].op = "QUERY", queue'[j].op = "QUERY", queue'[i].call = queue'[j].call
          PROVE  i = j
      <4>1. \A k \in DOMAIN queue : queue[k].op = "QUERY" => queue[k].call /= c
        BY <1>0 DEF QueuedIsWaiting
      <4>2. i /= begin /\ j /= begin
        BY <2>3, <3>2
      <4> QED BY <1>0, <2>3, <2>4, <3>2, <4>1, <4>2 DEF QueuedIsWaiting
    <3>3. session' = "gone" => connection' /= "open"
      BY <1>0 DEF QueuedIsWaiting
    <3> QED BY <3>1, <3>2, <3>3 DEF QueuedIsWaiting
  <2>8. PlainIsOutside'
    <3> SUFFICES ASSUME NEW i \in DOMAIN queue', queue'[i].op = "QUERY",
                        queue'[i].call \in Plain \ disturbed'
                 PROVE  Outside(i)'
      BY DEF PlainIsOutside
    <3>1. i \in DOMAIN queue
      BY <1>0, <2>3, <2>4
    <3>2. Outside(i)
      BY <1>0, <2>3, <3>1 DEF PlainIsOutside
    <3>3. \A j \in DOMAIN queue' : j < i => j \in DOMAIN queue
      BY <2>3, <3>1
    <3> QED BY <1>0, <2>3, <2>4, <3>2, <3>3 DEF Outside, TransactionQuery
  <2>9. TransactionIsInside'
    <3>1. ASSUME NEW i \in DOMAIN queue', TransactionQuery(queue'[i]), queue'[i].call \notin disturbed'
          PROVE  /\ IF i = 1 THEN inTransaction' ELSE queue'[i - 1].op = "BEGIN"
                 /\ \A j \in DOMAIN queue' : i < j => Harmless(queue'[j])
      <4>1. i \notin DOMAIN queue
        <5>1. ASSUME i \in DOMAIN queue PROVE queue[i].call \in InTransactionCall
          BY <1>0, <2>3, <3>1, <5>1 DEF QueuedIsWaiting, TransactionQuery, InTransactionCall
        <5> QED BY <1>0, <2>3, <3>1, <5>1
      <4>2. i = last
        BY <2>3, <2>4, <3>1, <4>1 DEF TransactionQuery
      <4> QED BY <2>3, <2>a, <2>4, <4>2
    <3>2. ASSUME NEW x \in Transactional, NEW y \in Transactional,
                 call'[x] = "waiting", call'[y] = "waiting", x \notin disturbed'
          PROVE  x = y
      <4>1. InTransactionCall /= {} => x /= c /\ x \notin InTransactionCall
        BY <1>0, <3>2
      <4>2. x /= c => x \in InTransactionCall
        BY <2>5, <3>2 DEF InTransactionCall, Calls
      <4>3. y /= c => y \in InTransactionCall
        BY <2>5, <3>2 DEF InTransactionCall, Calls
      <4> QED BY <4>1, <4>2, <4>3
    <3> QED BY <3>1, <3>2 DEF TransactionIsInside, TransactionQuery, Harmless
  <2>10. UnwrittenBefore' /\ ResolvedWillLast' /\ RejectedWillVanish'
    <3>1. \A i \in DOMAIN queue, j \in DOMAIN queue' : j < i => j \in DOMAIN queue
      BY <2>3
    <3> QED BY <1>0, <1>2, <2>1, <2>3, <2>4, <3>1, SentRows
  <2> QED BY <2>7, <2>8, <2>9, <2>10 DEF Rows
<1> QED BY <1>1, <1>2

\* end() queues QUIT behind everything.
LEMMA EndRows == IInv /\ Rows /\ End => Rows'
<1> SUFFICES ASSUME IInv, Rows, End PROVE Rows'
  OBVIOUS
<1> USE DEF serverVars, historyVars
<1> DEFINE last == Len(queue) + 1
<1>0. /\ TypeOK /\ QueuedIsWaiting /\ PlainIsOutside /\ TransactionIsInside
      /\ UnwrittenBefore /\ ResolvedWillLast /\ RejectedWillVanish
      /\ connection = "open" /\ connection' = "ended"
      /\ UNCHANGED <<call, lost, disturbed, session, inTransaction, pending, durable>>
  BY DEF IInv, Rows, End
<1>1. Command("QUIT", None) \in Commands /\ queue' = Append(queue, Command("QUIT", None))
  BY CommandType DEF End
<1>2. /\ DOMAIN queue = 1 .. Len(queue) /\ Len(queue) \in Nat /\ DOMAIN queue' = 1 .. last
      /\ \A i \in DOMAIN queue : queue'[i] = queue[i]
      /\ queue'[last].op = "QUIT"
  BY <1>0, <1>1, AppendOf DEF TypeOK, Command
<1> HIDE DEF last
<1>3. /\ DOMAIN queue \subseteq DOMAIN queue' /\ last \in DOMAIN queue'
      /\ \A i \in DOMAIN queue' : i \in DOMAIN queue \/ i = last
      /\ \A i \in DOMAIN queue : i \in Nat \ {0} /\ ~(last < i)
      /\ \A i \in DOMAIN queue, j \in DOMAIN queue' : j < i => j \in DOMAIN queue
      /\ \A i \in DOMAIN queue : i /= 1 => i - 1 \in DOMAIN queue
  BY <1>2 DEF last
<1>4. QueuedIsWaiting'
  <2>1. ASSUME NEW i \in DOMAIN queue'
        PROVE  /\ queue'[i].op \in {"BEGIN", "QUERY"} => call'[queue'[i].call] = "waiting"
               /\ queue'[i].op = "BEGIN" =>
                    /\ queue'[i].call \in Transactional
                    /\ i + 1 \in DOMAIN queue'
                    /\ queue'[i + 1].op = "QUERY" /\ queue'[i + 1].call = queue'[i].call
    BY <1>0, <1>2, <1>3 DEF QueuedIsWaiting
  <2>2. ASSUME NEW i \in DOMAIN queue', NEW j \in DOMAIN queue',
               queue'[i].op = "QUERY", queue'[j].op = "QUERY", queue'[i].call = queue'[j].call
        PROVE  i = j
    BY <1>0, <1>2, <1>3, <2>2 DEF QueuedIsWaiting
  <2> QED BY <1>0, <2>1, <2>2 DEF QueuedIsWaiting
<1>5. PlainIsOutside'
  <2> SUFFICES ASSUME NEW i \in DOMAIN queue', queue'[i].op = "QUERY",
                      queue'[i].call \in Plain \ disturbed'
               PROVE  Outside(i)'
    BY DEF PlainIsOutside
  <2>1. i \in DOMAIN queue
    BY <1>2, <1>3
  <2>2. Outside(i)
    BY <1>0, <1>2, <2>1 DEF PlainIsOutside
  <2> QED BY <1>0, <1>2, <1>3, <2>1, <2>2 DEF Outside, TransactionQuery
<1>6. TransactionIsInside'
  <2>1. ASSUME NEW i \in DOMAIN queue', TransactionQuery(queue'[i]), queue'[i].call \notin disturbed'
        PROVE  /\ IF i = 1 THEN inTransaction' ELSE queue'[i - 1].op = "BEGIN"
               /\ \A j \in DOMAIN queue' : i < j => Harmless(queue'[j])
    <3>1. i \in DOMAIN queue
      BY <1>2, <1>3, <2>1 DEF TransactionQuery
    <3>2. /\ IF i = 1 THEN inTransaction ELSE queue[i - 1].op = "BEGIN"
          /\ \A j \in DOMAIN queue : i < j => Harmless(queue[j])
      BY <1>0, <1>2, <2>1, <3>1 DEF TransactionIsInside
    <3>3. Harmless(queue'[last])
      BY <1>2 DEF Harmless
    <3> QED BY <1>0, <1>2, <1>3, <3>1, <3>2, <3>3
  <2> QED BY <1>0, <2>1 DEF TransactionIsInside, TransactionQuery, Harmless
<1>7. UnwrittenBefore'
  BY <1>0 DEF UnwrittenBefore
<1>8. ResolvedWillLast'
  <2>1. \A c \in Calls : CommitIsAhead(c) => CommitIsAhead(c)'
    BY <1>0, <1>2, <1>3 DEF CommitIsAhead
  <2> QED BY <1>0, <2>1 DEF ResolvedWillLast
<1>9. RejectedWillVanish'
  BY <1>0 DEF RejectedWillVanish
<1> QED BY <1>4, <1>5, <1>6, <1>7, <1>8, <1>9 DEF Rows

-----------------------------------------------------------------------------
\* The oldest command is gone, and a settled transaction's closing statement may
\* have come last.
Popped ==
  /\ 1 \in DOMAIN queue
  /\ \A i \in DOMAIN queue \cup DOMAIN queue' : i \in Nat \ {0}
  /\ \A i \in DOMAIN queue : i /= 1 => i - 1 \in DOMAIN queue' /\ queue'[i - 1] = queue[i]
  /\ \A i \in DOMAIN queue' :
       \/ i + 1 \in DOMAIN queue /\ queue'[i] = queue[i + 1]
       \/ /\ queue'[i].op \in {"COMMIT", "ROLLBACK"}
          /\ TransactionQuery(queue[1]) /\ connection = "open"
          /\ \A j \in DOMAIN queue : j < i + 1

\* Executing a command, without a settled query's closing statement.
LEMMA TailIsPopped ==
  ASSUME TypeOK, queue /= <<>>, queue' = Tail(queue)
  PROVE  /\ Popped /\ Head(queue) = queue[1]
         /\ \A i \in DOMAIN queue' : i + 1 \in DOMAIN queue /\ queue'[i] = queue[i + 1]
<1>1. /\ Head(queue) = queue[1] /\ DOMAIN queue = 1 .. Len(queue) /\ Len(queue) \in Nat \ {0}
      /\ DOMAIN queue' = 1 .. Len(queue) - 1
      /\ \A i \in 1 .. Len(queue) - 1 : queue'[i] = queue[i + 1]
  BY TailOf DEF TypeOK
<1>2. \A i \in DOMAIN queue' : i + 1 \in DOMAIN queue /\ queue'[i] = queue[i + 1]
  BY <1>1
<1>3. \A i \in DOMAIN queue : i /= 1 => i - 1 \in DOMAIN queue' /\ queue'[i - 1] = queue[i]
  <2> SUFFICES ASSUME NEW i \in DOMAIN queue, i /= 1
               PROVE  i - 1 \in DOMAIN queue' /\ queue'[i - 1] = queue[i]
    OBVIOUS
  <2>1. i - 1 \in 1 .. Len(queue) - 1 /\ (i - 1) + 1 = i
    BY <1>1
  <2> QED BY <1>1, <2>1
<1>4. 1 \in DOMAIN queue /\ \A i \in DOMAIN queue \cup DOMAIN queue' : i \in Nat \ {0}
  BY <1>1
<1> QED BY <1>1, <1>2, <1>3, <1>4 DEF Popped

\* A query settles: its call is settled, and a transaction's closing statement
\* comes last, if there is a connection to send it on.
LEMMA SettlesIsPopped ==
  ASSUME TypeOK, queue /= <<>>, Head(queue).op = "QUERY",
         NEW outcome \in {"resolved", "rejected"}, NEW closing \in {"COMMIT", "ROLLBACK"},
         QuerySettles(Head(queue).call, outcome, closing)
  PROVE  /\ Popped /\ Head(queue) = queue[1] /\ queue[1].call \in Calls
         /\ \A d \in Calls : d /= queue[1].call => call'[d] = call[d]
         /\ call'[queue[1].call] =
              IF queue[1].call \in Plain \/ connection = "open" THEN outcome ELSE "rejected"
         /\ queue[1].call \notin Plain /\ connection = "open" =>
              \E k \in DOMAIN queue' :
                /\ queue'[k].op = closing /\ queue'[k].call = queue[1].call
                /\ \A j \in DOMAIN queue' : j < k => j + 1 \in DOMAIN queue /\ queue'[j] = queue[j + 1]
         /\ connection /= "open" =>
              \A i \in DOMAIN queue' : i + 1 \in DOMAIN queue /\ queue'[i] = queue[i + 1]
<1> DEFINE c == Head(queue).call
<1>1. /\ Tail(queue) \in Seq(Commands) /\ DOMAIN Tail(queue) = 1 .. Len(queue) - 1
      /\ \A i \in 1 .. Len(queue) - 1 : Tail(queue)[i] = queue[i + 1]
      /\ Head(queue) = queue[1] /\ DOMAIN queue = 1 .. Len(queue) /\ Len(queue) \in Nat \ {0}
      /\ Len(Tail(queue)) = Len(queue) - 1
  BY TailOf DEF TypeOK
<1>2. c \in Calls
  BY SettlesType
<1>3. /\ \A d \in Calls : d /= c => call'[d] = call[d]
      /\ call'[c] = IF c \in Plain \/ connection = "open" THEN outcome ELSE "rejected"
  BY <1>2 DEF QuerySettles, TypeOK
<1>4. CASE c \in Plain \/ connection /= "open"
  <2>1. queue' = Tail(queue)
    BY <1>4 DEF QuerySettles
  <2> QED BY <1>1, <1>2, <1>3, <1>4, <2>1, TailIsPopped
<1>5. CASE c \notin Plain /\ connection = "open"
  <2>1. queue' = Append(Tail(queue), Command(closing, c))
    BY <1>5 DEF QuerySettles
  <2>2. /\ Command(closing, c) \in Commands /\ Command(closing, c).op = closing
        /\ Command(closing, c).call = c
    BY <1>2, CommandType DEF Command
  <2>3. /\ DOMAIN queue' = 1 .. Len(queue)
        /\ \A i \in 1 .. Len(queue) - 1 : queue'[i] = queue[i + 1]
        /\ queue'[Len(queue)].op = closing /\ queue'[Len(queue)].call = c
    BY <1>1, <2>1, <2>2, AppendOf
  <2>4. \A i \in DOMAIN queue : i /= 1 => i - 1 \in DOMAIN queue' /\ queue'[i - 1] = queue[i]
    <3> SUFFICES ASSUME NEW i \in DOMAIN queue, i /= 1
                 PROVE  i - 1 \in DOMAIN queue' /\ queue'[i - 1] = queue[i]
      OBVIOUS
    <3>1. i - 1 \in 1 .. Len(queue) - 1 /\ (i - 1) + 1 = i /\ i - 1 \in 1 .. Len(queue)
      BY <1>1
    <3> QED BY <2>3, <3>1
  <2>5. \A i \in DOMAIN queue' :
          \/ i + 1 \in DOMAIN queue /\ queue'[i] = queue[i + 1]
          \/ i = Len(queue)
    BY <1>1, <2>3
  <2>6. TransactionQuery(queue[1])
    BY <1>1, <1>2, <1>5 DEF TransactionQuery, Calls
  <2>7. \A j \in DOMAIN queue : j < Len(queue) + 1
    BY <1>1
  <2>8. 1 \in DOMAIN queue /\ \A i \in DOMAIN queue \cup DOMAIN queue' : i \in Nat \ {0}
    BY <1>1, <2>3
  <2>9. Popped
    BY <1>5, <2>3, <2>4, <2>5, <2>6, <2>7, <2>8 DEF Popped
  <2>10. \A j \in DOMAIN queue' : j < Len(queue) => j + 1 \in DOMAIN queue /\ queue'[j] = queue[j + 1]
    BY <1>1, <2>3
  <2>11. Len(queue) \in DOMAIN queue'
    BY <1>1, <2>3
  <2> QED BY <1>1, <1>2, <1>3, <1>5, <2>3, <2>9, <2>10, <2>11
<1> QED BY <1>4, <1>5

\* What is known of the queue stays known when its oldest command is executed.
LEMMA PoppedRows ==
  ASSUME TypeOK, QueuedIsWaiting, PlainIsOutside, TransactionIsInside, Popped,
         \A d \in Calls : call'[d] = call[d] \/ (queue[1].op = "QUERY" /\ d = queue[1].call),
         queue[1].op = "QUERY" => call'[queue[1].call] /= "waiting",
         queue[1].op = "BEGIN" => inTransaction',
         queue[1].op \in {"COMMIT", "ROLLBACK", "QUIT"} => ~inTransaction',
         queue[1].op = "QUERY" => inTransaction' = inTransaction,
         session' = session \/ queue[1].op = "QUIT", UNCHANGED <<connection, disturbed>>
  PROVE  QueuedIsWaiting' /\ PlainIsOutside' /\ TransactionIsInside'
<1>0. /\ 1 \in DOMAIN queue
      /\ \A i \in DOMAIN queue \cup DOMAIN queue' : i \in Nat \ {0}
      /\ \A i \in DOMAIN queue : i /= 1 => i - 1 \in DOMAIN queue' /\ queue'[i - 1] = queue[i]
      /\ \A i \in DOMAIN queue' :
           \/ i + 1 \in DOMAIN queue /\ queue'[i] = queue[i + 1]
           \/ /\ queue'[i].op \in {"COMMIT", "ROLLBACK"}
              /\ TransactionQuery(queue[1]) /\ connection = "open"
              /\ \A j \in DOMAIN queue : j < i + 1
  BY DEF Popped
<1>1. /\ \A i \in DOMAIN queue : queue[i].op \in {"BEGIN", "QUERY", "COMMIT", "ROLLBACK", "QUIT"}
      /\ \A i \in DOMAIN queue : queue[i].op /= "QUIT" => queue[i].call \in Calls
  BY QueueType
<1>2. QueuedIsWaiting'
  <2>1. ASSUME NEW i \in DOMAIN queue', i + 1 \in DOMAIN queue, queue'[i] = queue[i + 1]
        PROVE  /\ queue'[i].op \in {"BEGIN", "QUERY"} => call'[queue'[i].call] = "waiting"
               /\ queue'[i].op = "BEGIN" =>
                    /\ queue'[i].call \in Transactional
                    /\ i + 1 \in DOMAIN queue'
                    /\ queue'[i + 1].op = "QUERY" /\ queue'[i + 1].call = queue'[i].call
               /\ queue'[i].op = "QUIT" => connection' = "ended"
    <3>1. i + 1 /= 1 /\ i \in Nat
      BY <1>0
    <3>2. CASE queue[i + 1].op = "BEGIN"
      <4>1. /\ queue[i + 1].call \in Transactional /\ (i + 1) + 1 \in DOMAIN queue
            /\ queue[(i + 1) + 1].op = "QUERY" /\ queue[(i + 1) + 1].call = queue[i + 1].call
            /\ call[queue[i + 1].call] = "waiting"
        BY <2>1, <3>2 DEF QueuedIsWaiting
      <4>2. (i + 1) + 1 /= 1 /\ ((i + 1) + 1) - 1 = i + 1
        BY <3>1
      <4>3. i + 1 \in DOMAIN queue' /\ queue'[i + 1] = queue[(i + 1) + 1]
        BY <1>0, <4>1, <4>2
      <4>4. queue[1].op = "QUERY" => queue[1].call /= queue[i + 1].call
        BY <1>0, <4>1, <4>2 DEF QueuedIsWaiting
      <4>5. queue[i + 1].call \in Calls
        BY <1>1, <2>1, <3>2
      <4> QED BY <2>1, <3>2, <4>1, <4>3, <4>4, <4>5
    <3>3. CASE queue[i + 1].op = "QUERY"
      <4>1. call[queue[i + 1].call] = "waiting" /\ queue[i + 1].call \in Calls
        BY <1>1, <2>1, <3>3 DEF QueuedIsWaiting
      <4>2. queue[1].op = "QUERY" => queue[1].call /= queue[i + 1].call
        BY <1>0, <2>1, <3>1, <3>3 DEF QueuedIsWaiting
      <4> QED BY <2>1, <3>3, <4>1, <4>2
    <3>4. CASE queue[i + 1].op \notin {"BEGIN", "QUERY"}
      BY <2>1, <3>4 DEF QueuedIsWaiting
    <3> QED BY <3>2, <3>3, <3>4
  <2>2. ASSUME NEW i \in DOMAIN queue', NEW j \in DOMAIN queue',
               queue'[i].op = "QUERY", queue'[j].op = "QUERY", queue'[i].call = queue'[j].call
        PROVE  i = j
    <3>1. /\ i + 1 \in DOMAIN queue /\ queue'[i] = queue[i + 1]
          /\ j + 1 \in DOMAIN queue /\ queue'[j] = queue[j + 1]
      BY <1>0, <2>2
    <3>2. i + 1 = j + 1
      BY <2>2, <3>1 DEF QueuedIsWaiting
    <3> QED BY <1>0, <3>2
  <2>3. session' = "gone" => connection' /= "open"
    BY <1>0 DEF QueuedIsWaiting
  <2>4. ASSUME NEW i \in DOMAIN queue', queue'[i].op \in {"COMMIT", "ROLLBACK"}
        PROVE  queue'[i].op \notin {"BEGIN", "QUERY", "QUIT"}
    BY <2>4
  <2> QED BY <1>0, <2>1, <2>2, <2>3, <2>4 DEF QueuedIsWaiting
<1>3. PlainIsOutside'
  <2> SUFFICES ASSUME NEW i \in DOMAIN queue', queue'[i].op = "QUERY",
                      queue'[i].call \in Plain \ disturbed'
               PROVE  Outside(i)'
    BY DEF PlainIsOutside
  <2>1. i + 1 \in DOMAIN queue /\ queue'[i] = queue[i + 1] /\ 1 < i + 1
    BY <1>0
  <2>2. Outside(i + 1)
    BY <2>1 DEF PlainIsOutside
  <2>3. \A j \in DOMAIN queue' : j < i =>
          queue'[j].op \notin {"BEGIN", "QUIT"} /\ ~TransactionQuery(queue'[j])
    <3> SUFFICES ASSUME NEW j \in DOMAIN queue', j < i
                 PROVE  queue'[j].op \notin {"BEGIN", "QUIT"} /\ ~TransactionQuery(queue'[j])
      OBVIOUS
    <3>1. j + 1 < i + 1 /\ ~(i + 1 < j + 1)
      BY <1>0
    <3>2. j + 1 \in DOMAIN queue /\ queue'[j] = queue[j + 1]
      BY <1>0, <2>1, <3>1
    <3> QED BY <2>2, <3>1, <3>2 DEF Outside
  <2>4. ASSUME inTransaction'
        PROVE  \E j \in DOMAIN queue' : j < i /\ queue'[j].op \in {"COMMIT", "ROLLBACK"}
    <3>1. queue[1].op = "QUERY" /\ inTransaction
      BY <1>0, <1>1, <2>1, <2>2, <2>4 DEF Outside
    <3>2. PICK j \in DOMAIN queue : j < i + 1 /\ queue[j].op \in {"COMMIT", "ROLLBACK"}
      BY <2>2, <3>1 DEF Outside
    <3>3. j /= 1
      BY <3>1, <3>2
    <3>4. j - 1 \in DOMAIN queue' /\ queue'[j - 1] = queue[j] /\ j - 1 < i
      BY <1>0, <3>2, <3>3
    <3> QED BY <3>2, <3>4
  <2> QED BY <2>3, <2>4 DEF Outside, TransactionQuery
<1>4. TransactionIsInside'
  <2>1. ASSUME NEW i \in DOMAIN queue', TransactionQuery(queue'[i]), queue'[i].call \notin disturbed'
        PROVE  /\ IF i = 1 THEN inTransaction' ELSE queue'[i - 1].op = "BEGIN"
               /\ \A j \in DOMAIN queue' : i < j => Harmless(queue'[j])
    <3>1. i + 1 \in DOMAIN queue /\ queue'[i] = queue[i + 1]
      BY <1>0, <2>1 DEF TransactionQuery
    <3>2. i + 1 /= 1 /\ (i + 1) - 1 = i
      BY <1>0
    <3>3. queue[i].op = "BEGIN" /\ \A j \in DOMAIN queue : i + 1 < j => Harmless(queue[j])
      BY <2>1, <3>1, <3>2 DEF TransactionIsInside
    <3>4. i /= 1 => queue'[i - 1] = queue[i]
      <4>1. i \in DOMAIN queue
        BY <1>0, <3>1, QueueType
      <4> QED BY <1>0, <4>1
    <3>5. ~TransactionQuery(queue[1])
      <4> SUFFICES ASSUME TransactionQuery(queue[1]) PROVE FALSE
        OBVIOUS
      <4>1. /\ call[queue[1].call] = "waiting" /\ call[queue[i + 1].call] = "waiting"
            /\ queue[1].call \in Transactional /\ queue[i + 1].call \in Transactional
            /\ queue[i + 1].call \notin disturbed
        BY <1>0, <2>1, <3>1 DEF QueuedIsWaiting, TransactionQuery
      <4>2. queue[1].call = queue[i + 1].call
        BY <4>1 DEF TransactionIsInside
      <4> QED BY <1>0, <2>1, <3>1, <3>2, <4>2 DEF QueuedIsWaiting, TransactionQuery
    <3>6. \A j \in DOMAIN queue' : i < j => Harmless(queue'[j])
      <4> SUFFICES ASSUME NEW j \in DOMAIN queue', i < j PROVE Harmless(queue'[j])
        OBVIOUS
      <4>1. j + 1 \in DOMAIN queue /\ queue'[j] = queue[j + 1] /\ i + 1 < j + 1
        BY <1>0, <3>5
      <4> QED BY <3>3, <4>1
    <3> QED BY <3>3, <3>4, <3>6
  <2>2. \A x, y \in Transactional :
          call'[x] = "waiting" /\ call'[y] = "waiting" /\ x \notin disturbed' => x = y
    <3>1. \A x \in Transactional : call'[x] = "waiting" => call[x] = "waiting"
      BY DEF Calls
    <3> QED BY <3>1 DEF TransactionIsInside
  <2> QED BY <2>1, <2>2 DEF TransactionIsInside, TransactionQuery, Harmless
<1> QED BY <1>2, <1>3, <1>4

\* The COMMIT that is ahead comes nearer as plain queries are executed.
LEMMA CommitComesNearer ==
  ASSUME Popped, NEW c \in Calls, CommitIsAhead(c), queue[1].op /= "COMMIT",
         c \in pending', inTransaction'
  PROVE  CommitIsAhead(c)'
<1>1. PICK k \in DOMAIN queue :
        /\ queue[k].op = "COMMIT" /\ queue[k].call = c
        /\ \A j \in DOMAIN queue : j < k => queue[j].op = "QUERY" /\ queue[j].call \in Plain
  BY DEF CommitIsAhead
<1>2. k /= 1 /\ k \in Nat \ {0}
  BY <1>1 DEF Popped
<1>3. k - 1 \in DOMAIN queue' /\ queue'[k - 1] = queue[k]
  BY <1>2 DEF Popped
<1>4. ASSUME NEW j \in DOMAIN queue', j < k - 1
      PROVE  queue'[j].op = "QUERY" /\ queue'[j].call \in Plain
  <2>1. j \in Nat /\ j + 1 < k /\ ~(k < j + 1)
    BY <1>2, <1>4 DEF Popped
  <2>2. j + 1 \in DOMAIN queue /\ queue'[j] = queue[j + 1]
    BY <2>1 DEF Popped
  <2> QED BY <1>1, <2>1, <2>2
<1> QED BY <1>1, <1>3, <1>4 DEF CommitIsAhead

\* BEGIN, COMMIT and ROLLBACK, and QUIT, settle no call.
LEMMA ControlRows ==
  ASSUME IInv, Rows, ControlDone \/ Quit
  PROVE  Rows'
<1> USE DEF serverVars, historyVars
<1>0. /\ TypeOK /\ QueuedIsWaiting /\ PlainIsOutside /\ TransactionIsInside
      /\ UnwrittenBefore /\ ResolvedWillLast /\ RejectedWillVanish
      /\ queue /= <<>> /\ queue' = Tail(queue)
      /\ UNCHANGED <<connection, call, lost, disturbed>>
  BY DEF IInv, Rows, ControlDone, Quit
<1>1. Popped /\ Head(queue) = queue[1] /\ 1 \in DOMAIN queue
  BY <1>0, TailIsPopped DEF Popped
<1>2. /\ queue[1].op \in {"BEGIN", "COMMIT", "ROLLBACK", "QUIT"}
      /\ durable' \in {durable, durable \cup pending} /\ pending' = {}
      /\ queue[1].op = "BEGIN" => inTransaction'
      /\ queue[1].op \in {"COMMIT", "ROLLBACK", "QUIT"} => ~inTransaction'
      /\ queue[1].op \in {"ROLLBACK", "QUIT"} => durable' = durable
      /\ queue[1].op = "COMMIT" => durable' = durable \cup pending
      /\ session' = session \/ queue[1].op = "QUIT"
  <2>1. CASE ControlDone
    BY <1>1, <2>1 DEF ControlDone, Effect, Begin, Commit, Rollback
  <2>2. CASE Quit
    BY <1>1, <2>2 DEF Quit, Rollback
  <2> QED BY <2>1, <2>2
<1>3. QueuedIsWaiting' /\ PlainIsOutside' /\ TransactionIsInside'
  BY <1>0, <1>1, <1>2, PoppedRows
<1>4. UnwrittenBefore'
  BY <1>0, <1>2 DEF UnwrittenBefore
<1>5. ResolvedWillLast'
  <2> SUFFICES ASSUME NEW c \in Calls \ disturbed, call[c] = "resolved"
               PROVE  c \in durable' \/ (c \in Transactional /\ lost)
    BY <1>0 DEF ResolvedWillLast
  <2>1. CASE CommitIsAhead(c)
    <3>1. queue[1].op = "COMMIT"
      <4>1. PICK k \in DOMAIN queue :
              /\ queue[k].op = "COMMIT"
              /\ \A j \in DOMAIN queue : j < k => queue[j].op = "QUERY"
        BY <2>1 DEF CommitIsAhead
      <4>2. k = 1 \/ 1 < k
        BY <1>1 DEF Popped
      <4> QED BY <1>1, <1>2, <4>1, <4>2
    <3> QED BY <1>2, <2>1, <3>1 DEF CommitIsAhead
  <2> QED BY <1>0, <1>2, <2>1 DEF ResolvedWillLast
<1>6. RejectedWillVanish'
  <2> SUFFICES ASSUME NEW c \in Calls \ disturbed, call[c] = "rejected"
               PROVE  /\ c \in Transactional => c \notin durable'
                      /\ c \in Plain /\ ~lost => c \notin durable'
    BY <1>0, <1>2 DEF RejectedWillVanish
  <2>1. CASE queue[1].op = "QUIT"
    BY <1>0, <1>2, <2>1 DEF RejectedWillVanish
  <2>2. CASE queue[1].op /= "QUIT"
    <3>1. ~Harmless(queue[1])
      BY <1>2, <2>2 DEF Harmless
    <3> QED BY <1>0, <1>1, <1>2, <3>1 DEF RejectedWillVanish
  <2> QED BY <2>1, <2>2
<1> QED BY <1>3, <1>4, <1>5, <1>6 DEF Rows

\* A query writes its own row at most: an undisturbed plain one for good, an
\* undisturbed transaction's into a transaction that its COMMIT will end.
LEMMA QueryRows ==
  ASSUME IInv, Rows, QuerySucceeds \/ QueryFails
  PROVE  Rows'
<1> USE DEF serverVars, historyVars
<1> DEFINE c == queue[1].call
<1>0. /\ TypeOK /\ QueuedIsWaiting /\ PlainIsOutside /\ TransactionIsInside
      /\ UnwrittenBefore /\ ResolvedWillLast /\ RejectedWillVanish
      /\ queue /= <<>> /\ Head(queue).op = "QUERY"
      /\ UNCHANGED <<connection, session, lost, disturbed>>
  BY DEF IInv, Rows, QuerySucceeds, QueryFails
<1>1. PICK outcome \in {"resolved", "rejected"} : \E closing \in {"COMMIT", "ROLLBACK"} :
        /\ QuerySettles(Head(queue).call, outcome, closing)
        /\ outcome = "resolved" => Write(Head(queue).call) /\ closing = "COMMIT"
        /\ outcome = "rejected" => UNCHANGED <<inTransaction, pending, durable>>
  BY DEF QuerySucceeds, QueryFails, Effect
<1>2. PICK closing \in {"COMMIT", "ROLLBACK"} :
        /\ QuerySettles(Head(queue).call, outcome, closing)
        /\ outcome = "resolved" => Write(Head(queue).call) /\ closing = "COMMIT"
        /\ outcome = "rejected" => UNCHANGED <<inTransaction, pending, durable>>
  BY <1>1
<1>3. /\ Popped /\ Head(queue) = queue[1] /\ c \in Calls
      /\ \A d \in Calls : d /= c => call'[d] = call[d]
      /\ call'[c] = IF c \in Plain \/ connection = "open" THEN outcome ELSE "rejected"
      /\ c \notin Plain /\ connection = "open" =>
           \E k \in DOMAIN queue' :
             /\ queue'[k].op = closing /\ queue'[k].call = c
             /\ \A j \in DOMAIN queue' : j < k => j + 1 \in DOMAIN queue /\ queue'[j] = queue[j + 1]
      /\ connection /= "open" =>
           \A i \in DOMAIN queue' : i + 1 \in DOMAIN queue /\ queue'[i] = queue[i + 1]
  BY <1>0, <1>2, SettlesIsPopped
<1>4. /\ 1 \in DOMAIN queue /\ queue[1].op = "QUERY" /\ call[c] = "waiting"
      /\ c \notin pending \cup durable
      /\ \A i \in DOMAIN queue' : i \in Nat \ {0}
  BY <1>0, <1>3 DEF Popped, QueuedIsWaiting, UnwrittenBefore
<1>5. /\ inTransaction' = inTransaction
      /\ pending \subseteq pending' /\ durable \subseteq durable'
      /\ pending' \subseteq pending \cup {c} /\ durable' \subseteq durable \cup {c}
      /\ outcome = "resolved" => IF inTransaction THEN c \in pending' /\ durable' = durable
                                 ELSE c \in durable' /\ pending' = pending
      /\ outcome = "rejected" => pending' = pending /\ durable' = durable
  BY <1>2, <1>3 DEF Write
<1>6. QueuedIsWaiting' /\ PlainIsOutside' /\ TransactionIsInside'
  BY <1>0, <1>2, <1>3, <1>4, <1>5, PoppedRows
<1>7. UnwrittenBefore'
  BY <1>0, <1>3, <1>5 DEF UnwrittenBefore
<1> HIDE DEF c
<1>8. ASSUME c \in Transactional \ disturbed
      PROVE  inTransaction /\ \A j \in DOMAIN queue : 1 < j => Harmless(queue[j])
  BY <1>0, <1>4, <1>8 DEF TransactionIsInside, TransactionQuery, c
<1>9. ResolvedWillLast'
  <2> SUFFICES ASSUME NEW d \in Calls \ disturbed, call'[d] = "resolved"
               PROVE  d \in durable' \/ (d \in Transactional /\ (lost \/ CommitIsAhead(d)'))
    BY <1>0 DEF ResolvedWillLast
  <2>1. CASE d /= c
    <3>1. d \in durable \/ (d \in Transactional /\ (lost \/ CommitIsAhead(d)))
      BY <1>0, <1>3, <2>1 DEF ResolvedWillLast
    <3>2. CommitIsAhead(d) => CommitIsAhead(d)'
      <4> SUFFICES ASSUME CommitIsAhead(d) PROVE CommitIsAhead(d)'
        OBVIOUS
      <4>1. d \in pending' /\ inTransaction' /\ queue[1].op /= "COMMIT"
        BY <1>4, <1>5 DEF CommitIsAhead
      <4> QED BY <1>3, <4>1, CommitComesNearer
    <3> QED BY <1>5, <3>1, <3>2
  <2>2. CASE d = c /\ c \in Plain
    <3>1. ~inTransaction
      <4>1. Outside(1)
        BY <1>0, <1>4, <2>2 DEF PlainIsOutside, c
      <4>2. \A j \in DOMAIN queue : ~(j < 1)
        BY <1>3 DEF Popped
      <4> QED BY <4>1, <4>2 DEF Outside
    <3> QED BY <1>3, <1>5, <2>2, <3>1
  <2>3. CASE d = c /\ c \notin Plain
    <3>1. c \in Transactional \ disturbed /\ connection = "open" /\ outcome = "resolved"
      BY <1>3, <2>3 DEF Calls
    <3>2. closing = "COMMIT" /\ c \in pending' /\ inTransaction'
      BY <1>2, <1>5, <1>8, <3>1
    <3>3. PICK k \in DOMAIN queue' :
            /\ queue'[k].op = closing /\ queue'[k].call = c
            /\ \A j \in DOMAIN queue' : j < k => j + 1 \in DOMAIN queue /\ queue'[j] = queue[j + 1]
      BY <1>3, <2>3, <3>1
    <3>4. ASSUME NEW j \in DOMAIN queue', j < k
          PROVE  queue'[j].op = "QUERY" /\ queue'[j].call \in Plain
      <4>1. j + 1 \in DOMAIN queue /\ queue'[j] = queue[j + 1] /\ 1 < j + 1
        BY <1>4, <3>3, <3>4
      <4>2. Harmless(queue[j + 1]) /\ queue[j + 1].op /= "QUIT"
        BY <1>0, <1>8, <3>1, <4>1 DEF QueuedIsWaiting
      <4> QED BY <4>1, <4>2 DEF Harmless
    <3> QED BY <2>3, <3>1, <3>2, <3>3, <3>4 DEF CommitIsAhead
  <2> QED BY <2>1, <2>2, <2>3
<1>10. RejectedWillVanish'
  <2> SUFFICES ASSUME NEW d \in Calls \ disturbed, call'[d] = "rejected"
               PROVE  /\ d \in Transactional =>
                           /\ d \notin durable'
                           /\ d \in pending' =>
                                connection /= "open" /\ \A j \in DOMAIN queue' : Harmless(queue'[j])
                      /\ d \in Plain /\ ~lost => d \notin pending' \cup durable'
    BY <1>0 DEF RejectedWillVanish, Harmless
  <2>1. CASE d /= c
    <3>1. /\ call[d] = "rejected" /\ (d \in pending' <=> d \in pending)
          /\ (d \in durable' <=> d \in durable)
      BY <1>3, <1>5, <2>1
    <3>2. d \in Transactional /\ d \in pending =>
            connection /= "open" /\ \A j \in DOMAIN queue' : Harmless(queue'[j])
      BY <1>0, <1>3, <3>1 DEF RejectedWillVanish
    <3> QED BY <1>0, <3>1, <3>2 DEF RejectedWillVanish
  <2>2. CASE d = c /\ c \in Plain
    BY <1>3, <1>4, <1>5, <2>2, CallsAssumption
  <2>3. CASE d = c /\ c \in Transactional \ disturbed /\ outcome = "resolved"
    <3>1. connection /= "open"
      BY <1>3, <2>3
    <3>2. \A j \in DOMAIN queue' : Harmless(queue'[j])
      <4> SUFFICES ASSUME NEW j \in DOMAIN queue' PROVE Harmless(queue'[j])
        OBVIOUS
      <4>1. j + 1 \in DOMAIN queue /\ queue'[j] = queue[j + 1] /\ 1 < j + 1
        BY <1>3, <1>4, <3>1
      <4> QED BY <1>8, <2>3, <4>1
    <3> QED BY <1>4, <1>5, <1>8, <2>3, <3>1, <3>2, CallsAssumption
  <2>4. CASE d = c /\ outcome = "rejected"
    BY <1>4, <1>5, <2>4
  <2> QED BY <2>1, <2>2, <2>3, <2>4 DEF Calls
<1> QED BY <1>6, <1>7, <1>9, <1>10 DEF Rows

\* A broken connection rolls back what is open, and rejects who waits.
LEMMA BreakRows == IInv /\ Rows /\ Break => Rows'
<1> SUFFICES ASSUME IInv, Rows, Break PROVE Rows'
  OBVIOUS
<1>0. /\ TypeOK /\ QueuedIsWaiting /\ PlainIsOutside /\ TransactionIsInside
      /\ UnwrittenBefore /\ ResolvedWillLast /\ RejectedWillVanish
      /\ call \in [Calls -> {"idle", "waiting", "resolved", "rejected"}]
  BY DEF IInv, Rows, TypeOK
<1>1. /\ pending' = {} /\ ~inTransaction' /\ lost' /\ queue' = <<>> /\ UNCHANGED disturbed
      /\ \A c \in Calls : call'[c] = IF call[c] = "waiting" THEN "rejected" ELSE call[c]
      /\ connection' /= "open"
  BY <1>0 DEF Break
<1>2. DOMAIN queue' = {}
  BY <1>1
<1>3. QueuedIsWaiting' /\ PlainIsOutside'
  BY <1>1, <1>2 DEF QueuedIsWaiting, PlainIsOutside
<1>4. TransactionIsInside'
  BY <1>1, <1>2 DEF TransactionIsInside, Calls
<1>5. \/ durable' = durable
      \/ /\ queue /= <<>>
         /\ \/ Head(queue).op \in {"BEGIN", "COMMIT"} /\ durable' = durable \cup pending
            \/ /\ Head(queue).op = "QUERY" /\ ~inTransaction
               /\ durable' = durable \cup {Head(queue).call}
  BY DEF Break
<1>6. queue /= <<>> => 1 \in DOMAIN queue /\ Head(queue) = queue[1]
  BY <1>0, TailOf DEF TypeOK
<1>7. UnwrittenBefore'
  <2> SUFFICES ASSUME NEW c \in Calls, call[c] = "idle" PROVE c \notin durable'
    BY <1>1 DEF UnwrittenBefore
  <2>1. c \notin pending \cup durable
    BY <1>0 DEF UnwrittenBefore
  <2>2. queue /= <<>> /\ Head(queue).op = "QUERY" => Head(queue).call /= c
    BY <1>0, <1>6 DEF QueuedIsWaiting
  <2> QED BY <1>5, <2>1, <2>2
<1>8. ResolvedWillLast'
  <2>1. durable \subseteq durable'
    BY <1>5
  <2> QED BY <1>0, <1>1, <2>1 DEF ResolvedWillLast
<1>9. RejectedWillVanish'
  <2> SUFFICES ASSUME NEW c \in Transactional \ disturbed, call'[c] = "rejected"
               PROVE  c \notin durable'
    BY <1>1 DEF RejectedWillVanish
  <2>0. c \in Calls /\ call[c] \in {"waiting", "rejected"}
    BY <1>0, <1>1 DEF Calls
  <2>1. c \notin durable
    BY <1>0, <2>0 DEF UnwrittenBefore, RejectedWillVanish
  <2>2. ASSUME queue /= <<>>, Head(queue).op \in {"BEGIN", "COMMIT"} PROVE c \notin pending
    <3>1. ~Harmless(queue[1])
      BY <1>6, <2>2 DEF Harmless
    <3> QED BY <1>0, <1>6, <2>0, <2>2, <3>1 DEF UnwrittenBefore, RejectedWillVanish
  <2>3. ASSUME queue /= <<>>, Head(queue).op = "QUERY", ~inTransaction PROVE Head(queue).call /= c
    BY <1>0, <1>6, <2>3 DEF TransactionIsInside, TransactionQuery
  <2> QED BY <1>5, <2>1, <2>2, <2>3
<1> QED BY <1>3, <1>4, <1>7, <1>8, <1>9 DEF Rows

\* Every step keeps what is known of the rows.
LEMMA RowsInvariance == IInv /\ Rows /\ [Next]_vars => Rows'
<1> SUFFICES ASSUME IInv, Rows, [Next]_vars PROVE Rows'
  OBVIOUS
<1>1. CASE UNCHANGED vars
  BY <1>1 DEF vars, Rows, QueuedIsWaiting, UnwrittenBefore, PlainIsOutside, Outside,
     TransactionIsInside, TransactionQuery, Harmless, ResolvedWillLast, CommitIsAhead,
     RejectedWillVanish
<1>2. CASE QuerySucceeds \/ QueryFails
  BY <1>2, QueryRows
<1>3. CASE ControlDone \/ Quit
  BY <1>3, ControlRows
<1> QED BY <1>1, <1>2, <1>3, ExecuteRows, ExecuteWithTransactionRows, EndRows, BreakRows DEF Next

LEMMA InitRows == Init => Rows
<1> SUFFICES ASSUME Init PROVE Rows
  OBVIOUS
<1>1. DOMAIN queue = {} /\ \A c \in Calls : call[c] = "idle"
  BY DEF Init
<1> QED BY <1>1 DEF Init, Rows, QueuedIsWaiting, UnwrittenBefore, PlainIsOutside,
     TransactionIsInside, ResolvedWillLast, RejectedWillVanish, Calls

LEMMA AlwaysRows == Spec => []Rows
  BY InitRows, RowsInvariance, AlwaysIInv, PTL DEF Spec

-----------------------------------------------------------------------------
\* However the other calls fail, and whenever end() comes: a call that resolved
\* outside other calls' transactions keeps its row.
THEOREM ResolvedStays == Spec => []ResolvedIsDurable
<1>1. Rows => ResolvedIsDurable
  BY DEF Rows, ResolvedWillLast, CommitIsAhead, InQueue, ResolvedIsDurable
<1> QED BY <1>1, AlwaysRows, PTL

\* A transaction that was reported as failed, and overlapped no other, leaves nothing
\* behind; nor does a plain query, unless its answer was lost.
THEOREM RejectedIsGone == Spec => []RejectedLeavesNothing
<1>1. Rows => RejectedLeavesNothing
  BY DEF Rows, RejectedWillVanish, RejectedLeavesNothing, Calls
<1> QED BY <1>1, AlwaysRows, PTL
=============================================================================
