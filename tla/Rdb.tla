------------------------------- MODULE Rdb -------------------------------
(***************************************************************************)
(* The RDB class (libs/rdb.js): one mysql2 connection, shared by every     *)
(* call, whose queries and transaction statements go through one FIFO of   *)
(* commands.  beginTransaction, commit and rollback are sent and not       *)
(* awaited; only the query is.  A call writes one row, named by the call.  *)
(*                                                                         *)
(* What mysql2 does (node_modules/mysql2/lib/base/connection.js): commands *)
(* are executed one at a time in order; end() queues QUIT and closes the   *)
(* queue; a fatal error hands the error to every queued query and closes   *)
(* the queue.  What MySQL does: START TRANSACTION commits the transaction  *)
(* that is open, a failed statement leaves the transaction open, a lost    *)
(* connection rolls it back.                                               *)
(***************************************************************************)
EXTENDS Sequences, Naturals

CONSTANTS Plain,         \* calls of execute and executePromise
          Transactional  \* calls of executeWithTransaction

ASSUME CallsAssumption == Plain \cap Transactional = {}

Calls == Plain \cup Transactional

VARIABLES
  connection, \* #dbConnection: "open", "dead" after a fatal error, "ended" (null)
  queue,      \* the commands not executed yet, the oldest first
  call,       \* call[c]: "idle", "waiting", "resolved" or "rejected"
  session,    \* MySQL's side of the connection: "alive" or "gone"
  inTransaction, \* MySQL's session has a transaction open
  pending,    \* rows written in the open transaction
  durable,    \* rows committed
  lost,       \* history: the connection broke
  disturbed   \* history: calls that ran between another's BEGIN and COMMIT

vars == <<connection, queue, call, session, inTransaction, pending, durable, lost, disturbed>>
clientVars == <<connection, queue, call>>
serverVars == <<session, inTransaction, pending, durable>>
historyVars == <<lost, disturbed>>

None == "none"
Commands == [op : {"BEGIN", "QUERY", "COMMIT", "ROLLBACK"}, call : Calls]
              \cup [op : {"QUIT"}, call : {None}]
CommandSwapped(op, c) == [op |-> c, call |-> op]
Command(op, c) == [op |-> op, call |-> c]

Init ==
  /\ connection = "open"
  /\ queue = <<>>
  /\ call = [c \in Calls |-> "idle"]
  /\ session = "alive"
  /\ inTransaction = FALSE
  /\ pending = {}
  /\ durable = {}
  /\ lost = FALSE
  /\ disturbed = {}

InTransactionCall == {d \in Transactional : call[d] = "waiting"}

-----------------------------------------------------------------------------
(* The callers. *)

\* execute, executePromise: one query, or a rejection when there is nothing to send it on.
Execute(c) ==
  /\ call[c] = "idle"
  /\ IF connection = "open"
     THEN /\ queue' = Append(queue, Command("QUERY", c))
          /\ call' = [call EXCEPT ![c] = "waiting"]
     ELSE /\ call' = [call EXCEPT ![c] = "rejected"]
          /\ UNCHANGED queue
  /\ disturbed' = IF InTransactionCall = {} THEN disturbed ELSE disturbed \cup {c}
  /\ UNCHANGED <<connection, lost, serverVars>>

\* Mutant: executeWithTransaction forgets to begin.
ExecuteWithoutBegin(c) == Execute(c)

\* executeWithTransaction up to its await.  Without a connection to send on,
\* beginTransaction throws, and so does the rollback of the catch.
ExecuteWithTransaction(c) ==
  /\ call[c] = "idle"
  /\ IF connection = "open"
     THEN /\ queue' = queue \o <<Command("BEGIN", c), Command("QUERY", c)>>
          /\ call' = [call EXCEPT ![c] = "waiting"]
     ELSE /\ call' = [call EXCEPT ![c] = "rejected"]
          /\ UNCHANGED queue
  /\ disturbed' = IF InTransactionCall = {} THEN disturbed
                  ELSE disturbed \cup InTransactionCall \cup {c}
  /\ UNCHANGED <<connection, lost, serverVars>>

\* Mutant: end destroys the connection instead of queueing QUIT.
EndDestroys ==
  /\ connection = "open"
  /\ connection' = "ended"
  /\ queue' = <<>>
  /\ session' = "gone"
  /\ pending' = {}
  /\ inTransaction' = FALSE
  /\ UNCHANGED <<call, durable, historyVars>>

End ==
  /\ connection = "open"
  /\ connection' = "ended"
  /\ queue' = Append(queue, Command("QUIT", None))
  /\ UNCHANGED <<call, serverVars, historyVars>>

-----------------------------------------------------------------------------
(* MySQL executes the oldest command, and mysql2 hands its answer over. *)

Begin ==
  /\ durable' = durable \cup pending
  /\ pending' = {}
  /\ inTransaction' = TRUE

Write(c) ==
  /\ IF inTransaction
     THEN pending' = pending \cup {c} /\ UNCHANGED durable
     ELSE durable' = durable \cup {c} /\ UNCHANGED pending
  /\ UNCHANGED inTransaction

Commit ==
  /\ durable' = durable \cup pending
  /\ pending' = {}
  /\ inTransaction' = FALSE

Rollback ==
  /\ pending' = {}
  /\ inTransaction' = FALSE
  /\ UNCHANGED durable

\* What the head of the queue changes in the database when it succeeds.
Effect(command) ==
  \/ command.op = "BEGIN" /\ Begin
  \/ command.op = "QUERY" /\ Write(command.call)
  \/ command.op = "COMMIT" /\ Commit
  \/ command.op = "ROLLBACK" /\ Rollback

\* BEGIN, COMMIT and ROLLBACK have no callback: nothing in the program hears of them.
ControlDone ==
  /\ queue /= <<>>
  /\ Head(queue).op \in {"BEGIN", "COMMIT", "ROLLBACK"}
  /\ Effect(Head(queue))
  /\ queue' = Tail(queue)
  /\ UNCHANGED <<connection, call, session, historyVars>>

\* Mutant: a failed transaction is not rolled back.
SettlesWithoutRollback(c, outcome, closing) ==
  /\ call' = [call EXCEPT ![c] = IF c \in Plain \/ connection = "open" THEN outcome ELSE "rejected"]
  /\ queue' = IF c \in Plain \/ connection /= "open" \/ outcome = "rejected"
              THEN Tail(queue) ELSE Append(Tail(queue), Command(closing, c))

\* What follows an awaited query: the closing statement of a transaction.  After
\* end() the connection is null, so commit and then rollback throw and the call rejects.
QuerySettles(c, outcome, closing) ==
  IF c \in Plain
  THEN /\ call' = [call EXCEPT ![c] = outcome]
       /\ queue' = Tail(queue)
  ELSE IF connection = "open"
  THEN /\ call' = [call EXCEPT ![c] = outcome]
       /\ queue' = Append(Tail(queue), Command(closing, c))
  ELSE /\ call' = [call EXCEPT ![c] = "rejected"]
       /\ queue' = Tail(queue)

QuerySucceeds ==
  /\ queue /= <<>>
  /\ Head(queue).op = "QUERY"
  /\ Effect(Head(queue))
  /\ QuerySettles(Head(queue).call, "resolved", "COMMIT")
  /\ UNCHANGED <<connection, session, historyVars>>

\* The statement fails in the database and changes nothing there.
QueryFails ==
  /\ queue /= <<>>
  /\ Head(queue).op = "QUERY"
  /\ QuerySettles(Head(queue).call, "rejected", "ROLLBACK")
  /\ UNCHANGED <<connection, serverVars, historyVars>>

Quit ==
  /\ queue /= <<>>
  /\ Head(queue).op = "QUIT"
  /\ queue' = Tail(queue)
  /\ session' = "gone"
  /\ Rollback
  /\ UNCHANGED <<connection, call, historyVars>>

\* _handleFatalError: the connection breaks before, or after, the command on its
\* way is executed.  Every waiting query rejects; the catch of a transaction finds
\* no connection to roll back on, and MySQL rolls back what was open.
Break ==
  /\ session = "alive"
  /\ \/ UNCHANGED durable
     \/ /\ queue /= <<>>
        /\ LET command == Head(queue)
           IN  \/ command.op \in {"BEGIN", "COMMIT"} /\ durable' = durable \cup pending
               \/ command.op = "QUERY" /\ ~inTransaction /\ durable' = durable \cup {command.call}
  /\ pending' = {}
  /\ inTransaction' = FALSE
  /\ session' = "gone"
  /\ lost' = TRUE
  /\ queue' = <<>>
  /\ call' = [c \in Calls |-> IF call[c] = "waiting" THEN "rejected" ELSE call[c]]
  /\ connection' = IF connection = "open" THEN "dead" ELSE connection
  /\ UNCHANGED disturbed

ServerStep == ControlDone \/ QuerySucceeds \/ QueryFails \/ Quit

Next ==
  \/ \E c \in Plain : Execute(c)
  \/ \E c \in Transactional : ExecuteWithTransaction(c)
  \/ End
  \/ ControlDone \/ QuerySucceeds \/ QueryFails \/ Quit
  \/ Break

Spec == Init /\ [][Next]_vars

\* mysql2 sends the next command when one is answered, and MySQL answers or the
\* connection breaks: the queue keeps moving.
FairSpec == Spec /\ WF_vars(ServerStep)

-----------------------------------------------------------------------------
TypeOK ==
  /\ connection \in {"open", "dead", "ended"}
  /\ queue \in Seq(Commands)
  /\ call \in [Calls -> {"idle", "waiting", "resolved", "rejected"}]
  /\ session \in {"alive", "gone"}
  /\ inTransaction \in BOOLEAN
  /\ pending \subseteq Calls
  /\ durable \subseteq Calls
  /\ lost \in BOOLEAN
  /\ disturbed \subseteq Calls

InQueue(c) == \E i \in DOMAIN queue : queue[i].call = c

\* A call that ran outside other calls' transactions and resolved has its row in
\* the database once its own COMMIT is executed, unless the connection broke: end(),
\* later transactions and other calls' failures do not undo it.
ResolvedIsDurable ==
  \A c \in Calls \ disturbed :
    call[c] = "resolved" /\ ~InQueue(c) /\ ~lost => c \in durable

\* A transaction that did not overlap another and was reported as failed has left
\* nothing behind, whether the statement failed, end() came first or the connection
\* broke.  A plain query keeps that promise unless its answer was lost.
RejectedLeavesNothing ==
  \A c \in Calls \ disturbed :
    call[c] = "rejected" /\ (c \in Transactional \/ ~lost) => c \notin durable

\* Whatever calls overlap and fail, the connection is never left idle with a
\* transaction open: no row lock outlives the queue, no later plain query joins
\* a transaction nobody will commit.
IdleHasNoTransaction ==
  session = "alive" /\ queue = <<>> => ~inTransaction

\* A call that was sent settles: end() and a broken connection do not leave its
\* caller waiting.
EveryCallSettles ==
  \A c \in Calls : call[c] = "waiting" ~> call[c] \in {"resolved", "rejected"}

\* executeWithTransaction runs its query "with transaction" (rdb.js, its comment):
\* a transaction that resolved is there once its COMMIT is executed, whatever the
\* other calls on the connection do.
TransactionIsItsOwn ==
  \A c \in Transactional :
    call[c] = "resolved" /\ ~InQueue(c) /\ ~lost => c \in durable
=============================================================================
