------------------------------- MODULE Broker -------------------------------
(***************************************************************************)
(* The broker of the tab that owns the database                            *)
(* (src/worker/database-broker.ts) over its Host: it queues the requests   *)
(* of every connected client, holds back the others while one client's     *)
(* transaction callback runs, and takes down what a client that has gone   *)
(* leaves behind.                                                          *)
(*                                                                         *)
(* A call of the host runs in one step and its result is taken up in a     *)
(* later one, so that messages, lock grants and timers fall between the    *)
(* two, as they may at every `await`.  The clients are modelled by what a  *)
(* Client sends through its tab's coordinator (client.ts, coordinator.ts). *)
(* Each has at most one prepared statement, and one of the clients in      *)
(* HandedOver prepared it with an earlier owner.                           *)
(***************************************************************************)
EXTENDS Host, Sequences, SequencesExt

CONSTANTS
    Clients,
    LocalClient     \* the client in the owner's own tab

OldClients == workload.old          \* the clients of an incompatible release
HandedOver == workload.handedOver   \* the clients whose statement an earlier owner prepared
Offered == workload.offered         \* the methods that clients use
MaxRequests == workload.requests    \* bound: how many requests each client sends
MaxPending == workload.pending      \* MAX_PENDING_REQUESTS
Reserve == workload.reserve         \* how far a request that ends something may exceed it
MaxConnections == workload.connections  \* the limit on connected clients

\* executeDirect is an execute of no transaction that its client sends behind its own
\* beginTransaction.
Statements == {"execute", "executeDirect", "executePrepared"}
TransactionEnds == {"commitTransaction", "rollbackTransaction"}
Methods == Statements \cup TransactionEnds \cup
           {"init", "close", "prepareSql", "closePrepared", "setSchema",
            "beginTransaction"}

\* Every request that some client of some workload may send.
RequestIds ==
    UNION {{client} \X (1 .. w.requests[client]) : client \in Clients, w \in Workloads}

ASSUME BrokerAssumption ==
    /\ LocalClient \in Clients
    /\ \A w \in Workloads :
         /\ w.old \subseteq Clients \ {LocalClient}
         /\ w.handedOver \subseteq Clients
         /\ w.offered \subseteq Methods
         /\ w.requests \in [Clients -> Nat]
         /\ {w.pending, w.reserve, w.connections} \subseteq Nat
    /\ RequestIds \subseteq Writes

VARIABLES
    connections,    \* the connected clients
    watched,        \* those whose lock the owner has asked for and not been granted
    prepared,       \* each connection's engine statement, or None
    queue,
    abandoned,
    transaction,    \* the client and the token of the active transaction
    closed,
    job,            \* where pump() is
    tab,            \* each client: is it there, what it has in hand
    log             \* every request: what it asked, and its outcome so far

brokerVars == <<connections, watched, prepared, queue, abandoned, transaction,
                closed, job>>
vars == <<hostVars, brokerVars, tab, log, workload>>

-----------------------------------------------------------------------------

NoClient == "none"
NoTransaction == [client |-> NoClient, token |-> None]
NoMessage == [client |-> NoClient, n |-> 0, method |-> "init", tx |-> None,
              sql |-> FALSE]
Idle == [at |-> "idle", seen |-> {}, client |-> NoClient, message |-> NoMessage,
         error |-> "OK"]
Scan(seen) == [Idle EXCEPT !.at = "scan", !.seen = seen]

\* The outcomes that a request which was never run may have.
Refusals == {"RESOURCE_LIMIT", "CLIENT_CLOSED", "TRANSACTION_LOST",
             "PREPARED_STATEMENT_CLOSED", "DATABASE_VERSION_MISMATCH"}

BrokerInit ==
    /\ connections = {}
    /\ watched = {}
    /\ prepared = [c \in Clients |-> None]
    /\ queue = <<>>
    /\ abandoned = {}
    /\ transaction = NoTransaction
    /\ closed = FALSE
    /\ job = Idle

ClientInit ==
    /\ tab = [c \in Clients |->
                [here |-> TRUE, phase |-> "idle", tx |-> None,
                 statement |-> IF c \in HandedOver THEN "held" ELSE "none"]]
    /\ log = [c \in Clients |-> <<>>]

Init == workload \in Workloads /\ HostInit /\ BrokerInit /\ ClientInit

-----------------------------------------------------------------------------
(* What a client sends. *)

Waiting(c) == \E n \in DOMAIN log[c] : log[c][n].outcome = "waiting"
Sent(c) == Len(log[c])
Closing(c) == \E n \in DOMAIN log[c] : log[c][n].method = "close"

InFlight(c) ==
    \E n \in DOMAIN log[c] : log[c][n].tx = tab[c].tx /\ log[c][n].outcome = "waiting"

MayExecute(c) ==
    \/ tab[c].phase = "idle"
    \/ tab[c].phase = "active" /\ Sent(c) + 1 < MaxRequests[c]

\* beginDirect: the client looks for a transaction of its own, waits for a microtask
\* and sends without another look.  A transaction may begin in between.
Direct == {"executeDirect", "prepareSql", "setSchema"}
BehindBegin(c) ==
    /\ tab[c].phase \in {"beginning", "active"}
    /\ Last(log[c]).method \in Direct \cup {"beginTransaction"}
    /\ Sent(c) + 1 < MaxRequests[c]

\* A transaction is begun, and goes on, only while the bound on requests leaves
\* room to end it.
MaySend(c, method) ==
    /\ ~Closing(c)
    /\ Sent(c) < MaxRequests[c]
    /\ CASE method = "init" -> tab[c].phase = "idle"
         [] method = "setSchema" -> tab[c].phase = "idle" \/ BehindBegin(c)
         [] method = "close" -> TRUE
         [] method = "execute" -> MayExecute(c)
         [] method = "executeDirect" -> BehindBegin(c)
         [] method = "executePrepared" -> MayExecute(c) /\ tab[c].statement = "held"
         [] method = "prepareSql" ->
              (tab[c].phase = "idle" \/ BehindBegin(c)) /\ tab[c].statement = "none"
         [] method = "closePrepared" ->
              tab[c].phase = "idle" /\ tab[c].statement = "held" /\ ~Waiting(c)
         [] method = "beginTransaction" ->
              /\ tab[c].phase = "idle" /\ tab[c].statement # "closing"
              /\ Sent(c) + 1 < MaxRequests[c]
         [] method = "commitTransaction" -> tab[c].phase = "active" /\ ~InFlight(c)
         [] method = "rollbackTransaction" -> tab[c].phase \in {"active", "failed"}

\* The message that the coordinator of `c` makes of a request.
Message(c, method) ==
    [client |-> c, n |-> Sent(c) + 1, method |-> method,
     tx |-> IF method \in (Statements \ Direct) \cup TransactionEnds THEN tab[c].tx ELSE None,
     sql |-> method \in {"beginTransaction", "executePrepared"}
             /\ tab[c].statement = "held"]

SendPhase(t, method) ==
    CASE method = "beginTransaction" -> [t EXCEPT !.phase = "beginning"]
      [] method \in TransactionEnds -> [t EXCEPT !.phase = "ending"]
      [] method = "prepareSql" -> [t EXCEPT !.statement = "preparing"]
      [] method = "closePrepared" -> [t EXCEPT !.statement = "closing"]
      [] OTHER -> t

\* What the client makes of an answer: the outcome of a commit that failed
\* leaves it free to try a rollback.
AnswerPhase(t, method, code, value) ==
    LET ok == code = "OK" IN
    CASE method = "beginTransaction" ->
           [t EXCEPT !.phase = IF ok THEN "active" ELSE "idle",
                     !.tx = IF ok THEN value ELSE None]
      [] method = "commitTransaction" ->
           [t EXCEPT !.phase = IF ok THEN "idle" ELSE "failed",
                     !.tx = IF ok THEN None ELSE @]
      [] method = "rollbackTransaction" -> [t EXCEPT !.phase = "idle", !.tx = None]
      [] method = "prepareSql" -> [t EXCEPT !.statement = IF ok THEN "held" ELSE "none"]
      [] method = "closePrepared" -> [t EXCEPT !.statement = IF ok THEN "none" ELSE "held"]
      [] OTHER -> t

\* Posts the outcome of request `m`.  A client that has gone takes no note of it.
Reply(m, code, value) ==
    /\ log' = [log EXCEPT ![m.client][m.n].outcome = code]
    /\ tab' = IF tab[m.client].here
              THEN [tab EXCEPT ![m.client] = AnswerPhase(@, m.method, code, value)]
              ELSE tab
    /\ UNCHANGED workload

\* Request `m` arrives, with an outcome at once or to wait for one.
Record(m, outcome) ==
    /\ log' = [log EXCEPT ![m.client] =
                 Append(@, [method |-> m.method, tx |-> m.tx, outcome |-> outcome])]
    /\ tab' = [tab EXCEPT ![m.client] =
                 IF outcome = "waiting" \/ ~tab[m.client].here
                 THEN SendPhase(@, m.method)
                 ELSE AnswerPhase(SendPhase(@, m.method), m.method, outcome, None)]
    /\ UNCHANGED workload

-----------------------------------------------------------------------------
(* receive() *)

InTransaction == transaction # NoTransaction
OwnTransaction(c) == InTransaction /\ transaction.client = c

\* pump() is called: it starts unless it is busy.
Woken == IF job.at = "idle" THEN Scan({}) ELSE job

\* onFailure reaches retire() in the coordinator, and both that and shutdown()
\* close the broker.  What still waits is answered by the coordinators.
Close ==
    /\ closed' = TRUE
    /\ connections' = {}
    /\ watched' = {}
    /\ queue' = <<>>
    /\ job' = Idle

Priority(m) ==
    m.method = "close" \/ (OwnTransaction(m.client) /\ m.method \in TransactionEnds)
QueueLimit(m) == MaxPending + (IF Priority(m) THEN Reserve ELSE 0)

\* Mutant of NothingWaits: a request that the pump has in hand is overtaken.
QueueIsEmpty == queue = <<>> /\ abandoned = {}
NothingWaits == job.at = "idle" /\ queue = <<>> /\ abandoned = {}

\* immediateParams, and with them serveLocal and serveStatement.
Immediate(m) ==
    /\ NothingWaits
    /\ m.method \in Statements
    /\ ~InTransaction \/ OwnTransaction(m.client)
    /\ m.tx \in {None, transaction.token}
    /\ m.method = "executePrepared" => prepared[m.client] # None

\* The host's request for `m`, under the names that the engine and the host use.
Forward(m, statementId) ==
    LET write == <<m.client, m.n>> IN
    CASE m.method \in {"execute", "executeDirect"} -> Execute(write, m.tx)
      [] m.method = "executePrepared" -> ExecutePrepared(write, statementId, m.tx)
      [] m.method = "setSchema" -> SetSchema(write)
      [] m.method = "commitTransaction" -> CommitTransaction(m.tx)
      [] m.method = "rollbackTransaction" -> RollbackTransaction(m.tx)

Refuse(m, code) ==
    /\ Record(m, code)
    /\ UNCHANGED <<hostVars, queue, closed>>

ServeNow(m) ==
    /\ Immediate(m)
    /\ Forward(m, prepared[m.client])
    /\ Record(m, answer'.code)

Receive(c, method) ==
    LET m == Message(c, method) IN
    /\ ~closed
    /\ MaySend(c, method)
    /\ \/ /\ c \notin connections /\ Cardinality(connections) >= MaxConnections
          /\ Refuse(m, "RESOURCE_LIMIT")
          /\ UNCHANGED <<connections, watched, abandoned, job>>
       \/ /\ c \in connections \/ Cardinality(connections) < MaxConnections
          /\ \/ /\ c \in OldClients
                /\ Refuse(m, "DATABASE_VERSION_MISMATCH")
                /\ abandoned' = abandoned \cup {c}
                /\ job' = Woken
             \/ /\ c \notin OldClients
                /\ Len(queue) >= QueueLimit(m)
                /\ Refuse(m, "RESOURCE_LIMIT")
                /\ UNCHANGED <<abandoned, job>>
             \/ /\ c \notin OldClients
                /\ Len(queue) < QueueLimit(m)
                /\ ~Immediate(m)
                /\ queue' = Append(queue, m)
                /\ job' = Woken
                /\ Record(m, "waiting")
                /\ UNCHANGED <<hostVars, abandoned, closed>>
             \/ /\ c \notin OldClients
                /\ Len(queue) < QueueLimit(m)
                /\ ServeNow(m)
                /\ answer'.code \notin FatalCodes
                /\ UNCHANGED <<queue, abandoned, closed, job>>
          /\ connections' = connections \cup {c}
          /\ watched' = IF c \in connections THEN watched ELSE watched \cup {c}
       \/ /\ c \in connections \/ Cardinality(connections) < MaxConnections
          /\ c \notin OldClients
          /\ Len(queue) < QueueLimit(m)
          /\ ServeNow(m)
          /\ answer'.code \in FatalCodes
          /\ Close
          /\ UNCHANGED abandoned
    /\ UNCHANGED <<prepared, transaction>>

-----------------------------------------------------------------------------
(* Clients that go. *)

\* The page is closed, or the Worker is terminated: its locks are released.
Depart(c) ==
    /\ c # LocalClient /\ tab[c].here /\ MaxRequests[c] > 0
    /\ tab' = [tab EXCEPT ![c].here = FALSE]
    /\ UNCHANGED <<hostVars, brokerVars, log, workload>>

\* Mutant of LockGranted: the client is marked, but a resting pump is not woken.
MarkedOnly(c) ==
    /\ c \in watched /\ ~tab[c].here
    /\ watched' = watched \ {c}
    /\ abandoned' = abandoned \cup {c}
    /\ UNCHANGED <<hostVars, connections, prepared, queue, transaction, closed, tab, log, workload,
                   job>>

\* The owner is granted the lock that a live client holds.
LockGranted(c) ==
    /\ c \in watched /\ ~tab[c].here
    /\ watched' = watched \ {c}
    /\ abandoned' = abandoned \cup {c}
    /\ job' = Woken
    /\ UNCHANGED <<hostVars, connections, prepared, queue, transaction, closed, tab, log, workload>>

\* The owner's own tab closes.
OwnerLeaves ==
    /\ ~closed
    /\ Close
    /\ UNCHANGED <<hostVars, prepared, abandoned, transaction, tab, log, workload>>

-----------------------------------------------------------------------------
(* pump(): first what abandoned clients left, then the first request that    *)
(* may run.                                                                  *)

\* Mutant of MayForget: a client is taken down whoever's callback is running.
ForgetAnyone(c) == TRUE
MayForget(c) == ~InTransaction \/ OwnTransaction(c)

SkipAbandoned(c) ==
    /\ job.at = "scan" /\ c \in abandoned \ job.seen
    /\ ~MayForget(c) \/ c \notin connections
    /\ job' = Scan(job.seen \cup {c})
    /\ UNCHANGED <<hostVars, connections, watched, prepared, queue, abandoned,
                   transaction, closed, tab, log, workload>>

\* forget(), up to its first call of the host.
Forget(c) ==
    /\ job.at = "scan" /\ c \in (abandoned \ job.seen) \cap connections
    /\ MayForget(c)
    /\ IF OwnTransaction(c)
       THEN /\ RollbackTransaction(transaction.token)
            /\ job' = [job EXCEPT !.at = "forgetting", !.client = c]
       ELSE /\ job' = [job EXCEPT !.at = "dropping", !.client = c]
            /\ UNCHANGED hostVars
    /\ UNCHANGED <<connections, watched, prepared, queue, abandoned, transaction,
                   closed, tab, log, workload>>

\* A rollback that fails ends the pump, and the owner is retired.
ForgetRolledBack ==
    /\ job.at = "forgetting"
    /\ IF answer.code = "OK"
       THEN /\ job' = [job EXCEPT !.at = "dropping"]
            /\ UNCHANGED <<connections, watched, queue, closed>>
       ELSE Close
    /\ transaction' = NoTransaction
    /\ UNCHANGED <<hostVars, prepared, abandoned, tab, log, workload>>

DropStatement ==
    /\ job.at = "dropping" /\ prepared[job.client] # None
    /\ ClosePrepared(prepared[job.client])
    /\ job' = [job EXCEPT !.at = "dropped"]
    /\ UNCHANGED <<connections, watched, prepared, queue, abandoned, transaction,
                   closed, tab, log, workload>>

\* What closePrepared answered does not matter.
DropConnection ==
    LET c == job.client IN
    /\ job.at = "dropped" \/ (job.at = "dropping" /\ prepared[c] = None)
    /\ connections' = connections \ {c}
    /\ watched' = watched \ {c}
    /\ prepared' = [prepared EXCEPT ![c] = None]
    /\ abandoned' = abandoned \ {c}
    /\ job' = Scan(job.seen)
    /\ UNCHANGED <<hostVars, queue, transaction, closed, tab, log, workload>>

\* Mutant of Eligible: other clients' requests run inside a transaction.
AnyRequest(m) == TRUE
Eligible(m) ==
    \/ ~InTransaction \/ OwnTransaction(m.client)
    \/ m.method \in {"close", "init"}

Ready == {i \in DOMAIN queue : Eligible(queue[i])}

PumpRests ==
    /\ job.at = "scan" /\ abandoned \subseteq job.seen
    /\ Ready = {}
    /\ job' = Idle
    /\ UNCHANGED <<hostVars, connections, watched, prepared, queue, abandoned,
                   transaction, closed, tab, log, workload>>

Dequeued(i) == RemoveAt(queue, i)

Taken(i) ==
    /\ job.at = "scan" /\ abandoned \subseteq job.seen
    /\ i \in Ready /\ \A j \in Ready : i <= j
    /\ queue' = Dequeued(i)
    /\ UNCHANGED <<connections, watched, transaction, closed>>

\* The pump answers `m` and goes round again.
Answered(m, code) == Reply(m, code, None) /\ job' = Scan({})
\* handle(m) has called the host, and waits.
Awaits(m, at) == job' = [Idle EXCEPT !.at = at, !.message = m] /\ UNCHANGED <<tab, log, workload>>

TakeOfAbandoned(i) ==
    LET m == queue[i] IN
    /\ Taken(i)
    /\ m.client \in abandoned \/ m.client \notin connections
    /\ Answered(m, "CLIENT_CLOSED")
    /\ UNCHANGED <<hostVars, prepared, abandoned>>

\* handle(), up to its first call of the host or to its end without one.
LostTransaction(m) ==
    m.tx # None /\ (~OwnTransaction(m.client) \/ m.tx # transaction.token)

HandleInit(m) ==
    /\ m.method = "init"
    /\ Answered(m, "OK")
    /\ UNCHANGED <<hostVars, prepared, abandoned>>

HandleClose(m) ==
    /\ m.method = "close"
    /\ abandoned' = abandoned \cup {m.client}
    /\ IF OwnTransaction(m.client)
       THEN RollbackTransaction(transaction.token) /\ Awaits(m, "closing")
       ELSE Answered(m, "OK") /\ UNCHANGED hostVars
    /\ UNCHANGED prepared

HandlePrepareSql(m) ==
    /\ m.method = "prepareSql"
    /\ PrepareSql
    /\ Awaits(m, "preparing")
    /\ UNCHANGED <<prepared, abandoned>>

HandleClosePrepared(m) ==
    /\ m.method = "closePrepared"
    /\ prepared' = [prepared EXCEPT ![m.client] = None]
    /\ IF prepared[m.client] # None
       THEN ClosePrepared(prepared[m.client]) /\ Awaits(m, "returning")
       ELSE Answered(m, "OK") /\ UNCHANGED hostVars
    /\ UNCHANGED abandoned

\* A transaction's statements are prepared before it begins.
RestoresFirst(m) == m.sql /\ prepared[m.client] = None

HandleBegin(m) ==
    /\ m.method = "beginTransaction"
    /\ IF RestoresFirst(m)
       THEN PrepareSql /\ Awaits(m, "restoring")
       ELSE BeginTransaction /\ Awaits(m, "beginning")
    /\ UNCHANGED <<prepared, abandoned>>

HandleForward(m) ==
    /\ m.method \in Statements \cup TransactionEnds \cup {"setSchema"}
    /\ IF LostTransaction(m)
       THEN Answered(m, "TRANSACTION_LOST") /\ UNCHANGED hostVars
       ELSE IF m.method = "executePrepared" /\ prepared[m.client] = None
            THEN IF m.sql
                 THEN PrepareSql /\ Awaits(m, "rebinding")
                 ELSE Answered(m, "PREPARED_STATEMENT_CLOSED") /\ UNCHANGED hostVars
            ELSE Forward(m, prepared[m.client]) /\ Awaits(m, "returning")
    /\ UNCHANGED <<prepared, abandoned>>

Handle(i) ==
    LET m == queue[i] IN
    /\ Taken(i)
    /\ m.client \in connections \ abandoned
    /\ \/ HandleInit(m)
       \/ HandleClose(m)
       \/ HandlePrepareSql(m)
       \/ HandleClosePrepared(m)
       \/ HandleBegin(m)
       \/ HandleForward(m)

-----------------------------------------------------------------------------
(* handle(), from the answer of the host. *)

\* settle() and settleFailure(): a failure beyond repair retires the owner.
Finish(code, value) ==
    /\ Reply(job.message, code, value)
    /\ IF code \in FatalCodes
       THEN Close
       ELSE job' = Scan({}) /\ UNCHANGED <<closed, connections, watched, queue>>
    /\ UNCHANGED <<hostVars, abandoned>>

Continues(at) ==
    /\ job' = [job EXCEPT !.at = at]
    /\ UNCHANGED <<closed, connections, watched, queue, abandoned, tab, log, workload>>

\* The engine's name for the statement that the host has just prepared.
Hold == prepared' = [prepared EXCEPT ![job.message.client] = answer.value]

AnswerToClose ==
    /\ job.at = "closing"
    /\ transaction' = IF answer.code = "OK" THEN NoTransaction ELSE transaction
    /\ Finish(answer.code, None)
    /\ UNCHANGED prepared

AnswerToPrepare ==
    /\ job.at = "preparing"
    /\ IF answer.code = "OK" THEN Hold ELSE UNCHANGED prepared
    /\ Finish(answer.code, None)
    /\ UNCHANGED transaction

AnswerToRestore ==
    /\ job.at = "restoring"
    /\ IF answer.code = "OK"
       THEN Hold /\ BeginTransaction /\ Continues("beginning")
       ELSE Finish(answer.code, None) /\ UNCHANGED prepared
    /\ UNCHANGED transaction

AnswerToRebind ==
    /\ job.at = "rebinding"
    /\ IF answer.code = "OK"
       THEN Hold /\ Forward(job.message, answer.value) /\ Continues("returning")
       ELSE Finish(answer.code, None) /\ UNCHANGED prepared
    /\ UNCHANGED transaction

AnswerToBegin ==
    /\ job.at = "beginning"
    /\ transaction' = IF answer.code = "OK"
                      THEN [client |-> job.message.client, token |-> answer.value]
                      ELSE transaction
    /\ Finish(answer.code, answer.value)
    /\ UNCHANGED prepared

\* A commit that failed is followed by a rollback, whose outcome is ignored: the
\* host may have discarded the transaction already.
AnswerToForward ==
    LET m == job.message IN
    /\ job.at = "returning"
    /\ IF m.method = "commitTransaction" /\ answer.code # "OK"
       THEN /\ RollbackTransaction(transaction.token)
            /\ job' = [job EXCEPT !.at = "unwinding", !.error = answer.code]
            /\ UNCHANGED <<closed, connections, watched, queue, abandoned,
                           transaction, tab, log, workload>>
       ELSE /\ transaction' = IF m.method \in TransactionEnds /\ answer.code = "OK"
                              THEN NoTransaction ELSE transaction
            /\ Finish(answer.code, None)
    /\ UNCHANGED prepared

\* Mutant of Unwound: the broker goes on believing in the transaction.
StillInTransaction == UNCHANGED transaction
Unwound == transaction' = NoTransaction

AnswerToUnwind ==
    /\ job.at = "unwinding"
    /\ Unwound
    /\ Finish(job.error, None)
    /\ UNCHANGED prepared

-----------------------------------------------------------------------------

\* The timer of the host.
Announce == PostInvalidation /\ UNCHANGED <<brokerVars, tab, log, workload>>

Pump ==
    \/ \E c \in Clients : SkipAbandoned(c) \/ Forget(c)
    \/ ForgetRolledBack \/ DropStatement \/ DropConnection
    \/ PumpRests
    \/ \E i \in DOMAIN queue : TakeOfAbandoned(i) \/ Handle(i)
    \/ AnswerToClose \/ AnswerToPrepare \/ AnswerToRestore \/ AnswerToRebind
    \/ AnswerToBegin \/ AnswerToForward \/ AnswerToUnwind

Next ==
    \/ \E c \in Clients, method \in Offered : Receive(c, method)
    \/ \E c \in Clients : Depart(c) \/ LockGranted(c)
    \/ OwnerLeaves
    \/ Pump
    \/ Announce

Spec == Init /\ [][Next]_vars

\* A transaction callback comes to an end: the client commits, or rolls back, or
\* its tab goes.
EndsTransaction(c) ==
    \/ \E method \in TransactionEnds : method \in Offered /\ Receive(c, method)
    \/ InTransaction /\ OwnTransaction(c) /\ Depart(c)

\* The event loop of the owner runs what is due, the browser grants a free lock,
\* and no callback runs for ever.
Fairness ==
    /\ WF_vars(Pump) /\ WF_vars(Announce)
    /\ \A c \in Clients : WF_vars(LockGranted(c)) /\ WF_vars(EndsTransaction(c))

FairSpec == Spec /\ Fairness

-----------------------------------------------------------------------------
(* Properties. *)

\* Every request of every client, as the write it may stand for.
Logged == {w \in RequestIds : w[2] \in DOMAIN log[w[1]]}
Entry(w) == log[w[1]][w[2]]

\* Whenever the broker is between requests, its transaction is the host's and
\* the engine's: the same token, or none at all of them, whatever failed before.
TokensAgree ==
    (~closed /\ engine = "open" /\ job.at \in {"idle", "scan"})
        => /\ transaction.token = activeTransactionId
           /\ InTransaction <=> overlay.open

\* `w` is of no transaction and was sent right behind its client's own
\* beginTransaction, which succeeded.
Overtaken(w) ==
    /\ Entry(w).method \in Direct /\ Entry(w).tx = None
    /\ \E n \in 1 .. (w[2] - 1) :
         /\ log[w[1]][n].method = "beginTransaction" /\ log[w[1]][n].outcome = "OK"
         /\ \A k \in (n + 1) .. w[2] : log[w[1]][k].method \in Direct

\* No client, however its requests and closings interleave with another's callback,
\* meets the other's transaction or a statement that the engine does not hold: the
\* host's own defences only ever stop a direct statement that its client's own
\* beginTransaction overtook, and they do stop it, for all that is staged was asked
\* for by the open transaction.  And a client that is there can always end its
\* transaction: however many requests of others wait for it, its commit is never
\* refused for want of room.
NeverInterrupted ==
    /\ \A w \in Logged :
         /\ Entry(w).outcome \notin {"TRANSACTION_NOT_ACTIVE", "PREPARED_STATEMENT_NOT_FOUND"}
         /\ Entry(w).outcome = "TRANSACTION_ACTIVE" => Overtaken(w)
         /\ Entry(w).method = "commitTransaction" /\ tab[w[1]].here
               => Entry(w).outcome # "RESOURCE_LIMIT"
    /\ \A w \in overlay.staged : Entry(w).tx = activeTransactionId

\* The writes that transaction `token` of client `c` was told had run.
WritesOf(c, token) ==
    {w \in Logged : /\ w[1] = c /\ Entry(w).tx = token
                    /\ Entry(w).method \in Statements /\ Entry(w).outcome = "OK"}
CommitOf(c, token) ==
    {w \in Logged : /\ w[1] = c /\ Entry(w).tx = token
                    /\ Entry(w).method = "commitTransaction"}

\* A transaction is published whole or not at all, and only by its own commit:
\* one that is abandoned, refused or rolled back leaves nothing, and one whose
\* commit was acknowledged leaves everything.  No event announces a change before
\* that.
TransactionAtomic ==
    /\ announced \cup pendingTables \subseteq committed
    /\ \A c \in Clients, token \in 1 .. (nextTransactionId - 1) :
         /\ WritesOf(c, token) \cap committed # {} =>
               /\ WritesOf(c, token) \subseteq committed
               /\ \E w \in CommitOf(c, token) :
                    Entry(w).outcome \in
                        {"OK", "waiting", "STORAGE_COMMIT_OUTCOME_UNKNOWN"}
         /\ (\E w \in CommitOf(c, token) : Entry(w).outcome = "OK")
               => WritesOf(c, token) \subseteq committed

\* A write that its client was told did not run has not run, in no published
\* revision and in no open transaction.
RefusedNeverRuns ==
    \A w \in Logged :
        Entry(w).outcome \in Refusals \cup {"REFUSED"}
            => w \notin committed \cup overlay.staged

\* A client's requests run in the order it sent them, those served at once
\* included; only its init and its close may overtake.
InOrder ==
    \A v, w \in Logged :
        /\ v[1] = w[1] /\ v[2] < w[2]
        /\ Entry(w).method \notin {"init", "close"}
        /\ Entry(w).outcome \in AnswerCodes
        => Entry(v).outcome # "waiting"

\* Statements of clients that have gone are closed in the engine: at rest it
\* holds exactly those of the connected ones, so that a full registry is full of
\* statements that somebody still has.
NoStatementLeaks ==
    (~closed /\ engine = "open" /\ job.at = "idle" /\ abandoned = {})
        => statements = {prepared[c] : c \in connections} \ {None}

Unsettled(w) == w \in Logged /\ Entry(w).outcome = "waiting"

\* Every request is answered, as long as the owner serves: neither a client that
\* dies in the middle of its transaction nor a failed commit holds up the others.
\* And every published write is announced, however many share an event.
EverythingSettles ==
    \A w \in RequestIds :
        /\ Unsettled(w) ~> (closed \/ ~Unsettled(w))
        /\ (w \in committed) ~> (closed \/ engine = "poisoned" \/ w \in announced)

=============================================================================
