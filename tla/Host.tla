-------------------------------- MODULE Host --------------------------------
(***************************************************************************)
(* The host of one engine (src/worker/host.ts): it runs one request at a   *)
(* time, owns the token of the only transaction, and announces published   *)
(* changes in a later task.  The engine behind it is the WASM bridge       *)
(* (wasm-bridge.ts) over PagedEngine (paged_engine.rs), reduced to what    *)
(* the host can tell: which writes are published, which are staged, which  *)
(* statements are prepared, and whether a failure has poisoned it.  A      *)
(* write stands for any statement or script that changes rows.             *)
(*                                                                         *)
(* Every handler below is a whole call of handleRequest on an open engine. *)
(* It leaves its outcome in `answer`, where its caller finds it.           *)
(***************************************************************************)
EXTENDS Naturals, FiniteSets

CONSTANTS
    Writes,         \* the writes that requests may ask for
    Workloads       \* what may be asked of the database, and what may go wrong

ASSUME HostAssumption ==
    \A w \in Workloads :
        w.engineFaults \subseteq {"refused", "unknown"} /\ w.statements \in Nat

VARIABLES
    workload,               \* the workload of this behaviour, which never changes
    activeTransactionId,    \* the token of the open transaction, or None
    nextTransactionId,
    engine,                 \* "open" or "poisoned"
    overlay,                \* the engine's transaction: is there one, what it staged
    committed,              \* the writes in published revisions
    statements,             \* the engine's prepared statements
    nextStatementId,
    pendingTables,          \* the published writes that the next event announces
    announced,              \* the writes that posted events have announced
    answer                  \* how the last request ended

transactionVars == <<activeTransactionId, nextTransactionId, overlay>>
statementVars == <<statements, nextStatementId>>
eventVars == <<pendingTables, announced>>
hostVars == <<activeTransactionId, nextTransactionId, engine, overlay, committed,
              statements, nextStatementId, pendingTables, announced, answer>>

-----------------------------------------------------------------------------

\* Subset of {"refused", "unknown"}: an engine call that fails and changes nothing,
\* or one whose effect cannot be known.
EngineFaults == workload.engineFaults
MaxStatements == workload.statements    \* MAX_PREPARED_STATEMENTS

None == 0
NoOverlay == [open |-> FALSE, staged |-> {}]

\* The codes that leave an engine beyond use: FATAL_REMOTE_CODES.
FatalCodes == {"STORAGE_COMMIT_OUTCOME_UNKNOWN", "STORAGE_ENGINE_POISONED"}

Ok(value) == [code |-> "OK", value |-> value]
Failure(code) == [code |-> code, value |-> None]
AnswerCodes == {"OK", "TRANSACTION_ACTIVE", "TRANSACTION_NOT_ACTIVE", "REFUSED",
                "PREPARED_STATEMENT_NOT_FOUND"} \cup FatalCodes

HostInit ==
    /\ activeTransactionId = None
    /\ nextTransactionId = 1
    /\ engine = "open"
    /\ overlay = NoOverlay
    /\ committed = {}
    /\ statements = {}
    /\ nextStatementId = 1
    /\ pendingTables = {}
    /\ announced = {}
    /\ answer = Ok(None)

-----------------------------------------------------------------------------
(* The engine, as the bridge presents it. *)

\* assertCallable: nothing can be asked of a poisoned engine.
CallPoisoned ==
    /\ engine = "poisoned"
    /\ answer' = Failure("STORAGE_ENGINE_POISONED")
    /\ UNCHANGED <<engine, overlay, committed>>

\* A call that reports an error of its own, and publishes nothing.
CallRefused ==
    /\ engine = "open" /\ "refused" \in EngineFaults
    /\ answer' = Failure("REFUSED")
    /\ UNCHANGED <<engine, committed>>

UnknownOutcome == "STORAGE_COMMIT_OUTCOME_UNKNOWN"

\* poisonUnknown and closeRaw: a call that might publish `writes` ends in a way
\* that does not say whether it did, and the engine is closed for good.
CallUnknown(writes) ==
    /\ engine = "open" /\ "unknown" \in EngineFaults
    /\ answer' = Failure(UnknownOutcome)
    /\ engine' = "poisoned"
    /\ overlay' = NoOverlay
    /\ committed' \in {committed, committed \cup writes}

\* A call that only the state of the engine can fail.
CallSucceeds(value) ==
    /\ engine = "open"
    /\ answer' = Ok(value)
    /\ UNCHANGED engine

-----------------------------------------------------------------------------
(* Events.  The timer of emitInvalidation runs exactly while tables wait.    *)

EmitInvalidation(writes) ==
    /\ pendingTables' = pendingTables \cup writes
    /\ UNCHANGED announced

EmitUnlessInTransaction(writes) ==
    EmitInvalidation(IF activeTransactionId = None THEN writes ELSE {})

\* The task that emitInvalidation scheduled posts one event for all that waits.
PostInvalidation ==
    /\ pendingTables # {}
    /\ announced' = announced \cup pendingTables
    /\ pendingTables' = {}
    /\ UNCHANGED <<transactionVars, engine, committed, statementVars, answer>>

-----------------------------------------------------------------------------
(* The transaction token. *)

AssertNoTransaction == activeTransactionId = None

\* The error that assertTransactionId throws, or "OK".
TransactionCheck(requested) ==
    IF requested = activeTransactionId THEN "OK"
    ELSE IF activeTransactionId = None THEN "TRANSACTION_NOT_ACTIVE"
         ELSE "TRANSACTION_ACTIVE"

\* A request that an assertion of the host turns away.
TurnedAway(code) ==
    /\ answer' = Failure(code)
    /\ UNCHANGED <<transactionVars, engine, committed, statementVars, eventVars>>

-----------------------------------------------------------------------------
(* The requests. *)

\* Mutant of Staging: a statement of a transaction is published as it runs.
NeverStaging == FALSE
Staging == overlay.open

\* Mutant of RestoreOverlay: what a script did before it failed stays staged.
KeepPart(write) ==
    overlay' = IF overlay.open THEN [overlay EXCEPT !.staged = @ \cup {write}]
               ELSE overlay
\* A statement or a script that fails leaves its transaction as it was.
RestoreOverlay(write) == UNCHANGED overlay

\* executeSql and execSql of a write.
Execute(write, transactionId) ==
    \/ /\ TransactionCheck(transactionId) # "OK"
       /\ TurnedAway(TransactionCheck(transactionId))
    \/ /\ TransactionCheck(transactionId) = "OK"
       /\ \/ /\ CallSucceeds(None)
             /\ IF Staging
                THEN overlay' = [overlay EXCEPT !.staged = @ \cup {write}]
                     /\ UNCHANGED committed
                ELSE committed' = committed \cup {write} /\ UNCHANGED overlay
             /\ EmitUnlessInTransaction({write})
          \/ /\ \/ CallPoisoned
                \/ CallRefused /\ RestoreOverlay(write)
                \/ CallUnknown(IF Staging THEN {} ELSE {write})
             /\ UNCHANGED eventVars
       /\ UNCHANGED <<activeTransactionId, nextTransactionId, statementVars>>

\* executePrepared: the engine does not run a statement that it does not hold.
ExecutePrepared(write, statementId, transactionId) ==
    \/ statementId \in statements /\ Execute(write, transactionId)
    \/ /\ statementId \notin statements
       /\ TurnedAway(IF TransactionCheck(transactionId) # "OK"
                     THEN TransactionCheck(transactionId)
                     ELSE "PREPARED_STATEMENT_NOT_FOUND")

\* setSchema: a write of its own, never part of a transaction.
SetSchema(write) ==
    \/ ~AssertNoTransaction /\ TurnedAway("TRANSACTION_ACTIVE")
    \/ /\ AssertNoTransaction
       /\ \/ /\ CallSucceeds(None)
             /\ committed' = committed \cup {write}
             /\ UNCHANGED overlay
             /\ EmitInvalidation({write})
          \/ /\ \/ CallPoisoned
                \/ CallRefused /\ UNCHANGED overlay
                \/ CallUnknown({write})
             /\ UNCHANGED eventVars
       /\ UNCHANGED <<activeTransactionId, nextTransactionId, statementVars>>

\* The registry that all clients share has no room for another statement.
RegistryIsFull == Cardinality(statements) = MaxStatements

PrepareSql ==
    \/ ~AssertNoTransaction /\ TurnedAway("TRANSACTION_ACTIVE")
    \/ /\ AssertNoTransaction
       /\ \/ /\ ~RegistryIsFull
             /\ CallSucceeds(nextStatementId)
             /\ statements' = statements \cup {nextStatementId}
             /\ nextStatementId' = nextStatementId + 1
             /\ UNCHANGED <<overlay, committed>>
          \/ /\ \/ CallPoisoned
                \/ CallRefused /\ UNCHANGED overlay
                \/ /\ engine = "open" /\ RegistryIsFull
                   /\ answer' = Failure("REFUSED")
                   /\ UNCHANGED <<engine, overlay, committed>>
             /\ UNCHANGED statementVars
       /\ UNCHANGED <<activeTransactionId, nextTransactionId, eventVars>>

ClosePrepared(statementId) ==
    \/ ~AssertNoTransaction /\ TurnedAway("TRANSACTION_ACTIVE")
    \/ /\ AssertNoTransaction
       /\ \/ /\ CallSucceeds(None)
             /\ statements' = statements \ {statementId}
             /\ UNCHANGED <<overlay, committed, nextStatementId>>
          \/ CallPoisoned /\ UNCHANGED statementVars
       /\ UNCHANGED <<activeTransactionId, nextTransactionId, eventVars>>

BeginTransaction ==
    \/ ~AssertNoTransaction /\ TurnedAway("TRANSACTION_ACTIVE")
    \/ /\ AssertNoTransaction
       /\ \/ /\ ~overlay.open
             /\ CallSucceeds(nextTransactionId)
             /\ overlay' = [open |-> TRUE, staged |-> {}]
             /\ activeTransactionId' = nextTransactionId
             /\ nextTransactionId' = nextTransactionId + 1
             /\ UNCHANGED committed
          \/ /\ \/ CallPoisoned
                \/ /\ engine = "open" /\ overlay.open
                   /\ answer' = Failure("TRANSACTION_ACTIVE")
                   /\ UNCHANGED <<engine, overlay, committed>>
             /\ UNCHANGED <<activeTransactionId, nextTransactionId>>
       /\ UNCHANGED <<statementVars, eventVars>>

\* The cleanup of a commit that failed: the engine still has its transaction,
\* so the host rolls that back and clears the token.
DiscardAfterFailedCommit ==
    overlay' = NoOverlay /\ activeTransactionId' = None

\* A commit that fails on an engine that is poisoned, or is by then, keeps the
\* token: the engine cannot be asked for the cleanup.
CommitTransaction(transactionId) ==
    \/ /\ TransactionCheck(transactionId) # "OK"
       /\ TurnedAway(TransactionCheck(transactionId))
    \/ /\ TransactionCheck(transactionId) = "OK"
       /\ \/ /\ CallSucceeds(None)
             /\ committed' = committed \cup overlay.staged
             /\ overlay' = NoOverlay
             /\ EmitInvalidation(overlay.staged)
             /\ activeTransactionId' = None
          \/ /\ CallRefused
             /\ DiscardAfterFailedCommit
             /\ UNCHANGED eventVars
          \/ /\ CallPoisoned \/ CallUnknown(overlay.staged)
             /\ UNCHANGED <<activeTransactionId, eventVars>>
       /\ UNCHANGED <<nextTransactionId, statementVars>>

\* The engine refuses to roll back a transaction it does not have.
RollbackTransaction(transactionId) ==
    \/ /\ TransactionCheck(transactionId) # "OK"
       /\ TurnedAway(TransactionCheck(transactionId))
    \/ /\ TransactionCheck(transactionId) = "OK"
       /\ \/ /\ overlay.open
             /\ CallSucceeds(None)
             /\ overlay' = NoOverlay
             /\ activeTransactionId' = None
             /\ UNCHANGED committed
          \/ /\ engine = "open" /\ ~overlay.open
             /\ answer' = Failure("REFUSED")
             /\ UNCHANGED <<activeTransactionId, engine, overlay, committed>>
          \/ CallPoisoned /\ UNCHANGED activeTransactionId
       /\ UNCHANGED <<nextTransactionId, statementVars, eventVars>>

=============================================================================
