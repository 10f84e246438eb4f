---------------------------- MODULE BrokerProofs ----------------------------
(***************************************************************************)
(* Proofs about Broker and its Host for every set of clients and every     *)
(* workload.                                                               *)
(***************************************************************************)
EXTENDS Broker, SequenceTheorems, TLAPS

-----------------------------------------------------------------------------
(* Types. *)

\* Where pump() is while handle() awaits the host, and elsewhere.
Awaiting == {"closing", "preparing", "restoring", "rebinding", "beginning", "returning",
             "unwinding"}
JobStates == Awaiting \cup {"idle", "scan", "forgetting", "dropping", "dropped"}
Outcomes == {"waiting"} \cup AnswerCodes \cup Refusals
Requests == Clients \X Nat
Entries == [method : Methods, tx : Nat, outcome : Outcomes]
Messages == [client : Clients, n : Nat, method : Methods, tx : Nat, sql : BOOLEAN]
Jobs == [at : JobStates, seen : SUBSET Clients, client : Clients \cup {NoClient},
         message : Messages \cup {NoMessage}, error : AnswerCodes]
TypedJob(j) ==
    /\ j \in Jobs
    /\ j.at \in Awaiting => j.message \in Messages
    /\ j.at \in {"forgetting", "dropping", "dropped"} => j.client \in Clients
TabStates ==
    [here : BOOLEAN, phase : {"idle", "beginning", "active", "ending", "failed"}, tx : Nat,
     statement : {"none", "preparing", "held", "closing"}]

HostTypes ==
    /\ activeTransactionId \in Nat
    /\ nextTransactionId \in Nat \ {0}
    /\ engine \in {"open", "poisoned"}
    /\ overlay \in [open : BOOLEAN, staged : SUBSET Requests]
    /\ committed \subseteq Requests
    /\ statements \subseteq Nat
    /\ nextStatementId \in Nat \ {0}
    /\ pendingTables \subseteq Requests
    /\ announced \subseteq Requests
    /\ answer \in [code : AnswerCodes, value : Nat]
BrokerTypes ==
    /\ connections \subseteq Clients
    /\ watched \subseteq Clients
    /\ prepared \in [Clients -> Nat]
    /\ queue \in Seq(Messages)
    /\ abandoned \subseteq Clients
    /\ transaction \in {NoTransaction} \cup [client : Clients, token : Nat \ {0}]
    /\ closed \in BOOLEAN
    /\ TypedJob(job)
ClientTypes ==
    /\ tab \in [Clients -> TabStates]
    /\ log \in [Clients -> Seq(Entries)]
    /\ \A c \in Clients : Len(log[c]) <= MaxRequests[c]
TypeOK == workload \in Workloads /\ HostTypes /\ BrokerTypes /\ ClientTypes

-----------------------------------------------------------------------------
(* The inductive invariant, part by part. *)

\* The host alone: its token is the engine's transaction, an engine that failed has
\* none, and what is announced was published.
HostInv ==
    /\ engine = "open" => (activeTransactionId # None <=> overlay.open)
    /\ engine = "poisoned" => ~overlay.open
    /\ ~overlay.open => overlay.staged = {}
    /\ activeTransactionId < nextTransactionId
    /\ answer.code = "OK" => engine = "open"
    /\ announced \cup pendingTables \subseteq committed

\* The broker's transaction and the host's, wherever pump() is: they differ only while
\* the broker has yet to take up the answer that made the difference.
Agree == transaction.token = activeTransactionId
TokenInv ==
    (~closed /\ engine = "open") =>
        /\ job.at \in {"idle", "scan", "dropping", "dropped", "preparing", "restoring",
                       "rebinding"} => Agree
        /\ job.at \in {"forgetting", "closing"} =>
             answer.code = "OK" /\ activeTransactionId = None
        /\ job.at = "beginning" =>
             IF answer.code = "OK"
             THEN /\ answer.value = activeTransactionId /\ activeTransactionId # None
                  /\ overlay.staged = {}
             ELSE Agree
        /\ job.at = "returning" =>
             IF job.message.method \in TransactionEnds /\ answer.code = "OK"
             THEN activeTransactionId = None
             ELSE IF job.message.method = "commitTransaction"
                  THEN activeTransactionId \in {None, transaction.token}
                  ELSE Agree
        /\ job.at = "unwinding" => activeTransactionId = None

\* A request that waits is in the queue or in hand, each client's in the order it sent
\* them.
Asked == UNION {{c} \X DOMAIN log[c] : c \in Clients}
IdOf(m) == <<m.client, m.n>>
IsInHand(w) == job.at \in Awaiting /\ w = IdOf(job.message)
Waits(m) ==
    /\ IdOf(m) \in Asked
    /\ Entry(IdOf(m)) = [method |-> m.method, tx |-> m.tx, outcome |-> "waiting"]
\* The transaction that `m` names, if it names one, is its client's and active.
MayUse(m) == m.tx # None => OwnTransaction(m.client) /\ m.tx = transaction.token
\* The requests for which the host is asked something other than to run them.
Managing == {"close", "prepareSql", "beginTransaction"}
QueueInv ==
    /\ \A i \in DOMAIN queue : Waits(queue[i])
    /\ \A i, j \in DOMAIN queue :
         queue[i].client = queue[j].client /\ i < j => queue[i].n < queue[j].n
    /\ job.at \in Awaiting =>
         /\ Waits(job.message)
         /\ \A i \in DOMAIN queue : queue[i].client = job.message.client =>
              /\ queue[i].n # job.message.n
              /\ job.message.method # "close" => job.message.n < queue[i].n
    /\ job.at = "unwinding" =>
         job.message.method = "commitTransaction" /\ job.error # "OK"
    /\ job.at = "rebinding" => job.message.method = "executePrepared" /\ MayUse(job.message)
    /\ job.at \in {"closing", "preparing", "restoring", "beginning"} =>
         job.message.method \in Managing
    /\ closed => queue = <<>> /\ job = Idle /\ watched = {}
    /\ ~closed => \A w \in Asked : Entry(w).outcome = "waiting" =>
         IsInHand(w) \/ \E i \in DOMAIN queue : IdOf(queue[i]) = w

\* A write that may be in the database or in a transaction is one whose client has not
\* been told otherwise.
Ran(w) ==
    \/ Entry(w).outcome \in {"OK", UnknownOutcome}
    \/ /\ Entry(w).outcome = "waiting"
       /\ \/ closed
          \/ /\ IsInHand(w)
             /\ \/ job.at = "returning" /\ answer.code \in {"OK", UnknownOutcome}
                \/ job.at = "unwinding" /\ job.error = UnknownOutcome
RunInv ==
    \A w \in committed \cup overlay.staged : w \in Asked /\ Ran(w)

\* The writes that transaction `k` of client `c` was told had run.
TxWrites(c, k) ==
    {u \in Asked : /\ u[1] = c /\ Entry(u).tx = k
                   /\ Entry(u).method \in Statements /\ Entry(u).outcome = "OK"}
IsCommit(v, c, k) == v[1] = c /\ Entry(v).tx = k /\ Entry(v).method = "commitTransaction"
\* Transaction `k` is over, and all of it is published.
IsWhole(c, k) == (engine = "open" => k # activeTransactionId) /\ TxWrites(c, k) \subseteq committed

\* Tokens are of transactions that have begun.
IssuedInv ==
    /\ \A c \in Clients : tab[c].tx < nextTransactionId
    /\ \A w \in Asked : /\ Entry(w).tx < nextTransactionId
                        /\ Entry(w).method = "setSchema" => Entry(w).tx = None
\* What is staged is what the active transaction's client was told had run.
StagedInv ==
    /\ \A w \in overlay.staged :
         /\ Entry(w).tx = activeTransactionId
         /\ ~closed => w[1] = transaction.client
    /\ ~closed /\ engine = "open" =>
         /\ activeTransactionId # None =>
              \A c \in Clients : TxWrites(c, activeTransactionId) \subseteq overlay.staged
         /\ job.at = "returning" /\ job.message.method \in Statements
              /\ job.message.tx # None /\ answer.code = "OK"
              => IdOf(job.message) \in overlay.staged
\* A transaction of which something is published, or whose commit was acknowledged, is
\* published whole.
WholeInv ==
    /\ \A w \in committed : Entry(w).tx # None =>
         /\ IsWhole(w[1], Entry(w).tx)
         /\ \E v \in Asked : IsCommit(v, w[1], Entry(w).tx) /\ Ran(v)
    /\ \A v \in Asked :
         /\ Entry(v).method = "commitTransaction" /\ Entry(v).tx # None
         /\ \/ Entry(v).outcome = "OK"
            \/ IsInHand(v) /\ job.at = "returning" /\ answer.code = "OK"
         => IsWhole(v[1], Entry(v).tx)

\* A client's requests are answered in the order it sent them, its init and its close
\* apart.
OrderInv ==
    \A v, w \in Asked :
        /\ v[1] = w[1] /\ v[2] < w[2]
        /\ Entry(w).method \notin {"init", "close"}
        /\ Entry(w).outcome \in AnswerCodes
        => Entry(v).outcome # "waiting"

IInv ==
    /\ TypeOK /\ HostInv /\ TokenInv /\ QueueInv /\ RunInv /\ IssuedInv /\ StagedInv
    /\ WholeInv /\ OrderInv

-----------------------------------------------------------------------------
(* What the calls of the host do. *)

Still == UNCHANGED <<activeTransactionId, nextTransactionId, engine, overlay, committed>>

\* The write `w` is made under token `k`: staged, or published, or not at all.
WriteCall(w, k) ==
    /\ UNCHANGED <<activeTransactionId, nextTransactionId>>
    /\ \/ /\ answer'.code = "OK" /\ engine = "open" /\ engine' = "open"
          /\ k = activeTransactionId
          /\ IF activeTransactionId # None
             THEN UNCHANGED committed /\ overlay'.staged = overlay.staged \cup {w}
             ELSE committed' = committed \cup {w} /\ overlay'.staged = overlay.staged
       \/ /\ answer'.code = UnknownOutcome /\ engine' = "poisoned"
          /\ k = activeTransactionId /\ overlay'.staged = {}
          /\ \/ UNCHANGED committed
             \/ activeTransactionId = None /\ committed' = committed \cup {w}
       \/ answer'.code \notin {"OK", UnknownOutcome} /\ UNCHANGED <<engine, overlay, committed>>

\* The transaction `k` is committed, or discarded, or is not the one there is.
CommitCall(k) ==
    /\ UNCHANGED nextTransactionId
    /\ \/ /\ k = activeTransactionId /\ overlay'.staged = {} /\ activeTransactionId' = None
          /\ engine = "open" /\ engine' = "open"
          /\ \/ answer'.code = "OK" /\ committed' = committed \cup overlay.staged
             \/ answer'.code = "REFUSED" /\ UNCHANGED committed
       \/ /\ k = activeTransactionId /\ overlay'.staged = {} /\ UNCHANGED activeTransactionId
          /\ engine' = "poisoned" /\ answer'.code = UnknownOutcome
          /\ committed' \in {committed, committed \cup overlay.staged}
       \/ /\ answer'.code \notin {"OK", UnknownOutcome}
          /\ UNCHANGED <<activeTransactionId, engine, overlay, committed>>
          /\ engine = "open" => k # activeTransactionId

\* The transaction `k` is discarded, or is not there.
RollbackCall(k) ==
    /\ UNCHANGED <<nextTransactionId, engine, committed>>
    /\ \/ /\ answer'.code = "OK" /\ engine = "open" /\ k = activeTransactionId
          /\ activeTransactionId' = None /\ overlay'.staged = {}
       \/ /\ answer'.code \notin {"OK", UnknownOutcome}
          /\ UNCHANGED <<activeTransactionId, overlay>>
          /\ engine = "open" => k # activeTransactionId \/ activeTransactionId = None

\* A transaction begins, with a token that none had before.
BeginCall ==
    /\ UNCHANGED <<engine, committed>>
    /\ \/ /\ answer'.code = "OK" /\ engine = "open" /\ activeTransactionId = None
          /\ activeTransactionId' = nextTransactionId
          /\ nextTransactionId' = nextTransactionId + 1
          /\ answer'.value = nextTransactionId
          /\ overlay'.staged = {}
       \/ /\ answer'.code \notin {"OK", UnknownOutcome}
          /\ UNCHANGED <<activeTransactionId, nextTransactionId, overlay>>

\* Execute: a write of a transaction is staged, any other published.
LEMMA ExecuteEffect ==
    ASSUME HostTypes, HostInv, NEW w \in Requests, NEW k, Execute(w, k)
    PROVE  HostTypes' /\ HostInv' /\ WriteCall(w, k)
<1>1. CASE TransactionCheck(k) # "OK" /\ TurnedAway(TransactionCheck(k))
  <2>1. TransactionCheck(k) \in {"TRANSACTION_NOT_ACTIVE", "TRANSACTION_ACTIVE"}
    BY <1>1 DEF TransactionCheck
  <2>2. /\ answer' = [code |-> TransactionCheck(k), value |-> None]
        /\ UNCHANGED <<activeTransactionId, nextTransactionId, overlay, engine, committed,
                       statements, nextStatementId, pendingTables, announced>>
    BY <1>1 DEF TurnedAway, Failure, transactionVars, statementVars, eventVars
  <2>3. answer' \in [code : AnswerCodes, value : Nat] /\ answer'.code \notin {"OK", UnknownOutcome}
    BY <2>1, <2>2 DEF AnswerCodes, None, UnknownOutcome
  <2> QED
    BY <2>2, <2>3 DEF HostTypes, HostInv, WriteCall
<1>2. CASE /\ TransactionCheck(k) = "OK"
           /\ CallSucceeds(None)
           /\ IF Staging
              THEN overlay' = [overlay EXCEPT !.staged = @ \cup {w}] /\ UNCHANGED committed
              ELSE committed' = committed \cup {w} /\ UNCHANGED overlay
           /\ EmitUnlessInTransaction({w})
           /\ UNCHANGED <<activeTransactionId, nextTransactionId, statementVars>>
  <2>1. k = activeTransactionId
    BY <1>2 DEF TransactionCheck
  <2>2. engine = "open" /\ engine' = "open" /\ answer' = [code |-> "OK", value |-> None]
    BY <1>2 DEF CallSucceeds, Ok
  <2>3. answer' \in [code : AnswerCodes, value : Nat] /\ answer'.code = "OK"
    BY <2>2 DEF AnswerCodes, None
  <2>4. /\ UNCHANGED <<activeTransactionId, nextTransactionId, statements, nextStatementId,
                       announced>>
        /\ pendingTables' = pendingTables \cup (IF activeTransactionId = None THEN {w} ELSE {})
    BY <1>2 DEF EmitUnlessInTransaction, EmitInvalidation, statementVars
  <2>5. CASE overlay.open
    <3>1. overlay' = [overlay EXCEPT !.staged = @ \cup {w}] /\ UNCHANGED committed
      BY <1>2, <2>5 DEF Staging
    <3>2. /\ overlay' \in [open : BOOLEAN, staged : SUBSET Requests]
          /\ overlay'.open /\ overlay'.staged = overlay.staged \cup {w}
      BY <2>5, <3>1 DEF HostTypes
    <3>3. activeTransactionId # None
      BY <2>2, <2>5 DEF HostInv
    <3> QED
      BY <2>1, <2>2, <2>3, <2>4, <3>1, <3>2, <3>3 DEF HostTypes, HostInv, WriteCall
  <2>6. CASE ~overlay.open
    <3>1. committed' = committed \cup {w} /\ UNCHANGED overlay
      BY <1>2, <2>6 DEF Staging
    <3>2. activeTransactionId = None
      BY <2>2, <2>6 DEF HostInv
    <3> QED
      BY <2>1, <2>2, <2>3, <2>4, <2>6, <3>1, <3>2 DEF HostTypes, HostInv, WriteCall
  <2> QED
    BY <2>5, <2>6
<1>3. CASE /\ TransactionCheck(k) = "OK"
           /\ CallPoisoned \/ (CallRefused /\ RestoreOverlay(w))
           /\ UNCHANGED eventVars
           /\ UNCHANGED <<activeTransactionId, nextTransactionId, statementVars>>
  <2>1. UNCHANGED <<activeTransactionId, nextTransactionId, overlay, engine, committed,
                    statements, nextStatementId, pendingTables, announced>>
    BY <1>3 DEF CallPoisoned, CallRefused, RestoreOverlay, statementVars, eventVars
  <2>2. answer' \in [code : AnswerCodes, value : Nat] /\ answer'.code \notin {"OK", UnknownOutcome}
    BY <1>3 DEF CallPoisoned, CallRefused, Failure, AnswerCodes, FatalCodes, None, UnknownOutcome
  <2> QED
    BY <2>1, <2>2 DEF HostTypes, HostInv, WriteCall
<1>4. CASE /\ TransactionCheck(k) = "OK"
           /\ CallUnknown(IF Staging THEN {} ELSE {w})
           /\ UNCHANGED eventVars
           /\ UNCHANGED <<activeTransactionId, nextTransactionId, statementVars>>
  <2>1. k = activeTransactionId
    BY <1>4 DEF TransactionCheck
  <2>2. /\ engine = "open" /\ engine' = "poisoned" /\ overlay' = [open |-> FALSE, staged |-> {}]
        /\ answer' = [code |-> UnknownOutcome, value |-> None]
        /\ committed' \in {committed, committed \cup (IF overlay.open THEN {} ELSE {w})}
        /\ UNCHANGED <<activeTransactionId, nextTransactionId, statements, nextStatementId,
                       announced, pendingTables>>
    BY <1>4 DEF CallUnknown, NoOverlay, Failure, Staging, eventVars, statementVars
  <2>3. answer' \in [code : AnswerCodes, value : Nat] /\ answer'.code = UnknownOutcome
        /\ answer'.code # "OK"
    BY <2>2 DEF AnswerCodes, FatalCodes, None, UnknownOutcome
  <2>4. /\ UNCHANGED committed \/ (activeTransactionId = None /\ committed' = committed \cup {w})
        /\ committed \subseteq committed' /\ committed' \subseteq Requests
    BY <2>2 DEF HostInv, HostTypes
  <2>5. overlay' \in [open : BOOLEAN, staged : SUBSET Requests] /\ ~overlay'.open
        /\ overlay'.staged = {}
    BY <2>2
  <2> QED
    BY <2>1, <2>2, <2>3, <2>4, <2>5 DEF HostTypes, HostInv, WriteCall
<1> QED
  BY <1>1, <1>2, <1>3, <1>4 DEF Execute

\* A call that fails and changes nothing of the transaction or of what is published.
FailedCall ==
    /\ answer' \in [code : AnswerCodes, value : Nat]
    /\ answer'.code \notin {"OK", UnknownOutcome}
    /\ UNCHANGED <<activeTransactionId, nextTransactionId, engine, overlay, committed>>
    /\ UNCHANGED <<pendingTables, announced, statements, nextStatementId>>

\* It leaves the host as it was.
LEMMA FailedEffect ==
    ASSUME HostTypes, HostInv, FailedCall
    PROVE  HostTypes' /\ HostInv'
  BY DEF FailedCall, HostTypes, HostInv

\* An assertion of the host, or a check of its token, turns a request away.
LEMMA TurnedAwayEffect ==
    ASSUME HostTypes, NEW code \in {"TRANSACTION_NOT_ACTIVE", "TRANSACTION_ACTIVE",
                                    "PREPARED_STATEMENT_NOT_FOUND"},
           TurnedAway(code)
    PROVE  FailedCall
<1>1. /\ answer' = [code |-> code, value |-> None]
      /\ UNCHANGED <<activeTransactionId, nextTransactionId, overlay, engine, committed,
                     statements, nextStatementId, pendingTables, announced>>
  BY DEF TurnedAway, Failure, transactionVars, statementVars, eventVars
<1>2. answer' \in [code : AnswerCodes, value : Nat] /\ answer'.code \notin {"OK", UnknownOutcome}
  BY <1>1 DEF AnswerCodes, None, UnknownOutcome
<1> QED
  BY <1>1, <1>2 DEF FailedCall

\* A call of a poisoned engine, or one that the engine refuses.
LEMMA RefusedEffect ==
    ASSUME HostTypes, CallPoisoned \/ (CallRefused /\ UNCHANGED overlay),
           UNCHANGED <<activeTransactionId, nextTransactionId, pendingTables, announced,
                       statements, nextStatementId>>
    PROVE  FailedCall
<1>1. UNCHANGED <<overlay, engine, committed>>
  BY DEF CallPoisoned, CallRefused
<1>2. answer' \in [code : AnswerCodes, value : Nat] /\ answer'.code \notin {"OK", UnknownOutcome}
  BY DEF CallPoisoned, CallRefused, Failure, AnswerCodes, FatalCodes, None, UnknownOutcome
<1> QED
  BY <1>1, <1>2 DEF FailedCall

\* ExecutePrepared: a write like any other, if the engine holds the statement.
LEMMA ExecutePreparedEffect ==
    ASSUME HostTypes, HostInv, NEW w \in Requests, NEW id, NEW k, ExecutePrepared(w, id, k)
    PROVE  HostTypes' /\ HostInv' /\ WriteCall(w, k)
<1>1. CASE Execute(w, k)
  BY <1>1, ExecuteEffect
<1>2. CASE TurnedAway(IF TransactionCheck(k) # "OK" THEN TransactionCheck(k)
                      ELSE "PREPARED_STATEMENT_NOT_FOUND")
  <2>1. (IF TransactionCheck(k) # "OK" THEN TransactionCheck(k)
         ELSE "PREPARED_STATEMENT_NOT_FOUND")
          \in {"TRANSACTION_NOT_ACTIVE", "TRANSACTION_ACTIVE", "PREPARED_STATEMENT_NOT_FOUND"}
    BY DEF TransactionCheck
  <2>2. FailedCall
    BY <1>2, <2>1, TurnedAwayEffect
  <2> QED
    BY <2>2, FailedEffect DEF FailedCall, WriteCall
<1> QED
  BY <1>1, <1>2 DEF ExecutePrepared

\* SetSchema: a write that is published at once, and only between transactions.
LEMMA SetSchemaEffect ==
    ASSUME HostTypes, HostInv, NEW w \in Requests, SetSchema(w)
    PROVE  HostTypes' /\ HostInv' /\ WriteCall(w, None)
<1>1. CASE TurnedAway("TRANSACTION_ACTIVE")
  <2>1. FailedCall
    BY <1>1, TurnedAwayEffect
  <2> QED
    BY <2>1, FailedEffect DEF FailedCall, WriteCall
<1>2. CASE /\ activeTransactionId = None
           /\ CallSucceeds(None)
           /\ committed' = committed \cup {w}
           /\ UNCHANGED overlay
           /\ EmitInvalidation({w})
           /\ UNCHANGED <<activeTransactionId, nextTransactionId, statementVars>>
  <2>1. engine = "open" /\ engine' = "open" /\ answer' = [code |-> "OK", value |-> None]
    BY <1>2 DEF CallSucceeds, Ok
  <2>2. answer' \in [code : AnswerCodes, value : Nat] /\ answer'.code = "OK"
    BY <2>1 DEF AnswerCodes, None
  <2>3. /\ UNCHANGED <<activeTransactionId, nextTransactionId, statements, nextStatementId,
                       announced>>
        /\ pendingTables' = pendingTables \cup {w}
    BY <1>2 DEF EmitInvalidation, statementVars
  <2> QED
    BY <1>2, <2>1, <2>2, <2>3 DEF HostTypes, HostInv, WriteCall
<1>3. CASE /\ CallPoisoned \/ (CallRefused /\ UNCHANGED overlay)
           /\ UNCHANGED eventVars
           /\ UNCHANGED <<activeTransactionId, nextTransactionId, statementVars>>
  <2>1. FailedCall
    BY <1>3, RefusedEffect DEF eventVars, statementVars
  <2> QED
    BY <2>1, FailedEffect DEF FailedCall, WriteCall
<1>4. CASE /\ activeTransactionId = None
           /\ CallUnknown({w})
           /\ UNCHANGED eventVars
           /\ UNCHANGED <<activeTransactionId, nextTransactionId, statementVars>>
  <2>1. /\ engine = "open" /\ engine' = "poisoned" /\ overlay' = [open |-> FALSE, staged |-> {}]
        /\ answer' = [code |-> UnknownOutcome, value |-> None]
        /\ committed' \in {committed, committed \cup {w}}
        /\ UNCHANGED <<activeTransactionId, nextTransactionId, statements, nextStatementId,
                       announced, pendingTables>>
    BY <1>4 DEF CallUnknown, NoOverlay, Failure, eventVars, statementVars
  <2>2. answer' \in [code : AnswerCodes, value : Nat] /\ answer'.code = UnknownOutcome
        /\ answer'.code # "OK"
    BY <2>1 DEF AnswerCodes, FatalCodes, None, UnknownOutcome
  <2>3. overlay' \in [open : BOOLEAN, staged : SUBSET Requests] /\ ~overlay'.open
        /\ overlay'.staged = {}
    BY <2>1
  <2> QED
    BY <1>4, <2>1, <2>2, <2>3 DEF HostTypes, HostInv, WriteCall
<1> QED
  BY <1>1, <1>2, <1>3, <1>4 DEF SetSchema, AssertNoTransaction

\* CommitTransaction: everything that is staged is published, or nothing.
LEMMA CommitEffect ==
    ASSUME HostTypes, HostInv, NEW k, CommitTransaction(k)
    PROVE  HostTypes' /\ HostInv' /\ CommitCall(k)
<1>1. CASE TransactionCheck(k) # "OK" /\ TurnedAway(TransactionCheck(k))
  <2>1. /\ TransactionCheck(k) \in {"TRANSACTION_NOT_ACTIVE", "TRANSACTION_ACTIVE"}
        /\ k # activeTransactionId
    BY <1>1 DEF TransactionCheck
  <2>2. FailedCall
    BY <1>1, <2>1, TurnedAwayEffect
  <2> QED
    BY <2>1, <2>2, FailedEffect DEF FailedCall, CommitCall
<1>2. CASE TransactionCheck(k) = "OK"
  <2>1. k = activeTransactionId
    BY <1>2 DEF TransactionCheck
  <2>2. UNCHANGED <<nextTransactionId, statements, nextStatementId>>
    BY <1>2 DEF CommitTransaction, statementVars, TurnedAway
  <2>3. CASE /\ CallSucceeds(None)
             /\ committed' = committed \cup overlay.staged
             /\ overlay' = NoOverlay
             /\ EmitInvalidation(overlay.staged)
             /\ activeTransactionId' = None
    <3>1. engine = "open" /\ engine' = "open" /\ answer' = [code |-> "OK", value |-> None]
      BY <2>3 DEF CallSucceeds, Ok
    <3>2. answer' \in [code : AnswerCodes, value : Nat] /\ answer'.code = "OK"
      BY <3>1 DEF AnswerCodes, None
    <3>3. overlay' \in [open : BOOLEAN, staged : SUBSET Requests] /\ ~overlay'.open
          /\ overlay'.staged = {}
      BY <2>3 DEF NoOverlay
    <3>4. pendingTables' = pendingTables \cup overlay.staged /\ UNCHANGED announced
      BY <2>3 DEF EmitInvalidation
    <3>5. HostTypes'
      BY <2>2, <2>3, <3>1, <3>2, <3>3, <3>4 DEF HostTypes, None
    <3>6. HostInv'
      BY <2>2, <2>3, <3>1, <3>2, <3>3, <3>4 DEF HostTypes, HostInv, None
    <3> QED
      BY <2>1, <2>2, <2>3, <3>1, <3>2, <3>3, <3>5, <3>6 DEF CommitCall
  <2>4. CASE CallRefused /\ DiscardAfterFailedCommit /\ UNCHANGED eventVars
    <3>1. /\ engine = "open" /\ engine' = "open" /\ answer' = [code |-> "REFUSED", value |-> None]
          /\ UNCHANGED <<committed, pendingTables, announced>>
          /\ activeTransactionId' = None /\ overlay' = NoOverlay
      BY <2>4 DEF CallRefused, Failure, DiscardAfterFailedCommit, eventVars
    <3>2. answer' \in [code : AnswerCodes, value : Nat] /\ answer'.code = "REFUSED"
          /\ answer'.code # "OK"
      BY <3>1 DEF AnswerCodes, None
    <3>3. overlay' \in [open : BOOLEAN, staged : SUBSET Requests] /\ ~overlay'.open
          /\ overlay'.staged = {}
      BY <3>1 DEF NoOverlay
    <3>4. HostTypes' /\ HostInv'
      BY <2>2, <3>1, <3>2, <3>3 DEF HostTypes, HostInv, None
    <3> QED
      BY <2>1, <2>2, <3>1, <3>2, <3>3, <3>4 DEF CommitCall
  <2>5. CASE CallPoisoned /\ UNCHANGED <<activeTransactionId, eventVars>>
    <3>1. FailedCall /\ engine = "poisoned"
      BY <2>2, <2>5, RefusedEffect DEF eventVars, CallPoisoned
    <3> QED
      BY <3>1, FailedEffect DEF FailedCall, CommitCall
  <2>6. CASE CallUnknown(overlay.staged) /\ UNCHANGED <<activeTransactionId, eventVars>>
    <3>1. /\ engine' = "poisoned" /\ overlay' = [open |-> FALSE, staged |-> {}]
          /\ answer' = [code |-> UnknownOutcome, value |-> None]
          /\ committed' \in {committed, committed \cup overlay.staged}
          /\ UNCHANGED <<activeTransactionId, announced, pendingTables>>
      BY <2>6 DEF CallUnknown, NoOverlay, Failure, eventVars
    <3>2. answer' \in [code : AnswerCodes, value : Nat] /\ answer'.code = UnknownOutcome
          /\ answer'.code # "OK"
      BY <3>1 DEF AnswerCodes, FatalCodes, None, UnknownOutcome
    <3>3. overlay' \in [open : BOOLEAN, staged : SUBSET Requests] /\ ~overlay'.open
          /\ overlay'.staged = {}
      BY <3>1
    <3>4. HostTypes' /\ HostInv'
      BY <2>2, <3>1, <3>2, <3>3 DEF HostTypes, HostInv
    <3> QED
      BY <2>1, <2>2, <3>1, <3>2, <3>3, <3>4 DEF CommitCall
  <2> QED
    BY <1>2, <2>3, <2>4, <2>5, <2>6 DEF CommitTransaction
<1> QED
  BY <1>1, <1>2 DEF CommitTransaction

\* RollbackTransaction: nothing of the transaction is left.
LEMMA RollbackEffect ==
    ASSUME HostTypes, HostInv, NEW k, RollbackTransaction(k)
    PROVE  HostTypes' /\ HostInv' /\ RollbackCall(k)
<1>1. CASE TransactionCheck(k) # "OK" /\ TurnedAway(TransactionCheck(k))
  <2>1. /\ TransactionCheck(k) \in {"TRANSACTION_NOT_ACTIVE", "TRANSACTION_ACTIVE"}
        /\ k # activeTransactionId
    BY <1>1 DEF TransactionCheck
  <2>2. FailedCall
    BY <1>1, <2>1, TurnedAwayEffect
  <2> QED
    BY <2>1, <2>2, FailedEffect DEF FailedCall, RollbackCall
<1>2. CASE TransactionCheck(k) = "OK"
  <2>1. k = activeTransactionId
    BY <1>2 DEF TransactionCheck
  <2>2. UNCHANGED <<nextTransactionId, statements, nextStatementId, pendingTables, announced>>
    BY <1>2 DEF RollbackTransaction, statementVars, eventVars, TurnedAway
  <2>3. CASE /\ overlay.open
             /\ CallSucceeds(None)
             /\ overlay' = NoOverlay
             /\ activeTransactionId' = None
             /\ UNCHANGED committed
    <3>1. engine = "open" /\ engine' = "open" /\ answer' = [code |-> "OK", value |-> None]
      BY <2>3 DEF CallSucceeds, Ok
    <3>2. answer' \in [code : AnswerCodes, value : Nat] /\ answer'.code = "OK"
      BY <3>1 DEF AnswerCodes, None
    <3>3. overlay' \in [open : BOOLEAN, staged : SUBSET Requests] /\ ~overlay'.open
          /\ overlay'.staged = {}
      BY <2>3 DEF NoOverlay
    <3>4. HostTypes' /\ HostInv'
      BY <2>2, <2>3, <3>1, <3>2, <3>3 DEF HostTypes, HostInv, None
    <3> QED
      BY <2>1, <2>2, <2>3, <3>1, <3>2, <3>3, <3>4 DEF RollbackCall
  <2>4. CASE /\ engine = "open" /\ ~overlay.open
             /\ answer' = Failure("REFUSED")
             /\ UNCHANGED <<activeTransactionId, engine, overlay, committed>>
    <3>1. answer' \in [code : AnswerCodes, value : Nat]
          /\ answer'.code \notin {"OK", UnknownOutcome}
      BY <2>4 DEF AnswerCodes, Failure, None, UnknownOutcome
    <3>2. FailedCall /\ activeTransactionId = None
      BY <2>2, <2>4, <3>1 DEF FailedCall, HostInv
    <3> QED
      BY <3>2, FailedEffect DEF FailedCall, RollbackCall
  <2>5. CASE CallPoisoned /\ UNCHANGED activeTransactionId
    <3>1. FailedCall /\ engine = "poisoned"
      BY <2>2, <2>5, RefusedEffect DEF CallPoisoned
    <3> QED
      BY <3>1, FailedEffect DEF FailedCall, RollbackCall
  <2> QED
    BY <1>2, <2>3, <2>4, <2>5 DEF RollbackTransaction
<1> QED
  BY <1>1, <1>2 DEF RollbackTransaction

\* BeginTransaction: a new token, for a transaction with nothing in it.
LEMMA BeginEffect ==
    ASSUME HostTypes, HostInv, BeginTransaction
    PROVE  HostTypes' /\ HostInv' /\ BeginCall
<1>1. CASE TurnedAway("TRANSACTION_ACTIVE")
  <2>1. FailedCall
    BY <1>1, TurnedAwayEffect
  <2> QED
    BY <2>1, FailedEffect DEF FailedCall, BeginCall
<1>2. CASE /\ activeTransactionId = None
           /\ CallSucceeds(nextTransactionId)
           /\ overlay' = [open |-> TRUE, staged |-> {}]
           /\ activeTransactionId' = nextTransactionId
           /\ nextTransactionId' = nextTransactionId + 1
           /\ UNCHANGED committed
           /\ UNCHANGED <<statementVars, eventVars>>
  <2>1. /\ engine = "open" /\ engine' = "open"
        /\ answer' = [code |-> "OK", value |-> nextTransactionId]
    BY <1>2 DEF CallSucceeds, Ok
  <2>2. /\ answer' \in [code : AnswerCodes, value : Nat] /\ answer'.code = "OK"
        /\ answer'.value = nextTransactionId
    BY <2>1 DEF AnswerCodes, HostTypes
  <2>3. overlay' \in [open : BOOLEAN, staged : SUBSET Requests] /\ overlay'.open
        /\ overlay'.staged = {}
    BY <1>2
  <2>4. UNCHANGED <<statements, nextStatementId, pendingTables, announced>>
    BY <1>2 DEF statementVars, eventVars
  <2>5. HostTypes'
    BY <1>2, <2>1, <2>2, <2>3, <2>4 DEF HostTypes
  <2>6. HostInv'
    BY <1>2, <2>1, <2>2, <2>3, <2>4 DEF HostTypes, HostInv, None
  <2> QED
    BY <1>2, <2>1, <2>2, <2>3, <2>5, <2>6 DEF BeginCall
<1>3. CASE /\ CallPoisoned
           /\ UNCHANGED <<activeTransactionId, nextTransactionId>>
           /\ UNCHANGED <<statementVars, eventVars>>
  <2>1. FailedCall
    BY <1>3, RefusedEffect DEF statementVars, eventVars
  <2> QED
    BY <2>1, FailedEffect DEF FailedCall, BeginCall
<1>4. CASE /\ answer' = Failure("TRANSACTION_ACTIVE")
           /\ UNCHANGED <<engine, overlay, committed>>
           /\ UNCHANGED <<activeTransactionId, nextTransactionId>>
           /\ UNCHANGED <<statementVars, eventVars>>
  <2>1. answer' \in [code : AnswerCodes, value : Nat] /\ answer'.code \notin {"OK", UnknownOutcome}
    BY <1>4 DEF AnswerCodes, Failure, None, UnknownOutcome
  <2>2. FailedCall
    BY <1>4, <2>1 DEF FailedCall, statementVars, eventVars
  <2> QED
    BY <2>2, FailedEffect DEF FailedCall, BeginCall
<1> QED
  BY <1>1, <1>2, <1>3, <1>4 DEF BeginTransaction, AssertNoTransaction

\* What statements are prepared has nothing to do with what is published.
StatementCall == Still /\ answer'.code # UnknownOutcome

\* PrepareSql and ClosePrepared leave transactions and published writes alone.
LEMMA StatementEffect ==
    ASSUME HostTypes, HostInv, PrepareSql \/ \E id : ClosePrepared(id)
    PROVE  HostTypes' /\ HostInv' /\ StatementCall
<1>1. CASE TurnedAway("TRANSACTION_ACTIVE")
  <2>1. FailedCall
    BY <1>1, TurnedAwayEffect
  <2> QED
    BY <2>1, FailedEffect DEF FailedCall, StatementCall, Still
<1>2. ASSUME NEW id \in Nat, CallSucceeds(id),
             statements' \subseteq Nat, nextStatementId' \in Nat \ {0},
             UNCHANGED <<activeTransactionId, nextTransactionId, eventVars, overlay, committed>>
      PROVE  HostTypes' /\ HostInv' /\ StatementCall
  <2>1. /\ engine = "open" /\ engine' = "open" /\ answer' = [code |-> "OK", value |-> id]
        /\ UNCHANGED <<pendingTables, announced>>
    BY <1>2 DEF CallSucceeds, Ok, eventVars
  <2>2. answer' \in [code : AnswerCodes, value : Nat] /\ answer'.code = "OK"
        /\ answer'.code # UnknownOutcome
    BY <2>1 DEF AnswerCodes, UnknownOutcome
  <2> QED
    BY <1>2, <2>1, <2>2 DEF HostTypes, HostInv, StatementCall, Still
<1>3. CASE /\ CallPoisoned \/ (CallRefused /\ UNCHANGED overlay)
           /\ UNCHANGED <<activeTransactionId, nextTransactionId, eventVars, statementVars>>
  <2>1. FailedCall
    BY <1>3, RefusedEffect DEF statementVars, eventVars
  <2> QED
    BY <2>1, FailedEffect DEF FailedCall, StatementCall, Still
<1>4. CASE /\ answer' = Failure("REFUSED")
           /\ UNCHANGED <<engine, overlay, committed, statementVars>>
           /\ UNCHANGED <<activeTransactionId, nextTransactionId, eventVars>>
  <2>1. answer' \in [code : AnswerCodes, value : Nat] /\ answer'.code \notin {"OK", UnknownOutcome}
    BY <1>4 DEF AnswerCodes, Failure, None, UnknownOutcome
  <2>2. FailedCall
    BY <1>4, <2>1 DEF FailedCall, statementVars, eventVars
  <2> QED
    BY <2>2, FailedEffect DEF FailedCall, StatementCall, Still
<1>5. CASE PrepareSql
  <2>1. CASE /\ CallSucceeds(nextStatementId)
             /\ statements' = statements \cup {nextStatementId}
             /\ nextStatementId' = nextStatementId + 1
             /\ UNCHANGED <<overlay, committed>>
             /\ UNCHANGED <<activeTransactionId, nextTransactionId, eventVars>>
    <3>1. nextStatementId \in Nat /\ statements' \subseteq Nat /\ nextStatementId' \in Nat \ {0}
      BY <2>1 DEF HostTypes
    <3> QED
      BY <1>2, <2>1, <3>1
  <2> QED
    BY <1>1, <1>3, <1>4, <1>5, <2>1 DEF PrepareSql
<1>6. ASSUME NEW id, ClosePrepared(id)
      PROVE  HostTypes' /\ HostInv' /\ StatementCall
  <2>1. CASE /\ CallSucceeds(None)
             /\ statements' = statements \ {id}
             /\ UNCHANGED <<overlay, committed, nextStatementId>>
             /\ UNCHANGED <<activeTransactionId, nextTransactionId, eventVars>>
    <3>1. None \in Nat /\ statements' \subseteq Nat /\ nextStatementId' \in Nat \ {0}
      BY <2>1 DEF HostTypes, None
    <3> QED
      BY <1>2, <2>1, <3>1
  <2> QED
    BY <1>1, <1>3, <1>6, <2>1 DEF ClosePrepared
<1> QED
  BY <1>5, <1>6

-----------------------------------------------------------------------------
(* Requests and their answers. *)

\* What a request is named by.
LEMMA AskedIs ==
    /\ \A w : w \in Asked <=> \E c \in Clients : \E n \in DOMAIN log[c] : w = <<c, n>>
    /\ \A w : w \in Asked' <=> \E c \in Clients : \E n \in DOMAIN log'[c] : w = <<c, n>>
  BY DEF Asked

\* SendPhase and AnswerPhase: what a client has in hand, and the token it goes by.
LEMMA PhaseTypes ==
    ASSUME NEW t \in TabStates, NEW method \in Methods, NEW code, NEW value \in Nat
    PROVE  /\ SendPhase(t, method) \in TabStates /\ SendPhase(t, method).tx = t.tx
           /\ AnswerPhase(t, method, code, value) \in TabStates
           /\ \/ AnswerPhase(t, method, code, value).tx \in {t.tx, None}
              \/ AnswerPhase(t, method, code, value).tx = value /\ code = "OK"
<1>1. /\ t.here \in BOOLEAN /\ t.tx \in Nat
      /\ t.phase \in {"idle", "beginning", "active", "ending", "failed"}
      /\ t.statement \in {"none", "preparing", "held", "closing"}
  BY DEF TabStates
<1>2. SendPhase(t, method) \in TabStates /\ SendPhase(t, method).tx = t.tx
  BY <1>1 DEF SendPhase, TabStates
<1>3. None \in Nat
  BY DEF None
<1>4. /\ AnswerPhase(t, method, code, value) \in TabStates
      /\ \/ AnswerPhase(t, method, code, value).tx \in {t.tx, None}
         \/ AnswerPhase(t, method, code, value).tx = value /\ code = "OK"
  <2>1. CASE method = "beginTransaction"
    BY <1>1, <1>3, <2>1 DEF AnswerPhase, TabStates
  <2>2. CASE method = "commitTransaction"
    BY <1>1, <1>3, <2>2 DEF AnswerPhase, TabStates
  <2>3. CASE method = "rollbackTransaction"
    BY <1>1, <1>3, <2>3 DEF AnswerPhase, TabStates
  <2>4. CASE method = "prepareSql"
    BY <1>1, <1>3, <2>4 DEF AnswerPhase, TabStates
  <2>5. CASE method = "closePrepared"
    BY <1>1, <1>3, <2>5 DEF AnswerPhase, TabStates
  <2>6. CASE method \notin {"beginTransaction", "commitTransaction", "rollbackTransaction",
                            "prepareSql", "closePrepared"}
    BY <1>1, <2>6 DEF AnswerPhase
  <2> QED
    BY <2>1, <2>2, <2>3, <2>4, <2>5, <2>6
<1> QED
  BY <1>2, <1>4

\* The entry of request `w` after the step.
After(w) == log'[w[1]][w[2]]

\* Request `m` is the next that its client sends, and it is logged with `outcome`.
Joins(m, outcome) ==
    /\ log' \in [Clients -> Seq(Entries)]
    /\ tab' \in [Clients -> TabStates]
    /\ \A c \in Clients : tab'[c].tx \in {tab[c].tx, None}
    /\ IdOf(m) \notin Asked
    /\ Asked' = Asked \cup {IdOf(m)}
    /\ \A w \in Asked : After(w) = Entry(w)
    /\ After(IdOf(m)) = [method |-> m.method, tx |-> m.tx, outcome |-> outcome]
    /\ \A w \in Asked : w[1] = m.client => w[2] < m.n
    /\ \A c \in Clients : Len(log'[c]) = IF c = m.client THEN m.n ELSE Len(log[c])

\* Record: the log of one client grows by one request.
LEMMA RecordEffect ==
    ASSUME ClientTypes, NEW m \in Messages, m.n = Len(log[m.client]) + 1,
           NEW outcome \in Outcomes, Record(m, outcome)
    PROVE  Joins(m, outcome)
<1> DEFINE c == m.client
           e == [method |-> m.method, tx |-> m.tx, outcome |-> outcome]
           x == IF outcome = "waiting" \/ ~tab[c].here
                THEN SendPhase(tab[c], m.method)
                ELSE AnswerPhase(SendPhase(tab[c], m.method), m.method, outcome, None)
<1>1. c \in Clients /\ m.method \in Methods /\ m.tx \in Nat /\ m.n \in Nat
  BY DEF Messages
<1>2. tab \in [Clients -> TabStates] /\ log \in [Clients -> Seq(Entries)]
  BY DEF ClientTypes
<1>3. log' = [log EXCEPT ![c] = Append(log[c], e)] /\ tab' = [tab EXCEPT ![c] = x]
  BY DEF Record
<1>4. x \in TabStates /\ x.tx \in {tab[c].tx, None}
  <2>1. tab[c] \in TabStates /\ None \in Nat
    BY <1>1, <1>2 DEF None
  <2>2. SendPhase(tab[c], m.method) \in TabStates /\ SendPhase(tab[c], m.method).tx = tab[c].tx
    BY <1>1, <2>1, PhaseTypes
  <2>3. /\ AnswerPhase(SendPhase(tab[c], m.method), m.method, outcome, None) \in TabStates
        /\ AnswerPhase(SendPhase(tab[c], m.method), m.method, outcome, None).tx
             \in {SendPhase(tab[c], m.method).tx, None}
    BY <1>1, <2>1, <2>2, PhaseTypes
  <2> QED
    BY <2>2, <2>3
<1>5. e \in Entries
  BY <1>1 DEF Entries
<1> HIDE DEF e, x
<1>6. tab' \in [Clients -> TabStates] /\ \A d \in Clients : tab'[d].tx \in {tab[d].tx, None}
  BY <1>1, <1>2, <1>3, <1>4
<1>7. /\ log' \in [Clients -> Seq(Entries)]
      /\ \A d \in Clients : d # c => log'[d] = log[d]
      /\ log'[c] = Append(log[c], e)
  BY <1>1, <1>2, <1>3, <1>5
<1>8. /\ DOMAIN log'[c] = DOMAIN log[c] \cup {m.n} /\ m.n \notin DOMAIN log[c]
      /\ log'[c][m.n] = e /\ Len(log'[c]) = m.n
      /\ \A n \in DOMAIN log[c] : log'[c][n] = log[c][n] /\ n < m.n
  BY <1>1, <1>2, <1>5, <1>7
<1>9. IdOf(m) \notin Asked /\ Asked' = Asked \cup {IdOf(m)}
  <2>1. IdOf(m) = <<c, m.n>>
    BY DEF IdOf
  <2>2. IdOf(m) \notin Asked
    BY <1>8, <2>1, AskedIs
  <2>3. ASSUME NEW w
        PROVE  w \in Asked' <=> w \in Asked \cup {IdOf(m)}
    BY <1>1, <1>7, <1>8, <2>1, AskedIs
  <2> QED
    BY <2>2, <2>3
<1>10. \A w \in Asked : After(w) = Entry(w) /\ (w[1] = c => w[2] < m.n)
  BY <1>7, <1>8, AskedIs DEF Entry, After
<1>11. After(IdOf(m)) = e
  BY <1>8 DEF Entry, After, IdOf
<1>12. \A d \in Clients : Len(log'[d]) = IF d = c THEN m.n ELSE Len(log[d])
  BY <1>7, <1>8
<1> QED
  BY <1>6, <1>7, <1>9, <1>10, <1>11, <1>12 DEF Joins, e

\* Request `w` is answered with `code`.
Settles(w, code, value) ==
    /\ log' \in [Clients -> Seq(Entries)]
    /\ tab' \in [Clients -> TabStates]
    /\ \A c \in Clients : tab'[c].tx \in {tab[c].tx, None} \/ (tab'[c].tx = value /\ code = "OK")
    /\ Asked' = Asked
    /\ \A v \in Asked : v # w => After(v) = Entry(v)
    /\ Entry(w).method = After(w).method /\ Entry(w).tx = After(w).tx
    /\ After(w).outcome = code
    /\ \A c \in Clients : Len(log'[c]) = Len(log[c])

\* Reply: the outcome of one request, and what its client makes of it.
LEMMA ReplyEffect ==
    ASSUME ClientTypes, NEW m \in Messages, IdOf(m) \in Asked,
           NEW code \in Outcomes, NEW value \in Nat, Reply(m, code, value)
    PROVE  Settles(IdOf(m), code, value)
<1> DEFINE c == m.client
           e == [log[c][m.n] EXCEPT !.outcome = code]
           s == [log[c] EXCEPT ![m.n] = e]
           x == AnswerPhase(tab[c], m.method, code, value)
<1>1. c \in Clients /\ m.method \in Methods
  BY DEF Messages
<1>2. tab \in [Clients -> TabStates] /\ log \in [Clients -> Seq(Entries)]
  BY DEF ClientTypes
<1>3. m.n \in DOMAIN log[c]
  BY AskedIs DEF IdOf
<1>4. log' = [log EXCEPT ![c] = s]
  BY <1>1, <1>2, <1>3 DEF Reply
<1>5. tab' = [tab EXCEPT ![c] = x] \/ tab' = tab
  BY DEF Reply
<1>6. x \in TabStates /\ (x.tx \in {tab[c].tx, None} \/ (x.tx = value /\ code = "OK"))
  BY <1>1, <1>2, PhaseTypes
<1>7. /\ e \in Entries /\ e.method = log[c][m.n].method /\ e.tx = log[c][m.n].tx
      /\ e.outcome = code
  <2>1. log[c][m.n] \in Entries
    BY <1>1, <1>2, <1>3
  <2> QED
    BY <2>1 DEF Entries
<1>8. /\ s \in Seq(Entries) /\ DOMAIN s = DOMAIN log[c] /\ Len(s) = Len(log[c])
      /\ s[m.n] = e /\ \A n \in DOMAIN log[c] : n # m.n => s[n] = log[c][n]
  <2>1. log[c] \in Seq(Entries)
    BY <1>1, <1>2
  <2> HIDE DEF e
  <2> QED
    BY <1>3, <1>7, <2>1
<1> HIDE DEF e, s, x
<1>9. /\ tab' \in [Clients -> TabStates]
      /\ \A d \in Clients : tab'[d].tx \in {tab[d].tx, None} \/ (tab'[d].tx = value /\ code = "OK")
  BY <1>1, <1>2, <1>5, <1>6
<1>10. /\ log' \in [Clients -> Seq(Entries)]
       /\ \A d \in Clients : d # c => log'[d] = log[d]
       /\ log'[c] = s
  BY <1>1, <1>2, <1>4, <1>8
<1>11. \A d \in Clients : DOMAIN log'[d] = DOMAIN log[d] /\ Len(log'[d]) = Len(log[d])
  BY <1>8, <1>10
<1>12. Asked' = Asked
  <2>1. ASSUME NEW w
        PROVE  w \in Asked' <=> w \in Asked
    BY <1>11, AskedIs
  <2> QED
    BY <2>1
<1>13. ASSUME NEW v \in Asked, v # IdOf(m)
       PROVE  After(v) = Entry(v)
  <2>1. PICK d \in Clients : \E n \in DOMAIN log[d] : v = <<d, n>>
    BY AskedIs
  <2>2. PICK n \in DOMAIN log[d] : v = <<d, n>>
    BY <2>1
  <2>3. d # c \/ n # m.n
    BY <1>13, <2>2 DEF IdOf
  <2>4. log'[d][n] = log[d][n]
    BY <1>8, <1>10, <2>3
  <2> QED
    BY <2>2, <2>4 DEF Entry, After
<1>14. After(IdOf(m)) = e /\ Entry(IdOf(m)) = log[c][m.n]
  BY <1>8, <1>10 DEF Entry, After, IdOf
<1> QED
  BY <1>7, <1>9, <1>10, <1>11, <1>12, <1>13, <1>14 DEF Settles

-----------------------------------------------------------------------------
(* The kinds of step. *)

\* A call of the host for request `m`, after which the pump is at `at`.
CallFor(m, at) ==
    \/ at \in {"preparing", "restoring"} /\ m.method \in Managing /\ StatementCall
    \/ at = "rebinding" /\ m.method = "executePrepared" /\ StatementCall /\ MayUse(m)
    \/ at = "returning" /\ m.method = "closePrepared" /\ StatementCall
    \/ /\ at = "returning" /\ m.method \in Statements \cup {"setSchema"}
       /\ WriteCall(IdOf(m), m.tx) /\ MayUse(m)
    \/ at = "returning" /\ m.method = "commitTransaction" /\ CommitCall(m.tx) /\ MayUse(m)
    \/ at = "returning" /\ m.method = "rollbackTransaction" /\ RollbackCall(m.tx) /\ MayUse(m)
    \/ /\ at = "closing" /\ m.method \in Managing
       /\ InTransaction /\ RollbackCall(transaction.token)
    \/ at = "beginning" /\ m.method \in Managing /\ BeginCall

\* No request of the same client waits before the one at `i`, unless it may overtake.
Earliest(i) ==
    queue[i].method \notin {"close", "init"} =>
        \A j \in DOMAIN queue : j < i => queue[j].client # queue[i].client

Passing ==
    /\ UNCHANGED <<log, queue, closed>>
    /\ tab' \in [Clients -> TabStates]
    /\ \A c \in Clients : tab'[c].tx = tab[c].tx
    /\ closed => UNCHANGED <<job, watched>>
    /\ \/ UNCHANGED <<job, answer>>
       \/ job.at \notin Awaiting /\ job'.at \notin Awaiting
    /\ Still \/ (~closed /\ job.at \notin Awaiting /\ RollbackCall(transaction.token))
    /\ UNCHANGED transaction \/ (job.at \notin Awaiting /\ overlay'.staged = {})
Shutting ==
    ~closed /\ UNCHANGED <<log, tab>> /\ Close /\ Still /\ UNCHANGED answer
Refusing(m, code) ==
    /\ ~closed /\ Joins(m, code) /\ code \in Refusals
    /\ UNCHANGED <<hostVars, queue, closed, transaction>>
    /\ job' = job \/ job' = Woken
Queueing(m) ==
    /\ ~closed /\ Joins(m, "waiting")
    /\ queue' = Append(queue, m)
    /\ job' = Woken
    /\ UNCHANGED <<hostVars, closed, transaction>>
Serving(m) ==
    /\ ~closed /\ Joins(m, answer'.code)
    /\ NothingWaits
    /\ m.method \in Statements /\ WriteCall(IdOf(m), m.tx) /\ MayUse(m)
    /\ UNCHANGED <<queue, closed, job>> \/ Close
    /\ UNCHANGED transaction
Answering(i, code) ==
    /\ ~closed /\ job.at = "scan" /\ Earliest(i)
    /\ queue' = Dequeued(i)
    /\ Settles(IdOf(queue[i]), code, None)
    /\ job' = Scan({})
    /\ UNCHANGED <<hostVars, closed, transaction>>
    /\ \/ code \in Refusals
       \/ code = "OK" /\ queue[i].method \in {"init", "close", "closePrepared"}
Taking(i, at) ==
    /\ ~closed /\ job.at = "scan" /\ Earliest(i) /\ queue[i].method # "init"
    /\ queue' = Dequeued(i)
    /\ at \in Awaiting \ {"unwinding"}
    /\ job' = [Idle EXCEPT !.at = at, !.message = queue[i]]
    /\ CallFor(queue[i], at)
    /\ UNCHANGED <<log, tab, closed, transaction>>
Continuing(at) ==
    /\ ~closed /\ job.at \in Awaiting
    /\ UNCHANGED <<log, tab, queue, closed, transaction>>
    /\ \/ /\ job.at \in {"restoring", "rebinding"} /\ at \in {"beginning", "returning"}
          /\ job' = [job EXCEPT !.at = at]
          /\ CallFor(job.message, at)
       \/ /\ job.at = "returning" /\ at = "unwinding"
          /\ job.message.method = "commitTransaction" /\ answer.code # "OK"
          /\ job' = [job EXCEPT !.at = at, !.error = answer.code]
          /\ RollbackCall(transaction.token)
\* The answer that the pump takes up ends the transaction.
Ends ==
    \/ job.at = "unwinding"
    \/ /\ answer.code = "OK"
       /\ job.at = "closing" \/ (job.at = "returning" /\ job.message.method \in TransactionEnds)
Finishing(code, value) ==
    /\ ~closed /\ job.at \in Awaiting
    /\ Settles(IdOf(job.message), code, value)
    /\ code = IF job.at = "unwinding" THEN job.error ELSE answer.code
    /\ job.at \in {"restoring", "rebinding"} => code # "OK"
    /\ job.at = "returning" /\ job.message.method = "commitTransaction" => code = "OK"
    /\ value \in Nat /\ (value = None \/ (job.at = "beginning" /\ value = answer.value))
    /\ UNCHANGED hostVars
    /\ Close \/ (job' = Scan({}) /\ UNCHANGED <<queue, closed>>)
    /\ transaction' =
         IF Ends THEN NoTransaction
         ELSE IF job.at = "beginning" /\ answer.code = "OK"
              THEN [client |-> job.message.client, token |-> answer.value]
              ELSE transaction

\* A step for some request.
Dealing ==
    \/ \E m \in Messages :
         /\ m.n <= MaxRequests[m.client] /\ m.tx < nextTransactionId
         /\ m.method = "setSchema" => m.tx = None
         /\ (\E code \in Outcomes : Refusing(m, code)) \/ Queueing(m) \/ Serving(m)
    \/ \E i \in DOMAIN queue : \/ \E code \in Outcomes : Answering(i, code)
                               \/ \E at \in Awaiting : Taking(i, at)
    \/ \E at \in Awaiting : Continuing(at)
    \/ \E code \in Outcomes, value \in Nat : Finishing(code, value)
\* A step for none.
Aside ==
    \/ \E c \in Clients : Depart(c) \/ LockGranted(c) \/ SkipAbandoned(c) \/ Forget(c)
    \/ OwnerLeaves \/ ForgetRolledBack \/ DropStatement \/ DropConnection \/ PumpRests
    \/ Announce
Kinds == Passing \/ Shutting \/ Dealing

\* A step of the broker leaves the host well.
KindOK == Kinds /\ HostTypes' /\ HostInv'
DealingOK == Dealing /\ HostTypes' /\ HostInv'

\* The host is not called.
LEMMA HostStays ==
    ASSUME HostTypes, HostInv, UNCHANGED hostVars
    PROVE  HostTypes' /\ HostInv' /\ Still
  BY DEF HostTypes, HostInv, Still, hostVars

\* Forward: the host's request for `m`.
LEMMA ForwardEffect ==
    ASSUME HostTypes, HostInv, NEW m \in Messages, NEW id,
           m.method \in Statements \cup TransactionEnds \cup {"setSchema"},
           m.method = "setSchema" => m.tx = None,
           Forward(m, id), MayUse(m)
    PROVE  HostTypes' /\ HostInv' /\ CallFor(m, "returning")
<1>1. IdOf(m) \in Requests /\ IdOf(m) = <<m.client, m.n>>
  BY DEF Messages, Requests, IdOf
<1>2. CASE m.method \in {"execute", "executeDirect"}
  <2>1. Execute(IdOf(m), m.tx)
    BY <1>1, <1>2 DEF Forward
  <2> QED
    BY <1>1, <1>2, <2>1, ExecuteEffect DEF CallFor, Statements
<1>3. CASE m.method = "executePrepared"
  <2>1. ExecutePrepared(IdOf(m), id, m.tx)
    BY <1>1, <1>3 DEF Forward
  <2> QED
    BY <1>1, <1>3, <2>1, ExecutePreparedEffect DEF CallFor, Statements
<1>4. CASE m.method = "setSchema"
  <2>1. SetSchema(IdOf(m))
    BY <1>1, <1>4 DEF Forward
  <2> QED
    BY <1>1, <1>4, <2>1, SetSchemaEffect DEF CallFor
<1>5. CASE m.method = "commitTransaction"
  <2>1. CommitTransaction(m.tx)
    BY <1>5 DEF Forward
  <2> QED
    BY <1>5, <2>1, CommitEffect DEF CallFor
<1>6. CASE m.method = "rollbackTransaction"
  <2>1. RollbackTransaction(m.tx)
    BY <1>6 DEF Forward
  <2> QED
    BY <1>6, <2>1, RollbackEffect DEF CallFor
<1> QED
  BY <1>2, <1>3, <1>4, <1>5, <1>6 DEF Statements, TransactionEnds

\* Message: what a coordinator makes of a request.
LEMMA MessageType ==
    ASSUME TypeOK, NEW c \in Clients, NEW method \in Methods
    PROVE  /\ Message(c, method) \in Messages
           /\ Message(c, method).client = c /\ Message(c, method).method = method
           /\ Message(c, method).n = Len(log[c]) + 1
           /\ Message(c, method).tx \in {tab[c].tx, None}
           /\ method = "setSchema" => Message(c, method).tx = None
<1>1. tab[c].tx \in Nat /\ None \in Nat /\ Len(log[c]) \in Nat
  BY DEF TypeOK, ClientTypes, TabStates, None
<1> QED
  BY <1>1 DEF Message, Messages, Sent, Statements, TransactionEnds

\* A transaction has a token.
LEMMA TokenType ==
    ASSUME TypeOK
    PROVE  /\ transaction.token \in Nat
           /\ transaction.token = None <=> ~InTransaction
           /\ InTransaction => transaction.client \in Clients
  BY DEF TypeOK, BrokerTypes, NoTransaction, None, InTransaction

\* Receive: a request is refused, or waits, or is served at once.
LEMMA ReceiveKind ==
    ASSUME IInv, NEW c \in Clients, NEW method \in Offered, Receive(c, method)
    PROVE  DealingOK
<1> DEFINE m == Message(c, method)
<1>1. TypeOK /\ HostTypes /\ HostInv /\ ClientTypes
  BY DEF IInv, TypeOK
<1>2. method \in Methods
  BY <1>1, BrokerAssumption DEF Offered, TypeOK
<1>3. m \in Messages /\ m.n = Len(log[m.client]) + 1 /\ m.n <= MaxRequests[m.client]
      /\ m.tx < nextTransactionId /\ (m.method = "setSchema" => m.tx = None)
  <2>1. Len(log[c]) < MaxRequests[c] /\ MaxRequests[c] \in Nat /\ Len(log[c]) \in Nat
    BY <1>1, BrokerAssumption DEF Receive, MaySend, Sent, MaxRequests, TypeOK, ClientTypes
  <2>2. tab[c].tx < nextTransactionId /\ None < nextTransactionId
    BY <1>1 DEF IInv, IssuedInv, HostTypes, None
  <2> QED
    BY <1>1, <1>2, <2>1, <2>2, MessageType
<1> HIDE DEF m
<1>4. ASSUME NEW code \in Outcomes, Record(m, code)
      PROVE  Joins(m, code)
  BY <1>1, <1>3, <1>4, RecordEffect
<1>5. ~closed /\ UNCHANGED transaction
  BY DEF Receive
<1>6. ASSUME NEW code \in Refusals, Refuse(m, code), job' = job \/ job' = Woken
      PROVE  DealingOK
  <2>1. code \in Outcomes /\ Record(m, code) /\ UNCHANGED <<hostVars, queue, closed>>
    BY <1>6 DEF Refuse, Outcomes
  <2>2. Refusing(m, code)
    BY <1>4, <1>5, <1>6, <2>1 DEF Refusing
  <2> QED
    BY <1>1, <1>3, <2>1, <2>2, HostStays DEF DealingOK, Dealing
<1>7. ASSUME queue' = Append(queue, m), job' = Woken, Record(m, "waiting"),
             UNCHANGED <<hostVars, closed>>
      PROVE  DealingOK
  <2>1. Queueing(m)
    BY <1>4, <1>5, <1>7 DEF Queueing, Outcomes
  <2> QED
    BY <1>1, <1>3, <1>7, <2>1, HostStays DEF DealingOK, Dealing
<1>8. ASSUME ServeNow(m), UNCHANGED <<queue, closed, job>> \/ Close
      PROVE  DealingOK
  <2>1. Immediate(m) /\ Forward(m, prepared[m.client]) /\ Record(m, answer'.code)
    BY <1>8 DEF ServeNow
  <2>2. NothingWaits /\ m.method \in Statements
    BY <2>1 DEF Immediate
  <2>3. MayUse(m)
    BY <1>1, <2>1, TokenType DEF Immediate, MayUse
  <2>4. HostTypes' /\ HostInv' /\ CallFor(m, "returning")
    BY <1>1, <1>3, <2>1, <2>2, <2>3, ForwardEffect DEF Statements
  <2>5. WriteCall(IdOf(m), m.tx)
    BY <2>2, <2>4 DEF CallFor, Statements
  <2>6. answer'.code \in Outcomes
    BY <2>4 DEF HostTypes, Outcomes
  <2>7. Serving(m)
    BY <1>4, <1>5, <1>8, <2>1, <2>2, <2>3, <2>5, <2>6 DEF Serving
  <2> QED
    BY <1>3, <2>4, <2>7 DEF DealingOK, Dealing
<1>9. \/ Refuse(m, "RESOURCE_LIMIT") /\ UNCHANGED job
      \/ Refuse(m, "DATABASE_VERSION_MISMATCH") /\ job' = Woken
      \/ queue' = Append(queue, m) /\ job' = Woken /\ Record(m, "waiting")
           /\ UNCHANGED <<hostVars, closed>>
      \/ ServeNow(m) /\ (UNCHANGED <<queue, closed, job>> \/ Close)
  BY DEF Receive, m
<1>10. "RESOURCE_LIMIT" \in Refusals /\ "DATABASE_VERSION_MISMATCH" \in Refusals
  BY DEF Refusals
<1> QED
  BY <1>6, <1>7, <1>8, <1>9, <1>10

\* What a pump that answers nobody does, and what others do meanwhile.
LEMMA PassingKind ==
    ASSUME IInv, Aside
    PROVE  KindOK
<1>1. TypeOK /\ HostTypes /\ HostInv /\ tab \in [Clients -> TabStates]
  BY DEF IInv, TypeOK, ClientTypes
<1>2. closed => job = Idle /\ watched = {}
  BY DEF IInv, QueueInv
<1>3. job \in Jobs
  BY <1>1 DEF TypeOK, BrokerTypes, TypedJob
<1>4. ASSUME NEW c \in Clients, Depart(c)
      PROVE  KindOK
  <2>1. /\ tab' = [tab EXCEPT ![c].here = FALSE]
        /\ UNCHANGED <<hostVars, log, queue, closed, job, answer, transaction, watched>>
    BY <1>4 DEF Depart, brokerVars, hostVars
  <2>2. tab' \in [Clients -> TabStates] /\ \A d \in Clients : tab'[d].tx = tab[d].tx
    BY <1>1, <2>1 DEF TabStates
  <2>3. HostTypes' /\ HostInv' /\ Still
    BY <1>1, <2>1, HostStays
  <2> QED
    BY <2>1, <2>2, <2>3 DEF KindOK, Kinds, Passing
<1>5. ASSUME NEW c \in Clients, LockGranted(c)
      PROVE  KindOK
  <2>1. /\ UNCHANGED <<hostVars, log, queue, closed, tab, answer, transaction>> /\ job' = Woken
        /\ c \in watched
    BY <1>5 DEF LockGranted, hostVars
  <2>2. ~closed
    BY <1>2, <2>1
  <2>3. UNCHANGED job \/ (job.at \notin Awaiting /\ job'.at \notin Awaiting)
    BY <2>1 DEF Woken, Scan, Idle, Awaiting
  <2>4. HostTypes' /\ HostInv' /\ Still
    BY <1>1, <2>1, HostStays
  <2> QED
    BY <1>1, <2>1, <2>2, <2>3, <2>4 DEF KindOK, Kinds, Passing
<1>6. ASSUME Announce
      PROVE  KindOK
  <2>1. /\ UNCHANGED <<log, queue, closed, tab, job, transaction, watched>>
        /\ announced' = announced \cup pendingTables /\ pendingTables' = {}
        /\ UNCHANGED <<activeTransactionId, nextTransactionId, overlay, engine, committed,
                       statements, nextStatementId, answer>>
    BY <1>6 DEF Announce, PostInvalidation, brokerVars, transactionVars, statementVars
  <2>2. HostTypes' /\ HostInv'
    BY <1>1, <2>1 DEF HostTypes, HostInv
  <2> QED
    BY <1>1, <2>1, <2>2 DEF KindOK, Kinds, Passing, Still
<1>7. ASSUME \/ \E c \in Clients : SkipAbandoned(c)
             \/ PumpRests \/ DropConnection
      PROVE  KindOK
  <2>1. /\ UNCHANGED <<hostVars, log, queue, closed, tab, transaction>>
        /\ job.at \in {"scan", "dropped", "dropping"}
        /\ job' = Idle \/ \E seen : job' = Scan(seen)
    BY <1>7 DEF SkipAbandoned, PumpRests, DropConnection
  <2>2. job.at \notin Awaiting /\ job'.at \notin Awaiting
    <3>1. \A seen : Scan(seen).at = "scan"
      BY DEF Scan, Idle
    <3>2. Idle.at = "idle"
      BY DEF Idle
    <3>3. job'.at \in {"idle", "scan"}
      BY <2>1, <3>1, <3>2
    <3> QED
      BY <2>1, <3>3 DEF Awaiting
  <2>3. ~closed
    BY <1>2, <2>1 DEF Idle
  <2>4. HostTypes' /\ HostInv' /\ Still
    BY <1>1, <2>1, HostStays
  <2> QED
    BY <1>1, <2>1, <2>2, <2>3, <2>4 DEF KindOK, Kinds, Passing
<1>8. ASSUME NEW c \in Clients, Forget(c)
      PROVE  KindOK
  <2>1. /\ UNCHANGED <<log, queue, closed, tab, transaction>>
        /\ job.at = "scan"
        /\ \/ /\ RollbackTransaction(transaction.token)
              /\ job' = [job EXCEPT !.at = "forgetting", !.client = c]
           \/ /\ job' = [job EXCEPT !.at = "dropping", !.client = c]
              /\ UNCHANGED hostVars
    BY <1>8 DEF Forget
  <2>2. job.at \notin Awaiting /\ job'.at \notin Awaiting
    BY <1>3, <2>1 DEF Jobs, Awaiting
  <2>3. ~closed
    BY <1>2, <2>1 DEF Idle
  <2>4. HostTypes' /\ HostInv' /\ (Still \/ RollbackCall(transaction.token))
    BY <1>1, <2>1, HostStays, RollbackEffect
  <2> QED
    BY <1>1, <2>1, <2>2, <2>3, <2>4 DEF KindOK, Kinds, Passing
<1>9. ASSUME DropStatement
      PROVE  KindOK
  <2>1. /\ UNCHANGED <<log, queue, closed, tab, transaction>>
        /\ job.at = "dropping" /\ job' = [job EXCEPT !.at = "dropped"]
        /\ \E id : ClosePrepared(id)
    BY <1>9 DEF DropStatement
  <2>2. job.at \notin Awaiting /\ job'.at \notin Awaiting
    BY <1>3, <2>1 DEF Jobs, Awaiting
  <2>3. ~closed
    BY <1>2, <2>1 DEF Idle
  <2>4. HostTypes' /\ HostInv' /\ Still
    BY <1>1, <2>1, StatementEffect DEF StatementCall
  <2> QED
    BY <1>1, <2>1, <2>2, <2>3, <2>4 DEF KindOK, Kinds, Passing
<1>10. ASSUME ~closed, Close, UNCHANGED <<hostVars, tab, log>>
       PROVE  KindOK
  <2>1. HostTypes' /\ HostInv' /\ Still /\ UNCHANGED answer
    BY <1>1, <1>10, HostStays DEF hostVars
  <2> QED
    BY <1>10, <2>1 DEF KindOK, Kinds, Shutting
<1>11. ASSUME OwnerLeaves
       PROVE  KindOK
  BY <1>10, <1>11 DEF OwnerLeaves
<1>12. ASSUME ForgetRolledBack
       PROVE  KindOK
  <2>1. /\ UNCHANGED <<hostVars, tab, log>> /\ job.at = "forgetting"
        /\ \/ Close
           \/ job' = [job EXCEPT !.at = "dropping"] /\ UNCHANGED <<queue, closed>>
    BY <1>12 DEF ForgetRolledBack
  <2>2. ~closed
    BY <1>2, <2>1 DEF Idle
  <2>3. CASE Close
    BY <1>10, <2>1, <2>2, <2>3
  <2>4. CASE job' = [job EXCEPT !.at = "dropping"] /\ UNCHANGED <<queue, closed>>
    <3>1. job.at \notin Awaiting /\ job'.at \notin Awaiting
      BY <1>3, <2>1, <2>4 DEF Jobs, Awaiting
    <3>2. HostTypes' /\ HostInv' /\ Still
      BY <1>1, <2>1, HostStays
    <3>3. overlay'.staged = {}
      <4>1. engine = "open" => activeTransactionId = None
        BY <2>1, <2>2 DEF IInv, TokenInv
      <4>2. ~overlay.open
        BY <1>1, <4>1 DEF HostTypes, HostInv
      <4> QED
        BY <1>1, <3>2, <4>2 DEF HostInv, Still
    <3> QED
      BY <1>1, <2>1, <2>2, <2>4, <3>1, <3>2, <3>3 DEF KindOK, Kinds, Passing
  <2> QED
    BY <2>1, <2>3, <2>4
<1> QED
  BY <1>4, <1>5, <1>6, <1>7, <1>8, <1>9, <1>11, <1>12 DEF Aside

\* The queue without its i-th request: the others, in the order they had.
LEMMA DequeueKeeps ==
    ASSUME NEW q \in Seq(Messages), NEW i \in DOMAIN q
    PROVE  /\ RemoveAt(q, i) \in Seq(Messages)
           /\ Len(RemoveAt(q, i)) = Len(q) - 1
           /\ \A k \in DOMAIN RemoveAt(q, i) :
                RemoveAt(q, i)[k] = q[IF k < i THEN k ELSE k + 1]
<1>1. i \in 1 .. Len(q) /\ Len(q) \in Nat
  OBVIOUS
<1> DEFINE a == SubSeq(q, 1, i - 1)
           b == SubSeq(q, i + 1, Len(q))
<1>2. /\ a \in Seq(Messages) /\ Len(a) = i - 1
      /\ \A k \in 1 .. i - 1 : a[k] = q[k]
  BY <1>1
<1>3. /\ b \in Seq(Messages) /\ Len(b) = Len(q) - i
      /\ \A k \in 1 .. Len(q) - i : b[k] = q[i + k]
  BY <1>1
<1>4. RemoveAt(q, i) = a \o b
  BY DEF RemoveAt
<1> HIDE DEF a, b
<1>5. a \o b \in Seq(Messages) /\ Len(a \o b) = Len(q) - 1
  BY <1>1, <1>2, <1>3
<1>6. ASSUME NEW k \in 1 .. Len(q) - 1
      PROVE  (a \o b)[k] = q[IF k < i THEN k ELSE k + 1]
  <2>1. k \in 1 .. Len(a) + Len(b)
    BY <1>1, <1>2, <1>3
  <2>2. (a \o b)[k] = IF k <= Len(a) THEN a[k] ELSE b[k - Len(a)]
    BY <1>2, <1>3, <2>1
  <2>3. CASE k < i
    BY <1>1, <1>2, <2>2, <2>3
  <2>4. CASE ~(k < i)
    <3>1. k - Len(a) \in 1 .. Len(q) - i /\ i + (k - Len(a)) = k + 1 /\ ~(k <= Len(a))
      BY <1>1, <1>2, <2>4
    <3> QED
      BY <1>3, <2>2, <2>4, <3>1
  <2> QED
    BY <2>3, <2>4
<1>7. DOMAIN (a \o b) = 1 .. Len(q) - 1
  BY <1>5
<1> QED
  BY <1>4, <1>5, <1>6, <1>7

\* Taken: the pump takes the first request that may run, and the requests of one client
\* may all run or all not, its init and its close apart.
LEMMA TakenEffect ==
    ASSUME IInv, NEW i \in DOMAIN queue, Taken(i)
    PROVE  /\ ~closed /\ job.at = "scan" /\ Earliest(i)
           /\ queue' = Dequeued(i) /\ UNCHANGED <<closed, transaction>>
           /\ queue[i] \in Messages /\ IdOf(queue[i]) \in Asked
           /\ queue[i].method = "setSchema" => queue[i].tx = None
<1>1. job.at = "scan" /\ queue' = Dequeued(i) /\ UNCHANGED <<closed, transaction>>
  BY DEF Taken
<1>2. ~closed
  BY <1>1 DEF IInv, QueueInv, Idle
<1>3. queue \in Seq(Messages) /\ queue[i] \in Messages /\ Waits(queue[i])
  BY DEF IInv, TypeOK, BrokerTypes, QueueInv
<1>4. Earliest(i)
  <2>1. SUFFICES ASSUME queue[i].method \notin {"close", "init"},
                        NEW j \in DOMAIN queue, j < i, queue[j].client = queue[i].client
                 PROVE  FALSE
    BY DEF Earliest
  <2>2. Eligible(queue[i]) /\ \A k \in DOMAIN queue : Eligible(queue[k]) => i <= k
    BY DEF Taken, Ready
  <2>3. Eligible(queue[j])
    BY <2>1, <2>2 DEF Eligible
  <2>4. i \in Nat /\ j \in Nat
    BY <1>3
  <2> QED
    BY <2>1, <2>2, <2>3, <2>4
<1>5. queue[i].method = "setSchema" => queue[i].tx = None
  BY <1>3 DEF IInv, IssuedInv, Waits
<1> QED
  BY <1>1, <1>2, <1>3, <1>4, <1>5 DEF Waits

\* Handle and TakeOfAbandoned: the request is answered at once, or the host is called
\* for it.
LEMMA TakeKind ==
    ASSUME IInv, NEW i \in DOMAIN queue, TakeOfAbandoned(i) \/ Handle(i)
    PROVE  DealingOK
<1> DEFINE m == queue[i]
<1>1. HostTypes /\ HostInv /\ ClientTypes /\ TypeOK
  BY DEF IInv, TypeOK
<1>2. Taken(i)
  BY DEF TakeOfAbandoned, Handle
<1>3. /\ ~closed /\ job.at = "scan" /\ Earliest(i)
      /\ queue' = Dequeued(i) /\ UNCHANGED <<closed, transaction>>
      /\ m \in Messages /\ IdOf(m) \in Asked
      /\ m.method = "setSchema" => m.tx = None
  BY <1>2, TakenEffect
<1>4. ASSUME NEW code, Answered(m, code), UNCHANGED hostVars,
             \/ code \in Refusals
             \/ code = "OK" /\ m.method \in {"init", "close", "closePrepared"}
      PROVE  DealingOK
  <2>1. code \in Outcomes
    BY <1>4 DEF Outcomes, AnswerCodes
  <2>2. None \in Nat /\ Reply(m, code, None) /\ job' = Scan({})
    BY <1>4 DEF None, Answered
  <2>3. Settles(IdOf(m), code, None)
    BY <1>1, <1>3, <2>1, <2>2, ReplyEffect
  <2>4. Answering(i, code)
    BY <1>3, <1>4, <2>2, <2>3 DEF Answering
  <2> QED
    BY <1>1, <1>4, <2>1, <2>4, HostStays DEF DealingOK, Dealing
<1>5. ASSUME NEW at \in Awaiting \ {"unwinding"}, Awaits(m, at), CallFor(m, at),
             m.method # "init", HostTypes', HostInv'
      PROVE  DealingOK
  <2>1. Taking(i, at)
    BY <1>3, <1>5 DEF Taking, Awaits
  <2> QED
    BY <1>5, <2>1 DEF DealingOK, Dealing
<1>6. CASE TakeOfAbandoned(i)
  BY <1>4, <1>6 DEF TakeOfAbandoned, Refusals
<1>7. CASE HandleInit(m)
  BY <1>4, <1>7 DEF HandleInit
<1>8. CASE HandleClose(m)
  <2>1. m.method = "close"
    BY <1>8 DEF HandleClose
  <2>2. \/ InTransaction /\ RollbackTransaction(transaction.token) /\ Awaits(m, "closing")
        \/ Answered(m, "OK") /\ UNCHANGED hostVars
    BY <1>8 DEF HandleClose, OwnTransaction
  <2>3. CASE InTransaction /\ RollbackTransaction(transaction.token) /\ Awaits(m, "closing")
    <3>1. HostTypes' /\ HostInv' /\ CallFor(m, "closing")
      BY <1>1, <2>1, <2>3, RollbackEffect DEF CallFor, Managing
    <3> QED
      BY <1>5, <2>1, <2>3, <3>1 DEF Awaiting
  <2> QED
    BY <1>4, <2>1, <2>2, <2>3
<1>9. CASE HandlePrepareSql(m)
  <2>1. m.method = "prepareSql" /\ PrepareSql /\ Awaits(m, "preparing")
    BY <1>9 DEF HandlePrepareSql
  <2>2. HostTypes' /\ HostInv' /\ CallFor(m, "preparing")
    BY <1>1, <2>1, StatementEffect DEF CallFor, Managing
  <2> QED
    BY <1>5, <2>1, <2>2 DEF Awaiting
<1>10. CASE HandleClosePrepared(m)
  <2>1. /\ m.method = "closePrepared"
        /\ \/ ClosePrepared(prepared[m.client]) /\ Awaits(m, "returning")
           \/ Answered(m, "OK") /\ UNCHANGED hostVars
    BY <1>10 DEF HandleClosePrepared
  <2>2. CASE ClosePrepared(prepared[m.client]) /\ Awaits(m, "returning")
    <3>1. HostTypes' /\ HostInv' /\ CallFor(m, "returning")
      BY <1>1, <2>1, <2>2, StatementEffect DEF CallFor
    <3> QED
      BY <1>5, <2>1, <2>2, <3>1 DEF Awaiting
  <2> QED
    BY <1>4, <2>1, <2>2
<1>11. CASE HandleBegin(m)
  <2>1. /\ m.method = "beginTransaction"
        /\ \/ PrepareSql /\ Awaits(m, "restoring")
           \/ BeginTransaction /\ Awaits(m, "beginning")
    BY <1>11 DEF HandleBegin
  <2>2. CASE PrepareSql /\ Awaits(m, "restoring")
    <3>1. HostTypes' /\ HostInv' /\ CallFor(m, "restoring")
      BY <1>1, <2>1, <2>2, StatementEffect DEF CallFor, Managing
    <3> QED
      BY <1>5, <2>1, <2>2, <3>1 DEF Awaiting
  <2>3. CASE BeginTransaction /\ Awaits(m, "beginning")
    <3>1. HostTypes' /\ HostInv' /\ CallFor(m, "beginning")
      BY <1>1, <2>1, <2>3, BeginEffect DEF CallFor, Managing
    <3> QED
      BY <1>5, <2>1, <2>3, <3>1 DEF Awaiting
  <2> QED
    BY <2>1, <2>2, <2>3
<1>12. CASE HandleForward(m)
  <2>1. m.method \in Statements \cup TransactionEnds \cup {"setSchema"} /\ m.method # "init"
    BY <1>12 DEF HandleForward, Statements, TransactionEnds
  <2>2. \/ Answered(m, "TRANSACTION_LOST") /\ UNCHANGED hostVars
        \/ Answered(m, "PREPARED_STATEMENT_CLOSED") /\ UNCHANGED hostVars
        \/ /\ m.method = "executePrepared" /\ ~LostTransaction(m)
           /\ PrepareSql /\ Awaits(m, "rebinding")
        \/ ~LostTransaction(m) /\ Forward(m, prepared[m.client]) /\ Awaits(m, "returning")
    BY <1>12 DEF HandleForward
  <2>3. ~LostTransaction(m) => MayUse(m)
    BY DEF LostTransaction, MayUse
  <2>4. CASE \/ Answered(m, "TRANSACTION_LOST") /\ UNCHANGED hostVars
             \/ Answered(m, "PREPARED_STATEMENT_CLOSED") /\ UNCHANGED hostVars
    BY <1>4, <2>4 DEF Refusals
  <2>5. CASE /\ m.method = "executePrepared" /\ ~LostTransaction(m)
             /\ PrepareSql /\ Awaits(m, "rebinding")
    <3>1. HostTypes' /\ HostInv' /\ CallFor(m, "rebinding")
      BY <1>1, <2>3, <2>5, StatementEffect DEF CallFor
    <3> QED
      BY <1>5, <2>1, <2>5, <3>1 DEF Awaiting
  <2>6. CASE ~LostTransaction(m) /\ Forward(m, prepared[m.client]) /\ Awaits(m, "returning")
    <3>1. HostTypes' /\ HostInv' /\ CallFor(m, "returning")
      BY <1>1, <1>3, <2>1, <2>3, <2>6, ForwardEffect
    <3> QED
      BY <1>5, <2>1, <2>6, <3>1 DEF Awaiting
  <2> QED
    BY <2>2, <2>4, <2>5, <2>6
<1> QED
  BY <1>6, <1>7, <1>8, <1>9, <1>10, <1>11, <1>12 DEF Handle

\* The answer of the host is passed on, or the host is called again.
LEMMA AnswerKind ==
    ASSUME IInv,
           \/ AnswerToClose \/ AnswerToPrepare \/ AnswerToRestore \/ AnswerToRebind
           \/ AnswerToBegin \/ AnswerToForward \/ AnswerToUnwind
    PROVE  DealingOK
<1> DEFINE m == job.message
<1>1. HostTypes /\ HostInv /\ ClientTypes /\ TypeOK
  BY DEF IInv, TypeOK
<1>2. job.at \in Awaiting
  BY DEF AnswerToClose, AnswerToPrepare, AnswerToRestore, AnswerToRebind, AnswerToBegin,
         AnswerToForward, AnswerToUnwind, Awaiting
<1>3. ~closed
  <2>1. Idle.at \notin Awaiting
    BY DEF Idle, Awaiting
  <2> QED
    BY <1>2, <2>1 DEF IInv, QueueInv
<1>4. m \in Messages /\ IdOf(m) \in Asked
  BY <1>2 DEF IInv, TypeOK, BrokerTypes, TypedJob, QueueInv, Waits
<1>5. answer.code \in AnswerCodes /\ answer.value \in Nat /\ job.error \in AnswerCodes
      /\ None \in Nat /\ AnswerCodes \subseteq Outcomes
  BY <1>1 DEF HostTypes, TypeOK, BrokerTypes, TypedJob, Jobs, None, Outcomes
<1>6. ASSUME NEW code \in AnswerCodes, NEW value \in Nat, Finish(code, value),
             code = IF job.at = "unwinding" THEN job.error ELSE answer.code,
             job.at \in {"restoring", "rebinding"} => code # "OK",
             job.at = "returning" /\ m.method = "commitTransaction" => code = "OK",
             value = None \/ (job.at = "beginning" /\ value = answer.value),
             transaction' = IF Ends THEN NoTransaction
                            ELSE IF job.at = "beginning" /\ answer.code = "OK"
                                 THEN [client |-> m.client, token |-> answer.value]
                                 ELSE transaction
      PROVE  DealingOK
  <2>1. /\ Reply(m, code, value)
        /\ Close \/ (job' = Scan({}) /\ UNCHANGED <<queue, closed>>)
        /\ UNCHANGED hostVars
    BY <1>6 DEF Finish
  <2>2. Settles(IdOf(m), code, value)
    BY <1>1, <1>4, <1>5, <2>1, ReplyEffect
  <2>3. Finishing(code, value)
    BY <1>2, <1>3, <1>6, <2>1, <2>2 DEF Finishing
  <2>4. HostTypes' /\ HostInv'
    BY <1>1, <2>1, HostStays
  <2> QED
    BY <1>5, <2>3, <2>4 DEF DealingOK, Dealing
<1>7. CASE AnswerToClose \/ AnswerToPrepare
  <2>1. /\ job.at \in {"closing", "preparing"} /\ Finish(answer.code, None)
        /\ transaction' = IF Ends THEN NoTransaction ELSE transaction
    BY <1>7 DEF AnswerToClose, AnswerToPrepare, Ends
  <2> QED
    BY <1>5, <1>6, <2>1
<1>8. CASE AnswerToRestore
  <2>1. job.at = "restoring"
    BY <1>8 DEF AnswerToRestore
  <2>2. CASE answer.code # "OK"
    <3>1. Finish(answer.code, None) /\ UNCHANGED transaction /\ ~Ends
      BY <1>8, <2>1, <2>2 DEF AnswerToRestore, Ends
    <3> QED
      BY <1>5, <1>6, <2>1, <2>2, <3>1
  <2>3. CASE answer.code = "OK"
    <3>1. BeginTransaction /\ job' = [job EXCEPT !.at = "beginning"]
          /\ UNCHANGED <<log, tab, queue, closed, transaction>>
      BY <1>8, <2>3 DEF AnswerToRestore, Continues
    <3>2. m.method \in Managing
      BY <2>1 DEF IInv, QueueInv
    <3>3. HostTypes' /\ HostInv' /\ CallFor(m, "beginning")
      BY <1>1, <3>1, <3>2, BeginEffect DEF CallFor
    <3>4. Continuing("beginning")
      BY <1>2, <1>3, <2>1, <3>1, <3>3 DEF Continuing
    <3>5. "beginning" \in Awaiting
      BY DEF Awaiting
    <3> QED
      BY <3>3, <3>4, <3>5 DEF DealingOK, Dealing
  <2> QED
    BY <2>2, <2>3
<1>9. CASE AnswerToRebind
  <2>1. job.at = "rebinding"
    BY <1>9 DEF AnswerToRebind
  <2>2. CASE answer.code # "OK"
    <3>1. Finish(answer.code, None) /\ UNCHANGED transaction /\ ~Ends
      BY <1>9, <2>1, <2>2 DEF AnswerToRebind, Ends
    <3> QED
      BY <1>5, <1>6, <2>1, <2>2, <3>1
  <2>3. CASE answer.code = "OK"
    <3>1. Forward(m, answer.value) /\ job' = [job EXCEPT !.at = "returning"]
          /\ UNCHANGED <<log, tab, queue, closed, transaction>>
      BY <1>9, <2>3 DEF AnswerToRebind, Continues
    <3>2. m.method = "executePrepared" /\ MayUse(m)
      BY <2>1 DEF IInv, QueueInv
    <3>3. HostTypes' /\ HostInv' /\ CallFor(m, "returning")
      BY <1>1, <1>4, <3>1, <3>2, ForwardEffect DEF Statements
    <3>4. Continuing("returning")
      BY <1>2, <1>3, <2>1, <3>1, <3>3 DEF Continuing
    <3>5. "returning" \in Awaiting
      BY DEF Awaiting
    <3> QED
      BY <3>3, <3>4, <3>5 DEF DealingOK, Dealing
  <2> QED
    BY <2>2, <2>3
<1>10. CASE AnswerToBegin
  <2>1. /\ job.at = "beginning" /\ Finish(answer.code, answer.value) /\ ~Ends
        /\ transaction' = IF answer.code = "OK"
                          THEN [client |-> m.client, token |-> answer.value] ELSE transaction
    BY <1>10 DEF AnswerToBegin, Ends
  <2> QED
    BY <1>5, <1>6, <2>1
<1>11. CASE AnswerToForward
  <2>1. job.at = "returning"
    BY <1>11 DEF AnswerToForward
  <2>2. CASE m.method = "commitTransaction" /\ answer.code # "OK"
    <3>1. /\ RollbackTransaction(transaction.token)
          /\ job' = [job EXCEPT !.at = "unwinding", !.error = answer.code]
          /\ UNCHANGED <<log, tab, queue, closed, transaction>>
      BY <1>11, <2>2 DEF AnswerToForward
    <3>2. HostTypes' /\ HostInv' /\ RollbackCall(transaction.token)
      BY <1>1, <3>1, RollbackEffect
    <3>3. Continuing("unwinding")
      BY <1>2, <1>3, <2>1, <2>2, <3>1, <3>2 DEF Continuing
    <3>4. "unwinding" \in Awaiting
      BY DEF Awaiting
    <3> QED
      BY <3>2, <3>3, <3>4 DEF DealingOK, Dealing
  <2>3. CASE ~(m.method = "commitTransaction" /\ answer.code # "OK")
    <3>1. /\ Finish(answer.code, None)
          /\ transaction' = IF Ends THEN NoTransaction ELSE transaction
      BY <1>11, <2>1, <2>3 DEF AnswerToForward, Ends
    <3> QED
      BY <1>5, <1>6, <2>1, <2>3, <3>1
  <2> QED
    BY <2>2, <2>3
<1>12. CASE AnswerToUnwind
  <2>1. job.at = "unwinding" /\ Finish(job.error, None) /\ Ends /\ transaction' = NoTransaction
    BY <1>12 DEF AnswerToUnwind, Unwound, Ends
  <2> QED
    BY <1>5, <1>6, <2>1
<1> QED
  BY <1>7, <1>8, <1>9, <1>10, <1>11, <1>12

\* Every step is of one of the kinds.
LEMMA EveryKind ==
    ASSUME IInv, Next
    PROVE  KindOK /\ (Dealing \/ Aside)
<1>1. CASE \E c \in Clients, method \in Offered : Receive(c, method)
  BY <1>1, ReceiveKind DEF KindOK, Kinds, DealingOK
<1>2. CASE Aside
  BY <1>2, PassingKind
<1>3. CASE \E i \in DOMAIN queue : TakeOfAbandoned(i) \/ Handle(i)
  BY <1>3, TakeKind DEF KindOK, Kinds, DealingOK
<1>4. CASE \/ AnswerToClose \/ AnswerToPrepare \/ AnswerToRestore \/ AnswerToRebind
           \/ AnswerToBegin \/ AnswerToForward \/ AnswerToUnwind
  BY <1>4, AnswerKind DEF KindOK, Kinds, DealingOK
<1> QED
  BY <1>1, <1>2, <1>3, <1>4 DEF Next, Pump, Aside

-----------------------------------------------------------------------------
(* Types are kept. *)

\* The workload of a behaviour never changes.
LEMMA WorkloadStays ==
    ASSUME Next
    PROVE  UNCHANGED workload
<1>1. CASE \E c \in Clients, method \in Offered : Receive(c, method)
  BY <1>1 DEF Receive, Refuse, ServeNow, Record
<1>2. CASE \E c \in Clients : Depart(c) \/ LockGranted(c) \/ SkipAbandoned(c) \/ Forget(c)
  BY <1>2 DEF Depart, LockGranted, SkipAbandoned, Forget
<1>3. CASE OwnerLeaves \/ ForgetRolledBack \/ DropStatement \/ DropConnection \/ PumpRests
           \/ Announce
  BY <1>3 DEF OwnerLeaves, ForgetRolledBack, DropStatement, DropConnection, PumpRests, Announce
<1>4. ASSUME NEW i \in DOMAIN queue, TakeOfAbandoned(i)
      PROVE  UNCHANGED workload
  BY <1>4 DEF TakeOfAbandoned, Answered, Reply
<1>5. ASSUME NEW i \in DOMAIN queue, Handle(i)
      PROVE  UNCHANGED workload
  <2>1. \A m, code, at : Answered(m, code) \/ Awaits(m, at) => UNCHANGED workload
    BY DEF Answered, Reply, Awaits
  <2>2. \A m : HandleInit(m) \/ HandleClose(m) \/ HandlePrepareSql(m) => UNCHANGED workload
    BY <2>1 DEF HandleInit, HandleClose, HandlePrepareSql
  <2>3. \A m : HandleClosePrepared(m) \/ HandleBegin(m) \/ HandleForward(m) => UNCHANGED workload
    BY <2>1 DEF HandleClosePrepared, HandleBegin, HandleForward
  <2> QED
    BY <1>5, <2>2, <2>3 DEF Handle
<1>6. CASE \/ AnswerToClose \/ AnswerToPrepare \/ AnswerToRestore \/ AnswerToRebind
           \/ AnswerToBegin \/ AnswerToForward \/ AnswerToUnwind
  <2>1. \A code, value, at : Finish(code, value) \/ Continues(at) => UNCHANGED workload
    BY DEF Finish, Reply, Continues
  <2> QED
    BY <1>6, <2>1 DEF AnswerToClose, AnswerToPrepare, AnswerToRestore, AnswerToRebind,
                      AnswerToBegin, AnswerToForward, AnswerToUnwind
<1> QED
  BY <1>1, <1>2, <1>3, <1>4, <1>5, <1>6 DEF Next, Pump

\* The states of pump() that the code makes of others.
LEMMA JobForms ==
    ASSUME TypeOK
    PROVE  /\ TypedJob(Idle) /\ TypedJob(job) /\ TypedJob(Woken)
           /\ \A seen \in SUBSET Clients : TypedJob(Scan(seen))
           /\ \A at \in Awaiting, m \in Messages :
                TypedJob([Idle EXCEPT !.at = at, !.message = m])
           /\ job.at \in Awaiting => \A at \in Awaiting, e \in AnswerCodes :
                /\ TypedJob([job EXCEPT !.at = at])
                /\ TypedJob([job EXCEPT !.at = at, !.error = e])
           /\ \A at \in {"forgetting", "dropping"}, c \in Clients :
                TypedJob([job EXCEPT !.at = at, !.client = c])
           /\ job.at \in {"forgetting", "dropping"} => \A at \in {"dropping", "dropped"} :
                TypedJob([job EXCEPT !.at = at])
<1>1. TypedJob(job)
  BY DEF TypeOK, BrokerTypes
<1>2. /\ Idle.at = "idle" /\ Idle.seen = {} /\ Idle.client = NoClient
      /\ Idle.message = NoMessage /\ Idle.error = "OK" /\ Idle \in Jobs
  BY DEF Idle, Jobs, JobStates, Awaiting, AnswerCodes
<1>3. TypedJob(Idle)
  BY <1>2 DEF TypedJob, Awaiting
<1>4. ASSUME NEW seen \in SUBSET Clients
      PROVE  TypedJob(Scan(seen))
  <2>1. Scan(seen) \in Jobs /\ Scan(seen).at = "scan"
    BY <1>2 DEF Scan, Jobs, JobStates
  <2> QED
    BY <2>1 DEF TypedJob, Awaiting
<1>5. TypedJob(Woken)
  <2>1. TypedJob(Scan({}))
    BY <1>4
  <2> QED
    BY <1>1, <2>1 DEF Woken
<1>6. ASSUME NEW at \in Awaiting, NEW m \in Messages
      PROVE  TypedJob([Idle EXCEPT !.at = at, !.message = m])
  <2>1. at \in JobStates /\ at \notin {"forgetting", "dropping", "dropped"}
    BY DEF Awaiting, JobStates
  <2> QED
    BY <1>2, <2>1 DEF TypedJob, Jobs
<1>7. ASSUME job.at \in Awaiting, NEW at \in Awaiting, NEW e \in AnswerCodes
      PROVE  /\ TypedJob([job EXCEPT !.at = at])
             /\ TypedJob([job EXCEPT !.at = at, !.error = e])
  <2>1. at \in JobStates /\ at \notin {"forgetting", "dropping", "dropped"}
    BY DEF Awaiting, JobStates
  <2> QED
    BY <1>1, <1>7, <2>1 DEF TypedJob, Jobs
<1>8. ASSUME NEW at \in {"forgetting", "dropping"}, NEW c \in Clients
      PROVE  TypedJob([job EXCEPT !.at = at, !.client = c])
  <2>1. at \in JobStates /\ at \notin Awaiting
    BY DEF Awaiting, JobStates
  <2> QED
    BY <1>1, <1>8, <2>1 DEF TypedJob, Jobs
<1>9. ASSUME job.at \in {"forgetting", "dropping"}, NEW at \in {"dropping", "dropped"}
      PROVE  TypedJob([job EXCEPT !.at = at])
  <2>1. at \in JobStates /\ at \notin Awaiting
    BY DEF Awaiting, JobStates
  <2> QED
    BY <1>1, <1>9, <2>1 DEF TypedJob, Jobs
<1> QED
  BY <1>1, <1>3, <1>4, <1>5, <1>6, <1>7, <1>8, <1>9

\* The client's side, from the kind of step.
LEMMA ClientTypesStep ==
    ASSUME IInv, Next
    PROVE  ClientTypes'
<1>1. Kinds /\ ClientTypes /\ UNCHANGED workload /\ TypeOK
  BY EveryKind, WorkloadStays DEF KindOK, IInv, TypeOK
<1>2. MaxRequests' = MaxRequests /\ MaxRequests \in [Clients -> Nat]
  BY <1>1, BrokerAssumption DEF MaxRequests, TypeOK
<1>3. SUFFICES /\ tab' \in [Clients -> TabStates]
               /\ log' \in [Clients -> Seq(Entries)]
               /\ \A c \in Clients : Len(log'[c]) <= MaxRequests[c]
  BY <1>2 DEF ClientTypes
<1>4. CASE Passing \/ Shutting
  BY <1>1, <1>4 DEF Passing, Shutting, ClientTypes
<1>5. ASSUME NEW m \in Messages, m.n <= MaxRequests[m.client],
             (\E code \in Outcomes : Refusing(m, code)) \/ Queueing(m) \/ Serving(m)
      PROVE  /\ tab' \in [Clients -> TabStates]
             /\ log' \in [Clients -> Seq(Entries)]
             /\ \A c \in Clients : Len(log'[c]) <= MaxRequests[c]
  <2>1. \E code : Joins(m, code)
    BY <1>5 DEF Refusing, Queueing, Serving
  <2> QED
    BY <1>1, <1>5, <2>1 DEF Joins, ClientTypes
<1>6. ASSUME NEW w, NEW code, NEW value, Settles(w, code, value)
      PROVE  /\ tab' \in [Clients -> TabStates]
             /\ log' \in [Clients -> Seq(Entries)]
             /\ \A c \in Clients : Len(log'[c]) <= MaxRequests[c]
  BY <1>1, <1>6 DEF Settles, ClientTypes
<1>7. CASE \E i \in DOMAIN queue : \/ \E code \in Outcomes : Answering(i, code)
                                   \/ \E at \in Awaiting : Taking(i, at)
  BY <1>1, <1>6, <1>7 DEF Answering, Taking, ClientTypes
<1>8. CASE \E at \in Awaiting : Continuing(at)
  BY <1>1, <1>8 DEF Continuing, ClientTypes
<1>9. CASE \E code \in Outcomes, value \in Nat : Finishing(code, value)
  BY <1>6, <1>9 DEF Finishing
<1> QED
  BY <1>1, <1>4, <1>5, <1>7, <1>8, <1>9 DEF Kinds, Dealing

\* The queue holds requests.
LEMMA QueueTypesStep ==
    ASSUME IInv, Next
    PROVE  queue' \in Seq(Messages) /\ closed' \in BOOLEAN
<1>1. Kinds /\ queue \in Seq(Messages) /\ closed \in BOOLEAN
  BY EveryKind DEF KindOK, IInv, TypeOK, BrokerTypes
<1>2. CASE Passing
  BY <1>1, <1>2 DEF Passing
<1>3. Close => queue' \in Seq(Messages) /\ closed' \in BOOLEAN
  BY DEF Close
<1>4. CASE Shutting
  BY <1>3, <1>4 DEF Shutting
<1>5. ASSUME NEW m \in Messages,
             (\E code \in Outcomes : Refusing(m, code)) \/ Queueing(m) \/ Serving(m)
      PROVE  queue' \in Seq(Messages) /\ closed' \in BOOLEAN
  BY <1>1, <1>3, <1>5 DEF Refusing, Queueing, Serving
<1>6. CASE \E i \in DOMAIN queue : \/ \E code \in Outcomes : Answering(i, code)
                                   \/ \E at \in Awaiting : Taking(i, at)
  BY <1>1, <1>6, DequeueKeeps DEF Answering, Taking, Dequeued
<1>7. CASE \E at \in Awaiting : Continuing(at)
  BY <1>1, <1>7 DEF Continuing
<1>8. CASE \E code \in Outcomes, value \in Nat : Finishing(code, value)
  BY <1>1, <1>3, <1>8 DEF Finishing
<1> QED
  BY <1>1, <1>2, <1>4, <1>5, <1>6, <1>7, <1>8 DEF Kinds, Dealing

\* What the broker knows of its clients, and where its pump is.
RestTypes ==
    /\ connections \subseteq Clients
    /\ watched \subseteq Clients
    /\ prepared \in [Clients -> Nat]
    /\ abandoned \subseteq Clients
    /\ transaction \in {NoTransaction} \cup [client : Clients, token : Nat \ {0}]
    /\ TypedJob(job)

\* The broker's side, action by action.
LEMMA RestTypesStep ==
    ASSUME IInv, Next
    PROVE  RestTypes'
<1>1. TypeOK /\ BrokerTypes /\ RestTypes /\ HostTypes /\ HostInv
  BY DEF IInv, TypeOK, BrokerTypes, RestTypes
<1>2. None \in Nat
  BY DEF None
<1>3. Close => connections' = {} /\ watched' = {} /\ TypedJob(job')
  BY <1>1, JobForms DEF Close
<1>4. \A seen \in SUBSET Clients : job' = Scan(seen) => TypedJob(job')
  BY <1>1, JobForms
<1>5. ASSUME NEW c \in Clients, NEW method \in Offered, Receive(c, method)
      PROVE  RestTypes'
  <2>1. /\ connections' \in {connections, connections \cup {c}, {}}
        /\ watched' \in {watched, watched \cup {c}, {}}
        /\ abandoned' \in {abandoned, abandoned \cup {c}}
        /\ UNCHANGED <<prepared, transaction>>
        /\ job' \in {job, Woken, Idle}
    BY <1>5 DEF Receive, Close
  <2>2. TypedJob(job')
    BY <1>1, <2>1, JobForms
  <2> QED
    BY <1>1, <2>1, <2>2 DEF RestTypes
<1>6. ASSUME NEW c \in Clients, Depart(c) \/ LockGranted(c)
      PROVE  RestTypes'
  <2>1. /\ watched' \in {watched, watched \ {c}}
        /\ abandoned' \in {abandoned, abandoned \cup {c}}
        /\ UNCHANGED <<connections, prepared, transaction>>
        /\ job' \in {job, Woken}
    BY <1>6 DEF Depart, LockGranted, brokerVars
  <2>2. TypedJob(job')
    BY <1>1, <2>1, JobForms
  <2> QED
    BY <1>1, <2>1, <2>2 DEF RestTypes
<1>7. CASE OwnerLeaves
  BY <1>1, <1>3, <1>7 DEF OwnerLeaves, RestTypes
<1>8. CASE Announce
  BY <1>1, <1>8 DEF Announce, brokerVars, RestTypes
<1>9. ASSUME NEW c \in Clients, SkipAbandoned(c)
      PROVE  RestTypes'
  <2>1. job.seen \cup {c} \in SUBSET Clients
    BY <1>1 DEF RestTypes, TypedJob, Jobs
  <2> QED
    BY <1>1, <1>4, <1>9, <2>1 DEF SkipAbandoned, RestTypes
<1>10. ASSUME NEW c \in Clients, Forget(c)
       PROVE  RestTypes'
  <2>1. /\ UNCHANGED <<connections, watched, prepared, abandoned, transaction>>
        /\ \E at \in {"forgetting", "dropping"} : job' = [job EXCEPT !.at = at, !.client = c]
    BY <1>10 DEF Forget
  <2>2. TypedJob(job')
    BY <1>1, <2>1, JobForms
  <2> QED
    BY <1>1, <2>1, <2>2 DEF RestTypes
<1>11. CASE ForgetRolledBack
  <2>1. /\ UNCHANGED <<prepared, abandoned>> /\ transaction' = NoTransaction
        /\ job.at = "forgetting"
        /\ \/ Close
           \/ job' = [job EXCEPT !.at = "dropping"] /\ UNCHANGED <<connections, watched>>
    BY <1>11 DEF ForgetRolledBack
  <2>2. TypedJob(job')
    BY <1>1, <1>3, <2>1, JobForms
  <2>3. connections' \subseteq Clients /\ watched' \subseteq Clients
    BY <1>1, <1>3, <2>1 DEF RestTypes
  <2> QED
    BY <1>1, <2>1, <2>2, <2>3 DEF RestTypes
<1>12. CASE DropStatement
  <2>1. /\ UNCHANGED <<connections, watched, prepared, abandoned, transaction>>
        /\ job.at = "dropping" /\ job' = [job EXCEPT !.at = "dropped"]
    BY <1>12 DEF DropStatement
  <2>2. TypedJob(job')
    BY <1>1, <2>1, JobForms
  <2> QED
    BY <1>1, <2>1, <2>2 DEF RestTypes
<1>13. CASE DropConnection \/ PumpRests
  <2>1. /\ connections' \subseteq connections /\ watched' \subseteq watched
        /\ abandoned' \subseteq abandoned /\ UNCHANGED transaction
        /\ prepared' = prepared \/ \E c : prepared' = [prepared EXCEPT ![c] = None]
        /\ job' \in {Scan(job.seen), Idle}
    BY <1>13 DEF DropConnection, PumpRests
  <2>2. TypedJob(job')
    <3>1. job.seen \in SUBSET Clients
      BY <1>1 DEF RestTypes, TypedJob, Jobs
    <3> QED
      BY <1>1, <2>1, <3>1, JobForms
  <2>3. prepared' \in [Clients -> Nat]
    BY <1>1, <1>2, <2>1 DEF RestTypes
  <2> QED
    BY <1>1, <2>1, <2>2, <2>3 DEF RestTypes
<1>14. ASSUME NEW i \in DOMAIN queue, TakeOfAbandoned(i) \/ Handle(i)
       PROVE  RestTypes'
  <2> DEFINE m == queue[i]
  <2>1. m \in Messages /\ m.client \in Clients
    <3>1. m \in Messages
      BY <1>1 DEF BrokerTypes
    <3> QED
      BY <3>1 DEF Messages
  <2>2. UNCHANGED <<connections, watched, transaction>>
    BY <1>14 DEF TakeOfAbandoned, Handle, Taken
  <2>3. ASSUME NEW code, Answered(m, code) PROVE TypedJob(job')
    BY <1>4, <2>3 DEF Answered
  <2>4. ASSUME NEW at \in Awaiting, Awaits(m, at) PROVE TypedJob(job')
    BY <1>1, <2>1, <2>4, JobForms DEF Awaits
  <2>5. CASE TakeOfAbandoned(i)
    BY <1>1, <2>2, <2>3, <2>5 DEF TakeOfAbandoned, RestTypes
  <2>6. CASE HandleInit(m) \/ HandleClose(m) \/ HandlePrepareSql(m)
    <3>1. abandoned' \in {abandoned, abandoned \cup {m.client}} /\ UNCHANGED prepared
      BY <2>6 DEF HandleInit, HandleClose, HandlePrepareSql
    <3>2. TypedJob(job')
      BY <2>3, <2>4, <2>6 DEF HandleInit, HandleClose, HandlePrepareSql, Awaiting
    <3> QED
      BY <1>1, <2>1, <2>2, <3>1, <3>2 DEF RestTypes
  <2>7. CASE HandleClosePrepared(m)
    <3>1. UNCHANGED abandoned /\ prepared' = [prepared EXCEPT ![m.client] = None]
      BY <2>7 DEF HandleClosePrepared
    <3>2. TypedJob(job')
      BY <2>3, <2>4, <2>7 DEF HandleClosePrepared, Awaiting
    <3>3. prepared' \in [Clients -> Nat]
      BY <1>1, <1>2, <3>1 DEF RestTypes
    <3> QED
      BY <1>1, <2>2, <3>1, <3>2, <3>3 DEF RestTypes
  <2>8. CASE HandleBegin(m) \/ HandleForward(m)
    <3>1. UNCHANGED <<prepared, abandoned>>
      BY <2>8 DEF HandleBegin, HandleForward
    <3>2. TypedJob(job')
      BY <2>3, <2>4, <2>8 DEF HandleBegin, HandleForward, Awaiting
    <3> QED
      BY <1>1, <2>2, <3>1, <3>2 DEF RestTypes
  <2> QED
    BY <1>14, <2>5, <2>6, <2>7, <2>8 DEF Handle
<1>15. CASE \/ AnswerToClose \/ AnswerToPrepare \/ AnswerToRestore \/ AnswerToRebind
            \/ AnswerToBegin \/ AnswerToForward \/ AnswerToUnwind
  <2>1. job.at \in Awaiting /\ job.message \in Messages /\ job.message.client \in Clients
    <3>1. job.at \in Awaiting
      BY <1>15 DEF AnswerToClose, AnswerToPrepare, AnswerToRestore, AnswerToRebind,
                   AnswerToBegin, AnswerToForward, AnswerToUnwind, Awaiting
    <3> QED
      BY <1>1, <3>1 DEF RestTypes, TypedJob, Messages
  <2>2. answer.value \in Nat /\ answer.code \in AnswerCodes
    BY <1>1 DEF HostTypes
  <2>3. \A code, value, at : Finish(code, value) \/ Continues(at) =>
           /\ connections' \in {connections, {}} /\ watched' \in {watched, {}}
           /\ UNCHANGED abandoned
    BY DEF Finish, Continues, Close
  <2>4. ASSUME NEW code, NEW value, Finish(code, value) PROVE TypedJob(job')
    BY <1>3, <1>4, <2>4 DEF Finish
  <2>5. ASSUME NEW at \in Awaiting, Continues(at) PROVE TypedJob(job')
    BY <1>1, <2>1, <2>2, <2>5, JobForms DEF Continues
  <2>6. Hold => prepared' \in [Clients -> Nat]
    BY <1>1, <2>2 DEF Hold, RestTypes
  <2>7. ASSUME connections' \in {connections, {}}, watched' \in {watched, {}}, UNCHANGED abandoned,
               TypedJob(job'), UNCHANGED prepared \/ Hold,
               transaction' \in {transaction, NoTransaction}
                                  \cup [client : Clients, token : Nat \ {0}]
        PROVE  RestTypes'
    BY <1>1, <2>6, <2>7 DEF RestTypes
  <2>8. CASE AnswerToClose \/ AnswerToPrepare \/ AnswerToUnwind
    <3>1. \E code, value : Finish(code, value)
      BY <2>8 DEF AnswerToClose, AnswerToPrepare, AnswerToUnwind
    <3>2. UNCHANGED prepared \/ Hold
      BY <2>8 DEF AnswerToClose, AnswerToPrepare, AnswerToUnwind
    <3>3. transaction' \in {transaction, NoTransaction}
      BY <2>8 DEF AnswerToClose, AnswerToPrepare, AnswerToUnwind, Unwound
    <3> QED
      BY <2>3, <2>4, <2>7, <3>1, <3>2, <3>3
  <2>9. CASE AnswerToRestore \/ AnswerToRebind
    <3>1. (\E code, value : Finish(code, value)) \/ \E at \in Awaiting : Continues(at)
      BY <2>9 DEF AnswerToRestore, AnswerToRebind, Awaiting
    <3>2. (UNCHANGED prepared \/ Hold) /\ UNCHANGED transaction
      BY <2>9 DEF AnswerToRestore, AnswerToRebind
    <3> QED
      BY <2>3, <2>4, <2>5, <2>7, <3>1, <3>2
  <2>10. CASE AnswerToBegin
    <3>1. Finish(answer.code, answer.value) /\ UNCHANGED prepared /\ job.at = "beginning"
      BY <2>10 DEF AnswerToBegin
    <3>2. CASE answer.code # "OK"
      BY <2>3, <2>4, <2>7, <2>10, <3>1, <3>2 DEF AnswerToBegin
    <3>3. CASE answer.code = "OK"
      <4>1. engine = "open" /\ ~closed
        BY <1>1, <3>1, <3>3 DEF HostInv, IInv, QueueInv, Idle
      <4>2. answer.value # 0
        BY <3>1, <3>3, <4>1 DEF IInv, TokenInv, None
      <4>3. transaction' = [client |-> job.message.client, token |-> answer.value]
        BY <2>10, <3>3 DEF AnswerToBegin
      <4> QED
        BY <2>1, <2>2, <2>3, <2>4, <2>7, <3>1, <4>2, <4>3
    <3> QED
      BY <3>2, <3>3
  <2>11. CASE AnswerToForward
    <3>1. CASE job.message.method = "commitTransaction" /\ answer.code # "OK"
      <4>1. /\ job' = [job EXCEPT !.at = "unwinding", !.error = answer.code]
            /\ UNCHANGED <<connections, watched, abandoned, transaction, prepared>>
        BY <2>11, <3>1 DEF AnswerToForward
      <4>2. TypedJob(job')
        BY <1>1, <2>1, <2>2, <4>1, JobForms DEF Awaiting
      <4> QED
        BY <2>7, <4>1, <4>2
    <3>2. CASE ~(job.message.method = "commitTransaction" /\ answer.code # "OK")
      <4>1. /\ Finish(answer.code, None) /\ UNCHANGED prepared
            /\ transaction' \in {transaction, NoTransaction}
        BY <2>11, <3>2 DEF AnswerToForward
      <4> QED
        BY <2>3, <2>4, <2>7, <4>1
    <3> QED
      BY <3>1, <3>2
  <2> QED
    BY <1>15, <2>8, <2>9, <2>10, <2>11
<1> QED
  BY <1>5, <1>6, <1>7, <1>8, <1>9, <1>10, <1>11, <1>12, <1>13, <1>14, <1>15 DEF Next, Pump

\* Every step keeps the types.
LEMMA TypesStep ==
    ASSUME IInv, Next
    PROVE  TypeOK' /\ HostInv'
<1>1. HostTypes' /\ HostInv'
  BY EveryKind DEF KindOK
<1>2. BrokerTypes'
  BY QueueTypesStep, RestTypesStep DEF BrokerTypes, RestTypes
<1>3. workload' \in Workloads
  BY WorkloadStays DEF IInv, TypeOK
<1> QED
  BY <1>1, <1>2, <1>3, ClientTypesStep DEF TypeOK

-----------------------------------------------------------------------------
(* The tokens. *)

\* A closed broker stays closed, a poisoned engine stays poisoned, and tokens are never
\* given out twice.
LEMMA NothingHeals ==
    ASSUME TypeOK, Kinds
    PROVE  /\ closed => closed'
           /\ engine' = "open" => engine = "open"
           /\ nextTransactionId <= nextTransactionId'
<1>1. nextTransactionId \in Nat
  BY DEF TypeOK, HostTypes
<1>2. \A w, k : WriteCall(w, k) =>
        (engine' = "open" => engine = "open") /\ UNCHANGED nextTransactionId
  BY DEF WriteCall
<1>3. \A k : CommitCall(k) \/ RollbackCall(k) =>
        (engine' = "open" => engine = "open") /\ UNCHANGED nextTransactionId
  BY DEF CommitCall, RollbackCall
<1>4. Still \/ StatementCall \/ UNCHANGED hostVars => UNCHANGED <<engine, nextTransactionId>>
  BY DEF Still, StatementCall, hostVars
<1>5. BeginCall => UNCHANGED engine /\ nextTransactionId <= nextTransactionId'
  BY <1>1 DEF BeginCall
<1>6. \A m, at : CallFor(m, at) =>
        (engine' = "open" => engine = "open") /\ nextTransactionId <= nextTransactionId'
  BY <1>1, <1>2, <1>3, <1>4, <1>5 DEF CallFor
<1>7. CASE Passing \/ Shutting
  BY <1>1, <1>3, <1>4, <1>7 DEF Passing, Shutting
<1>8. ASSUME NEW m \in Messages,
             (\E code \in Outcomes : Refusing(m, code)) \/ Queueing(m) \/ Serving(m)
      PROVE  /\ closed => closed'
             /\ engine' = "open" => engine = "open"
             /\ nextTransactionId <= nextTransactionId'
  <2>1. ~closed /\ (UNCHANGED hostVars \/ \E w, k : WriteCall(w, k))
    BY <1>8 DEF Refusing, Queueing, Serving
  <2> QED
    BY <1>1, <1>2, <1>4, <2>1
<1>9. CASE \E i \in DOMAIN queue : \/ \E code \in Outcomes : Answering(i, code)
                                   \/ \E at \in Awaiting : Taking(i, at)
  <2>1. ~closed /\ (UNCHANGED hostVars \/ \E m, at : CallFor(m, at))
    BY <1>9 DEF Answering, Taking
  <2> QED
    BY <1>1, <1>4, <1>6, <2>1
<1>10. CASE \E at \in Awaiting : Continuing(at)
  BY <1>1, <1>3, <1>6, <1>10 DEF Continuing
<1>11. CASE \E code \in Outcomes, value \in Nat : Finishing(code, value)
  BY <1>1, <1>4, <1>11 DEF Finishing
<1> QED
  BY <1>7, <1>8, <1>9, <1>10, <1>11 DEF Kinds, Dealing

\* The host is called for a request while the tokens agree.
LEMMA CallAgrees ==
    ASSUME TypeOK, Agree, engine = "open", engine' = "open", UNCHANGED transaction,
           NEW m, NEW at, CallFor(m, at), job'.at = at, job'.message = m
    PROVE  TokenInv'
<1>1. CASE at \in {"preparing", "restoring", "rebinding"} /\ StatementCall
  <2>1. Agree'
    BY <1>1 DEF StatementCall, Still, Agree
  <2> QED
    BY <1>1, <2>1 DEF TokenInv
<1>2. CASE at = "returning" /\ m.method = "closePrepared" /\ StatementCall
  <2>1. Agree'
    BY <1>2 DEF StatementCall, Still, Agree
  <2> QED
    BY <1>2, <2>1 DEF TokenInv, TransactionEnds
<1>3. CASE at = "returning" /\ m.method \in Statements \cup {"setSchema"} /\ WriteCall(IdOf(m), m.tx)
  <2>1. Agree'
    BY <1>3 DEF WriteCall, Agree
  <2> QED
    BY <1>3, <2>1 DEF TokenInv, TransactionEnds, Statements
<1>4. CASE at = "returning" /\ m.method = "commitTransaction" /\ CommitCall(m.tx)
  <2>1. \/ activeTransactionId' = None
        \/ answer'.code # "OK" /\ Agree'
    BY <1>4 DEF CommitCall, Agree
  <2> QED
    BY <1>4, <2>1 DEF TokenInv, Agree
<1>5. CASE at = "returning" /\ m.method = "rollbackTransaction" /\ RollbackCall(m.tx)
  <2>1. \/ answer'.code = "OK" /\ activeTransactionId' = None
        \/ answer'.code # "OK" /\ Agree'
    BY <1>5 DEF RollbackCall, Agree
  <2> QED
    BY <1>5, <2>1 DEF TokenInv, TransactionEnds
<1>6. CASE at = "closing" /\ InTransaction /\ RollbackCall(transaction.token)
  <2>1. transaction.token # None
    BY <1>6, TokenType
  <2>2. answer'.code = "OK" /\ activeTransactionId' = None
    BY <1>6, <2>1 DEF RollbackCall, Agree
  <2> QED
    BY <1>6, <2>2 DEF TokenInv
<1>7. CASE at = "beginning" /\ BeginCall
  <2>1. nextTransactionId # None
    BY DEF TypeOK, HostTypes, None
  <2>2. \/ /\ answer'.code = "OK" /\ answer'.value = activeTransactionId'
           /\ activeTransactionId' # None /\ overlay'.staged = {}
        \/ answer'.code # "OK" /\ Agree'
    BY <1>7, <2>1 DEF BeginCall, Agree
  <2> QED
    BY <1>7, <2>2 DEF TokenInv
<1> QED
  BY <1>1, <1>2, <1>3, <1>4, <1>5, <1>6, <1>7 DEF CallFor

\* Every step keeps the tokens: only the answer that the broker has yet to take up is
\* between its transaction and the host's.
LEMMA TokenStep ==
    ASSUME IInv, Next
    PROVE  TokenInv'
<1>1. TypeOK /\ HostInv /\ HostTypes /\ Kinds /\ (Dealing \/ Aside)
  BY EveryKind DEF IInv, TypeOK, KindOK
<1>2. SUFFICES ASSUME ~closed', engine' = "open"
               PROVE  TokenInv'
  BY DEF TokenInv
<1>3. ~closed /\ engine = "open"
  BY <1>1, <1>2, NothingHeals
<1>4. \A seen : Scan(seen).at = "scan"
  BY DEF Scan, Idle
<1>5. ASSUME Agree', job'.at \in {"idle", "scan", "dropping", "dropped"}
      PROVE  TokenInv'
  BY <1>5 DEF TokenInv
<1>6. job.at \in {"idle", "scan", "dropping", "dropped"} => Agree
  BY <1>3 DEF IInv, TokenInv
<1>7. UNCHANGED hostVars => UNCHANGED <<activeTransactionId, engine, overlay, answer>>
  BY DEF hostVars
<1>8. ASSUME UNCHANGED <<activeTransactionId, engine, overlay, answer, transaction, closed>>,
             job' \in {job, Woken}
      PROVE  TokenInv'
  <2>1. CASE job' = job
    BY <1>8, <2>1 DEF IInv, TokenInv, Agree
  <2>2. CASE job.at = "idle" /\ job' = Scan({})
    BY <1>4, <1>5, <1>6, <1>8, <2>2 DEF Agree
  <2> QED
    BY <1>8, <2>1, <2>2 DEF Woken
<1>9. ~Close
  BY <1>2 DEF Close
<1>10. CASE \E c \in Clients : Depart(c) \/ LockGranted(c)
  BY <1>7, <1>8, <1>10 DEF Depart, LockGranted, brokerVars
<1>11. CASE OwnerLeaves
  BY <1>9, <1>11 DEF OwnerLeaves
<1>12. CASE Announce
  BY <1>8, <1>12 DEF Announce, PostInvalidation, brokerVars, transactionVars
<1>13. CASE (\E c \in Clients : SkipAbandoned(c)) \/ PumpRests \/ DropConnection
  <2>1. UNCHANGED <<activeTransactionId, transaction>> /\ job.at \in {"scan", "dropping", "dropped"}
    BY <1>7, <1>13 DEF SkipAbandoned, PumpRests, DropConnection
  <2>2. job' = Idle \/ \E seen : job' = Scan(seen)
    BY <1>13 DEF SkipAbandoned, PumpRests, DropConnection
  <2>3. job'.at \in {"idle", "scan"}
    BY <1>4, <2>2 DEF Idle
  <2> QED
    BY <1>5, <1>6, <2>1, <2>3 DEF Agree
<1>14. ASSUME NEW c \in Clients, Forget(c)
       PROVE  TokenInv'
  <2>1. job.at = "scan" /\ UNCHANGED transaction /\ job \in Jobs
    BY <1>1, <1>14 DEF Forget, TypeOK, BrokerTypes, TypedJob
  <2>2. CASE OwnTransaction(c)
    <3>1. /\ RollbackTransaction(transaction.token)
          /\ job' = [job EXCEPT !.at = "forgetting", !.client = c]
      BY <1>14, <2>2 DEF Forget
    <3>2. RollbackCall(transaction.token) /\ transaction.token # None
      BY <1>1, <2>2, <3>1, RollbackEffect, TokenType DEF OwnTransaction
    <3>3. answer'.code = "OK" /\ activeTransactionId' = None
      BY <1>3, <1>6, <2>1, <3>2 DEF RollbackCall, Agree
    <3>4. job'.at = "forgetting"
      BY <2>1, <3>1 DEF Jobs
    <3> QED
      BY <3>3, <3>4 DEF TokenInv
  <2>3. CASE ~OwnTransaction(c)
    <3>1. job' = [job EXCEPT !.at = "dropping", !.client = c] /\ UNCHANGED activeTransactionId
      BY <1>7, <1>14, <2>3 DEF Forget
    <3>2. job'.at = "dropping"
      BY <2>1, <3>1 DEF Jobs
    <3> QED
      BY <1>5, <1>6, <2>1, <3>1, <3>2 DEF Agree
  <2> QED
    BY <2>2, <2>3
<1>15. CASE ForgetRolledBack
  <2>1. /\ job.at = "forgetting" /\ transaction' = NoTransaction /\ job \in Jobs
        /\ UNCHANGED activeTransactionId /\ job' = [job EXCEPT !.at = "dropping"]
    BY <1>1, <1>7, <1>9, <1>15 DEF ForgetRolledBack, TypeOK, BrokerTypes, TypedJob
  <2>2. activeTransactionId = None /\ job'.at = "dropping"
    BY <1>3, <2>1 DEF IInv, TokenInv, Jobs
  <2> QED
    BY <1>5, <2>1, <2>2 DEF Agree, NoTransaction
<1>16. CASE DropStatement
  <2>1. /\ job.at = "dropping" /\ job' = [job EXCEPT !.at = "dropped"] /\ job \in Jobs
        /\ UNCHANGED transaction /\ \E id : ClosePrepared(id)
    BY <1>1, <1>16 DEF DropStatement, TypeOK, BrokerTypes, TypedJob
  <2>2. UNCHANGED activeTransactionId
    BY <1>1, <2>1, StatementEffect DEF StatementCall, Still
  <2>3. job'.at = "dropped"
    BY <2>1 DEF Jobs
  <2> QED
    BY <1>5, <1>6, <2>1, <2>2, <2>3 DEF Agree
<1>17. ASSUME NEW m \in Messages,
              (\E code \in Outcomes : Refusing(m, code)) \/ Queueing(m)
       PROVE  TokenInv'
  BY <1>7, <1>8, <1>17 DEF Refusing, Queueing
<1>18. ASSUME NEW m \in Messages, Serving(m)
       PROVE  TokenInv'
  BY <1>5, <1>6, <1>9, <1>18 DEF Serving, NothingWaits, WriteCall, Agree
<1>19. ASSUME NEW i \in DOMAIN queue, NEW code \in Outcomes, Answering(i, code)
       PROVE  TokenInv'
  BY <1>4, <1>5, <1>6, <1>7, <1>19 DEF Answering, Agree
<1>20. ASSUME NEW i \in DOMAIN queue, NEW at \in Awaiting, Taking(i, at)
       PROVE  TokenInv'
  <2>1. job'.at = at /\ job'.message = queue[i]
    BY <1>20 DEF Taking, Idle
  <2>2. Agree /\ CallFor(queue[i], at) /\ UNCHANGED transaction
    BY <1>6, <1>20 DEF Taking
  <2> QED
    BY <1>1, <1>2, <1>3, <2>1, <2>2, CallAgrees
<1>21. ASSUME NEW at \in Awaiting, Continuing(at)
       PROVE  TokenInv'
  <2>1. job \in Jobs
    BY <1>1 DEF TypeOK, BrokerTypes, TypedJob
  <2>2. CASE job.at \in {"restoring", "rebinding"}
    <3>1. job'.at = at /\ job'.message = job.message /\ CallFor(job.message, at)
          /\ UNCHANGED transaction
      BY <1>21, <2>1, <2>2 DEF Continuing, Jobs
    <3>2. Agree
      BY <1>3, <2>2 DEF IInv, TokenInv
    <3> QED
      BY <1>1, <1>2, <1>3, <3>1, <3>2, CallAgrees
  <2>3. CASE job.at = "returning"
    <3>1. /\ at = "unwinding" /\ job'.at = at
          /\ job.message.method = "commitTransaction" /\ answer.code # "OK"
          /\ RollbackCall(transaction.token)
      BY <1>21, <2>1, <2>3 DEF Continuing, Jobs
    <3>2. activeTransactionId \in {None, transaction.token}
      BY <1>3, <2>3, <3>1 DEF IInv, TokenInv
    <3>3. activeTransactionId' = None
      BY <1>3, <3>1, <3>2 DEF RollbackCall
    <3> QED
      BY <3>1, <3>3 DEF TokenInv
  <2> QED
    BY <1>21, <2>2, <2>3 DEF Continuing
<1>22. ASSUME NEW code \in Outcomes, NEW value \in Nat, Finishing(code, value)
       PROVE  TokenInv'
  <2>1. /\ job'.at = "scan" /\ UNCHANGED activeTransactionId /\ job.at \in Awaiting
        /\ job.at = "returning" /\ job.message.method = "commitTransaction" => answer.code = "OK"
    BY <1>4, <1>7, <1>9, <1>22 DEF Finishing
  <2>2. CASE Ends
    <3>1. activeTransactionId = None
      BY <1>3, <2>2 DEF Ends, IInv, TokenInv
    <3>2. transaction' = NoTransaction
      BY <1>22, <2>2 DEF Finishing
    <3> QED
      BY <1>5, <2>1, <3>1, <3>2 DEF Agree, NoTransaction
  <2>3. CASE job.at = "beginning" /\ answer.code = "OK"
    <3>1. transaction' = [client |-> job.message.client, token |-> answer.value]
      BY <1>22, <2>3 DEF Finishing, Ends
    <3>2. answer.value = activeTransactionId
      BY <1>3, <2>3 DEF IInv, TokenInv
    <3> QED
      BY <1>5, <2>1, <3>1, <3>2 DEF Agree
  <2>4. CASE ~Ends /\ ~(job.at = "beginning" /\ answer.code = "OK")
    <3>1. UNCHANGED transaction
      BY <1>22, <2>4 DEF Finishing
    <3>2. Agree
      <4>1. job.at # "unwinding" /\ (job.at = "closing" => answer.code = "OK")
        BY <1>3, <2>4 DEF Ends, IInv, TokenInv
      <4>2. job.at \in {"preparing", "restoring", "rebinding", "beginning", "returning"}
        BY <2>1, <2>4, <4>1 DEF Awaiting, Ends
      <4>3. CASE job.at \in {"preparing", "restoring", "rebinding"}
        BY <1>3, <4>3 DEF IInv, TokenInv
      <4>4. CASE job.at = "beginning"
        BY <1>3, <2>4, <4>4 DEF IInv, TokenInv
      <4>5. CASE job.at = "returning"
        <5>1. ~(job.message.method \in TransactionEnds /\ answer.code = "OK")
          BY <2>4, <4>5 DEF Ends
        <5>2. job.message.method # "commitTransaction"
          BY <2>1, <4>5, <5>1 DEF TransactionEnds
        <5> QED
          BY <1>3, <4>5, <5>1, <5>2 DEF IInv, TokenInv
      <4> QED
        BY <4>2, <4>3, <4>4, <4>5
    <3> QED
      BY <1>5, <2>1, <3>1, <3>2 DEF Agree
  <2> QED
    BY <2>2, <2>3, <2>4
<1>23. CASE Aside
  BY <1>10, <1>11, <1>12, <1>13, <1>14, <1>15, <1>16, <1>23 DEF Aside
<1>24. CASE Dealing
  BY <1>17, <1>18, <1>19, <1>20, <1>21, <1>22, <1>24 DEF Dealing
<1> QED
  BY <1>1, <1>23, <1>24

-----------------------------------------------------------------------------
(* The queue. *)

\* Where the k-th request was before the i-th was taken.
Was(i, k) == IF k < i THEN k ELSE k + 1

\* A request is taken from the queue.
LEMMA DequeuedQueue ==
    ASSUME queue \in Seq(Messages), NEW i \in DOMAIN queue, queue' = Dequeued(i)
    PROVE  /\ \A k \in DOMAIN queue' :
                /\ Was(i, k) \in DOMAIN queue /\ Was(i, k) # i
                /\ queue'[k] = queue[Was(i, k)]
           /\ \A k, l \in DOMAIN queue' : k < l => Was(i, k) < Was(i, l)
           /\ \A j \in DOMAIN queue : j # i => \E k \in DOMAIN queue' : queue'[k] = queue[j]
<1>1. /\ queue' \in Seq(Messages) /\ Len(queue') = Len(queue) - 1
      /\ \A k \in DOMAIN queue' : queue'[k] = queue[Was(i, k)]
  BY DequeueKeeps DEF Dequeued, Was
<1>2. /\ Len(queue) \in Nat /\ DOMAIN queue = 1 .. Len(queue) /\ i \in 1 .. Len(queue)
      /\ DOMAIN queue' = 1 .. Len(queue) - 1
  BY <1>1
<1>3. \A k \in DOMAIN queue' : Was(i, k) \in DOMAIN queue /\ Was(i, k) # i
  BY <1>2 DEF Was
<1>4. \A k, l \in DOMAIN queue' : k < l => Was(i, k) < Was(i, l)
  BY <1>2 DEF Was
<1>5. ASSUME NEW j \in DOMAIN queue, j # i
      PROVE  \E k \in DOMAIN queue' : queue'[k] = queue[j]
  <2>1. CASE j < i
    <3>1. j \in DOMAIN queue' /\ Was(i, j) = j
      BY <1>2, <2>1 DEF Was
    <3> QED
      BY <1>1, <3>1
  <2>2. CASE ~(j < i)
    <3>1. j - 1 \in DOMAIN queue' /\ Was(i, j - 1) = j
      BY <1>2, <1>5, <2>2 DEF Was
    <3> QED
      BY <1>1, <3>1
  <2> QED
    BY <2>1, <2>2
<1> QED
  BY <1>1, <1>3, <1>4, <1>5

\* Requests that wait at different places are different requests.
LEMMA QueueDistinct ==
    ASSUME IInv, NEW i \in DOMAIN queue, NEW j \in DOMAIN queue, i # j
    PROVE  IdOf(queue[i]) # IdOf(queue[j])
<1>1. i \in Nat /\ j \in Nat /\ queue[i] \in Messages /\ queue[j] \in Messages
  BY DEF IInv, TypeOK, BrokerTypes
<1>2. queue[i].n \in Nat /\ queue[j].n \in Nat
  BY <1>1 DEF Messages
<1>3. SUFFICES ASSUME queue[i].client = queue[j].client, queue[i].n = queue[j].n
               PROVE  FALSE
  BY DEF IdOf
<1>4. i < j \/ j < i
  BY <1>1
<1> QED
  BY <1>2, <1>3, <1>4 DEF IInv, QueueInv

\* Request `m` waits after the step too.
StillWaits(m) ==
    /\ IdOf(m) \in Asked'
    /\ log'[m.client][m.n] = [method |-> m.method, tx |-> m.tx, outcome |-> "waiting"]
OrderKept ==
    \A k, l \in DOMAIN queue' :
        queue'[k].client = queue'[l].client /\ k < l => queue'[k].n < queue'[l].n

\* A closed broker has nothing in its queue.
LEMMA ClosedQueue ==
    ASSUME Close
    PROVE  QueueInv'
<1>1. closed' /\ watched' = {} /\ queue' = <<>> /\ DOMAIN queue' = {} /\ job' = Idle
  BY DEF Close
<1>2. job'.at = "idle"
  BY <1>1 DEF Idle
<1> QED
  BY <1>1, <1>2 DEF QueueInv, Awaiting

\* Nothing is in hand after the step.
LEMMA QuietQueue ==
    ASSUME ~closed', job'.at \notin Awaiting, OrderKept,
           \A k \in DOMAIN queue' : StillWaits(queue'[k]),
           \A w \in Asked' : log'[w[1]][w[2]].outcome = "waiting" =>
              \E k \in DOMAIN queue' : IdOf(queue'[k]) = w
    PROVE  QueueInv'
<1>1. /\ \A i \in DOMAIN queue' : Waits(queue[i])'
      /\ (\A i, j \in DOMAIN queue :
            queue[i].client = queue[j].client /\ i < j => queue[i].n < queue[j].n)'
      /\ (\A w \in Asked : Entry(w).outcome = "waiting" =>
            IsInHand(w) \/ \E i \in DOMAIN queue : IdOf(queue[i]) = w)'
  BY DEF OrderKept, StillWaits, Waits, Entry, IdOf
<1> QED
  BY <1>1 DEF QueueInv, Awaiting

\* Request `job.message` is in hand after the step.
LEMMA BusyQueue ==
    ASSUME ~closed', job'.at \in Awaiting, OrderKept,
           \A k \in DOMAIN queue' : StillWaits(queue'[k]),
           StillWaits(job'.message),
           \A k \in DOMAIN queue' : queue'[k].client = job'.message.client =>
              /\ queue'[k].n # job'.message.n
              /\ job'.message.method # "close" => job'.message.n < queue'[k].n,
           job'.at = "unwinding" =>
              job'.message.method = "commitTransaction" /\ job'.error # "OK",
           job'.at = "rebinding" =>
              job'.message.method = "executePrepared" /\ MayUse(job.message)',
           job'.at \in {"closing", "preparing", "restoring", "beginning"} =>
              job'.message.method \in Managing,
           \A w \in Asked' : log'[w[1]][w[2]].outcome = "waiting" =>
              w = IdOf(job'.message) \/ \E k \in DOMAIN queue' : IdOf(queue'[k]) = w
    PROVE  QueueInv'
<1>1. /\ \A i \in DOMAIN queue' : Waits(queue[i])'
      /\ (\A i, j \in DOMAIN queue :
            queue[i].client = queue[j].client /\ i < j => queue[i].n < queue[j].n)'
      /\ Waits(job.message)'
  BY DEF OrderKept, StillWaits, Waits, Entry, IdOf
<1>2. (\A w \in Asked : Entry(w).outcome = "waiting" =>
         IsInHand(w) \/ \E i \in DOMAIN queue : IdOf(queue[i]) = w)'
  BY DEF Entry, IdOf, IsInHand
<1> QED
  BY <1>1, <1>2 DEF QueueInv

\* Every step keeps the queue: each request that waits is in it or in hand, once, and a
\* client's in the order they came.
LEMMA QueueStep ==
    ASSUME IInv, Next
    PROVE  QueueInv'
<1>1. TypeOK /\ Kinds /\ HostTypes' /\ queue \in Seq(Messages) /\ TypedJob(job)
  BY EveryKind DEF IInv, TypeOK, BrokerTypes, KindOK
<1>2. /\ \A i \in DOMAIN queue : Waits(queue[i]) /\ queue[i] \in Messages
      /\ \A i, j \in DOMAIN queue :
           queue[i].client = queue[j].client /\ i < j => queue[i].n < queue[j].n
      /\ job.at \in Awaiting =>
           /\ Waits(job.message)
           /\ \A i \in DOMAIN queue : queue[i].client = job.message.client =>
                /\ queue[i].n # job.message.n
                /\ job.message.method # "close" => job.message.n < queue[i].n
      /\ ~closed => \A w \in Asked : Entry(w).outcome = "waiting" =>
           IsInHand(w) \/ \E i \in DOMAIN queue : IdOf(queue[i]) = w
  BY <1>1 DEF IInv, QueueInv
<1>3. \A m : Waits(m) /\ Asked \subseteq Asked' /\ After(IdOf(m)) = Entry(IdOf(m)) => StillWaits(m)
  BY DEF Waits, StillWaits, Entry, After, IdOf
<1>4. \A seen : Scan(seen).at = "scan"
  BY DEF Scan, Idle
<1>5. \A w : After(w) = log'[w[1]][w[2]]
  BY DEF After
<1>6. "idle" \notin Awaiting /\ "scan" \notin Awaiting
  BY DEF Awaiting
<1>7. CASE Passing
  <2>1. UNCHANGED <<log, queue, closed>> /\ Asked' = Asked
    BY <1>7 DEF Passing, Asked
  <2>2. CASE UNCHANGED job
    <3>1. job.at \in Awaiting => UNCHANGED transaction
      BY <1>7 DEF Passing
    <3>2. closed => UNCHANGED watched
      BY <1>7 DEF Passing
    <3> QED
      BY <1>6, <2>1, <2>2, <3>1, <3>2
         DEF IInv, QueueInv, Waits, Entry, IsInHand, MayUse, OwnTransaction, InTransaction, Awaiting
  <2>3. CASE job.at \notin Awaiting /\ job'.at \notin Awaiting /\ ~closed
    <3>1. \A k \in DOMAIN queue' : StillWaits(queue'[k])
      BY <1>2, <2>1 DEF Waits, StillWaits, Entry, IdOf
    <3>2. OrderKept
      BY <1>2, <2>1 DEF OrderKept
    <3>3. \A w \in Asked' : log'[w[1]][w[2]].outcome = "waiting" =>
             \E k \in DOMAIN queue' : IdOf(queue'[k]) = w
      BY <1>2, <2>1, <2>3 DEF Entry, IsInHand
    <3> QED
      BY <2>1, <2>3, <3>1, <3>2, <3>3, QuietQueue
  <2> QED
    BY <1>7, <2>2, <2>3 DEF Passing
<1>8. CASE Close
  BY <1>8, ClosedQueue
<1>9. ASSUME NEW m \in Messages, NEW code \in Outcomes, Joins(m, code), code # "waiting",
             ~closed, UNCHANGED <<closed, queue>>, job' = job \/ job' = Woken,
             UNCHANGED transaction
      PROVE  QueueInv'
  <2>1. Asked' = Asked \cup {IdOf(m)} /\ \A w \in Asked : After(w) = Entry(w)
    BY <1>9 DEF Joins
  <2>2. \A x : Waits(x) => StillWaits(x)
    <3>1. \A x : Waits(x) => IdOf(x) \in Asked
      BY DEF Waits
    <3> QED
      BY <1>3, <2>1, <3>1
  <2>3. OrderKept /\ \A k \in DOMAIN queue' : StillWaits(queue'[k])
    BY <1>2, <1>9, <2>2 DEF OrderKept
  <2>4. ASSUME NEW w \in Asked', log'[w[1]][w[2]].outcome = "waiting"
        PROVE  IsInHand(w) \/ \E k \in DOMAIN queue' : IdOf(queue'[k]) = w
    <3>1. After(IdOf(m)).outcome = code
      BY <1>9 DEF Joins
    <3>2. w # IdOf(m)
      BY <1>5, <1>9, <2>4, <3>1
    <3>3. w \in Asked /\ Entry(w).outcome = "waiting"
      BY <1>5, <2>1, <2>4, <3>2
    <3> QED
      BY <1>2, <1>9, <3>3
  <2>5. CASE job.at \in Awaiting
    <3>1. job' = job
      BY <1>6, <1>9, <2>5 DEF Woken
    <3>2. job.at = "rebinding" => job.message.method = "executePrepared" /\ MayUse(job.message)'
      BY <1>9, <3>1 DEF IInv, QueueInv, MayUse, OwnTransaction, InTransaction
    <3>3. /\ job.at = "unwinding" =>
               job.message.method = "commitTransaction" /\ job.error # "OK"
          /\ job.at \in {"closing", "preparing", "restoring", "beginning"} =>
               job.message.method \in Managing
      BY DEF IInv, QueueInv
    <3>4. StillWaits(job'.message)
      BY <1>2, <2>2, <2>5, <3>1
    <3>5. \A w \in Asked' : log'[w[1]][w[2]].outcome = "waiting" =>
             w = IdOf(job'.message) \/ \E k \in DOMAIN queue' : IdOf(queue'[k]) = w
      BY <2>4, <3>1 DEF IsInHand
    <3>6. \A k \in DOMAIN queue' : queue'[k].client = job'.message.client =>
             /\ queue'[k].n # job'.message.n
             /\ job'.message.method # "close" => job'.message.n < queue'[k].n
      BY <1>2, <1>9, <2>5, <3>1
    <3>7. ~closed' /\ job'.at \in Awaiting
      BY <1>9, <2>5, <3>1
    <3> QED
      BY <2>3, <3>1, <3>2, <3>3, <3>4, <3>5, <3>6, <3>7, BusyQueue
  <2>6. CASE job.at \notin Awaiting
    <3>1. job'.at \notin Awaiting
      BY <1>4, <1>6, <1>9, <2>6 DEF Woken
    <3>2. \A w \in Asked' : log'[w[1]][w[2]].outcome = "waiting" =>
             \E k \in DOMAIN queue' : IdOf(queue'[k]) = w
      BY <2>4, <2>6 DEF IsInHand
    <3> QED
      BY <1>9, <2>3, <3>1, <3>2, QuietQueue
  <2> QED
    BY <2>5, <2>6
<1>10. ASSUME NEW m \in Messages, NEW code \in Outcomes, Refusing(m, code)
       PROVE  QueueInv'
  BY <1>9, <1>10 DEF Refusing, Refusals
<1>11. ASSUME NEW m \in Messages, Serving(m)
       PROVE  QueueInv'
  <2>1. CASE UNCHANGED <<queue, closed, job>>
    <3>1. answer'.code \in Outcomes /\ answer'.code # "waiting"
      BY <1>1 DEF HostTypes, Outcomes, AnswerCodes, FatalCodes
    <3> QED
      BY <1>9, <1>11, <2>1, <3>1 DEF Serving
  <2> QED
    BY <1>8, <1>11, <2>1 DEF Serving
<1>12. ASSUME NEW m \in Messages, Queueing(m)
       PROVE  QueueInv'
  <2>1. /\ Asked' = Asked \cup {IdOf(m)} /\ \A w \in Asked : After(w) = Entry(w)
        /\ After(IdOf(m)) = [method |-> m.method, tx |-> m.tx, outcome |-> "waiting"]
        /\ \A w \in Asked : w[1] = m.client => w[2] < m.n
        /\ ~closed /\ ~closed' /\ queue' = Append(queue, m) /\ job' = Woken
        /\ UNCHANGED transaction
    BY <1>12 DEF Queueing, Joins
  <2>2. \A x : Waits(x) => StillWaits(x)
    <3>1. \A x : Waits(x) => IdOf(x) \in Asked
      BY DEF Waits
    <3> QED
      BY <1>3, <2>1, <3>1
  <2>3. StillWaits(m)
    BY <2>1 DEF StillWaits, After, IdOf
  <2>4. /\ DOMAIN queue' = DOMAIN queue \cup {Len(queue) + 1}
        /\ \A k \in DOMAIN queue : queue'[k] = queue[k] /\ k < Len(queue) + 1
        /\ queue'[Len(queue) + 1] = m
    BY <1>1, <2>1
  <2>5. \A k \in DOMAIN queue : queue[k].client = m.client => queue[k].n < m.n
    BY <1>2, <2>1 DEF Waits, IdOf
  <2>6. \A k \in DOMAIN queue' : StillWaits(queue'[k])
    BY <1>2, <2>2, <2>3, <2>4
  <2>7. OrderKept
    <3>1. SUFFICES ASSUME NEW k \in DOMAIN queue', NEW l \in DOMAIN queue',
                          queue'[k].client = queue'[l].client, k < l
                   PROVE  queue'[k].n < queue'[l].n
      BY DEF OrderKept
    <3>2. k \in DOMAIN queue
      BY <1>1, <2>4, <3>1
    <3> QED
      BY <1>2, <2>4, <2>5, <3>1, <3>2
  <2>8. ASSUME NEW w \in Asked', log'[w[1]][w[2]].outcome = "waiting"
        PROVE  IsInHand(w) \/ \E k \in DOMAIN queue' : IdOf(queue'[k]) = w
    <3>1. CASE w = IdOf(m)
      BY <2>4, <3>1
    <3>2. CASE w # IdOf(m)
      <4>1. w \in Asked /\ Entry(w).outcome = "waiting"
        BY <1>5, <2>1, <2>8, <3>2
      <4> QED
        BY <1>2, <2>1, <2>4, <4>1
    <3> QED
      BY <3>1, <3>2
  <2>9. CASE job.at \in Awaiting
    <3>1. job' = job
      BY <1>6, <2>1, <2>9 DEF Woken
    <3>2. job.at = "rebinding" => job.message.method = "executePrepared" /\ MayUse(job.message)'
      BY <2>1, <3>1 DEF IInv, QueueInv, MayUse, OwnTransaction, InTransaction
    <3>3. /\ job.at = "unwinding" =>
               job.message.method = "commitTransaction" /\ job.error # "OK"
          /\ job.at \in {"closing", "preparing", "restoring", "beginning"} =>
               job.message.method \in Managing
      BY DEF IInv, QueueInv
    <3>4. StillWaits(job'.message)
      BY <1>2, <2>2, <2>9, <3>1
    <3>5. \A w \in Asked' : log'[w[1]][w[2]].outcome = "waiting" =>
             w = IdOf(job'.message) \/ \E k \in DOMAIN queue' : IdOf(queue'[k]) = w
      BY <2>8, <3>1 DEF IsInHand
    <3>6. m.client = job.message.client => job.message.n < m.n
      BY <1>2, <2>1, <2>9 DEF Waits, IdOf
    <3>7. job.message.n \in Nat /\ m.n \in Nat
      BY <1>1, <2>9 DEF TypedJob, Messages
    <3>8. \A k \in DOMAIN queue' : queue'[k].client = job'.message.client =>
             /\ queue'[k].n # job'.message.n
             /\ job'.message.method # "close" => job'.message.n < queue'[k].n
      BY <1>2, <2>4, <2>9, <3>1, <3>6, <3>7
    <3>9. job'.at \in Awaiting
      BY <2>9, <3>1
    <3> QED
      BY <2>1, <2>6, <2>7, <3>1, <3>2, <3>3, <3>4, <3>5, <3>8, <3>9, BusyQueue
  <2>10. CASE job.at \notin Awaiting
    <3>1. job'.at \notin Awaiting
      BY <1>4, <1>6, <2>1, <2>10 DEF Woken
    <3>2. \A w \in Asked' : log'[w[1]][w[2]].outcome = "waiting" =>
             \E k \in DOMAIN queue' : IdOf(queue'[k]) = w
      BY <2>8, <2>10 DEF IsInHand
    <3> QED
      BY <2>1, <2>6, <2>7, <3>1, <3>2, QuietQueue
  <2> QED
    BY <2>9, <2>10
<1>13. ASSUME NEW i \in DOMAIN queue, queue' = Dequeued(i)
       PROVE  /\ OrderKept
              /\ \A k \in DOMAIN queue' : \E j \in DOMAIN queue : j # i /\ queue'[k] = queue[j]
              /\ \A j \in DOMAIN queue : j # i => \E k \in DOMAIN queue' : queue'[k] = queue[j]
  <2>1. /\ \A k \in DOMAIN queue' :
             /\ Was(i, k) \in DOMAIN queue /\ Was(i, k) # i
             /\ queue'[k] = queue[Was(i, k)]
        /\ \A k, l \in DOMAIN queue' : k < l => Was(i, k) < Was(i, l)
        /\ \A j \in DOMAIN queue : j # i => \E k \in DOMAIN queue' : queue'[k] = queue[j]
    BY <1>1, <1>13, DequeuedQueue
  <2>2. OrderKept
    BY <1>2, <2>1 DEF OrderKept
  <2> QED
    BY <2>1, <2>2
<1>14. ASSUME NEW i \in DOMAIN queue, NEW code \in Outcomes, Answering(i, code)
       PROVE  QueueInv'
  <2>1. /\ ~closed /\ ~closed' /\ job.at = "scan" /\ job'.at = "scan" /\ queue' = Dequeued(i)
        /\ Asked' = Asked
        /\ \A v \in Asked : v # IdOf(queue[i]) => After(v) = Entry(v)
        /\ After(IdOf(queue[i])).outcome = code
    BY <1>4, <1>14 DEF Answering, Settles
  <2>2. code # "waiting"
    BY <1>14 DEF Answering, Refusals
  <2>3. \A k \in DOMAIN queue' : StillWaits(queue'[k])
    <3>1. \A j \in DOMAIN queue : j # i =>
            IdOf(queue[j]) # IdOf(queue[i]) /\ IdOf(queue[j]) \in Asked
      BY <1>2, QueueDistinct DEF Waits
    <3>2. \A j \in DOMAIN queue : j # i => StillWaits(queue[j])
      BY <1>2, <1>3, <2>1, <3>1
    <3> QED
      BY <1>13, <2>1, <3>2
  <2>4. \A w \in Asked' : log'[w[1]][w[2]].outcome = "waiting" =>
           \E k \in DOMAIN queue' : IdOf(queue'[k]) = w
    <3>1. SUFFICES ASSUME NEW w \in Asked, log'[w[1]][w[2]].outcome = "waiting"
                   PROVE  \E k \in DOMAIN queue' : IdOf(queue'[k]) = w
      BY <2>1
    <3>2. w # IdOf(queue[i]) /\ Entry(w).outcome = "waiting"
      BY <1>5, <2>1, <2>2, <3>1
    <3>3. PICK j \in DOMAIN queue : IdOf(queue[j]) = w
      BY <1>2, <1>6, <2>1, <3>2 DEF IsInHand
    <3> QED
      BY <1>13, <2>1, <3>2, <3>3
  <2> QED
    BY <1>6, <1>13, <2>1, <2>3, <2>4, QuietQueue
<1>15. ASSUME NEW i \in DOMAIN queue, NEW at \in Awaiting, Taking(i, at)
       PROVE  QueueInv'
  <2>1. /\ ~closed /\ ~closed' /\ job.at = "scan" /\ queue' = Dequeued(i)
        /\ job'.at = at /\ job'.message = queue[i] /\ at # "unwinding"
        /\ Earliest(i) /\ queue[i].method # "init" /\ CallFor(queue[i], at)
        /\ UNCHANGED <<log, transaction>>
    BY <1>15 DEF Taking, Idle
  <2>2. Asked' = Asked
    BY <2>1 DEF Asked
  <2>3. \A m : Waits(m) => StillWaits(m)
    BY <2>1, <2>2 DEF Waits, StillWaits, Entry, IdOf
  <2>4. \A k \in DOMAIN queue' : StillWaits(queue'[k])
    BY <1>2, <1>13, <2>1, <2>3
  <2>5. ASSUME NEW k \in DOMAIN queue', queue'[k].client = job'.message.client
        PROVE  /\ queue'[k].n # job'.message.n
               /\ job'.message.method # "close" => job'.message.n < queue'[k].n
    <3>1. PICK j \in DOMAIN queue : j # i /\ queue'[k] = queue[j]
      BY <1>13, <2>1
    <3>2. queue[j].client = queue[i].client
      BY <2>1, <2>5, <3>1
    <3>3. queue[j].n # queue[i].n
      BY <3>1, <3>2, QueueDistinct DEF IdOf
    <3>4. queue[i].method # "close" => i < j
      BY <1>1, <2>1, <3>1, <3>2 DEF Earliest
    <3> QED
      BY <1>2, <2>1, <3>1, <3>2, <3>3, <3>4
  <2>6. \A w \in Asked' : log'[w[1]][w[2]].outcome = "waiting" =>
           w = IdOf(job'.message) \/ \E k \in DOMAIN queue' : IdOf(queue'[k]) = w
    <3>1. SUFFICES ASSUME NEW w \in Asked, Entry(w).outcome = "waiting", w # IdOf(queue[i])
                   PROVE  \E k \in DOMAIN queue' : IdOf(queue'[k]) = w
      BY <2>1, <2>2 DEF Entry
    <3>2. PICK j \in DOMAIN queue : IdOf(queue[j]) = w
      BY <1>2, <1>6, <2>1, <3>1 DEF IsInHand
    <3> QED
      BY <1>13, <2>1, <3>1, <3>2
  <2>7. /\ at = "rebinding" => queue[i].method = "executePrepared" /\ MayUse(queue[i])
        /\ at \in {"closing", "preparing", "restoring", "beginning"} => queue[i].method \in Managing
    BY <2>1 DEF CallFor
  <2>8. job'.at = "rebinding" =>
          job'.message.method = "executePrepared" /\ MayUse(job.message)'
    BY <2>1, <2>7 DEF MayUse, OwnTransaction, InTransaction
  <2>9. StillWaits(job'.message)
    BY <1>2, <2>1, <2>3
  <2> QED
    BY <1>13, <2>1, <2>4, <2>5, <2>6, <2>7, <2>8, <2>9, BusyQueue
<1>16. ASSUME NEW at \in Awaiting, Continuing(at)
       PROVE  QueueInv'
  <2>1. /\ ~closed /\ ~closed' /\ job.at \in Awaiting
        /\ UNCHANGED <<log, queue, transaction>>
    BY <1>16 DEF Continuing
  <2>2. job'.at = at /\ job'.message = job.message
    BY <1>1, <1>16 DEF Continuing, TypedJob, Jobs
  <2>3. Asked' = Asked
    BY <2>1 DEF Asked
  <2>4. \A m : Waits(m) => StillWaits(m)
    BY <2>1, <2>3 DEF Waits, StillWaits, Entry, IdOf
  <2>5. \A k \in DOMAIN queue' : StillWaits(queue'[k])
    BY <1>2, <2>1, <2>4
  <2>6. StillWaits(job'.message)
    BY <1>2, <2>1, <2>2, <2>4
  <2>7. OrderKept
    BY <1>2, <2>1 DEF OrderKept
  <2>8. \A k \in DOMAIN queue' : queue'[k].client = job'.message.client =>
           /\ queue'[k].n # job'.message.n
           /\ job'.message.method # "close" => job'.message.n < queue'[k].n
    BY <1>2, <2>1, <2>2
  <2>9. \A w \in Asked' : log'[w[1]][w[2]].outcome = "waiting" =>
           w = IdOf(job'.message) \/ \E k \in DOMAIN queue' : IdOf(queue'[k]) = w
    BY <1>2, <2>1, <2>2, <2>3 DEF Entry, IsInHand
  <2>10. /\ at = "unwinding" => job.message.method = "commitTransaction"
         /\ at \notin {"rebinding", "closing", "preparing", "restoring"}
         /\ at = "beginning" => job.message.method \in Managing
    BY <1>16 DEF Continuing, CallFor
  <2>11. at = "unwinding" => job'.error # "OK"
    BY <1>1, <1>16 DEF Continuing, TypedJob, Jobs
  <2> QED
    BY <2>1, <2>2, <2>5, <2>6, <2>7, <2>8, <2>9, <2>10, <2>11,
       BusyQueue
<1>17. ASSUME NEW code \in Outcomes, NEW value \in Nat, Finishing(code, value), ~Close
       PROVE  QueueInv'
  <2>1. /\ ~closed /\ ~closed' /\ job.at \in Awaiting /\ job'.at = "scan" /\ UNCHANGED queue
        /\ Asked' = Asked
        /\ \A v \in Asked : v # IdOf(job.message) => After(v) = Entry(v)
        /\ After(IdOf(job.message)).outcome = code
    BY <1>4, <1>17 DEF Finishing, Settles
  <2>2. code # "waiting"
    <3>1. code \in AnswerCodes
      BY <1>1, <1>17 DEF Finishing, TypedJob, Jobs, TypeOK, HostTypes
    <3> QED
      BY <3>1 DEF AnswerCodes, FatalCodes
  <2>3. \A k \in DOMAIN queue' : StillWaits(queue'[k])
    <3>1. \A k \in DOMAIN queue : IdOf(queue[k]) # IdOf(job.message) /\ IdOf(queue[k]) \in Asked
      BY <1>2, <2>1 DEF Waits, IdOf
    <3> QED
      BY <1>2, <1>3, <2>1, <3>1
  <2>4. \A w \in Asked' : log'[w[1]][w[2]].outcome = "waiting" =>
           \E k \in DOMAIN queue' : IdOf(queue'[k]) = w
    BY <1>2, <1>5, <2>1, <2>2 DEF IsInHand
  <2>5. OrderKept
    BY <1>2, <2>1 DEF OrderKept
  <2> QED
    BY <1>6, <2>1, <2>3, <2>4, <2>5, QuietQueue
<1> QED
  BY <1>1, <1>7, <1>8, <1>10, <1>11, <1>12, <1>14, <1>15, <1>16, <1>17
     DEF Kinds, Dealing, Shutting

-----------------------------------------------------------------------------
(* Requests run, and are answered, in order. *)

\* The host is called for request `m`, whose answer waits.
Calling(m, at) ==
    /\ ~closed /\ ~closed' /\ CallFor(m, at)
    /\ m \in Messages /\ Waits(m) /\ at # "unwinding"
    /\ job'.at = at /\ job'.message = m
    /\ UNCHANGED <<log, tab, transaction>> /\ Asked' = Asked
    /\ job.at \notin {"returning", "unwinding"}
\* A commit that failed is unwound.
Unwinding ==
    /\ ~closed /\ ~closed' /\ RollbackCall(transaction.token)
    /\ job.at = "returning" /\ job.message.method = "commitTransaction" /\ answer.code # "OK"
    /\ job'.at = "unwinding" /\ job'.message = job.message /\ job'.error = answer.code
    /\ UNCHANGED <<log, tab, transaction>> /\ Asked' = Asked

\* Taking and Continuing: a call of the host for a request that waits.
LEMMA CallingKind ==
    ASSUME IInv,
           \/ \E i \in DOMAIN queue, at \in Awaiting : Taking(i, at)
           \/ \E at \in Awaiting : Continuing(at)
    PROVE  (\E m \in Messages, at \in Awaiting : Calling(m, at)) \/ Unwinding
<1>1. queue \in Seq(Messages) /\ TypedJob(job)
  BY DEF IInv, TypeOK, BrokerTypes
<1>2. UNCHANGED log => Asked' = Asked
  BY DEF Asked
<1>3. ASSUME NEW i \in DOMAIN queue, NEW at \in Awaiting, Taking(i, at)
      PROVE  Calling(queue[i], at) /\ queue[i] \in Messages
  <2>1. Waits(queue[i]) /\ queue[i] \in Messages
    BY <1>1 DEF IInv, QueueInv
  <2>2. job'.at = at /\ job'.message = queue[i]
    BY <1>3 DEF Taking, Idle
  <2> QED
    BY <1>2, <1>3, <2>1, <2>2 DEF Taking, Calling
<1>4. ASSUME NEW at \in Awaiting, Continuing(at)
      PROVE  (Calling(job.message, at) /\ job.message \in Messages) \/ Unwinding
  <2>1. Waits(job.message) /\ job.message \in Messages /\ job \in Jobs
    BY <1>1, <1>4 DEF IInv, QueueInv, TypedJob, Continuing
  <2>2. ~closed /\ ~closed' /\ UNCHANGED <<log, tab, transaction>> /\ Asked' = Asked
    BY <1>2, <1>4 DEF Continuing
  <2>3. CASE job.at \in {"restoring", "rebinding"}
    <3>1. /\ job'.at = at /\ job'.message = job.message /\ CallFor(job.message, at)
          /\ at \in {"beginning", "returning"}
      BY <1>4, <2>1, <2>3 DEF Continuing, Jobs
    <3> QED
      BY <2>1, <2>2, <2>3, <3>1 DEF Calling
  <2>4. CASE job.at = "returning"
    <3>1. /\ job'.at = "unwinding" /\ job'.message = job.message /\ job'.error = answer.code
          /\ job.message.method = "commitTransaction" /\ answer.code # "OK"
          /\ RollbackCall(transaction.token)
      BY <1>4, <2>1, <2>4 DEF Continuing, Jobs
    <3> QED
      BY <2>2, <2>4, <3>1 DEF Unwinding
  <2> QED
    BY <1>4, <2>3, <2>4 DEF Continuing
<1> QED
  BY <1>3, <1>4

\* The kinds of step once more, by what they do to requests.
RequestKinds ==
    \/ Passing
    \/ Shutting
    \/ \E m \in Messages :
         /\ m.n <= MaxRequests[m.client] /\ m.tx < nextTransactionId
         /\ m.method = "setSchema" => m.tx = None
         /\ (\E code \in Outcomes : Refusing(m, code)) \/ Queueing(m) \/ Serving(m)
    \/ \E i \in DOMAIN queue, code \in Outcomes : Answering(i, code)
    \/ \E m \in Messages, at \in Awaiting : Calling(m, at)
    \/ Unwinding
    \/ \E code \in Outcomes, value \in Nat : Finishing(code, value)

\* Every step is one of these.
LEMMA EveryRequestKind ==
    ASSUME IInv, Next
    PROVE  /\ RequestKinds /\ TypeOK /\ HostInv /\ HostTypes
           /\ TypeOK' /\ HostTypes' /\ HostInv' /\ TokenInv' /\ QueueInv'
<1>1. Kinds
  BY EveryKind DEF KindOK
<1>2. /\ TypeOK /\ HostInv /\ HostTypes
      /\ TypeOK' /\ HostTypes' /\ HostInv' /\ TokenInv' /\ QueueInv'
  BY TypesStep, TokenStep, QueueStep DEF IInv, TypeOK
<1> QED
  BY <1>1, <1>2, CallingKind DEF Kinds, Dealing, RequestKinds

\* A request keeps its method and its token, and an answer is final.
LEMMA EntriesStay ==
    ASSUME IInv, Next, NEW w \in Asked
    PROVE  /\ w \in Asked'
           /\ After(w).method = Entry(w).method /\ After(w).tx = Entry(w).tx
           /\ Entry(w).outcome # "waiting" => After(w).outcome = Entry(w).outcome
<1>1. RequestKinds /\ TypeOK
  BY EveryRequestKind
<1>2. UNCHANGED log => Asked' = Asked /\ After(w) = Entry(w)
  BY DEF Asked, Entry, After
<1>3. CASE Passing \/ Shutting \/ Unwinding \/ \E m \in Messages, at \in Awaiting : Calling(m, at)
  BY <1>2, <1>3 DEF Passing, Shutting, Unwinding, Calling
<1>4. ASSUME NEW m \in Messages, NEW code, Joins(m, code)
      PROVE  w \in Asked' /\ After(w) = Entry(w)
  BY <1>4 DEF Joins
<1>5. CASE \E m \in Messages :
             (\E code \in Outcomes : Refusing(m, code)) \/ Queueing(m) \/ Serving(m)
  <2>1. \E m \in Messages : \E code : Joins(m, code)
    BY <1>5 DEF Refusing, Queueing, Serving
  <2> QED
    BY <1>4, <2>1
<1>6. ASSUME NEW x, NEW code, NEW value, Settles(x, code, value),
             Entry(x).outcome = "waiting"
      PROVE  /\ w \in Asked'
             /\ After(w).method = Entry(w).method /\ After(w).tx = Entry(w).tx
             /\ Entry(w).outcome # "waiting" => After(w).outcome = Entry(w).outcome
  BY <1>6 DEF Settles
<1>7. ASSUME NEW i \in DOMAIN queue, NEW code \in Outcomes, Answering(i, code)
      PROVE  /\ w \in Asked'
             /\ After(w).method = Entry(w).method /\ After(w).tx = Entry(w).tx
             /\ Entry(w).outcome # "waiting" => After(w).outcome = Entry(w).outcome
  <2>1. Settles(IdOf(queue[i]), code, None)
    BY <1>7 DEF Answering
  <2>2. Entry(IdOf(queue[i])).outcome = "waiting"
    BY DEF IInv, QueueInv, Waits
  <2> QED
    BY <1>6, <2>1, <2>2
<1>8. ASSUME NEW code \in Outcomes, NEW value \in Nat, Finishing(code, value)
      PROVE  /\ w \in Asked'
             /\ After(w).method = Entry(w).method /\ After(w).tx = Entry(w).tx
             /\ Entry(w).outcome # "waiting" => After(w).outcome = Entry(w).outcome
  <2>1. Settles(IdOf(job.message), code, value) /\ job.at \in Awaiting
    BY <1>8 DEF Finishing
  <2>2. Entry(IdOf(job.message)).outcome = "waiting"
    BY <2>1 DEF IInv, QueueInv, Waits
  <2> QED
    BY <1>6, <2>1, <2>2
<1> QED
  BY <1>1, <1>3, <1>5, <1>7, <1>8 DEF RequestKinds

\* What a request may be answered with.
LEMMA CodesApart ==
    /\ "waiting" \notin AnswerCodes /\ AnswerCodes \cap Refusals = {}
    /\ "waiting" \notin Refusals
  BY DEF AnswerCodes, FatalCodes, Refusals

\* Every step keeps the order.
LEMMA OrderStep ==
    ASSUME IInv, Next
    PROVE  OrderInv'
<1>1. RequestKinds /\ TypeOK /\ HostTypes'
  BY EveryRequestKind
<1>2. SUFFICES ASSUME NEW v \in Asked', NEW w \in Asked', v[1] = w[1], v[2] < w[2],
                      After(w).method \notin {"init", "close"},
                      After(w).outcome \in AnswerCodes, After(v).outcome = "waiting"
               PROVE  FALSE
  BY DEF OrderInv, Entry, After
<1>3. v \in Asked => Entry(v).outcome = "waiting"
  BY <1>2, EntriesStay
<1>4. w \in Asked => Entry(w).method \notin {"init", "close"}
  BY <1>2, EntriesStay
<1>5. v \in Asked /\ w \in Asked => Entry(w).outcome \notin AnswerCodes
  BY <1>2, <1>3, <1>4 DEF IInv, OrderInv
<1>6. UNCHANGED log => Asked' = Asked /\ After(w) = Entry(w)
  BY DEF Asked, Entry, After
<1>7. CASE Passing \/ Shutting \/ Unwinding \/ \E m \in Messages, at \in Awaiting : Calling(m, at)
  <2>1. UNCHANGED log
    BY <1>7 DEF Passing, Shutting, Unwinding, Calling
  <2> QED
    BY <1>2, <1>5, <1>6, <2>1
<1>8. ASSUME NEW m \in Messages, NEW code, Joins(m, code)
      PROVE  v \in Asked /\ w = IdOf(m) /\ code \in AnswerCodes
  <2>1. /\ Asked' = Asked \cup {IdOf(m)} /\ \A x \in Asked : After(x) = Entry(x)
        /\ After(IdOf(m)).outcome = code
        /\ \A x \in Asked : x[1] = m.client => x[2] < m.n
    BY <1>8 DEF Joins
  <2>2. IdOf(m)[1] = m.client /\ IdOf(m)[2] = m.n /\ m.n \in Nat
    BY DEF IdOf, Messages
  <2>3. \A x \in Asked : x[2] \in Nat
    BY <1>1, AskedIs DEF TypeOK, ClientTypes
  <2>4. v # IdOf(m)
    BY <1>2, <2>1, <2>2, <2>3
  <2>5. v \in Asked
    BY <1>2, <2>1, <2>4
  <2>6. w \notin Asked
    BY <1>2, <1>5, <2>1, <2>5
  <2> QED
    BY <1>2, <2>1, <2>5, <2>6
<1>9. ASSUME NEW m \in Messages,
             (\E code \in Outcomes : Refusing(m, code)) \/ Queueing(m)
      PROVE  FALSE
  BY <1>8, <1>9, CodesApart DEF Refusing, Queueing
<1>10. ASSUME NEW m \in Messages, Serving(m)
       PROVE  FALSE
  <2>1. v \in Asked /\ ~closed /\ queue = <<>> /\ job.at = "idle"
    BY <1>8, <1>10 DEF Serving, NothingWaits
  <2> QED
    BY <1>3, <2>1 DEF IInv, QueueInv, IsInHand, Awaiting
<1>11. ASSUME NEW x, NEW code, NEW value, Settles(x, code, value)
       PROVE  v \in Asked /\ w \in Asked /\ w = x /\ code \in AnswerCodes
  <2>1. v \in Asked /\ w \in Asked
    BY <1>2, <1>11 DEF Settles
  <2>2. w = x
    BY <1>2, <1>5, <1>11, <2>1 DEF Settles
  <2> QED
    BY <1>2, <1>11, <2>1, <2>2 DEF Settles
<1>12. v \in Asked /\ ~closed => IsInHand(v) \/ \E j \in DOMAIN queue : IdOf(queue[j]) = v
  BY <1>3 DEF IInv, QueueInv
<1>13. ASSUME NEW i \in DOMAIN queue, NEW code \in Outcomes, Answering(i, code)
       PROVE  FALSE
  <2>1. w = IdOf(queue[i]) /\ v \in Asked /\ w \in Asked /\ ~closed /\ job.at = "scan" /\ Earliest(i)
    BY <1>11, <1>13 DEF Answering
  <2>2. queue[i].method \notin {"init", "close"}
    <3>1. Entry(IdOf(queue[i])).method = queue[i].method
      BY DEF IInv, QueueInv, Waits
    <3> QED
      BY <1>4, <2>1, <3>1
  <2>3. PICK j \in DOMAIN queue : IdOf(queue[j]) = v
    BY <1>12, <2>1 DEF IsInHand, Awaiting
  <2>4. queue[j].client = queue[i].client /\ queue[j].n < queue[i].n
    BY <1>2, <2>1, <2>3 DEF IdOf
  <2>5. /\ i \in Nat /\ j \in Nat /\ queue[i] \in Messages /\ queue[j] \in Messages
        /\ ~(j < i)
    BY <1>1, <2>1, <2>2, <2>4 DEF Earliest, TypeOK, BrokerTypes
  <2>6. queue[i].n \in Nat /\ queue[j].n \in Nat
    BY <2>5 DEF Messages
  <2>7. i < j => queue[i].n < queue[j].n
    BY <2>4 DEF IInv, QueueInv
  <2> QED
    BY <2>4, <2>5, <2>6, <2>7
<1>14. ASSUME NEW code \in Outcomes, NEW value \in Nat, Finishing(code, value)
       PROVE  FALSE
  <2>1. w = IdOf(job.message) /\ v \in Asked /\ w \in Asked /\ ~closed /\ job.at \in Awaiting
    BY <1>11, <1>14 DEF Finishing
  <2>2. Waits(job.message) /\ job.message \in Messages
    BY <1>1, <2>1 DEF IInv, QueueInv, TypeOK, BrokerTypes, TypedJob
  <2>3. job.message.method # "close"
    BY <1>4, <2>1, <2>2 DEF Waits
  <2>4. v # IdOf(job.message) /\ ~IsInHand(v)
    <3>1. job.message.n \in Nat
      BY <2>2 DEF Messages
    <3> QED
      BY <1>2, <2>1, <3>1 DEF IsInHand, IdOf
  <2>5. PICK j \in DOMAIN queue : IdOf(queue[j]) = v
    BY <1>12, <2>1, <2>4
  <2>6. queue[j].client = job.message.client /\ queue[j].n < job.message.n
    BY <1>2, <2>1, <2>5 DEF IdOf
  <2>7. job.message.n < queue[j].n
    BY <2>1, <2>3, <2>6 DEF IInv, QueueInv
  <2>8. queue[j].n \in Nat /\ job.message.n \in Nat
    <3>1. queue[j] \in Messages
      BY <1>1 DEF TypeOK, BrokerTypes
    <3> QED
      BY <2>2, <3>1 DEF Messages
  <2> QED
    BY <2>6, <2>7, <2>8
<1> QED
  BY <1>1, <1>7, <1>9, <1>10, <1>13, <1>14 DEF RequestKinds

-----------------------------------------------------------------------------
(* What has run. *)

\* The ways in which a write may have run, after the step.
RanAfter(w) ==
    \/ After(w).outcome \in {"OK", UnknownOutcome}
    \/ /\ After(w).outcome = "waiting"
       /\ \/ closed'
          \/ /\ job'.at \in Awaiting /\ w = IdOf(job'.message)
             /\ \/ job'.at = "returning" /\ answer'.code \in {"OK", UnknownOutcome}
                \/ job'.at = "unwinding" /\ job'.error = UnknownOutcome

\* Nobody is told that what may have run did not.
LEMMA RanStays ==
    ASSUME IInv, Next, NEW w \in Asked, Ran(w)
    PROVE  RanAfter(w)
<1>1. RequestKinds /\ TypeOK
  BY EveryRequestKind
<1>2. CASE Entry(w).outcome # "waiting"
  <2>1. Entry(w).outcome \in {"OK", UnknownOutcome}
    BY <1>2 DEF Ran
  <2> QED
    BY <1>2, <2>1, EntriesStay DEF RanAfter
<1>3. UNCHANGED log => After(w) = Entry(w)
  BY DEF Entry, After
<1>4. CASE Entry(w).outcome = "waiting" /\ closed
  <2>1. closed' /\ Passing
    BY <1>1, <1>4 DEF RequestKinds, Passing, Shutting, Refusing, Queueing, Serving, Answering,
                      Calling, Unwinding, Finishing
  <2> QED
    BY <1>3, <1>4, <2>1 DEF Passing, RanAfter
<1>5. CASE /\ Entry(w).outcome = "waiting" /\ ~closed /\ IsInHand(w)
           /\ \/ job.at = "returning" /\ answer.code \in {"OK", UnknownOutcome}
              \/ job.at = "unwinding" /\ job.error = UnknownOutcome
  <2>1. job.at \in Awaiting /\ w = IdOf(job.message) /\ job.at \in {"returning", "unwinding"}
    BY <1>5 DEF IsInHand
  <2>2. ASSUME UNCHANGED <<job, answer>>, After(w) = Entry(w)
        PROVE  RanAfter(w)
    BY <1>5, <2>1, <2>2 DEF RanAfter
  <2>3. CASE Passing
    BY <1>3, <2>1, <2>2, <2>3 DEF Passing
  <2>4. CASE Shutting
    BY <1>3, <1>5, <2>4 DEF Shutting, Close, RanAfter
  <2>5. ASSUME NEW m \in Messages, NEW code \in Outcomes, Refusing(m, code) \/ Queueing(m)
        PROVE  RanAfter(w)
    <3>1. UNCHANGED answer /\ (job' = job \/ job' = Woken) /\ \E c : Joins(m, c)
      BY <2>5 DEF Refusing, Queueing, hostVars
    <3>2. job' = job
      BY <2>1, <3>1 DEF Woken
    <3>3. After(w) = Entry(w)
      BY <3>1 DEF Joins
    <3> QED
      BY <2>2, <3>1, <3>2, <3>3
  <2>6. ASSUME NEW m \in Messages, Serving(m)
        PROVE  RanAfter(w)
    BY <2>1, <2>6 DEF Serving, NothingWaits
  <2>7. ASSUME NEW i \in DOMAIN queue, NEW code \in Outcomes, Answering(i, code)
        PROVE  RanAfter(w)
    BY <2>1, <2>7 DEF Answering
  <2>8. ASSUME NEW m \in Messages, NEW at \in Awaiting, Calling(m, at)
        PROVE  RanAfter(w)
    BY <2>1, <2>8 DEF Calling
  <2>9. CASE Unwinding
    <3>1. /\ UNCHANGED log /\ job'.at = "unwinding" /\ job'.message = job.message
          /\ job'.error = answer.code /\ answer.code # "OK" /\ job.at = "returning"
      BY <2>9 DEF Unwinding
    <3> QED
      BY <1>3, <1>5, <2>1, <3>1 DEF RanAfter, Awaiting
  <2>10. ASSUME NEW code \in Outcomes, NEW value \in Nat, Finishing(code, value)
         PROVE  RanAfter(w)
    <3>1. code \in {"OK", UnknownOutcome}
      BY <1>5, <2>10 DEF Finishing
    <3>2. After(w).outcome = code
      BY <2>1, <2>10 DEF Finishing, Settles
    <3> QED
      BY <3>1, <3>2 DEF RanAfter
  <2>11. ASSUME NEW m \in Messages, (\E code \in Outcomes : Refusing(m, code)) \/ Queueing(m)
         PROVE  RanAfter(w)
    <3>1. "waiting" \in Outcomes
      BY DEF Outcomes
    <3> QED
      BY <2>5, <2>11, <3>1
  <2> QED
    BY <1>1, <2>3, <2>4, <2>6, <2>7, <2>8, <2>9, <2>10, <2>11 DEF RequestKinds
<1>6. Entry(w).outcome = "waiting" /\ ~closed =>
        /\ IsInHand(w)
        /\ \/ job.at = "returning" /\ answer.code \in {"OK", UnknownOutcome}
           \/ job.at = "unwinding" /\ job.error = UnknownOutcome
  <2>1. "waiting" \notin {"OK", UnknownOutcome}
    BY DEF UnknownOutcome
  <2> QED
    BY <2>1 DEF Ran
<1> QED
  BY <1>2, <1>4, <1>5, <1>6

\* `w` was not in the transaction, and it is; or it is published and was in neither.
Appears(w) ==
    \/ w \in overlay'.staged /\ w \notin overlay.staged
    \/ w \in committed' /\ w \notin committed \cup overlay.staged

\* What a call of the host adds to the database or to the transaction: the write that it
\* was for, and by a commit only what the transaction had staged.
LEMMA CallWrites ==
    ASSUME HostTypes, HostInv, NEW m, NEW at, CallFor(m, at), NEW w, Appears(w)
    PROVE  /\ w = IdOf(m) /\ at = "returning" /\ answer'.code \in {"OK", UnknownOutcome}
           /\ m.method \in Statements \cup {"setSchema"} /\ WriteCall(IdOf(m), m.tx) /\ MayUse(m)
<1>1. ~Still /\ ~BeginCall
  BY DEF Still, BeginCall, Appears
<1>2. \A k : ~CommitCall(k) /\ ~RollbackCall(k)
  BY DEF CommitCall, RollbackCall, Appears
<1>3. WriteCall(IdOf(m), m.tx) => w = IdOf(m) /\ answer'.code \in {"OK", UnknownOutcome}
  BY DEF WriteCall, Appears
<1> QED
  BY <1>1, <1>2, <1>3 DEF CallFor, StatementCall

\* Every write of the host is for the request that is served or in hand.
LEMMA WritesAppear ==
    ASSUME IInv, Next, NEW w, Appears(w)
    PROVE  \E m \in Messages :
             /\ w = IdOf(m) /\ WriteCall(w, m.tx) /\ MayUse(m) /\ ~closed
             /\ m.method \in Statements \cup {"setSchema"}
             /\ answer'.code \in {"OK", UnknownOutcome} /\ UNCHANGED transaction
             /\ w \in Asked' /\ After(w).tx = m.tx /\ After(w).method = m.method
             /\ RanAfter(w)
<1>1. RequestKinds /\ TypeOK /\ HostTypes /\ HostInv
  BY EveryRequestKind
<1>4. ~Still /\ ~UNCHANGED hostVars /\ \A k : ~RollbackCall(k)
  BY DEF Still, hostVars, RollbackCall, Appears
<1>5. CASE \E m \in Messages : Serving(m)
  <2>1. PICK m \in Messages : Serving(m)
    BY <1>5
  <2>2. /\ WriteCall(IdOf(m), m.tx) /\ MayUse(m) /\ UNCHANGED transaction /\ ~closed
        /\ m.method \in Statements /\ Joins(m, answer'.code)
    BY <2>1 DEF Serving
  <2>3. w = IdOf(m) /\ answer'.code \in {"OK", UnknownOutcome}
    BY <2>2 DEF WriteCall, Appears
  <2>4. w \in Asked' /\ After(w) = [method |-> m.method, tx |-> m.tx, outcome |-> answer'.code]
    BY <2>2, <2>3 DEF Joins
  <2> QED
    BY <2>2, <2>3, <2>4 DEF RanAfter
<1>6. CASE \E m \in Messages, at \in Awaiting : Calling(m, at)
  <2>1. PICK m \in Messages, at \in Awaiting : Calling(m, at)
    BY <1>6
  <2>2. /\ CallFor(m, at) /\ UNCHANGED <<transaction, log>> /\ ~closed /\ Waits(m) /\ Asked' = Asked
        /\ job'.at = at /\ job'.message = m
    BY <2>1 DEF Calling
  <2>3. /\ w = IdOf(m) /\ at = "returning" /\ answer'.code \in {"OK", UnknownOutcome}
        /\ m.method \in Statements \cup {"setSchema"} /\ WriteCall(IdOf(m), m.tx) /\ MayUse(m)
    BY <1>1, <2>2, CallWrites
  <2>4. w \in Asked' /\ After(w) = [method |-> m.method, tx |-> m.tx, outcome |-> "waiting"]
    BY <2>2, <2>3 DEF Waits, Entry, After
  <2>5. RanAfter(w)
    BY <2>2, <2>3, <2>4 DEF RanAfter
  <2> QED
    BY <2>2, <2>3, <2>4, <2>5
<1>7. ~Passing /\ ~Shutting
  BY <1>4 DEF Passing, Shutting
<1>8. \A m \in Messages : ~Queueing(m) /\ \A code : ~Refusing(m, code)
  BY <1>4 DEF Queueing, Refusing, hostVars
<1>9. ~Unwinding
  BY <1>4 DEF Unwinding
<1>10. \A i, code, value : ~Answering(i, code) /\ ~Finishing(code, value)
  BY <1>4 DEF Answering, Finishing, hostVars
<1> QED
  BY <1>1, <1>5, <1>6, <1>7, <1>8, <1>9, <1>10 DEF RequestKinds

\* RanAfter is Ran after the step.
LEMMA RanPrimed ==
    ASSUME NEW w
    PROVE  RanAfter(w) <=> Ran(w)'
  BY DEF Ran, RanAfter, Entry, After, IsInHand

\* Every step keeps what was told of what has run.
LEMMA RunStep ==
    ASSUME IInv, Next
    PROVE  RunInv'
<1>1. SUFFICES ASSUME NEW w \in committed' \cup overlay'.staged
               PROVE  w \in Asked' /\ RanAfter(w)
  BY RanPrimed DEF RunInv
<1>2. CASE w \in committed \cup overlay.staged
  <2>1. w \in Asked /\ Ran(w)
    BY <1>2 DEF IInv, RunInv
  <2> QED
    BY <2>1, RanStays, EntriesStay
<1>3. CASE w \notin committed \cup overlay.staged
  <2>1. Appears(w)
    BY <1>1, <1>3 DEF Appears
  <2> QED
    BY <2>1, WritesAppear
<1> QED
  BY <1>2, <1>3

\* Every step keeps the tokens that clients go by behind the one that is next.
LEMMA IssuedStep ==
    ASSUME IInv, Next
    PROVE  IssuedInv'
<1>1. /\ RequestKinds /\ TypeOK /\ HostTypes /\ HostInv /\ HostTypes'
      /\ nextTransactionId \in Nat /\ nextTransactionId' \in Nat
      /\ nextTransactionId <= nextTransactionId'
  BY EveryRequestKind, EveryKind, NothingHeals DEF HostTypes, KindOK
<1>2. /\ \A c \in Clients : tab[c].tx < nextTransactionId /\ tab[c].tx \in Nat
      /\ \A w \in Asked : /\ Entry(w).tx < nextTransactionId /\ Entry(w).tx \in Nat
                          /\ Entry(w).method = "setSchema" => Entry(w).tx = None
      /\ None < nextTransactionId
  <2>1. \A w \in Asked : Entry(w) \in Entries
    BY <1>1, AskedIs DEF TypeOK, ClientTypes, Entry
  <2> QED
    BY <1>1, <2>1 DEF IInv, IssuedInv, Entries, TypeOK, ClientTypes, TabStates, HostTypes, None
<1>3. \A w \in Asked : After(w).method = Entry(w).method /\ After(w).tx = Entry(w).tx
  BY EntriesStay
<1>4. SUFFICES /\ \A c \in Clients : tab'[c].tx < nextTransactionId'
               /\ \A w \in Asked' : /\ After(w).tx < nextTransactionId'
                                    /\ After(w).method = "setSchema" => After(w).tx = None
  BY DEF IssuedInv, Entry, After
<1>5. ASSUME NEW w \in Asked'
      PROVE  /\ After(w).tx < nextTransactionId'
             /\ After(w).method = "setSchema" => After(w).tx = None
  <2>1. CASE w \in Asked
    BY <1>1, <1>2, <1>3, <2>1
  <2>2. CASE w \notin Asked
    <3>1. UNCHANGED log => Asked' = Asked
      BY DEF Asked
    <3>2. ~Passing /\ ~Shutting /\ ~Unwinding /\ \A m, at : ~Calling(m, at)
      BY <2>2, <3>1 DEF Passing, Shutting, Unwinding, Calling
    <3>3. \A i, code, value : ~Answering(i, code) /\ ~Finishing(code, value)
      BY <2>2 DEF Answering, Finishing, Settles
    <3>4. PICK m \in Messages :
            /\ m.tx < nextTransactionId
            /\ m.method = "setSchema" => m.tx = None
            /\ (\E code \in Outcomes : Refusing(m, code)) \/ Queueing(m) \/ Serving(m)
      BY <1>1, <3>2, <3>3 DEF RequestKinds
    <3>5. \E code : Joins(m, code)
      BY <3>4 DEF Refusing, Queueing, Serving
    <3>6. w = IdOf(m) /\ After(w).method = m.method /\ After(w).tx = m.tx
      BY <2>2, <3>5 DEF Joins
    <3>7. m.tx \in Nat
      BY DEF Messages
    <3> QED
      BY <1>1, <3>4, <3>6, <3>7
  <2> QED
    BY <2>1, <2>2
<1>6. ASSUME NEW c \in Clients
      PROVE  tab'[c].tx < nextTransactionId'
  <2>0. activeTransactionId \in Nat /\ activeTransactionId < nextTransactionId /\ None \in Nat
    BY <1>1 DEF HostTypes, HostInv, None
  <2>1. SUFFICES tab'[c].tx \in {tab[c].tx, None} \/ tab'[c].tx = activeTransactionId
    BY <1>1, <1>2, <2>0
  <2>2. CASE Passing \/ Shutting \/ Unwinding \/ \E m \in Messages, at \in Awaiting : Calling(m, at)
    BY <2>2 DEF Passing, Shutting, Unwinding, Calling
  <2>3. CASE \E m \in Messages :
               (\E code \in Outcomes : Refusing(m, code)) \/ Queueing(m) \/ Serving(m)
    <3>1. \E m, code : Joins(m, code)
      BY <2>3 DEF Refusing, Queueing, Serving
    <3> QED
      BY <3>1 DEF Joins
  <2>4. CASE \E i \in DOMAIN queue, code \in Outcomes : Answering(i, code)
    BY <2>4 DEF Answering, Settles
  <2>5. ASSUME NEW code \in Outcomes, NEW value \in Nat, Finishing(code, value)
        PROVE  tab'[c].tx \in {tab[c].tx, None} \/ tab'[c].tx = activeTransactionId
    <3>1. tab'[c].tx \in {tab[c].tx, None} \/ (tab'[c].tx = value /\ code = "OK")
      BY <2>5 DEF Finishing, Settles
    <3>2. CASE value # None /\ code = "OK"
      <4>1. job.at = "beginning" /\ value = answer.value /\ answer.code = "OK" /\ ~closed
        BY <2>5, <3>2 DEF Finishing
      <4>2. answer.value = activeTransactionId
        BY <1>1, <4>1 DEF HostInv, IInv, TokenInv
      <4> QED
        BY <3>1, <4>1, <4>2
    <3> QED
      BY <3>1, <3>2
  <2> QED
    BY <1>1, <2>2, <2>3, <2>4, <2>5 DEF RequestKinds
<1> QED
  BY <1>5, <1>6

-----------------------------------------------------------------------------
(* Transactions. *)

\* Without a transaction nothing is staged.
LEMMA NothingStaged ==
    ASSUME HostTypes, HostInv, activeTransactionId = None \/ engine # "open"
    PROVE  overlay.staged = {}
  BY DEF HostTypes, HostInv

\* What a step does to the host.
LEMMA HostMoves ==
    ASSUME IInv, Next
    PROVE  \/ Still
           \/ \E k : RollbackCall(k) \/ CommitCall(k)
           \/ BeginCall
           \/ \E w, k : WriteCall(w, k)
<1>1. RequestKinds
  BY EveryRequestKind
<1>2. UNCHANGED hostVars => Still
  BY DEF hostVars, Still
<1>3. \A m, at : CallFor(m, at) =>
        \/ Still
        \/ \E k : RollbackCall(k) \/ CommitCall(k)
        \/ BeginCall
        \/ \E w, k : WriteCall(w, k)
  BY DEF CallFor, StatementCall
<1>4. CASE Passing \/ Shutting \/ Unwinding
  BY <1>4 DEF Passing, Shutting, Unwinding
<1>5. ASSUME NEW m \in Messages, NEW code, Refusing(m, code) \/ Queueing(m)
      PROVE  UNCHANGED hostVars
  BY <1>5 DEF Refusing, Queueing, hostVars
<1>6. ASSUME NEW m \in Messages, Serving(m)
      PROVE  \E w, k : WriteCall(w, k)
  BY <1>6 DEF Serving
<1>7. ASSUME NEW m \in Messages, NEW at \in Awaiting, Calling(m, at)
      PROVE  CallFor(m, at)
  BY <1>7 DEF Calling
<1>8. ASSUME NEW i, NEW code, NEW value, Answering(i, code) \/ Finishing(code, value)
      PROVE  UNCHANGED hostVars
  BY <1>8 DEF Answering, Finishing, hostVars
<1> QED
  BY <1>1, <1>2, <1>3, <1>4, <1>5, <1>6, <1>7, <1>8 DEF RequestKinds

\* The transaction of the host goes on, or ends, or another begins; while it goes on it
\* loses nothing, and what it keeps it keeps under the same token.
LEMMA ActiveMoves ==
    ASSUME IInv, Next
    PROVE  /\ activeTransactionId' \in {activeTransactionId, None, nextTransactionId}
           /\ engine' = "open" /\ activeTransactionId' = activeTransactionId
                /\ activeTransactionId # None
              => overlay.staged \subseteq overlay'.staged
           /\ overlay.staged \cap overlay'.staged # {} => activeTransactionId' = activeTransactionId
           /\ committed \subseteq committed'
<1>1. nextTransactionId # None
  BY DEF IInv, TypeOK, HostTypes, None
<1>2. CASE Still
  BY <1>2 DEF Still
<1>3. CASE \E k : RollbackCall(k)
  BY <1>3 DEF RollbackCall
<1>4. CASE \E k : CommitCall(k)
  BY <1>4 DEF CommitCall
<1>5. CASE BeginCall
  BY <1>1, <1>5 DEF BeginCall
<1>6. CASE \E w, k : WriteCall(w, k)
  BY <1>6 DEF WriteCall
<1> QED
  BY <1>2, <1>3, <1>4, <1>5, <1>6, HostMoves

\* The broker's transaction is the same as long as something is staged.
LEMMA TransactionStays ==
    ASSUME IInv, Next, overlay.staged # {}, overlay'.staged # {}
    PROVE  closed' \/ UNCHANGED transaction
<1>1. RequestKinds /\ TypeOK /\ HostTypes /\ HostInv
  BY EveryRequestKind
<1>2. engine = "open" /\ activeTransactionId # None
  BY <1>1, NothingStaged
<1>3. CASE Passing \/ Shutting \/ Unwinding \/ \E m \in Messages, at \in Awaiting : Calling(m, at)
  BY <1>3 DEF Passing, Shutting, Close, Unwinding, Calling
<1>4. ASSUME NEW m \in Messages,
             (\E code \in Outcomes : Refusing(m, code)) \/ Queueing(m) \/ Serving(m)
      PROVE  UNCHANGED transaction
  BY <1>4 DEF Refusing, Queueing, Serving
<1>5. ASSUME NEW i, NEW code, Answering(i, code)
      PROVE  UNCHANGED transaction
  BY <1>5 DEF Answering
<1>6. ASSUME NEW code \in Outcomes, NEW value \in Nat, Finishing(code, value)
      PROVE  UNCHANGED transaction
  <2>1. ~closed
    BY <1>6 DEF Finishing
  <2>2. ~Ends
    BY <1>2, <2>1 DEF Ends, IInv, TokenInv
  <2>3. ~(job.at = "beginning" /\ answer.code = "OK")
    BY <1>2, <2>1 DEF IInv, TokenInv
  <2> QED
    BY <1>6, <2>2, <2>3 DEF Finishing
<1> QED
  BY <1>1, <1>3, <1>4, <1>5, <1>6 DEF RequestKinds

\* The writes that a transaction was told had run, after the step.
TxAfter(c, k) ==
    {u \in Asked' : /\ u[1] = c /\ After(u).tx = k
                    /\ After(u).method \in Statements /\ After(u).outcome = "OK"}

\* A write of a transaction that is acknowledged is staged, in the transaction that is
\* active.
LEMMA TxWritesAppear ==
    ASSUME IInv, Next, NEW c, NEW k, k # None, NEW u \in TxAfter(c, k), u \notin TxWrites(c, k)
    PROVE  /\ engine = "open" /\ k = activeTransactionId /\ UNCHANGED activeTransactionId
           /\ u \in overlay'.staged
<1>1. RequestKinds /\ TypeOK /\ HostTypes /\ HostInv
  BY EveryRequestKind
<1>2. /\ u \in Asked' /\ u[1] = c /\ After(u).tx = k
      /\ After(u).method \in Statements /\ After(u).outcome = "OK"
  BY DEF TxAfter
<1>3. u \in Asked => Entry(u).outcome # "OK"
  <2>1. u \in Asked => After(u).method = Entry(u).method /\ After(u).tx = Entry(u).tx
    BY EntriesStay
  <2> QED
    BY <1>2, <2>1 DEF TxWrites
<1>4. UNCHANGED log => Asked' = Asked /\ After(u) = Entry(u)
  BY DEF Asked, Entry, After
<1>5. ~UNCHANGED log
  BY <1>2, <1>3, <1>4
<1>6. ~Passing /\ ~Shutting /\ ~Unwinding /\ \A m, at : ~Calling(m, at)
  BY <1>5 DEF Passing, Shutting, Unwinding, Calling
<1>7. ASSUME NEW m \in Messages, NEW code, Joins(m, code)
      PROVE  u = IdOf(m) /\ code = "OK" /\ m.tx = k
  <2>1. u \notin Asked
    BY <1>2, <1>3, <1>7 DEF Joins
  <2>2. u = IdOf(m)
    BY <1>2, <1>7, <2>1 DEF Joins
  <2> QED
    BY <1>2, <1>7, <2>2 DEF Joins
<1>8. ASSUME NEW m \in Messages, (\E code \in Outcomes : Refusing(m, code)) \/ Queueing(m)
      PROVE  FALSE
  <2>1. "OK" \notin Refusals
    BY DEF Refusals
  <2> QED
    BY <1>7, <1>8, <2>1 DEF Refusing, Queueing
<1>9. ASSUME NEW m \in Messages, Serving(m)
      PROVE  /\ engine = "open" /\ k = activeTransactionId /\ UNCHANGED activeTransactionId
             /\ u \in overlay'.staged
  <2>1. u = IdOf(m) /\ answer'.code = "OK" /\ m.tx = k /\ WriteCall(IdOf(m), m.tx)
    BY <1>7, <1>9 DEF Serving
  <2> QED
    BY <2>1 DEF WriteCall, UnknownOutcome
<1>10. ASSUME NEW x, NEW code, NEW value, Settles(x, code, value)
       PROVE  u = x /\ u \in Asked /\ code = "OK" /\ Entry(x).tx = k /\ Entry(x).method \in Statements
  <2>1. u \in Asked
    BY <1>2, <1>10 DEF Settles
  <2>2. u = x
    BY <1>2, <1>3, <1>10, <2>1 DEF Settles
  <2> QED
    BY <1>2, <1>10, <2>1, <2>2 DEF Settles
<1>11. ASSUME NEW i \in DOMAIN queue, NEW code \in Outcomes, Answering(i, code)
       PROVE  FALSE
  <2>1. code = "OK" /\ Entry(IdOf(queue[i])).method \in Statements
    BY <1>10, <1>11 DEF Answering
  <2>2. Entry(IdOf(queue[i])).method = queue[i].method
    BY DEF IInv, QueueInv, Waits
  <2> QED
    BY <1>11, <2>1, <2>2 DEF Answering, Refusals, Statements
<1>12. ASSUME NEW code \in Outcomes, NEW value \in Nat, Finishing(code, value)
       PROVE  /\ engine = "open" /\ k = activeTransactionId /\ UNCHANGED activeTransactionId
              /\ u \in overlay'.staged
  <2>1. /\ u = IdOf(job.message) /\ code = "OK" /\ Entry(u).tx = k /\ Entry(u).method \in Statements
        /\ job.at \in Awaiting /\ ~closed /\ UNCHANGED <<activeTransactionId, overlay>>
    BY <1>10, <1>12 DEF Finishing, hostVars
  <2>2. job.message.method \in Statements /\ job.message.tx = k
    BY <2>1 DEF IInv, QueueInv, Waits
  <2>3. job.at = "returning"
    <3>1. job.at # "unwinding" /\ job.at \notin {"closing", "preparing", "restoring", "beginning"}
      BY <2>2 DEF IInv, QueueInv, Statements, Managing
    <3>2. job.at # "rebinding"
      BY <1>12, <2>1 DEF Finishing
    <3> QED
      BY <2>1, <3>1, <3>2 DEF Awaiting
  <2>4. answer.code = "OK" /\ engine = "open"
    BY <1>1, <1>12, <2>1, <2>3 DEF Finishing, HostInv
  <2>5. u \in overlay.staged
    BY <2>1, <2>2, <2>3, <2>4 DEF IInv, StagedInv
  <2>6. Entry(u).tx = activeTransactionId
    BY <2>5 DEF IInv, StagedInv
  <2> QED
    BY <2>1, <2>4, <2>5, <2>6
<1> QED
  BY <1>1, <1>6, <1>8, <1>9, <1>11, <1>12 DEF RequestKinds

\* Every step keeps what is staged to what the active transaction's client was told.
LEMMA StagedStep ==
    ASSUME IInv, Next
    PROVE  StagedInv'
<1>1. /\ RequestKinds /\ TypeOK /\ HostTypes /\ HostInv /\ HostTypes' /\ HostInv'
      /\ closed => closed'
      /\ engine' = "open" => engine = "open"
  BY EveryRequestKind, EveryKind, NothingHeals DEF KindOK
<1>2. ASSUME NEW w \in overlay'.staged
      PROVE  /\ After(w).tx = activeTransactionId'
             /\ ~closed' => w[1] = transaction'.client
  <2>1. CASE w \in overlay.staged
    <3>1. w \in Asked /\ Entry(w).tx = activeTransactionId /\ (~closed => w[1] = transaction.client)
      BY <2>1 DEF IInv, RunInv, StagedInv
    <3>2. After(w).tx = Entry(w).tx
      BY <3>1, EntriesStay
    <3>3. activeTransactionId' = activeTransactionId
      BY <1>2, <2>1, ActiveMoves
    <3>4. closed' \/ UNCHANGED transaction
      BY <1>2, <2>1, TransactionStays
    <3> QED
      BY <1>1, <3>1, <3>2, <3>3, <3>4
  <2>2. CASE w \notin overlay.staged
    <3>1. Appears(w)
      BY <1>2, <2>2 DEF Appears
    <3>2. PICK m \in Messages :
            /\ w = IdOf(m) /\ WriteCall(w, m.tx) /\ MayUse(m)
            /\ UNCHANGED transaction /\ After(w).tx = m.tx
      BY <3>1, WritesAppear
    <3>3. m.tx = activeTransactionId /\ activeTransactionId # None /\ UNCHANGED activeTransactionId
      BY <1>2, <2>2, <3>2 DEF WriteCall
    <3>4. w[1] = m.client /\ transaction.client = m.client
      BY <3>2, <3>3 DEF IdOf, MayUse, OwnTransaction
    <3> QED
      BY <3>2, <3>3, <3>4
  <2> QED
    BY <2>1, <2>2
<1>3. ASSUME ~closed', engine' = "open", activeTransactionId' # None, NEW c \in Clients,
             NEW u \in TxAfter(c, activeTransactionId')
      PROVE  u \in overlay'.staged
  <2>1. CASE u \in TxWrites(c, activeTransactionId')
    <3>1. u \in Asked /\ Entry(u).tx = activeTransactionId' /\ Entry(u).tx < nextTransactionId
      BY <2>1 DEF TxWrites, IInv, IssuedInv
    <3>2. activeTransactionId' # nextTransactionId
      BY <1>1, <3>1 DEF HostTypes
    <3>3. activeTransactionId' = activeTransactionId
      BY <1>3, <3>2, ActiveMoves
    <3>4. u \in overlay.staged
      BY <1>1, <1>3, <2>1, <3>3 DEF IInv, StagedInv
    <3> QED
      BY <1>3, <3>3, <3>4, ActiveMoves
  <2>2. CASE u \notin TxWrites(c, activeTransactionId')
    BY <1>3, <2>2, TxWritesAppear
  <2> QED
    BY <2>1, <2>2
<1>4. ASSUME ~closed', engine' = "open", job'.at = "returning",
             job'.message.method \in Statements, job'.message.tx # None, answer'.code = "OK"
      PROVE  IdOf(job'.message) \in overlay'.staged
  <2>1. ~closed /\ engine = "open" /\ ~Close /\ "returning" \in Awaiting
    BY <1>1, <1>4 DEF Close, Awaiting
  <2>2. ASSUME UNCHANGED <<job, answer, overlay>>
        PROVE  IdOf(job'.message) \in overlay'.staged
    BY <1>4, <2>1, <2>2 DEF IInv, StagedInv
  <2>3. \A seen : Scan(seen).at = "scan"
    BY DEF Scan, Idle
  <2>4. CASE Passing
    BY <1>4, <2>1, <2>2, <2>4 DEF Passing, Still
  <2>5. ASSUME NEW m \in Messages, (\E code \in Outcomes : Refusing(m, code)) \/ Queueing(m)
        PROVE  IdOf(job'.message) \in overlay'.staged
    <3>1. UNCHANGED <<answer, overlay>> /\ (job' = job \/ job' = Woken)
      BY <2>5 DEF Refusing, Queueing, hostVars
    <3>2. job' = job
      BY <1>4, <2>3, <3>1 DEF Woken
    <3> QED
      BY <2>2, <3>1, <3>2
  <2>6. ASSUME NEW m \in Messages, Serving(m)
        PROVE  FALSE
    BY <1>4, <2>1, <2>6 DEF Serving, NothingWaits
  <2>7. ASSUME NEW i, NEW code, Answering(i, code)
        PROVE  FALSE
    BY <1>4, <2>3, <2>7 DEF Answering
  <2>8. ASSUME NEW m \in Messages, NEW at \in Awaiting, Calling(m, at)
        PROVE  IdOf(job'.message) \in overlay'.staged
    <3>1. CallFor(m, "returning") /\ job'.message = m
      BY <1>4, <2>8 DEF Calling
    <3>2. WriteCall(IdOf(m), m.tx)
      BY <1>4, <3>1 DEF CallFor, Statements
    <3> QED
      BY <1>4, <3>1, <3>2 DEF WriteCall, UnknownOutcome
  <2>9. ~Unwinding /\ ~Shutting
    BY <1>4, <2>1 DEF Unwinding, Shutting
  <2>10. ASSUME NEW code \in Outcomes, NEW value \in Nat, Finishing(code, value)
         PROVE  FALSE
    BY <1>4, <2>1, <2>3, <2>10 DEF Finishing
  <2> QED
    BY <1>1, <2>4, <2>5, <2>6, <2>7, <2>8, <2>9, <2>10 DEF RequestKinds
<1>5. \A c \in Clients : TxWrites(c, activeTransactionId)' = TxAfter(c, activeTransactionId')
  BY DEF TxWrites, TxAfter, Entry, After
<1>6. (\A w \in overlay.staged : /\ Entry(w).tx = activeTransactionId
                                 /\ ~closed => w[1] = transaction.client)'
  BY <1>2 DEF Entry, After
<1>7. (~closed /\ engine = "open" =>
         /\ activeTransactionId # None =>
              \A c \in Clients : TxWrites(c, activeTransactionId) \subseteq overlay.staged
         /\ job.at = "returning" /\ job.message.method \in Statements
              /\ job.message.tx # None /\ answer.code = "OK"
              => IdOf(job.message) \in overlay.staged)'
  BY <1>3, <1>4, <1>5 DEF IdOf
<1> QED
  BY <1>6, <1>7 DEF StagedInv

\* IsWhole after the step.
WholeAfter(c, k) ==
    (engine' = "open" => k # activeTransactionId') /\ TxAfter(c, k) \subseteq committed'

\* A transaction that is over and published whole stays so.
LEMMA WholeStays ==
    ASSUME IInv, Next, NEW c, NEW k, k # None, k \in Nat, k < nextTransactionId, IsWhole(c, k)
    PROVE  WholeAfter(c, k)
<1>1. /\ HostTypes
      /\ engine' = "open" => engine = "open"
      /\ committed \subseteq committed'
      /\ activeTransactionId' \in {activeTransactionId, None, nextTransactionId}
  BY EveryRequestKind, EveryKind, NothingHeals, ActiveMoves DEF KindOK
<1>2. engine' = "open" => k # activeTransactionId'
  BY <1>1 DEF IsWhole, HostTypes
<1>3. ASSUME NEW u \in TxAfter(c, k), u \notin TxWrites(c, k)
      PROVE  FALSE
  BY <1>3, TxWritesAppear DEF IsWhole
<1> QED
  BY <1>1, <1>2, <1>3 DEF WholeAfter, IsWhole

\* A commit that succeeds, or may have succeeded, publishes the transaction whole.
LEMMA CommitIsWhole ==
    ASSUME IInv, Next, NEW m \in Messages, Calling(m, "returning"),
           m.method = "commitTransaction", m.tx # None,
           engine = "open", committed' = committed \cup overlay.staged,
           answer'.code \in {"OK", UnknownOutcome}
    PROVE  WholeAfter(m.client, m.tx) /\ m.tx = activeTransactionId
<1>1. CommitCall(m.tx) /\ ~closed /\ UNCHANGED log /\ Asked' = Asked
  BY DEF Calling, CallFor, Statements
<1>2. m.tx = activeTransactionId /\ (engine' = "open" => activeTransactionId' = None)
  BY <1>1 DEF CommitCall
<1>3. TxAfter(m.client, m.tx) = TxWrites(m.client, m.tx)
  BY <1>1 DEF TxAfter, TxWrites, After, Entry
<1>4. TxWrites(m.client, m.tx) \subseteq overlay.staged
  BY <1>1, <1>2 DEF IInv, StagedInv, Messages
<1> QED
  BY <1>2, <1>3, <1>4 DEF WholeAfter

\* Every step keeps published transactions whole.
LEMMA WholeStep ==
    ASSUME IInv, Next
    PROVE  WholeInv'
<1>1. RequestKinds /\ TypeOK /\ HostTypes /\ HostInv /\ HostTypes' /\ HostInv'
  BY EveryRequestKind
<1>2. \A w \in Asked : Entry(w).tx \in Nat /\ Entry(w).tx < nextTransactionId
  <2>1. \A w \in Asked : Entry(w) \in Entries
    BY <1>1, AskedIs DEF TypeOK, ClientTypes, Entry
  <2> QED
    BY <2>1 DEF Entries, IInv, IssuedInv
<1>3. ASSUME NEW w \in committed', After(w).tx # None
      PROVE  /\ WholeAfter(w[1], After(w).tx)
             /\ \E v \in Asked' : /\ v[1] = w[1] /\ After(v).tx = After(w).tx
                                  /\ After(v).method = "commitTransaction" /\ RanAfter(v)
  <2>1. CASE w \in committed
    <3>1. w \in Asked
      BY <2>1 DEF IInv, RunInv
    <3>2. After(w).tx = Entry(w).tx
      BY <3>1, EntriesStay
    <3>3. IsWhole(w[1], Entry(w).tx)
      BY <1>3, <2>1, <3>2 DEF IInv, WholeInv
    <3>4. PICK v \in Asked : IsCommit(v, w[1], Entry(w).tx) /\ Ran(v)
      BY <1>3, <2>1, <3>2 DEF IInv, WholeInv
    <3>5. v \in Asked' /\ After(v).tx = Entry(v).tx /\ After(v).method = Entry(v).method /\ RanAfter(v)
      BY <3>4, EntriesStay, RanStays
    <3>6. WholeAfter(w[1], Entry(w).tx)
      BY <1>2, <1>3, <3>1, <3>2, <3>3, WholeStays
    <3> QED
      BY <3>2, <3>4, <3>5, <3>6 DEF IsCommit
  <2>2. CASE w \notin committed /\ w \in overlay.staged
    <3>1. w \in Asked /\ Entry(w).tx = activeTransactionId
      BY <2>2 DEF IInv, RunInv, StagedInv
    <3>2. After(w).tx = activeTransactionId /\ engine = "open"
      BY <1>1, <2>2, <3>1, EntriesStay, NothingStaged
    <3>3. /\ ~Still /\ ~BeginCall /\ ~UNCHANGED hostVars /\ \A k : ~RollbackCall(k)
          /\ \A x, k : ~WriteCall(x, k)
      BY <1>3, <2>2, <3>2 DEF Still, BeginCall, RollbackCall, WriteCall, hostVars
    <3>4. ~Passing /\ ~Shutting /\ ~Unwinding
      BY <3>3 DEF Passing, Shutting, Unwinding
    <3>5. \A m \in Messages : ~Queueing(m) /\ ~Serving(m) /\ \A code : ~Refusing(m, code)
      BY <3>3 DEF Queueing, Refusing, Serving, hostVars
    <3>6. \A i, code, value : ~Answering(i, code) /\ ~Finishing(code, value)
      BY <3>3 DEF Answering, Finishing, hostVars
    <3>7. PICK m \in Messages, at \in Awaiting : Calling(m, at)
      BY <1>1, <3>4, <3>5, <3>6 DEF RequestKinds
    <3>8. /\ at = "returning" /\ m.method = "commitTransaction" /\ CommitCall(m.tx) /\ MayUse(m)
          /\ ~closed
      BY <3>3, <3>7 DEF Calling, CallFor, StatementCall
    <3>9. /\ m.tx = activeTransactionId /\ committed' = committed \cup overlay.staged
          /\ answer'.code \in {"OK", UnknownOutcome}
      BY <1>3, <2>2, <3>8 DEF CommitCall
    <3>10. WholeAfter(m.client, m.tx)
      BY <1>3, <3>2, <3>7, <3>8, <3>9, CommitIsWhole
    <3>11. w[1] = m.client
      BY <1>3, <2>2, <3>2, <3>8, <3>9 DEF IInv, StagedInv, MayUse, OwnTransaction
    <3>12. /\ IdOf(m) \in Asked' /\ IdOf(m)[1] = m.client
           /\ After(IdOf(m)) = [method |-> m.method, tx |-> m.tx, outcome |-> "waiting"]
      BY <3>7 DEF Calling, Waits, After, Entry, IdOf
    <3>13. RanAfter(IdOf(m))
      BY <3>7, <3>8, <3>9, <3>12 DEF RanAfter, Calling
    <3> QED
      BY <3>2, <3>8, <3>9, <3>10, <3>11, <3>12, <3>13
  <2>3. CASE w \notin committed /\ w \notin overlay.staged
    <3>1. Appears(w)
      BY <1>3, <2>3 DEF Appears
    <3>2. PICK m \in Messages : WriteCall(w, m.tx) /\ After(w).tx = m.tx
      BY <3>1, WritesAppear
    <3>3. m.tx = None
      BY <1>3, <2>3, <3>2 DEF WriteCall
    <3> QED
      BY <1>3, <3>2, <3>3
  <2> QED
    BY <2>1, <2>2, <2>3
<1>4. ASSUME NEW v \in Asked', After(v).method = "commitTransaction", After(v).tx # None,
             \/ After(v).outcome = "OK"
             \/ v = IdOf(job'.message) /\ job'.at = "returning" /\ answer'.code = "OK"
      PROVE  WholeAfter(v[1], After(v).tx)
  <2>1. CASE /\ v \in Asked
             /\ \/ Entry(v).outcome = "OK"
                \/ IsInHand(v) /\ job.at = "returning" /\ answer.code = "OK"
    <3>1. After(v).method = Entry(v).method /\ After(v).tx = Entry(v).tx
      BY <2>1, EntriesStay
    <3>2. IsWhole(v[1], Entry(v).tx)
      BY <1>4, <2>1, <3>1 DEF IInv, WholeInv
    <3> QED
      BY <1>2, <1>4, <2>1, <3>1, <3>2, WholeStays
  <2>2. CASE v \in Asked => /\ Entry(v).outcome # "OK"
                            /\ ~(IsInHand(v) /\ job.at = "returning" /\ answer.code = "OK")
    <3>1. "returning" \in Awaiting /\ "OK" # "waiting" /\ "OK" \notin Refusals
      BY DEF Awaiting, Refusals
    <3>2. UNCHANGED log => Asked' = Asked /\ After(v) = Entry(v)
      BY DEF Asked, Entry, After
    <3>3. \A seen : Scan(seen).at = "scan" /\ Idle.at = "idle"
      BY DEF Scan, Idle
    <3>4. ASSUME NEW m \in Messages, NEW at \in Awaiting, Calling(m, at)
          PROVE  WholeAfter(v[1], After(v).tx)
      <4>1. v \in Asked /\ v = IdOf(m) /\ at = "returning" /\ answer'.code = "OK"
        BY <1>4, <2>2, <3>2, <3>4 DEF Calling
      <4>2. /\ After(v) = [method |-> m.method, tx |-> m.tx, outcome |-> "waiting"]
            /\ v[1] = m.client
        BY <3>2, <3>4, <4>1 DEF Calling, Waits, IdOf
      <4>3. m.method = "commitTransaction" /\ m.tx # None /\ After(v).tx = m.tx
        BY <1>4, <4>2
      <4>4. CommitCall(m.tx)
        BY <3>4, <4>1, <4>3 DEF Calling, CallFor, Statements
      <4>5. engine = "open" /\ committed' = committed \cup overlay.staged
        BY <4>1, <4>4 DEF CommitCall, UnknownOutcome
      <4> QED
        BY <3>4, <4>1, <4>2, <4>3, <4>5, CommitIsWhole
    <3>5. ~Passing
      BY <1>4, <2>2, <3>1, <3>2 DEF Passing, IsInHand
    <3>6. ~Shutting /\ ~Unwinding
      BY <1>4, <2>2, <3>2, <3>3 DEF Shutting, Unwinding, Close
    <3>7. ASSUME NEW m \in Messages, NEW code, Joins(m, code), code # "OK" \/ m.method # "commitTransaction",
                 UNCHANGED <<job, answer>> \/ job'.at # "returning"
          PROVE  FALSE
      <4>1. /\ Asked' = Asked \cup {IdOf(m)} /\ \A x \in Asked : After(x) = Entry(x)
            /\ After(IdOf(m)) = [method |-> m.method, tx |-> m.tx, outcome |-> code]
            /\ IdOf(m) \notin Asked
        BY <3>7 DEF Joins
      <4>2. After(v).outcome # "OK"
        BY <1>4, <2>2, <3>7, <4>1
      <4>3. v = IdOf(job.message) /\ job.at = "returning" /\ answer.code = "OK"
        BY <1>4, <3>7, <4>2
      <4>4. v \in Asked
        BY <3>1, <4>3 DEF IInv, QueueInv, Waits
      <4> QED
        BY <2>2, <3>1, <4>3, <4>4 DEF IsInHand
    <3>8. ASSUME NEW m \in Messages, (\E code \in Outcomes : Refusing(m, code)) \/ Queueing(m)
          PROVE  FALSE
      <4>1. /\ UNCHANGED answer /\ (job' = job \/ job' = Woken)
            /\ \E code : Joins(m, code) /\ code # "OK"
        BY <3>1, <3>8 DEF Refusing, Queueing, hostVars
      <4>2. UNCHANGED <<job, answer>> \/ job'.at # "returning"
        BY <3>3, <4>1 DEF Woken
      <4> QED
        BY <3>7, <4>1, <4>2
    <3>9. ASSUME NEW m \in Messages, Serving(m)
          PROVE  FALSE
      <4>1. job'.at # "returning" /\ Joins(m, answer'.code) /\ m.method \in Statements
        BY <3>3, <3>9 DEF Serving, NothingWaits, Close
      <4> QED
        BY <3>7, <4>1 DEF Statements
    <3>10. ASSUME NEW x, NEW code, NEW value, Settles(x, code, value), job'.at # "returning"
           PROVE  v = x /\ v \in Asked /\ code = "OK" /\ Entry(x).method = "commitTransaction"
      <4>1. v \in Asked
        BY <1>4, <3>10 DEF Settles
      <4>2. v = x
        BY <1>4, <2>2, <3>10, <4>1 DEF Settles
      <4> QED
        BY <1>4, <3>10, <4>1, <4>2 DEF Settles
    <3>11. ASSUME NEW i \in DOMAIN queue, NEW code \in Outcomes, Answering(i, code)
           PROVE  FALSE
      <4>1. code = "OK" /\ Entry(IdOf(queue[i])).method = "commitTransaction"
        BY <3>3, <3>10, <3>11 DEF Answering
      <4>2. Entry(IdOf(queue[i])).method = queue[i].method
        BY DEF IInv, QueueInv, Waits
      <4> QED
        BY <3>1, <3>11, <4>1, <4>2 DEF Answering
    <3>12. ASSUME NEW code \in Outcomes, NEW value \in Nat, Finishing(code, value)
           PROVE  FALSE
      <4>1. job'.at # "returning" /\ job.at \in Awaiting
        BY <3>3, <3>12 DEF Finishing, Close
      <4>2. /\ v = IdOf(job.message) /\ v \in Asked /\ code = "OK"
            /\ Entry(IdOf(job.message)).method = "commitTransaction"
        BY <3>10, <3>12, <4>1 DEF Finishing
      <4>3. job.message.method = "commitTransaction"
        BY <4>1, <4>2 DEF IInv, QueueInv, Waits
      <4>4. /\ job.at \notin {"closing", "preparing", "restoring", "beginning", "rebinding"}
            /\ job.at = "unwinding" => job.error # "OK"
        BY <4>3 DEF IInv, QueueInv, Managing
      <4>5. job.at = "returning" /\ answer.code = "OK"
        BY <3>12, <4>1, <4>2, <4>4 DEF Finishing, Awaiting
      <4> QED
        BY <2>2, <3>1, <4>2, <4>5 DEF IsInHand
    <3> QED
      BY <1>1, <3>4, <3>5, <3>6, <3>8, <3>9, <3>11, <3>12 DEF RequestKinds
  <2> QED
    BY <2>1, <2>2
<1>5. \A c, k : IsWhole(c, k)' <=> WholeAfter(c, k)
  BY DEF IsWhole, WholeAfter, TxWrites, TxAfter, Entry, After
<1>6. \A v : Ran(v)' <=> RanAfter(v)
  BY RanPrimed
<1>7. \A w \in committed' : After(w).tx # None =>
        /\ (engine' = "open" => After(w).tx # activeTransactionId')
        /\ TxAfter(w[1], After(w).tx) \subseteq committed'
        /\ \E v \in Asked' : IsCommit(v, w[1], Entry(w).tx)' /\ Ran(v)'
  BY <1>3, <1>6 DEF IsCommit, Entry, After, WholeAfter
<1>8. \A v \in Asked' :
        /\ After(v).method = "commitTransaction" /\ After(v).tx # None
        /\ \/ After(v).outcome = "OK"
           \/ IsInHand(v)' /\ job'.at = "returning" /\ answer'.code = "OK"
        => /\ (engine' = "open" => After(v).tx # activeTransactionId')
           /\ TxAfter(v[1], After(v).tx) \subseteq committed'
  BY <1>4 DEF IsInHand, IdOf, WholeAfter
<1>9. \A w : IsWhole(w[1], Entry(w).tx)' <=>
        /\ (engine' = "open" => After(w).tx # activeTransactionId')
        /\ TxAfter(w[1], After(w).tx) \subseteq committed'
  BY DEF IsWhole, TxWrites, TxAfter, Entry, After
<1> QED
  BY <1>7, <1>8, <1>9 DEF WholeInv, Entry, After

-----------------------------------------------------------------------------
(* The theorems. *)

\* The invariant holds of an owner that has just opened the database.
LEMMA InitInv ==
    ASSUME Init
    PROVE  IInv
<1>1. workload \in Workloads /\ HostInit /\ BrokerInit /\ ClientInit
  BY DEF Init
<1>2. /\ MaxRequests \in [Clients -> Nat]
      /\ \A c \in Clients : tab[c].tx = None
  BY <1>1, BrokerAssumption DEF MaxRequests, ClientInit
<1>3. HostTypes /\ HostInv
  BY <1>1 DEF HostInit, HostTypes, HostInv, NoOverlay, Ok, AnswerCodes, None
<1>4. TypedJob(job)
  BY <1>1 DEF BrokerInit, TypedJob, Idle, Jobs, JobStates, Awaiting, NoMessage, AnswerCodes
<1>5. BrokerTypes
  <2>1. queue \in Seq(Messages) /\ prepared \in [Clients -> Nat]
    BY <1>1 DEF BrokerInit, None
  <2>2. /\ connections \subseteq Clients /\ watched \subseteq Clients /\ abandoned \subseteq Clients
        /\ transaction = NoTransaction /\ closed \in BOOLEAN
    BY <1>1 DEF BrokerInit
  <2> QED
    BY <1>4, <2>1, <2>2 DEF BrokerTypes
<1>6. ClientTypes
  <2>1. tab \in [Clients -> TabStates]
    BY <1>1 DEF ClientInit, TabStates, None
  <2>2. log \in [Clients -> Seq(Entries)] /\ \A c \in Clients : Len(log[c]) <= MaxRequests[c]
    BY <1>1, <1>2 DEF ClientInit
  <2> QED
    BY <2>1, <2>2 DEF ClientTypes
<1>7. Asked = {} /\ queue = <<>> /\ DOMAIN queue = {} /\ job.at = "idle"
  BY <1>1 DEF Asked, ClientInit, BrokerInit, Idle
<1>8. TokenInv
  BY <1>1 DEF TokenInv, Agree, HostInit, BrokerInit, NoTransaction, Idle
<1>9. QueueInv
  BY <1>1, <1>7 DEF QueueInv, BrokerInit, Awaiting
<1>10. RunInv /\ StagedInv /\ WholeInv /\ OrderInv /\ IssuedInv
  BY <1>1, <1>2, <1>7 DEF RunInv, StagedInv, WholeInv, OrderInv, IssuedInv, HostInit,
     NoOverlay, None
<1> QED
  BY <1>1, <1>3, <1>5, <1>6, <1>8, <1>9, <1>10 DEF IInv, TypeOK

\* A step that changes nothing keeps it.
LEMMA StutterInv ==
    ASSUME IInv, UNCHANGED vars
    PROVE  IInv'
<1>1. UNCHANGED <<workload, activeTransactionId, nextTransactionId, engine, overlay, committed,
                  statements, nextStatementId, pendingTables, announced, answer, connections,
                  watched, prepared, queue, abandoned, transaction, closed, job, tab, log>>
  BY DEF vars, hostVars, brokerVars
<1>2. TypeOK'
  BY <1>1 DEF IInv, TypeOK, HostTypes, BrokerTypes, ClientTypes, MaxRequests
<1>3. HostInv' /\ TokenInv'
  BY <1>1 DEF IInv, HostInv, TokenInv, Agree
<1>4. QueueInv' /\ RunInv' /\ IssuedInv' /\ OrderInv'
  BY <1>1 DEF IInv, QueueInv, RunInv, IssuedInv, OrderInv, Asked, Entry, Waits, IsInHand,
     MayUse, OwnTransaction, InTransaction, Ran, IdOf
<1>5. StagedInv' /\ WholeInv'
  BY <1>1 DEF IInv, StagedInv, WholeInv, Asked, Entry, TxWrites, IsCommit, IsWhole, IsInHand,
     Ran, IdOf
<1> QED
  BY <1>2, <1>3, <1>4, <1>5 DEF IInv

\* The whole of the invariant, in every reachable state.
THEOREM Invariance == Spec => []IInv
<1>1. Init => IInv
  BY InitInv
<1>2. IInv /\ [Next]_vars => IInv'
  <2>1. ASSUME IInv, Next
        PROVE  IInv'
    BY <2>1, TypesStep, TokenStep, QueueStep, RunStep, IssuedStep, StagedStep, WholeStep,
       OrderStep DEF IInv
  <2> QED
    BY <2>1, StutterInv
<1> QED
  BY <1>1, <1>2, PTL DEF Spec

\* The variables of the host, of the broker and of its clients keep their types.
THEOREM TypeCorrect == Spec => []TypeOK
<1>1. IInv => TypeOK
  BY DEF IInv
<1> QED
  BY <1>1, Invariance, PTL

\* forget(), handle() and settleFailure(): between two requests the broker's transaction
\* is the host's and the engine's, whatever failed before.
THEOREM TokensStayTogether == Spec => []TokensAgree
<1>1. ASSUME IInv
      PROVE  TokensAgree
  <2> SUFFICES ASSUME ~closed, engine = "open", job.at \in {"idle", "scan"}
               PROVE  /\ transaction.token = activeTransactionId
                      /\ InTransaction <=> overlay.open
    BY DEF TokensAgree
  <2>1. transaction.token = activeTransactionId
    BY <1>1 DEF IInv, TokenInv, Agree
  <2>2. InTransaction <=> transaction.token # None
    BY <1>1 DEF IInv, TypeOK, BrokerTypes, InTransaction, NoTransaction, None
  <2>3. activeTransactionId # None <=> overlay.open
    BY <1>1 DEF IInv, HostInv
  <2> QED
    BY <2>1, <2>2, <2>3
<1> QED
  BY <1>1, Invariance, PTL

\* The requests of the log are those that some workload allows.
LEMMA LoggedIs ==
    ASSUME TypeOK
    PROVE  Logged = Asked
<1>1. /\ workload \in Workloads /\ log \in [Clients -> Seq(Entries)]
      /\ \A c \in Clients : Len(log[c]) <= workload.requests[c]
      /\ workload.requests \in [Clients -> Nat]
  BY BrokerAssumption DEF TypeOK, ClientTypes, MaxRequests
<1>2. ASSUME NEW w \in Logged
      PROVE  w \in Asked
  <2>1. PICK c \in Clients, u \in Workloads : w \in {c} \X (1 .. u.requests[c])
    BY <1>2 DEF Logged, RequestIds
  <2>2. w = <<c, w[2]>> /\ w[2] \in DOMAIN log[c]
    BY <1>2, <2>1 DEF Logged
  <2> QED
    BY <2>2 DEF Asked
<1>3. ASSUME NEW w \in Asked
      PROVE  w \in Logged
  <2>1. PICK c \in Clients : w \in {c} \X DOMAIN log[c]
    BY <1>3 DEF Asked
  <2>2. DOMAIN log[c] = 1 .. Len(log[c]) /\ Len(log[c]) \in Nat
    BY <1>1
  <2>3. w \in {c} \X (1 .. workload.requests[c])
    BY <1>1, <2>1, <2>2
  <2>4. w \in RequestIds
    <3> DEFINE sets == {{client} \X (1 .. u.requests[client]) : client \in Clients, u \in Workloads}
    <3>1. {c} \X (1 .. workload.requests[c]) \in sets
      BY <1>1
    <3> HIDE DEF sets
    <3>2. w \in UNION sets
      BY <2>3, <3>1
    <3> QED
      BY <3>2 DEF sets, RequestIds
  <2>5. w[2] \in DOMAIN log[w[1]]
    BY <2>1
  <2> QED
    BY <2>4, <2>5 DEF Logged
<1> QED
  BY <1>2, <1>3

\* receive(), handle() and the host's calls: what a client was told did not run is in no
\* published revision and in no open transaction.
THEOREM RefusedStaysOut == Spec => []RefusedNeverRuns
<1>1. ASSUME IInv
      PROVE  RefusedNeverRuns
  <2> SUFFICES ASSUME NEW w \in committed \cup overlay.staged
               PROVE  Entry(w).outcome \notin Refusals \cup {"REFUSED"}
    BY DEF RefusedNeverRuns
  <2>1. Entry(w).outcome \in {"OK", UnknownOutcome, "waiting"}
    BY <1>1 DEF IInv, RunInv, Ran
  <2> QED
    BY <2>1 DEF Refusals, UnknownOutcome
<1> QED
  BY <1>1, Invariance, PTL

\* receive() and pump(): a client's requests are run in the order it sent them, those
\* that are served at once included; only its init and its close may overtake.
THEOREM RunInOrder == Spec => []InOrder
<1>1. ASSUME IInv
      PROVE  InOrder
  BY <1>1, LoggedIs DEF IInv, OrderInv, InOrder
<1> QED
  BY <1>1, Invariance, PTL

\* commitTransaction and all the ways a transaction ends without one: it is published
\* whole or not at all, and only by its own commit; no event runs ahead of that.
THEOREM PublishedWhole == Spec => []TransactionAtomic
<1>1. ASSUME IInv
      PROVE  TransactionAtomic
  <2>1. Logged = Asked /\ announced \cup pendingTables \subseteq committed
    BY <1>1, LoggedIs DEF IInv, HostInv
  <2>2. ASSUME NEW c \in Clients, NEW token \in 1 .. (nextTransactionId - 1)
        PROVE  /\ WritesOf(c, token) \cap committed # {} =>
                    /\ WritesOf(c, token) \subseteq committed
                    /\ \E w \in CommitOf(c, token) :
                         Entry(w).outcome \in
                             {"OK", "waiting", "STORAGE_COMMIT_OUTCOME_UNKNOWN"}
               /\ (\E w \in CommitOf(c, token) : Entry(w).outcome = "OK")
                    => WritesOf(c, token) \subseteq committed
    <3>1. token # None
      BY <1>1, <2>2 DEF IInv, TypeOK, HostTypes, None
    <3>2. WritesOf(c, token) = TxWrites(c, token)
      BY <2>1 DEF WritesOf, TxWrites
    <3>3. ASSUME NEW w \in WritesOf(c, token) \cap committed
          PROVE  /\ WritesOf(c, token) \subseteq committed
                 /\ \E v \in CommitOf(c, token) :
                      Entry(v).outcome \in
                          {"OK", "waiting", "STORAGE_COMMIT_OUTCOME_UNKNOWN"}
      <4>1. w[1] = c /\ Entry(w).tx = token /\ w \in committed
        BY <3>3 DEF WritesOf
      <4>2. IsWhole(c, token) /\ \E v \in Asked : IsCommit(v, c, token) /\ Ran(v)
        BY <1>1, <3>1, <4>1 DEF IInv, WholeInv
      <4>3. PICK v \in Asked : IsCommit(v, c, token) /\ Ran(v)
        BY <4>2
      <4>4. v \in CommitOf(c, token)
        BY <2>1, <4>3 DEF CommitOf, IsCommit
      <4>5. Entry(v).outcome \in {"OK", "waiting", "STORAGE_COMMIT_OUTCOME_UNKNOWN"}
        BY <4>3 DEF Ran, UnknownOutcome
      <4> QED
        BY <3>2, <4>2, <4>4, <4>5 DEF IsWhole
    <3>4. ASSUME NEW v \in CommitOf(c, token), Entry(v).outcome = "OK"
          PROVE  WritesOf(c, token) \subseteq committed
      <4>1. /\ v \in Asked /\ v[1] = c /\ Entry(v).tx = token
            /\ Entry(v).method = "commitTransaction"
        BY <2>1, <3>4 DEF CommitOf
      <4>2. IsWhole(c, token)
        BY <1>1, <3>1, <3>4, <4>1 DEF IInv, WholeInv
      <4> QED
        BY <3>2, <4>2 DEF IsWhole
    <3> QED
      BY <3>3, <3>4
  <2> QED
    BY <2>1, <2>2 DEF TransactionAtomic
<1> QED
  BY <1>1, Invariance, PTL

=============================================================================
