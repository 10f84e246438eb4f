------------------------------ MODULE MCBroker ------------------------------
(***************************************************************************)
(* Instances of Broker for TLC: workloads that each bring one kind of      *)
(* trouble.                                                                *)
(***************************************************************************)
EXTENDS Broker

CONSTANTS c1, c2, c3
MCWrites == {c1, c2, c3} \X (1 .. 3)

\* How many requests each client sends; one that sends none is not there.
Sends(first, second, third) ==
    [c \in {c1, c2, c3} |-> CASE c = c1 -> first [] c = c2 -> second [] c = c3 -> third]

\* Two clients whose transactions compete for a queue with room for one request.
Transactions ==
    [offered |-> {"execute", "executeDirect", "beginTransaction", "commitTransaction",
                  "rollbackTransaction", "close"},
     requests |-> Sends(2, 3, 0), engineFaults |-> {"refused"}, old |-> {}, handedOver |-> {},
     pending |-> 1, reserve |-> 2, connections |-> 2, statements |-> 2]

\* Prepared statements, one of them of an earlier owner, in and out of transactions,
\* for a registry with room for one.  Each client in turn has requests for a transaction
\* with a statement in it.
PreparedStatements(first, second) ==
    [offered |-> {"prepareSql", "closePrepared", "executePrepared", "beginTransaction",
                  "commitTransaction", "close"},
     requests |-> Sends(first, second, 0), engineFaults |-> {}, old |-> {}, handedOver |-> {c2},
     pending |-> 3, reserve |-> 2, connections |-> 2, statements |-> 1]

\* More clients than there is room for, one of another release, and an
\* engine whose calls may end without a known outcome.  What they write by is served at
\* once where it may be (execute), or always queued (setSchema).
ManyClients(method) ==
    [offered |-> {"init", method, "close"},
     requests |-> Sends(1, 2, 1), engineFaults |-> {"unknown"}, old |-> {c3},
     handedOver |-> {}, pending |-> 1, reserve |-> 3, connections |-> 2, statements |-> 2]

\* One client's transaction, and a request of another that waits for it.
OneWaits ==
    [offered |-> {"execute", "executeDirect", "beginTransaction", "commitTransaction", "close"},
     requests |-> Sends(1, 3, 0), engineFaults |-> {"refused"}, old |-> {}, handedOver |-> {},
     pending |-> 2, reserve |-> 2, connections |-> 2, statements |-> 2]

SafetyWorkloads == {Transactions, PreparedStatements(3, 2), PreparedStatements(2, 3),
                    ManyClients("execute"), ManyClients("setSchema")}
ProgressWorkloads == {OneWaits}
=============================================================================
