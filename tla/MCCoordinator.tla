--------------------------- MODULE MCCoordinator ---------------------------
(***************************************************************************)
(* Instances of Coordinator for TLC: workloads that each bring one kind of *)
(* trouble.                                                                *)
(***************************************************************************)
EXTENDS Coordinator

CONSTANTS t1, t2

\* How many requests the pages make, the first being init.
Asks(first, second) == [t \in {t1, t2} |-> IF t = t1 THEN first ELSE second]

\* Tabs of one release or of two write, refresh and close, and one may die.
Handover ==
    [releases |-> {"current", "other"}, kinds |-> {"write"}, requests |-> Asks(2, 3),
     refreshes |-> 1, mayCrash |-> {t1}, mayClose |-> {t1, t2}, faults |-> {}]

\* Owners fail or die while a page is in a transaction.
FailingOwners ==
    [releases |-> {"current"}, kinds |-> {"begin", "inTransaction"},
     requests |-> Asks(1, 3), refreshes |-> 0, mayCrash |-> {t1}, mayClose |-> {},
     faults |-> {"engine", "open"}]

\* Owners die, close, or cannot open.
LeavingOwners ==
    [releases |-> {"current"}, kinds |-> {"write"}, requests |-> Asks(2, 2),
     refreshes |-> 0, mayCrash |-> {t1}, mayClose |-> {t1, t2}, faults |-> {"open"}]

\* A tab whose engine failed stays, and closes later.
RetiredOwner ==
    [releases |-> {"current"}, kinds |-> {"write"}, requests |-> Asks(3, 1),
     refreshes |-> 0, mayCrash |-> {}, mayClose |-> {t1}, faults |-> {"engine"}]

SafetyWorkloads == {Handover, FailingOwners}
ProgressWorkloads == {LeavingOwners}
RetiredWorkloads == {RetiredOwner}
=============================================================================
