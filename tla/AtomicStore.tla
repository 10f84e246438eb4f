---------------------------- MODULE AtomicStore ----------------------------
(***************************************************************************)
(* What the pager promises the engine above it: a store that holds one     *)
(* snapshot, replaces it in one step, and after an interruption serves the *)
(* snapshot it held or one it was being replaced by, whole.                *)
(***************************************************************************)
EXTENDS Naturals

CONSTANT Empty      \* the snapshot of a new store

VARIABLES
    up,             \* a session is open
    db,             \* the snapshot the store holds
    maybe           \* the snapshots whose replacement of db was begun

vars == <<up, db, maybe>>

Init == up = FALSE /\ db = Empty /\ maybe = {}

\* A snapshot is a successor of another in generation and no older in revision.
Succeeds(new, old) == new.gen = old.gen + 1 /\ new.rev >= old.rev

Open ==
    /\ ~ up
    /\ up' = TRUE
    /\ db' \in {db} \cup maybe
    /\ maybe' = IF db' = db THEN maybe ELSE {}

\* From here on an interruption may find the new snapshot published.
BeginPublish ==
    /\ up
    /\ maybe \subseteq maybe'
    /\ \A s \in maybe' \ maybe : Succeeds(s, db)
    /\ UNCHANGED <<up, db>>

Publish ==
    /\ up
    /\ db' \in maybe
    /\ Succeeds(db', db)
    /\ maybe' = {}
    /\ UNCHANGED up

Stop == up /\ up' = FALSE /\ UNCHANGED <<db, maybe>>

Next == Open \/ BeginPublish \/ Publish \/ Stop

Spec == Init /\ [][Next]_vars
=============================================================================
