--------------------------------- MODULE Dml ---------------------------------
(***************************************************************************)
(* Planning INSERT, UPDATE and DELETE.  A planner reads the rows a view    *)
(* shows (the committed storage through a transaction's overlay, or a      *)
(* script's candidate, which is a storage with no overlay) and answers the *)
(* changes to write, each with what it read under the changed key, or the  *)
(* reason the statement is refused.  Foreign keys are enforced last, on    *)
(* the planned changes, and may add changes of their own.                  *)
(*                                                                         *)
(* A statement is                                                          *)
(*   [kind |-> "insert", table, rows, conflict, target, set]               *)
(*   [kind |-> "update", table, set, where]                                *)
(*   [kind |-> "delete", table, where]                                     *)
(* `rows' are functions from the named columns to values; `where' is the   *)
(* set of [column, value] equalities of its predicate; `set' maps each     *)
(* assigned column to an expression.  The forms a predicate can take are   *)
(* the subject of module Queries.                                          *)
(***************************************************************************)
EXTENDS Overlay

CONSTANT MaxChangedKeys     \* MAX_CHANGED_KEYS_PER_TABLE

ASSUME ChangedKeysAssumption == MaxChangedKeys \in Nat \ {0}

\* What the parser and the catalog have seen to before a statement is planned.
IsAssignment(t, e, kinds) ==
    /\ e.kind \in kinds
    /\ e.kind = "value" => e.value \in Values
    /\ e.kind = "add" => e.value \in Int
    /\ e.kind \in {"add", "excluded"} => e.column \in Columns[t]
AreAssignments(t, set, kinds) ==
    /\ DOMAIN set \subseteq Columns[t]
    /\ \A c \in DOMAIN set : IsAssignment(t, set[c], kinds)
IsStatement(s) ==
    /\ s.kind \in {"insert", "update", "delete"}
    /\ s.table \in Tables
    /\ s.kind = "insert" =>
        /\ s.rows \in Seq(Range(s.rows))
        /\ \A row \in Range(s.rows) : \A c \in DOMAIN row : row[c] \in Values
        /\ s.conflict \in {"error", "nothing", "update"}
        /\ AreAssignments(s.table, s.set, {"value", "default", "add", "excluded"})
    /\ s.kind # "insert" => IsFiniteSet(s.where)
    /\ s.kind = "update" => AreAssignments(s.table, s.set, {"value", "default", "add"})
IsForeignKey(k) ==
    /\ k.table \in Tables /\ k.columns \in Seq(Columns[k.table])
    /\ k.references \in Tables /\ k.referenced \in Seq(Columns[k.references])
    /\ Len(k.columns) = Len(k.referenced)

\* Planned changes, or a refusal.  `moved' pairs a moved row's delete with its upsert.
Plan(changes, moved, tables) ==
    [error |-> "none", changes |-> changes, moved |-> moved, tables |-> tables]
Refusal(error) == [error |-> error, changes |-> <<>>, moved |-> <<>>, tables |-> <<>>]

ReadsRow(e) == e.kind = "add"

\* Planning keeps the rows it read for the writer until their budget is spent.
Held(kept, i, row) == IF i <= kept THEN Read(row) ELSE Unread

-----------------------------------------------------------------------------
\* Reading a statement's rows.

\* The values a predicate fixes a sequence of columns to, if it fixes them all.
Fixes(where, columns) == \A i \in DOMAIN columns : \E w \in where : w.column = columns[i]
FixedValues(where, columns) ==
    [i \in DOMAIN columns |-> (CHOOSE w \in where : w.column = columns[i]).value]

IndexFor(t, where) == {x \in TableIndexes(t) : Fixes(where, x.columns)}

\* By the primary key if the predicate fixes it, else by an index, else by a scan.
Candidates(db, txn, t, where) ==
    IF Fixes(where, PrimaryKey[t])
    THEN LET row == Lookup(db, txn, t, FixedValues(where, PrimaryKey[t]))
         IN  IF row = NoRow THEN <<>> ELSE <<row>>
    ELSE IF IndexFor(t, where) # {} /\ ReadsCommitted(txn, t)
    THEN LET x == CHOOSE y \in IndexFor(t, where) : TRUE
         IN  RowsUnder(db.rows[t],
                       InKeyOrder(CommittedOwners(db, x, FixedValues(where, x.columns))))
    ELSE VisitRows(db, txn, t)

Matching(rows, where) == Picked(rows, {i \in DOMAIN rows : Matches(rows[i], where)})
RowsWhere(db, txn, t, where) == Matching(Candidates(db, txn, t, where), where)

-----------------------------------------------------------------------------
(***************************************************************************)
(* INSERT.  Without ON CONFLICT a key that is held, or written twice, is   *)
(* refused.  With it the rows are taken one at a time, each against the    *)
(* rows stored and the ones this statement has written already.            *)
(***************************************************************************)
InsertNew(db, txn, t, rows, keys) ==
    IF \/ \E i \in DOMAIN rows : ~RowIsValid(t, rows[i])
       \/ \E i, j \in DOMAIN keys : i # j /\ keys[i] = keys[j]
       \/ \E i \in DOMAIN keys : Lookup(db, txn, t, keys[i]) # NoRow
    THEN Refusal("constraint")
    ELSE Plan([i \in DOMAIN rows |-> Change(t, keys[i], rows[i], Read(NoRow))], <<>>, <<t>>)

PlanPlainInsert(db, txn, s) ==
    LET rows == [i \in DOMAIN s.rows |-> NormalizeRow(s.table, s.rows[i])]
    IN  InsertNew(db, txn, s.table, rows, [i \in DOMAIN rows |-> KeyOf(s.table, rows[i])])

\* The arbiters a clause names: the primary key, unique indexes, or both.
PrimaryArbiter(s) == s.target = <<>> \/ SameColumns(s.target, PrimaryKey[s.table])
ArbiterIndexes(s) ==
    IF s.target = <<>> THEN UniqueIndexes(s.table)
    ELSE IF PrimaryArbiter(s) THEN {}
    ELSE {x \in UniqueIndexes(s.table) : SameColumns(s.target, x.columns)}

\* The stored rows that hold a row's value in an arbiter: by the index where the view can
\* read it, else from one scan of the table.
RowsHolding(db, txn, x, value) ==
    IF HasNull(value) THEN {}
    ELSE IF ReadsCommitted(txn, x.table) THEN VisitIndex(db, txn, x, value).rows
    ELSE {r \in Range(VisitRows(db, txn, x.table)) : IndexValue(x, r) = value}
StoredConflicts(db, txn, s, row) ==
    UNION {RowsHolding(db, txn, x, IndexValue(x, row)) : x \in ArbiterIndexes(s)}

\* The values a row has in the arbiters; those with a NULL among them meet no other.
ArbiterSlots(s, row) ==
    {slot \in {[index |-> x, value |-> IndexValue(x, row)] : x \in ArbiterIndexes(s)} :
        ~HasNull(slot.value)}

Conflict(kind, row) == [kind |-> kind, row |-> row]
ConflictAmong(byKey, byIndex) ==
    IF byKey # NoRow THEN Conflict("existing", byKey)
    ELSE IF byIndex # {} THEN Conflict("existing", CHOOSE r \in byIndex : TRUE)
    ELSE Conflict("none", NoRow)

\* What a proposed row meets: nothing, a row this statement wrote, or a stored row.
FindConflict(db, txn, s, acc, row) ==
    IF \/ PrimaryArbiter(s) /\ KeyOf(s.table, row) \in acc.written
       \/ ArbiterSlots(s, row) \cap acc.slots # {}
    THEN Conflict("written", NoRow)
    ELSE ConflictAmong(
            IF PrimaryArbiter(s) THEN Lookup(db, txn, s.table, KeyOf(s.table, row)) ELSE NoRow,
            {r \in StoredConflicts(db, txn, s, row) : KeyOf(s.table, r) \notin acc.written})

\* The row is written: a new one as it is proposed, a conflicting one as the clause updates it.
WriteRow(s, acc, next, held) ==
    IF ~RowIsValid(s.table, next) THEN [acc EXCEPT !.error = "constraint"]
    ELSE [acc EXCEPT !.changes = Append(@, Change(s.table, KeyOf(s.table, next), next, held)),
                     !.written = @ \cup {KeyOf(s.table, next)},
                     !.slots = @ \cup ArbiterSlots(s, next)]
UpdateExisting(s, kept, acc, old, next) ==
    IF KeyOf(s.table, next) # KeyOf(s.table, old) THEN [acc EXCEPT !.error = "unsupported"]
    ELSE WriteRow(s, acc, next, Held(kept, Len(acc.changes) + 1, old))

TakeRow(db, txn, s, kept, acc, row, conflict) ==
    CASE conflict.kind # "none" /\ s.conflict = "nothing" -> acc
      [] conflict.kind = "existing" /\ s.conflict = "update" ->
            UpdateExisting(s, kept, acc, conflict.row, Updated(s.table, s.set, conflict.row, row))
      [] conflict.kind = "written" /\ s.conflict = "update" -> [acc EXCEPT !.error = "constraint"]
      [] conflict.kind = "none" ->
            IF KeyOf(s.table, row) \in acc.written
                \/ Lookup(db, txn, s.table, KeyOf(s.table, row)) # NoRow
            THEN [acc EXCEPT !.error = "constraint"]
            ELSE WriteRow(s, acc, row, Read(NoRow))

InsertOrUpdateRow(db, txn, s, kept, acc, row) ==
    IF acc.error # "none" THEN acc
    ELSE IF ~RowIsValid(s.table, row) THEN [acc EXCEPT !.error = "constraint"]
    ELSE TakeRow(db, txn, s, kept, acc, row, FindConflict(db, txn, s, acc, row))

\* A constant is checked before any row is read, whether or not a row takes it.
BadConstant(t, set, kinds) ==
    \E c \in DOMAIN set \cap NotNull[t] :
        set[c].kind \in kinds /\ Assigned(t, c, set[c], NoRow, NoRow) = Null

InsertedPlan(t, done) ==
    IF done.error # "none" THEN Refusal(done.error)
    ELSE Plan(done.changes, <<>>, IF done.changes = <<>> THEN <<>> ELSE <<t>>)

InsertOrUpdateRows(db, txn, s, kept) ==
    LET after[n \in 0..Len(s.rows)] ==
            IF n = 0 THEN [error |-> "none", changes |-> <<>>, written |-> {}, slots |-> {}]
            ELSE InsertOrUpdateRow(db, txn, s, kept, after[n - 1],
                                   NormalizeRow(s.table, s.rows[n]))
    IN  after[Len(s.rows)]

PlanInsert(db, txn, s, kept) ==
    IF s.conflict = "error" THEN PlanPlainInsert(db, txn, s)
    ELSE IF BadConstant(s.table, s.set, {"value"}) THEN Refusal("constraint")
    ELSE InsertedPlan(s.table, InsertOrUpdateRows(db, txn, s, kept))

(***************************************************************************)
(* UPDATE.  A row that keeps its key is replaced under it; a row that      *)
(* moves is deleted under the old key and upserted under the new one, all  *)
(* the deletes first.  A destination must be new, or the old key of a row  *)
(* that the statement moves away.                                          *)
(***************************************************************************)
\* The rows a statement finds, and what its assignments make of them.
UpdateOf(t, old, new) == [old |-> old, new |-> new, from |-> KeyOf(t, old), to |-> KeyOf(t, new)]
UpdatesOf(s, old) ==
    [i \in DOMAIN old |-> UpdateOf(s.table, old[i], Updated(s.table, s.set, old[i], NoRow))]

MovesCollide(db, txn, t, updates) ==
    LET sources == {u.from : u \in Range(updates)}
        Moves(u) == u.to # u.from
    IN  /\ \E u \in Range(updates) : Moves(u)
        /\ \/ \E i, j \in DOMAIN updates : i # j /\ updates[i].to = updates[j].to
           \/ \E u \in Range(updates) :
                Moves(u) /\ u.to \notin sources /\ Lookup(db, txn, t, u.to) # NoRow

UpdateChanges(t, updates, kept) ==
    LET HeldAt(i) == Held(kept, i, updates[i].old)
        movers == Ascending({i \in DOMAIN updates : updates[i].to # updates[i].from})
        deletes == [n \in DOMAIN movers |->
                        Change(t, updates[movers[n]].from, NoRow, HeldAt(movers[n]))]
        upserts == [i \in DOMAIN updates |->
                        Change(t, updates[i].to, updates[i].new,
                               IF i \in Range(movers) THEN Unread ELSE HeldAt(i))]
    IN  Plan(deletes \o upserts,
             [n \in DOMAIN movers |-> <<n, Len(movers) + movers[n]>>],
             IF updates = <<>> THEN <<>> ELSE <<t>>)

UpdatePlan(db, txn, s, kept, updates) ==
    IF \/ BadConstant(s.table, s.set, {"value", "default"})
       \/ \E u \in Range(updates) : ~RowIsValid(s.table, u.new)
       \/ MovesCollide(db, txn, s.table, updates)
    THEN Refusal("constraint")
    ELSE UpdateChanges(s.table, updates, kept)
PlanUpdate(db, txn, s, kept) ==
    UpdatePlan(db, txn, s, kept, UpdatesOf(s, RowsWhere(db, txn, s.table, s.where)))

DeletePlan(t, kept, old) ==
    Plan([i \in DOMAIN old |-> Change(t, KeyOf(t, old[i]), NoRow, Held(kept, i, old[i]))],
         <<>>, IF old = <<>> THEN <<>> ELSE <<t>>)
PlanDelete(db, txn, s, kept) == DeletePlan(s.table, kept, RowsWhere(db, txn, s.table, s.where))

-----------------------------------------------------------------------------
(***************************************************************************)
(* The point path: a prepared statement of one row, addressed by its key,  *)
(* planned in a transaction without the general planner.  It declines the  *)
(* statements it is not made for.                                          *)
(***************************************************************************)
Declined == [error |-> "declined", changes |-> <<>>, moved |-> <<>>, tables |-> <<>>]

\* A predicate of one equality for each key column, and no other.
IsPointKey(t, where) ==
    /\ Fixes(where, PrimaryKey[t])
    /\ Cardinality(where) = Len(PrimaryKey[t])
    /\ ~HasNull(FixedValues(where, PrimaryKey[t]))

AssignsKey(t, set) == DOMAIN set \cap Range(PrimaryKey[t]) # {}

\* Mutant: a statement that assigns the key is planned under the key it names.
PlanPointUpdateInPlace(db, txn, s) ==
    LET key == FixedValues(s.where, PrimaryKey[s.table])
        old == Lookup(db, txn, s.table, key)
    IN  IF ~IsPointKey(s.table, s.where) \/ \E c \in DOMAIN s.set : ReadsRow(s.set[c])
        THEN Declined
        ELSE IF old = NoRow THEN Plan(<<>>, <<>>, <<>>)
        ELSE Plan(<<Change(s.table, key, Updated(s.table, s.set, old, NoRow), Read(old))>>,
                  <<>>, <<s.table>>)

PlanPointUpdate(db, txn, s) ==
    LET key == FixedValues(s.where, PrimaryKey[s.table])
        old == Lookup(db, txn, s.table, key)
        new == Updated(s.table, s.set, old, NoRow)
    IN  IF \/ ~IsPointKey(s.table, s.where)
           \/ AssignsKey(s.table, s.set)
           \/ \E c \in DOMAIN s.set : ReadsRow(s.set[c])
        THEN Declined
        ELSE IF BadConstant(s.table, s.set, {"value", "default"}) THEN Refusal("constraint")
        ELSE IF old = NoRow THEN Plan(<<>>, <<>>, <<>>)
        ELSE Plan(<<Change(s.table, key, new, Read(old))>>, <<>>, <<s.table>>)

PlanPointDelete(db, txn, s) ==
    LET key == FixedValues(s.where, PrimaryKey[s.table])
        old == Lookup(db, txn, s.table, key)
    IN  IF ~IsPointKey(s.table, s.where) THEN Declined
        ELSE IF old = NoRow THEN Plan(<<>>, <<>>, <<>>)
        ELSE Plan(<<Change(s.table, key, NoRow, Read(old))>>, <<>>, <<s.table>>)

\* One row with a primary-key target, whose clause names columns and constants only.
IsPointUpsert(s) ==
    /\ s.conflict = "update" /\ Len(s.rows) = 1
    /\ s.target # <<>> /\ PrimaryArbiter(s)
    /\ ~AssignsKey(s.table, s.set)
    /\ \A c \in DOMAIN s.set : s.set[c].kind \in {"value", "excluded"}

PlanPointUpsert(db, txn, s) ==
    LET row == NormalizeRow(s.table, s.rows[1])
        key == KeyOf(s.table, row)
        old == Lookup(db, txn, s.table, key)
        new == IF old = NoRow THEN row ELSE Updated(s.table, s.set, old, row)
    IN  IF \/ BadConstant(s.table, s.set, {"value"})
           \/ ~RowIsValid(s.table, row) \/ ~RowIsValid(s.table, new)
        THEN Refusal("constraint")
        ELSE Plan(<<Change(s.table, key, new, Read(old))>>, <<>>, <<s.table>>)

PlanPointInsert(db, txn, s) ==
    CASE s.conflict = "error" -> PlanPlainInsert(db, txn, s)
      [] IsPointUpsert(s) -> PlanPointUpsert(db, txn, s)
      [] OTHER -> Declined

PlanPoint(db, txn, s) ==
    CASE s.kind = "insert" -> PlanPointInsert(db, txn, s)
      [] s.kind = "update" -> PlanPointUpdate(db, txn, s)
      [] s.kind = "delete" -> PlanPointDelete(db, txn, s)

-----------------------------------------------------------------------------
(***************************************************************************)
(* Foreign keys.  The rows a statement changes are a worklist; a row that  *)
(* loses the values other rows reference applies each key's action to      *)
(* them, and rows an action changes join the worklist once.                *)
(***************************************************************************)
Involves(foreign, t) ==
    \E i \in DOMAIN foreign : foreign[i].table = t \/ foreign[i].references = t

\* A row's values for a foreign key, which ignores a row with a NULL among them.
Holds(row, columns, values) == row # NoRow /\ Project(row, columns) = values /\ ~HasNull(values)

Equalities(columns, values) ==
    {[column |-> columns[i], value |-> values[i]] : i \in DOMAIN columns}

\* Whether, once the changes are made, a row of a table holds the values.
Survives(db, txn, changed, t, columns, values) ==
    \/ \E i \in DOMAIN changed : changed[i].table = t /\ Holds(changed[i].new, columns, values)
    \/ \E row \in Range(RowsWhere(db, txn, t, Equalities(columns, values))) :
        \A i \in DOMAIN changed :
            (changed[i].table = t /\ changed[i].old # NoRow) =>
                KeyOf(t, changed[i].old) # KeyOf(t, row)

\* The statement's own changes, a moved row's two joined into one.
OwnChanges(db, txn, planned) ==
    LET c == planned.changes
        OldAt(i) == IF c[i].held.read THEN c[i].held.row ELSE Lookup(db, txn, c[i].table, c[i].key)
        Source(i) == {m[1] : m \in {n \in Range(planned.moved) : n[2] = i}}
        deletes == {m[1] : m \in Range(planned.moved)}
        joined == [i \in DOMAIN c |->
            [table |-> c[i].table, new |-> c[i].next, gone |-> i \in deletes,
             old |-> IF Source(i) = {} THEN OldAt(i) ELSE OldAt(CHOOSE j \in Source(i) : TRUE)]]
    IN  Picked(joined, {i \in DOMAIN c : i \notin deletes})

\* What an action makes of a referencing row; values are those the referenced row takes.
Acted(k, action, base, values) ==
    [c \in DOMAIN base |->
        IF c \notin Range(k.columns) THEN base[c]
        ELSE IF action = "cascade" THEN values[CHOOSE i \in DOMAIN k.columns : k.columns[i] = c]
        ELSE IF action = "set default" THEN Default[k.table][c]
        ELSE Null]

ActOnRow(own, k, action, deleted, values, acc, row) ==
    LET found == {i \in DOMAIN acc.changed :
                    /\ acc.changed[i].table = k.table
                    /\ acc.changed[i].old # NoRow
                    /\ KeyOf(k.table, acc.changed[i].old) = KeyOf(k.table, row)}
        at == CHOOSE i \in found : \A j \in found : i <= j
        base == IF found = {} THEN row ELSE acc.changed[at].new
        next == IF action = "cascade" /\ deleted THEN NoRow
                ELSE Acted(k, action, base, values)
    IN  IF acc.error # "none" \/ (found # {} /\ (at <= own \/ base = NoRow)) THEN acc
        ELSE IF action \in {"no action", "restrict"} \/ (next # NoRow /\ ~RowIsValid(k.table, next))
             THEN [acc EXCEPT !.error = "constraint"]
        ELSE IF found # {} THEN [acc EXCEPT !.changed[at].new = next]
        ELSE [acc EXCEPT !.changed = Append(@, [table |-> k.table, old |-> row, new |-> next,
                                                gone |-> FALSE])]

ActOnRows(own, k, action, deleted, values, acc, rows) ==
    LET after[n \in 0..Len(rows)] ==
            IF n = 0 THEN acc
            ELSE ActOnRow(own, k, action, deleted, values, after[n - 1], rows[n])
    IN  after[Len(rows)]

ApplyKey(db, txn, own, item, acc, k) ==
    LET values == Project(item.old, k.referenced)
        next == IF item.new = NoRow THEN <<>> ELSE Project(item.new, k.referenced)
        action == IF item.new = NoRow THEN k.onDelete ELSE k.onUpdate
        rows == RowsWhere(db, txn, k.table, Equalities(k.columns, values))
    IN  IF \/ acc.error # "none"
           \/ k.references # item.table
           \/ HasNull(values)
           \/ next = values
           \/ action = "no action" /\ Survives(db, txn, acc.changed, item.table, k.referenced, values)
        THEN acc
        ELSE ActOnRows(own, k, action, item.new = NoRow, next, acc, rows)

\* The worklist is walked once, from the statement's own rows to the last an action added.
ApplyKeys(db, txn, foreign, own, item, acc) ==
    LET after[n \in 0..Len(foreign)] ==
            IF n = 0 THEN acc ELSE ApplyKey(db, txn, own, item, after[n - 1], foreign[n])
    IN  after[Len(foreign)]
ActionsOf(db, txn, foreign, own, acc, p) ==
    IF p > Len(acc.changed) \/ acc.error # "none" \/ acc.changed[p].old = NoRow THEN acc
    ELSE ApplyKeys(db, txn, foreign, own, acc.changed[p], acc)
RowsSeen(db, txn) == Cardinality(UNION {{t} \X DOMAIN VisitRows(db, txn, t) : t \in Tables})
ActionsUpTo(db, txn, foreign, own, last) ==
    LET after[p \in 0..last] ==
            IF p = 0 THEN [error |-> "none", changed |-> own]
            ELSE ActionsOf(db, txn, foreign, Len(own), after[p - 1], p)
    IN  after[last]
ActionsTaken(db, txn, foreign, own) ==
    ActionsUpTo(db, txn, foreign, own, Len(own) + RowsSeen(db, txn))

\* Every reference a changed row makes is met; an unchanged one is checked again only if
\* the statement changes the table it references.
ReferencesMet(db, txn, foreign, changed) ==
    \A i \in DOMAIN changed : \A n \in DOMAIN foreign :
        LET k == foreign[n]
            item == changed[i]
            values == Project(item.new, k.columns)
        IN  (/\ item.new # NoRow
             /\ k.table = item.table
             /\ ~HasNull(values)
             /\ \/ ~Holds(item.old, k.columns, values)
                \/ \E j \in DOMAIN changed : changed[j].table = k.references)
            => Survives(db, txn, changed, k.references, k.referenced, values)

\* The changes the actions added to a statement's own.
ActionChange(d) ==
    Change(d.table, KeyOf(d.table, IF d.new = NoRow THEN d.old ELSE d.new), d.new, Unread)
\* Tables in the order they are first named.
TablesAfter(tables, changes) ==
    LET after[n \in 0..Len(changes)] ==
            IF n = 0 THEN tables
            ELSE IF changes[n].table \in Range(after[n - 1]) THEN after[n - 1]
            ELSE Append(after[n - 1], changes[n].table)
    IN  after[Len(changes)]
WithActions(planned, added) ==
    [planned EXCEPT
        !.changes = @ \o [i \in DOMAIN added |-> ActionChange(added[i])],
        !.tables = TablesAfter(@, added)]
Enforced(db, txn, foreign, planned, own, done) ==
    IF done.error # "none" THEN Refusal(done.error)
    ELSE IF ~ReferencesMet(db, txn, foreign, done.changed) THEN Refusal("constraint")
    ELSE WithActions(planned, SubSeq(done.changed, own + 1, Len(done.changed)))
EnforceOwn(db, txn, foreign, planned, own) ==
    Enforced(db, txn, foreign, planned, Len(own), ActionsTaken(db, txn, foreign, own))

Enforce(db, txn, foreign, planned) ==
    IF \/ planned.error # "none" \/ planned.changes = <<>>
       \/ ~Involves(foreign, planned.changes[1].table)
    THEN planned
    ELSE EnforceOwn(db, txn, foreign, planned, OwnChanges(db, txn, planned))

PlanDml(db, txn, foreign, s, kept) ==
    Enforce(db, txn, foreign,
        CASE s.kind = "insert" -> PlanInsert(db, txn, s, kept)
          [] s.kind = "update" -> PlanUpdate(db, txn, s, kept)
          [] s.kind = "delete" -> PlanDelete(db, txn, s, kept))

\* Mutant of KeysChanged: only the keys that hold a row afterwards are reported.
ReportedLeft(changes, t) == {c.key : c \in {d \in Range(changes) : d.table = t /\ d.next # NoRow}}
KeysChanged(changes, t) == {c.key : c \in {d \in Range(changes) : d.table = t}}

\* The keys a statement reports: those its changes name, in each table.  A table with
\* more of them than a report may name is left out, never named in part.
Reportable(keys) == Cardinality(keys) <= MaxChangedKeys
ChangedKeys(changes) ==
    [t \in {u \in {c.table : c \in Range(changes)} : Reportable(KeysChanged(changes, u))} |->
        KeysChanged(changes, t)]
=============================================================================
