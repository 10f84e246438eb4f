---------------------------- MODULE SerialDatabase ----------------------------
(***************************************************************************)
(* What the storage engine promises of INSERT, UPDATE, DELETE and explicit *)
(* transactions, without overlays, candidates, indexes or worklists: each  *)
(* table is a set of rows, a statement has one effect on the rows it finds *)
(* and is either made whole or refused, and a transaction works on a copy  *)
(* that a commit makes the contents.                                       *)
(***************************************************************************)
EXTENDS Relations

CONSTANTS
    NoWork       \* no transaction is open

VARIABLES
    foreign,     \* the foreign keys of the catalog, in order
    contents,    \* the committed rows
    work,        \* the rows the open transaction sees, or NoWork
    request,     \* the statements of the last operation, in order
    answer       \* how it ended

vars == <<foreign, contents, work, request, answer>>

-----------------------------------------------------------------------------
(***************************************************************************)
(* A statement's own changes: for each row it writes the row it replaces   *)
(* and the row it leaves, NoRow where there is none.                       *)
(***************************************************************************)
Pair(t, old, new) == [table |-> t, old |-> old, new |-> new]
Fails == [ok |-> FALSE, pairs |-> {}]
Own(pairs) == [ok |-> TRUE, pairs |-> pairs]

\* The rows of a table once pairs are applied to it.
Applied(rows, pairs) == (rows \ {p.old : p \in pairs}) \cup ({p.new : p \in pairs} \ {NoRow})

OwnDelete(c, s) == Own({Pair(s.table, r, NoRow) : r \in {q \in c[s.table] : Matches(q, s.where)}})

OwnUpdate(c, s) ==
    IF \E col \in DOMAIN s.set \cap NotNull[s.table] :
            s.set[col].kind = "value" /\ s.set[col].value = Null
    THEN Fails
    ELSE Own({Pair(s.table, r, Updated(s.table, s.set, r, NoRow)) :
                r \in {q \in c[s.table] : Matches(q, s.where)}})

\* Two rows conflict if they agree on the target of the clause, or on any key without one.
Conflicts(t, target, r, q) ==
    LET keys == {PrimaryKey[t]} \cup {x.columns : x \in UniqueIndexes(t)}
        arbiters == IF target = <<>> THEN keys ELSE {k \in keys : SameColumns(k, target)}
    IN  \E k \in arbiters : Project(r, k) = Project(q, k) /\ ~HasNull(Project(r, k))

\* One proposed row, against the rows as the rows before it left them.
InsertOne(c, s, acc, proposed) ==
    LET t == s.table
        row == NormalizeRow(t, proposed)
        now == Applied(c[t], acc.pairs)
        met == {q \in now : s.conflict # "error" /\ Conflicts(t, s.target, row, q)}
        old == CHOOSE q \in met : TRUE
        mine == \E p \in acc.pairs : p.new = old
        next == Updated(t, s.set, old, row)
    IN  IF ~acc.ok THEN acc
        ELSE IF ~RowIsValid(t, row) THEN Fails
        ELSE IF met = {}
        THEN IF \E q \in now : KeyOf(t, q) = KeyOf(t, row) THEN Fails
             ELSE [acc EXCEPT !.pairs = @ \cup {Pair(t, NoRow, row)}]
        ELSE IF s.conflict = "nothing" THEN acc
        ELSE IF mine \/ KeyOf(t, next) # KeyOf(t, old) THEN Fails
        ELSE [acc EXCEPT !.pairs = @ \cup {Pair(t, old, next)}]

OwnInsert(c, s) ==
    IF \E col \in DOMAIN s.set \cap NotNull[s.table] :
            s.set[col].kind = "value" /\ s.set[col].value = Null
    THEN Fails
    ELSE FoldLeft(LAMBDA acc, row : InsertOne(c, s, acc, row), Own({}), s.rows)

OwnChange(c, s) ==
    CASE s.kind = "insert" -> OwnInsert(c, s)
      [] s.kind = "update" -> OwnUpdate(c, s)
      [] s.kind = "delete" -> OwnDelete(c, s)

-----------------------------------------------------------------------------
(***************************************************************************)
(* The rows foreign keys change with them.  A pair triggers a key for a    *)
(* row that references the values the pair's row gives up; the row's fate  *)
(* is decided by all the pairs that trigger on it, whatever their order:   *)
(* it is deleted if one of them deletes it, and otherwise each key sets    *)
(* its own columns.  Rows the statement writes itself are left as it says. *)
(***************************************************************************)
Triggers(k, p, r) ==
    /\ p.old # NoRow
    /\ k.references = p.table
    /\ Project(r, k.columns) = Project(p.old, k.referenced)
    /\ ~HasNull(Project(r, k.columns))
    /\ p.new # NoRow => Project(p.new, k.referenced) # Project(p.old, k.referenced)

Protective == {"no action", "restrict"}

ActionOf(k, p) == IF p.new = NoRow THEN k.onDelete ELSE k.onUpdate

TriggersOn(keys, pairs, t, r) ==
    {kp \in {k \in keys : k.table = t} \X pairs : Triggers(kp[1], kp[2], r)}

Fate(keys, pairs, t, r) ==
    LET on == {kp \in TriggersOn(keys, pairs, t, r) : ActionOf(kp[1], kp[2]) \notin Protective}
        Sets(col) == {kp \in on : col \in Range(kp[1].columns)}
        Value(kp, col) ==
            LET action == ActionOf(kp[1], kp[2])
                i == CHOOSE n \in DOMAIN kp[1].columns : kp[1].columns[n] = col
            IN  CASE action = "cascade" -> kp[2].new[kp[1].referenced[i]]
                  [] action = "set null" -> Null
                  [] action = "set default" -> Default[t][col]
    IN  IF \E kp \in on : ActionOf(kp[1], kp[2]) = "cascade" /\ kp[2].new = NoRow THEN NoRow
        ELSE [col \in Columns[t] |->
                IF Sets(col) = {} THEN r[col] ELSE Value(CHOOSE kp \in Sets(col) : TRUE, col)]

\* The pairs with the rows they trigger on, to the fixed point that the rows bound.
Spread(c, keys, own) ==
    LET Others(t) == c[t] \ {p.old : p \in own}
        Step(pairs, n) ==
            own \cup UNION {
                {Pair(t, r, Fate(keys, pairs, t, r)) :
                    r \in {q \in Others(t) :
                        \E kp \in TriggersOn(keys, pairs, t, q) :
                            ActionOf(kp[1], kp[2]) \notin Protective}} :
                t \in Tables}
        rows == MapThenSumSet(LAMBDA t : Cardinality(c[t]), Tables)
    IN  FoldLeft(Step, own, [n \in 1..rows |-> n])

\* A key that protects its rows refuses the statement; NO ACTION only if the values are gone.
Protected(c, keys, pairs, after, own) ==
    \E k \in keys : \E p \in pairs : \E r \in c[k.table] \ {q.old : q \in own} :
        /\ Triggers(k, p, r)
        /\ ActionOf(k, p) \in Protective
        /\ ActionOf(k, p) = "restrict"
            \/ ~\E q \in after[k.references] : Project(q, k.referenced) = Project(p.old, k.referenced)

\* The rows a statement leaves, if it may.
Effect(c, s) ==
    LET keys == Range(foreign)
        own == OwnChange(c, s)
        pairs == Spread(c, keys, own.pairs)
        after == [t \in Tables |-> Applied(c[t], {p \in pairs : p.table = t})]
    IN  [ok |-> /\ own.ok
                /\ ~Protected(c, keys, pairs, after, own.pairs)
                /\ \A p \in pairs : p.new \notin c[p.table] \ {q.old : q \in {w \in pairs : w.table = p.table}}
                /\ Cardinality({p \in own.pairs : p.new # NoRow})
                    = Cardinality({p.new : p \in {q \in own.pairs : q.new # NoRow}})
                /\ ConstraintsHold(after, keys),
         rows |-> after]

EffectOfAll(c, script) ==
    FoldLeft(LAMBDA acc, s : IF ~acc.ok THEN acc ELSE Effect(acc.rows, s),
             [ok |-> TRUE, rows |-> c], script)

-----------------------------------------------------------------------------
Init ==
    /\ ConstraintsHold(contents, Range(foreign))
    /\ work = NoWork
    /\ request = <<>>
    /\ answer = "none"

\* Refusing for want of room, or for a failing device, is always allowed.
Unmade == {"too large", "failed", "recovery"}

Begin == work = NoWork /\ work' = contents /\ answer' = "none" /\ UNCHANGED contents

Run(script) ==
    /\ work # NoWork
    /\ UNCHANGED contents
    /\ \E e \in {EffectOfAll(work, script)} :
        \/ e.ok /\ work' = e.rows /\ answer' = "none"
        \/ ~e.ok /\ work' = work /\ answer' = "constraint"
        \/ work' = work /\ answer' \in Unmade

RunAndCommit(script) ==
    /\ work = NoWork
    /\ UNCHANGED work
    /\ \E e \in {EffectOfAll(contents, script)} :
        \/ e.ok /\ contents' = e.rows /\ answer' = "none"
        \/ ~e.ok /\ contents' = contents /\ answer' = "constraint"
        \/ contents' = contents /\ answer' \in Unmade
        \/ e.ok /\ contents' = e.rows /\ answer' = "recovery"

Commit ==
    /\ work # NoWork
    /\ \/ contents' = work /\ work' = NoWork /\ answer' = "none"
       \/ answer' \in Unmade /\ contents' \in {contents, work} /\ work' = work
            /\ (contents' # contents => answer' = "recovery")

Rollback == work # NoWork /\ work' = NoWork /\ answer' = "none" /\ UNCHANGED contents

\* The process ends: the open transaction is lost and nothing else.
Restart == work' = NoWork /\ answer' = "none" /\ UNCHANGED contents

Next ==
    /\ UNCHANGED foreign
    /\ IF request' = <<>> THEN Begin \/ Commit \/ Rollback \/ Restart
       ELSE Run(request') \/ RunAndCommit(request')

Spec == Init /\ [][Next]_vars
=============================================================================
