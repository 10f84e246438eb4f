------------------------------- MODULE Nested -------------------------------
(***************************************************************************)
(* Queries nested in queries (nested.rs): a level reads a table, or the    *)
(* rows of another level, and for each of its rows runs the levels nested  *)
(* in it with the columns they read from the rows around them bound to     *)
(* values.  It returns its own outputs, columns of the rows nested levels  *)
(* give, JSON made of rows, or the JSON of all its rows gathered.          *)
(***************************************************************************)
EXTENDS Queries

\* A level's table is read under an alias; a level it reads instead is its `derived'.
NoLevel == [none |-> TRUE]
IsLevel(level) == "items" \in DOMAIN level

PlainItem(name, e) == [kind |-> "plain", name |-> name, e |-> e]
LateralItem(name, n, column) == [kind |-> "lateral", name |-> name, lateral |-> n, column |-> column]
EachItem(name, element) == [kind |-> "each", name |-> name, element |-> element]
GatheredItem(name, element, order, coalesced) ==
    [kind |-> "gathered", name |-> name, element |-> element, order |-> order, coalesced |-> coalesced]

\* What JSON is made of: a reference, several, or an alias's row.
ElementColumn(ref) == [column |-> ref]
ElementArray(refs) == [array |-> refs]
ElementObject(alias) == [object |-> alias]

Json(v) == [json |-> v]
AnyColumn == ""
Unnamed == ""

-----------------------------------------------------------------------------
\* Bindings: the rows around a level, by alias, the innermost last.

Binding(alias, row) == [alias |-> alias, row |-> row]
IsBound(bindings, alias) == \E i \in DOMAIN bindings : bindings[i].alias = alias

\* Mutant: the outermost row of an alias is read.
BoundRowOutermost(bindings, alias) ==
    bindings[Least({i \in DOMAIN bindings : bindings[i].alias = alias})].row

BoundRow(bindings, alias) ==
    LET named == {i \in DOMAIN bindings : bindings[i].alias = alias}
    IN  bindings[CHOOSE i \in named : \A j \in named : i >= j].row

Readable(bindings, ref) == IsBound(bindings, ref[1]) /\ ref[2] \in DOMAIN BoundRow(bindings, ref[1])
LookupBound(bindings, ref) == BoundRow(bindings, ref[1])[ref[2]]

ElementReadable(element, bindings) ==
    CASE "column" \in DOMAIN element -> Readable(bindings, element.column)
      [] "array" \in DOMAIN element -> \A i \in DOMAIN element.array : Readable(bindings, element.array[i])
      [] "object" \in DOMAIN element -> IsBound(bindings, element.object)

ElementValue(element, bindings) ==
    CASE "column" \in DOMAIN element -> LookupBound(bindings, element.column)
      [] "array" \in DOMAIN element ->
            Json([i \in DOMAIN element.array |-> LookupBound(bindings, element.array[i])])
      [] "object" \in DOMAIN element -> Json(BoundRow(bindings, element.object))

\* A reference to neither the level's own row nor a column of a row around it fails the level.
References(level) ==
    ColumnsRead(level.predicate)
        \cup UNION {ColumnNames(level.items[i].e) : i \in {i \in DOMAIN level.items : level.items[i].kind = "plain"}}
IsUnbound(ref, own, bindings) == ref[1] \notin {own, Unnamed} /\ ~Readable(bindings, ref)

\* A level's own columns keep their names, and a column of a row around it is its value.
RECURSIVE BoundExpression(_, _, _), BoundPredicate(_, _, _)
BoundExpression(e, own, bindings) ==
    CASE e.kind = "column" ->
            IF e.name[1] \in {own, Unnamed} THEN Column(e.name[2])
            ELSE ValueOf(LookupBound(bindings, e.name))
      [] e.kind = "negate" -> [e EXCEPT !.of = BoundExpression(@, own, bindings)]
      [] e.kind = "binary" -> [e EXCEPT !.left = BoundExpression(@, own, bindings),
                                        !.right = BoundExpression(@, own, bindings)]
      [] OTHER -> e
BoundPredicate(p, own, bindings) ==
    CASE p.kind \in {"and", "or"} ->
            [p EXCEPT !.predicates = [i \in DOMAIN @ |-> BoundPredicate(@[i], own, bindings)]]
      [] p.kind = "not" -> [p EXCEPT !.predicate = BoundPredicate(@, own, bindings)]
      [] p.kind = "expressions" ->
            Comparison(BoundExpression(p.left, own, bindings), p.op,
                       BoundExpression(p.right, own, bindings))
      [] OTHER -> [p EXCEPT !.column = @[2]]

-----------------------------------------------------------------------------
\* Levels.

LevelFailed == [failed |-> TRUE, fields |-> <<>>, rows |-> <<>>]
LevelRows(fields, rows) == [failed |-> FALSE, fields |-> fields, rows |-> rows]

\* A row's values under their fields' names, of which the last of a name stays.
Named(fields, values) ==
    [name \in Range(fields) |->
        values[CHOOSE i \in DOMAIN fields :
                fields[i] = name /\ \A j \in (i + 1)..Len(fields) : fields[j] # name]]

PlainItems(level) == SelectSeq(level.items, LAMBDA item : item.kind = "plain")
IsGathering(level) == \E i \in DOMAIN level.items : level.items[i].kind = "gathered"

\* json_agg stands beside json_agg only, and rows of a level only make JSON.
LevelIsValid(level) ==
    /\ IsGathering(level) => \A i \in DOMAIN level.items : level.items[i].kind = "gathered"
    /\ IsLevel(level.derived) => PlainItems(level) = <<>>

\* A level's own query, run with the rows around it bound: its outputs, then every column.
RunOwn(level, bindings) ==
    LET plain == PlainItems(level)
        outputs == [i \in DOMAIN plain |->
                        Item(plain[i].name, BoundExpression(plain[i].e, level.alias, bindings))]
        plan == [items |-> Append(outputs, Star), order |-> level.order, byOutputs |-> FALSE,
                 limit |-> level.limit, offset |-> 0, arrays |-> TRUE,
                 predicate |-> BoundPredicate(level.predicate, level.alias, bindings)]
    IN  [result |-> IF \E ref \in References(level) : IsUnbound(ref, level.alias, bindings)
                    THEN Refused("column") ELSE Execute(level.reader, plan),
         items |-> PositionOutputs(plan, Listed(level.reader.schema, plan.items)).items]

RECURSIVE EvaluateLevel(_, _), BaseRows(_, _), ReadLaterals(_, _, _)

\* The level's rows: its outputs, and the row it binds.
BaseRows(level, bindings) ==
    LET inner == EvaluateLevel(level.derived, bindings)
        own == RunOwn(level, bindings)
        plain == Len(PlainItems(level))
        names == NamesOf(level.reader.schema)
        Row(row) == [values |-> [i \in 1..plain |-> row[own.items[i].output]],
                     bound |-> [name \in Range(names) |->
                        row[own.items[plain + CHOOSE i \in DOMAIN names : names[i] = name].output]]]
    IN  IF IsLevel(level.derived)
        THEN [failed |-> inner.failed,
              rows |-> [i \in DOMAIN inner.rows |->
                            [values |-> <<>>, bound |-> Named(inner.fields, inner.rows[i])]]]
        ELSE IF "refused" \in DOMAIN own.result THEN [failed |-> TRUE, rows |-> <<>>]
        ELSE [failed |-> FALSE, rows |-> [i \in DOMAIN own.result.rows |-> Row(own.result.rows[i])]]

\* The first row of each nested level from the nth, or NULLs; one with an alias is bound for those
\* after it, and one of a select list may give only one column of at most one row.
ReadLaterals(level, n, state) ==
    LET lateral == level.laterals[n]
        given == EvaluateLevel(lateral.level, state.bindings)
        row == IF given.rows # <<>> THEN given.rows[1] ELSE [i \in DOMAIN given.fields |-> NullValue]
        refused == \/ given.failed
                   \/ lateral.alias = Unnamed /\ (Len(given.fields) # 1 \/ Len(given.rows) > 1)
    IN  IF n > Len(level.laterals) \/ state.failed THEN state
        ELSE ReadLaterals(level, n + 1,
            [failed |-> refused,
             read |-> Append(state.read, [fields |-> given.fields, row |-> row]),
             bindings |-> IF lateral.alias = Unnamed THEN state.bindings
                          ELSE Append(state.bindings, Binding(lateral.alias, Named(given.fields, row)))])

\* The value of an item for one row, or that it has none.
ItemValue(level, at, values, state) ==
    LET item == level.items[at]
        read == state.read[item.lateral]
        fields == {i \in DOMAIN read.fields : item.column \in {AnyColumn, read.fields[i]}}
        before == Len(SelectSeq(SubSeq(level.items, 1, at), LAMBDA other : other.kind = "plain"))
    IN  CASE item.kind = "plain" -> values[before]
          [] item.kind = "lateral" ->
                IF fields = {} THEN Failure("column") ELSE read.row[Least(fields)]
          [] OTHER -> IF ElementReadable(item.element, state.bindings)
                      THEN ElementValue(item.element, state.bindings) ELSE Failure("column")

\* What json_agg makes of its rows: NULL of none, unless coalesced.
GatheredValue(item, at, rows) ==
    LET order == [t \in DOMAIN item.order |-> [item.order[t] EXCEPT !.column = t]]
        Keys(row) == [t \in DOMAIN item.order |-> LookupBound(row.bindings, item.order[t].column)]
        sorted == StableSort(rows, LAMBDA a, b : RowBefore(Keys(a), Keys(b), order))
    IN  IF rows = <<>> /\ ~item.coalesced THEN NullValue
        ELSE Json([i \in DOMAIN sorted |-> sorted[i].values[at]])

EvaluateLevel(level, outside) ==
    LET base == BaseRows(level, outside)
        fields == [i \in DOMAIN level.items |-> level.items[i].name]
        State(row) == ReadLaterals(level, 1, [failed |-> FALSE, read |-> <<>>,
                                             bindings |-> Append(outside, Binding(level.alias, row.bound))])
        rows == [n \in DOMAIN base.rows |->
                    LET state == State(base.rows[n])
                    IN  [failed |-> state.failed, bindings |-> state.bindings,
                         values |-> IF state.failed THEN <<>>
                                    ELSE [i \in DOMAIN level.items |->
                                            ItemValue(level, i, base.rows[n].values, state)]]]
        FailedRow(row) == row.failed \/ \E i \in DOMAIN row.values : Failed(row.values[i])
    IN  IF ~LevelIsValid(level) \/ base.failed \/ \E n \in DOMAIN rows : FailedRow(rows[n])
        THEN LevelFailed
        ELSE IF IsGathering(level)
        THEN LevelRows(fields, <<[i \in DOMAIN level.items |-> GatheredValue(level.items[i], i, rows)]>>)
        ELSE LevelRows(fields, [n \in DOMAIN rows |-> rows[n].values])
=============================================================================
