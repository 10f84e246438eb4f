-------------------------------- MODULE Joins --------------------------------
(***************************************************************************)
(* Joins of tables by equal columns (join.rs).  A relation is a reader and *)
(* the alias it is read under; a reference is an alias, which may be left  *)
(* out, and a column.  WHERE terms that read one relation are pushed to    *)
(* it, and each relation after the first is read by its key, by an index   *)
(* or from a hash table.  Bindings are a row of each relation so far.      *)
(* Limits on the pairs examined and the bytes held are left out.           *)
(***************************************************************************)
EXTENDS Queries

NoAlias == ""
NoRow == [none |-> TRUE]

-----------------------------------------------------------------------------
\* References.

Holders(ref, relations) ==
    {s \in DOMAIN relations :
        /\ ref[1] \in {NoAlias, relations[s].alias}
        /\ ref[2] \in Range(NamesOf(relations[s].reader.schema))}

\* An unqualified column must be one relation's alone.
Resolves(ref, relations) == Cardinality(Holders(ref, relations)) = 1
SourceOf(ref, relations) == CHOOSE s \in Holders(ref, relations) : TRUE

\* The columns of joined rows, under each reference that resolves.
JoinedSchema(relations) ==
    LET Named(alias, s) ==
            LET columns == relations[s].reader.schema.columns
            IN  [i \in DOMAIN columns |-> [columns[i] EXCEPT !.name = <<alias, @>>]]
        all == FlattenSeq([s \in DOMAIN relations |-> Named(relations[s].alias, s) \o Named(NoAlias, s)])
    IN  [columns |-> SelectSeq(all, LAMBDA c : Resolves(c.name, relations)), key |-> <<>>]

\* A relation with no row reads as NULL.
JoinedRow(bindings, relations) ==
    [ref \in Range(NamesOf(JoinedSchema(relations))) |->
        LET row == bindings[SourceOf(ref, relations)]
        IN  IF row = NoRow THEN NullValue ELSE row[ref[2]]]

-----------------------------------------------------------------------------
\* Pushed terms.

RECURSIVE RenamedExpression(_), RenamedToSource(_)
RenamedExpression(e) ==
    CASE e.kind = "column" -> [e EXCEPT !.name = @[2]]
      [] e.kind = "negate" -> [e EXCEPT !.of = RenamedExpression(@)]
      [] e.kind = "binary" -> [e EXCEPT !.left = RenamedExpression(@), !.right = RenamedExpression(@)]
      [] OTHER -> e
RenamedToSource(p) ==
    CASE p.kind \in {"and", "or"} ->
            [p EXCEPT !.predicates = [i \in DOMAIN @ |-> RenamedToSource(@[i])]]
      [] p.kind = "not" -> [p EXCEPT !.predicate = RenamedToSource(@)]
      [] p.kind = "expressions" ->
            [p EXCEPT !.left = RenamedExpression(@), !.right = RenamedExpression(@)]
      [] OTHER -> [p EXCEPT !.column = @[2]]

IsSingleSource(p, s, relations) == {SourceOf(ref, relations) : ref \in ColumnsRead(p)} = {s}

Conjuncts(p) == IF p.kind = "and" THEN p.predicates ELSE <<p>>

\* Mutant: terms are pushed to a relation whose rows a LEFT JOIN may find missing.
PushedToLeft(plan, s) ==
    LET terms == SelectSeq(Conjuncts(plan.predicate),
                           LAMBDA p : IsSingleSource(p, s, plan.relations))
    IN  And([i \in DOMAIN terms |-> RenamedToSource(terms[i])])

\* A LEFT JOIN's relation keeps every row, since ON alone decides whether one matches.
Pushed(plan, s) ==
    LET terms == SelectSeq(Conjuncts(plan.predicate),
                           LAMBDA p : IsSingleSource(p, s, plan.relations))
    IN  IF s > 1 /\ plan.kinds[s - 1] = "left" THEN NoPredicate
        ELSE And([i \in DOMAIN terms |-> RenamedToSource(terms[i])])

-----------------------------------------------------------------------------
\* Access.

\* The sides of a relation's equalities: its own column, and the earlier one it equals.
StageSides(plan, s) ==
    LET upTo == SubSeq(plan.relations, 1, s)
    IN  [i \in DOMAIN plan.on[s - 1] |->
            LET condition == plan.on[s - 1][i]
                own == IF SourceOf(condition.right, upTo) = s THEN condition.right ELSE condition.left
                other == IF own = condition.right THEN condition.left ELSE condition.right
            IN  [column |-> own[2], from |-> SourceOf(other, upTo), other |-> other[2]]]

EarlierValue(bindings, side) ==
    IF bindings[side.from] = NoRow THEN NullValue ELSE bindings[side.from][side.other]

Fixes(sides, columns) ==
    \A i \in DOMAIN columns : \E n \in DOMAIN sides : sides[n].column = columns[i]

\* The columns a relation is looked up by: its key's, an index's, or none.
LookupColumns(plan, s) ==
    LET reader == plan.relations[s].reader
        indexes == IF reader.keyOrder THEN reader.indexes ELSE <<>>
        usable == SelectSeq(<<reader.schema.key>> \o indexes,
                            LAMBDA columns : Fixes(StageSides(plan, s), columns))
    IN  IF usable = <<>> THEN <<>> ELSE usable[1]

\* A value as a column of the type holds it, or NULL if none equals it.
LookupValue(type, v) ==
    CASE type = "int" /\ TypeOf(v) = "float" ->
            IF v.float[2] = 1 /\ Abs(v.float[1]) <= MaxSafe THEN Integer(v.float[1]) ELSE NullValue
      [] type = "float" /\ TypeOf(v) = "int" -> Float(v.int, 1)
      [] OTHER -> IF TypeOf(v) = type THEN v ELSE NullValue

\* The values looked up, by the first equality of each column; a NULL among them finds nothing.
LookupKey(plan, s, bindings) ==
    LET schema == plan.relations[s].reader.schema
        sides == StageSides(plan, s)
        Side(name) == sides[Least({n \in DOMAIN sides : sides[n].column = name})]
    IN  [name \in Range(LookupColumns(plan, s)) |->
            LookupValue(TypeIn(schema, name), EarlierValue(bindings, Side(name)))]

\* The rows looked up, by key or by index.
Lookup(plan, s, bindings) ==
    LET reader == plan.relations[s].reader
        columns == LookupColumns(plan, s)
        values == LookupKey(plan, s, bindings)
        key == EncodeColumns(reader.schema, columns, values)
    IN  IF \E name \in DOMAIN values : IsNull(values[name]) THEN Visit(FALSE, <<>>)
        ELSE IF columns = reader.schema.key THEN VisitKey(reader, key)
        ELSE VisitIndex(reader, columns, key)

\* A value's part of a hash key: numbers by what they equal.
KeyPart(v) == IF IsNumber(v) THEN [number |-> AsFraction(v)] ELSE v

\* The rows of a hash table with equal keys, of those its pushed terms accept.
HashTable(plan, s) ==
    LET reader == plan.relations[s].reader
        p == Pushed(plan, s)
    IN  Accepted(reader, p, VisitCandidates(reader, p, FALSE), Every(reader))

Bucket(plan, s, bindings) ==
    LET sides == StageSides(plan, s)
    IN  SelectSeq(HashTable(plan, s).rows, LAMBDA row : \A i \in DOMAIN sides :
            /\ ~IsNull(row[sides[i].column]) /\ ~IsNull(EarlierValue(bindings, sides[i]))
            /\ KeyPart(row[sides[i].column]) = KeyPart(EarlierValue(bindings, sides[i])))

ConditionsMatch(plan, s, bindings, row) ==
    LET sides == StageSides(plan, s)
    IN  \A i \in DOMAIN sides :
            CompareValues(row[sides[i].column], "=", EarlierValue(bindings, sides[i])) = "true"

-----------------------------------------------------------------------------
\* Joined rows, left-major; a failure takes the place of the rows it prevents.

FailedBindings == <<>>

RECURSIVE Extended(_, _, _)
Extended(plan, s, bindings) ==
    LET hashed == LookupColumns(plan, s) = <<>>
        looked == Lookup(plan, s, bindings)
        candidates == IF hashed THEN Bucket(plan, s, bindings) ELSE looked.rows
        Truth(row) == IF hashed THEN "true" ELSE NodeTruth(FilterNode(Pushed(plan, s)), row)
        matching == SelectSeq(candidates, LAMBDA row :
                        Truth(row) = "error" \/ (Truth(row) = "true" /\ ConditionsMatch(plan, s, bindings, row)))
    IN  IF s > Len(plan.relations) THEN <<bindings>>
        ELSE IF ~hashed /\ looked.failed THEN <<FailedBindings>>
        ELSE IF matching = <<>>
        THEN IF plan.kinds[s - 1] = "left" THEN Extended(plan, s + 1, Append(bindings, NoRow)) ELSE <<>>
        ELSE FlattenSeq([i \in DOMAIN matching |->
                IF Truth(matching[i]) = "error" THEN <<FailedBindings>>
                ELSE Extended(plan, s + 1, Append(bindings, matching[i]))])

VisitJoinedRows(plan) ==
    LET probe == plan.relations[1].reader
        p == Pushed(plan, 1)
        visited == Accepted(probe, p, VisitCandidates(probe, p, FALSE), Every(probe))
        built == \A s \in 2..Len(plan.relations) :
                    LookupColumns(plan, s) = <<>> => ~HashTable(plan, s).failed
    IN  IF ~built THEN <<FailedBindings>>
        ELSE FlattenSeq([i \in DOMAIN visited.rows |-> Extended(plan, 2, <<visited.rows[i]>>)])
                \o IF visited.failed THEN <<FailedBindings>> ELSE <<>>

-----------------------------------------------------------------------------
\* Queries.

\* A star lists the columns of every relation, or of the one it names.
JoinStar(alias) == [star |-> TRUE, alias |-> alias]
ListedStars(plan) ==
    LET Columns(s) ==
            LET names == NamesOf(plan.relations[s].reader.schema)
            IN  [i \in DOMAIN names |-> Item(names[i], Column(<<plan.relations[s].alias, names[i]>>))]
        Of(item) == IF ~IsStar(item) THEN <<item>>
                    ELSE FlattenSeq([s \in DOMAIN plan.relations |->
                            IF item.alias \in {NoAlias, plan.relations[s].alias} THEN Columns(s) ELSE <<>>])
    IN  FlattenSeq([i \in DOMAIN plan.items |-> Of(plan.items[i])])

\* An ORDER BY name that is an output's is that output, and any other is a column.
OutputNamed(items, ref) ==
    SelectSeq(items, LAMBDA item : ref[1] = NoAlias /\ item.output = ref[2])

OrderExpression(items, ref) ==
    LET named == OutputNamed(items, ref) IN IF named = <<>> THEN Column(ref) ELSE named[1].e

JoinIsValid(plan, items) ==
    LET relations == plan.relations
        schema == JoinedSchema(relations)
        types == TypesOf(schema)
        IsTyped(e) == /\ \A ref \in ColumnNames(e) : Resolves(ref, relations)
                      /\ ValueType(e, types) # "error"
        Connects(s, condition) ==
            LET upTo == SubSeq(relations, 1, s)
            IN  /\ Resolves(condition.left, upTo) /\ Resolves(condition.right, upTo)
                /\ (SourceOf(condition.left, upTo) = s) # (SourceOf(condition.right, upTo) = s)
                /\ Comparable(ValueType(Column(condition.left), TypesOf(JoinedSchema(upTo))),
                              ValueType(Column(condition.right), TypesOf(JoinedSchema(upTo))), "<")
        Projected(e) == \E i \in DOMAIN items :
                            items[i].e.kind = "column"
                                /\ SourceOf(items[i].e.name, relations) = SourceOf(e.name, relations)
                                /\ items[i].e.name[2] = e.name[2]
    IN  /\ \A s, t \in DOMAIN relations : relations[s].alias = relations[t].alias => s = t
        /\ \A s \in 2..Len(relations) : \A i \in DOMAIN plan.on[s - 1] : Connects(s, plan.on[s - 1][i])
        /\ plan.arrays \/ ~NamesRepeat(items)
        /\ \A i \in DOMAIN items : IsTyped(items[i].e) /\ (plan.distinct => items[i].e.kind = "column")
        /\ \A ref \in ColumnsRead(plan.predicate) : Resolves(ref, relations)
        /\ PredicateIsValid(schema, plan.predicate)
        /\ \A t \in DOMAIN plan.order :
            LET e == OrderExpression(items, plan.order[t].column)
                named == OutputNamed(items, plan.order[t].column)
            IN  /\ IsTyped(e) /\ ValueType(e, types) # "json"
                /\ \A i \in DOMAIN named : named[i].e = e
                /\ plan.distinct => Projected(e)

ExecuteJoin(given) ==
    LET plan == [given EXCEPT !.predicate = Resolved(@)]
        items == ListedStars(plan)
        relations == plan.relations
        visited == VisitJoinedRows(plan)
        row == [i \in DOMAIN visited |-> IF visited[i] = FailedBindings THEN NoRow
                                         ELSE JoinedRow(visited[i], relations)]
        Values(i) == [n \in DOMAIN items |-> Evaluate(items[n].e, row[i], <<>>)]
        Keys(i) == [t \in DOMAIN plan.order |->
                        Evaluate(OrderExpression(items, plan.order[t].column), row[i], <<>>)]
        judged == [i \in DOMAIN visited |-> IF visited[i] = FailedBindings THEN "error"
                                            ELSE NodeTruth(FilterNode(plan.predicate), row[i])]
        \* DISTINCT keeps the first of the rows with equal outputs.
        Repeats(i) == plan.distinct /\ \E j \in 1..(i - 1) : judged[j] = "true" /\ Values(j) = Values(i)
        truths == [i \in DOMAIN visited |-> IF judged[i] = "true" /\ Repeats(i) THEN "false" ELSE judged[i]]
        fewest == IF plan.limit <= MaxResultRows THEN plan.limit ELSE MaxResultRows + 1
        most == IF plan.order = <<>> THEN plan.offset + fewest ELSE MaxResultRows + 1
        kept == Kept([i \in DOMAIN visited |-> i], truths, most)
        order == [t \in DOMAIN plan.order |-> [plan.order[t] EXCEPT !.column = t]]
        sorted == StableSort(kept.rows, LAMBDA i, j : RowBefore(Keys(i), Keys(j), order))
        taken == Slice(sorted, plan.offset, plan.limit)
        projected == IF plan.order = <<>> THEN taken ELSE kept.rows
        returned == IF plan.order = <<>> THEN Len(kept.rows) - plan.offset ELSE Len(kept.rows)
    IN  IF ResolutionFails(given.predicate) THEN Refused("subquery")
        ELSE IF ~JoinIsValid(plan, items) THEN Refused("invalid")
        ELSE IF plan.limit = 0 THEN Returned(<<>>)
        ELSE IF kept.failed \/ \E n \in DOMAIN projected : RowFailed(Values(projected[n]))
        THEN Refused("failed")
        ELSE IF returned > MaxResultRows THEN Refused("limit")
        ELSE Returned([n \in DOMAIN taken |-> Values(taken[n])])
=============================================================================
