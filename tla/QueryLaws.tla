------------------------------ MODULE QueryLaws ------------------------------
(***************************************************************************)
(* What the query code promises, whatever path it takes: each question is  *)
(* one input, and each law says of the step that answers it that what the  *)
(* code works out is the answer its SQL has by definition: no index,       *)
(* pushed term, hash table, folded constant or byte test in it.            *)
(***************************************************************************)
EXTENDS Parsing

J == INSTANCE Joins
A == INSTANCE Aggregates
N == INSTANCE Nested

CONSTANTS
    Sources,        \* WHERE clauses as they are written, with the rows they are judged on
    Judged,
    KeySchemas,     \* schemas, and for each the rows its codec is asked about
    RowsOf(_),
    Filters,        \* a schema's predicates, judged on stored rows
    FilterSchema,
    Patterns,       \* LIKE patterns and the texts they are matched with
    Texts,
    Selects,        \* queries of each kind
    JoinSelects,
    AggregateSelects,
    NestedSelects

VARIABLE question

vars == question

Topics == {"parse", "rows", "filter", "like", "select", "join", "aggregate", "nested"}

Init == question \in {[topic |-> t, asked |-> FALSE] : t \in Topics}

Ask(topic, input) == question' = [topic |-> topic, asked |-> TRUE, input |-> input]
Open(topic) == question.topic = topic /\ ~question.asked

AskParse ==
    /\ Open("parse")
    /\ \E p \in Sources, generous, prepared \in BOOLEAN :
        Ask("parse", [p |-> p, generous |-> generous, prepared |-> prepared])
AskRows ==
    /\ Open("rows")
    /\ \E schema \in KeySchemas : \E a, b \in RowsOf(schema) :
        Ask("rows", [schema |-> schema, a |-> a, b |-> b])
AskFilter ==
    /\ Open("filter")
    /\ \E p \in Filters, row \in RowsOf(FilterSchema) : Ask("filter", [p |-> p, row |-> row])
AskLike == Open("like") /\ \E p \in Patterns, s \in Texts : Ask("like", [p |-> p, text |-> s])
AskSelect == Open("select") /\ \E q \in Selects : Ask("select", q)
AskJoin == Open("join") /\ \E q \in JoinSelects : Ask("join", q)
AskAggregate == Open("aggregate") /\ \E q \in AggregateSelects : Ask("aggregate", q)
AskNested == Open("nested") /\ \E q \in NestedSelects : Ask("nested", q)
Answered == question.asked /\ question' = [topic |-> question.topic, asked |-> FALSE]

Next ==
    \/ AskParse
    \/ AskRows
    \/ AskFilter
    \/ AskLike
    \/ AskSelect
    \/ AskJoin
    \/ AskAggregate
    \/ AskNested
    \/ Answered

Spec == Init /\ [][Next]_vars

\* A law is about the step that answers a question.
Answer(topic) == Answered /\ question.topic = topic

-----------------------------------------------------------------------------
\* What a predicate means: true, false or unknown by Kleene's tables.

Rank(truth) == CASE truth = "false" -> 0 [] truth = "unknown" -> 1 [] truth = "true" -> 2
Kleene(n) == <<"false", "unknown", "true">>[n + 1]
Lowest(truths) == Kleene(Least({2} \cup {Rank(t) : t \in truths}))
Highest(truths) == Kleene(2 - Least({2} \cup {2 - Rank(t) : t \in truths}))
Opposite(truth) == Kleene(2 - Rank(truth))

\* LIKE, character by character.
RECURSIVE Matches(_, _, _, _)
Matches(text, pattern, escape, folds) ==
    LET c == Head(pattern)
        escaped == Len(pattern) > 1 /\ escape = <<c>>
        plain == IF escaped THEN pattern[2] ELSE c
        rest == IF escaped THEN Tail(Tail(pattern)) ELSE Tail(pattern)
    IN  IF pattern = <<>> THEN text = <<>>
        ELSE IF c = Percent /\ ~escaped
        THEN \E n \in 0..Len(text) : Matches(SubSeq(text, n + 1, Len(text)), rest, escape, folds)
        ELSE /\ text # <<>>
             /\ \/ c = Underscore /\ ~escaped
                \/ plain = Head(text)
                \/ folds /\ FoldCase(plain) = FoldCase(Head(text))
             /\ Matches(Tail(text), rest, escape, folds)

RECURSIVE Meaning(_, _)
Meaning(p, row) ==
    CASE p.kind \in {"and", "or"} ->
            LET truths == {Meaning(p.predicates[i], row) : i \in DOMAIN p.predicates}
            IN  IF p.kind = "and" THEN Lowest(truths) ELSE Highest(truths)
      [] p.kind = "not" -> Opposite(Meaning(p.predicate, row))
      [] p.kind = "comparison" -> CompareValues(row[p.column], p.op, p.value)
      [] p.kind = "is null" -> TruthOf(IsNull(row[p.column]) # p.negated)
      [] p.kind = "in" ->
            Highest({CompareValues(row[p.column], "=", p.values[i]) : i \in DOMAIN p.values})
      [] p.kind = "like" ->
            IF IsNull(row[p.column]) \/ ~LikeIsKnown(p) THEN "unknown"
            ELSE TruthOf(Matches(row[p.column].text, p.pattern.text, EscapeOf(p.escape), p.folds))
      [] p.kind = "expressions" ->
            CompareValues(Evaluate(p.left, row, <<>>), p.op, Evaluate(p.right, row, <<>>))
      [] p.kind = "subquery" ->
            LET rows == p.reader.rows
            IN  Highest({CompareValues(row[p.column], "=", Evaluate(p.plan.items[1].e, rows[i], <<>>)) :
                            i \in {i \in DOMAIN rows : Meaning(p.plan.predicate, rows[i]) = "true"}})
      [] p.kind = "between" ->
            LET within == Lowest({CompareValues(p.low, "<=", row[p.column]),
                                  CompareValues(row[p.column], "<=", p.high)})
            IN  IF p.negated THEN Opposite(within) ELSE within

\* Whether a predicate can be judged at all: whether what it works out of the row succeeds.
RECURSIVE Judgeable(_, _)
Judgeable(p, row) ==
    CASE p.kind \in {"and", "or"} -> \A i \in DOMAIN p.predicates : Judgeable(p.predicates[i], row)
      [] p.kind = "not" -> Judgeable(p.predicate, row)
      [] p.kind = "expressions" ->
            ~Failed(Evaluate(p.left, row, <<>>)) /\ ~Failed(Evaluate(p.right, row, <<>>))
      [] OTHER -> TRUE

-----------------------------------------------------------------------------
\* How a predicate is written, with the brackets its operators' precedence needs, and more if it
\* is generous with them.

Bracketed(needed, ts) == IF needed THEN <<Op("(")>> \o ts \o <<Op(")")>> ELSE ts

Tightness(e) ==
    CASE e.kind = "binary" -> (CASE e.op = "||" -> 1 [] e.op \in {"+", "-"} -> 2 [] OTHER -> 3)
      [] e.kind = "negate" -> 4
      [] OTHER -> 5

\* A number taken away is written against its minus sign, as the lexer reads it.
RECURSIVE Written(_, _)
Written(e, generous) ==
    CASE e.kind = "value" -> <<Number(e.value.int)>>
      [] e.kind = "column" -> Bracketed(generous, <<Name(e.name)>>)
      [] e.kind = "negate" -> <<Op("-")>> \o Bracketed(Tightness(e.of) < 4, Written(e.of, generous))
      [] e.kind = "binary" ->
            LET left == Bracketed(Tightness(e.left) < Tightness(e), Written(e.left, generous))
                right == Bracketed(Tightness(e.right) <= Tightness(e), Written(e.right, generous))
            IN  IF e.op = "-" /\ e.right.kind = "value" /\ e.right.value.int > 0
                THEN Append(left, Number(-e.right.value.int))
                ELSE left \o <<Op(e.op)>> \o right

Binding(p) == CASE p.kind = "or" -> 1 [] p.kind = "and" -> 2 [] p.kind = "not" -> 3 [] OTHER -> 4

Separated(parts, separator) ==
    FlattenSeq([i \in DOMAIN parts |-> IF i = 1 THEN parts[i] ELSE <<Op(separator)>> \o parts[i]])

RECURSIVE WrittenPredicate(_, _)
WrittenPredicate(p, generous) ==
    LET negation == IF "negated" \in DOMAIN p /\ p.negated THEN <<Op("not")>> ELSE <<>>
    IN  CASE p.kind \in {"and", "or"} ->
                Separated([i \in DOMAIN p.predicates |->
                            Bracketed(generous \/ Binding(p.predicates[i]) <= Binding(p),
                                      WrittenPredicate(p.predicates[i], generous))], p.kind)
          [] p.kind = "not" ->
                <<Op("not")>> \o Bracketed(Binding(p.predicate) < 3, WrittenPredicate(p.predicate, generous))
          [] p.kind = "is null" -> <<Name(p.column), Op("is")>> \o negation \o <<Op("null")>>
          [] p.kind = "in" ->
                <<Name(p.column), Op("in"), Op("(")>>
                    \o Separated([i \in DOMAIN p.values |-> <<Number(p.values[i].int)>>], ",")
                    \o <<Op(")")>>
          [] p.kind = "between" ->
                <<Name(p.column)>> \o negation
                    \o <<Op("between"), Number(p.low.int), Op("and"), Number(p.high.int)>>
          [] p.kind = "expressions" -> Written(p.left, generous) \o <<Op(p.op)>> \o Written(p.right, generous)

\* The numbers of a prepared statement are its parameters, each read by its place.
IsParameter(token) == token.kind = "number" /\ token.number >= 0
Prepared(ts) == [i \in DOMAIN ts |-> IF IsParameter(ts[i]) THEN Placeholder(Marker(i)) ELSE ts[i]]
Parameters(ts) == [i \in DOMAIN ts |-> IF IsParameter(ts[i]) THEN Integer(ts[i].number) ELSE NullValue]

\* A WHERE clause is read to its end and means what was written, whatever its brackets, its
\* signs and its folded constants, and whether its values are literals or bound to it later:
\* signed numbers subtract, BETWEEN takes its own AND, a bracket opens an expression or a
\* predicate by what follows it, and constants move across comparisons.
\* (PredicateParser, expression Parser, comparison, bound_predicate)
ParsesAsWritten ==
    [][Answer("parse") =>
          \E p \in {question.input.p}, ts \in {WrittenPredicate(question.input.p, question.input.generous)} :
              \E parsed \in {ParsePredicate(IF question.input.prepared THEN Prepared(ts) ELSE ts)} :
                  /\ Succeeded(parsed)
                  /\ parsed.at = Len(ts) + 1
                  /\ \E bound \in {FilterNode(BindPredicate(parsed.e, Parameters(ts)))} :
                      \A row \in Judged : Judgeable(p, row) => NodeTruth(bound, row) = Meaning(p, row)]_vars

-----------------------------------------------------------------------------
\* Codec.

TupleLess(schema, a, b) ==
    \E i \in DOMAIN schema.key :
        /\ Ordering(a[schema.key[i]], b[schema.key[i]]) = "less"
        /\ \A j \in 1..(i - 1) : a[schema.key[j]] = b[schema.key[j]]

\* Rows survive their bytes: keys order as the values in them, a row is what its key and record
\* decode to, a record updated in place is the record of the updated row, and an index entry made
\* from a stored record is the one made from its row.  (encode_component, encode_row,
\* encode_updated_record, RecordIndexEntries)
RowsSurviveTheirBytes ==
    [][Answer("rows") =>
          LET schema == question.input.schema
              a == question.input.a
              b == question.input.b
              key == EncodePrimaryKey(schema, a)
              record == EncodeRow(schema, a)
              names == Range(NamesOf(schema)) \ Range(schema.key)
          IN  /\ BytesLess(key, EncodePrimaryKey(schema, b)) = TupleLess(schema, a, b)
              /\ DecodeRow(schema, key, record) = a
              /\ \A assigned \in SUBSET names :
                  EncodeUpdatedRecord(schema, record, [n \in assigned |-> b[n]])
                      = EncodeRow(schema, [n \in DOMAIN a |-> IF n \in assigned THEN b[n] ELSE a[n]])
              /\ \A n \in names :
                  /\ RecordIndexEntry(schema, <<n>>, key, record) = IndexEntry(schema, <<n>>, a)
                  /\ ~IsNull(a[n]) =>
                      /\ EntryColumn(schema, <<n>>, IndexEntry(schema, <<n>>, a), n) = a[n]
                      /\ IndexEntryPrimaryKey(IndexEntry(schema, <<n>>, a), <<TypeIn(schema, n)>>) = key]_vars

-----------------------------------------------------------------------------
\* Filters.

\* A stored row is judged as SQL judges it, by tests of its bytes, by comparisons joined into one
\* node, or by neither: an omitted column is its default, and NULL is unknown.  Accepting is what
\* a query sees, so false and unknown are one.  (FilterNode, compile_tests, stored_record_passes)
StoredRowsAreJudgedAsSql ==
    [][Answer("filter") =>
          LET p == question.input.p
              row == question.input.row
              key == EncodePrimaryKey(FilterSchema, row)
              record == EncodeRow(FilterSchema, row)
          IN  PredicateIsValid(FilterSchema, p) /\ Judgeable(p, row) =>
                  /\ NodeTruth(FilterNode(p), row) = Meaning(p, row)
                  /\ (ReaderTruth(FilterSchema, p, key, record) = "true") = (Meaning(p, row) = "true")
                  /\ \A name \in Range(NamesOf(FilterSchema)) :
                      /\ GuaranteedEquality(p, name) # <<>> /\ Meaning(p, row) = "true"
                          => CompareValues(row[name], "=", GuaranteedEquality(p, name)[1]) = "true"
                      /\ Meaning(p, row) = "true" /\ ~IsNull(row[name])
                          => Contained(ColumnRange(p, ColumnOf(FilterSchema, name)),
                                       Component(TypeIn(FilterSchema, name), row[name]))]_vars

\* LIKE's leftmost search finds a match whenever some split of the text is one, and every match
\* begins with the prefix that narrows an index.  (LikePattern)
LikeFindsEveryMatch ==
    [][Answer("like") =>
          LET p == question.input.p
              text == question.input.text
              segments == Segments(p.pattern.text, EscapeOf(p.escape))
          IN  LikeIsValid("text", p) =>
                  /\ LikeMatches(text, segments, p.folds) = Matches(text, p.pattern.text, EscapeOf(p.escape), p.folds)
                  /\ LikeMatches(text, segments, p.folds) /\ ~p.folds => IsPrefix(LiteralPrefix(segments), text)]_vars

-----------------------------------------------------------------------------
\* Queries.

\* The rows a predicate keeps, in the order a scan visits them.
Matching(reader, p) == SelectSeq(reader.rows, LAMBDA row : Meaning(p, row) = "true")

CanJudge(reader, p) == \A i \in DOMAIN reader.rows : Judgeable(p, reader.rows[i])

\* ORDER BY: NULLs after every value ascending and before them descending unless it places them.
Sooner(v, w, term) ==
    LET last == term.nulls = "last" \/ (term.nulls = "default" /\ ~term.descending)
        Place(u) == IF ~IsNull(u) THEN 1 ELSE IF last THEN 2 ELSE 0
    IN  \/ Place(v) < Place(w)
        \/ Place(v) = 1 /\ Place(w) = 1 /\ CompareValues(v, IF term.descending THEN ">" ELSE "<", w) = "true"

Earlier(v, w, terms) ==
    \E t \in DOMAIN terms :
        /\ Sooner(v[t], w[t], terms[t])
        /\ \A u \in 1..(t - 1) : ~Sooner(v[u], w[u], terms[u]) /\ ~Sooner(w[u], v[u], terms[u])

KeysBy(row, order) == [t \in DOMAIN order |-> row[order[t].column]]
Before(a, b, order) == Earlier(KeysBy(a, order), KeysBy(b, order), order)

\* The value an ORDER BY term sorts a row by.
SortValue(items, term, row) ==
    LET outputs == {i \in DOMAIN items : ~IsStar(items[i]) /\ items[i].output = term.name /\ ~term.qualified}
    IN  IF outputs = {} THEN row[term.name] ELSE Evaluate(items[Least(outputs)].e, row, <<>>)

\* What a tuple takes in a key.
KeyBytes(schema, columns, values) ==
    FoldLeft(LAMBDA n, i : n + Len(Component(TypeIn(schema, columns[i]), values[i])),
             0, [i \in DOMAIN columns |-> i])

\* A predicate that asks a tree for one key which none can hold: its primary key's, or in key order
\* an index's.
AsksForNoKey(reader, p) ==
    \E columns \in {reader.schema.key} \cup (IF reader.keyOrder THEN Range(reader.indexes) ELSE {}) :
        LET values == ExactEqualities(reader.schema, p, columns)
        IN  values # <<>> /\ KeyBytes(reader.schema, columns, values) > MaxKeyBytes

\* A predicate that bounds the primary key from above by more than a key holds.
RECURSIVE EndsPastKeys(_, _)
EndsPastKeys(schema, p) ==
    CASE p.kind = "and" -> \E i \in DOMAIN p.predicates : EndsPastKeys(schema, p.predicates[i])
      [] p.kind = "comparison" ->
            /\ p.column = schema.key[1] /\ p.op \in {"=", "<", "<="} /\ TypeOf(p.value) = "text"
            /\ Len(TextComponent(p.value.text)) > MaxKeyBytes
      [] p.kind = "like" -> p.column = schema.key[1] /\ Len(p.pattern.text) > MaxKeyBytes
      [] OTHER -> FALSE

DescendsByKey(q) == q.terms # <<>> /\ q.terms[1].name = q.reader.schema.key[1] /\ q.terms[1].descending

\* The lookup of a key longer than any is an error, and so is a cursor that starts at one.
OutgrowsKeys(q) ==
    \/ AsksForNoKey(q.reader, q.predicate)
    \/ DescendsByKey(q) /\ EndsPastKeys(q.reader.schema, q.predicate)

\* The slice of the matching rows in order, which is answered, or refused past the limits.
AnswersSlice(q) ==
    LET ordered == ParseOrderBy(q.items, q.terms)
        plan == [items |-> q.items, predicate |-> q.predicate, order |-> ordered.order,
                 byOutputs |-> ordered.byOutputs, limit |-> q.limit, offset |-> q.offset,
                 arrays |-> FALSE]
        result == Execute(q.reader, plan)
        matching == Matching(q.reader, q.predicate)
        Keys(row) == [t \in DOMAIN q.terms |-> SortValue(q.items, q.terms[t], row)]
        sorted == StableSort(matching, LAMBDA a, b : Earlier(Keys(a), Keys(b), q.terms))
        sliced == Slice(sorted, q.offset, q.limit)
        expected == [i \in DOMAIN sliced |-> Project(Listed(q.reader.schema, q.items), sliced[i])]
    IN  ~ordered.refused /\ CanJudge(q.reader, q.predicate) =>
            IF "rows" \in DOMAIN result THEN result.rows = expected
            ELSE \/ Len(matching) > MaxOrderedRows
                 \/ Len(sliced) > MaxResultRows
                 \/ OutgrowsKeys(q)

\* A query returns the slice its LIMIT and OFFSET cut from its matching rows in ORDER BY's order,
\* ties as a scan visits them: whichever index or range it read, in whichever direction, streamed
\* or sorted, in a transaction or out of one.  It is refused only past its limits, for an ORDER BY
\* it cannot tell, for the lookup of a key longer than any, or, descending, for a bound as long.
\* (execute, visit_candidate_rows, execute_unordered, execute_ordered, PrimaryKey::encode)
QueriesReturnTheirSlice == [][Answer("select") => AnswersSlice(question.input)]_vars

-----------------------------------------------------------------------------
\* Joins.

RECURSIVE Product(_, _, _)
Product(plan, s, bindings) ==
    LET relations == plan.relations
        upTo == SubSeq(relations, 1, s)
        reader == relations[s].reader
        Holds(row) == \A i \in DOMAIN plan.on[s - 1] :
            LET joined == J!JoinedRow(Append(bindings, row), upTo)
            IN  CompareValues(joined[plan.on[s - 1][i].left], "=", joined[plan.on[s - 1][i].right]) = "true"
        matching == SelectSeq(reader.rows, Holds)
    IN  IF s > Len(relations) THEN <<bindings>>
        ELSE IF matching = <<>> /\ plan.kinds[s - 1] = "left"
        THEN Product(plan, s + 1, Append(bindings, J!NoRow))
        ELSE FlattenSeq([i \in DOMAIN matching |-> Product(plan, s + 1, Append(bindings, matching[i]))])

\* The first of equal rows.
Firsts(rows) ==
    LET kept == SelectSeq([i \in DOMAIN rows |-> i], LAMBDA i : \A j \in 1..(i - 1) : rows[j] # rows[i])
    IN  [n \in DOMAIN kept |-> rows[kept[n]]]

\* An earlier row holds more than a key of the columns that a later table is looked up by.
LooksUpNoKey(plan) ==
    \E s \in 2..Len(plan.relations) : \E i \in DOMAIN J!StageSides(plan, s) :
        LET side == J!StageSides(plan, s)[i]
            rows == plan.relations[side.from].reader.rows
        IN  /\ Contains(J!LookupColumns(plan, s), side.column)
            /\ \E n \in DOMAIN rows :
                /\ TypeOf(rows[n][side.other]) = "text"
                /\ Len(TextComponent(rows[n][side.other].text)) > MaxKeyBytes

\* A join returns the rows of its tables that its conditions match, NULLs where a LEFT JOIN finds
\* none, and of those the ones its WHERE accepts, in the order of nested loops: whichever tables
\* were read by key, index or hash table and whichever terms were pushed to them.  It is refused
\* only past its limit or for the lookup of a key longer than any.
\* (visit_joined_rows, Extend, build_hash_table, plan_access)
JoinsAreNestedLoops ==
    [][Answer("join") =>
          LET plan == question.input
              first == plan.relations[1].reader.rows
              joined == FlattenSeq([i \in DOMAIN first |-> Product(plan, 2, <<first[i]>>)])
              rows == [i \in DOMAIN joined |-> J!JoinedRow(joined[i], plan.relations)]
              matching == SelectSeq(rows, LAMBDA row : Meaning(plan.predicate, row) = "true")
              items == J!ListedStars(plan)
              Values(row) == [n \in DOMAIN items |-> Evaluate(items[n].e, row, <<>>)]
              sorted == StableSort(matching, LAMBDA a, b : Before(a, b, plan.order))
              projected == [i \in DOMAIN sorted |-> Values(sorted[i])]
              distinct == IF plan.distinct THEN Firsts(projected) ELSE projected
              sliced == Slice(distinct, plan.offset, plan.limit)
          IN  \E result \in {J!ExecuteJoin(plan)} :
                  IF "rows" \in DOMAIN result THEN result.rows = sliced
                  ELSE \/ Len(IF plan.order = <<>> THEN sliced ELSE distinct) > MaxResultRows
                       \/ LooksUpNoKey(plan)]_vars

-----------------------------------------------------------------------------
\* Aggregates.

Total(rows, column) ==
    FoldLeft(LAMBDA f, row : ApplyToFractions("+", f, AsFraction(row[column])).float, <<0, 1>>, rows)

Aggregated(schema, item, rows) ==
    LET valued == SelectSeq(rows, LAMBDA row : item.column = "*" \/ ~IsNull(row[item.column]))
        values == {valued[i][item.column] : i \in DOMAIN valued}
        Extreme(op) == CHOOSE v \in values : \A w \in values : CompareValues(v, op, w) = "true"
    IN  CASE item.function = "column" -> rows[1][item.column]
          [] item.function = "count" -> Integer(Len(valued))
          [] valued = <<>> -> NullValue
          [] item.function = "sum" ->
                IF TypeIn(schema, item.column) = "int" THEN Integer(Total(valued, item.column)[1])
                ELSE [float |-> Total(valued, item.column)]
          [] item.function = "avg" ->
                Float(Total(valued, item.column)[1], Total(valued, item.column)[2] * Len(valued))
          [] item.function = "min" -> Extreme("<=")
          [] item.function = "max" -> Extreme(">=")

\* There is one row for each combination of grouped values, with every aggregate of the rows that
\* have them, NULLs grouped together but counted by COUNT(*) alone, and one row if there is no
\* GROUP BY; they come in ORDER BY's order, whether rows or the entries of a covering index were
\* read.  Only the lookup of a key longer than any is refused.  (Groups, Accumulator, visit_aggregate_candidates)
GroupsHoldTheirRows ==
    [][Answer("aggregate") =>
          LET q == question.input
              plan == q.plan
              schema == q.reader.schema
              matching == Matching(q.reader, plan.predicate)
              GroupOf(row) == [i \in DOMAIN plan.groups |-> row[plan.groups[i]]]
              groups == IF plan.groups = <<>> THEN {<<>>}
                        ELSE {GroupOf(matching[i]) : i \in DOMAIN matching}
              RowOf(group) ==
                  LET rows == SelectSeq(matching, LAMBDA row : GroupOf(row) = group)
                  IN  [name \in {plan.items[i].output : i \in DOMAIN plan.items} |->
                          Aggregated(schema, plan.items[CHOOSE i \in DOMAIN plan.items :
                                                          plan.items[i].output = name], rows)]
          IN  \E result \in {A!ExecuteAggregate(q.reader, plan)} :
                  \/ "refused" \in DOMAIN result /\ AsksForNoKey(q.reader, plan.predicate)
                  \/ /\ "rows" \in DOMAIN result
                     /\ Range(result.rows) = {RowOf(group) : group \in groups}
                     /\ Len(result.rows) = Cardinality(groups)
                     /\ \A i, j \in DOMAIN result.rows :
                         i < j => ~Before(result.rows[j], result.rows[i], plan.order)]_vars

-----------------------------------------------------------------------------
\* Nested queries.

\* A query whose rows each gather the rows of another table returns, for every row, the JSON of
\* exactly the rows that name it, in the order asked for, and of theirs in turn: a name reads the
\* nearest row around it, even where an alias is used again further out.  (evaluate, bound, base)
NestedRowsGatherTheirOwn ==
    [][Answer("nested") =>
          LET q == question.input
              outer == Matching(q.outer, q.predicate)
              Inner(row) == StableSort(SelectSeq(q.inner.rows, LAMBDA r : CompareValues(r.of, "=", row.id) = "true"),
                                       LAMBDA a, b : Before(a, b, q.order))
              Leaves(row) == SelectSeq(q.leaf.rows, LAMBDA r : CompareValues(r.of, "=", row.id) = "true")
              LeafJson(row) == IF Leaves(row) = <<>> THEN NullValue
                               ELSE N!Json([i \in DOMAIN Leaves(row) |-> Leaves(row)[i].n])
              InnerJson(row) == IF Inner(row) = <<>> /\ ~q.coalesced THEN NullValue
                                ELSE N!Json([i \in DOMAIN Inner(row) |->
                                  N!Json(<<Inner(row)[i].n, LeafJson(Inner(row)[i])>>)])
          IN  \E result \in {N!EvaluateLevel(q.level, <<>>)} :
                  /\ ~result.failed
                  /\ result.rows = [i \in DOMAIN outer |->
                          <<outer[i].id, InnerJson(outer[i]), N!Json(outer[i])>>]]_vars
=============================================================================
