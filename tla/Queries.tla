------------------------------- MODULE Queries -------------------------------
(***************************************************************************)
(* A SELECT of one table (query.rs): the range of keys its predicate       *)
(* leaves, the path its rows are read by, and the order, slice and outputs *)
(* they are returned in.  A reader gives the rows in the order a scan      *)
(* visits them, its indexes, and whether it visits in key order, which a   *)
(* transaction with changes of its own does not.                           *)
(***************************************************************************)
EXTENDS Predicates

CONSTANTS
    MaxResultRows,    \* the most rows a query returns
    MaxOrderedRows,   \* the most rows a query sorts
    MaxInValues       \* the most values IN tests

NoPredicate == And(<<>>)
NoLimit == MaxSafe + 1

Least(S) == CHOOSE n \in S : \A k \in S : n <= k

-----------------------------------------------------------------------------
(***************************************************************************)
(* Ranges of one column's components.  A range that admits nothing has its *)
(* lower bound above its upper.                                            *)
(***************************************************************************)
AboveAll == <<Base>>
Everything == [lower |-> <<>>, upper |-> AboveAll]
Nothing == [lower |-> AboveAll, upper |-> <<>>]

IsEmptyRange(range) == BytesLess(range.upper, range.lower)

Higher(a, b) == IF BytesLess(a, b) THEN b ELSE a
Lower(a, b) == IF BytesLess(a, b) THEN a ELSE b

\* A lower bound longer than any key is left out, since no cursor could start there.
Narrowed(range, other) ==
    [lower |-> IF Len(other.lower) <= MaxKeyBytes THEN Higher(range.lower, other.lower) ELSE range.lower,
     upper |-> Lower(range.upper, other.upper)]

Floor(f) == f[1] \div f[2]
Ceiling(f) == -((-f[1]) \div f[2])

\* The integers a comparison with a number leaves.
IntegerBounds(op, f) ==
    LET low == CASE op \in {"=", ">="} -> Ceiling(f)
                 [] op = ">" -> Floor(f) + 1
                 [] OTHER -> -Unbounded
        high == CASE op \in {"=", "<="} -> Floor(f)
                  [] op = "<" -> Ceiling(f) - 1
                  [] OTHER -> Unbounded
    IN  IF low > high \/ low > MaxSafe \/ high < -MaxSafe THEN Nothing
        ELSE [lower |-> IF low > -MaxSafe THEN IntegerComponent(low) ELSE <<>>,
              upper |-> IF high < MaxSafe THEN IntegerComponent(high) ELSE AboveAll]

\* The bounds of other types are inclusive, and the filter rejects what they let through.
ComparisonBounds(type, op, v) ==
    LET bound == KeyBound(type, v)
    IN  IF op = "<>" \/ type = "json" \/ ~ValueFits(type, op, v) THEN Everything
        ELSE IF type = "int" THEN IntegerBounds(op, AsFraction(v))
        ELSE [lower |-> IF op \in {"=", ">", ">="} THEN bound ELSE <<>>,
              upper |-> IF op \in {"=", "<", "<="} THEN bound ELSE AboveAll]

\* What a term leaves of a column, and what the terms under AND do.
TermBounds(p, column) ==
    LET prefix == LiteralPrefix(Segments(p.pattern.text, EscapeOf(p.escape)))
    IN  CASE p.kind = "comparison" /\ p.column = column.name ->
                IF IsNull(p.value) THEN Nothing ELSE ComparisonBounds(column.type, p.op, p.value)
          [] /\ p.kind = "like" /\ p.column = column.name /\ column.type = "text"
             /\ ~p.folds /\ LikeIsKnown(p) ->
                IF prefix = <<>> THEN Everything ELSE PrefixBounds(prefix)
          [] OTHER -> Everything

RECURSIVE ColumnRange(_, _)
ColumnRange(p, column) ==
    IF p.kind = "and"
    THEN FoldLeft(LAMBDA range, q : Narrowed(range, ColumnRange(q, column)), Everything, p.predicates)
    ELSE Narrowed(Everything, TermBounds(p, column))

Contained(range, component) ==
    ~BytesLess(component, range.lower) /\ ~BytesLess(range.upper, component)

\* Where a descending visit starts: the upper bound with its last byte incremented.
RangeEnd(range) ==
    LET small == {i \in DOMAIN range.upper : range.upper[i] < Base - 1}
        last == CHOOSE i \in small : \A j \in small : i >= j
    IN  IF range.upper = AboveAll \/ small = {} THEN AboveAll
        ELSE Append(SubSeq(range.upper, 1, last - 1), range.upper[last] + 1)

\* The keys a walk finds: it starts at its bound and stops at the first key out of the range.
Walk(keys, type, range, descending) ==
    LET from == IF descending
                THEN SelectSeq(Reverse(keys), LAMBDA k : BytesLess(k, RangeEnd(range)))
                ELSE SelectSeq(keys, LAMBDA k : ~BytesLess(k, range.lower))
        out == {i \in DOMAIN from :
                    ~Contained(range, SubSeq(from[i], 1, ComponentEnd(from[i], 0, type)))}
    IN  IF out = {} THEN from ELSE SubSeq(from, 1, Least(out) - 1)

-----------------------------------------------------------------------------
\* Trees: a table's keys and an index's entries, in order.

StableSort(s, Less(_, _)) ==
    LET Place(i) == 1 + Cardinality({j \in DOMAIN s :
                            Less(s[j], s[i]) \/ (j < i /\ ~Less(s[i], s[j]))})
    IN  [n \in DOMAIN s |-> s[CHOOSE i \in DOMAIN s : Place(i) = n]]

KeysOf(reader) == [i \in DOMAIN reader.rows |-> EncodePrimaryKey(reader.schema, reader.rows[i])]

RowsAt(reader, keys) ==
    [i \in DOMAIN keys |-> reader.rows[CHOOSE n \in DOMAIN reader.rows : KeysOf(reader)[n] = keys[i]]]

EntriesOf(reader, columns) ==
    StableSort(SelectSeq([i \in DOMAIN reader.rows |->
                            IndexEntry(reader.schema, columns, reader.rows[i])],
                         LAMBDA e : e # NoKey),
               BytesLess)

ColumnTypes(schema, columns) == [i \in DOMAIN columns |-> TypeIn(schema, columns[i])]

PrimaryKeys(reader, columns, entries) ==
    [i \in DOMAIN entries |-> IndexEntryPrimaryKey(entries[i], ColumnTypes(reader.schema, columns))]

-----------------------------------------------------------------------------
\* Paths.

\* Mutant: every index may be read as a range.
RangedIndexesAll(reader) == reader.indexes

\* An index whose columns after the first may be NULL omits rows that its first column finds.
RangedIndexes(reader) ==
    SelectSeq(reader.indexes, LAMBDA columns :
        \A i \in 2..Len(columns) : ~ColumnOf(reader.schema, columns[i]).nullable)

FixedIndexes(reader, p) ==
    SelectSeq(reader.indexes, LAMBDA columns : ExactEqualities(reader.schema, p, columns) # <<>>)

IndexRange(reader, p, columns) == ColumnRange(p, ColumnOf(reader.schema, columns[1]))

SecondaryIndexApplies(reader, p) ==
    \/ FixedIndexes(reader, p) # <<>>
    \/ \E i \in DOMAIN RangedIndexes(reader) :
        IndexRange(reader, p, RangedIndexes(reader)[i]) # Everything

\* The key of the values a predicate fixes the columns to.
FixedKey(reader, p, columns) ==
    LET values == ExactEqualities(reader.schema, p, columns)
    IN  EncodeColumns(reader.schema, columns,
                      [name \in Range(columns) |-> values[CHOOSE i \in DOMAIN columns : columns[i] = name]])

\* A visit gives rows, which are stored records if they come from the table in key order, or
\* fails because it cannot seek its key.
Visit(stored, rows) == [failed |-> FALSE, stored |-> stored, rows |-> rows]
FailedVisit == [failed |-> TRUE, stored |-> FALSE, rows |-> <<>>]

\* The row with a primary key.
VisitKey(reader, key) ==
    IF key = TooLong THEN FailedVisit
    ELSE Visit(FALSE, RowsAt(reader, SelectSeq(KeysOf(reader), LAMBDA k : k = key)))

\* The rows with the indexed values, by primary key since their tuples are equal.
VisitIndex(reader, columns, prefix) ==
    LET entries == SelectSeq(EntriesOf(reader, columns), LAMBDA e : EntryMatchesPrefix(e, prefix))
    IN  IF prefix = TooLong THEN FailedVisit
        ELSE Visit(FALSE, RowsAt(reader, PrimaryKeys(reader, columns, entries)))

RangeEntries(reader, p, columns) ==
    Walk(EntriesOf(reader, columns), TypeIn(reader.schema, columns[1]),
         IndexRange(reader, p, columns), FALSE)

\* Each row found costs a lookup, so a range of more than a quarter of the table is declined, as
\* any is by a reader out of key order; one that holds nothing needs no entry.
IndexServes(reader, p, columns) ==
    LET range == IndexRange(reader, p, columns)
    IN  /\ range # Everything
        /\ \/ IsEmptyRange(range)
           \/ reader.keyOrder /\ Len(RangeEntries(reader, p, columns)) <= Len(reader.rows) \div 4

VisitIndexRange(reader, p, columns) ==
    IF IsEmptyRange(IndexRange(reader, p, columns)) THEN <<>>
    ELSE RowsAt(reader, StableSort(PrimaryKeys(reader, columns, RangeEntries(reader, p, columns)),
                                   BytesLess))

\* The rows a predicate's path reads: by the whole primary key, by an index every column of which
\* is fixed, by a range of an index, by a range of the key, or all.  Only the key is read
\* descending, from the end of its range, which no cursor seeks if it is longer than any key.
VisitRange(reader, range, descending) ==
    IF descending /\ reader.rows # <<>> /\ Len(RangeEnd(range)) > MaxKeyBytes THEN FailedVisit
    ELSE Visit(TRUE, RowsAt(reader, Walk(KeysOf(reader), TypeIn(reader.schema, reader.schema.key[1]),
                                         range, descending)))

VisitCandidates(reader, p, descending) ==
    LET schema == reader.schema
        fixed == FixedIndexes(reader, p)
        serving == SelectSeq(RangedIndexes(reader), LAMBDA columns : IndexServes(reader, p, columns))
        range == ColumnRange(p, ColumnOf(schema, schema.key[1]))
    IN  IF ExactEqualities(schema, p, schema.key) # <<>>
        THEN VisitKey(reader, FixedKey(reader, p, schema.key))
        ELSE IF reader.keyOrder /\ ~descending /\ fixed # <<>>
        THEN VisitIndex(reader, fixed[1], FixedKey(reader, p, fixed[1]))
        ELSE IF ~descending /\ serving # <<>> THEN Visit(FALSE, VisitIndexRange(reader, p, serving[1]))
        ELSE IF IsEmptyRange(range) THEN Visit(FALSE, <<>>)
        ELSE IF ~reader.keyOrder THEN Visit(FALSE, reader.rows)
        ELSE VisitRange(reader, range, descending)

Judgement(reader, p, row, stored) ==
    IF stored
    THEN ReaderTruth(reader.schema, p, EncodePrimaryKey(reader.schema, row), EncodeRow(reader.schema, row))
    ELSE NodeTruth(FilterNode(p), row)

\* The rows of a visit whose truth is true, up to the first that fails; stops at `most'.
Kept(rows, truths, most) ==
    LET errors == {i \in DOMAIN rows : truths[i] = "error"}
        clean == IF errors = {} THEN Len(rows) ELSE Least(errors) - 1
        kept == SelectSeq([i \in 1..clean |-> i], LAMBDA i : truths[i] = "true")
        taken == SubSeq(kept, 1, IF Len(kept) < most THEN Len(kept) ELSE most)
    IN  [failed |-> errors # {} /\ Len(taken) < most,
         rows |-> [n \in DOMAIN taken |-> rows[taken[n]]]]

\* More rows than a reader has.
Every(reader) == Len(reader.rows) + 1

Accepted(reader, p, visit, most) ==
    LET truths == [i \in DOMAIN visit.rows |-> Judgement(reader, p, visit.rows[i], visit.stored)]
    IN  IF visit.failed THEN [failed |-> TRUE, rows |-> <<>>] ELSE Kept(visit.rows, truths, most)

\* The rows an aggregate reads: the entries of an index that holds every column it needs and
\* whose first column is bounded, or the rows.
CoveringIndexes(reader, p, names) ==
    SelectSeq(RangedIndexes(reader), LAMBDA columns :
        /\ IndexRange(reader, p, columns) # Everything
        /\ \/ IsEmptyRange(IndexRange(reader, p, columns))
           \/ reader.keyOrder /\ Covers(reader.schema, columns, names))

VisitAggregateCandidates(reader, p, names) ==
    LET covering == CoveringIndexes(reader, p, names)
        columns == covering[1]
        entries == RangeEntries(reader, p, columns)
    IN  IF covering = <<>> THEN VisitCandidates(reader, p, FALSE)
        ELSE IF IsEmptyRange(IndexRange(reader, p, columns)) THEN Visit(FALSE, <<>>)
        ELSE Visit(FALSE, [i \in DOMAIN entries |->
                [name \in names |-> EntryColumn(reader.schema, columns, entries[i], name)]])

-----------------------------------------------------------------------------
\* ORDER BY.

Ascending(column) == [column |-> column, descending |-> FALSE, nulls |-> "default"]
Descending(column) == [column |-> column, descending |-> TRUE, nulls |-> "default"]

\* Whether one value comes before another.  NULLs come last ascending and first descending unless
\* the term places them, whatever its direction.
ComesBefore(l, r, term) ==
    LET nullsFirst == term.nulls = "first" \/ (term.nulls = "default" /\ term.descending)
    IN  IF IsNull(l) \/ IsNull(r) THEN IsNull(l) # IsNull(r) /\ IsNull(l) = nullsFirst
        ELSE Ordering(l, r) = IF term.descending THEN "greater" ELSE "less"

RowBefore(a, b, order) ==
    \E i \in DOMAIN order :
        /\ ComesBefore(a[order[i].column], b[order[i].column], order[i])
        /\ \A j \in 1..(i - 1) :
            /\ ~ComesBefore(a[order[j].column], b[order[j].column], order[j])
            /\ ~ComesBefore(b[order[j].column], a[order[j].column], order[j])

SortRows(rows, order) == StableSort(rows, LAMBDA a, b : RowBefore(a, b, order))

\* How rows must come: in any order, by key, or sorted.  The key serves an ascending prefix of its
\* columns, and all of them descending.
RowOrder(plan, schema) ==
    LET order == plan.order
        descending == order[1].descending
        complete == IF descending THEN Len(order) = Len(schema.key) ELSE Len(order) <= Len(schema.key)
    IN  IF order = <<>> THEN "any"
        ELSE IF /\ ~plan.byOutputs /\ complete
                /\ \A i \in DOMAIN order :
                    order[i].column = schema.key[i] /\ order[i].descending = descending
        THEN IF descending THEN "descending" ELSE "ascending"
        ELSE "sorted"

-----------------------------------------------------------------------------
(***************************************************************************)
(* Outputs.  An item has an output name and an expression, or is a star,   *)
(* which lists the table's columns; a plan with no items returns them all. *)
(* Outputs whose names repeat are keyed by their position for a caller     *)
(* that reads rows as arrays.                                              *)
(***************************************************************************)
Star == [star |-> TRUE]
Item(output, e) == [output |-> output, e |-> e]
IsStar(item) == "star" \in DOMAIN item

Listed(schema, items) ==
    LET all == [i \in DOMAIN schema.columns |->
                    Item(schema.columns[i].name, Column(schema.columns[i].name))]
    IN  IF items = <<>> THEN all
        ELSE FlattenSeq([i \in DOMAIN items |-> IF IsStar(items[i]) THEN all ELSE <<items[i]>>])

NamesRepeat(items) == \E i, j \in DOMAIN items : i < j /\ items[i].output = items[j].output

\* An ORDER BY that names outputs takes the key of the first it names.
PositionOutputs(plan, items) ==
    LET first(name) == Least({i \in DOMAIN items : items[i].output = name})
        Keyed(term) ==
            IF plan.byOutputs /\ \E i \in DOMAIN items : items[i].output = term.column
            THEN [term EXCEPT !.column = <<first(term.column), @>>] ELSE term
    IN  IF ~plan.arrays \/ ~NamesRepeat(items) THEN [items |-> items, order |-> plan.order]
        ELSE [items |-> [i \in DOMAIN items |-> [items[i] EXCEPT !.output = <<i, @>>]],
              order |-> [i \in DOMAIN plan.order |-> Keyed(plan.order[i])]]

OutputType(schema, item) ==
    LET type == ValueType(item.e, TypesOf(schema)) IN IF type = "null" THEN "text" ELSE type

Project(items, row) ==
    [name \in {items[i].output : i \in DOMAIN items} |->
        Evaluate(items[CHOOSE i \in DOMAIN items : items[i].output = name].e, row, <<>>)]

RowFailed(row) == \E name \in DOMAIN row : Failed(row[name])
AnyFailed(rows) == \E i \in DOMAIN rows : RowFailed(rows[i])

-----------------------------------------------------------------------------
\* A query: refused, failed, or the rows it returns.

Refused(why) == [refused |-> why]
Returned(rows) == [rows |-> rows]

Slice(rows, offset, limit) ==
    SubSeq(rows, offset + 1, IF offset + limit < Len(rows) THEN offset + limit ELSE Len(rows))

\* Rows in the order they arrive; the visit stops at the limit, and fails past the most rows.
ExecuteUnordered(reader, plan, items, descending) ==
    LET most == IF plan.limit <= MaxResultRows THEN plan.limit ELSE MaxResultRows + 1
        visited == Accepted(reader, plan.predicate,
                            VisitCandidates(reader, plan.predicate, descending), plan.offset + most)
        kept == Slice(visited.rows, plan.offset, most)
        rows == [i \in DOMAIN kept |-> Project(items, kept[i])]
    IN  IF visited.failed \/ AnyFailed(rows) THEN Refused("failed")
        ELSE IF Len(rows) > MaxResultRows THEN Refused("limit")
        ELSE Returned(rows)

\* Ordered by outputs, rows are projected before they are sorted.
ExecuteOrdered(reader, plan, items, order) ==
    LET candidates == VisitCandidates(reader, plan.predicate, FALSE)
        visited == Accepted(reader, plan.predicate, candidates, MaxOrderedRows + 1)
        projected == [i \in DOMAIN visited.rows |-> Project(items, visited.rows[i])]
        before == IF plan.byOutputs THEN projected ELSE visited.rows
        taken == Slice(SortRows(before, order), plan.offset, plan.limit)
        rows == IF plan.byOutputs THEN taken
                ELSE [i \in DOMAIN taken |-> Project(items, taken[i])]
    IN  IF visited.failed \/ (plan.byOutputs /\ AnyFailed(before)) THEN Refused("failed")
        ELSE IF Len(visited.rows) > MaxOrderedRows THEN Refused("work limit")
        ELSE IF AnyFailed(rows) THEN Refused("failed")
        ELSE IF Len(rows) > MaxResultRows THEN Refused("limit")
        ELSE Returned(rows)

\* What is refused before any row is read.
PlanIsValid(schema, plan, keyed) ==
    LET Typed(term) ==
            IF plan.byOutputs
            THEN \E i \in DOMAIN keyed.items :
                    keyed.items[i].output = term.column /\ OutputType(schema, keyed.items[i]) # "json"
            ELSE term.column \in Range(NamesOf(schema)) /\ TypeIn(schema, term.column) # "json"
    IN  /\ ~NamesRepeat(keyed.items)
        /\ \A i \in DOMAIN keyed.items : OutputType(schema, keyed.items[i]) # "error"
        /\ PredicateIsValid(schema, plan.predicate)
        /\ \A i \in DOMAIN keyed.order : Typed(keyed.order[i])

ExecutePlan(reader, plan) ==
    LET schema == reader.schema
        keyed == PositionOutputs(plan, Listed(schema, plan.items))
        order == RowOrder(plan, schema)
        streams == \/ order \in {"any", "ascending"}
                   \/ order = "descending" /\ ~SecondaryIndexApplies(reader, plan.predicate)
    IN  IF plan.limit # NoLimit /\ plan.limit > MaxResultRows THEN Refused("limit")
        ELSE IF ~PlanIsValid(schema, plan, keyed) THEN Refused("invalid")
        ELSE IF plan.limit = 0 THEN Returned(<<>>)
        ELSE IF order = "any" \/ (streams /\ reader.keyOrder)
        THEN ExecuteUnordered(reader, plan, keyed.items, order = "descending")
        ELSE ExecuteOrdered(reader, plan, keyed.items, keyed.order)

\* The queries within a predicate are run first, and it becomes the IN of what they return.
RECURSIVE Execute(_, _), Resolved(_), HasSubquery(_), ResolutionFails(_)
HasSubquery(p) ==
    CASE p.kind \in {"and", "or"} -> \E i \in DOMAIN p.predicates : HasSubquery(p.predicates[i])
      [] p.kind = "not" -> HasSubquery(p.predicate)
      [] OTHER -> p.kind = "subquery"

ResolutionFails(p) ==
    CASE p.kind \in {"and", "or"} -> \E i \in DOMAIN p.predicates : ResolutionFails(p.predicates[i])
      [] p.kind = "not" -> ResolutionFails(p.predicate)
      [] p.kind = "subquery" ->
            \/ Len(Listed(p.reader.schema, p.plan.items)) # 1
            \/ "refused" \in DOMAIN Execute(p.reader, p.plan)
            \/ Len(Execute(p.reader, p.plan).rows) > MaxInValues
      [] OTHER -> FALSE

Resolved(p) ==
    CASE p.kind \in {"and", "or"} -> [p EXCEPT !.predicates = [i \in DOMAIN @ |-> Resolved(@[i])]]
      [] p.kind = "not" -> [p EXCEPT !.predicate = Resolved(@)]
      [] p.kind = "subquery" ->
            LET rows == Execute(p.reader, p.plan).rows
                field == Listed(p.reader.schema, p.plan.items)[1].output
            IN  In(p.column, [i \in DOMAIN rows |-> rows[i][field]])
      [] OTHER -> p

Execute(reader, plan) ==
    IF ~HasSubquery(plan.predicate) THEN ExecutePlan(reader, plan)
    ELSE IF ResolutionFails(plan.predicate) THEN Refused("subquery")
    ELSE ExecutePlan(reader, [plan EXCEPT !.predicate = Resolved(@)])
=============================================================================
