----------------------------- MODULE Predicates -----------------------------
(***************************************************************************)
(* WHERE predicates (query.rs, model.rs): what validation lets through,    *)
(* the filter a predicate compiles to, the tests of stored bytes a filter  *)
(* compiles to, and the values it fixes a column to.  A predicate's truth  *)
(* is "true", "false" or "unknown", or "error" when evaluating it fails.   *)
(***************************************************************************)
EXTENDS Codec

Compares(column, op, v) == [kind |-> "comparison", column |-> column, op |-> op, value |-> v]
IsNullOf(column, negated) == [kind |-> "is null", column |-> column, negated |-> negated]
In(column, values) == [kind |-> "in", column |-> column, values |-> values]
Like(column, pattern, escape, folds) ==
    [kind |-> "like", column |-> column, pattern |-> pattern, escape |-> escape, folds |-> folds]
And(ps) == [kind |-> "and", predicates |-> ps]
Or(ps) == [kind |-> "or", predicates |-> ps]
Not(p) == [kind |-> "not", predicate |-> p]
\* A column in what a query of one column returns, which no other operator here meets.
Subquery(column, reader, plan) ==
    [kind |-> "subquery", column |-> column, reader |-> reader, plan |-> plan]
ComparesExpressions(l, op, r) == [kind |-> "expressions", left |-> l, op |-> op, right |-> r]

RECURSIVE ColumnsRead(_)
ColumnsRead(p) ==
    CASE p.kind \in {"and", "or"} -> UNION {ColumnsRead(p.predicates[i]) : i \in DOMAIN p.predicates}
      [] p.kind = "not" -> ColumnsRead(p.predicate)
      [] p.kind = "expressions" -> ColumnNames(p.left) \cup ColumnNames(p.right)
      [] OTHER -> {p.column}

-----------------------------------------------------------------------------
\* Comparing two values.

TextLess(a, b) == BytesLess(a, b)

\* "none" for values of kinds that have no order.
Ordering(l, r) ==
    CASE IsNumber(l) /\ IsNumber(r) ->
            LET f == AsFraction(l)
                g == AsFraction(r)
            IN  IF f[1] * g[2] < g[1] * f[2] THEN "less"
                ELSE IF f[1] * g[2] = g[1] * f[2] THEN "equal" ELSE "greater"
      [] TypeOf(l) = "text" /\ TypeOf(r) = "text" ->
            IF l = r THEN "equal" ELSE IF TextLess(l.text, r.text) THEN "less" ELSE "greater"
      [] TypeOf(l) = "bool" /\ TypeOf(r) = "bool" ->
            IF l = r THEN "equal" ELSE IF r.bool THEN "less" ELSE "greater"
      [] OTHER -> "none"

Accepts(op, ordering) ==
    CASE op = "=" -> ordering = "equal"
      [] op = "<>" -> ordering # "equal"
      [] op = "<" -> ordering = "less"
      [] op = "<=" -> ordering # "greater"
      [] op = ">" -> ordering = "greater"
      [] op = ">=" -> ordering # "less"

TruthOf(b) == IF b THEN "true" ELSE "false"

CompareValues(l, op, r) ==
    IF IsNull(l) \/ IsNull(r) THEN "unknown"
    ELSE IF op \notin {"=", "<>"} /\ Ordering(l, r) = "none" THEN "error"
    ELSE TruthOf(Accepts(op, Ordering(l, r)))

\* AND and OR stop at the term that decides them, and an error before it is one.
Conjoined(truths) ==
    LET stops == {i \in DOMAIN truths : truths[i] \in {"false", "error"}}
    IN  IF stops # {} THEN truths[CHOOSE i \in stops : \A j \in stops : i <= j]
        ELSE IF Contains(truths, "unknown") THEN "unknown" ELSE "true"

Disjoined(truths) ==
    LET stops == {i \in DOMAIN truths : truths[i] \in {"true", "error"}}
    IN  IF stops # {} THEN truths[CHOOSE i \in stops : \A j \in stops : i <= j]
        ELSE IF Contains(truths, "unknown") THEN "unknown" ELSE "false"

Negated(truth) == CASE truth = "true" -> "false" [] truth = "false" -> "true" [] OTHER -> truth

-----------------------------------------------------------------------------
(***************************************************************************)
(* LIKE.  A pattern is split at its unescaped % once; the first segment    *)
(* starts the text, the last ends it, and those between are each found at  *)
(* their leftmost place.                                                   *)
(***************************************************************************)
Percent == 37
Underscore == 95
Backslash == 92
AnyCharacter == -1

\* The escape a predicate names, which may be none at all, or the backslash.
NoEscape == [none |-> TRUE]
EscapeOf(escape) == IF escape = NoEscape THEN <<Backslash>> ELSE escape.text

Segments(pattern, escape) ==
    LET Add(acc, c) ==
            IF acc.escaped
            THEN [segments |-> [acc.segments EXCEPT ![Len(acc.segments)] = Append(@, c)],
                  escaped |-> FALSE]
            ELSE IF escape = <<c>> THEN [acc EXCEPT !.escaped = TRUE]
            ELSE IF c = Percent THEN [acc EXCEPT !.segments = Append(@, <<>>)]
            ELSE [acc EXCEPT !.segments[Len(acc.segments)] =
                    Append(@, IF c = Underscore THEN AnyCharacter ELSE c)]
    IN  FoldLeft(Add, [segments |-> <<(<<>>)>>, escaped |-> FALSE], pattern).segments

FoldCase(c) == IF c \in 65..90 THEN c + 32 ELSE c

SameCharacter(element, c, folds) ==
    element = AnyCharacter \/ element = c \/ (folds /\ FoldCase(element) = FoldCase(c))

\* Whether a segment matches the text after its first `start' characters.
SegmentAt(text, start, segment, folds) ==
    /\ start >= 0 /\ start + Len(segment) <= Len(text)
    /\ \A i \in DOMAIN segment : SameCharacter(segment[i], text[start + i], folds)

\* Mutant: the segments between are found from the first, not from each other's ends.
LikeMatchesOverlapping(text, segments, folds) ==
    LET last == Len(segments)
    IN  /\ SegmentAt(text, 0, segments[1], folds)
        /\ \A i \in 2..(last - 1) : \E at \in 0..Len(text) :
                at >= Len(segments[1]) /\ SegmentAt(text, at, segments[i], folds)
        /\ IF last = 1 THEN Len(text) = Len(segments[1])
           ELSE SegmentAt(text, Len(text) - Len(segments[last]), segments[last], folds)

LikeMatches(text, segments, folds) ==
    LET last == Len(segments)
        Leftmost(cursor, segment) ==
            LET found == {at \in cursor..Len(text) : SegmentAt(text, at, segment, folds)}
            IN  IF cursor = -1 \/ found = {} THEN -1
                ELSE (CHOOSE at \in found : \A other \in found : at <= other) + Len(segment)
        cursor == FoldLeft(Leftmost, Len(segments[1]), SubSeq(segments, 2, last - 1))
        start == Len(text) - Len(segments[last])
    IN  /\ SegmentAt(text, 0, segments[1], folds)
        /\ IF last = 1 THEN Len(text) = Len(segments[1])
           ELSE cursor # -1 /\ start >= cursor /\ SegmentAt(text, start, segments[last], folds)

\* The characters every match begins with.
LiteralPrefix(segments) ==
    LET first == segments[1]
        wild == {i \in DOMAIN first : first[i] = AnyCharacter}
    IN  IF wild = {} THEN first
        ELSE SubSeq(first, 1, (CHOOSE i \in wild : \A j \in wild : i <= j) - 1)

\* A NULL pattern or escape leaves every row unknown.
LikeIsKnown(p) == ~IsNull(p.pattern) /\ ~IsNull(p.escape)
LikeTruth(p, v) ==
    IF ~LikeIsKnown(p) \/ TypeOf(v) # "text" THEN "unknown"
    ELSE TruthOf(LikeMatches(v.text, Segments(p.pattern.text, EscapeOf(p.escape)), p.folds))

-----------------------------------------------------------------------------
(***************************************************************************)
(* The filter: the predicate with adjacent comparisons of one column under *)
(* AND joined into one node, which reads the column once and judges it by  *)
(* a range of integers or by the bounds as numbers where it can.           *)
(***************************************************************************)
\* Tests of one column and the inclusive range they accept: NoRange unless every bound is an
\* integer and none is `<>'.
NoRange == [low |-> 0, high |-> -2]
Unbounded == MaxSafe + 2

IntegerRange(tests) ==
    LET Bound(i) == tests[i].value.int
        Lower(i) == CASE tests[i].op \in {"=", ">="} -> Bound(i)
                      [] tests[i].op = ">" -> Bound(i) + 1
                      [] OTHER -> -Unbounded
        Upper(i) == CASE tests[i].op \in {"=", "<="} -> Bound(i)
                      [] tests[i].op = "<" -> Bound(i) - 1
                      [] OTHER -> Unbounded
        lows == {Lower(i) : i \in DOMAIN tests}
        highs == {Upper(i) : i \in DOMAIN tests}
    IN  IF \E i \in DOMAIN tests : TypeOf(tests[i].value) # "int" \/ tests[i].op = "<>" THEN NoRange
        ELSE [low |-> CHOOSE n \in lows : \A k \in lows : n >= k,
              high |-> CHOOSE n \in highs : \A k \in highs : n <= k]

InRange(range, n) == range.low <= n /\ n <= range.high

AllNumbers(tests) == \A i \in DOMAIN tests : IsNumber(tests[i].value)

Test(p) == [op |-> p.op, value |-> p.value]

\* Adjacent comparisons of one column become one node.
Joined(nodes, p) ==
    LET last == nodes[Len(nodes)]
    IN  IF nodes = <<>> \/ p.kind # "comparison" THEN Append(nodes, p)
        ELSE IF last.kind = "comparisons" /\ last.column = p.column
        THEN [nodes EXCEPT ![Len(nodes)].tests = Append(@, Test(p))]
        ELSE IF last.kind = "comparison" /\ last.column = p.column
        THEN [nodes EXCEPT ![Len(nodes)] =
                [kind |-> "comparisons", column |-> p.column, tests |-> <<Test(last), Test(p)>>]]
        ELSE Append(nodes, p)

RECURSIVE FilterNode(_)
FilterNode(p) ==
    CASE p.kind = "and" ->
            LET nodes == FoldLeft(Joined, <<>>, [i \in DOMAIN p.predicates |-> FilterNode(p.predicates[i])])
            IN  IF Len(nodes) = 1 THEN nodes[1] ELSE And(nodes)
      [] p.kind = "or" -> Or([i \in DOMAIN p.predicates |-> FilterNode(p.predicates[i])])
      [] p.kind = "not" -> Not(FilterNode(p.predicate))
      [] OTHER -> p

\* A run of comparisons of a value: by the range, by the bounds, or one by one.
RunTruth(tests, v) ==
    LET range == IntegerRange(tests)
    IN  IF TypeOf(v) = "int" /\ range # NoRange THEN TruthOf(InRange(range, v.int))
        ELSE IF IsNumber(v) /\ AllNumbers(tests)
        THEN TruthOf(\A i \in DOMAIN tests : Accepts(tests[i].op, Ordering(v, tests[i].value)))
        ELSE Conjoined([i \in DOMAIN tests |-> CompareValues(v, tests[i].op, tests[i].value)])

RECURSIVE NodeTruth(_, _)
NodeTruth(node, row) ==
    CASE node.kind = "comparison" -> CompareValues(row[node.column], node.op, node.value)
      [] node.kind = "comparisons" -> RunTruth(node.tests, row[node.column])
      [] node.kind = "is null" -> TruthOf(IsNull(row[node.column]) # node.negated)
      [] node.kind = "in" ->
            Disjoined([i \in DOMAIN node.values |-> CompareValues(row[node.column], "=", node.values[i])])
      [] node.kind = "like" -> LikeTruth(node, row[node.column])
      [] node.kind = "and" -> Conjoined([i \in DOMAIN node.predicates |-> NodeTruth(node.predicates[i], row)])
      [] node.kind = "or" -> Disjoined([i \in DOMAIN node.predicates |-> NodeTruth(node.predicates[i], row)])
      [] node.kind = "not" -> Negated(NodeTruth(node.predicate, row))
      [] node.kind = "expressions" ->
            LET l == Evaluate(node.left, row, <<>>)
                r == Evaluate(node.right, row, <<>>)
            IN  IF Failed(l) \/ Failed(r) THEN "error" ELSE CompareValues(l, node.op, r)

-----------------------------------------------------------------------------
(***************************************************************************)
(* Tests of stored records: a term that compiles is tested on the record's *)
(* bytes before the row is presented, and tests that decide the predicate  *)
(* leave nothing to judge.  A record that omits the column holds its       *)
(* default, and a test knows whether that passes.                          *)
(***************************************************************************)
\* Whether a test accepts a value, from its bytes where it has any.
TestAccepts(test, v) ==
    IF IsNull(v) \/ test.kind = "is null" THEN test.kind = "is null" /\ IsNull(v) # test.negated
    ELSE CASE test.kind = "range" -> InRange(test.range, v.int)
           [] test.kind = "text" -> v.text = test.text
           [] test.kind = "like" -> LikeMatches(v.text, test.segments, test.folds)

\* The test a node compiles to, or none of it.
TestsOf(schema, node) ==
    LET type == TypeIn(schema, node.column)
        WithDefault(test) ==
            {test @@ [default |-> TestAccepts(test, ColumnOf(schema, node.column).default)]}
        RangeTest(tests) ==
            IF IntegerRange(tests) = NoRange THEN {}
            ELSE WithDefault([kind |-> "range", column |-> node.column, range |-> IntegerRange(tests)])
    IN  CASE node.kind = "comparison" /\ type = "int" -> RangeTest(<<Test(node)>>)
          [] node.kind = "comparison" /\ type = "text" /\ node.op = "=" /\ ~IsNull(node.value) ->
                WithDefault([kind |-> "text", column |-> node.column, text |-> node.value.text])
          [] node.kind = "comparisons" /\ type = "int" -> RangeTest(node.tests)
          [] node.kind = "like" /\ type = "text" /\ LikeIsKnown(node) ->
                WithDefault([kind |-> "like", column |-> node.column, folds |-> node.folds,
                             segments |-> Segments(node.pattern.text, EscapeOf(node.escape))])
          [] node.kind = "is null" ->
                WithDefault([kind |-> "is null", column |-> node.column, negated |-> node.negated])
          [] OTHER -> {}

HasColumn(node) == node.kind \in {"comparison", "comparisons", "like", "is null", "in"}

\* The tests of a node and whether they decide it.
RECURSIVE CompileTests(_, _)
CompileTests(schema, node) ==
    IF node.kind = "and"
    THEN LET parts == [i \in DOMAIN node.predicates |-> CompileTests(schema, node.predicates[i])]
         IN  [tests |-> UNION {parts[i].tests : i \in DOMAIN parts},
              decided |-> \A i \in DOMAIN parts : parts[i].decided]
    ELSE IF ~HasColumn(node) THEN [tests |-> {}, decided |-> FALSE]
    ELSE [tests |-> TestsOf(schema, node), decided |-> TestsOf(schema, node) # {}]

\* A record passes the tests of its columns; one that omits a column passes as its default does.
StoredRecordPasses(schema, record, tests) ==
    \A test \in tests :
        LET i == PositionOf(schema, test.column)
        IN  IF i > record.count THEN test.default
            ELSE TestAccepts(test, StoredColumn(schema, record, i))

\* Mutant: tests of key columns are skipped, and what is left decides.
ReaderTruthUnjudged(schema, p, key, record) ==
    LET compiled == CompileTests(schema, FilterNode(p))
        stored == {t \in compiled.tests : ~Contains(schema.key, t.column)}
    IN  IF ~StoredRecordPasses(schema, record, stored) THEN "false"
        ELSE IF compiled.decided THEN "true"
        ELSE NodeTruth(FilterNode(p), DecodeRow(schema, key, record))

\* What a scan makes of a stored row: tests of key columns are left to the filter.
ReaderTruth(schema, p, key, record) ==
    LET compiled == CompileTests(schema, FilterNode(p))
        stored == {t \in compiled.tests : ~Contains(schema.key, t.column)}
    IN  IF ~StoredRecordPasses(schema, record, stored) THEN "false"
        ELSE IF compiled.decided /\ stored = compiled.tests THEN "true"
        ELSE NodeTruth(FilterNode(p), DecodeRow(schema, key, record))

-----------------------------------------------------------------------------
\* Validation: what is refused before any row is read.

ValueFits(type, op, v) ==
    \/ IsNull(v)
    \/ CASE type \in {"int", "float"} -> IsNumber(v)
         [] type = "json" -> op \in {"=", "<>"}
         [] OTHER -> TypeOf(v) = type

\* An escape is one character or none, and ends no pattern unescaped.
LikeIsValid(type, p) ==
    LET dangling == FoldLeft(LAMBDA escaped, c : ~escaped /\ EscapeOf(p.escape) = <<c>>,
                             FALSE, p.pattern.text)
    IN  /\ type = "text"
        /\ TypeOf(p.pattern) \in {"text", "null"}
        /\ TypeOf(p.escape) \in {"text", "null", "none"}
        /\ TypeOf(p.escape) = "text" => Len(p.escape.text) <= 1
        /\ (TypeOf(p.pattern) = "text" /\ ~IsNull(p.escape)) => ~dangling

RECURSIVE PredicateIsValid(_, _)
PredicateIsValid(schema, p) ==
    CASE p.kind = "comparison" -> ValueFits(TypeIn(schema, p.column), p.op, p.value)
      [] p.kind = "in" -> \A i \in DOMAIN p.values : ValueFits(TypeIn(schema, p.column), "=", p.values[i])
      [] p.kind = "like" -> LikeIsValid(TypeIn(schema, p.column), p)
      [] p.kind = "is null" -> TRUE
      [] p.kind \in {"and", "or"} -> \A i \in DOMAIN p.predicates : PredicateIsValid(schema, p.predicates[i])
      [] p.kind = "not" -> PredicateIsValid(schema, p.predicate)
      [] p.kind = "expressions" ->
            Comparable(ValueType(p.left, TypesOf(schema)), ValueType(p.right, TypesOf(schema)), p.op)

RECURSIVE PredicateNodes(_), PredicateDepth(_)
PredicateNodes(p) ==
    CASE p.kind \in {"and", "or"} -> FoldLeft(LAMBDA n, q : n + PredicateNodes(q), 1, p.predicates)
      [] p.kind = "not" -> 1 + PredicateNodes(p.predicate)
      [] OTHER -> 1
PredicateDepth(p) ==
    CASE p.kind \in {"and", "or"} ->
            FoldLeft(LAMBDA d, q : IF PredicateDepth(q) + 1 > d THEN PredicateDepth(q) + 1 ELSE d,
                     0, p.predicates)
      [] p.kind = "not" -> 1 + PredicateDepth(p.predicate)
      [] OTHER -> 0

-----------------------------------------------------------------------------
\* The values a predicate fixes columns to: of two for one column, the last.

RECURSIVE GuaranteedEquality(_, _)
GuaranteedEquality(p, column) ==
    CASE p.kind = "comparison" ->
            IF p.column = column /\ p.op = "=" /\ ~IsNull(p.value) THEN <<p.value>> ELSE <<>>
      [] p.kind = "and" ->
            FoldLeft(LAMBDA found, q : LET here == GuaranteedEquality(q, column)
                                       IN  IF here = <<>> THEN found ELSE here,
                     <<>>, p.predicates)
      [] OTHER -> <<>>

\* A lookup stands for a scan only where a value has one encoding: not for floats or JSON.
IsExact(type, v) ==
    CASE type = "int" -> TypeOf(v) = "int" /\ Abs(v.int) <= MaxSafe
      [] type \in {"bool", "text"} -> TypeOf(v) = type
      [] OTHER -> FALSE

ExactEqualities(schema, p, columns) ==
    LET values == [i \in DOMAIN columns |-> GuaranteedEquality(p, columns[i])]
    IN  IF \A i \in DOMAIN columns :
            values[i] # <<>> /\ IsExact(TypeIn(schema, columns[i]), values[i][1])
        THEN [i \in DOMAIN columns |-> values[i][1]]
        ELSE <<>>
=============================================================================
