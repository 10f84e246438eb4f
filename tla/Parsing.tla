------------------------------- MODULE Parsing -------------------------------
(***************************************************************************)
(* How the tokens of a WHERE become a predicate, and how the names of an   *)
(* ORDER BY are told apart (query.rs).  Keywords are operators here, and a *)
(* literal is a number or a parameter; the lexer and the order of clauses  *)
(* are left out.                                                           *)
(***************************************************************************)
EXTENDS Queries

CONSTANTS
    MaxPredicateNodes,
    MaxPredicateDepth

Comparisons == {"=", "<>", "<", "<=", ">", ">="}
Arithmetic == {"+", "-", "*", "/", "%", "||"}

\* A parse that needs another before it, or fails with it.
Then(parsed, Next(_)) == IF ~Succeeded(parsed) THEN Unparsed ELSE Next(parsed)
Closed(ts, parsed) ==
    IF Succeeded(parsed) /\ IsOp(ts, parsed.at, {")"}) THEN Parsed(parsed.at + 1, parsed.e) ELSE Unparsed

\* The place of the bracket that closes the one at a place; 0 if none does.
ClosingBracket(ts, p) ==
    LET Depth(q) == Cardinality({i \in p..q : IsOp(ts, i, {"("})})
                    - Cardinality({i \in p..q : IsOp(ts, i, {")"})})
        closes == {q \in p..Len(ts) : IsOp(ts, q, {")"}) /\ Depth(q) = 0}
    IN  IF closes = {} THEN 0 ELSE Least(closes)

\* Whether a bracket opens an expression: whether a comparison or an operator follows its close.
OpensExpression(ts, p) ==
    LET close == ClosingBracket(ts, p)
    IN  close # 0 /\ (IsOp(ts, close + 1, Comparisons \cup Arithmetic) \/ IsNegative(ts, close + 1))

ParseValue(ts, p) ==
    IF p > Len(ts) \/ ts[p].kind \notin {"number", "placeholder"} THEN Unparsed
    ELSE Parsed(p + 1, IF ts[p].kind = "number" THEN Integer(ts[p].number) ELSE ts[p].value)

RECURSIVE ParseValues(_, _)
ParseValues(ts, p) ==
    Then(ParseValue(ts, p), LAMBDA first :
        IF IsOp(ts, first.at, {","})
        THEN Then(ParseValues(ts, first.at + 1), LAMBDA rest : Parsed(rest.at, <<first.e>> \o rest.e))
        ELSE Parsed(first.at, <<first.e>>))

ParseIn(ts, p, column) ==
    IF ~IsOp(ts, p, {"("}) THEN Unparsed
    ELSE Then(Closed(ts, ParseValues(ts, p + 1)), LAMBDA values :
            IF Len(values.e) > MaxInValues THEN Unparsed ELSE Parsed(values.at, In(column, values.e)))

\* BETWEEN is its two comparisons, and NOT BETWEEN either of the opposite ones.
ParseBetween(ts, p, column, negated) ==
    Then(ParseValue(ts, p), LAMBDA low :
        IF ~IsOp(ts, low.at, {"and"}) THEN Unparsed
        ELSE Then(ParseValue(ts, low.at + 1), LAMBDA high :
                Parsed(high.at,
                       IF negated THEN Or(<<Compares(column, "<", low.e), Compares(column, ">", high.e)>>)
                       ELSE And(<<Compares(column, ">=", low.e), Compares(column, "<=", high.e)>>))))

ParseComparison(ts, left) ==
    IF ~IsOp(ts, left.at, Comparisons) THEN Unparsed
    ELSE Then(ParseExpressionAt(ts, left.at + 1, FALSE), LAMBDA right :
            Parsed(right.at, Comparison(left.e, ts[left.at].op, right.e)))

\* Only a lone column takes IS NULL, IN and BETWEEN.
ParseTest(ts, left) ==
    LET column == left.e.name
        negated == IsOp(ts, left.at, {"not"})
        at == IF negated THEN left.at + 1 ELSE left.at
        nulls == IF IsOp(ts, left.at + 1, {"not"}) THEN left.at + 2 ELSE left.at + 1
    IN  IF left.e.kind # "column" THEN ParseComparison(ts, left)
        ELSE IF IsOp(ts, left.at, {"is"})
        THEN IF IsOp(ts, nulls, {"null"}) THEN Parsed(nulls + 1, IsNullOf(column, nulls = left.at + 2))
             ELSE Unparsed
        ELSE IF IsOp(ts, at, {"in"})
        THEN Then(ParseIn(ts, at + 1, column), LAMBDA in :
                IF negated THEN Parsed(in.at, Not(in.e)) ELSE in)
        ELSE IF IsOp(ts, at, {"between"}) THEN ParseBetween(ts, at + 1, column, negated)
        ELSE IF negated THEN Unparsed
        ELSE ParseComparison(ts, left)

RECURSIVE ParseOr(_, _, _), ParseAnd(_, _, _), ParseNot(_, _, _), ParseTerm(_, _, _, _, _)

\* The terms an operator joins, and the predicate of them if there are several.
ParseTerm(ts, p, depth, op, terms) ==
    Then(IF op = "or" THEN ParseAnd(ts, p, depth) ELSE ParseNot(ts, p, depth), LAMBDA term :
        LET all == Append(terms, term.e)
        IN  IF IsOp(ts, term.at, {op}) THEN ParseTerm(ts, term.at + 1, depth, op, all)
            ELSE Parsed(term.at, IF Len(all) = 1 THEN term.e ELSE IF op = "or" THEN Or(all) ELSE And(all)))

ParseOr(ts, p, depth) ==
    IF depth > MaxPredicateDepth THEN Unparsed ELSE ParseTerm(ts, p, depth, "or", <<>>)
ParseAnd(ts, p, depth) == ParseTerm(ts, p, depth, "and", <<>>)

ParsePrimary(ts, p, depth) ==
    IF IsOp(ts, p, {"("}) /\ ~OpensExpression(ts, p) THEN Closed(ts, ParseOr(ts, p + 1, depth + 1))
    ELSE Then(ParseExpressionAt(ts, p, FALSE), LAMBDA left : ParseTest(ts, left))

ParseNot(ts, p, depth) ==
    IF depth > MaxPredicateDepth THEN Unparsed
    ELSE IF IsOp(ts, p, {"not"})
    THEN Then(ParseNot(ts, p + 1, depth + 1), LAMBDA of : Parsed(of.at, Not(of.e)))
    ELSE ParsePrimary(ts, p, depth)

ParsePredicate(ts) ==
    LET parsed == ParseOr(ts, 1, 0)
    IN  IF ~Succeeded(parsed) \/ PredicateNodes(parsed.e) > MaxPredicateNodes THEN Unparsed ELSE parsed

-----------------------------------------------------------------------------
\* Binding a prepared statement's parameters: the markers its plan holds become their values.

BoundValue(v, params) == IF TypeOf(v) = "json" THEN params[v.json] ELSE v

RECURSIVE BindExpression(_, _), BindPredicate(_, _)
BindExpression(e, params) ==
    CASE e.kind = "value" -> ValueOf(BoundValue(e.value, params))
      [] e.kind = "negate" -> Negate(BindExpression(e.of, params))
      [] e.kind = "binary" ->
            Binary(e.op, BindExpression(e.left, params), BindExpression(e.right, params))
      [] OTHER -> e

\* A side whose value is now known lets the comparison narrow the rows read.
BindPredicate(p, params) ==
    CASE p.kind = "comparison" -> [p EXCEPT !.value = BoundValue(@, params)]
      [] p.kind = "in" -> [p EXCEPT !.values = [i \in DOMAIN @ |-> BoundValue(@[i], params)]]
      [] p.kind = "like" -> [p EXCEPT !.pattern = BoundValue(@, params), !.escape = BoundValue(@, params)]
      [] p.kind \in {"and", "or"} ->
            [p EXCEPT !.predicates = [i \in DOMAIN @ |-> BindPredicate(@[i], params)]]
      [] p.kind = "not" -> [p EXCEPT !.predicate = BindPredicate(@, params)]
      [] p.kind = "expressions" ->
            Comparison(BindExpression(p.left, params), p.op, BindExpression(p.right, params))
      [] OTHER -> p

-----------------------------------------------------------------------------
(***************************************************************************)
(* ORDER BY.  A plain name is an output's before it is a column's, one     *)
(* behind the table's name always a column's.  An output worked out from   *)
(* the row has no column, so ordering by one orders by outputs throughout. *)
(***************************************************************************)
NoOutput == 0
IsComputed(item) == item.e.kind # "column"

OutputsNamed(items, term) ==
    {i \in DOMAIN items : ~IsStar(items[i]) /\ ~term.qualified /\ items[i].output = term.name}
OutputOf(items, term) == IF OutputsNamed(items, term) = {} THEN NoOutput ELSE Least(OutputsNamed(items, term))

\* The output that returns a column.
OutputReturning(items, term) ==
    LET returning == {i \in DOMAIN items : ~IsStar(items[i]) /\ items[i].e = Column(term.name)}
    IN  IF OutputOf(items, term) # NoOutput THEN OutputOf(items, term)
        ELSE IF returning = {} THEN NoOutput ELSE Least(returning)

ParseOrderBy(items, terms) ==
    LET ambiguous == \E t \in DOMAIN terms : \E i, j \in OutputsNamed(items, terms[t]) :
                        items[i].e # items[j].e
        byOutputs == \E t \in DOMAIN terms :
                        OutputOf(items, terms[t]) # NoOutput /\ IsComputed(items[OutputOf(items, terms[t])])
        missing == byOutputs /\ \E t \in DOMAIN terms : OutputReturning(items, terms[t]) = NoOutput
        Key(t) == IF byOutputs THEN items[OutputReturning(items, terms[t])].output
                  ELSE IF OutputOf(items, terms[t]) # NoOutput THEN items[OutputOf(items, terms[t])].e.name
                  ELSE terms[t].name
    IN  [refused |-> ambiguous \/ missing,
         byOutputs |-> byOutputs,
         order |-> IF ambiguous \/ missing THEN <<>>
                   ELSE [t \in DOMAIN terms |->
                            [column |-> Key(t), descending |-> terms[t].descending, nulls |-> terms[t].nulls]]]
=============================================================================
