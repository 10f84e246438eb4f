----------------------------- MODULE Expressions -----------------------------
(***************************************************************************)
(* Values and the scalar expressions over one row (expression.rs): how     *)
(* tokens become a tree, which types a tree may have, and what it gives.   *)
(* A value is a record of one field, which is its type; a float is a       *)
(* reduced fraction, so rounding is left out.                              *)
(***************************************************************************)
EXTENDS Integers, Sequences, FiniteSets, SequencesExt

CONSTANTS
    MaxSafe,             \* the largest integer arithmetic may give
    MaxTextLength,       \* the longest text concatenation may give
    MaxExpressionNodes,
    MaxExpressionDepth

-----------------------------------------------------------------------------
\* Values.

NullValue == [null |-> TRUE]
Integer(n) == [int |-> n]
Text(s) == [text |-> s]
Bool(b) == [bool |-> b]

Abs(n) == IF n < 0 THEN -n ELSE n
Fraction(p, q) ==
    LET Common(d) == p % d = 0 /\ q % d = 0
        g == CHOOSE d \in 1..Abs(q) : Common(d) /\ \A e \in 1..Abs(q) : Common(e) => e <= d
        sign == IF q < 0 THEN -1 ELSE 1
    IN  <<sign * (p \div g), sign * (q \div g)>>
Float(p, q) == [float |-> Fraction(p, q)]

TypeOf(v) == CHOOSE t \in DOMAIN v : TRUE
IsNull(v) == TypeOf(v) = "null"
IsNumber(v) == TypeOf(v) \in {"int", "float"}
AsFraction(v) == IF TypeOf(v) = "int" THEN <<v.int, 1>> ELSE v.float

Failure(why) == [error |-> why]
Failed(v) == TypeOf(v) = "error"

-----------------------------------------------------------------------------
\* Trees.

ValueOf(v) == [kind |-> "value", value |-> v]
Column(name) == [kind |-> "column", name |-> name]
Excluded(name) == [kind |-> "excluded", name |-> name]
Negate(e) == [kind |-> "negate", of |-> e]
Binary(op, l, r) == [kind |-> "binary", op |-> op, left |-> l, right |-> r]

RECURSIVE ColumnNames(_)
ColumnNames(e) ==
    CASE e.kind = "value" -> {}
      [] e.kind \in {"column", "excluded"} -> {e.name}
      [] e.kind = "negate" -> ColumnNames(e.of)
      [] e.kind = "binary" -> ColumnNames(e.left) \cup ColumnNames(e.right)

ReadsRow(e) == ColumnNames(e) # {}

\* The nodes the parser counts: parentheses are none.
RECURSIVE Nodes(_)
Nodes(e) ==
    CASE e.kind = "negate" -> 1 + Nodes(e.of)
      [] e.kind = "binary" -> 1 + Nodes(e.left) + Nodes(e.right)
      [] OTHER -> 1

-----------------------------------------------------------------------------
(***************************************************************************)
(* Parsing.  A token is an operator or bracket, a number, which the lexer  *)
(* gives the sign it touches, a name, or a placeholder with what is read   *)
(* for it.  A parse is the position after it and its tree, or has no tree. *)
(***************************************************************************)
Op(o) == [kind |-> "op", op |-> o]
Number(n) == [kind |-> "number", number |-> n]
Name(n) == [kind |-> "name", name |-> n]
Placeholder(v) == [kind |-> "placeholder", value |-> v]

\* What a statement being prepared reads for a parameter, JSON that no operator takes.
Marker(n) == [json |-> n]

NoTree == [kind |-> "none"]
Parsed(at, e) == [at |-> at, e |-> e]
Unparsed == Parsed(0, NoTree)
Succeeded(parsed) == parsed.at # 0

IsOp(ts, p, ops) == p <= Len(ts) /\ ts[p].kind = "op" /\ ts[p].op \in ops
IsNegative(ts, p) == p <= Len(ts) /\ ts[p].kind = "number" /\ ts[p].number < 0

\* A table's name before the dot names the row, EXCLUDED the proposed one; names as in ON
\* CONFLICT refuse a plain name, which could be either.
ParseColumn(ts, p, conflict) ==
    LET qualified == IsOp(ts, p + 1, {"."}) /\ p + 2 <= Len(ts) /\ ts[p + 2].kind = "name"
    IN  IF IsOp(ts, p + 1, {"("}) \/ (IsOp(ts, p + 1, {"."}) /\ ~qualified) THEN Unparsed
        ELSE IF ~qualified THEN IF conflict THEN Unparsed ELSE Parsed(p + 1, Column(ts[p].name))
        ELSE IF IsOp(ts, p + 3, {"."}) THEN Unparsed
        ELSE IF conflict /\ ts[p].name = "excluded" THEN Parsed(p + 3, Excluded(ts[p + 2].name))
        ELSE IF conflict /\ ts[p].name = "table" THEN Parsed(p + 3, Column(ts[p + 2].name))
        ELSE Parsed(p + 3, Column(<<ts[p].name, ts[p + 2].name>>))

RECURSIVE ParseUnary(_, _, _, _), ParseFactors(_, _, _, _), ParseTerms(_, _, _, _),
          ParseConcatenation(_, _, _, _)

ParseUnary(ts, p, depth, conflict) ==
    IF depth > MaxExpressionDepth \/ p > Len(ts) THEN Unparsed
    ELSE IF IsOp(ts, p, {"-"})
    THEN LET operand == ParseUnary(ts, p + 1, depth + 1, conflict)
         IN  IF ~Succeeded(operand) THEN Unparsed ELSE Parsed(operand.at, Negate(operand.e))
    ELSE CASE ts[p].kind = "number" -> Parsed(p + 1, ValueOf(Integer(ts[p].number)))
           [] ts[p].kind = "placeholder" -> Parsed(p + 1, ValueOf(ts[p].value))
           [] IsOp(ts, p, {"("}) ->
                LET first == ParseTerms(ts, ParseUnary(ts, p + 1, depth + 1, conflict), depth + 1, conflict)
                    inner == ParseConcatenation(ts, first, depth + 1, conflict)
                IN  IF Succeeded(inner) /\ IsOp(ts, inner.at, {")"})
                    THEN Parsed(inner.at + 1, inner.e) ELSE Unparsed
           [] ts[p].kind = "name" -> ParseColumn(ts, p, conflict)
           [] OTHER -> Unparsed

\* The factors, the terms and the concatenations that follow a parse.
ParseFactors(ts, left, depth, conflict) ==
    IF ~Succeeded(left) \/ ~IsOp(ts, left.at, {"*", "/", "%"}) THEN left
    ELSE LET right == ParseUnary(ts, left.at + 1, depth, conflict)
         IN  IF ~Succeeded(right) THEN Unparsed
             ELSE ParseFactors(ts, Parsed(right.at, Binary(ts[left.at].op, left.e, right.e)),
                               depth, conflict)

\* Mutant: a number that touches its minus sign is an operand of its own.
ParseTermsUnsigned(ts, first, depth, conflict) ==
    LET left == ParseFactors(ts, first, depth, conflict)
    IN  IF ~Succeeded(left) \/ ~IsOp(ts, left.at, {"+", "-"}) THEN left
        ELSE LET right == ParseFactors(ts, ParseUnary(ts, left.at + 1, depth, conflict), depth, conflict)
             IN  IF ~Succeeded(right) THEN Unparsed
                 ELSE ParseTerms(ts, Parsed(right.at, Binary(ts[left.at].op, left.e, right.e)),
                                 depth, conflict)

\* A number the lexer gave a minus subtracts here.
ParseTerms(ts, first, depth, conflict) ==
    LET left == ParseFactors(ts, first, depth, conflict)
        touching == Succeeded(left) /\ IsNegative(ts, left.at)
        next == IF touching THEN Parsed(left.at + 1, ValueOf(Integer(-ts[left.at].number)))
                ELSE ParseUnary(ts, left.at + 1, depth, conflict)
        right == ParseFactors(ts, next, depth, conflict)
    IN  IF ~Succeeded(left) \/ ~(touching \/ IsOp(ts, left.at, {"+", "-"})) THEN left
        ELSE IF ~Succeeded(right) THEN Unparsed
        ELSE ParseTerms(ts, Parsed(right.at, Binary(IF touching THEN "-" ELSE ts[left.at].op,
                                                    left.e, right.e)), depth, conflict)

ParseConcatenation(ts, left, depth, conflict) ==
    IF ~Succeeded(left) \/ ~IsOp(ts, left.at, {"||"}) THEN left
    ELSE LET right == ParseTerms(ts, ParseUnary(ts, left.at + 1, depth, conflict), depth, conflict)
         IN  IF ~Succeeded(right) THEN Unparsed
             ELSE ParseConcatenation(ts, Parsed(right.at, Binary("||", left.e, right.e)),
                                     depth, conflict)

ParseExpressionAt(ts, p, conflict) ==
    LET parsed == ParseConcatenation(ts, ParseTerms(ts, ParseUnary(ts, p, 0, conflict), 0, conflict),
                                     0, conflict)
    IN  IF ~Succeeded(parsed) \/ Nodes(parsed.e) > MaxExpressionNodes THEN Unparsed ELSE parsed

-----------------------------------------------------------------------------
(***************************************************************************)
(* Types: "null" for an expression that gives only NULL, "error" for one   *)
(* whose operands its operator does not take.                              *)
(***************************************************************************)
Takes(op, type) ==
    type \in {"null"} \cup
        CASE op = "||" -> {"text"}
          [] op = "%" -> {"int"}
          [] OTHER -> {"int", "float"}

OperandTypes(op, l, r) ==
    IF ~Takes(op, l) \/ ~Takes(op, r) THEN "error"
    ELSE IF "float" \in {l, r} THEN "float"
    ELSE IF l = "null" THEN r ELSE l

RECURSIVE ValueType(_, _)
ValueType(e, types) ==
    CASE e.kind = "value" -> TypeOf(e.value)
      [] e.kind \in {"column", "excluded"} -> types[e.name]
      [] e.kind = "negate" -> OperandTypes("-", ValueType(e.of, types), "null")
      [] e.kind = "binary" -> OperandTypes(e.op, ValueType(e.left, types), ValueType(e.right, types))

\* A FLOAT column holds one spelling of a number, and any other column the value itself.
Normalized(v, type) == IF type = "float" /\ TypeOf(v) = "int" THEN Float(v.int, 1) ELSE v

Comparable(l, r, op) ==
    IF "error" \in {l, r} THEN FALSE
    ELSE IF "null" \in {l, r} THEN TRUE
    ELSE IF "json" \in {l, r} THEN op \in {"=", "<>"}
    ELSE l = r \/ {l, r} = {"int", "float"}

-----------------------------------------------------------------------------
\* Values of expressions.

Quotient(a, b) == LET q == Abs(a) \div Abs(b) IN IF (a < 0) = (b < 0) THEN q ELSE -q

ApplyToIntegers(op, a, b) ==
    LET result == CASE op = "+" -> a + b
                    [] op = "-" -> a - b
                    [] op = "*" -> a * b
                    [] op = "/" -> Quotient(a, b)
                    [] op = "%" -> a - b * Quotient(a, b)
    IN  IF Abs(result) <= MaxSafe THEN Integer(result) ELSE Failure("overflow")

ApplyToFractions(op, f, g) ==
    CASE op = "+" -> Float(f[1] * g[2] + g[1] * f[2], f[2] * g[2])
      [] op = "-" -> Float(f[1] * g[2] - g[1] * f[2], f[2] * g[2])
      [] op = "*" -> Float(f[1] * g[1], f[2] * g[2])
      [] op = "/" -> Float(f[1] * g[2], f[2] * g[1])
      [] op = "%" -> Failure("mismatch")

Apply(op, l, r) ==
    IF IsNull(l) \/ IsNull(r) THEN NullValue
    ELSE IF op = "||"
    THEN IF TypeOf(l) # "text" \/ TypeOf(r) # "text" THEN Failure("mismatch")
         ELSE IF Len(l.text) + Len(r.text) > MaxTextLength THEN Failure("limit")
         ELSE Text(l.text \o r.text)
    ELSE IF ~IsNumber(l) \/ ~IsNumber(r) THEN Failure("mismatch")
    ELSE IF op \in {"/", "%"} /\ AsFraction(r)[1] = 0 THEN Failure("zero")
    ELSE IF TypeOf(l) = "int" /\ TypeOf(r) = "int" THEN ApplyToIntegers(op, l.int, r.int)
    ELSE ApplyToFractions(op, AsFraction(l), AsFraction(r))

RECURSIVE Evaluate(_, _, _)
Evaluate(e, row, proposed) ==
    CASE e.kind = "value" -> e.value
      [] e.kind = "column" -> row[e.name]
      [] e.kind = "excluded" -> proposed[e.name]
      [] e.kind = "negate" ->
            LET v == Evaluate(e.of, row, proposed)
            IN  IF Failed(v) THEN v ELSE Apply("-", Integer(0), v)
      [] e.kind = "binary" ->
            LET l == Evaluate(e.left, row, proposed)
                r == Evaluate(e.right, row, proposed)
            IN  IF Failed(l) THEN l ELSE IF Failed(r) THEN r ELSE Apply(e.op, l, r)

\* The value of an expression that reads no row.
Constant(e) ==
    IF ValueType(e, <<>>) = "error" THEN Failure("mismatch") ELSE Evaluate(e, <<>>, <<>>)

-----------------------------------------------------------------------------
\* Comparisons.

Flipped(op) ==
    CASE op = "<" -> ">" [] op = "<=" -> ">=" [] op = ">" -> "<" [] op = ">=" -> "<=" [] OTHER -> op

Known(e) == ~ReadsRow(e) /\ ~Failed(Constant(e))

\* A column against a value known without a row is a comparison of that column, which may narrow
\* the rows read; any other comparison reads both sides.
Comparison(l, op, r) ==
    IF l.kind = "column" /\ Known(r)
    THEN [kind |-> "comparison", column |-> l.name, op |-> op, value |-> Constant(r)]
    ELSE IF l.kind # "column" /\ r.kind = "column" /\ Known(l)
    THEN [kind |-> "comparison", column |-> r.name, op |-> Flipped(op), value |-> Constant(l)]
    ELSE [kind |-> "expressions", left |-> l, op |-> op, right |-> r]
=============================================================================
