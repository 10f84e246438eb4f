----------------------------- MODULE Aggregates -----------------------------
(***************************************************************************)
(* Aggregates, GROUP BY and SELECT DISTINCT of one table (aggregate.rs).   *)
(* An item is an output, its function, and the column it reads, which is a *)
(* star for COUNT of rows; a grouped column's function is "column".        *)
(* DISTINCT groups by every column it returns.  Limits on the rows         *)
(* scanned, the groups and the bytes held are left out.                    *)
(***************************************************************************)
EXTENDS Queries

Aggregate(output, function, column) == [output |-> output, function |-> function, column |-> column]
Grouped(column) == Aggregate(column, "column", column)

\* Every column read from a row.
ReadColumns(plan) ==
    Range(plan.groups) \cup ColumnsRead(plan.predicate)
        \cup {plan.items[i].column : i \in {i \in DOMAIN plan.items : plan.items[i].column # "*"}}

-----------------------------------------------------------------------------
\* Accumulators.

Start == [count |-> 0, sum |-> <<0, 1>>, value |-> NullValue]

Replaces(function, v, selected) ==
    \/ IsNull(selected)
    \/ Ordering(v, selected) = IF function = "min" THEN "less" ELSE "greater"

Added(item, acc, v) ==
    [count |-> acc.count + 1,
     sum |-> IF IsNumber(v) THEN ApplyToFractions("+", acc.sum, AsFraction(v)).float ELSE acc.sum,
     value |-> IF Replaces(item.function, v, acc.value) THEN v ELSE acc.value]

\* Mutant: COUNT of a column counts its NULLs.
UpdateCountingNulls(item, acc, row) ==
    IF item.function = "count" THEN [acc EXCEPT !.count = @ + 1]
    ELSE IF IsNull(row[item.column]) THEN acc
    ELSE Added(item, acc, row[item.column])

\* NULLs count for COUNT(*) only.
Update(item, acc, row) ==
    IF item.column = "*" THEN [acc EXCEPT !.count = @ + 1]
    ELSE IF IsNull(row[item.column]) THEN acc
    ELSE Added(item, acc, row[item.column])

\* A sum of integers may pass through any value and must end in range; over no values it is NULL.
Finish(schema, item, acc) ==
    CASE item.function = "count" -> Integer(acc.count)
      [] item.function = "sum" ->
            IF acc.count = 0 THEN NullValue
            ELSE IF TypeIn(schema, item.column) = "float" THEN [float |-> acc.sum]
            ELSE IF Abs(acc.sum[1]) <= MaxSafe THEN Integer(acc.sum[1]) ELSE Failure("overflow")
      [] item.function = "avg" ->
            IF acc.count = 0 THEN NullValue ELSE Float(acc.sum[1], acc.sum[2] * acc.count)
      [] item.function \in {"min", "max"} -> acc.value

-----------------------------------------------------------------------------
\* Groups.

RECURSIVE Digits(_)
Digits(n) == IF n < 10 THEN <<48 + n>> ELSE Append(Digits(n \div 10), 48 + (n % 10))

\* A grouped value's part of its key: a tag, and the value as text, or NULL.
GroupKeyPart(v) ==
    CASE TypeOf(v) = "null" -> <<110>>
      [] TypeOf(v) = "bool" -> <<98, IF v.bool THEN 116 ELSE 102>>
      [] TypeOf(v) = "int" -> <<105>> \o (IF v.int < 0 THEN <<45>> ELSE <<>>) \o Digits(Abs(v.int))
      [] TypeOf(v) = "float" ->
            <<102>> \o BigEndian((IF v.float[1] < 0 THEN SignBit ELSE 0) + FloatMagnitude(v.float))
      [] TypeOf(v) = "text" -> <<115>> \o v.text
PartEnd == 34
GroupKey(values) == FlattenSeq([i \in DOMAIN values |-> Append(GroupKeyPart(values[i]), PartEnd)])

Group(plan, values) == [values |-> values, accs |-> [i \in DOMAIN plan.items |-> Start]]

\* Adds a row to the group of its values, which it starts if there is none.
Gather(plan, groups, row) ==
    LET values == [i \in DOMAIN plan.groups |-> row[plan.groups[i]]]
        found == {g \in DOMAIN groups : groups[g].values = values}
        all == IF found = {} THEN Append(groups, Group(plan, values)) ELSE groups
        at == IF found = {} THEN Len(all) ELSE CHOOSE g \in found : TRUE
    IN  [all EXCEPT ![at].accs = [i \in DOMAIN plan.items |->
            IF plan.items[i].function = "column" THEN Start ELSE Update(plan.items[i], @[i], row)]]

\* Without GROUP BY there is one group, of no rows if need be; groups come by their keys.
GroupsOf(plan, rows) ==
    LET first == IF plan.groups = <<>> THEN <<Group(plan, <<>>)>> ELSE <<>>
    IN  StableSort(FoldLeft(LAMBDA groups, row : Gather(plan, groups, row), first, rows),
                   LAMBDA g, h : BytesLess(GroupKey(g.values), GroupKey(h.values)))

GroupedValue(plan, group, column) ==
    group.values[CHOOSE i \in DOMAIN plan.groups : plan.groups[i] = column]

ProjectGroup(schema, plan, items, group) ==
    [name \in {items[i].output : i \in DOMAIN items} |->
        LET i == CHOOSE i \in DOMAIN items : items[i].output = name
        IN  IF items[i].function = "column" THEN GroupedValue(plan, group, items[i].column)
            ELSE Finish(schema, items[i], group.accs[i])]

-----------------------------------------------------------------------------
\* Queries.

\* A repeated name that outputs of different kinds share cannot order them.
IsAmbiguousOrder(plan) ==
    \E t \in DOMAIN plan.order : \E i, j \in DOMAIN plan.items :
        /\ plan.items[i].output = plan.order[t].column /\ plan.items[j].output = plan.order[t].column
        /\ plan.items[i] # plan.items[j]

AggregateIsValid(schema, plan, keyed) ==
    LET Supported(item) ==
            IF item.column = "*" THEN item.function = "count"
            ELSE CASE item.function = "column" -> Contains(plan.groups, item.column)
                   [] item.function = "count" -> TRUE
                   [] item.function \in {"sum", "avg"} -> TypeIn(schema, item.column) \in {"int", "float"}
                   [] OTHER -> TypeIn(schema, item.column) \in {"int", "float", "text"}
    IN  /\ PredicateIsValid(schema, plan.predicate)
        /\ IsInjective(plan.groups)
        /\ \A i \in DOMAIN plan.groups : TypeIn(schema, plan.groups[i]) # "json"
        /\ ~NamesRepeat(keyed.items)
        /\ \A i \in DOMAIN plan.items : Supported(plan.items[i])
        /\ \A t \in DOMAIN keyed.order :
            \E i \in DOMAIN keyed.items : keyed.items[i].output = keyed.order[t].column

ExecuteAggregate(reader, given) ==
    LET schema == reader.schema
        plan == [given EXCEPT !.predicate = Resolved(@)]
        keyed == PositionOutputs(plan, plan.items)
        positional == plan.arrays /\ NamesRepeat(plan.items)
        visited == Accepted(reader, plan.predicate,
                            VisitAggregateCandidates(reader, plan.predicate, ReadColumns(plan)),
                            Every(reader))
        groups == GroupsOf(plan, visited.rows)
        rows == [g \in DOMAIN groups |-> ProjectGroup(schema, plan, keyed.items, groups[g])]
    IN  IF ResolutionFails(given.predicate) THEN Refused("subquery")
        ELSE IF \/ positional /\ IsAmbiguousOrder(plan)
                \/ ~AggregateIsValid(schema, plan, keyed) THEN Refused("invalid")
        ELSE IF plan.limit = 0 THEN Returned(<<>>)
        ELSE IF visited.failed \/ AnyFailed(rows) THEN Refused("failed")
        ELSE Returned(Slice(SortRows(rows, keyed.order), plan.offset, plan.limit))
=============================================================================
