----------------------------- MODULE MCQueryLaws -----------------------------
\* Bounded inputs for the laws of queries.
EXTENDS QueryLaws

Col(name, type, default, nullable) ==
    [name |-> name, type |-> type, default |-> default, nullable |-> nullable]

ab == Text(<<97, 98>>)
a1 == Text(<<97>>)
b1 == Text(<<98>>)
I(n) == Integer(n)
Half == Float(1, 2)
Null == NullValue

-----------------------------------------------------------------------------
\* WHERE clauses over integer columns x and y.

x == Column("x")
y == Column("y")
V(n) == ValueOf(Integer(n))
Operands == {x, V(2), Binary("-", x, V(1)), Binary("*", Binary("-", y, V(1)), V(2)),
             Binary("-", x, Binary("-", y, V(1))), Negate(Binary("+", x, V(1))),
             Binary("/", V(4), Binary("%", x, V(2))), Negate(V(1))}
WrittenAtoms == {ComparesExpressions(l, op, r) : l \in Operands, op \in {"<", ">=", "<>"}, r \in Operands}
            \cup {IsNullOf("x", TRUE), In("y", <<I(1), I(-2)>>)}
            \cup {[kind |-> "between", column |-> "x", low |-> I(l), high |-> I(2), negated |-> n] :
                    l \in {0, 2}, n \in BOOLEAN}
Few == {ComparesExpressions(x, "<", V(2)), ComparesExpressions(Binary("-", y, V(1)), "=", x),
        ComparesExpressions(V(1), "<", y), IsNullOf("y", FALSE),
        [kind |-> "between", column |-> "x", low |-> I(0), high |-> I(1), negated |-> TRUE]}
Pairs(S) == UNION {{And(<<p, q>>), Or(<<p, q>>), Not(And(<<p, q>>))} : p \in S, q \in S}
MCSources == WrittenAtoms \cup Pairs(Few) \cup {Not(p) : p \in Few}
                \cup {And(<<Or(<<p, q>>), r>>) : p \in Few, q \in Few, r \in Few}
                \cup {Or(<<And(<<p, q>>), Not(Not(r))>>) : p \in Few, q \in Few, r \in Few}
MCJudged == [{"x", "y"} -> {Null, I(-1), I(0), I(1), I(3)}]

-----------------------------------------------------------------------------
\* Rows and their bytes.

TextKeyed == [columns |-> <<Col("n", "int", I(5), TRUE), Col("a", "text", Null, FALSE),
                            Col("b", "int", Null, FALSE), Col("s", "text", Null, TRUE)>>,
              key |-> <<"a", "b">>]
FloatKeyed == [columns |-> <<Col("f", "float", Null, FALSE), Col("t", "bool", Null, TRUE)>>,
               key |-> <<"f">>]
Filtered == [columns |-> <<Col("id", "int", Null, FALSE), Col("g", "text", a1, TRUE),
                           Col("n", "int", I(1), TRUE), Col("f", "float", Null, TRUE)>>,
             key |-> <<"id">>]
MCKeySchemas == {TextKeyed, FloatKeyed}
MCRowsOf(schema) ==
    CASE schema = TextKeyed ->
            {[a |-> Text(s), b |-> I(i), n |-> n, s |-> t] :
                s \in {<<>>, <<0>>, <<0, 1>>, <<1>>}, i \in {-1, 256},
                n \in {Null, I(5), I(0), I(-200)}, t \in {Null, Text(<<>>), Text(<<7>>)}}
      [] schema = FloatKeyed ->
            {[f |-> f, t |-> t] : f \in {Float(-2, 1), Float(-1, 2), Float(0, 1), Half, Float(3, 1)},
                                  t \in {Null, Bool(TRUE), Bool(FALSE)}}
      [] schema = Filtered ->
            {[id |-> I(1), g |-> g, n |-> n, f |-> f] :
                g \in {Null, a1, ab}, n \in {Null, I(0), I(1), I(3)}, f \in {Null, Half}}

Atoms == {Compares("n", "=", I(1)), Compares("n", ">", I(0)), Compares("n", "<=", Float(5, 2)),
          Compares("n", "<>", I(3)), Compares("n", "<", Null), Compares("id", "<", I(2)),
          Compares("id", ">", I(1)), Compares("g", "=", a1), Compares("g", ">", a1),
          Compares("f", ">=", I(0)), IsNullOf("n", FALSE), IsNullOf("g", TRUE),
          In("n", <<I(3), Null>>), Like("g", Text(<<97, Percent>>), NoEscape, FALSE),
          Like("g", Text(<<65>>), NoEscape, TRUE), Like("g", Null, NoEscape, FALSE),
          ComparesExpressions(Binary("/", Column("n"), Column("f")), ">", Column("id")),
          ComparesExpressions(Column("n"), "=", Column("f"))}
MCFilters == Atoms \cup {Not(p) : p \in Atoms}
                \cup {And(<<p, q>>) : p \in Atoms, q \in Atoms}
                \cup {Or(<<p, q>>) : p \in Atoms, q \in Atoms}
                \cup {Not(And(<<p, q>>)) : p \in Atoms, q \in Atoms}
                \cup {And(<<Compares("n", ">=", I(0)), p, Compares("n", "<", I(3))>>) : p \in Atoms}

-----------------------------------------------------------------------------
\* LIKE.

SeqsUpTo(S, n) == UNION {[1..k -> S] : k \in 0..n}
MCTexts == SeqsUpTo({97, 98}, 4) \cup SeqsUpTo({65, 97, Percent, Backslash}, 2)
MCPatterns == {Like("g", Text(s), NoEscape, FALSE) : s \in SeqsUpTo({97, 98, Percent, Underscore}, 4)}
         \cup {Like("g", Text(s), e, folds) : s \in SeqsUpTo({97, Percent, Underscore, Backslash}, 3),
                    e \in {NoEscape, Text(<<>>), Text(<<97>>)}, folds \in BOOLEAN}

-----------------------------------------------------------------------------
\* Tables.

Row(i, g, n) == [id |-> I(i), g |-> g, n |-> n]
Table == [columns |-> <<Col("id", "int", Null, FALSE), Col("g", "text", Null, TRUE),
                        Col("n", "int", I(1), TRUE)>>,
          key |-> <<"id">>]
PairKeyed == [Table EXCEPT !.key = <<"n", "id">>]
Rows == <<Row(-1, Null, I(3)), Row(1, b1, Null), Row(2, a1, I(1)), Row(3, ab, I(1)), Row(5, a1, I(0)),
          Row(6, b1, I(2)), Row(7, ab, Null), Row(8, Null, I(0))>>
PairRows == <<Row(1, Null, I(0)), Row(3, a1, I(0)), Row(1, b1, I(1)), Row(2, a1, I(1)), Row(5, ab, I(1))>>

Reader(schema, rows, indexes, keyOrder) ==
    [schema |-> schema, rows |-> rows, indexes |-> indexes, keyOrder |-> keyOrder]
Readers == {Reader(Table, Rows, <<>>, TRUE),
            Reader(Table, Rows, <<(<<"g", "n">>), <<"n">>>>, TRUE),
            Reader(Table, Reverse(Rows), <<(<<"g", "n">>)>>, FALSE),
            Reader(PairKeyed, PairRows, <<(<<"g", "n">>)>>, TRUE)}

Conditions == {NoPredicate, Compares("n", "=", I(1)), Compares("n", ">", Half), Compares("n", ">", I(1)),
               Compares("n", "<", Float(3, 2)),
               And(<<Compares("n", ">", I(1)), Compares("n", "<", I(3))>>), Compares("g", "=", a1),
               Compares("g", "=", b1), And(<<Compares("g", "=", a1), Compares("n", "=", I(1))>>),
               Like("g", Text(<<97, Percent>>), NoEscape, FALSE), Compares("id", ">", I(2)),
               And(<<Compares("id", ">=", I(-1)), Compares("id", "<", I(3))>>), Compares("id", "=", I(3)),
               And(<<Compares("id", "=", I(3)), Compares("id", "=", I(5))>>),
               IsNullOf("n", FALSE), Or(<<Compares("n", "=", I(1)), Compares("id", "=", I(1))>>),
               Compares("g", ">", ab), Compares("id", "<", Null),
               ComparesExpressions(Column("n"), "<", Column("id"))}

Lookups == Reader(Table, SubSeq(Rows, 1, 4), <<(<<"n">>)>>, TRUE)
InQuery(column, of, p) ==
    Subquery(column, Lookups, [items |-> <<Item("v", Column(of))>>, predicate |-> p, order |-> <<>>,
                               byOutputs |-> FALSE, limit |-> NoLimit, offset |-> 0, arrays |-> FALSE])
Queried == {InQuery("id", "n", NoPredicate), Not(InQuery("n", "id", Compares("n", "=", I(1)))),
            And(<<Not(InQuery("id", "n", NoPredicate)), Compares("n", "=", I(1))>>)}

Term(name, descending, nulls) ==
    [qualified |-> FALSE, name |-> name, descending |-> descending, nulls |-> nulls]
Orders == {<<>>, <<Term("id", FALSE, "default")>>, <<Term("id", TRUE, "default")>>,
           <<Term("n", TRUE, "last")>>, <<Term("n", TRUE, "default")>>,
           <<Term("g", FALSE, "first"), Term("id", TRUE, "default")>>,
           <<Term("n", TRUE, "default"), Term("id", TRUE, "default")>>,
           <<[Term("id", TRUE, "default") EXCEPT !.qualified = TRUE]>>}
Outputs == {<<>>, <<Item("id", Column("id")), Item("n", Binary("-", Column("n"), Column("id")))>>,
            <<Item("id", Column("n")), Item("n", Column("id")), Item("g", Column("g"))>>}
\* A table with a text key, asked for texts of as many bytes as a key holds, and of one more.
NameRow(i, g, n) == [id |-> i, g |-> g, n |-> n]
Naming == [Table EXCEPT !.columns[1] = Col("id", "text", Null, FALSE)]
NameRows == <<NameRow(a1, Null, I(3)), NameRow(ab, b1, I(1)), NameRow(b1, a1, I(1))>>
NameReaders == {Reader(Naming, NameRows, <<>>, TRUE), Reader(Naming, NameRows, <<(<<"g">>)>>, TRUE),
                Reader(Naming, Reverse(NameRows), <<(<<"g">>)>>, FALSE)}
Repeated(n) == Text([i \in 1..n |-> 97])
Longest == MaxKeyBytes - 2
NameConditions ==
    {Compares(column, op, Repeated(n)) : column \in {"id", "g"}, op \in {"=", ">", "<="},
                                         n \in {Longest, Longest + 1}}
    \cup {And(<<Compares("n", "=", I(1)), Compares(column, "=", Repeated(Longest + 1))>>) : column \in {"id", "g"}}
    \cup {And(<<Compares("id", "=", Repeated(Longest + 1)), Compares("id", "=", ab)>>),
          Like("id", Text(Append(Repeated(Longest + 1).text, Percent)), NoEscape, FALSE)}
NameSelects ==
    {[reader |-> reader, items |-> <<>>, predicate |-> p, terms |-> terms, limit |-> cut[1], offset |-> cut[2]] :
        reader \in NameReaders, p \in NameConditions,
        terms \in {<<>>, <<Term("id", FALSE, "default")>>, <<Term("id", TRUE, "default")>>,
                   <<Term("n", TRUE, "default")>>},
        cut \in {<<NoLimit, 0>>, <<1, 1>>}}
MCSelects == NameSelects \cup
    {[reader |-> reader, items |-> items, predicate |-> p, terms |-> terms,
      limit |-> cut[1], offset |-> cut[2]] :
        reader \in Readers, items \in Outputs, p \in Conditions \cup Queried, terms \in Orders,
        cut \in {<<NoLimit, 0>>, <<NoLimit, 2>>, <<2, 0>>, <<1, 1>>}}

-----------------------------------------------------------------------------
\* Joins of people, the pets they own and the visits of pets.

Keyed(more) == [columns |-> <<Col("id", "int", Null, FALSE)>> \o more, key |-> <<"id">>]
People == Keyed(<<Col("n", "int", Null, TRUE)>>)
Pets == Keyed(<<Col("of", "int", Null, TRUE), Col("n", "float", Null, TRUE)>>)
PeopleRows == <<[id |-> I(1), n |-> I(2)], [id |-> I(2), n |-> Null], [id |-> I(3), n |-> I(1)]>>
PetRows == <<[id |-> I(1), of |-> I(1), n |-> Float(1, 1)], [id |-> I(2), of |-> Null, n |-> Half],
             [id |-> I(3), of |-> I(1), n |-> Null], [id |-> I(4), of |-> I(3), n |-> Float(2, 1)]>>
P(keyOrder) == [alias |-> "p", reader |-> Reader(People, PeopleRows, <<>>, keyOrder)]
Q(indexes, keyOrder) == [alias |-> "q", reader |-> Reader(Pets, PetRows, indexes, keyOrder)]
R == [alias |-> "r", reader |-> Reader(Pets, PetRows, <<(<<"of">>)>>, TRUE)]
On(l, r) == <<[left |-> l, right |-> r]>>
JoinConditions == {NoPredicate, Compares(<<"p", "n">>, ">", I(1)), IsNullOf(<<"q", "n">>, FALSE),
                   Compares(<<"q", "n">>, ">=", I(1)), Compares(<<"", "of">>, "=", I(1)),
                   And(<<Compares(<<"q", "n">>, "<", I(2)), Compares(<<"p", "id">>, "<", I(3))>>),
                   Or(<<Compares(<<"p", "id">>, "=", I(2)), Compares(<<"q", "id">>, ">", I(2))>>),
                   ComparesExpressions(Column(<<"p", "n">>), "<=", Column(<<"q", "n">>))}
TwoJoins ==
    {[relations |-> <<P(keyOrder), Q(indexes, keyOrder)>>, kinds |-> <<kind>>, on |-> <<on>>,
      predicate |-> p, items |-> items, distinct |-> FALSE, order |-> order, limit |-> cut[1], offset |-> cut[2],
      arrays |-> TRUE] :
        keyOrder \in BOOLEAN, indexes \in {<<>>, <<(<<"of">>)>>}, kind \in {"inner", "left"},
        on \in {On(<<"p", "id">>, <<"", "of">>), On(<<"q", "id">>, <<"p", "n">>), On(<<"p", "n">>, <<"q", "n">>),
                On(<<"p", "id">>, <<"q", "of">>) \o On(<<"q", "n">>, <<"p", "id">>)},
        p \in JoinConditions,
        items \in {<<J!JoinStar("")>>}, order \in {<<>>, <<Descending(<<"q", "n">>), Ascending(<<"p", "id">>)>>},
        cut \in {<<NoLimit, 0>>, <<1, 1>>}}
ThreeJoins ==
    {[relations |-> <<P(TRUE), Q(<<>>, TRUE), R>>, kinds |-> kinds,
      on |-> <<On(<<"p", "id">>, <<"q", "of">>), on>>, predicate |-> p, items |-> items,
      distinct |-> distinct, order |-> <<>>, limit |-> NoLimit, offset |-> 0, arrays |-> TRUE] :
        kinds \in {<<"inner", "left">>, <<"left", "inner">>, <<"left", "left">>},
        on \in {On(<<"r", "of">>, <<"q", "id">>), On(<<"r", "n">>, <<"p", "n">>)},
        p \in {NoPredicate, IsNullOf(<<"r", "id">>, FALSE), Compares(<<"r", "n">>, ">", Half)},
        items \in {<<Item("a", Column(<<"p", "id">>)), Item("b", Column(<<"r", "of">>))>>},
        distinct \in BOOLEAN}
\* Owners named by texts, one of which no key holds.
Owners == [alias |-> "o", reader |-> Reader(Naming, NameRows, <<(<<"g">>)>>, TRUE)]
Owned ==
    [alias |-> "p", reader |-> Reader(Table, <<Row(1, a1, Null), Row(2, Null, Null),
                                               Row(3, Repeated(Longest + 1), Null)>>, <<>>, TRUE)]
OwnerJoins ==
    {[relations |-> <<Owned, Owners>>, kinds |-> <<kind>>, on |-> <<On(<<"p", "g">>, <<"o", column>>)>>,
      predicate |-> p, items |-> <<J!JoinStar("")>>, distinct |-> FALSE, order |-> <<>>, limit |-> limit,
      offset |-> 0, arrays |-> TRUE] :
        kind \in {"inner", "left"}, column \in {"id", "g"},
        p \in {NoPredicate, Compares(<<"p", "id">>, "<", I(3))}, limit \in {NoLimit, 1}}
MCJoinSelects == TwoJoins \cup ThreeJoins \cup OwnerJoins

-----------------------------------------------------------------------------
\* Aggregates.

Counted == A!Aggregate("rows", "count", "*")
Columns == {A!Aggregate("c", "count", "n"), A!Aggregate("s", "sum", "n"), A!Aggregate("a", "avg", "n"),
            A!Aggregate("m", "min", "g"), A!Aggregate("x", "max", "id")}
Plan(items, groups, order, p) ==
    [items |-> items, groups |-> groups, order |-> order, predicate |-> p, byOutputs |-> TRUE,
     limit |-> NoLimit, offset |-> 0, arrays |-> FALSE]
AggregateReaders == {Reader(Table, Rows, <<(<<"n">>), <<"g", "id">>>>, TRUE),
                     Reader(Table, Reverse(Rows), <<>>, FALSE),
                     Reader(PairKeyed, PairRows, <<(<<"g", "n">>)>>, TRUE)}
MCAggregateSelects ==
    {[reader |-> Reader(Naming, NameRows, <<(<<"g">>)>>, TRUE), plan |-> Plan(<<Counted, c>>, <<>>, <<>>, p)] :
        c \in {A!Aggregate("c", "count", "g"), A!Aggregate("c", "count", "n")}, p \in NameConditions}
    \cup {[reader |-> reader, plan |-> plan] : reader \in AggregateReaders, plan \in
        {Plan(<<Counted, c>>, <<>>, <<>>, p) : c \in Columns, p \in Conditions}
        \cup {Plan(<<A!Grouped("g"), Counted, c>>, <<"g">>, order, p) :
                c \in Columns, p \in Conditions, order \in {<<>>, <<Descending("g")>>}}
        \cup {Plan(<<A!Grouped("n"), A!Grouped("g")>>, <<"n", "g">>, <<Ascending("n")>>, p) : p \in Conditions}}

-----------------------------------------------------------------------------
\* Nested levels: people, and the JSON of their pets with the JSON of those' visits.

Outer == Reader(People, PeopleRows, <<>>, TRUE)
Inner(indexes) == Reader(Pets, PetRows, indexes, TRUE)
Leaf == Reader(Pets, <<[id |-> I(1), of |-> I(3), n |-> Half], [id |-> I(2), of |-> I(3), n |-> Null],
                       [id |-> I(3), of |-> I(1), n |-> Float(2, 1)]>>, <<>>, TRUE)
Level(alias, reader, derived, items, laterals, p) ==
    [alias |-> alias, reader |-> reader, derived |-> derived, items |-> items, laterals |-> laterals,
     predicate |-> p, order |-> <<>>, limit |-> NoLimit]
OfRow(own, outer) == ComparesExpressions(Column(<<own, "of">>), "=", Column(<<outer, "id">>))
LeafLevel(w) == Level("c", Leaf, N!NoLevel,
                      <<N!GatheredItem("leaf", N!ElementColumn(<<"c", "n">>), <<>>, FALSE)>>, <<>>, OfRow("c", w))
OwnRows(indexes) == Level("q", Inner(indexes), N!NoLevel,
                          <<N!PlainItem("id", Column(<<"q", "id">>)), N!PlainItem("n", Column(<<"", "n">>))>>,
                          <<>>, OfRow("q", "p"))
Gathering(w, indexes, order, coalesced) ==
    Level(w, Inner(indexes), OwnRows(indexes),
          <<N!GatheredItem("rows", N!ElementArray(<<(<<w, "n">>), <<"l", "leaf">>>>),
                           [t \in DOMAIN order |-> [order[t] EXCEPT !.column = <<w, @>>]], coalesced)>>,
          <<[alias |-> "l", level |-> LeafLevel(w)]>>, NoPredicate)
MCNestedSelects ==
    {[outer |-> Outer, inner |-> Inner(indexes), leaf |-> Leaf, predicate |-> p[1], order |-> order,
      coalesced |-> coalesced,
      level |-> Level("p", Outer, N!NoLevel,
                      <<N!PlainItem("id", Column(<<"p", "id">>)), N!LateralItem("pets", 1, N!AnyColumn),
                        N!EachItem("row", N!ElementObject("p"))>>,
                      <<[alias |-> N!Unnamed, level |-> Gathering(w, indexes, order, coalesced)]>>, p[2])] :
        w \in {"p", "w"}, indexes \in {<<>>, <<(<<"of">>)>>}, coalesced \in BOOLEAN,
        order \in {<<>>, <<Ascending("n")>>, <<Descending("id")>>},
        p \in {<<NoPredicate, NoPredicate>>,
               <<Compares("n", ">", I(1)), Compares(<<"p", "n">>, ">", I(1))>>,
               <<IsNullOf("n", FALSE), IsNullOf(<<"p", "n">>, FALSE)>>}}
=============================================================================
