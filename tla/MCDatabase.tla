----------------------------- MODULE MCDatabase -----------------------------
(***************************************************************************)
(* A parent table a(id, u UNIQUE) and a child b(id, r), with the foreign   *)
(* keys a catalog may give b.                                              *)
(***************************************************************************)
EXTENDS Database

MCTables == {"a", "b"}
MCColumns == [a |-> {"id", "u"}, b |-> {"id", "r"}]
MCPrimaryKey == [a |-> <<"id">>, b |-> <<"id">>]
MCNotNull == [a |-> {"id"}, b |-> {"id"}]
MCDefault == [a |-> [id |-> Null, u |-> Null], b |-> [id |-> Null, r |-> 1]]
MCIndexes ==
    {[table |-> "a", columns |-> <<"u">>, unique |-> TRUE],
     [table |-> "b", columns |-> <<"r">>, unique |-> FALSE]}

A(id, u) == [id |-> id, u |-> u]
B(id, r) == [id |-> id, r |-> r]

Key(references, referenced, onDelete, onUpdate) ==
    [table |-> "b", columns |-> <<"r">>, references |-> references, referenced |-> <<referenced>>,
     onDelete |-> onDelete, onUpdate |-> onUpdate]

MCForeignKeyChoices ==
    {<<Key("a", "id", "cascade", "cascade")>>,
     <<Key("a", "id", "set null", "set default")>>,
     <<Key("a", "u", "no action", "cascade")>>,
     <<Key("a", "id", "restrict", "no action")>>,
     <<Key("b", "id", "cascade", "cascade")>>}

MCInitialContents ==
    {[a |-> {}, b |-> {}],
     [a |-> {A(1, 1), A(2, Null)}, b |-> {B(1, 1)}],
     [a |-> {A(1, 2), A(2, 1)}, b |-> {B(1, 1), B(2, 1)}]}

Value(v) == [kind |-> "value", value |-> v]
Add(c, v) == [kind |-> "add", column |-> c, value |-> v]
Excluded(c) == [kind |-> "excluded", column |-> c]
Is(c, v) == {[column |-> c, value |-> v]}

Insert(t, rows) ==
    [kind |-> "insert", table |-> t, rows |-> rows, conflict |-> "error", target |-> <<>>, set |-> <<>>]
InsertOnConflict(t, rows, conflict, target, set) ==
    [kind |-> "insert", table |-> t, rows |-> rows, conflict |-> conflict, target |-> target, set |-> set]
Update(t, set, where) == [kind |-> "update", table |-> t, set |-> set, where |-> where]
Delete(t, where) == [kind |-> "delete", table |-> t, where |-> where]

MCStatements ==
    {Insert("a", <<A(1, 1)>>),
     Insert("a", <<A(2, 1), A(1, Null)>>),
     InsertOnConflict("a", <<A(1, 2)>>, "update", <<"id">>, [u |-> Excluded("u")]),
     InsertOnConflict("a", <<A(3, 1), A(1, 3)>>, "update", <<"u">>, [u |-> Add("u", 1)]),
     InsertOnConflict("a", <<A(1, 1), A(3, 1)>>, "nothing", <<>>, <<>>),
     Update("a", [id |-> Add("id", 1)], {}),
     Update("a", [u |-> Value(1)], Is("id", 2)),
     Update("a", [id |-> Value(3)], Is("id", 2)),
     Update("a", [u |-> Value(Null)], Is("u", 1)),
     Delete("a", Is("id", 1)),
     Delete("a", {}),
     Insert("b", <<[id |-> 1]>>),
     InsertOnConflict("b", <<B(2, 2)>>, "update", <<"id">>, [r |-> Value(Null)]),
     Update("b", [r |-> Value(2)], Is("r", 1)),
     Update("b", [id |-> Add("id", 1)], {}),
     Delete("b", Is("id", 1))}

\* Two ways from a deleted row of a to one row of b, whose own rows cascade from it.
TwoWays ==
    LET From(c, references, onDelete) ==
            [table |-> "b", columns |-> <<c>>, references |-> references, referenced |-> <<"id">>,
             onDelete |-> onDelete, onUpdate |-> "no action"]
    IN  {<<From("x", "a", "set null"), From("z", "a", "cascade"), From("y", "b", "cascade")>>}
TwoWaysColumns == [a |-> {"id"}, b |-> {"id", "x", "y", "z"}]
TwoWaysDefault == [a |-> [id |-> Null], b |-> [c \in {"id", "x", "y", "z"} |-> Null]]
TwoWaysContents ==
    LET Row(id, x, y, z) == [id |-> id, x |-> x, y |-> y, z |-> z]
    IN  {[a |-> {[id |-> 1]}, b |-> {Row(1, 1, 2, Null), Row(2, Null, Null, 1), Row(3, Null, 1, Null)}]}
TwoWaysStatements == {Delete("a", Is("id", 1))}

MCScripts ==
    {<<Delete("b", {}), Insert("b", <<B(1, 1)>>)>>,
     <<Update("a", [u |-> Value(Null)], {}), Insert("a", <<A(2, 1), A(3, 2)>>)>>}
=============================================================================
