---------------------------- MODULE MCSchemaStore ----------------------------
(***************************************************************************)
(* A table `a` with a VARCHAR that has a default and a unique nullable     *)
(* column, and a table `b` that references it by that column or by its     *)
(* primary key; the statements that could break one of them, and schemas   *)
(* that rename, widen, narrow, drop and add.                               *)
(***************************************************************************)
EXTENDS SchemaStore

Named(n) == [qualifier |-> "", name |-> n]
Public(n) == [qualifier |-> "public", name |-> n]

Id == Column("id", "integer", FALSE, NoDefault, 0)
X(default) == Column("x", "integer", TRUE, default, 0)
Y(default, max) == Column("y", "text", FALSE, default, max)
Short == Text(1, 1)
Long == Text(2, 2)

Table(name, columns, foreign) ==
  [name |-> name, key |-> <<"id">>, columns |-> columns, foreign |-> foreign]
Index(name, table, columns, unique) ==
  [name |-> Named(name), table |-> table, columns |-> columns, unique |-> unique]
Key(name, columns, references, referenced) ==
  [name |-> Named(name), columns |-> columns, references |-> references,
   referenced |-> referenced, action |-> "cascade"]

Create(schema, indexes) ==
  [kind |-> "create_table", schema |-> schema, indexes |-> indexes, ifNotExists |-> FALSE]
Insert(table, row) == [kind |-> "insert", table |-> table, row |-> row]
Two == [id |-> Integer(2), y |-> Short]

TableA == Table(Named("a"), <<Id, X(NoDefault), Y(Long, 2)>>, <<>>)
UniqueX == Index("ux", Named("a"), <<"x">>, TRUE)
TableB(foreign) == Table(Named("b"), <<Id, Column("r", "integer", TRUE, NoDefault, 0)>>, foreign)
ByX == Key("fk", <<"r">>, Public("a"), <<"x">>)
ById == Key("fk", <<"r">>, Named("a"), <<>>)
Tree == Table(Named("a"), <<Id, X(NoDefault), Column("p", "integer", TRUE, Null, 0)>>,
              <<Key("up", <<"p">>, Named("a"), <<"id">>)>>)

Seeds ==
  {<<Create(TableA, <<UniqueX>>), Insert(Named("a"), [id |-> Integer(1), x |-> Integer(1)]),
     Insert(Named("a"), Two), Create(TableB(<<ByX>>), <<>>),
     Insert(Named("b"), [id |-> Integer(1), r |-> Integer(1)])>>,
   <<Create(TableA, <<>>), Insert(Named("a"), [id |-> Integer(1), x |-> Integer(1)]),
     Insert(Named("a"), [id |-> Integer(2), x |-> Integer(1), y |-> Short]),
     Create(TableB(<<ById>>), <<>>), Insert(Named("b"), [id |-> Integer(1), r |-> Integer(2)])>>,
   <<Create(Tree, <<>>), Insert(Named("a"), [id |-> Integer(1), p |-> Integer(1)])>>}

On(table, change) == [kind |-> "alter_table", table |-> Named(table), change |-> change]
Columned(kind, column, field, value) ==
  [f \in {"kind", "column", field} |-> IF f = "kind" THEN kind ELSE IF f = "column" THEN column ELSE value]

TableChanges ==
  {[kind |-> "disable_row_security"],
   [kind |-> "rename_table", name |-> "c"], [kind |-> "rename_table", name |-> "b"],
   [kind |-> "rename_column", from |-> "x", to |-> "w"],
   [kind |-> "rename_column", from |-> "id", to |-> "key"],
   [kind |-> "rename_column", from |-> "x", to |-> "y"],
   [kind |-> "add_foreign_key", key |-> Key("own", <<"x">>, Named("a"), <<"id">>)]}
  \cup {[kind |-> "drop_column", column |-> c, ifExists |-> e, cascade |-> e] :
          c \in {"x", "y", "id"}, e \in BOOLEAN}
  \cup {[kind |-> "drop_constraint", name |-> Named(n), ifExists |-> e, cascade |-> e] :
          n \in {"ux", "up"}, e \in BOOLEAN}
  \cup {Columned("set_default", "y", "default", v) : v \in {NoDefault, Short}}
  \cup {Columned("set_default", "x", "default", v) : v \in {Integer(1)}}
  \cup {Columned("set_nullable", "x", "nullable", n) : n \in BOOLEAN}
  \cup {[kind |-> "restate_type", column |-> "y", type |-> t, max |-> m] :
          t \in {"text", "integer"}, m \in {0, 1, 2}}

Added(default, nullable) ==
  [kind |-> "add_column", table |-> Named("a"), column |-> Column("z", "integer", nullable, default, 0),
   ifNotExists |-> nullable]

Statements ==
  {On("a", change) : change \in TableChanges}
  \cup {On("b", [kind |-> "add_foreign_key", key |-> Key("more", <<"r">>, Named("a"), <<"id">>)]),
        On("b", [kind |-> "drop_constraint", name |-> Named("fk"), ifExists |-> FALSE, cascade |-> FALSE])}
  \cup {Added(NoDefault, TRUE), Added(Integer(1), FALSE), Added(NoDefault, FALSE)}
  \cup {[kind |-> "create_index", definition |-> Index(n, Named("a"), <<"x">>, u), ifNotExists |-> ~u] :
          n \in {"ux"}, u \in BOOLEAN}
  \cup {[kind |-> "create_index", definition |-> Index("uxy", Named("a"), <<"x", "y">>, TRUE),
         ifNotExists |-> FALSE]}
  \cup {[kind |-> "drop_index", name |-> Named("ux"), ifExists |-> e, cascade |-> e] : e \in BOOLEAN}
  \cup {[kind |-> "drop_table", table |-> Named(n), ifExists |-> e, cascade |-> e] :
          n \in {"a", "b"}, e \in BOOLEAN}
  \cup {Create(TableA, <<UniqueX>>), Insert(Named("a"), [id |-> Integer(3), x |-> Integer(1)]),
        Insert(Named("a"), [id |-> Integer(3), x |-> Integer(3)]),
        Insert(Named("b"), [id |-> Integer(2), r |-> Integer(2)])}

MCScripts ==
  Seeds \cup {<<s>> : s \in Statements}
    \cup {<<On("a", [kind |-> "rename_table", name |-> "c"]), Create(TableA, <<>>)>>,
          <<Create(Table(Named("d"), <<Id>>, <<>>), <<>>),
            On("a", [kind |-> "drop_column", column |-> "id", ifExists |-> FALSE, cascade |-> FALSE])>>}

Wanted(definition, indexes, renamedFrom, renames) ==
  [definition |-> definition, indexes |-> indexes, renamedFrom |-> renamedFrom, renames |-> renames]
None(n) == [i \in 1..n |-> NoName]

MCTargets ==
  {\* the first seed
   [version |-> 1, tables |->
      <<Wanted(TableA, <<UniqueX>>, NoTable, None(3)),
        Wanted(TableB(<<[ByX EXCEPT !.references = Named("a")]>>), <<>>, NoTable, None(2))>>],
   \* a renamed table, a renamed column under an index and a key, a shorter default and a new column
   [version |-> 2, tables |->
      <<Wanted(Table(Named("c"), <<Id, [X(Null) EXCEPT !.name = "w"], Y(Short, 2),
                                   Column("z", "integer", FALSE, Integer(1), 0)>>, <<>>),
               <<Index("ux", Named("c"), <<"w">>, TRUE)>>, Named("a"), <<NoName, "x", NoName, NoName>>),
        Wanted(TableB(<<Key("fk", <<"r">>, Named("c"), <<"w">>)>>), <<>>, NoTable, None(2))>>],
   \* an index no longer unique, no y, and no b
   [version |-> 2, tables |->
      <<Wanted(Table(Named("a"), <<Id, X(NoDefault)>>, <<>>),
               <<[UniqueX EXCEPT !.unique = FALSE]>>, NoTable, None(2))>>],
   \* tables that reference each other, a primary key renamed
   [version |-> 1, tables |->
      <<Wanted(Table(Named("b"), <<[Id EXCEPT !.nullable = TRUE], Column("r", "integer", TRUE, NoDefault, 0)>>,
                     <<Key("fk", <<"r">>, Named("a"), <<"id">>)>>), <<>>, NoTable, None(2)),
        Wanted(Table(Named("a"), <<Id, X(NoDefault), Y(NoDefault, 1)>>,
                     <<Key("back", <<"x">>, Named("b"), <<"id">>)>>), <<>>, NoTable, None(3))>>]}

=============================================================================
