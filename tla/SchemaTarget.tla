---------------------------- MODULE SchemaTarget ----------------------------
(***************************************************************************)
(* The statements that turn the database's schema into another one:        *)
(* schema.rs.  A target is [version, tables]; each of its tables is        *)
(* [definition, indexes, renamedFrom, renames], where renames has a former *)
(* name for each column, by position, and NoName and NoTable stand for     *)
(* nothing renamed.                                                        *)
(***************************************************************************)
EXTENDS Catalog

NoName == "no name"
NoTable == [qualifier |-> "", name |-> NoName]

\* A target as a page hands it over: only a text has a length, and a key column is NOT NULL
\* whatever the page says.
IsTarget(t) ==
  \A c \in Range(t.definition.columns) :
    c.type \in {"integer", "text", "json"} /\ (c.max > 0 => c.type = "text")
TableTarget(t) ==
  LET key == Range(t.definition.key)
  IN [t EXCEPT !.definition.columns =
        [i \in DOMAIN @ |-> IF @[i].name \in key THEN [@[i] EXCEPT !.nullable = FALSE] ELSE @[i]]]

-----------------------------------------------------------------------------
(* Which table and which columns of the database a target table takes over.*)

TargetNames(target) == {t.definition.name : t \in Range(target.tables)}

Existing(cat, target, t) ==
  IF HasTable(cat, t.definition.name) THEN t.definition.name
  ELSE IF t.renamedFrom \notin TargetNames(target) /\ HasTable(cat, t.renamedFrom)
  THEN t.renamedFrom
  ELSE NoTable

IsKept(cat, target, t) == Existing(cat, target, t) # NoTable
IsRenamed(cat, target, t) == Existing(cat, target, t) \notin {NoTable, t.definition.name}

\* The columns renamed, in the order of the target's: from names that it no longer declares.
ColumnRenames(columns, t) ==
  LET declared == Names(t.definition.columns)
      step(renames, i) ==
        LET old == t.renames[i]
            new == t.definition.columns[i].name
            now == (Names(columns) \ {r.from : r \in Range(renames)}) \cup {r.to : r \in Range(renames)}
        IN IF old = NoName \/ new \in now \/ old \in declared \/ old \notin now THEN renames
           ELSE Append(renames, [from |-> old, to |-> new])
  IN FoldLeft(step, <<>>, [i \in DOMAIN t.definition.columns |-> i])

RenamesIn(cat, target, t) ==
  IF IsKept(cat, target, t)
  THEN ColumnRenames(SchemaOf(cat, Existing(cat, target, t)).columns, t) ELSE <<>>

AfterRenames(renames, columns) ==
  [i \in DOMAIN columns |->
     IF \E r \in Range(renames) : r.from = columns[i]
     THEN (CHOOSE r \in Range(renames) : r.from = columns[i]).to ELSE columns[i]]

\* The columns that a kept table has once its columns are renamed.
ColumnsNow(cat, target, t) ==
  LET columns == SchemaOf(cat, Existing(cat, target, t)).columns
      names == AfterRenames(RenamesIn(cat, target, t), [i \in DOMAIN columns |-> columns[i].name])
  IN [i \in DOMAIN columns |-> [columns[i] EXCEPT !.name = names[i]]]

\* A foreign key of the database under the names its tables and columns are about to have.
NewName(cat, target, name) ==
  LET takers == SelectSeq(target.tables, LAMBDA t : IsRenamed(cat, target, t) /\ t.renamedFrom = name)
  IN IF takers = <<>> THEN name ELSE takers[1].definition.name
RenamesOf(cat, target, name) ==
  FlattenSeq([i \in DOMAIN target.tables |->
     IF target.tables[i].definition.name = name THEN RenamesIn(cat, target, target.tables[i]) ELSE <<>>])
RenamedKey(cat, target, t, key) ==
  LET references == NewName(cat, target, key.references)
  IN [key EXCEPT !.columns = AfterRenames(RenamesIn(cat, target, t), @),
                 !.referenced = AfterRenames(RenamesOf(cat, target, references), @),
                 !.references = references]

-----------------------------------------------------------------------------
(* The statements of each phase, for one table of the target.              *)

Alter(table, change) == [kind |-> "alter_table", table |-> table, change |-> change]
DropConstraintOf(key) ==
  [kind |-> "drop_constraint", name |-> key.name, ifExists |-> FALSE, cascade |-> FALSE]

RenameTables(cat, target, t) ==
  IF IsRenamed(cat, target, t)
  THEN <<Alter(t.renamedFrom, [kind |-> "rename_table", name |-> t.definition.name.name])>>
  ELSE <<>>

DropForeignKeys(cat, target, t) ==
  IF ~IsKept(cat, target, t) THEN <<>>
  ELSE LET gone == SelectSeq(SchemaOf(cat, Existing(cat, target, t)).foreign,
                     LAMBDA key : RenamedKey(cat, target, t, key) \notin Range(t.definition.foreign))
       IN [i \in DOMAIN gone |-> Alter(t.definition.name, DropConstraintOf(gone[i]))]

\* A mutant: an index is the same whether or not it is unique.
SameIndexByColumns(renames, wanted, held) ==
  wanted.name = held.name /\ wanted.columns = AfterRenames(renames, held.columns)

SameIndex(renames, wanted, held) ==
  /\ wanted.name = held.name /\ wanted.unique = held.unique
  /\ wanted.columns = AfterRenames(renames, held.columns)

DropIndexStatements(cat, target, t) ==
  LET held == IF IsKept(cat, target, t) THEN DefinitionsOn(cat, Existing(cat, target, t)) ELSE {}
      gone == {d \in held : \A wanted \in Range(t.indexes) :
                              ~SameIndex(RenamesIn(cat, target, t), wanted, d)}
  IN SetToSeq({[kind |-> "drop_index", name |-> d.name, ifExists |-> FALSE, cascade |-> FALSE] :
                 d \in gone})

RenameColumns(cat, target, t) ==
  LET renames == RenamesIn(cat, target, t)
  IN [i \in DOMAIN renames |->
        Alter(t.definition.name,
              [kind |-> "rename_column", from |-> renames[i].from, to |-> renames[i].to])]

\* What one column of the target asks of the column that the table has by its name.
ColumnChanges(table, held, wanted) ==
  LET change(differs, c) == IF differs THEN <<Alter(table, c)>> ELSE <<>>
  IN change(held.max # wanted.max, [kind |-> "restate_type", column |-> wanted.name,
                                    type |-> wanted.type, max |-> wanted.max])
     \o change(held.default # wanted.default,
               [kind |-> "set_default", column |-> wanted.name, default |-> wanted.default])
     \o change(held.nullable # wanted.nullable,
               [kind |-> "set_nullable", column |-> wanted.name, nullable |-> wanted.nullable])

AlterColumns(cat, target, drop, t) ==
  LET now == ColumnsNow(cat, target, t)
      wanted == t.definition.columns
      name == t.definition.name
      one(c) == LET held == SelectSeq(now, LAMBDA h : h.name = c.name)
                IN IF held = <<>>
                   THEN <<[kind |-> "add_column", table |-> name, column |-> c, ifNotExists |-> FALSE]>>
                   ELSE ColumnChanges(name, held[1], c)
      extra == SelectSeq(now, LAMBDA h : h.name \notin Names(wanted))
  IN IF ~IsKept(cat, target, t) THEN <<>>
     ELSE FlattenSeq([i \in DOMAIN wanted |-> one(wanted[i])])
          \o (IF ~drop THEN <<>>
              ELSE [i \in DOMAIN extra |->
                      Alter(name, [kind |-> "drop_column", column |-> extra[i].name,
                                   ifExists |-> FALSE, cascade |-> FALSE])])

CreateIndexStatements(cat, target, t) ==
  LET held == DefinitionsOn(cat, Existing(cat, target, t))
      missing == SelectSeq(t.indexes, LAMBDA wanted : \A d \in held :
                                         ~SameIndex(RenamesIn(cat, target, t), wanted, d))
  IN IF ~IsKept(cat, target, t) THEN <<>>
     ELSE [i \in DOMAIN missing |->
             [kind |-> "create_index", definition |-> missing[i], ifNotExists |-> FALSE]]

CreateTables(cat, target, t) ==
  IF IsKept(cat, target, t) THEN <<>>
  ELSE <<[kind |-> "create_table", schema |-> [t.definition EXCEPT !.foreign = <<>>],
          indexes |-> t.indexes, ifNotExists |-> FALSE]>>

AddForeignKeys(cat, target, t) ==
  LET held == IF ~IsKept(cat, target, t) THEN {}
              ELSE {RenamedKey(cat, target, t, key) :
                      key \in Range(SchemaOf(cat, Existing(cat, target, t)).foreign)}
      missing == SelectSeq(t.definition.foreign, LAMBDA key : key \notin held)
  IN [i \in DOMAIN missing |->
        Alter(t.definition.name, [kind |-> "add_foreign_key", key |-> missing[i]])]

DropTables(cat, target, drop) ==
  LET kept == {Existing(cat, target, t) : t \in Range(target.tables)}
  IN IF ~drop THEN <<>>
     ELSE SetToSeq({[kind |-> "drop_table", table |-> name, ifExists |-> FALSE, cascade |-> TRUE] :
                      name \in DOMAIN cat.tables \ kept})

-----------------------------------------------------------------------------
(* All of them, or a refusal.                                              *)

\* The target is a schema, and one that no statement would have to refuse outright.
TargetIsAccepted(cat, target) ==
  LET indexes == FlattenSeq([i \in DOMAIN target.tables |-> target.tables[i].indexes])
      names == [i \in DOMAIN target.tables |-> target.tables[i].definition.name]
      held(t) == Existing(cat, target, t)
  IN /\ target.version >= cat.version
     /\ IsInjective(names)
     /\ IsInjective([i \in DOMAIN indexes |-> indexes[i].name])
     /\ \A t \in Range(target.tables) :
          /\ IsTarget(t)
          /\ ValidateSchema(t.definition)
          /\ \A d \in Range(t.indexes) : ValidateIndex(d, t.definition)
          /\ IsKept(cat, target, t) =>
               /\ held(t).qualifier = t.definition.name.qualifier
               /\ AfterRenames(RenamesIn(cat, target, t), SchemaOf(cat, held(t)).key) = t.definition.key
               /\ \A h \in Range(ColumnsNow(cat, target, t)), c \in Range(t.definition.columns) :
                    h.name = c.name => h.type = c.type

SchemaStatements(cat, target, drop) ==
  LET each(Statements(_)) ==
        FlattenSeq([i \in DOMAIN target.tables |-> Statements(target.tables[i])])
      first(Statements(_), kept) ==
        each(LAMBDA t : IF IsKept(cat, target, t) = kept THEN Statements(t) ELSE <<>>)
  IN each(LAMBDA t : RenameTables(cat, target, t))
     \o each(LAMBDA t : DropForeignKeys(cat, target, t))
     \o DropTables(cat, target, drop)
     \o each(LAMBDA t : DropIndexStatements(cat, target, t))
     \o each(LAMBDA t : RenameColumns(cat, target, t))
     \o each(LAMBDA t : AlterColumns(cat, target, drop, t))
     \o each(LAMBDA t : CreateIndexStatements(cat, target, t))
     \o each(LAMBDA t : CreateTables(cat, target, t))
     \o first(LAMBDA t : AddForeignKeys(cat, target, t), FALSE)
     \o first(LAMBDA t : AddForeignKeys(cat, target, t), TRUE)
     \o (IF target.version = cat.version THEN <<>>
         ELSE <<[kind |-> "version", version |-> target.version]>>)

\* set_schema: the whole difference as one script.
RunSchema(cat, page, drop) ==
  LET target == [page EXCEPT !.tables = [i \in DOMAIN @ |-> TableTarget(@[i])]]
  IN IF TargetIsAccepted(cat, target) THEN ExecuteAll(cat, SchemaStatements(cat, target, drop))
     ELSE Refused

=============================================================================
