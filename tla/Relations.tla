------------------------------ MODULE Relations ------------------------------
(***************************************************************************)
(* The relational vocabulary of the engine: tables of rows under a schema, *)
(* and the constraints a schema states.  A row is a function from its      *)
(* table's columns to values.  A stored value is an integer or Null, so    *)
(* that keys have the order their encoding gives them; the text, floats    *)
(* and JSON of the program are told apart by nothing that is stated here.  *)
(*                                                                         *)
(* The catalog itself (tables, columns, indexes) is a constant: no         *)
(* statement inside a transaction changes it.                              *)
(***************************************************************************)
EXTENDS Integers, Sequences, FiniteSets, SequencesExt, FiniteSetsExt

CONSTANTS
    Null,        \* the SQL NULL
    NoRow,       \* the absence of a row under a key
    Tables,      \* names of the tables
    Columns,     \* [Tables -> set of column names]
    PrimaryKey,  \* [Tables -> sequence of columns]
    NotNull,     \* [Tables -> columns declared NOT NULL, the key's included]
    Default,     \* [Tables -> [column -> its DEFAULT, or Null]]
    Indexes      \* set of [table, columns: sequence, unique: BOOLEAN]

Values == Int \cup {Null}
Rows(t) == [Columns[t] -> Values]

ASSUME CatalogAssumption ==
    /\ Null \notin Int
    /\ IsFiniteSet(Tables)
    /\ \A t \in Tables :
        /\ PrimaryKey[t] \in Seq(Columns[t])
        /\ \A i, j \in DOMAIN PrimaryKey[t] : PrimaryKey[t][i] = PrimaryKey[t][j] => i = j
        /\ Range(PrimaryKey[t]) \subseteq NotNull[t] /\ NotNull[t] \subseteq Columns[t]
        /\ Default[t] \in Rows(t)
        /\ NoRow \notin Rows(t) /\ NoRow \notin [1..Len(PrimaryKey[t]) -> Int]
    /\ \A x \in Indexes : x.table \in Tables /\ x.columns \in Seq(Columns[x.table])

(***************************************************************************)
(* A foreign key: `columns' of `table' hold the values some row of         *)
(* `references' holds in `referenced'.                                     *)
(***************************************************************************)

\* A row's values in a sequence of columns, in that order.
Project(row, columns) == [i \in DOMAIN columns |-> row[columns[i]]]

\* A foreign key and an index both ignore a row with a NULL among their columns.
HasNull(tuple) == \E i \in DOMAIN tuple : tuple[i] = Null

\* The primary key of a row, which stands for its encoded key.
KeyOf(t, row) == Project(row, PrimaryKey[t])

\* Encoded keys compare as their tuples do, column by column.
KeyLess(a, b) ==
    \E i \in DOMAIN a : /\ a[i] < b[i]
                        /\ \A j \in 1..(i - 1) : a[j] = b[j]

\* The members of a finite set in an order, given by what comes before each of them.
Ranked(before) ==
    [n \in 1..Cardinality(DOMAIN before) |->
        CHOOSE x \in DOMAIN before : Cardinality(before[x]) = n - 1]

InKeyOrder(keys) == Ranked([k \in keys |-> {j \in keys : KeyLess(j, k)}])

\* The elements of a sequence at some of its positions, in the order they have in it.
Ascending(positions) == Ranked([i \in positions |-> {j \in positions : j < i}])
Picked(seq, positions) ==
    [n \in 1..Cardinality(positions) |-> seq[Ascending(positions)[n]]]

TableIndexes(t) == {x \in Indexes : x.table = t}
UniqueIndexes(t) == {x \in TableIndexes(t) : x.unique}

SameColumns(a, b) == Len(a) = Len(b) /\ Range(a) \subseteq Range(b)

\* The values a row must have to be stored at all.
RowIsValid(t, row) == \A c \in NotNull[t] : row[c] # Null

(***************************************************************************)
(* The parts of a statement: the equalities of its predicate, the rows it  *)
(* names values for and the expressions it assigns.                        *)
(***************************************************************************)
Matches(row, where) == \A w \in where : row[w.column] = w.value

\* A row as it is stored: unnamed columns take their defaults.
NormalizeRow(t, row) ==
    [c \in Columns[t] |-> IF c \in DOMAIN row THEN row[c] ELSE Default[t][c]]

\* An assignment's value, from the row it updates and, on a conflict, the proposed one.
Assigned(t, c, e, row, excluded) ==
    CASE e.kind = "value" -> e.value
      [] e.kind = "default" -> Default[t][c]
      [] e.kind = "excluded" -> excluded[e.column]
      [] e.kind = "add" -> IF row[e.column] = Null THEN Null ELSE row[e.column] + e.value

Updated(t, set, row, excluded) ==
    [c \in Columns[t] |-> IF c \in DOMAIN set THEN Assigned(t, c, set[c], row, excluded)
                          ELSE row[c]]

(***************************************************************************)
(* Contents: for each table, the set of its rows.                          *)
(***************************************************************************)
KeysAreUnique(contents) ==
    \A t \in Tables : \A r, q \in contents[t] : KeyOf(t, r) = KeyOf(t, q) => r = q

UniqueHolds(contents) ==
    \A x \in Indexes : x.unique =>
        \A r, q \in contents[x.table] :
            (r # q /\ Project(r, x.columns) = Project(q, x.columns))
                => HasNull(Project(r, x.columns))

ReferencesHold(contents, foreign) ==
    \A k \in foreign : \A r \in contents[k.table] :
        LET v == Project(r, k.columns)
        IN  HasNull(v) \/ \E p \in contents[k.references] : Project(p, k.referenced) = v

ConstraintsHold(contents, foreign) ==
    /\ KeysAreUnique(contents)
    /\ UniqueHolds(contents)
    /\ ReferencesHold(contents, foreign)
    /\ \A t \in Tables : \A r \in contents[t] : RowIsValid(t, r)
=============================================================================
