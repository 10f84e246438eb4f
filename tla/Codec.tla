-------------------------------- MODULE Codec --------------------------------
(***************************************************************************)
(* How values become the bytes of keys and records (paged_codec.rs).  A    *)
(* key is the concatenation of components that delimit themselves and      *)
(* compare as their values do; a record holds the columns outside the key  *)
(* up to the last that is not its default.  A character is one byte, which *)
(* UTF-8 makes sound, and integers take IntegerBytes bytes, eight in the   *)
(* code.                                                                   *)
(***************************************************************************)
EXTENDS Expressions

CONSTANTS
    IntegerBytes,    \* the bytes of an integer or a float in a key
    MaxKeyBytes      \* the longest key a tree holds

Base == 256
Power == [n \in 0..IntegerBytes |-> Base^n]
SignBit == Power[IntegerBytes] \div 2

\* A schema's columns in order, each with its name, type, default and whether it may be NULL,
\* and the names of its key.
ColumnOf(schema, name) ==
    schema.columns[CHOOSE i \in DOMAIN schema.columns : schema.columns[i].name = name]
NamesOf(schema) == [i \in DOMAIN schema.columns |-> schema.columns[i].name]
TypesOf(schema) == [name \in Range(NamesOf(schema)) |-> ColumnOf(schema, name).type]
TypeIn(schema, name) == ColumnOf(schema, name).type

\* Lexicographic order, a prefix first.
BytesLess(a, b) ==
    \/ IsStrictPrefix(a, b)
    \/ \E i \in DOMAIN a \cap DOMAIN b :
        a[i] < b[i] /\ \A j \in 1..(i - 1) : a[j] = b[j]

-----------------------------------------------------------------------------
\* Key components.

BigEndian(n) == [i \in 1..IntegerBytes |-> (n \div Power[IntegerBytes - i]) % Base]
FromBigEndian(bytes) ==
    FoldLeft(LAMBDA n, byte : n * Base + byte, 0, bytes)

\* The sign bit is turned over, so that negative integers come first.
IntegerComponent(n) == BigEndian(n + SignBit)

\* An IEEE float's bits, its sign above a magnitude that grows with it (external); a negative
\* one's are all turned over.
FloatMagnitude(f) == (4 * Abs(f[1])) \div f[2]
FloatComponent(f) ==
    BigEndian(IF f[1] < 0 THEN Power[IntegerBytes] - 1 - (SignBit + FloatMagnitude(f))
              ELSE SignBit + FloatMagnitude(f))

TextEscapedZero == 255
TextTerminator == 1

\* A zero is escaped, and a zero and a one end the text.
TextComponent(s) ==
    FlattenSeq([i \in DOMAIN s |-> IF s[i] = 0 THEN <<0, TextEscapedZero>> ELSE <<s[i]>>])
        \o <<0, TextTerminator>>

Component(type, v) ==
    CASE type = "bool" -> <<IF v.bool THEN 1 ELSE 0>>
      [] type = "int" -> IntegerComponent(v.int)
      [] type = "float" -> FloatComponent(AsFraction(v))
      [] type = "text" -> TextComponent(v.text)

\* Where the component that starts after `offset' bytes ends; 0 if the key is corrupt.
ComponentEnd(key, offset, type) ==
    LET zeros == {i \in (offset + 1)..(Len(key) - 1) : key[i] = 0 /\ key[i + 1] = TextTerminator}
    IN  CASE type = "bool" -> offset + 1
          [] type \in {"int", "float"} -> offset + IntegerBytes
          [] type = "text" -> IF zeros = {} THEN 0
                              ELSE 1 + CHOOSE i \in zeros : \A j \in zeros : i <= j

Unescape(bytes) ==
    LET kept == SelectSeq([i \in DOMAIN bytes |-> i],
                          LAMBDA i : i = 1 \/ ~(bytes[i] = TextEscapedZero /\ bytes[i - 1] = 0))
    IN  [n \in DOMAIN kept |-> bytes[kept[n]]]

DecodeComponent(bytes, type) ==
    CASE type = "bool" -> Bool(bytes = <<1>>)
      [] type = "int" -> Integer(FromBigEndian(bytes) - SignBit)
      [] type = "float" ->
            LET bits == FromBigEndian(bytes)
            IN  IF bits >= SignBit THEN Float(bits - SignBit, 4)
                ELSE Float(-(SignBit - 1 - bits), 4)
      [] type = "text" -> Text(Unescape(SubSeq(bytes, 1, Len(bytes) - 2)))

-----------------------------------------------------------------------------
\* Tuples.

NoKey == <<>>
TooLong == <<Base>>

Sized(key) == IF Len(key) > MaxKeyBytes THEN TooLong ELSE key

\* The key of a tuple of columns.  A NULL among them gives none, which a primary key refuses and
\* an index leaves out; what comes before it, or the whole, fails if it is longer than any key.
EncodeColumns(schema, columns, row) ==
    LET nulls == {i \in DOMAIN columns : IsNull(row[columns[i]])}
        before == IF nulls = {} THEN Len(columns) ELSE Min(nulls) - 1
        key == FlattenSeq([i \in 1..before |-> Component(TypeIn(schema, columns[i]), row[columns[i]])])
    IN  IF Sized(key) = TooLong \/ nulls = {} THEN Sized(key) ELSE NoKey

EncodePrimaryKey(schema, row) == EncodeColumns(schema, schema.key, row)

\* An index entry is its tuple and the primary key after it.
IndexEntry(schema, columns, row) ==
    LET tuple == EncodeColumns(schema, columns, row)
    IN  IF tuple \in {NoKey, TooLong} THEN tuple ELSE Sized(tuple \o EncodePrimaryKey(schema, row))

\* Where each component of a key of the types ends.
Ends(key, types) ==
    LET end[n \in 0..Len(types)] == IF n = 0 THEN 0 ELSE ComponentEnd(key, end[n - 1], types[n])
    IN  end

ComponentAt(key, types, n) ==
    DecodeComponent(SubSeq(key, Ends(key, types)[n - 1] + 1, Ends(key, types)[n]), types[n])

EntryMatchesPrefix(entry, prefix) == Len(entry) > Len(prefix) /\ IsPrefix(prefix, entry)

\* The primary key after the indexed components, found by their framing.
IndexEntryPrimaryKey(entry, types) == SubSeq(entry, Ends(entry, types)[Len(types)] + 1, Len(entry))

\* A column an entry holds: the first component of its name, indexed or of the key.
EntryNames(schema, columns) == columns \o schema.key
Covers(schema, columns, names) == names \subseteq Range(EntryNames(schema, columns))
EntryColumn(schema, columns, entry, name) ==
    LET names == EntryNames(schema, columns)
        types == [i \in DOMAIN names |-> TypeIn(schema, names[i])]
        n == CHOOSE i \in DOMAIN names : names[i] = name /\ \A j \in 1..(i - 1) : names[j] # name
    IN  ComponentAt(entry, types, n)

\* The bounds of a range of keys: a value's component, or the components a prefix begins.
KeyBound(type, v) == Component(type, v)
PrefixBounds(s) ==
    LET whole == TextComponent(s)
        lower == SubSeq(whole, 1, Len(whole) - 2)
    IN  [lower |-> lower, upper |-> Append(lower, 255)]

-----------------------------------------------------------------------------
\* Records.

\* The shortest little-endian bytes whose sign extension is the integer; zero needs none.
IntegerLength(n) ==
    IF n = 0 THEN 0
    ELSE CHOOSE l \in 1..IntegerBytes :
            /\ -(Power[l] \div 2) <= n /\ n < Power[l] \div 2
            /\ l = 1 \/ ~(-(Power[l - 1] \div 2) <= n /\ n < Power[l - 1] \div 2)

LittleEndian(n, length) ==
    [i \in 1..length |-> ((n + Power[IntegerBytes]) \div Power[i - 1]) % Base]

IntegerValue(bytes) ==
    LET raw == FromBigEndian(Reverse(bytes))
    IN  IF bytes # <<>> /\ raw >= Power[Len(bytes)] \div 2 THEN raw - Power[Len(bytes)] ELSE raw

EncodeValue(type, v) ==
    CASE type = "bool" -> <<IF v.bool THEN 1 ELSE 0>>
      [] type = "int" -> LittleEndian(v.int, IntegerLength(v.int))
      [] type = "float" -> AsFraction(v)
      [] type = "text" -> v.text

DecodeValue(type, bytes) ==
    CASE type = "bool" -> Bool(bytes = <<1>>)
      [] type = "int" -> Integer(IntegerValue(bytes))
      [] type = "float" -> [float |-> bytes]
      [] type = "text" -> Text(bytes)

\* The columns a record may hold, in order.
StoredColumns(schema) == SelectSeq(schema.columns, LAMBDA c : ~Contains(schema.key, c.name))

\* A column's encoded value, or that it is NULL.
Encoded(column, v) ==
    IF IsNull(v) THEN NullValue ELSE [bytes |-> EncodeValue(column.type, v)]

\* Mutant: a trailing NULL is left out whatever the column's default.
IsDefaultOrNull(column, part) == IsNull(part) \/ part = Encoded(column, column.default)

\* Encoded bytes decide what is a default.
IsDefault(column, part) == part = Encoded(column, column.default)

\* The parts in order: how many are kept, which of them are NULL, where each ends, the bytes.
EncodeStoredValues(schema, parts) ==
    LET columns == StoredColumns(schema)
        count == CHOOSE n \in 0..Len(columns) :
                    /\ \A i \in (n + 1)..Len(columns) : IsDefault(columns[i], parts[i])
                    /\ n > 0 => ~IsDefault(columns[n], parts[n])
        bytes == [i \in 1..count |-> IF IsNull(parts[i]) THEN <<>> ELSE parts[i].bytes]
        end[i \in 0..count] == IF i = 0 THEN 0 ELSE end[i - 1] + Len(bytes[i])
    IN  [count |-> count,
         nulls |-> {i \in 1..count : IsNull(parts[i])},
         ends |-> [i \in 1..count |-> end[i]],
         data |-> FlattenSeq(bytes)]

EncodeRow(schema, row) ==
    LET columns == StoredColumns(schema)
    IN  EncodeStoredValues(schema, [i \in DOMAIN columns |-> Encoded(columns[i], row[columns[i].name])])

\* A column's bytes within a record that keeps it.
StoredBytes(record, i) ==
    SubSeq(record.data, (IF i = 1 THEN 0 ELSE record.ends[i - 1]) + 1,
           IF i = record.count THEN Len(record.data) ELSE record.ends[i])

\* A column the record omits holds its default.
StoredColumn(schema, record, i) ==
    LET column == StoredColumns(schema)[i]
    IN  IF i > record.count THEN Normalized(column.default, column.type)
        ELSE IF i \in record.nulls THEN NullValue
        ELSE DecodeValue(column.type, StoredBytes(record, i))

PositionOf(schema, name) ==
    CHOOSE i \in DOMAIN StoredColumns(schema) : StoredColumns(schema)[i].name = name

\* A stored entry's column: from its key, or from its record.
RecordColumn(schema, key, record, name) ==
    IF Contains(schema.key, name)
    THEN ComponentAt(key, [i \in DOMAIN schema.key |-> TypeIn(schema, schema.key[i])],
                     CHOOSE i \in DOMAIN schema.key : schema.key[i] = name)
    ELSE StoredColumn(schema, record, PositionOf(schema, name))

DecodeRow(schema, key, record) ==
    [name \in Range(NamesOf(schema)) |-> RecordColumn(schema, key, record, name)]

\* A record with some columns assigned: the others keep their bytes, or the default they omit.
EncodeUpdatedRecord(schema, record, assigned) ==
    LET columns == StoredColumns(schema)
        Kept(i) == IF i > record.count THEN Encoded(columns[i], columns[i].default)
                   ELSE IF i \in record.nulls THEN NullValue
                   ELSE [bytes |-> StoredBytes(record, i)]
    IN  EncodeStoredValues(schema, [i \in DOMAIN columns |->
            IF columns[i].name \in DOMAIN assigned
            THEN Encoded(columns[i], assigned[columns[i].name]) ELSE Kept(i)])

\* An index entry made from a stored entry, whose key is the row's primary key.
RecordIndexEntry(schema, columns, key, record) ==
    LET row == [i \in Range(columns) |-> RecordColumn(schema, key, record, i)]
        tuple == EncodeColumns(schema, columns, row)
    IN  IF tuple \in {NoKey, TooLong} THEN tuple ELSE Sized(tuple \o key)
=============================================================================
