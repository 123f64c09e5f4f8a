----------------------------- MODULE FieldCodec -----------------------------
(***************************************************************************)
(* How the fields of a signal group are laid out in registers              *)
(* (src/data_conversion.rs, src/workers/modbus/parsing.rs).  A register is *)
(* a word of two bytes; a field takes one, two or four registers.  A byte  *)
(* takes the values below ByteBase, 256 in the code: with a small even     *)
(* base the widths overflow at small numbers.  The floating point types    *)
(* stand for their bit patterns, rounding is left out.                     *)
(***************************************************************************)
EXTENDS Integers, Sequences, FiniteSetsExt

CONSTANTS
    ByteBase,   \* how many values a byte takes
    NotANumber  \* a value of a request that is no number

ASSUME CodecAssumption == ByteBase \in {n \in Nat : n >= 2 /\ n % 2 = 0}

Byte == 0..(ByteBase - 1)
Word == 0..(ByteBase * ByteBase - 1)

DataType == {"Bool", "U16", "I16", "U32", "I32", "F32", "F64"}
ByteOrder == {"BigEndian", "LittleEndian", "LittleEndianByteSwap", "MidBig"}

ByteCount(type) ==
    CASE type = "Bool" -> 1
      [] type \in {"U16", "I16"} -> 2
      [] type \in {"U32", "I32", "F32"} -> 4
      [] type = "F64" -> 8

RequiredRegisters(type) ==
    CASE type \in {"Bool", "U16", "I16"} -> 1
      [] type \in {"U32", "I32", "F32"} -> 2
      [] type = "F64" -> 4

Reversed(bytes) == [i \in 1..Len(bytes) |-> bytes[Len(bytes) + 1 - i]]

\* The two-byte words of bytes in reverse order, as MidBig is documented.
WordsReversed(bytes) ==
    [i \in 1..Len(bytes) |->
        bytes[IF i % 2 = 1 THEN Len(bytes) - i ELSE Len(bytes) - i + 2]]

\* The bytes of each word swapped; a last single byte stays.
BytesSwapped(bytes) ==
    [i \in 1..Len(bytes) |->
        bytes[IF i % 2 = 0 THEN i - 1 ELSE IF i < Len(bytes) THEN i + 1 ELSE i]]

(* Definitions named ...Deviation are errors the code could plausibly have  *)
(* had.  They occur in no specification; substituted for the definition     *)
(* that follows them they show which property notices the error.            *)

\* The two mixed orders taken for each other: what is written is still read
\* back.
ReorderMixedUpDeviation(bytes, order) ==
    CASE order = "BigEndian" -> bytes
      [] order = "LittleEndian" -> Reversed(bytes)
      [] order = "LittleEndianByteSwap" -> BytesSwapped(bytes)
      [] order = "MidBig" ->
            IF Len(bytes) \in {4, 8} THEN WordsReversed(bytes) ELSE bytes

\* convert_byte_order
Reorder(bytes, order) ==
    CASE order = "BigEndian" -> bytes
      [] order = "LittleEndian" -> Reversed(bytes)
      [] order = "LittleEndianByteSwap" ->
            IF Len(bytes) \in {4, 8} THEN WordsReversed(bytes) ELSE bytes
      [] order = "MidBig" -> BytesSwapped(bytes)

-----------------------------------------------------------------------------
\* Numbers and bytes.

\* How many values n bytes take; no type has more than eight of them.
Span(n) ==
    LET b == ByteBase
    IN  CASE n = 0 -> 1
          [] n = 1 -> b
          [] n = 2 -> b * b
          [] n = 3 -> b * b * b
          [] n = 4 -> b * b * b * b
          [] n = 5 -> b * b * b * b * b
          [] n = 6 -> b * b * b * b * b * b
          [] n = 7 -> b * b * b * b * b * b * b
          [] n = 8 -> b * b * b * b * b * b * b * b

Signed(type) == type \in {"I16", "I32"}

Smallest(type) == IF Signed(type) THEN -(Span(ByteCount(type)) \div 2) ELSE 0
Largest(type) ==
    IF Signed(type) THEN (Span(ByteCount(type)) \div 2) - 1 ELSE Span(ByteCount(type)) - 1

\* The cast of a number to an integer type: it saturates.
Saturated(number, type) ==
    IF number < Smallest(type) THEN Smallest(type)
    ELSE IF number > Largest(type) THEN Largest(type)
    ELSE number

Digits(number, n) == [i \in 1..n |-> (number \div Span(n - i)) % ByteBase]

\* The bytes of a negative number are those of its two's complement.
ToBytes(number, type, order) ==
    LET canonical == IF type = "Bool"
                     THEN <<IF number # 0 THEN 1 ELSE 0>>
                     ELSE Digits(Saturated(number, type) % Span(ByteCount(type)),
                                 ByteCount(type))
    IN  Reorder(canonical, order)

\* The number of one, two, four or eight bytes, the highest of them first.
Two(bytes, i) == bytes[i] * ByteBase + bytes[i + 1]
Four(bytes, i) == Two(bytes, i) * Span(2) + Two(bytes, i + 2)

Unsigned(bytes) ==
    CASE Len(bytes) = 1 -> bytes[1]
      [] Len(bytes) = 2 -> Two(bytes, 1)
      [] Len(bytes) = 4 -> Four(bytes, 1)
      [] Len(bytes) = 8 -> Four(bytes, 1) * Span(4) + Four(bytes, 5)

FromBytes(bytes, type, order) ==
    LET ordered == Reorder(bytes, order)
        pattern == Unsigned(ordered)
    IN  CASE type = "Bool" -> IF ordered[1] # 0 THEN 1 ELSE 0
          [] Signed(type) /\ pattern > Largest(type) -> pattern - Span(ByteCount(type))
          [] OTHER -> pattern

-----------------------------------------------------------------------------
\* Bytes and registers.

\* bytes_to_registers: a last single byte becomes the value of its register.
WordsOf(bytes) ==
    [j \in 1..((Len(bytes) + 1) \div 2) |->
        IF 2 * j <= Len(bytes)
        THEN bytes[2 * j - 1] * ByteBase + bytes[2 * j]
        ELSE bytes[2 * j - 1]]

\* A single byte is taken from the high half of its register.
BytesAtHighDeviation(words, offset, count) ==
    [i \in 1..count |->
        LET word == words[offset + ((i + 1) \div 2)]
        IN  IF i % 2 = 1 THEN word \div ByteBase ELSE word % ByteBase]

\* extract_bytes_from_registers: a single byte is the low half of its register.
BytesAt(words, offset, count) ==
    [i \in 1..count |->
        LET word == words[offset + ((i + 1) \div 2)]
        IN  IF count > 1 /\ i % 2 = 1 THEN word \div ByteBase ELSE word % ByteBase]

-----------------------------------------------------------------------------
\* A layout is a sequence of fields [name, type, offset] in the order in which
\* their values are encoded, that of their names; data maps names to numbers.

Names(fields) == {fields[k].name : k \in DOMAIN fields}
EndOffset(field) == field.offset + RequiredRegisters(field.type)

Covers(field, j) == field.offset < j /\ j <= EndOffset(field)

\* encode_fields_to_registers succeeds: all names are known, all values are
\* numbers and all fields fit.
Encodable(data, fields, count) ==
    /\ DOMAIN data \subseteq Names(fields)
    /\ \A name \in DOMAIN data : data[name] # NotANumber
    /\ \A k \in DOMAIN fields :
          fields[k].name \in DOMAIN data => EndOffset(fields[k]) <= count

\* One register more than the group has.
EncodeOneMoreDeviation(data, fields, count, order) ==
    [j \in 1..(count + 1) |->
        LET given == {k \in DOMAIN fields :
                        fields[k].name \in DOMAIN data /\ Covers(fields[k], j)}
            field == fields[Max(given)]
        IN  IF given = {} THEN 0
            ELSE WordsOf(ToBytes(data[field.name], field.type, order))[j - field.offset]]

\* Registers that no field covers are written as zero; where fields overlap
\* the last one encoded remains.
Encode(data, fields, count, order) ==
    [j \in 1..count |->
        LET given == {k \in DOMAIN fields :
                        fields[k].name \in DOMAIN data /\ Covers(fields[k], j)}
            field == fields[Max(given)]
        IN  IF given = {} THEN 0
            ELSE WordsOf(ToBytes(data[field.name], field.type, order))[j - field.offset]]

\* parse_signal_group_fields: fields that do not fit are skipped.
Parse(words, fields, order) ==
    LET fitting == {k \in DOMAIN fields : EndOffset(fields[k]) <= Len(words)}
    IN  [name \in {fields[k].name : k \in fitting} |->
            LET k == CHOOSE k \in fitting : fields[k].name = name
            IN  FromBytes(BytesAt(words, fields[k].offset, ByteCount(fields[k].type)),
                          fields[k].type, order)]
=============================================================================
