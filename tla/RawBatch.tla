------------------------------- MODULE RawBatch -------------------------------
(***************************************************************************)
(* The payload of a row chunk: EncodeRawPgBatch of src/codec/              *)
(* raw_batch_encoder.cpp, byte by byte, and the reader the format implies. *)
(*                                                                         *)
(* A row is a sequence of cells, a cell is Null or a sequence of bytes.    *)
(***************************************************************************)
EXTENDS Integers, Sequences

CONSTANT Null   \* the SQL NULL of a cell

Byte == 256
Bytes == 0..(Byte - 1)
INT_MAX == 2147483647   \* PQnfields, PQntuples and PQgetlength are ints

\* The values a cell can have.
Cell == {Null} \cup {c \in Seq(Bytes) : Len(c) <= INT_MAX}

kRawPgBatchMagic == 1112557394    \* 0x42504752
kRawPgBatchVersion == 1

\* A 32-bit number as four bytes, least significant first.
AppendU32(out, value) ==
    out \o << value % Byte, (value \div 256) % Byte,
             (value \div 65536) % Byte, (value \div 16777216) % Byte >>

\* One cell: a null flag, then the length and the bytes of a value.
CellBytes(cell) ==
    IF cell = Null THEN <<1>> ELSE AppendU32(<<0>>, Len(cell)) \o cell

\* Pieces one after the other.  (SequencesExt has it too, but brings along
\* modules that make every proof about this one slow.)
Flatten(pieces) ==
    LET upTo[k \in 0..Len(pieces)] == IF k = 0 THEN <<>> ELSE upTo[k - 1] \o pieces[k]
    IN  upTo[Len(pieces)]

\* Mutant of EncodeRawPgBatch: an empty value is taken for a NULL.
EncodeEmptyAsNull(rows, num_cols, row_begin, row_end) ==
    LET num_rows == row_end - row_begin
        header == AppendU32(AppendU32(AppendU32(AppendU32(<<>>,
                    kRawPgBatchMagic), kRawPgBatchVersion), num_rows), num_cols)
        cell(k) == rows[row_begin + 1 + ((k - 1) % num_rows)][1 + (k - 1) \div num_rows]
    IN  header \o Flatten([k \in 1..(num_rows * num_cols) |->
                                CellBytes(IF cell(k) = <<>> THEN Null ELSE cell(k))])

\* The rows row_begin .. row_end - 1 of a result (counted from 0), column after
\* column.
EncodeRawPgBatch(rows, num_cols, row_begin, row_end) ==
    LET num_rows == row_end - row_begin
        header == AppendU32(AppendU32(AppendU32(AppendU32(<<>>,
                    kRawPgBatchMagic), kRawPgBatchVersion), num_rows), num_cols)
        cell(k) == rows[row_begin + 1 + ((k - 1) % num_rows)][1 + (k - 1) \div num_rows]
    IN  header \o Flatten([k \in 1..(num_rows * num_cols) |-> CellBytes(cell(k))])

-----------------------------------------------------------------------------
(***************************************************************************)
(* Reading a payload back.  It uses nothing but the bytes.                 *)
(***************************************************************************)
ReadU32(bytes, at) ==
    bytes[at] + Byte * (bytes[at + 1] + Byte * (bytes[at + 2] + Byte * bytes[at + 3]))

\* The cell that begins at a byte, and the byte after it.
CellAt(bytes, at) ==
    IF bytes[at] = 1 THEN Null
    ELSE SubSeq(bytes, at + 5, at + 4 + ReadU32(bytes, at + 1))
CellEnd(bytes, at) == at + (IF bytes[at] = 1 THEN 1 ELSE 5 + ReadU32(bytes, at + 1))

\* The rows of a payload, cell k of it beginning at byte start[k].
DecodedRows(bytes) ==
    LET num_rows == ReadU32(bytes, 9)
        num_cols == ReadU32(bytes, 13)
        start[k \in 1..(num_rows * num_cols)] ==
            IF k = 1 THEN 17 ELSE CellEnd(bytes, start[k - 1])
    IN  [row \in 1..num_rows |->
            [col \in 1..num_cols |-> CellAt(bytes, start[(col - 1) * num_rows + row])]]
=============================================================================
