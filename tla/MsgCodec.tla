------------------------------ MODULE MsgCodec ------------------------------
(* MsgWriter and MsgReader: the content of a message to or from a CLB is    *)
(* written value by value, high byte first, and read back in the same order. *)
(* The size of a byte is a parameter, so that values at the ends of the      *)
(* types' ranges, two's complement included, are within reach of TLC.        *)
EXTENDS Integers, Sequences, SequencesExt

CONSTANTS Base,     \* 256 in the code
          Items,    \* values to write: [type, value]
          MaxItems  \* bound: values in a message

VARIABLES written, \* the values written, in order
          data,    \* data_ of the writer, then of the reader
          it,      \* the reader's it_
          got,     \* the values read
          phase    \* "write", "read" or, readString having thrown, "thrown"

vars == <<written, data, it, got, phase>>

(* --- MsgWriter: every value as its lowest bytes, whatever its range ------- *)
Bytes(b, n) == [i \in 1 .. n |-> (b \div Base^(n - i)) % Base]

writeI8(b) == Bytes(b, 1)
writeU8(b) == Bytes(b, 1)
writeI16(b) == Bytes(b, 2)
writeU16(b) == Bytes(b, 2)
writeI32(b) == Bytes(b, 4)
writeU32(b) == Bytes(b, 4)
writeI64(b) == Bytes(b, 8)
writeU64(b) == Bytes(b, 8)
writeBoolean(b) == Bytes(IF b THEN 1 ELSE 0, 1)
\* A float is written as the integer with the same bits.
writeF32(bits) == writeI32(bits)
writeF64(bits) == writeI64(bits)

Signed(u, n) == IF 2 * u >= Base^n THEN u - Base^n ELSE u
\* The conversion of a size to short.
Short(n) == Signed(n % Base^2, 2)

\* No characters are written when the length has become negative.
writeString(s) == writeI16(Short(Len(s))) \o (IF Short(Len(s)) < 0 THEN <<>> ELSE s)

Fixed(arr, Write(_)) == FlattenSeq([i \in DOMAIN arr |-> Write(arr[i])])
writeFixedArrayI8(arr) == Fixed(arr, writeI8)
writeFixedArrayU8(arr) == Fixed(arr, writeU8)
writeFixedArrayI16(arr) == Fixed(arr, writeI16)
writeFixedArrayU16(arr) == Fixed(arr, writeU16)
writeFixedArrayI32(arr) == Fixed(arr, writeI32)
writeFixedArrayU32(arr) == Fixed(arr, writeU32)
writeFixedArrayI64(arr) == Fixed(arr, writeI64)

writeVarArrayI8(arr) == writeI16(Short(Len(arr))) \o writeFixedArrayI8(arr)
writeVarArrayU8(arr) == writeI16(Short(Len(arr))) \o writeFixedArrayU8(arr)
writeVarArrayI16(arr) == writeI16(Short(Len(arr))) \o writeFixedArrayI16(arr)
writeVarArrayU16(arr) == writeI16(Short(Len(arr))) \o writeFixedArrayU16(arr)
writeVarArrayI32(arr) == writeI16(Short(Len(arr))) \o writeFixedArrayI32(arr)
writeVarArrayU32(arr) == writeI16(Short(Len(arr))) \o writeFixedArrayU32(arr)
writeVarArrayI64(arr) == writeI16(Short(Len(arr))) \o writeFixedArrayI64(arr)
writeIntArray(arr) == writeU16(Len(arr)) \o Fixed(arr, writeI32)
writeI32Arr(arr) == writeU16(Len(arr)) \o Fixed(arr, writeI32)

Write(type, v) ==
  CASE type = "I8" -> writeI8(v)    [] type = "U8" -> writeU8(v)
    [] type = "I16" -> writeI16(v)  [] type = "U16" -> writeU16(v)
    [] type = "I32" -> writeI32(v)  [] type = "U32" -> writeU32(v)
    [] type = "I64" -> writeI64(v)  [] type = "U64" -> writeU64(v)
    [] type = "F32" -> writeF32(v)  [] type = "F64" -> writeF64(v)
    [] type = "Bool" -> writeBoolean(v)       [] type = "String" -> writeString(v)
    [] type = "I8[]" -> writeVarArrayI8(v)    [] type = "U8[]" -> writeVarArrayU8(v)
    [] type = "I16[]" -> writeVarArrayI16(v)  [] type = "U16[]" -> writeVarArrayU16(v)
    [] type = "I32[]" -> writeVarArrayI32(v)  [] type = "U32[]" -> writeVarArrayU32(v)
    [] type = "I64[]" -> writeVarArrayI64(v)  [] type = "ints" -> writeIntArray(v)
    [] type = "ids" -> writeI32Arr(v)

(* --- MsgReader -------------------------------------------------------------- *)
available == Len(data) - it

\* The unsigned number in n bytes from position p on.
At(p, n) == FoldLeftDomain(LAMBDA u, i : u * Base + data[p + i], 0, [i \in 1 .. n |-> i])

\* Each result is a value and the number of bytes gone over.
Result(v, n) == [value |-> v, used |-> n]
readI8(p) == Result(At(p, 1), 1)                 \* unsigned char, not signed
readU8(p) == Result(At(p, 1), 1)
readI16(p) == Result(Signed(At(p, 2), 2), 2)
readU16Wide(p) == Result(Signed(At(p, 2), 2), 4)
readU16(p) == Result(Signed(At(p, 2), 2), 2)     \* through a short int
readI32(p) == Result(Signed(At(p, 4), 4), 4)
readU32Signed(p) == readI32(p)
readU32(p) == Result(At(p, 4), 4)
readI64(p) == Result(Signed(At(p, 8), 8), 8)
readU64(p) == Result(Signed(At(p, 8), 8), 8)
readBool(p) == Result(readI8(p).value # 0, 1)
readF32(p) == readI32(p)
readF64(p) == readI64(p)

Thrown == [value |-> "thrown", used |-> 0]
readString(p) == LET size == readI16(p).value IN
                 IF size > 0 THEN Result(SubSeq(data, p + 3, p + 2 + size), 2 + size) ELSE Thrown

\* How the users of the reader read what was written as an array: its size, then the elements.
ReadArray(p, n, Read(_)) ==
  LET size == readI16(p).value IN
  Result([i \in 1 .. size |-> Read(p + 2 + (i - 1) * n).value], 2 + size * n)

Read(type, p) ==
  CASE type = "I8" -> readI8(p)    [] type = "U8" -> readU8(p)
    [] type = "I16" -> readI16(p)  [] type = "U16" -> readU16(p)
    [] type = "I32" -> readI32(p)  [] type = "U32" -> readU32(p)
    [] type = "I64" -> readI64(p)  [] type = "U64" -> readU64(p)
    [] type = "F32" -> readF32(p)  [] type = "F64" -> readF64(p)
    [] type = "Bool" -> readBool(p)             [] type = "String" -> readString(p)
    [] type = "I8[]" -> ReadArray(p, 1, readI8)    [] type = "U8[]" -> ReadArray(p, 1, readU8)
    [] type = "I16[]" -> ReadArray(p, 2, readI16)  [] type = "U16[]" -> ReadArray(p, 2, readU16)
    [] type \in {"I32[]", "ints", "ids"} -> ReadArray(p, 4, readI32)
    [] type = "U32[]" -> ReadArray(p, 4, readU32)  [] type = "I64[]" -> ReadArray(p, 8, readI64)

\* What a value comes back as: a byte without its sign and two bytes with one, whatever was
\* written and msg_reader.h:29 and :38 say; every other type as it was.
AsRead(type, v) == CASE type = "I8" -> v % Base
                     [] type = "U16" -> Signed(v, 2)
                     [] type = "U16[]" -> [i \in DOMAIN v |-> Signed(v[i], 2)]
                     [] OTHER -> v

(* --- a message is written, then read --------------------------------------- *)
Init == written = <<>> /\ data = <<>> /\ it = 0 /\ got = <<>> /\ phase = "write"

WriteItem == /\ phase = "write" /\ Len(written) < MaxItems
             /\ \E i \in Items : /\ written' = Append(written, i)
                                 /\ data' = data \o Write(i.type, i.value)
             /\ UNCHANGED <<it, got, phase>>
FromBuffer == phase = "write" /\ phase' = "read" /\ it' = 0 /\ UNCHANGED <<written, data, got>>
rewind == phase = "read" /\ it' = 0 /\ got' = <<>> /\ UNCHANGED <<written, data, phase>>

Type(k) == written[k].type
ReadItem ==
  /\ phase = "read" /\ Len(got) < Len(written)
  /\ LET r == Read(Type(Len(got) + 1), it) IN
     IF r.used = 0 THEN phase' = "thrown" /\ UNCHANGED <<it, got>>
     ELSE it' = it + r.used /\ got' = Append(got, r.value) /\ UNCHANGED phase
  /\ UNCHANGED <<written, data>>
\* A value that is of no interest is skipped.
skip == /\ phase = "read" /\ Len(got) < Len(written)
        /\ LET i == written[Len(got) + 1] IN
             it' = it + Len(Write(i.type, i.value)) /\ got' = Append(got, AsRead(i.type, i.value))
        /\ UNCHANGED <<written, data, phase>>

Next == WriteItem \/ FromBuffer \/ rewind \/ ReadItem \/ skip
Spec == Init /\ [][Next]_vars

(* --- properties ------------------------------------------------------------- *)
\* A message is bytes, and the reader stays inside it.
TypeOK == /\ \A i \in DOMAIN data : data[i] \in 0 .. Base - 1
          /\ it \in 0 .. Len(data) /\ phase \in {"write", "read", "thrown"}
          /\ Len(got) <= Len(written) /\ (Len(got) = Len(written) /\ phase = "read" => available = 0)

\* Each value is read back as its type is read, at the ends of every type's range, in any order
\* of types, after skips and rewinds: as it was written, but for an I8 below zero, which comes back
\* above, and a U16 of the upper half, which comes back below.
RoundTrip == \A k \in DOMAIN got : got[k] = AsRead(Type(k), written[k].value)

\* msg_reader.h:29: readI8's byte is treated as a signed value.  Does not hold.
ByteIsSigned == \A k \in DOMAIN got : Type(k) = "I8" => got[k] = written[k].value

\* msg_reader.h:38: readU16's result is in the range 0 through 65535.  Does not hold.
U16InRange == \A k \in DOMAIN got : Type(k) = "U16" => got[k] \in 0 .. Base^2 - 1

\* msg_writer.cc:127: the two bytes before a string give the number of bytes that follow.
LengthFollows ==
  Len(written) = 1 /\ Type(1) = "String" => data[1] * Base + data[2] = Len(data) - 2

=============================================================================
