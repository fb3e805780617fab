-------------------------- MODULE BinarySerializer --------------------------
(***************************************************************************)
(* The binary protocol (comms-lib): how data of a C++ type becomes bytes   *)
(* and is read back.  The templates of DataSerializer are functions of the *)
(* type.  A byte has ByteBase values, and integers have a width in bytes,  *)
(* as in memory.                                                           *)
(***************************************************************************)
EXTENDS Integers, Functions, SequencesExt

CONSTANTS
    ByteBase, SizeOfInt, SizeOfSize,
    Types,             \* the types of a program's data, with the types of the parts
    Height, MaxHeight, \* how deeply each of them is nested
    Data               \* for each type, the data that may be written

ASSUME WidthAssumption ==
    ByteBase \in Nat \ {0, 1} /\ SizeOfInt \in Nat \ {0} /\ SizeOfSize \in Nat \ {0}

\* The types: char, int, unsigned int, std::array, std::vector, std::map and structs, whose
\* serialization the application writes field by field.  A std::string is written
\* like a vector of char.  Pointers, whose sizeof(T) bytes are copied whatever the T is, are
\* not modelled.
CharType == [kind |-> "char"]
IntType == [kind |-> "int"]
UnsignedType == [kind |-> "unsigned"]
ArrayType(element, number) == [kind |-> "array", element |-> element, number |-> number]
VectorType(element) == [kind |-> "vector", element |-> element]
MapType(key, element) == [kind |-> "map", key |-> key, element |-> element]
StructType(fields) == [kind |-> "struct", fields |-> fields]
StringType == VectorType(CharType)

\* The data of the messages of the handshake, with the functions that size, write and
\* read it field by field.
HandshakeInitData == StructType(<<UnsignedType>>)
HandshakeResponseDataV1 == StructType(<<IntType, IntType>>)
HandshakeCompleteData == StructType(<<UnsignedType>>)
-----------------------------------------------------------------------------
(* Integers in memory, the lowest byte first.                              *)

\* n without its k lowest bytes.
Shifted(n, width) ==
    LET shifted[k \in 0..width] == IF k = 0 THEN n ELSE shifted[k - 1] \div ByteBase
    IN  shifted
Bytes(n, width) == [k \in 1..width |-> Shifted(n, width)[k - 1] % ByteBase]

Sign(bytes, signed) == IF signed /\ 2 * bytes[Len(bytes)] >= ByteBase THEN -1 ELSE 0
Value(bytes, signed) ==
    LET value[k \in 0..Len(bytes)] ==
            IF k = 0 THEN Sign(bytes, signed)
            ELSE value[k - 1] * ByteBase + bytes[Len(bytes) - k + 1]
    IN  value[Len(bytes)]

\* Nothing but its sign is behind the bytes of n.
Fits(n, width, signed) == Shifted(n, width)[width] = Sign(Bytes(n, width), signed)
-----------------------------------------------------------------------------
(* What data consists of.  Vectors and maps are preceded by the number of  *)
(* their elements; an element of a map is a pair.                          *)

IsBasic(type) == type.kind \in {"char", "int", "unsigned"}
IsCounted(type) == type.kind \in {"vector", "map"}
IsSigned(type) == type.kind = "int"

Width(type) == IF type.kind = "char" THEN 1 ELSE SizeOfInt

\* The number of parts of an array or struct, and the type of the k-th part.
FixedNumber(type) == IF type.kind = "array" THEN type.number ELSE Len(type.fields)
PartType(type, k) ==
    CASE type.kind = "map" -> StructType(<<type.key, type.element>>)
      [] type.kind = "struct" -> type.fields[k]
      [] OTHER -> type.element

\* A map is written in the order of its keys; which order it is makes no difference.
PartData(type, data) ==
    IF type.kind = "map"
    THEN LET keys == SetToSeq(DOMAIN data)
         IN  [k \in 1..Len(keys) |-> <<keys[k], data[keys[k]]>>]
    ELSE data

\* The parts of a type are types, nested less deeply.
ASSUME TypesAssumption ==
    /\ MaxHeight \in Nat
    /\ \A type \in Types :
          /\ Height[type] \in 0..MaxHeight
          /\ ~IsBasic(type) =>
                 /\ ~IsCounted(type) => FixedNumber(type) \in Nat
                 /\ \A k \in 1..(IF IsCounted(type) THEN 1 ELSE FixedNumber(type)) :
                       PartType(type, k) \in Types /\ Height[PartType(type, k)] < Height[type]

\* Data is of its type, and so are its parts; an integer and the number of the elements
\* of a container fit in what they are written to.
IsOf(data, type) ==
    LET parts == PartData(type, data)
    IN  IF IsBasic(type) THEN data \in Int /\ Fits(data, Width(type), IsSigned(type))
        ELSE /\ type.kind = "map" => /\ IsFiniteSet(DOMAIN data)
                                     /\ data = [key \in DOMAIN data |-> data[key]]
             /\ type.kind # "map" => /\ Len(data) \in Nat
                                     /\ data = [k \in 1..Len(data) |-> data[k]]
             /\ IF IsCounted(type) THEN Fits(Len(parts), SizeOfSize, FALSE)
                ELSE Len(parts) = FixedNumber(type)
             /\ \A k \in 1..Len(parts) : parts[k] \in Data[PartType(type, k)]
ASSUME DataAssumption == \A type \in Types : \A data \in Data[type] : IsOf(data, type)

\* The templates of DataSerializer for each type.  The loops over the parts go on behind
\* the number of elements, if there is one.
sizeOf[type \in Types] ==
    [data \in Data[type] |->
        IF IsBasic(type) THEN Width(type)
        ELSE LET parts == PartData(type, data)
                 size[k \in 0..Len(parts)] ==
                     IF k = 0 THEN IF IsCounted(type) THEN SizeOfSize ELSE 0
                     ELSE size[k - 1] + sizeOf[PartType(type, k)][parts[k]]
             IN  size[Len(parts)]]

serialize[type \in Types] ==
    [data \in Data[type] |->
        IF IsBasic(type) THEN Bytes(data, Width(type))
        ELSE LET parts == PartData(type, data)
                 written[k \in 0..Len(parts)] ==
                     IF k = 0 THEN IF IsCounted(type) THEN Bytes(Len(parts), SizeOfSize) ELSE <<>>
                     ELSE written[k - 1] \o serialize[PartType(type, k)][parts[k]]
             IN  written[Len(parts)]]

\* OutputBuffer::append.  It throws at the first value that does not fit, and the buffer
\* is deleted: whether it throws depends on the sum of the sizes only.
OutputBuffer(totalSize) == [data |-> <<>>, totalSize |-> totalSize, overflow |-> FALSE]
AppendTo(buffer, bytes) ==
    IF Len(buffer.data) + Len(bytes) > buffer.totalSize
    THEN [buffer EXCEPT !.overflow = TRUE]
    ELSE [buffer EXCEPT !.data = @ \o bytes]
-----------------------------------------------------------------------------
(* Deserialization from index i of an InputBuffer: the data and the index  *)
(* behind it, or Overflow for a BufferOverflowException.                   *)

Overflow == -1
Read(data, next) == [data |-> data, next |-> next]

\* Mutant: the end of the buffer is not tested, and what is behind it is 0.
NextValueUnchecked(in, i, width) ==
    Read([k \in 1..width |-> IF i + k <= Len(in) THEN in[i + k] ELSE 0],
         IF i + width <= Len(in) THEN i + width ELSE Len(in))

nextValue(in, i, width) ==
    IF i + width > Len(in) THEN Read(<<>>, Overflow)
    ELSE Read([k \in 1..width |-> in[i + k]], i + width)

retrieveNext(in, i, width, signed) ==
    LET bytes == nextValue(in, i, width)
    IN  IF bytes.next = Overflow THEN bytes ELSE Read(Value(bytes.data, signed), bytes.next)

\* How many parts the value at index i has: the number is fixed, or read first.
NumberAt(in, i, type) ==
    IF IsCounted(type) THEN retrieveNext(in, i, SizeOfSize, FALSE)
    ELSE Read(FixedNumber(type), i)

\* A later pair replaces an earlier one with its key.
MapOf(pairs) ==
    [key \in {pairs[k][1] : k \in 1..Len(pairs)} |->
        pairs[Max({k \in 1..Len(pairs) : pairs[k][1] = key})][2]]

\* The value that the parts that were read make.
Assembled(type, read) ==
    IF type.kind = "map" /\ read.next # Overflow THEN Read(MapOf(read.data), read.next) ELSE read

deserialize(in) ==
    LET from[type \in Types] ==
            [i \in 0..Len(in) |->
                IF IsBasic(type) THEN retrieveNext(in, i, Width(type), IsSigned(type))
                ELSE LET number == NumberAt(in, i, type)
                         read[k \in 0..number.data] ==
                             IF k = 0 THEN Read(<<>>, number.next)
                             ELSE LET before == read[k - 1]
                                      part == from[PartType(type, k)][before.next]
                                  IN  IF before.next = Overflow THEN before
                                      ELSE Read(Append(before.data, part.data), part.next)
                     IN  IF number.next = Overflow THEN number
                         ELSE Assembled(type, read[number.data])]
    IN  from
=============================================================================
