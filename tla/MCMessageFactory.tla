-------------------------- MODULE MCMessageFactory --------------------------
(* MessageFactory for TLC: bytes of four values, two-byte integers, one-byte *)
(* lengths, and messages with every kind of data.                            *)
EXTENDS MessageFactory, TLC

\* Messages of the handshake, a list of names, and a table of arrays.  The name of the
\* last one is also used for a class with other data.
Answer == [name |-> <<1>>, data |-> HandshakeResponseDataV1]
Complete == [name |-> <<3>>, data |-> HandshakeCompleteData]
List == [name |-> <<>>, data |-> StructType(<<VectorType(StringType)>>)]
Table == [name |-> <<2, 0>>, data |-> MapType(StringType, ArrayType(CharType, 2))]
OldTable == [name |-> <<2, 0>>, data |-> HandshakeInitData]

MCRegistries == {<<List, Table, Answer>>, <<OldTable, Answer>>, <<Table, Complete>>}

Packet(class, type, instance, data) ==
    [class |-> class, type |-> type, instance |-> instance, data |-> data]
MCPackets == <<
    Packet(Answer, 1, 2, <<-8, 7>>),
    Packet(List, 2, -1, << <<>> >>),
    Packet(List, 1, 1, << << <<1, 0>>, <<>>, <<3>> >> >>),
    Packet(Table, 0, 1, (<<>> :> <<1, 2>>) @@ (<<3>> :> <<0, 0>>)),
    Packet(Table, -1, 3, <<>>),
    Packet(OldTable, 3, -2, <<5>>),
    Packet(Complete, -8, 7, <<15>>),
    Packet(List, 5, 5, << << <<1, 2, 3>>, <<1, 2, 3>>, <<1>> >> >>),
    Packet(List, 5, 5, << << <<1, 2, 3>>, <<1, 2, 3>>, <<1, 2>> >> >>)>>

\* The types of the messages, how deeply they are nested, and the data of the messages
\* that is of a type.
PartNumbers(type) ==
    IF IsBasic(type) THEN {} ELSE IF type.kind = "struct" THEN DOMAIN type.fields ELSE {1}
WithParts(types) == types \cup UNION {{PartType(type, k) : k \in PartNumbers(type)} : type \in types}
MCTypes ==
    WithParts(WithParts(WithParts(
        {HeaderType} \cup {MCPackets[i].class.data : i \in DOMAIN MCPackets})))

Nesting[type \in MCTypes] ==
    IF IsBasic(type) THEN 0
    ELSE 1 + Max({Nesting[PartType(type, k)] : k \in PartNumbers(type)})
MCHeight == [type \in MCTypes |-> Nesting[type]]

\* All data of the smaller types, and of the others the data of the packets.
AllData ==
    LET chars == 0..3
        ints == -8..7
        strings == UNION {[1..n -> chars] : n \in 0..3}
    IN  (CharType :> chars) @@ (IntType :> ints) @@ (UnsignedType :> 0..15)
            @@ (StringType :> strings) @@ (ArrayType(CharType, 2) :> chars \X chars)
            @@ (StructType(<<StringType, ArrayType(CharType, 2)>>) :> strings \X (chars \X chars))
            @@ (VectorType(StringType) :> {MCPackets[i].data[1] : i \in {2, 3, 8, 9}})
            @@ (HeaderType :> strings \X ints \X ints)
MCData ==
    AllData @@ [type \in MCTypes |->
        {MCPackets[i].data : i \in {j \in DOMAIN MCPackets : MCPackets[j].class.data = type}}]
=============================================================================
