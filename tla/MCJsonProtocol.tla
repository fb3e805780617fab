---------------------------- MODULE MCJsonProtocol ---------------------------
(* JsonProtocol for TLC: small trees with every kind of value, the texts   *)
(* that differ from a correct one in two characters, and the messages      *)
(* of the handshake.                                                       *)
EXTENDS JsonProtocol

MCNames == {<<"a", Space>>, <<"}">>}
MCValues == {
    NullNode, StringNode(<<>>), StringNode(<<Space, "]">>), StringNode(<<"a", Quote>>),
    BasicNode(<<"a">>), BasicNode(<<>>), BasicNode(NullText), BasicNode(<<"a", Space, "b">>),
    ArrayNode(<<>>), ArrayNode(<<BasicNode(<<"a">>), NullNode>>),
    ArrayNode(<<ArrayNode(<<StringNode(<<"b">>)>>),
                WithChild(NullNode, <<"b">>, BasicNode(<<"b">>))>>)}

Damaged(s, characters) ==
    {RemoveAt(s, i) : i \in DOMAIN s}
        \cup {ReplaceAt(s, i, c) : i \in DOMAIN s, c \in characters}
        \cup {UpTo(s, i) : i \in DOMAIN s}
Edited(s) ==
    LET characters == {"{", "}", "[", "]", ":", ",", Quote, Space, "a"}
    IN  Damaged(s, characters) \cup {InsertAt(s, i, c) : i \in DOMAIN s, c \in characters}

\* {"":[a,"b"]} with two edits, {"b": {"a":a} ,"a":null} with one
Short == <<"{", Quote, Quote, ":", "[", "a", ",", Quote, "b", Quote, "]", "}">>
Long == <<"{", Quote, "b", Quote, ":", Space, "{", Quote, "a", Quote, ":", "a", "}", Space,
          ",", Quote, "a", Quote, ":", "n", "u", "l", "l", "}">>
MCTexts ==
    UNION {Damaged(s, {"}", ",", Space}) : s \in Edited(Short)} \cup Edited(Long)

Unknown == Class(<<"U">>, <<>>)
LongName == [HandshakeResponseV1 EXCEPT !.name = <<"R", "R">>]
Ping == Class(<<"P">>, <<>>)
Own == OwnTreeClass(<<"E">>)
MCRegistered ==
    {HandshakeInit, HandshakeComplete, HandshakeResponseV1, LongName, Ping, Own}

\* Data that looks like the message {"d":0,"m":"P"}, data with brackets in a string, and
\* data that a text cannot carry.
PingTree ==
    WithChild(WithChild(NullNode, <<"d">>, BasicNode(<<"0">>)), <<"m">>, StringNode(Ping.name))
MCOwnData == {PingTree, ArrayNode(<<StringNode(<<"}">>), NullNode>>), ArrayNode(<<>>)}

\* Broadcasts, the largest and smallest number of each type, data of any form, and packets
\* that are not sent: unknown, too large for the socket, too large for the buffer.
MCPackets ==
    {[class |-> Own, type |-> 0, instance |-> 0, data |-> tree] : tree \in MCOwnData} \cup {
    [class |-> HandshakeInit, type |-> 0, instance |-> 7, data |-> <<8>>],
    [class |-> HandshakeComplete, type |-> -1, instance |-> 1, data |-> <<15>>],
    [class |-> HandshakeResponseV1, type |-> 7, instance |-> 0, data |-> <<-8, 7>>],
    [class |-> Unknown, type |-> 0, instance |-> 0, data |-> <<>>],
    [class |-> HandshakeResponseV1, type |-> -8, instance |-> -8, data |-> <<-8, -8>>],
    [class |-> LongName, type |-> -8, instance |-> -8, data |-> <<-8, -8>>]}

\* Nothing, what continues a number, a string or a list without closing a bracket, digits
\* and brackets that complete a text, and the text of a message's end.
MCBehind == {<<>>, <<"7", Quote, ",">>, <<"0", "}">>, <<"}", "}">>, <<Quote, "}", Quote>>}
=============================================================================
