---------------------------- MODULE JsonProtocol ----------------------------
(***************************************************************************)
(* The JSON protocol of messages (comms-lib, serializer/dom) on top of the *)
(* converter and the parser of dom-lib: a packet becomes a tree, its text  *)
(* and a zero byte on a TCP stream; what a read() returns is taken for one *)
(* text, although a read() may end before the zero byte.  The names of     *)
(* messages and of children are one letter.  A program uses the parser for *)
(* messages, or for texts of its own as in JsonParser.                     *)
(***************************************************************************)
EXTENDS JsonParser

CONSTANTS
    Packets,         \* what may be sent: the class, type, instance and data
    Registered,      \* the message classes that both sides have registered
    IntRange,        \* the number of values of an int
    BufferSize,      \* m_bufferSize of the sender's factory
    MaxMessageSize,  \* m_maxMessageSize of the sockets
    Behind,          \* texts that the memory behind a read buffer may hold
    MaxSends

\* A message class has a name and says what its data is: a list of integers, one for each
\* of the fields, or (ownTree) a tree of any form that the application builds itself.
ASSUME JsonProtocolAssumption ==
    /\ IntRange \in Nat \ {0} /\ BufferSize \in Nat /\ MaxMessageSize \in Nat \ {0}
    /\ MaxSends \in Nat

VARIABLES
    stream,     \* the bytes written to the socket
    position,   \* how many of them have been read
    sent,       \* ghost: the packets sent, with the index of the first byte of each
    reading,    \* the read() whose bytes are being deserialized
    received,   \* how the last deserializeMessage has ended
    lastSend    \* how the last sendPacket has ended

link == <<stream, position, sent, reading, received, lastSend>>
protocolVars == <<vars, link>>

NoRead == [length |-> 0]
NoPacket == [class |-> "none"]

ProtocolInit ==
    /\ Init
    /\ stream = <<>> /\ position = 0 /\ sent = <<>>
    /\ reading = NoRead /\ received = NoRead /\ lastSend = "none"
-----------------------------------------------------------------------------
(* The messages of the handshake, with what buildTree writes and           *)
(* loadFromTree reads, and messages of the application.                    *)

Class(name, fields) == [name |-> name, fields |-> fields, ownTree |-> FALSE]
OwnTreeClass(name) == [name |-> name, fields |-> <<>>, ownTree |-> TRUE]

Field(name, type) == [name |-> <<name>>, type |-> type]
HandshakeInit == Class(<<"I">>, <<Field("m", "unsigned")>>)
HandshakeResponseV1 == Class(<<"R">>, <<Field("t", "int"), Field("i", "int")>>)
HandshakeComplete == Class(<<"C">>, <<Field("v", "unsigned")>>)
-----------------------------------------------------------------------------
(* Integers as texts.                                                      *)

Digits == <<"0", "1", "2", "3", "4", "5", "6", "7", "8", "9">>
DigitsOf[n \in Nat] ==
    IF n < 10 THEN <<Digits[n + 1]>> ELSE Append(DigitsOf[n \div 10], Digits[(n % 10) + 1])

\* DomNode(T val) for an integer: what operator<< writes.
IntNode(n) == BasicNode(IF n < 0 THEN <<"-">> \o DigitsOf[-n] ELSE DigitsOf[n])

\* atoi: a sign and the digits up to the first other character, 0 without any, as a
\* value of type int.  A larger number wraps around, as glibc's atoi makes it.
Digit(c) == CHOOSE d \in 0..9 : Digits[d + 1] = c
Signed(n) == ((n + (IntRange \div 2)) % IntRange) - (IntRange \div 2)
atoi(text) ==
    LET signed == text # <<>> /\ text[1] = "-"
        digits == IF signed THEN Tail(text) ELSE text
        leading == SelectInSeq(Append(digits, "end"), LAMBDA c : c \notin Range(Digits)) - 1
        number == FoldLeft(LAMBDA n, c : 10 * n + Digit(c), 0, UpTo(digits, leading))
    IN  Signed(IF signed THEN -number ELSE number)

\* operator int and operator unsigned int.
AsType(type, n) == IF type = "unsigned" THEN n % IntRange ELSE n
-----------------------------------------------------------------------------
(* Serializer: the tree of a message and its text.                         *)

Nul == "zero byte"

\* buildTree<T>: the application writes one for each of its types T.
buildTree(p) ==
    IF p.class.ownTree THEN p.data
    ELSE FoldLeftDomain(LAMBDA node, i :
                            WithChild(node, p.class.fields[i].name, IntNode(p.data[i])),
                        NullNode, p.data)

MessageTree(p) ==
    [NullNode EXCEPT !.m_children =
        (<<"m">> :> StringNode(p.class.name)) @@ (<<"t">> :> IntNode(p.type))
            @@ (<<"i">> :> IntNode(p.instance)) @@ (<<"d">> :> buildTree(p))]

m_stringRep(p) == toString(MessageTree(p))
getSize(p) == Len(m_stringRep(p)) + 1
serialize(p) == Append(m_stringRep(p), Nul)

Fits(p) == getSize(p) <= BufferSize /\ getSize(p) <= MaxMessageSize

Sending == pc = "program" /\ assignments = 0 /\ reads = 0 /\ Len(sent) < MaxSends

Send(p) ==
    /\ Sending /\ p.class \in Registered /\ Fits(p)
    /\ stream' = stream \o serialize(p)
    /\ sent' = Append(sent, [packet |-> p, begin |-> Len(stream)])
    /\ lastSend' = "ok"
    /\ UNCHANGED <<vars, position, reading, received>>

\* m_serializers.at, OutputBuffer::append and TcpSocketDataHandler::send throw before
\* anything is written.
SendThrows(p) ==
    /\ Sending
    /\ \/ p.class \notin Registered /\ lastSend' = "out_of_range"
       \/ /\ p.class \in Registered /\ getSize(p) > BufferSize
          /\ lastSend' = "BufferOverflowException"
       \/ /\ p.class \in Registered /\ getSize(p) \in (MaxMessageSize + 1)..BufferSize
          /\ lastSend' = "SocketException"
    /\ UNCHANGED <<vars, stream, position, sent, reading, received>>
-----------------------------------------------------------------------------
(* Deserializer: a text, its tree and the packet.                          *)

\* The C string that begins with these bytes, if the memory behind them holds the text
\* behind and a zero byte.
CString(bytes, behind) ==
    LET all == Append(bytes \o behind, Nul)
    IN  UpTo(all, SelectInSeq(all, LAMBDA c : c = Nul) - 1)

\* An exception has left deserializeMessage on the thread that reads: nobody catches it.
Terminated == received # NoRead /\ received.result # "ok"

\* read() returns length bytes, and createDeserializer starts to read the text.  The
\* memory behind the bytes matters only if there is no zero byte among them.
Receive(length, behind) ==
    /\ reading = NoRead /\ ~Terminated
    /\ length <= MaxMessageSize /\ position + length <= Len(stream)
    /\ LET bytes == SubSeq(stream, position + 1, position + length)
       IN  /\ Contains(bytes, Nul) => behind = <<>>
           /\ FromString(CString(bytes, behind), NoTree)
    /\ reading' = [begin |-> position, length |-> length, behind |-> behind]
    /\ position' = position + length
    /\ UNCHANGED <<stream, sent, received, lastSend>>

\* The parser runs, for messages or for the program's own texts.
ParserRuns == Parser /\ UNCHANGED link

Thrown(exception) == [result |-> exception, packet |-> NoPacket]

\* loadFromTree<T>: at() throws for the first name that is missing.
loadFromTree(class, node) ==
    IF class.ownTree THEN node
    ELSE [i \in DOMAIN class.fields |->
        AsType(class.fields[i].type, atoi(node.m_children[class.fields[i].name].m_value))]
Complete(class, node) ==
    \A i \in DOMAIN class.fields : class.fields[i].name \in DOMAIN node.m_children

\* Mutant: the recipient's type and instance are swapped.
SwappedRecipient(tree) ==
    [type |-> atoi(Child(tree, <<"i">>).m_value), instance |-> atoi(Child(tree, <<"t">>).m_value),
     name |-> Child(tree, <<"m">>).m_value]

\* Deserializer's constructor: operator[] creates the children that are missing.
Header(tree) ==
    [type |-> atoi(Child(tree, <<"t">>).m_value), instance |-> atoi(Child(tree, <<"i">>).m_value),
     name |-> Child(tree, <<"m">>).m_value]

\* The packet of a tree, or the exception.
PacketOf(tree) ==
    LET header == Header(tree)
        named == {class \in Registered : class.name = header.name}
        class == CHOOSE c \in named : TRUE
        data == Child(tree, <<"d">>)
    IN  IF named = {} THEN Thrown("InvalidMessageTypeException")
        ELSE IF <<"d">> \notin DOMAIN tree.m_children \/ ~Complete(class, data)
        THEN Thrown("out_of_range")
        ELSE [result |-> "ok",
              packet |-> [class |-> class, type |-> header.type, instance |-> header.instance,
                          data |-> loadFromTree(class, data)]]

\* Mutant: the exceptions of the parser are swallowed, and the last tree is used.
PacketOfLastTree == PacketOf(root)

deserializeMessage == IF outcome = "ok" THEN PacketOf(root) ELSE Thrown(outcome)

\* The parser has returned or thrown: the rest of deserializeMessage.
Deserialized ==
    /\ pc = "program" /\ reading # NoRead
    /\ received' = deserializeMessage @@ reading
    /\ reading' = NoRead
    /\ UNCHANGED <<vars, stream, position, sent, lastSend>>
-----------------------------------------------------------------------------
Messages ==
    \/ \E p \in Packets : Send(p) \/ SendThrows(p)
    \/ \E length \in 1..MaxMessageSize, behind \in Behind : Receive(length, behind)
    \/ Deserialized

OwnTexts == lastSend = "none" /\ Program /\ UNCHANGED link

ProtocolNext == OwnTexts \/ Messages \/ ParserRuns

\* The parser runs on the thread of its caller until it returns or throws.
ProtocolSpec == ProtocolInit /\ [][ProtocolNext]_protocolVars /\ WF_protocolVars(ParserRuns)
-----------------------------------------------------------------------------
\* The read() that was deserialized last began where the text of this message begins, and
\* the message is one whose data a text can carry (no empty arrays, no quotes in strings).
BeganWith(message) ==
    /\ received # NoRead /\ received.begin = message.begin
    /\ Carried(buildTree(message.packet))

\* A message that a read() returns whole is delivered as it was sent, whatever follows
\* it: without its zero byte too, since JsonParser::parse ignores what is behind the
\* closing bracket, for all the numbers of int and unsigned int (atoi) and for data that
\* is a tree.
JsonDeliveredAsSent ==
    \A i \in DOMAIN sent :
        BeganWith(sent[i]) /\ received.length >= getSize(sent[i].packet) - 1
        => /\ received.result = "ok"
           /\ received.packet.class = sent[i].packet.class
           /\ received.packet = sent[i].packet

\* A read() that returns only the first part of a message delivers nothing, whatever
\* nested brackets the part has and wherever it ends, although the Deserializer takes its
\* bytes for a C string that goes on in the memory behind them: what the memory holds
\* would have to close the brackets.  (Of a read() that begins inside of a message nothing
\* of the kind is true: data that looks like a message is delivered as one.)
JsonPartRejected ==
    \A i \in DOMAIN sent :
        /\ BeganWith(sent[i]) /\ received.length < getSize(sent[i].packet) - 1
        /\ ~Contains(received.behind, "}")
        => received.result # "ok"
=============================================================================
