--------------------------- MODULE MessageFactory ---------------------------
(***************************************************************************)
(* MessageFactory and MessageRegistry with the binary protocol (comms-lib) *)
(* at both ends of a TCP connection: the sender serializes packets into a  *)
(* buffer and writes the buffer to the stream, the receiver takes whatever *)
(* a read() returns for one message.  The two sides register their         *)
(* messages independently.                                                 *)
(***************************************************************************)
EXTENDS BinarySerializer

CONSTANTS
    Registries,      \* the lists of message classes a side may register
    Packets,         \* a list of what may be sent: class, type, instance, data
    BufferSize,      \* m_bufferSize of the sender's factory
    MaxMessageSize,  \* m_maxMessageSize of the sockets
    MaxRegistrations, MaxSends

\* A message class has a name (the message's type) and the type of its data.
ASSUME FactoryAssumption ==
    /\ BufferSize \in Nat /\ MaxMessageSize \in Nat \ {0}
    /\ MaxRegistrations \in Nat /\ MaxSends \in Nat
    /\ \A registry \in Registries : registry \in Seq(Range(registry))

VARIABLES
    m_messages, m_serializers,  \* for each side, from names to classes
    stream,       \* the bytes written to the socket
    position,     \* how many of them have been read
    sent,         \* ghost: the packets sent, with the index of the first byte of each
    last,         \* how the last call has ended
    terminated,   \* an exception has left the receiver's thread: the program is gone
    registrations

vars == <<m_messages, m_serializers, stream, position, sent, last, terminated, registrations>>

Sides == {"sender", "receiver"}
Nothing == [call |-> "none"]

Init ==
    /\ m_messages = [side \in Sides |-> <<>>]
    /\ m_serializers = [side \in Sides |-> <<>>]
    /\ stream = <<>> /\ position = 0 /\ sent = <<>>
    /\ last = Nothing /\ terminated = FALSE
    /\ registrations = 0
-----------------------------------------------------------------------------
(* Registration.                                                           *)

WithClass(table, class) ==
    [name \in DOMAIN table \cup {class.name} |->
        IF name = class.name THEN class ELSE table[name]]

\* registerMessage; after an exception registerMessages does not go on.
registerMessage(tables, class) ==
    IF tables.failed THEN tables
    ELSE IF class.name \in DOMAIN tables.messages THEN [tables EXCEPT !.failed = TRUE]
    ELSE [tables EXCEPT !.messages = WithClass(@, class), !.serializers = WithClass(@, class)]

registerMessages(tables, registry) ==
    LET registered[k \in 0..Len(registry)] ==
            IF k = 0 THEN tables ELSE registerMessage(registered[k - 1], registry[k])
    IN  registered[Len(registry)]

RegisterMessages(side, registry) ==
    /\ registrations < MaxRegistrations /\ sent = <<>>
    /\ LET tables == registerMessages([messages |-> m_messages[side],
                                       serializers |-> m_serializers[side], failed |-> FALSE],
                                      registry)
       IN  /\ m_messages' = [m_messages EXCEPT ![side] = tables.messages]
           /\ m_serializers' = [m_serializers EXCEPT ![side] = tables.serializers]
           /\ last' = [call |-> "register",
                       result |-> IF tables.failed THEN "InvalidMessageTypeException" ELSE "ok"]
    /\ registrations' = registrations + 1
    /\ UNCHANGED <<stream, position, sent, terminated>>
-----------------------------------------------------------------------------
(* Sending.                                                                *)

\* What MessageSerializer::serialize writes before the data, and MessageDeserializer's
\* constructor reads: the message's type, recipient type, instance.
HeaderType == StructType(<<StringType, IntType, IntType>>)

\* What is sent is of types of the program.
ASSUME PacketsAssumption ==
    /\ {HeaderType, StringType, IntType} \subseteq Types
    /\ \A i \in DOMAIN Packets :
          LET p == Packets[i]
          IN  /\ p = [class |-> p.class, type |-> p.type, instance |-> p.instance, data |-> p.data]
              /\ <<p.class.name, p.type, p.instance>> \in Data[HeaderType]
              /\ p.class.data \in Types /\ p.data \in Data[p.class.data]

MessageBytes(p) ==
    serialize[HeaderType][<<p.class.name, p.type, p.instance>>]
        \o serialize[p.class.data][p.data]

\* Mutant: the instance is forgotten.
GetSizeNoInstance(p) ==
    sizeOf[IntType][p.type] + sizeOf[StringType][p.class.name] + sizeOf[p.class.data][p.data]

getSize(p) ==
    sizeOf[IntType][p.type] + sizeOf[IntType][p.instance] + sizeOf[StringType][p.class.name]
        + sizeOf[p.class.data][p.data]

serializeMessage(p) ==
    AppendTo(OutputBuffer(IF getSize(p) < BufferSize THEN getSize(p) ELSE BufferSize),
             MessageBytes(p))

SendEnds(p, result, out) ==
    last' = [call |-> "send", result |-> result, packet |-> p, out |-> out]

\* The packet cannot be sent: its type is not registered, it is registered for other
\* data, the buffer overflows, or the socket refuses the size.
SendThrows(p) ==
    /\ Len(sent) < MaxSends
    /\ LET known == m_serializers["sender"]
           out == serializeMessage(p)
       IN  \/ /\ p.class.name \notin DOMAIN known
              /\ SendEnds(p, "out_of_range", OutputBuffer(0))
           \/ /\ p.class.name \in DOMAIN known /\ known[p.class.name].data # p.class.data
              /\ SendEnds(p, "ProtocolException", OutputBuffer(0))
           \/ /\ p.class.name \in DOMAIN known /\ known[p.class.name].data = p.class.data
              /\ out.overflow
              /\ SendEnds(p, "BufferOverflowException", out)
           \/ /\ p.class.name \in DOMAIN known /\ known[p.class.name].data = p.class.data
              /\ ~out.overflow /\ Len(out.data) > MaxMessageSize
              /\ SendEnds(p, "MessageSendingException", out)
    /\ UNCHANGED <<m_messages, m_serializers, stream, position, sent, terminated, registrations>>

Send(p) ==
    /\ Len(sent) < MaxSends
    /\ p.class.name \in DOMAIN m_serializers["sender"]
    /\ m_serializers["sender"][p.class.name].data = p.class.data
    /\ LET out == serializeMessage(p)
       IN  /\ ~out.overflow /\ Len(out.data) <= MaxMessageSize
           /\ stream' = stream \o out.data
           /\ SendEnds(p, "ok", out)
    /\ sent' = Append(sent, [packet |-> p, begin |-> Len(stream)])
    /\ UNCHANGED <<m_messages, m_serializers, position, terminated, registrations>>
-----------------------------------------------------------------------------
(* Receiving.                                                              *)

\* Mutant: the instance is read before the type.
HeaderSwapped(in) ==
    LET header == deserialize(in)[HeaderType][0]
    IN  IF header.next = Overflow THEN header
        ELSE Read(<<header.data[1], header.data[3], header.data[2]>>, header.next)

Header(in) == deserialize(in)[HeaderType][0]

NoPacket == [class |-> "none"]
Thrown(exception) == [result |-> exception, packet |-> NoPacket]
deserializeMessage(in) ==
    LET header == Header(in)
        name == header.data[1]
        class == m_messages["receiver"][name]
        data == deserialize(in)[m_serializers["receiver"][name].data][header.next]
    IN  IF header.next = Overflow THEN Thrown("BufferOverflowException")
        ELSE IF name \notin DOMAIN m_messages["receiver"]
        THEN Thrown("InvalidMessageTypeException")
        ELSE IF data.next = Overflow THEN Thrown("BufferOverflowException")
        ELSE [result |-> "ok",
              packet |-> [class |-> class, type |-> header.data[2],
                          instance |-> header.data[3], data |-> data.data]]

\* read() returns length bytes, and processMessage takes them for one message; nobody
\* catches the exceptions on the thread that reads.
Receive(length) ==
    /\ ~terminated
    /\ length <= MaxMessageSize /\ position + length <= Len(stream)
    /\ LET received == deserializeMessage(SubSeq(stream, position + 1, position + length))
       IN  /\ last' = [call |-> "receive", begin |-> position, length |-> length,
                       result |-> received.result, packet |-> received.packet]
           /\ terminated' = (received.result # "ok")
    /\ position' = position + length
    /\ UNCHANGED <<m_messages, m_serializers, stream, sent, registrations>>

Next ==
    \/ \E side \in Sides, registry \in Registries : RegisterMessages(side, registry)
    \/ \E i \in DOMAIN Packets : Send(Packets[i]) \/ SendThrows(Packets[i])
    \/ \E length \in 1..MaxMessageSize : Receive(length)

Spec == Init /\ [][Next]_vars
-----------------------------------------------------------------------------
\* What is announced by getSize is what serialize appends: a buffer is sent full, and
\* it overflows only if the message is larger than m_bufferSize.
BufferIsExact ==
    last.call = "send" =>
        /\ last.result = "ok" => Len(last.out.data) = last.out.totalSize
        /\ last.result = "BufferOverflowException" =>
               Len(MessageBytes(last.packet)) > BufferSize

\* The packet at the beginning of what was received, if that is where a packet begins.
ReceivedAt(s) == last.call = "receive" /\ last.begin = s.begin
SizeOf(s) == Len(MessageBytes(s.packet))

\* A packet that a read() returns whole, alone or with what follows it, is delivered
\* as it was sent, with its recipient, if the receiver has registered its class.
DeliveredAsSent ==
    \A i \in DOMAIN sent :
        LET s == sent[i]
            name == s.packet.class.name
        IN  /\ ReceivedAt(s) /\ last.length >= SizeOf(s)
            /\ name \in DOMAIN m_messages["receiver"]
            /\ m_messages["receiver"][name] = s.packet.class
            => last.packet = s.packet

\* A packet that a read() returns in part is never delivered, as whatever message:
\* deserializeMessage throws (InputBuffer::nextValue).
PartIsRejected ==
    \A i \in DOMAIN sent :
        LET name == sent[i].packet.class.name
        IN  /\ ReceivedAt(sent[i]) /\ last.length < SizeOf(sent[i])
            /\ name \in DOMAIN m_messages["receiver"]
            /\ m_messages["receiver"][name] = sent[i].packet.class
            => last.result = "BufferOverflowException"
=============================================================================
