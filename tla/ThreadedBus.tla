---------------------------- MODULE ThreadedBus ----------------------------
(***************************************************************************)
(* ThreadedBuses (comms-lib) that share one thread pool.  A packet that is *)
(* sent is cloned and scheduled; a thread of the pool routes it later,     *)
(* possibly at the same time as others, and calls the listeners.  The pool *)
(* is what WorkQueue promises, which ThreadPool is shown to implement.     *)
(*                                                                         *)
(* The routing has no lock.  A connection or listener that comes or goes   *)
(* on a bus on which a packet is being routed is therefore a data race,    *)
(* which ends the model ("race"); without one the tables a routing reads   *)
(* stay as they are from its beginning to its end, and it is modelled by   *)
(* the calls it makes, fixed when it begins (LocalBus has its loops).      *)
(***************************************************************************)
EXTENDS MessagePacket, AbstractConnection, FiniteSets, Sequences

CONSTANTS
    Conns,           \* the LocalConnections
    BusOf,           \* the bus registered with each
    Type, Instance,  \* the address of each
    Known,           \* the message types registered with each one's factory
    MsgType,         \* the type of each message; two classes may share one
    Slots            \* the threads of the pool

ASSUME ThreadedAddressAssumption ==
    \A c, d \in Conns : c # d /\ BusOf[c] = BusOf[d] =>
        <<Type[c], Instance[c]>> # <<Type[d], Instance[d]>>

ASSUME SlotsAssumption == Slots \in Nat \ {0}

VARIABLES
    submitted, begun, finished,  \* the work of the pool
    packets,         \* what was scheduled: the sender, the packet, its history
    left,            \* the calls each routing has still to make: a connection and
                     \* the position of a listener
    m_connected,     \* the connected connections: those in their bus's table
    m_msgListeners,  \* the listeners of each connection
    failure          \* how the program ended: a race, an exception; or NoFailure

busVars == <<submitted, begun, finished, packets, left, m_connected, m_msgListeners, failure>>

NoFailure == "none"
pool == INSTANCE WorkQueue

BusInit ==
    /\ pool!QInit
    /\ packets = <<>> /\ left = <<>>
    /\ failure = NoFailure

Running == failure = NoFailure
InService == begun \ finished

\* The calls are made in the order of the table (by type, then by instance) and
\* for each connection in the order of its listeners.
Precedes(x, y) ==
    LET c == x[1]
        d == y[1]
    IN  \/ Type[c] < Type[d]
        \/ Type[c] = Type[d] /\ Instance[c] < Instance[d]
        \/ c = d /\ x[2] < y[2]
First(x, calls) == \A y \in calls \ {x} : Precedes(x, y)
Listener(x) == m_msgListeners[x[1]][x[2]]

\* The table of a bus, or a vector of listeners of its connections, changes.
TableChange(bus) ==
    failure' = IF \E i \in InService : BusOf[packets[i].sender] = bus THEN "race" ELSE NoFailure

\* What the listener l reads when it is called changes.
ListenerChange(l) ==
    failure' = IF \E i \in InService : \E x \in left[i] : First(x, left[i]) /\ Listener(x) = l
               THEN "race" ELSE NoFailure

-----------------------------------------------------------------------------
\* ThreadedBus::sendMessage: the clone is scheduled with the sender.  "origin"
\* (the number of the first packet) and "trail" (the forwarders since) are the
\* history of the message; "calls" are those the other routings have left.
sendMessage(c, p, origin, trail, calls) ==
    /\ pool!Submit
    /\ packets' = Append(packets, [sender |-> c, packet |-> p, origin |-> origin, trail |-> trail])
    /\ left' = Append(calls, {})

\* Mutant: the sender is not skipped.
RecipientsAndSender(c, p) ==
    {d \in m_connected :
        /\ BusOf[d] = BusOf[c]
        /\ isTypeBroadcast(p) \/ Type[d] = p.type
        /\ isInstanceBroadcast(p) \/ Instance[d] = p.instance
        /\ MsgType[p.message] \in Known[d]}

\* AbstractBus::routeMessage: whom the packet p of c is for.
Recipients(c, p) ==
    {d \in m_connected \ {c} :
        /\ BusOf[d] = BusOf[c]
        /\ isTypeBroadcast(p) \/ Type[d] = p.type
        /\ isInstanceBroadcast(p) \/ Instance[d] = p.instance
        /\ MsgType[p.message] \in Known[d]}

\* LocalConnection::sendMessage, notifyMessageRecieved: all the listeners.
Calls(c, p) == UNION {{d} \X DOMAIN m_msgListeners[d] : d \in Recipients(c, p)}

\* Mutant: a pool that starts any of its work.
RouteAny(i) ==
    /\ Running /\ i \in 1 .. submitted /\ i \notin begun /\ Cardinality(InService) < Slots
    /\ begun' = begun \cup {i} /\ UNCHANGED <<submitted, finished>>
    /\ left' = [left EXCEPT ![i] = Calls(packets[i].sender, packets[i].packet)]
    /\ UNCHANGED <<packets, m_connected, m_msgListeners, failure>>

\* Mutant: packets of a sender that has disconnected wait for it to come back.
RouteIfConnected(i) ==
    /\ Running /\ pool!Begin(i) /\ packets[i].sender \in m_connected
    /\ left' = [left EXCEPT ![i] = Calls(packets[i].sender, packets[i].packet)]
    /\ UNCHANGED <<packets, m_connected, m_msgListeners, failure>>

\* A thread of the pool takes the packet i; nothing asks whether its sender is
\* still connected.
RouteMessage(i) ==
    /\ Running /\ pool!Begin(i)
    /\ left' = [left EXCEPT ![i] = Calls(packets[i].sender, packets[i].packet)]
    /\ UNCHANGED <<packets, m_connected, m_msgListeners, failure>>

\* Everyone was called; the clone is deleted.
RouteEnds(i) ==
    /\ Running /\ i \in InService /\ left[i] = {}
    /\ pool!Finish(i)
    /\ UNCHANGED <<packets, left, m_connected, m_msgListeners, failure>>
=============================================================================
