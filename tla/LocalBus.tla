------------------------------ MODULE LocalBus ------------------------------
(***************************************************************************)
(* BasicBus with LocalConnections (comms-lib): the table of connections,   *)
(* the routing of a packet by type and instance, and what happens when the *)
(* listeners that routing calls use the bus themselves.                    *)
(*                                                                         *)
(* Everything runs on one thread, routing included: a listener that sends, *)
(* connects or disconnects does so in the middle of the loops of Bus.cpp,  *)
(* which are modelled with their iterators.  A routing in progress is a    *)
(* frame of "stack".  A frame is addressed (the type is given: the loops   *)
(* walk the live table) or a broadcast to all types (the loops walk a copy *)
(* of the inner map, made for each type when its turn comes).              *)
(***************************************************************************)
EXTENDS MessagePacket, AbstractConnection, FiniteSets, SequencesExt

CONSTANTS
    Conns,           \* the LocalConnections
    Type, Instance,  \* the address of each
    Known,           \* the messages registered with each one's MessageFactory
    Packets,         \* the packets that may be sent
    Listeners,       \* the message listeners
    Attached,        \* the vectors of listeners the connections may begin with
    Changing,        \* the listeners that may come and go, with their connections
    MaxDepth,        \* bound on the nesting of routings
    MaxSends,        \* bound on the number of packets sent
    MaxChanges       \* bound on the disconnections and changes of listeners

\* Architecture: types and instances are positive, and their combination is
\* unique within a bus.
ASSUME AddressAssumption ==
    /\ Type \in [Conns -> Nat \ {0}] /\ Instance \in [Conns -> Nat \ {0}]
    /\ \A c, d \in Conns : c # d => <<Type[c], Instance[c]>> # <<Type[d], Instance[d]>>
ASSUME BoundsAssumption ==
    MaxDepth \in Nat /\ MaxSends \in Nat /\ MaxChanges \in Nat
ASSUME ListenersAssumption ==
    Attached \subseteq [Conns -> Seq(Listeners)] /\ Changing \subseteq Conns \X Listeners

VARIABLES
    m_bus,          \* the connections on which registerBus was called
    m_connected,    \* the connections whose flag m_connected is set
    m_connections,  \* the bus's table: for each type, ordered by instance
    stack,          \* the routings in progress, the innermost last
    finished,       \* the routing that has just run to its end, or NoFrame
    undefined,      \* the routing that used an invalid iterator, or NoFrame
    m_msgListeners, \* the vector of listeners of each connection
    wanted,         \* the listeners added and not removed, and how often
    doubled,        \* the connections that had a listener twice at a time
    sends, changes

vars == <<m_bus, m_connected, m_connections, stack, finished, undefined,
          m_msgListeners, wanted, doubled, sends, changes>>

listening == <<m_msgListeners, wanted, doubled>>

Types == {Type[c] : c \in Conns}

End == "end"            \* the end() iterator of an inner map
Dangling == "dangling"  \* an iterator whose element has been erased
NoFrame == [phase |-> "none"]
NoOne == "no one"       \* no connection is being notified

\* A message is a model value, an address a number; no connection is called
\* like the marks above.
ASSUME PacketsAssumption == \A p \in Packets : p.type \in Int /\ p.instance \in Int
ASSUME MarksAssumption == End \notin Conns /\ Dangling \notin Conns /\ NoOne \notin Conns

\* How often x occurs in s.
Times(s, x) == Cardinality({i \in DOMAIN s : s[i] = x})

Init ==
    /\ m_bus = {} /\ m_connected = {}
    /\ m_connections = [t \in Types |-> <<>>]
    /\ stack = <<>> /\ finished = NoFrame /\ undefined = NoFrame
    /\ m_msgListeners \in Attached
    /\ wanted = [c \in Conns |-> [l \in Listeners |-> Times(m_msgListeners[c], l)]]
    /\ doubled = {c \in Conns : \E l \in Listeners : wanted[c][l] > 1}
    /\ sends = 0 /\ changes = 0

-----------------------------------------------------------------------------
(* The table of connections.                                               *)

\* The application may call the connections between routings, and any
\* listener may while it is being called.
CanCall ==
    undefined = NoFrame /\ (IF stack = <<>> THEN TRUE ELSE Last(stack).phase = "call")

\* insert() of a multimap: after the elements whose key is not greater.
Inserted(s, c) ==
    LET before == {i \in DOMAIN s : Instance[s[i]] <= Instance[c]}
    IN  InsertAt(s, Cardinality(before) + 1, c)

RegisterBus(c) ==
    /\ CanCall /\ c \notin m_bus
    /\ m_bus' = m_bus \cup {c}
    /\ UNCHANGED <<m_connected, m_connections, stack, finished, undefined, listening, sends, changes>>

\* Mutant: no test of isConnected().
ConnectAgain(c) ==
    /\ CanCall /\ c \in m_bus
    /\ m_connections' = [m_connections EXCEPT ![Type[c]] = Inserted(@, c)]
    /\ m_connected' = m_connected \cup {c}
    /\ stack' = [i \in DOMAIN stack |-> [stack[i] EXCEPT !.touched = @ \cup ({c} \X Listeners)]]
    /\ finished' = NoFrame
    /\ UNCHANGED <<m_bus, undefined, listening, sends, changes>>

\* LocalConnection::connect, AbstractBus::connected.  The routings in progress
\* record the connections that came or went under them.
Connect(c) ==
    /\ CanCall /\ c \in m_bus /\ c \notin m_connected
    /\ m_connections' = [m_connections EXCEPT ![Type[c]] = Inserted(@, c)]
    /\ m_connected' = m_connected \cup {c}
    /\ stack' = [i \in DOMAIN stack |-> [stack[i] EXCEPT !.touched = @ \cup ({c} \X Listeners)]]
    /\ finished' = NoFrame
    /\ UNCHANGED <<m_bus, undefined, listening, sends, changes>>

\* Erasing the element of c invalidates the iterators that point to it.
Invalidate(it, c) == IF it = c THEN Dangling ELSE it

\* LocalConnection::disconnect, AbstractBus::disconnected.
Disconnect(c) ==
    /\ CanCall /\ c \in m_connected /\ changes < MaxChanges
    /\ m_connections' = [m_connections EXCEPT ![Type[c]] = RemoveFirst(@, c)]
    /\ m_connected' = m_connected \ {c}
    /\ stack' = [i \in DOMAIN stack |->
                   [stack[i] EXCEPT !.touched = @ \cup ({c} \X Listeners), !.erased = @ \cup {c},
                                    !.it = Invalidate(@, c), !.end = Invalidate(@, c)]]
    /\ changes' = changes + 1
    /\ finished' = NoFrame
    /\ UNCHANGED <<m_bus, undefined, listening, sends>>

-----------------------------------------------------------------------------
(* The listeners of a connection.                                          *)

\* The routings that are notifying the listeners of c (NotifyFirst) hold
\* iterators of the vector, and at least that of its end is no longer valid.
Relistened(c, l) ==
    [i \in DOMAIN stack |-> [stack[i] EXCEPT !.touched = @ \cup {<<c, l>>},
                                            !.stale = @ \/ stack[i].to = c]]

\* Nothing keeps a listener from being added twice.
AddMessageListener(c, l) ==
    /\ CanCall /\ changes < MaxChanges
    /\ m_msgListeners' = [m_msgListeners EXCEPT ![c] = addMessageListener(@, l)]
    /\ wanted' = [wanted EXCEPT ![c][l] = @ + 1]
    /\ doubled' = IF wanted[c][l] > 0 THEN doubled \cup {c} ELSE doubled
    /\ stack' = Relistened(c, l)
    /\ changes' = changes + 1
    /\ finished' = NoFrame
    /\ UNCHANGED <<m_bus, m_connected, m_connections, undefined, sends>>

\* A listener is removed by who added it, as the destructors of Node and
\* MessageForwarder do.  Erasing end() is undefined.
RemoveMessageListener(c, l) ==
    /\ CanCall /\ changes < MaxChanges /\ wanted[c][l] > 0
    /\ m_msgListeners' = [m_msgListeners EXCEPT ![c] = removeMessageListener(@, l)]
    /\ undefined' = IF Contains(m_msgListeners[c], l) THEN NoFrame
                                                      ELSE [phase |-> "remove", to |-> c]
    /\ wanted' = [wanted EXCEPT ![c][l] = @ - 1]
    /\ stack' = Relistened(c, l)
    /\ changes' = changes + 1
    /\ finished' = NoFrame
    /\ UNCHANGED <<m_bus, m_connected, m_connections, doubled, sends>>

-----------------------------------------------------------------------------
(* Routing.                                                                *)

\* The element after position i of s, as an iterator.
At(s, i) == IF i <= Len(s) THEN s[i] ELSE End

\* First element of s with at least the given instance: lower_bound(); with a
\* greater one: upper_bound().
lower_bound(s, n) == At(s, Cardinality({i \in DOMAIN s : Instance[s[i]] < n}) + 1)
upper_bound(s, n) == At(s, Cardinality({i \in DOMAIN s : Instance[s[i]] <= n}) + 1)

\* What the Readme and Bus.h promise for a packet: everyone whose address
\* matches and whose MessageFactory knows the message, but for the sender; and
\* of each, the listeners it was given.
Addressed(sender, p) ==
    {x \in (m_connected \ {sender}) \X Listeners :
        /\ isTypeBroadcast(p) \/ Type[x[1]] = p.type
        /\ isInstanceBroadcast(p) \/ Instance[x[1]] = p.instance
        /\ p.message \in Known[x[1]]
        /\ wanted[x[1]][x[2]] > 0}

\* sendToSingleRecipient, broadcastToAllInstancesSingleType: where the loop
\* over the inner map starts and ends; nothing when the type is unknown.
AddressedBounds(p) ==
    IF p.type \notin Types THEN [it |-> End, end |-> End]
    ELSE IF isInstanceBroadcast(p)
         THEN [it |-> At(m_connections[p.type], 1), end |-> End]
         ELSE [it |-> lower_bound(m_connections[p.type], p.instance),
               end |-> upper_bound(m_connections[p.type], p.instance)]

\* LocalConnection::sendPacket (which throws when the message is not
\* registered or the connection not connected), BasicBus::sendMessage and the
\* choice of routeMessage: a new frame.
Send(c, p) ==
    /\ CanCall /\ c \in m_connected /\ p.message \in Known[c]
    /\ sends < MaxSends /\ Len(stack) < MaxDepth
    /\ LET bounds == IF isTypeBroadcast(p) THEN [it |-> End, end |-> End]
                                           ELSE AddressedBounds(p)
       IN stack' = Append(stack,
             [sender |-> c, packet |-> p, phase |-> "test",
              it |-> bounds.it, end |-> bounds.end,         \* of an addressed frame
              at |-> 0, copy |-> <<>>,                      \* of a broadcast
              to |-> NoOne, left |-> <<>>, stale |-> FALSE, \* while it notifies
              expected |-> Addressed(c, p), got |-> <<>>, touched |-> {}, erased |-> {}])
    /\ sends' = sends + 1
    /\ finished' = NoFrame
    /\ UNCHANGED <<m_bus, m_connected, m_connections, undefined, listening, changes>>

Top == Last(stack)
SetTop(f) == stack' = Append(Front(stack), f)
Routing == undefined = NoFrame /\ stack # <<>>
table == <<m_bus, m_connected, m_connections, listening, sends, changes>>

\* AbstractConnection::notifyMessageRecieved: its loop begins, with the first
\* listener of the connection c.
NotifyFirst(f, c) ==
    IF m_msgListeners[c] = <<>> THEN [f EXCEPT !.phase = "advance"]
    ELSE [f EXCEPT !.phase = "call", !.to = c, !.left = m_msgListeners[c],
                   !.got = Append(@, <<c, Head(m_msgListeners[c])>>)]

\* Mutant: the sender is not skipped.
CallSenderToo(f, c) ==
    IF f.packet.message \notin Known[c] THEN [f EXCEPT !.phase = "advance"]
                                        ELSE NotifyFirst(f, c)

\* sendToRecipient and LocalConnection::sendMessage: the sender is skipped,
\* and so is a connection that does not know the message; else its listeners
\* are called.  Nothing asks whether the connection is still connected.
CallRecipient(f, c) ==
    IF c = f.sender \/ f.packet.message \notin Known[c]
      THEN [f EXCEPT !.phase = "advance"]
      ELSE NotifyFirst(f, c)

\* A listener returns, and the loop goes on to the next one.
ListenerReturns ==
    /\ Routing /\ Top.phase = "call"
    /\ CASE Top.stale ->
              undefined' = Top /\ UNCHANGED stack
         [] ~Top.stale /\ Len(Top.left) > 1 ->
              /\ SetTop([Top EXCEPT !.left = Tail(@),
                                    !.got = Append(@, <<Top.to, Top.left[2]>>)])
              /\ UNCHANGED undefined
         [] OTHER ->
              /\ SetTop([Top EXCEPT !.phase = "advance", !.to = NoOne, !.left = <<>>])
              /\ UNCHANGED undefined
    /\ finished' = NoFrame
    /\ UNCHANGED table

\* A listener throws (a send on a closed connection, a message of the wrong
\* class, a rule of a BridgeNode that cannot be followed): the loops of n
\* routings are left, up to a listener or the application that catches it.
ListenerThrows ==
    /\ Routing /\ Top.phase = "call"
    /\ \E n \in 1 .. Len(stack) : stack' = SubSeq(stack, 1, Len(stack) - n)
    /\ finished' = NoFrame
    /\ UNCHANGED <<table, undefined>>

\* Addressed frames: the loop test, the call, and the increment.
AddressedTest ==
    /\ Routing /\ Top.phase = "test" /\ ~isTypeBroadcast(Top.packet)
    /\ CASE Top.it = Top.end ->
              stack' = Front(stack) /\ finished' = Top /\ UNCHANGED undefined
         [] Top.it # Top.end /\ Top.it = End ->
              undefined' = Top /\ finished' = NoFrame /\ UNCHANGED stack
         [] OTHER ->
              /\ SetTop(CallRecipient(Top, Top.it))
              /\ finished' = NoFrame /\ UNCHANGED undefined
    /\ UNCHANGED table

AddressedAdvance ==
    /\ Routing /\ Top.phase = "advance" /\ ~isTypeBroadcast(Top.packet)
    /\ IF Top.it = Dangling
         THEN undefined' = Top /\ UNCHANGED stack
         ELSE LET s == m_connections[Top.packet.type]
                  i == CHOOSE i \in DOMAIN s : s[i] = Top.it
              IN  /\ SetTop([Top EXCEPT !.phase = "test", !.it = At(s, i + 1)])
                  /\ UNCHANGED undefined
    /\ finished' = NoFrame
    /\ UNCHANGED table

\* Broadcasts: the types after the current one, in order; the part of a
\* type's inner map that broadcastToAll (all of it) or
\* broadcastToSingleInstanceAllTypes (the result of find) uses.
LaterTypes == {t \in Types : t > Top.at /\ m_connections[t] # <<>>}
NextType == CHOOSE t \in LaterTypes : \A u \in LaterTypes : t <= u

Chosen(s, p) ==
    IF isInstanceBroadcast(p) THEN s
    ELSE LET c == lower_bound(s, p.instance)
         IN  IF c # End /\ Instance[c] = p.instance THEN <<c>> ELSE <<>>

BroadcastTest ==
    /\ Routing /\ Top.phase = "test" /\ isTypeBroadcast(Top.packet)
    /\ IF Top.copy # <<>>
         THEN SetTop(CallRecipient(Top, Head(Top.copy))) /\ finished' = NoFrame
         ELSE IF LaterTypes = {}
              THEN stack' = Front(stack) /\ finished' = Top
              ELSE /\ SetTop([Top EXCEPT !.at = NextType,
                                         !.copy = Chosen(m_connections[NextType], Top.packet)])
                   /\ finished' = NoFrame
    /\ UNCHANGED <<table, undefined>>

\* Mutant: "auto &typePair", so that the loop walks the live inner map.
BroadcastAdvanceByReference ==
    /\ Routing /\ Top.phase = "advance" /\ isTypeBroadcast(Top.packet)
    /\ IF Head(Top.copy) \in Top.erased
         THEN undefined' = Top /\ UNCHANGED stack
         ELSE SetTop([Top EXCEPT !.phase = "test", !.copy = Tail(@)]) /\ UNCHANGED undefined
    /\ finished' = NoFrame
    /\ UNCHANGED table

BroadcastAdvance ==
    /\ Routing /\ Top.phase = "advance" /\ isTypeBroadcast(Top.packet)
    /\ SetTop([Top EXCEPT !.phase = "test", !.copy = Tail(@)])
    /\ finished' = NoFrame
    /\ UNCHANGED <<table, undefined>>

RouteStep ==
    \/ ListenerReturns \/ ListenerThrows
    \/ AddressedTest \/ AddressedAdvance \/ BroadcastTest \/ BroadcastAdvance

Next ==
    \/ \E c \in Conns : \/ RegisterBus(c) \/ Connect(c) \/ Disconnect(c)
                        \/ \E p \in Packets : Send(c, p)
    \/ \E x \in Changing : AddMessageListener(x[1], x[2]) \/ RemoveMessageListener(x[1], x[2])
    \/ RouteStep

Spec == Init /\ [][Next]_vars

\* A routing in progress goes on: its listeners return or throw.
FairSpec == Spec /\ WF_vars(RouteStep)

-----------------------------------------------------------------------------
(* Properties.                                                             *)

\* A connection is in the bus's table exactly when it is connected, once, under
\* its own type, and each inner map is ordered: the table itself checks nothing
\* (Bus.cpp:16 wonders whether it should), so this rests on the flag that each
\* LocalConnection keeps, also when listeners connect and disconnect.
TableIsExact ==
    \A t \in Types :
        LET s == m_connections[t] IN
        /\ \A c \in Conns :
              Cardinality({i \in DOMAIN s : s[i] = c})
                = IF c \in m_connected /\ Type[c] = t THEN 1 ELSE 0
        /\ \A i, j \in DOMAIN s : i < j => Instance[s[i]] < Instance[s[j]]

\* A routing that runs to its end has called each listener of each recipient
\* the packet was addressed to when it was sent, once, and nobody else,
\* whatever the listeners sent meanwhile; except that those which came or went
\* in between may have been called or not (but not twice), and that nothing is
\* said of a connection that had a listener twice at a time: erase() in
\* removeMessageListener then leaves one too many, or one twice.
RoutedExactly ==
    finished # NoFrame =>
        \A c \in Conns \ doubled : \A l \in Listeners :
            LET n == Times(finished.got, <<c, l>>) IN
            IF <<c, l>> \in finished.touched THEN n <= 1
            ELSE n = IF <<c, l>> \in finished.expected THEN 1 ELSE 0

\* No routing to all types ever uses an invalid iterator of the table, whatever
\* its listeners do: it walks copies.  An addressed one does so only when a
\* listener disconnected a connection of the type it addresses.  The loop over
\* the listeners of a connection is broken only by a listener that comes or
\* goes on this very connection, and removing a listener that was added is
\* undefined only if one was added twice.
UndefinedOnlyByErasure ==
    undefined # NoFrame =>
        CASE undefined.phase = "remove" -> undefined.to \in doubled
          [] undefined.phase = "call" -> \E l \in Listeners : <<undefined.to, l>> \in undefined.touched
          [] OTHER -> /\ ~isTypeBroadcast(undefined.packet)
                      /\ \E c \in undefined.erased : Type[c] = undefined.packet.type
=============================================================================
