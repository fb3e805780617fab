---------------------------- MODULE BridgedBuses ----------------------------
(***************************************************************************)
(* Nodes with their processors, and BridgeNodes that join threaded buses   *)
(* (comms-lib).  The application builds, uses and destroys them on threads *)
(* of its own while those of the pool call their listeners.                *)
(*                                                                         *)
(* A bridge is two MessageForwarders.  They are built and destroyed one    *)
(* after the other, and each step of that is an action: a bridge that is   *)
(* half built or half destroyed receives messages already, or still.  An   *)
(* exception that a listener lets out ends the program: the loop of the    *)
(* pool's threads catches nothing.                                         *)
(***************************************************************************)
EXTENDS ThreadedBus

CONSTANTS
    Nodes,               \* the connections that Nodes use
    Bridges, Internal, External,  \* the bridges and their connections
    Processors,          \* the MessageProcessors: a node and the class converted to
    Standing,            \* the bridges that are built from the beginning
    Sends,               \* what nodes may send: a node and a packet
    Rules,               \* the rules a forwarder may be given
    MaxSends,            \* bound on the packets the nodes send
    MaxWork,             \* bound on the packets scheduled
    MaxRules,            \* bound on the calls that add rules
    MaxChanges           \* bound on destructions, disconnections, processors removed

VARIABLES
    stage,          \* of each bridge: how far it is built or destroyed
    m_routing,      \* the rules of each forwarder, at most one per message type
    m_processors,   \* the processor of each node, by message type
    node,           \* the nodes that exist
    got,            \* the packets each node's listener was called with
    ruled,          \* all the rules a forwarder ever had
    sends, changes

nodeVars == <<stage, m_routing, m_processors, node, got, ruled, sends, changes>>
vars == <<busVars, nodeVars>>

MsgTypes == {MsgType[m] : m \in DOMAIN MsgType}
None == "none"

\* The forwarders, the connection each listens to and the one it sends to.
Directions == {"toExternal", "toInternal"}
Forwarders == Bridges \X Directions
m_fromConnection(f) == IF f[2] = "toExternal" THEN Internal[f[1]] ELSE External[f[1]]
m_toConnection(f) == IF f[2] = "toExternal" THEN External[f[1]] ELSE Internal[f[1]]

\* A bridge is given connections of its own, "each of which should be connected
\* to a different bus" (BridgeNode.h).
ASSUME BridgeAssumption ==
    /\ Nodes \subseteq Conns /\ Standing \subseteq Bridges
    /\ \A b \in Bridges : /\ Internal[b] \in Conns \ Nodes /\ External[b] \in Conns \ Nodes
                          /\ BusOf[Internal[b]] # BusOf[External[b]]
    /\ \A f, g \in Forwarders : m_fromConnection(f) = m_fromConnection(g) => f = g

\* Nodes, forwarders and messages are what the constants say.
ASSUME UseAssumption ==
    /\ Nodes \cap Forwarders = {} /\ None \notin DOMAIN MsgType
    /\ Processors \subseteq Nodes \X DOMAIN MsgType
    /\ \A s \in Sends : s[1] \in Nodes /\ s[2].message \in DOMAIN MsgType
    /\ \A x \in Rules : x[1] \in Forwarders

\* The constructor of Node has added the node to the listeners of its connection;
\* the nodes and some of the bridges are connected, the nodes have processors.
Init ==
    /\ BusInit
    /\ m_connected = Nodes \cup {Internal[b] : b \in Standing} \cup {External[b] : b \in Standing}
    /\ m_msgListeners = [c \in Conns |->
          IF c \in Nodes THEN addMessageListener(<<>>, c)
          ELSE IF \E f \in Standing \X Directions : m_fromConnection(f) = c
          THEN addMessageListener(<<>>, CHOOSE f \in Standing \X Directions : m_fromConnection(f) = c)
          ELSE <<>>]
    /\ stage = [b \in Bridges |-> IF b \in Standing THEN "built" ELSE None]
    /\ m_routing = [f \in Forwarders |-> {}]
    /\ m_processors = [n \in Nodes |-> [t \in MsgTypes |->
          LET rs == {r \in DOMAIN MsgType : <<n, r>> \in Processors /\ MsgType[r] = t}
          IN  IF rs = {} THEN None ELSE CHOOSE r \in rs : TRUE]]
    /\ node = Nodes
    /\ got = [n \in Nodes |-> <<>>]
    /\ ruled = {} /\ sends = 0 /\ changes = 0

poolVars == <<submitted, begun, finished, packets, left>>

-----------------------------------------------------------------------------
(* Nodes, called by the application.                                       *)

\* Mutant: the listener is added here too, and not only by the constructor.
ConnectAndListen(n) ==
    /\ Running /\ n \in node \ m_connected
    /\ m_connected' = m_connected \cup {n}
    /\ m_msgListeners' = [m_msgListeners EXCEPT ![n] = addMessageListener(@, n)]
    /\ TableChange(BusOf[n])
    /\ UNCHANGED <<poolVars, nodeVars>>

\* Node::connect, LocalConnection::connect, AbstractBus::connected; and the same
\* for disconnect.
Connect(n) ==
    /\ Running /\ n \in node \ m_connected
    /\ m_connected' = m_connected \cup {n}
    /\ TableChange(BusOf[n])
    /\ UNCHANGED <<poolVars, m_msgListeners, nodeVars>>

Disconnect(n) ==
    /\ Running /\ n \in node \cap m_connected /\ changes < MaxChanges
    /\ m_connected' = m_connected \ {n}
    /\ TableChange(BusOf[n])
    /\ changes' = changes + 1
    /\ UNCHANGED <<poolVars, m_msgListeners, stage, m_routing, m_processors, node, got, ruled, sends>>

\* The destructor, which also disconnects.
DestroyNode(n) ==
    /\ Running /\ n \in node /\ changes < MaxChanges
    /\ m_msgListeners' = [m_msgListeners EXCEPT ![n] = removeMessageListener(@, n)]
    /\ m_connected' = m_connected \ {n}
    /\ node' = node \ {n}
    /\ TableChange(BusOf[n])
    /\ changes' = changes + 1
    /\ UNCHANGED <<poolVars, stage, m_routing, m_processors, got, ruled, sends>>

\* A processor replaces the one that its node had for the same type.
AddProcessor(n, r) ==
    /\ Running /\ n \in node
    /\ m_processors' = [m_processors EXCEPT ![n][MsgType[r]] = r]
    /\ ListenerChange(n)
    /\ UNCHANGED <<poolVars, m_connected, m_msgListeners, stage, m_routing, node, got, ruled, sends, changes>>

\* Only the processor itself is removed, and not one that has replaced it.
RemoveProcessor(n, r) ==
    /\ Running /\ n \in node /\ changes < MaxChanges
    /\ m_processors[n][MsgType[r]] = r
    /\ m_processors' = [m_processors EXCEPT ![n][MsgType[r]] = None]
    /\ ListenerChange(n)
    /\ changes' = changes + 1
    /\ UNCHANGED <<poolVars, m_connected, m_msgListeners, stage, m_routing, node, got, ruled, sends>>

\* Node::sendMessage and LocalConnection::sendPacket, which throw to the caller
\* when the node is not connected or the message not registered.
NodeSends(n, p) ==
    /\ Running /\ n \in node \cap m_connected /\ MsgType[p.message] \in Known[n]
    /\ sends < MaxSends
    /\ sendMessage(n, p, submitted + 1, <<>>, left)
    /\ sends' = sends + 1
    /\ UNCHANGED <<m_connected, m_msgListeners, failure,
                   stage, m_routing, m_processors, node, got, ruled, changes>>

-----------------------------------------------------------------------------
(* Bridges, called by the application.                                     *)

\* The constructor and the destructor of a MessageForwarder.
CreateForwarder(f) ==
    LET c == m_fromConnection(f) IN
    /\ m_msgListeners' = [m_msgListeners EXCEPT ![c] = addMessageListener(@, f)]
    /\ m_connected' = m_connected \cup {c}
    /\ TableChange(BusOf[c])
    /\ UNCHANGED poolVars

DestroyForwarder(f) ==
    LET c == m_fromConnection(f) IN
    /\ m_msgListeners' = [m_msgListeners EXCEPT ![c] = removeMessageListener(@, f)]
    /\ m_connected' = m_connected \ {c}
    /\ TableChange(BusOf[c])
    /\ UNCHANGED poolVars

SetStage(b, from, to) == stage[b] = from /\ stage' = [stage EXCEPT ![b] = to]

\* BridgeNode::BridgeNode: the members in the order of their declaration.
CreateBridge(b) ==
    /\ Running
    /\ \/ SetStage(b, None, "half built") /\ CreateForwarder(<<b, "toExternal">>)
       \/ SetStage(b, "half built", "built") /\ CreateForwarder(<<b, "toInternal">>)
    /\ UNCHANGED <<m_routing, m_processors, node, got, ruled, sends, changes>>

\* The destructor: the members in reverse.  A forwarder's rules go with it.
DestroyBridge(b) ==
    /\ Running
    /\ \/ /\ SetStage(b, "built", "half destroyed") /\ DestroyForwarder(<<b, "toInternal">>)
          /\ changes < MaxChanges /\ changes' = changes + 1
       \/ /\ SetStage(b, "half destroyed", "destroyed") /\ DestroyForwarder(<<b, "toExternal">>)
          /\ UNCHANGED changes
    /\ UNCHANGED <<m_routing, m_processors, node, got, ruled, sends>>

\* find(): the rule that a forwarder has for a message type.
RuleFor(f, t) == {r \in m_routing[f] : r.message = t}

\* addForwardToInternalRule, addForwardToExternalRule: a rule replaces the one
\* that the forwarder had for the message type.
AddRule(f, r) ==
    /\ Running /\ stage[f[1]] = "built" /\ Cardinality(ruled) < MaxRules
    /\ m_routing' = [m_routing EXCEPT ![f] = (@ \ RuleFor(f, r.message)) \cup {r}]
    /\ ruled' = ruled \cup {<<f, r>>}
    /\ ListenerChange(f)
    /\ UNCHANGED <<poolVars, m_connected, m_msgListeners,
                   stage, m_processors, node, got, sends, changes>>

-----------------------------------------------------------------------------
(* The listeners, called by the threads of the pool.                       *)

\* x is the call that the routing of i makes now.
Calling(i, x) == Running /\ i \in InService /\ First(x, left[i])
AfterCall(i, x) == [left EXCEPT ![i] = @ \ {x}]
Returns(i, x) == left' = AfterCall(i, x) /\ UNCHANGED <<submitted, begun, finished, packets>>

\* Node::messageReceived and MessageProcessor::process: a message without a
\* processor is dropped; one that is of another class than the processor
\* converts to makes it throw.
NodeReceives(i, x) ==
    /\ Calling(i, x) /\ Listener(x) \in Nodes
    /\ LET p == packets[i]
           n == Listener(x)
           r == m_processors[n][MsgType[p.packet.message]]
       IN  /\ failure' = IF r \notin {None, p.packet.message} THEN "wrong class" ELSE NoFailure
           /\ got' = [got EXCEPT ![n] = Append(@, [origin |-> p.origin, trail |-> p.trail])]
    /\ Returns(i, x)
    /\ UNCHANGED <<m_connected, m_msgListeners, stage, m_routing, m_processors, node, ruled, sends, changes>>

\* LocalConnection::sendPacket for the forwarder f: it throws when the connection
\* is not connected or does not know the message.
Forward(i, x, f, type, instance) ==
    LET p == packets[i]
        m == p.packet.message
        d == m_toConnection(f)
    IN  CASE d \notin m_connected ->
               failure' = "not connected" /\ Returns(i, x)
          [] d \in m_connected /\ MsgType[m] \notin Known[d] ->
               failure' = "not registered" /\ Returns(i, x)
          [] OTHER ->
               /\ submitted < MaxWork
               /\ sendMessage(d, Packet(m, type, instance), p.origin, Append(p.trail, f), AfterCall(i, x))
               /\ UNCHANGED failure

\* Mutant: m_routing[type] instead of find(), which makes an empty rule.
ForwardAlways(i, x) ==
    /\ Calling(i, x) /\ Listener(x) \in Forwarders
    /\ LET f == Listener(x)
           found == RuleFor(f, MsgType[packets[i].packet.message])
       IN  \E r \in IF found = {} THEN {Packet("", 0, 0)} ELSE found :
              Forward(i, x, f, r.type, r.instance)
    /\ UNCHANGED <<m_connected, m_msgListeners, nodeVars>>

\* MessageForwarder::messageReceived: a message without a rule is dropped.
ForwarderReceives(i, x) ==
    /\ Calling(i, x) /\ Listener(x) \in Forwarders
    /\ LET f == Listener(x)
           found == RuleFor(f, MsgType[packets[i].packet.message])
       IN  \/ found = {} /\ Returns(i, x) /\ UNCHANGED failure
           \/ \E r \in found : Forward(i, x, f, r.type, r.instance)
    /\ UNCHANGED <<m_connected, m_msgListeners, nodeVars>>

-----------------------------------------------------------------------------
Application ==
    \/ \E n \in Nodes : \/ Connect(n) \/ Disconnect(n) \/ DestroyNode(n)
    \/ \E q \in Processors : AddProcessor(q[1], q[2]) \/ RemoveProcessor(q[1], q[2])
    \/ \E s \in Sends : NodeSends(s[1], s[2])
    \/ \E b \in Bridges : CreateBridge(b) \/ DestroyBridge(b)
    \/ \E x \in Rules : AddRule(x[1], x[2])

PoolStep ==
    \E i \in (1 .. submitted) \ finished :
        \/ (RouteMessage(i) \/ RouteEnds(i)) /\ UNCHANGED nodeVars
        \/ \E x \in left[i] : NodeReceives(i, x) \/ ForwarderReceives(i, x)

Next == Application \/ PoolStep

\* The threads of the pool run on; the application may stop at any time.
Spec == Init /\ [][Next]_vars /\ WF_vars(PoolStep)

-----------------------------------------------------------------------------
(* Properties.                                                             *)

\* The packets that the forwarder of x sends by its rule are for the forwarder of
\* y, which has a rule for them too.
Feeds(x, y) ==
    LET c == m_toConnection(x[1])
        d == m_fromConnection(y[1])
    IN  /\ x[2].message = y[2].message
        /\ c # d /\ BusOf[c] = BusOf[d]
        /\ isTypeBroadcast(x[2]) \/ Type[d] = x[2].type
        /\ isInstanceBroadcast(x[2]) \/ Instance[d] = x[2].instance

\* Some rules send messages in circles.
Looping ==
    \E S \in (SUBSET ruled) \ {{}} : \A x \in S : \E y \in S : Feeds(x, y)

\* Along each path of forwarders a node gets a packet at most once, whatever
\* nodes, bridges and threads of the pool do meanwhile: copies come only from
\* different bridges.
OncePerPath ==
    \A n \in Nodes : \A i, j \in DOMAIN got[n] : got[n][i] = got[n][j] => i = j

\* A bridge never takes back what it has forwarded itself, also when both its
\* directions have a rule for the message and the packet is a broadcast: the
\* connection on which it sends is the one on which it would receive it.
NeverSentBack ==
    \A i \in DOMAIN packets :
        LET trail == packets[i].trail
        IN  \A k \in 1 .. Len(trail) - 1 : trail[k][1] # trail[k + 1][1]

\* An exception ends the program only in three cases: a bridge that is being
\* destroyed still receives on its internal side what it can no longer send
\* (never one that is being built, as it has no rules yet); a rule for a
\* message the other connection does not know; and two classes of messages
\* that share a type.
CrashOnlyByMisuse ==
    /\ failure = "not connected" => \E b \in Bridges : stage[b] = "half destroyed"
    /\ failure = "not registered" =>
          \E x \in ruled : x[2].message \notin Known[m_toConnection(x[1])]
    /\ failure = "wrong class" =>
          \E i \in DOMAIN packets, q \in Processors :
             q[2] # packets[i].packet.message /\ MsgType[q[2]] = MsgType[packets[i].packet.message]

\* ThreadedBus does not keep the order of packets, but bounds the disorder: a
\* packet that is being routed has overtaken fewer packets than the pool has
\* threads.
FewOvertakers ==
    \A i \in begun : Cardinality({j \in 1 .. i - 1 : j \notin finished}) < Slots

\* Everything that is sent is routed to its end, with all that bridges make of
\* it, unless the program fails or the rules send messages in circles.
ForwardingEnds ==
    []<>(finished = 1 .. submitted \/ ~Running \/ Looping)
=============================================================================
