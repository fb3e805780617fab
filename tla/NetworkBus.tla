----------------------------- MODULE NetworkBus -----------------------------
(***************************************************************************)
(* The remote bus of comms-lib: clients that connect over TCP, the         *)
(* handshake that tells the server their address, their registration with  *)
(* the server's bus, and the broadcast of their messages.                  *)
(*                                                                         *)
(* Threads: each client's own thread (connect, disconnect, send), a reader *)
(* thread per client socket, and in the server the thread that accepts     *)
(* connections and a reader thread per accepted connection.  The bus is a  *)
(* BasicBus: a message is routed by the reader thread that received it.    *)
(*                                                                         *)
(* TCP is a reliable FIFO stream per direction.  Nothing frames the        *)
(* messages: one read() returns one or several of them, of which only the  *)
(* first is deserialized, the rest of the buffer being ignored.  (Reads    *)
(* that return part of a message are not modelled.)                        *)
(***************************************************************************)
EXTENDS Integers, Sequences, FiniteSetsExt

CONSTANTS
    Clients,
    MaxConnects,   \* bound on the connections the clients make in all
    MaxMsgs,       \* bound on the messages the clients send in all
    EarlySend      \* clients may send as soon as connect() has returned

ASSUME BoundsAssumption ==
    /\ IsFiniteSet(Clients) /\ MaxConnects \in Nat /\ MaxMsgs \in Nat
    /\ EarlySend \in BOOLEAN

\* A connection is one TCP connection of a client: the k-th connect() of all.
Conns == 1 .. MaxConnects
NoClient == "no client"

Init_ == [kind |-> "HandshakeInitMessage"]
Response(c) == [kind |-> "HandshakeResponseMessageV1", client |-> c]
Complete == [kind |-> "HandshakeCompleteMessage"]
App(k, n) == [kind |-> "app", from |-> k, nr |-> n]
VARIABLES
    serverUp,       \* the server socket listens and its thread accepts
    crashed,        \* the server process has died
    raced,          \* two threads have used one of its maps at a time
    backlog,        \* established connections not yet accepted
    acceptor,       \* step of the accept thread within execLoop
    accepted,       \* the connections it has handled; the last is current
    m_terminators,  \* handshakes in progress
    sListener,      \* listener of each server-side TcpSocketDataHandler
    sReader,        \* where its reader thread is
    todo, routing,  \* recipients left and message of a routing in progress
    m_connections,  \* the connections registered with the bus
    cClient,        \* the client that made each connection
    cSocket,        \* its side of the connection
    cCount,         \* number of connections made so far
    cSent,          \* number of messages sent on each connection
    cGot,           \* what the client's ClientConnection gave its listeners
    cAnswered,      \* the client has answered the HandshakeInitMessage
    toServer, toClient

serverVars == <<serverUp, crashed, raced, backlog, acceptor, accepted, m_terminators,
                sListener, sReader, todo, routing, m_connections>>
clientVars == <<cClient, cSocket, cCount, cSent, cGot, cAnswered>>
vars == <<serverVars, clientVars, toServer, toClient>>

Init ==
    /\ serverUp = FALSE /\ crashed = FALSE /\ raced = FALSE
    /\ backlog = <<>> /\ acceptor = "accept" /\ accepted = <<>>
    /\ m_terminators = {} /\ m_connections = {}
    /\ sListener = [k \in Conns |-> "absent"]
    /\ sReader = [k \in Conns |-> "read"]
    /\ todo = [k \in Conns |-> {}] /\ routing = [k \in Conns |-> 0]
    /\ cClient = [k \in Conns |-> NoClient] /\ cSocket = [k \in Conns |-> "none"]
    /\ cCount = 0
    /\ cSent = [k \in Conns |-> 0]
    /\ cGot = [k \in Conns |-> <<>>] /\ cAnswered = {}
    /\ toServer = [k \in Conns |-> <<>>] /\ toClient = [k \in Conns |-> <<>>]

-----------------------------------------------------------------------------
(* The network.                                                            *)

\* One read() takes n >= 1 messages off a stream and delivers the first.
Rest(stream, n) == SubSeq(stream, n + 1, Len(stream))

\* The server sends on connection k.  When the client has closed its end the
\* data is lost, ::send raises SIGPIPE, or it fails, which is an exception.
Sent(k, msg) ==
    /\ cSocket[k] # "closed"
    /\ toClient' = [toClient EXCEPT ![k] = Append(@, msg)]
    /\ UNCHANGED crashed
Lost(k) == cSocket[k] = "closed" /\ UNCHANGED <<toClient, crashed>>
Killed(k) == cSocket[k] = "closed" /\ crashed' = TRUE /\ UNCHANGED toClient

\* ProtocolHandshake::send: the exception is caught, the signal is not.
HandshakeSends(k, msg) == Sent(k, msg) \/ Lost(k) \/ Killed(k)

\* BasicServerConnection::sendPacket: on a reader thread nobody catches the
\* exception either, but the data may be lost before the failure is known.
sendPacket(k, msg) == Sent(k, msg) \/ Lost(k) \/ Killed(k)

\* An update of one of the server's maps, none of which is locked.  When
\* another thread may be using the map at the same time the outcome is
\* undefined: the update takes place, it is lost, or the process dies.
Update(map, new, busy) ==
    /\ raced' = (raced \/ busy)
    /\ \/ map' = new /\ UNCHANGED crashed
       \/ busy /\ UNCHANGED <<map, crashed>>
       \/ busy /\ crashed' = TRUE /\ UNCHANGED map

-----------------------------------------------------------------------------
(* The server: TcpServerSocket and its accept thread.                      *)

ServerStart ==
    /\ ~crashed /\ ~serverUp
    /\ serverUp' = TRUE
    /\ UNCHANGED <<crashed, raced, backlog, acceptor, accepted, m_terminators, sListener,
                   sReader, todo, routing, m_connections, clientVars, toServer, toClient>>

\* disconnect(): the listening socket is closed, which drops what was not yet
\* accepted, the accept thread is joined, and purge() does nothing.
ServerStop ==
    /\ ~crashed /\ serverUp /\ acceptor = "accept"
    /\ serverUp' = FALSE /\ backlog' = <<>>
    /\ UNCHANGED <<crashed, raced, acceptor, accepted, m_terminators, sListener,
                   sReader, todo, routing, m_connections, clientVars, toServer, toClient>>

\* The listener of a TcpSocketDataHandler: there is one at a time.  The reader thread
\* changes the vector inside its own loop over it (the handshake goes, the connection
\* comes): the one element is overwritten in place, and the loop ends after it.
addListener(k, who) == sListener' = [sListener EXCEPT ![k] = who]
removeListener(k) == sListener' = [sListener EXCEPT ![k] = "none"]

\* ProtocolHandshakeFactory::create: a TcpSocketDataHandler, whose reader thread
\* starts at once, without a listener.
CreateHandshake(k) == addListener(k, "none")

\* performHandshake(): the handshake and its terminator.
HandleConnection(k) ==
    /\ accepted' = Append(accepted, k)
    /\ CreateHandshake(k)
    /\ Update(m_terminators, m_terminators \cup {k}, \E d \in Conns : sReader[d] = "cleanup")
    /\ acceptor' = "addListener"
    /\ UNCHANGED <<serverUp, sReader, todo, routing, m_connections,
                   clientVars, toServer, toClient>>

Accept ==
    /\ ~crashed /\ serverUp /\ acceptor = "accept" /\ backlog # <<>>
    /\ backlog' = Tail(backlog)
    /\ HandleConnection(Head(backlog))

Current == accepted[Len(accepted)]

\* A thread adds the first listener of a socket whose reader has something on its stream,
\* and may be starting its loop: push_back moves the unlocked vector, and the loop may
\* run from the old begin() to the new end().
LoopBreaks(stream) == stream # <<>>

\* ProtocolHandshake::start(): listen, then send the HandshakeInitMessage.
AddHandshakeListener ==
    /\ ~crashed /\ acceptor = "addListener"
    /\ addListener(Current, "handshake")
    /\ \/ UNCHANGED crashed
       \/ LoopBreaks(toServer[Current]) /\ crashed' = TRUE
    /\ acceptor' = "sendInit"
    /\ UNCHANGED <<serverUp, raced, backlog, accepted, m_terminators, sReader, todo,
                   routing, m_connections, clientVars, toServer, toClient>>

SendInit ==
    /\ ~crashed /\ acceptor = "sendInit"
    /\ HandshakeSends(Current, Init_)
    /\ acceptor' = "accept"
    /\ UNCHANGED <<serverUp, raced, backlog, accepted, m_terminators, sListener, sReader, todo,
                   routing, m_connections, clientVars, toServer>>

-----------------------------------------------------------------------------
(* The server: the reader thread of a connection.                          *)

\* ProtocolHandshake::messageReceived: only the response is taken, and the
\* handshake stops listening.
HandshakeReceives(k, msg) ==
    /\ sListener[k] = "handshake"
    /\ IF msg.kind = "HandshakeResponseMessageV1"
         THEN removeListener(k) /\ sReader' = [sReader EXCEPT ![k] = "sendComplete"]
         ELSE UNCHANGED <<sListener, sReader>>
    /\ UNCHANGED <<todo, routing>>

\* NetworkBusConnection::messageReceived and AbstractBus::broadcastToAll: the
\* message is for everyone but the connection it came from.
GiveToBus(k, msg) ==
    /\ sReader' = [sReader EXCEPT ![k] = "route"]
    /\ todo' = [todo EXCEPT ![k] = m_connections \ {k}]
    /\ routing' = [routing EXCEPT ![k] = msg.nr]

\* BasicServerConnection::messageReceived.
ConnectionReceives(k, msg) ==
    /\ sListener[k] = "connection"
    /\ GiveToBus(k, msg)
    /\ UNCHANGED sListener

\* The reader thread receives the first of n messages and gives it to the
\* listener; without one it is dropped.
ServerRead(k) ==
    /\ ~crashed /\ sListener[k] # "absent" /\ sReader[k] = "read"
    /\ \E n \in 1 .. Len(toServer[k]) :
          toServer' = [toServer EXCEPT ![k] = Rest(@, n)]
    /\ \/ HandshakeReceives(k, Head(toServer[k]))
       \/ ConnectionReceives(k, Head(toServer[k]))
       \/ sListener[k] = "none" /\ UNCHANGED <<sListener, sReader, todo, routing>>
    /\ UNCHANGED <<serverUp, crashed, raced, backlog, acceptor, accepted, m_terminators,
                   m_connections, clientVars, toClient>>

\* Mutant: the end of the handshake is not reported to m_listener.
SendCompleteOnly(k) ==
    /\ ~crashed /\ sReader[k] = "sendComplete"
    /\ HandshakeSends(k, Complete)
    /\ sReader' = [sReader EXCEPT ![k] = "read"]
    /\ UNCHANGED <<serverUp, raced, backlog, acceptor, accepted, m_terminators, sListener, todo,
                   routing, m_connections, clientVars, toServer>>

\* Mutant: registered first, the HandshakeCompleteMessage sent afterwards.
SendCompleteLast(k) ==
    /\ ~crashed /\ sReader[k] = "sendComplete"
    /\ IF k \in m_connections
         THEN /\ HandshakeSends(k, Complete)
              /\ sReader' = [sReader EXCEPT ![k] = "cleanup"]
              /\ UNCHANGED <<sListener, m_connections>>
         ELSE /\ sListener' = [sListener EXCEPT ![k] = "connection"]
              /\ m_connections' = m_connections \cup {k}
              /\ UNCHANGED <<sReader, crashed, toClient>>
    /\ UNCHANGED <<serverUp, raced, backlog, acceptor, accepted, m_terminators, todo,
                   routing, clientVars, toServer>>

\* processHandshakeResponseMessageV1(): the HandshakeCompleteMessage goes out
\* before the connection is created and registered.
SendComplete(k) ==
    /\ ~crashed /\ sReader[k] = "sendComplete"
    /\ HandshakeSends(k, Complete)
    /\ sReader' = [sReader EXCEPT ![k] = "register"]
    /\ UNCHANGED <<serverUp, raced, backlog, acceptor, accepted, m_terminators, sListener, todo,
                   routing, m_connections, clientVars, toServer>>

\* BasicServerConnectionFactory: the new connection listens on the socket.
createConnection(k) == addListener(k, "connection")

\* NetworkBusConnection::registerBus.  A broadcast that is under way may or may
\* not come across the new connection.
RegisterBus(k) ==
    LET busy == {d \in Conns \ {k} : sReader[d] \in {"register", "route"}} IN
    /\ Update(m_connections, m_connections \cup {k}, busy # {})
    /\ \E S \in SUBSET {d \in busy : sReader[d] = "route"} :
          todo' = [d \in Conns |-> IF d \in S THEN todo[d] \cup {k} ELSE todo[d]]

\* handshakeComplete() of HandshakeTerminator and of ServerConnectionHandler,
\* clientConnected() of ServerBus, to which the connection is always new.
Register(k) ==
    /\ ~crashed /\ sReader[k] = "register"
    /\ createConnection(k)
    /\ RegisterBus(k)
    /\ sReader' = [sReader EXCEPT ![k] = "cleanup"]
    /\ UNCHANGED <<serverUp, backlog, acceptor, accepted, m_terminators, routing, clientVars, toServer, toClient>>

\* Mutant: what is cleaned up is the handshake started last.
CleanupLatest(k) ==
    /\ ~crashed /\ sReader[k] = "cleanup"
    /\ m_terminators' = m_terminators \ {Current}
    /\ sReader' = [sReader EXCEPT ![k] = "read"]
    /\ UNCHANGED <<serverUp, crashed, raced, backlog, acceptor, accepted, sListener, todo,
                   routing, m_connections, clientVars, toServer, toClient>>

\* HandshakeHandler::cleanup()
Cleanup(k) ==
    /\ ~crashed /\ sReader[k] = "cleanup"
    /\ Update(m_terminators, m_terminators \ {k},
              \/ \E d \in Conns \ {k} : sReader[d] = "cleanup"
              \/ acceptor = "accept" /\ backlog # <<>>)
    /\ sReader' = [sReader EXCEPT ![k] = "read"]
    /\ UNCHANGED <<serverUp, backlog, acceptor, accepted, sListener, todo,
                   routing, m_connections, clientVars, toServer, toClient>>

\* broadcastToAll(): one recipient after the other.
RouteTo(k, d) ==
    /\ ~crashed /\ sReader[k] = "route" /\ d \in todo[k]
    /\ sendPacket(d, App(k, routing[k]))
    /\ todo' = [todo EXCEPT ![k] = @ \ {d}]
    /\ UNCHANGED <<serverUp, raced, backlog, acceptor, accepted, m_terminators, sListener,
                   sReader, routing, m_connections, clientVars, toServer>>

\* Mutant: a broadcast may be repeated.
RouteAgain(k) ==
    /\ ~crashed /\ sReader[k] = "route" /\ todo[k] = {}
    /\ \/ sReader' = [sReader EXCEPT ![k] = "read"] /\ UNCHANGED todo
       \/ todo' = [todo EXCEPT ![k] = m_connections \ {k}] /\ UNCHANGED sReader
    /\ UNCHANGED <<serverUp, crashed, raced, backlog, acceptor, accepted, m_terminators, sListener,
                   routing, m_connections, clientVars, toServer, toClient>>

RouteDone(k) ==
    /\ ~crashed /\ sReader[k] = "route" /\ todo[k] = {}
    /\ sReader' = [sReader EXCEPT ![k] = "read"]
    /\ UNCHANGED <<serverUp, crashed, raced, backlog, acceptor, accepted, m_terminators, sListener,
                   todo, routing, m_connections, clientVars, toServer, toClient>>

ServerReaderStep(k) ==
    \/ ServerRead(k) \/ SendComplete(k) \/ Register(k) \/ Cleanup(k)
    \/ (\E d \in Conns : RouteTo(k, d)) \/ RouteDone(k)

-----------------------------------------------------------------------------
(* A client: BasicClient, TcpClientSocket and ClientConnection.            *)

\* isConnected() is false: the latest connection is closed, or there is none.
Disconnected(c) ==
    \A k \in Conns : cClient[k] = c => cSocket[k] \in {"none", "closed"}

SetSocket(k, state) == cSocket' = [cSocket EXCEPT ![k] = state]

\* TcpClientSocket::establishConnection: the socket is connected and its reader
\* thread runs.  (The socket remembers no listener from earlier connections:
\* BasicClient::disconnect has removed it.)
EstablishConnection(k) ==
    /\ SetSocket(k, "open")
    /\ backlog' = Append(backlog, k)

\* BasicClient::connect and AbstractTcpSocket::connect.  When the server does
\* not listen they fail and leave everything as it was.
ClientConnect(c) ==
    /\ serverUp /\ ~crashed /\ Disconnected(c) /\ cCount < MaxConnects
    /\ EstablishConnection(cCount + 1)
    /\ cClient' = [cClient EXCEPT ![cCount + 1] = c]
    /\ cCount' = cCount + 1
    /\ UNCHANGED <<serverUp, crashed, raced, acceptor, accepted, m_terminators, sListener,
                   sReader, todo, routing, m_connections, cSent, cGot, cAnswered,
                   toServer, toClient>>

\* connect(), after the socket has connected: the listener is added.
ClientAddListener(k) ==
    /\ cSocket[k] = "open"
    /\ SetSocket(k, "ready")
    /\ UNCHANGED <<serverVars, cClient, cCount, cSent, cGot, cAnswered, toServer, toClient>>

\* TcpClientSocket::send.
ClientSocketSend(k, msg) == toServer' = [toServer EXCEPT ![k] = Append(@, msg)]

\* ClientConnection::messageReceived: the HandshakeInitMessage is answered; all
\* else goes to the listeners.
ClientReceives(k, msg) ==
    IF msg.kind = "HandshakeInitMessage"
    THEN /\ ClientSocketSend(k, Response(cClient[k]))
         /\ cAnswered' = cAnswered \cup {k}
         /\ UNCHANGED cGot
    ELSE /\ cGot' = [cGot EXCEPT ![k] = Append(@, msg)]
         /\ UNCHANGED <<toServer, cAnswered>>

\* The reader thread of the client: without a listener what it read is lost.
ClientRead(k) ==
    /\ cSocket[k] \in {"open", "ready"}
    /\ \E n \in 1 .. Len(toClient[k]) :
          toClient' = [toClient EXCEPT ![k] = Rest(@, n)]
    /\ \/ cSocket[k] = "ready" /\ ClientReceives(k, Head(toClient[k]))
       \/ cSocket[k] = "open" /\ UNCHANGED <<toServer, cAnswered, cGot>>
    /\ UNCHANGED <<serverVars, cClient, cSocket, cCount, cSent>>

Handshaken(k) == \E i \in 1 .. Len(cGot[k]) : cGot[k][i] = Complete

AllSent == MapThenSumSet(LAMBDA k : cSent[k], Conns)

\* ClientConnection::sendPacket.
ClientSend(k) ==
    /\ cSocket[k] = "ready" /\ AllSent < MaxMsgs
    /\ EarlySend \/ Handshaken(k)
    /\ cSent' = [cSent EXCEPT ![k] = @ + 1]
    /\ ClientSocketSend(k, App(k, cSent[k] + 1))
    /\ UNCHANGED <<serverVars, cClient, cSocket, cCount, cGot, cAnswered, toClient>>

\* closeSocket() and terminateConnection() of the client: the socket is closed
\* and the reader joined.  Closing with unread data resets the connection, and
\* what the server has not read yet may be lost with it.
CloseSocket(k) ==
    /\ SetSocket(k, "closed")
    /\ toClient' = [toClient EXCEPT ![k] = <<>>]
    /\ \/ UNCHANGED toServer
       \/ toClient[k] # <<>> /\ toServer' = [toServer EXCEPT ![k] = <<>>]

\* connect() adds the listener while the reader starts its loop, and the client's process
\* dies of it: its socket is closed.  (It may be started again, and connect again.)
ClientDies(k) ==
    /\ cSocket[k] = "open" /\ LoopBreaks(toClient[k])
    /\ CloseSocket(k)
    /\ UNCHANGED <<serverVars, cClient, cCount, cSent, cGot, cAnswered>>

\* BasicClient::disconnect: the listener is removed, the socket disconnected.
ClientDisconnect(k) ==
    /\ cSocket[k] = "ready"
    /\ CloseSocket(k)
    /\ UNCHANGED <<serverVars, cClient, cCount, cSent, cGot, cAnswered>>

-----------------------------------------------------------------------------
AcceptorStep == Accept \/ AddHandshakeListener \/ SendInit

Next ==
    \/ ServerStart \/ ServerStop \/ AcceptorStep
    \/ \E c \in Clients : ClientConnect(c)
    \/ \E k \in Conns : \/ ServerReaderStep(k)
                        \/ ClientAddListener(k) \/ ClientRead(k)
                        \/ ClientSend(k) \/ ClientDies(k) \/ ClientDisconnect(k)

Spec == Init /\ [][Next]_vars

\* Every thread that can run runs: the accept thread, the reader threads, and
\* a client inside connect().  Nobody need connect, send, or disconnect.
Fairness ==
    /\ WF_vars(AcceptorStep)
    /\ \A k \in Conns : /\ WF_vars(ServerReaderStep(k))
                        /\ WF_vars(ClientAddListener(k)) /\ WF_vars(ClientRead(k))

FairSpec == Spec /\ Fairness

-----------------------------------------------------------------------------
(* Properties.                                                             *)

\* On every connection the messages of one sender arrive in the order they
\* were sent, none of them twice: there are gaps (reads that return several
\* messages) but no reordering, although senders are routed by different
\* threads.
OrderedDelivery ==
    \A d \in Conns : \A i, j \in DOMAIN cGot[d] :
        LET m == cGot[d][i]
            n == cGot[d][j]
        IN  i < j /\ m.kind = "app" /\ n.kind = "app" /\ m.from = n.from => m.nr < n.nr

\* The first thing a client is given is the HandshakeCompleteMessage: other
\* traffic cannot overtake it, because the connection is registered with the
\* bus only after it was sent.
CompleteComesFirst ==
    \A k \in Conns : cGot[k] # <<>> => cGot[k][1] = Complete

\* Once a client has the HandshakeCompleteMessage, no message it sends is
\* dropped by the handshake: whenever the reader thread of the connection
\* reads again the connection is registered with the bus (as long as no two
\* threads were in the unlocked map at the same time).
SafeToSend ==
    \A k \in Conns : (Handshaken(k) /\ sReader[k] = "read") => (k \in m_connections \/ raced)

\* Every handshake that registered its connection has been cleaned up once
\* its reader thread is back to reading, and only those have: HandshakeHandler
\* neither leaks nor deletes too early (as long as its map is not raced for).
HandshakesCleanedUp ==
    \A k \in Conns : (sListener[k] # "absent" /\ sReader[k] = "read") =>
        \/ raced
        \/ k \in m_terminators <=> k \notin m_connections

\* A client that answered the handshake (and stays, with a server that stays
\* alive) is registered with the bus, whatever the other client does; unless it
\* sent something before the handshake was complete, which one read() of the
\* server may return together with the answer.
AnswerRegisters ==
    \A k \in Conns :
        (k \in cAnswered)
            ~> \/ k \in m_connections \/ cSocket[k] = "closed" \/ crashed \/ raced
               \/ cSent[k] > 0 /\ ~Handshaken(k)

\* Readme, "Handshake": "upon connecting with the server, the server will send
\* a HandshakeInitMessage", to which the client replies: a client that stays
\* connected to a server that has accepted it ends up registered.
ConnectRegisters ==
    \A k \in Conns :
        (cSocket[k] = "ready" /\ sListener[k] # "absent")
            ~> (k \in m_connections \/ cSocket[k] = "closed" \/ crashed)
=============================================================================
