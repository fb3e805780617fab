-------------------------- MODULE NetworkBusProofs --------------------------
(***************************************************************************)
(* The safety of the remote bus, for any number of clients, connections    *)
(* and messages.                                                           *)
(*                                                                         *)
(* The invariant follows a connection through its handshake (PhaseInv: who *)
(* listens, where its reader thread is, whether the client has answered),  *)
(* and says what may be on its two streams meanwhile (AnswerInv,           *)
(* CompleteInv), what the server's unlocked maps hold as long as they were *)
(* not raced for (MapsInv), and how the numbers of the messages of one     *)
(* sender are ordered from the client's stream (SendInv) over the routing  *)
(* in progress to the recipients (OrderInv).                               *)
(***************************************************************************)
EXTENDS NetworkBus, SequenceTheorems, TLAPS

Apps == {App(k, n) : k \in Conns, n \in Nat}
FromServer == {Init_, Complete} \cup Apps
FromClient == {Response(c) : c \in Clients \cup {NoClient}} \cup Apps

TypeInv ==
    /\ serverUp \in BOOLEAN /\ crashed \in BOOLEAN /\ raced \in BOOLEAN
    /\ backlog \in Seq(Conns) /\ accepted \in Seq(Conns)
    /\ acceptor \in {"accept", "addListener", "sendInit"}
    /\ m_terminators \subseteq Conns /\ m_connections \subseteq Conns
    /\ sListener \in [Conns -> {"absent", "none", "handshake", "connection"}]
    /\ sReader \in [Conns -> {"read", "sendComplete", "register", "cleanup", "route"}]
    /\ todo \in [Conns -> SUBSET Conns] /\ routing \in [Conns -> Nat]
    /\ cClient \in [Conns -> Clients \cup {NoClient}]
    /\ cSocket \in [Conns -> {"none", "open", "ready", "closed"}]
    /\ cCount \in 0 .. MaxConnects /\ cSent \in [Conns -> Nat] /\ cAnswered \subseteq Conns
    /\ cGot \in [Conns -> Seq({Complete} \cup Apps)]
    /\ toServer \in [Conns -> Seq(FromClient)] /\ toClient \in [Conns -> Seq(FromServer)]

\* Connections wait to be accepted once, and the one being accepted has not been
\* used yet.
AcceptInv ==
    /\ \A i \in DOMAIN backlog : sListener[backlog[i]] = "absent" /\ backlog[i] <= cCount
    /\ \A i, j \in DOMAIN backlog : backlog[i] = backlog[j] => i = j
    /\ \A k \in Conns : k > cCount => cSocket[k] = "none" /\ sListener[k] = "absent"
    /\ acceptor # "accept" =>
          /\ accepted # <<>> /\ sReader[Current] = "read"
          /\ toClient[Current] = <<>> /\ Current \notin cAnswered
    /\ acceptor = "addListener" => sListener[Current] = "none"
    /\ acceptor = "sendInit" => sListener[Current] = "handshake"

\* The HandshakeCompleteMessage has been sent, or lost with the client.
PastComplete(k) == sReader[k] = "register" \/ sListener[k] = "connection"

\* How far the handshake of k is: where its reader thread is, who listens, and
\* what is on the streams.
PhaseInv(k) ==
    /\ sListener[k] \in {"absent", "handshake"} => sReader[k] = "read"
    /\ sListener[k] = "none" => sReader[k] \in {"read", "sendComplete", "register"}
    /\ sListener[k] = "connection" => sReader[k] \in {"cleanup", "read", "route"}
    /\ sListener[k] = "absent" \/ (sListener[k] = "none" /\ sReader[k] = "read") =>
          toClient[k] = <<>> /\ k \notin cAnswered
    /\ sReader[k] = "sendComplete" \/ PastComplete(k) => k \in cAnswered
    /\ k \in cAnswered => cSocket[k] \in {"ready", "closed"}
    /\ cSocket[k] = "closed" => toClient[k] = <<>>

\* There is at most one answer on its way, and nobody but the handshake gets it.
AnswerInv(k) ==
    /\ \A i \in DOMAIN toServer[k] : toServer[k][i].kind = "HandshakeResponseMessageV1" =>
          sListener[k] = "handshake" /\ k \in cAnswered
    /\ \A i, j \in DOMAIN toServer[k] :
          /\ toServer[k][i].kind = "HandshakeResponseMessageV1"
          /\ toServer[k][j].kind = "HandshakeResponseMessageV1"
          => i = j

\* Nothing precedes the HandshakeCompleteMessage but the HandshakeInitMessage.
CompleteInv(k) ==
    /\ ~PastComplete(k) =>
          /\ cGot[k] = <<>>
          /\ \/ toClient[k] = <<>>
             \/ toClient[k] = <<Init_>> /\ sListener[k] = "handshake" /\ k \notin cAnswered
    /\ PastComplete(k) =>
          /\ \A i \in DOMAIN toClient[k] : toClient[k][i] # Init_
          /\ \/ cSocket[k] = "closed"
             \/ cGot[k] # <<>>
             \/ toClient[k] # <<>> /\ toClient[k][1] = Complete
    /\ cGot[k] # <<>> => cGot[k][1] = Complete

\* The maps of the server.
MapsInv(k) ==
    /\ k \in m_connections => sListener[k] = "connection"
    /\ \A d \in Conns : k \in todo[d] => sListener[k] = "connection" /\ sReader[d] = "route"
    /\ sListener[k] = "connection" =>
          \/ raced
          \/ k \in m_connections /\ (k \in m_terminators <=> sReader[k] = "cleanup")
    /\ sListener[k] \in {"none", "handshake"} => raced \/ k \in m_terminators

\* The messages of k on their way to the server are in order, and later than those
\* that were routed.
SendInv(k) ==
    /\ \A i \in DOMAIN toServer[k] : toServer[k][i].kind = "app" =>
          /\ toServer[k][i].from = k
          /\ routing[k] < toServer[k][i].nr /\ toServer[k][i].nr <= cSent[k]
    /\ \A i, j \in DOMAIN toServer[k] :
          i < j /\ toServer[k][i].kind = "app" /\ toServer[k][j].kind = "app" =>
             toServer[k][i].nr < toServer[k][j].nr
    /\ routing[k] <= cSent[k]

\* m is a message of k that is not newer than the one being routed, and older where
\* that has still to be sent to d.
Earlier(m, d) ==
    m.kind = "app" =>
        /\ m.nr <= routing[m.from]
        /\ d \in todo[m.from] => m.nr < routing[m.from]
Before(m, n) == m.kind = "app" /\ n.kind = "app" /\ m.from = n.from => m.nr < n.nr

\* The messages on their way to d, and those given to its listeners, are in order.
OrderInv(d) ==
    /\ \A i \in DOMAIN cGot[d] : Earlier(cGot[d][i], d)
    /\ \A i \in DOMAIN toClient[d] : Earlier(toClient[d][i], d)
    /\ \A i, j \in DOMAIN cGot[d] : i < j => Before(cGot[d][i], cGot[d][j])
    /\ \A i, j \in DOMAIN toClient[d] : i < j => Before(toClient[d][i], toClient[d][j])
    /\ \A i \in DOMAIN cGot[d], j \in DOMAIN toClient[d] : Before(cGot[d][i], toClient[d][j])
    /\ sListener[d] # "connection" =>
          /\ \A i \in DOMAIN cGot[d] : cGot[d][i].kind # "app"
          /\ \A i \in DOMAIN toClient[d] : toClient[d][i].kind # "app"

HandshakeInv(k) == PhaseInv(k) /\ AnswerInv(k) /\ CompleteInv(k)

NetInv ==
    /\ TypeInv /\ AcceptInv
    /\ \A k \in Conns : HandshakeInv(k) /\ MapsInv(k) /\ SendInv(k) /\ OrderInv(k)

-----------------------------------------------------------------------------
(* Streams.                                                                *)

\* What a read() leaves on a stream is its end, in order.
LEMMA RestOf ==
    ASSUME NEW S, NEW s \in Seq(S), NEW n \in 1 .. Len(s)
    PROVE  /\ Rest(s, n) \in Seq(S) /\ DOMAIN Rest(s, n) = 1 .. Len(s) - n
           /\ \A i \in DOMAIN Rest(s, n) : i + n \in DOMAIN s /\ Rest(s, n)[i] = s[i + n]
           /\ 1 \in DOMAIN s /\ Head(s) = s[1]
<1>1. Len(s) \in Nat /\ DOMAIN s = 1 .. Len(s) /\ n \in Nat
  BY LenProperties
<1>2. \A i \in n + 1 .. Len(s) : s[i] \in S
  BY <1>1, ElementOfSeq
<1>3. /\ Rest(s, n) \in Seq(S)
      /\ Len(Rest(s, n)) = (IF n + 1 <= Len(s) THEN Len(s) - (n + 1) + 1 ELSE 0)
      /\ \A i \in 1 .. Len(s) - (n + 1) + 1 : Rest(s, n)[i] = s[n + 1 + i - 1]
  BY <1>1, <1>2, SubSeqProperties DEF Rest
<1>4. DOMAIN Rest(s, n) = 1 .. Len(Rest(s, n)) /\ Head(s) = s[1]
  <2>1. DOMAIN Rest(s, n) = 1 .. Len(Rest(s, n))
    BY <1>3, LenProperties
  <2>2. Head(s) = s[1]
    OBVIOUS
  <2> QED
    BY <2>1, <2>2
<1> DEFINE l == Len(s)
           r == Len(Rest(s, n))
<1>5. l \in Nat /\ n \in 1 .. l /\ r = (IF n + 1 <= l THEN l - (n + 1) + 1 ELSE 0)
  BY <1>1, <1>3
<1>6. r = l - n /\ l - (n + 1) + 1 = l - n /\ 1 \in 1 .. l
  <2> HIDE DEF l, r
  <2> QED
    BY <1>5
<1>7. \A i \in 1 .. l - n : i + n \in 1 .. l /\ n + 1 + i - 1 = i + n
  <2> HIDE DEF l
  <2> QED
    BY <1>5
<1> QED
  BY <1>1, <1>3, <1>4, <1>6, <1>7

\* What is sent is added at the end.
LEMMA Appended ==
    ASSUME NEW S, NEW s \in Seq(S), NEW m \in S
    PROVE  /\ Append(s, m) \in Seq(S) /\ DOMAIN Append(s, m) = 1 .. Len(s) + 1
           /\ Len(s) \in Nat /\ DOMAIN s = 1 .. Len(s)
           /\ \A i \in DOMAIN s : Append(s, m)[i] = s[i]
           /\ Append(s, m)[Len(s) + 1] = m
  BY AppendProperties, LenProperties

\* The kinds of messages.
LEMMA Kinds ==
    /\ Init_ \in FromServer /\ Complete \in FromServer /\ Init_ # Complete
    /\ \A k \in Conns, n \in Nat : /\ App(k, n) \in Apps /\ App(k, n).kind = "app"
                                   /\ App(k, n).from = k /\ App(k, n).nr = n
    /\ \A m \in Apps : m.kind = "app" /\ m.from \in Conns /\ m.nr \in Nat
    /\ \A c : Response(c).kind = "HandshakeResponseMessageV1"
    /\ Init_.kind = "HandshakeInitMessage" /\ Complete.kind = "HandshakeCompleteMessage"
    /\ \A m \in FromServer : \/ m = Init_ \/ m = Complete \/ m \in Apps
    /\ \A m \in FromClient : m.kind = "HandshakeResponseMessageV1" \/ m \in Apps
    /\ Apps \subseteq FromServer /\ Apps \subseteq FromClient
<1>1. \A k \in Conns, n \in Nat : /\ App(k, n) \in Apps /\ App(k, n).kind = "app"
                                  /\ App(k, n).from = k /\ App(k, n).nr = n
  BY DEF App, Apps
<1>2. \A c : Response(c).kind = "HandshakeResponseMessageV1"
  BY DEF Response
<1>3. Init_.kind = "HandshakeInitMessage" /\ Complete.kind = "HandshakeCompleteMessage"
  BY DEF Init_, Complete
<1>4. Init_ # Complete
  BY <1>3
<1>5. ASSUME NEW m \in Apps PROVE m.kind = "app" /\ m.from \in Conns /\ m.nr \in Nat
  <2>1. PICK k \in Conns, n \in Nat : m = App(k, n)
    BY DEF Apps
  <2> QED
    BY <1>1, <2>1
<1> QED
  BY <1>1, <1>2, <1>3, <1>4, <1>5 DEF FromServer, FromClient

-----------------------------------------------------------------------------
(* What a step leaves alone.                                               *)

\* The part of the state that the handshake of e depends on is as it was.
SameHandshake(e) ==
    /\ sListener'[e] = sListener[e] /\ sReader'[e] = sReader[e]
    /\ cSocket'[e] = cSocket[e] /\ (e \in cAnswered' <=> e \in cAnswered)
    /\ toServer'[e] = toServer[e] /\ toClient'[e] = toClient[e] /\ cGot'[e] = cGot[e]

\* A step of another connection leaves the handshake of e as it is.
LEMMA HandshakeKept ==
    ASSUME NEW e \in Conns, HandshakeInv(e), SameHandshake(e) PROVE HandshakeInv(e)'
<1>1. PhaseInv(e)'
  BY DEF HandshakeInv, SameHandshake, PhaseInv, PastComplete
<1>2. AnswerInv(e)'
  BY DEF HandshakeInv, SameHandshake, AnswerInv
<1>3. CompleteInv(e)'
  BY DEF HandshakeInv, SameHandshake, CompleteInv, PastComplete
<1> QED
  BY <1>1, <1>2, <1>3 DEF HandshakeInv

\* A routing that begins is later than all that came before.
LEMMA OrderKept ==
    ASSUME TypeInv, NEW e \in Conns, OrderInv(e),
           cGot'[e] = cGot[e], toClient'[e] = toClient[e],
           sListener'[e] = sListener[e] \/ sListener'[e] = "connection",
           routing' \in [Conns -> Nat],
           \A k \in Conns : \/ routing'[k] = routing[k] /\ (e \in todo'[k] => e \in todo[k])
                            \/ routing[k] < routing'[k]
    PROVE  OrderInv(e)'
<1>1. ASSUME NEW m \in FromServer, Earlier(m, e), m.kind = "app"
      PROVE  m.nr <= routing'[m.from] /\ (e \in todo'[m.from] => m.nr < routing'[m.from])
  <2>1. m \in Apps
    BY <1>1, Kinds
  <2>2. m.from \in Conns /\ m.nr \in Nat
    BY <2>1, Kinds
  <2>3. /\ m.nr <= routing[m.from] /\ (e \in todo[m.from] => m.nr < routing[m.from])
        /\ routing[m.from] \in Nat /\ routing'[m.from] \in Nat
    BY <1>1, <2>2 DEF Earlier, TypeInv
  <2> QED
    BY <2>2, <2>3
<1>2. /\ \A i \in DOMAIN cGot[e] : cGot[e][i] \in FromServer
      /\ \A i \in DOMAIN toClient[e] : toClient[e][i] \in FromServer
  <2>1. cGot[e] \in Seq({Complete} \cup Apps) /\ toClient[e] \in Seq(FromServer)
    BY DEF TypeInv
  <2>2. \A i \in DOMAIN cGot[e] : cGot[e][i] \in {Complete} \cup Apps
    BY <2>1
  <2>3. \A i \in DOMAIN toClient[e] : toClient[e][i] \in FromServer
    BY <2>1
  <2> QED
    BY <2>2, <2>3 DEF FromServer
<1>3. \A i \in DOMAIN cGot[e] : Earlier(cGot[e][i], e)'
  BY <1>1, <1>2 DEF OrderInv, Earlier
<1>4. \A i \in DOMAIN toClient[e] : Earlier(toClient[e][i], e)'
  BY <1>1, <1>2 DEF OrderInv, Earlier
<1> QED
  BY <1>3, <1>4 DEF OrderInv, Before

\* A step of connection k that keeps the accept thread's current connection as it
\* is, if that is k.
LEMMA AcceptKept ==
    ASSUME TypeInv, AcceptInv, UNCHANGED <<backlog, cCount, acceptor, accepted>>,
           NEW k \in Conns,
           \A e \in Conns : e # k =>
              /\ sListener'[e] = sListener[e] /\ sReader'[e] = sReader[e]
              /\ cSocket'[e] = cSocket[e] /\ toClient'[e] = toClient[e]
              /\ (e \in cAnswered' <=> e \in cAnswered),
           k <= cCount,
           sListener'[k] = sListener[k] \/ sListener[k] # "absent",
           acceptor # "accept" /\ k = Current =>
              /\ sListener'[k] = sListener[k] /\ sReader'[k] = sReader[k]
              /\ toClient'[k] = <<>> /\ k \notin cAnswered'
    PROVE  AcceptInv'
<1>1. \A i \in DOMAIN backlog : backlog[i] \in Conns
  BY DEF TypeInv
<1>2. \A i \in DOMAIN backlog : sListener'[backlog[i]] = "absent"
  BY <1>1 DEF AcceptInv
<1>3. \A e \in Conns : e > cCount => cSocket'[e] = "none" /\ sListener'[e] = "absent"
  <2>1. \A e \in Conns : e > cCount => e # k
    BY BoundsAssumption DEF TypeInv, Conns
  <2> QED
    BY <2>1 DEF AcceptInv
<1>4. ASSUME acceptor # "accept"
      PROVE  /\ accepted # <<>> /\ sReader'[Current] = "read" /\ sListener'[Current] = sListener[Current]
             /\ toClient'[Current] = <<>> /\ Current \notin cAnswered'
  <2>1. Current \in Conns
    <3>1. accepted # <<>> /\ accepted \in Seq(Conns)
      BY <1>4 DEF AcceptInv, TypeInv
    <3>2. Len(accepted) \in DOMAIN accepted
      BY <3>1, LenProperties, EmptySeq
    <3> QED
      BY <3>1, <3>2 DEF Current
  <2> QED
    BY <1>4, <2>1 DEF AcceptInv
<1>5. Current' = Current
  BY DEF Current
<1> QED
  BY <1>2, <1>3, <1>4, <1>5 DEF AcceptInv

\* The accept thread's current connection is one.
LEMMA CurrentIsOne ==
    ASSUME TypeInv, AcceptInv, acceptor # "accept" PROVE Current \in Conns
<1>1. accepted # <<>> /\ accepted \in Seq(Conns)
  BY DEF AcceptInv, TypeInv
<1>2. Len(accepted) \in DOMAIN accepted
  BY <1>1, LenProperties, EmptySeq
<1> QED
  BY <1>1, <1>2 DEF Current

\* The stream from k to the server, or what it was compared with, has not changed.
LEMMA SendKept ==
    ASSUME NEW e \in Conns, SendInv(e), toServer'[e] = toServer[e],
           routing'[e] = routing[e], cSent'[e] = cSent[e]
    PROVE  SendInv(e)'
  BY DEF SendInv

-----------------------------------------------------------------------------
(* The accept thread.                                                      *)

\* Starting and stopping the server keeps its connections; only the backlog is dropped.
LEMMA NetServerStart == ASSUME NetInv, ServerStart \/ ServerStop PROVE NetInv'
<1>1. /\ backlog' = backlog \/ backlog' = <<>>
      /\ serverUp' \in BOOLEAN
      /\ UNCHANGED <<crashed, raced, acceptor, accepted, m_terminators, sListener, sReader,
                     todo, routing, m_connections, cClient, cSocket, cCount, cSent, cGot,
                     cAnswered, toServer, toClient>>
  BY DEF ServerStart, ServerStop, clientVars
<1>2. TypeInv'
  <2>1. <<>> \in Seq(Conns)
    OBVIOUS
  <2> QED
    BY <1>1, <2>1 DEF NetInv, TypeInv
<1>3. AcceptInv'
  BY <1>1 DEF NetInv, AcceptInv, Current
<1>4. ASSUME NEW e \in Conns PROVE HandshakeInv(e)' /\ SendInv(e)' /\ OrderInv(e)'
  BY <1>1, HandshakeKept, SendKept, OrderKept DEF NetInv, SameHandshake, TypeInv
<1>5. ASSUME NEW e \in Conns PROVE MapsInv(e)'
  BY <1>1 DEF NetInv, MapsInv
<1> QED
  BY <1>2, <1>3, <1>4, <1>5 DEF NetInv

\* A connection is accepted: it leaves the backlog and is the current one, without a
\* listener, and nothing has been exchanged on it.
LEMMA NetAccept == ASSUME NetInv, NEW k, k = Head(backlog), Accept PROVE NetInv'
<1>1. /\ backlog # <<>> /\ backlog \in Seq(Conns) /\ accepted \in Seq(Conns)
      /\ acceptor = "accept"
  BY DEF Accept, NetInv, TypeInv
<1>2. /\ 1 \in DOMAIN backlog /\ k = backlog[1] /\ k \in Conns
      /\ Tail(backlog) \in Seq(Conns) /\ DOMAIN Tail(backlog) = 1 .. Len(backlog) - 1
      /\ \A i \in DOMAIN Tail(backlog) : i + 1 \in DOMAIN backlog /\ Tail(backlog)[i] = backlog[i + 1]
  <2>1. Len(backlog) \in Nat \ {0} /\ DOMAIN backlog = 1 .. Len(backlog)
    BY <1>1, EmptySeq, LenProperties
  <2>2. /\ k \in Conns /\ Tail(backlog) \in Seq(Conns) /\ Len(Tail(backlog)) = Len(backlog) - 1
        /\ \A i \in 1 .. Len(Tail(backlog)) : Tail(backlog)[i] = backlog[i + 1]
    BY <1>1, HeadTailProperties
  <2>3. DOMAIN Tail(backlog) = 1 .. Len(Tail(backlog))
    BY <2>2, LenProperties
  <2>4. k = backlog[1]
    BY <1>1
  <2> QED
    BY <2>1, <2>2, <2>3, <2>4
<1>3. sListener[k] = "absent" /\ sReader[k] = "read" /\ k <= cCount
  <2>1. sListener[k] = "absent" /\ k <= cCount
    BY <1>2 DEF NetInv, AcceptInv
  <2> QED
    BY <1>2, <2>1 DEF NetInv, HandshakeInv, PhaseInv
<1>4. /\ backlog' = Tail(backlog) /\ accepted' = Append(accepted, k)
      /\ sListener' = [sListener EXCEPT ![k] = "none"]
      /\ acceptor' = "addListener"
      /\ UNCHANGED <<serverUp, sReader, todo, routing, m_connections, cClient, cSocket, cCount,
                     cSent, cGot, cAnswered, toServer, toClient>>
      /\ crashed' \in BOOLEAN /\ raced' \in BOOLEAN /\ (raced => raced')
      /\ \/ m_terminators' = m_terminators \cup {k}
         \/ raced' /\ m_terminators' = m_terminators
  <2>1. crashed \in BOOLEAN /\ raced \in BOOLEAN
    BY DEF NetInv, TypeInv
  <2> DEFINE busy == \E d \in Conns : sReader[d] = "cleanup"
  <2>2. /\ raced' = (raced \/ busy)
        /\ \/ m_terminators' = m_terminators \cup {k} /\ UNCHANGED crashed
           \/ busy /\ UNCHANGED <<m_terminators, crashed>>
           \/ busy /\ crashed' = TRUE /\ UNCHANGED m_terminators
    BY DEF Accept, HandleConnection, Update
  <2>3. /\ crashed' \in BOOLEAN /\ raced' \in BOOLEAN /\ (raced => raced')
        /\ \/ m_terminators' = m_terminators \cup {k}
           \/ raced' /\ m_terminators' = m_terminators
    <3> HIDE DEF busy
    <3> QED
      BY <2>1, <2>2
  <2> QED
    BY <2>3 DEF Accept, HandleConnection, CreateHandshake, addListener, clientVars
<1>5. accepted' \in Seq(Conns) /\ accepted' # <<>> /\ Current' = k
  <2>1. /\ Append(accepted, k) \in Seq(Conns) /\ Append(accepted, k) # <<>>
        /\ Len(Append(accepted, k)) = Len(accepted) + 1
        /\ Append(accepted, k)[Len(accepted) + 1] = k
    BY <1>1, <1>2, AppendProperties
  <2> QED
    BY <1>4, <2>1 DEF Current
<1>6. TypeInv'
  BY <1>2, <1>4, <1>5 DEF NetInv, TypeInv
<1>7. /\ sListener'[k] = "none" /\ \A e \in Conns : e # k => sListener'[e] = sListener[e]
  BY <1>2, <1>4 DEF NetInv, TypeInv
<1>8. toClient[k] = <<>> /\ k \notin cAnswered
  BY <1>2, <1>3 DEF NetInv, HandshakeInv, PhaseInv
<1>9. AcceptInv'
  <2>1. \A i \in DOMAIN backlog' : backlog'[i] # k /\ backlog'[i] \in Conns
    <3>1. \A i \in DOMAIN backlog' : i + 1 # 1
      BY <1>2, <1>4
    <3>2. \A i \in DOMAIN backlog : backlog[i] \in Conns
      BY <1>1
    <3> QED
      BY <1>2, <1>4, <3>1, <3>2 DEF NetInv, AcceptInv
  <2>2. \A i \in DOMAIN backlog' : sListener'[backlog'[i]] = "absent" /\ backlog'[i] <= cCount
    BY <1>2, <1>4, <1>7, <2>1 DEF NetInv, AcceptInv
  <2>3. \A i, j \in DOMAIN backlog' : backlog'[i] = backlog'[j] => i = j
    <3>1. \A i, j \in DOMAIN backlog' : i + 1 = j + 1 => i = j
      BY <1>2, <1>4
    <3> QED
      BY <1>2, <1>4, <3>1 DEF NetInv, AcceptInv
  <2>4. \A e \in Conns : e > cCount => e # k
    BY <1>2, <1>3 DEF NetInv, TypeInv, Conns
  <2>5. \A e \in Conns : e > cCount => cSocket[e] = "none" /\ sListener'[e] = "absent"
    BY <1>7, <2>4 DEF NetInv, AcceptInv
  <2> QED
    BY <1>3, <1>4, <1>5, <1>7, <1>8, <2>2, <2>3, <2>5 DEF AcceptInv
<1>10. HandshakeInv(k)'
  <2>1. HandshakeInv(k)
    BY <1>2 DEF NetInv
  <2> QED
    BY <1>3, <1>4, <1>7, <1>8, <2>1 DEF HandshakeInv, PhaseInv, AnswerInv, CompleteInv, PastComplete
<1>11. ASSUME NEW e \in Conns PROVE HandshakeInv(e)'
  <2>1. CASE e = k
    BY <1>10, <2>1
  <2>2. CASE e # k
    BY <1>4, <1>7, <2>2, HandshakeKept DEF NetInv, SameHandshake
  <2> QED
    BY <2>1, <2>2
<1>12. ASSUME NEW e \in Conns PROVE MapsInv(e)'
  <2>1. MapsInv(e)
    BY DEF NetInv
  <2> QED
    BY <1>3, <1>4, <1>7, <2>1 DEF MapsInv
<1>13. ASSUME NEW e \in Conns PROVE SendInv(e)'
  BY <1>4, SendKept DEF NetInv
<1>14. ASSUME NEW e \in Conns PROVE OrderInv(e)'
  <2>1. OrderInv(e)
    BY DEF NetInv
  <2>2. sListener'[e] = "connection" => sListener[e] = "connection"
    BY <1>7
  <2> QED
    BY <1>3, <1>4, <1>7, <2>1 DEF OrderInv, Earlier, Before
<1> QED
  BY <1>6, <1>9, <1>11, <1>12, <1>13, <1>14 DEF NetInv

\* The handshake listens before it has sent anything.
LEMMA NetAddHandshakeListener ==
    ASSUME NetInv, NEW k, k = Current, AddHandshakeListener PROVE NetInv'
<1>1. k \in Conns /\ acceptor = "addListener"
  BY CurrentIsOne DEF AddHandshakeListener, NetInv
<1>2. /\ sListener[k] = "none" /\ sReader[k] = "read"
      /\ toClient[k] = <<>> /\ k \notin cAnswered /\ accepted # <<>>
  BY <1>1 DEF NetInv, AcceptInv
<1>3. /\ sListener' = [sListener EXCEPT ![k] = "handshake"] /\ acceptor' = "sendInit"
      /\ crashed' = crashed \/ crashed' = TRUE
      /\ UNCHANGED <<serverUp, raced, backlog, accepted, m_terminators, sReader, todo,
                     routing, m_connections, cClient, cSocket, cCount, cSent, cGot, cAnswered,
                     toServer, toClient>>
  BY DEF AddHandshakeListener, addListener, clientVars
<1>4. sListener'[k] = "handshake" /\ \A e \in Conns : e # k => sListener'[e] = sListener[e]
  BY <1>1, <1>3 DEF NetInv, TypeInv
<1>5. TypeInv'
  BY <1>3 DEF NetInv, TypeInv
<1>6. AcceptInv'
  <2>1. Current' = k
    BY <1>3 DEF Current
  <2>2. \A i \in DOMAIN backlog : backlog[i] \in Conns
    BY DEF NetInv, TypeInv
  <2>3. \A i \in DOMAIN backlog : sListener'[backlog[i]] = "absent"
    BY <1>2, <1>4, <2>2 DEF NetInv, AcceptInv
  <2>4. \A e \in Conns : e > cCount => sListener'[e] = "absent"
    BY <1>2, <1>4 DEF NetInv, AcceptInv
  <2> QED
    BY <1>2, <1>3, <1>4, <2>1, <2>3, <2>4 DEF NetInv, AcceptInv
<1>7. ASSUME NEW e \in Conns PROVE HandshakeInv(e)'
  <2>1. CASE e = k
    <3>1. HandshakeInv(k)
      BY <1>1 DEF NetInv
    <3> QED
      BY <1>2, <1>3, <1>4, <2>1, <3>1
         DEF HandshakeInv, PhaseInv, AnswerInv, CompleteInv, PastComplete
  <2>2. CASE e # k
    BY <1>3, <1>4, <2>2, HandshakeKept DEF NetInv, SameHandshake
  <2> QED
    BY <2>1, <2>2
<1>8. ASSUME NEW e \in Conns PROVE MapsInv(e)'
  <2>1. MapsInv(e)
    BY DEF NetInv
  <2> QED
    BY <1>2, <1>3, <1>4, <2>1 DEF MapsInv
<1>9. ASSUME NEW e \in Conns PROVE SendInv(e)'
  BY <1>3, SendKept DEF NetInv
<1>10. ASSUME NEW e \in Conns PROVE OrderInv(e)'
  <2>1. OrderInv(e)
    BY DEF NetInv
  <2>2. sListener'[e] # "connection" => sListener[e] # "connection"
    BY <1>2, <1>4
  <2> QED
    BY <1>3, <2>1, <2>2 DEF OrderInv, Earlier, Before
<1> QED
  BY <1>5, <1>6, <1>7, <1>8, <1>9, <1>10 DEF NetInv

\* What the server sends on k arrives at the end of the stream, unless the client
\* has closed its end.
LEMMA ServerSends ==
    ASSUME TypeInv, NEW k \in Conns, NEW m \in FromServer,
           HandshakeSends(k, m) \/ sendPacket(k, m)
    PROVE  /\ crashed' \in BOOLEAN /\ toClient' \in [Conns -> Seq(FromServer)]
           /\ \A e \in Conns : e # k => toClient'[e] = toClient[e]
           /\ \/ cSocket[k] # "closed" /\ toClient'[k] = Append(toClient[k], m)
              \/ cSocket[k] = "closed" /\ toClient' = toClient
<1>1. CASE Sent(k, m)
  <2>1. Append(toClient[k], m) \in Seq(FromServer)
    BY Appended DEF TypeInv
  <2> QED
    BY <1>1, <2>1 DEF Sent, TypeInv
<1>2. CASE Lost(k) \/ Killed(k)
  BY <1>2 DEF Lost, Killed, TypeInv
<1> QED
  BY <1>1, <1>2 DEF HandshakeSends, sendPacket

\* The HandshakeInitMessage is the first thing the client is sent.
LEMMA NetSendInit == ASSUME NetInv, NEW k, k = Current, SendInit PROVE NetInv'
<1>1. k \in Conns /\ acceptor = "sendInit"
  BY CurrentIsOne DEF SendInit, NetInv
<1>2. /\ sListener[k] = "handshake" /\ sReader[k] = "read"
      /\ toClient[k] = <<>> /\ k \notin cAnswered
  BY <1>1 DEF NetInv, AcceptInv
<1>3. /\ acceptor' = "accept"
      /\ UNCHANGED <<serverUp, raced, backlog, accepted, m_terminators, sListener, sReader,
                     todo, routing, m_connections, cClient, cSocket, cCount, cSent, cGot,
                     cAnswered, toServer>>
  BY DEF SendInit, clientVars
<1>4. /\ crashed' \in BOOLEAN /\ toClient' \in [Conns -> Seq(FromServer)]
      /\ \A e \in Conns : e # k => toClient'[e] = toClient[e]
      /\ \/ cSocket[k] # "closed" /\ toClient'[k] = <<Init_>>
         \/ cSocket[k] = "closed" /\ toClient' = toClient
  <2>1. HandshakeSends(k, Init_) /\ Init_ \in FromServer
    BY Kinds DEF SendInit
  <2>2. Append(<<>>, Init_) = <<Init_>>
    OBVIOUS
  <2> QED
    BY <1>1, <1>2, <2>1, <2>2, ServerSends DEF NetInv
<1>5. TypeInv'
  BY <1>3, <1>4 DEF NetInv, TypeInv
<1>6. AcceptInv'
  BY <1>3 DEF NetInv, AcceptInv
<1>7. ASSUME NEW e \in Conns PROVE HandshakeInv(e)'
  <2>1. CASE e = k
    <3>1. HandshakeInv(k)
      BY <1>1 DEF NetInv
    <3> QED
      BY <1>2, <1>3, <1>4, <2>1, <3>1
         DEF HandshakeInv, PhaseInv, AnswerInv, CompleteInv, PastComplete
  <2>2. CASE e # k
    BY <1>3, <1>4, <2>2, HandshakeKept DEF NetInv, SameHandshake
  <2> QED
    BY <2>1, <2>2
<1>8. ASSUME NEW e \in Conns PROVE MapsInv(e)'
  BY <1>3 DEF NetInv, MapsInv
<1>9. ASSUME NEW e \in Conns PROVE SendInv(e)'
  BY <1>3, SendKept DEF NetInv
<1>10. ASSUME NEW e \in Conns PROVE OrderInv(e)'
  <2>1. CASE toClient'[e] = toClient[e]
    BY <1>3, <2>1, OrderKept DEF NetInv, TypeInv
  <2>2. CASE e = k /\ toClient'[k] = <<Init_>>
    <3>1. OrderInv(e) /\ Init_.kind # "app"
      BY Kinds DEF NetInv
    <3> QED
      BY <1>3, <2>2, <3>1 DEF OrderInv, Earlier, Before
  <2> QED
    BY <1>4, <2>1, <2>2
<1> QED
  BY <1>5, <1>6, <1>7, <1>8, <1>9, <1>10 DEF NetInv

-----------------------------------------------------------------------------
(* The reader thread of a connection.                                      *)

\* A connection in use has been made.
LEMMA InUse ==
    ASSUME NetInv, NEW k \in Conns, sListener[k] # "absent" \/ cSocket[k] # "none"
    PROVE  k <= cCount
  BY BoundsAssumption DEF NetInv, TypeInv, AcceptInv, Conns

\* The end of a broadcast: nobody is left to send to.
LEMMA NetRouteDone == ASSUME NetInv, NEW k \in Conns, RouteDone(k) PROVE NetInv'
<1>1. /\ sReader[k] = "route" /\ todo[k] = {} /\ sReader' = [sReader EXCEPT ![k] = "read"]
      /\ UNCHANGED <<serverUp, crashed, raced, backlog, acceptor, accepted, m_terminators,
                     sListener, todo, routing, m_connections, cClient, cSocket, cCount, cSent,
                     cGot, cAnswered, toServer, toClient>>
  BY DEF RouteDone, clientVars
<1>2. sReader'[k] = "read" /\ \A e \in Conns : e # k => sReader'[e] = sReader[e]
  BY <1>1 DEF NetInv, TypeInv
<1>3. sListener[k] = "connection"
  BY <1>1 DEF NetInv, TypeInv, HandshakeInv, PhaseInv
<1>4. TypeInv'
  BY <1>1 DEF NetInv, TypeInv
<1>5. AcceptInv'
  BY <1>1, <1>2, <1>3, InUse, AcceptKept DEF NetInv, AcceptInv
<1>6. ASSUME NEW e \in Conns PROVE HandshakeInv(e)'
  <2>1. CASE e = k
    <3>1. HandshakeInv(k)
      BY DEF NetInv
    <3> QED
      BY <1>1, <1>2, <1>3, <2>1, <3>1
         DEF HandshakeInv, PhaseInv, AnswerInv, CompleteInv, PastComplete
  <2>2. CASE e # k
    BY <1>1, <1>2, <2>2, HandshakeKept DEF NetInv, SameHandshake
  <2> QED
    BY <2>1, <2>2
<1>7. ASSUME NEW e \in Conns PROVE MapsInv(e)'
  <2>1. MapsInv(e)
    BY DEF NetInv
  <2> QED
    BY <1>1, <1>2, <2>1 DEF MapsInv
<1>8. ASSUME NEW e \in Conns PROVE SendInv(e)' /\ OrderInv(e)'
  BY <1>1, SendKept, OrderKept DEF NetInv, TypeInv
<1> QED
  BY <1>4, <1>5, <1>6, <1>7, <1>8 DEF NetInv

\* HandshakeHandler::cleanup() after the connection was registered.
LEMMA NetCleanup == ASSUME NetInv, NEW k \in Conns, Cleanup(k) PROVE NetInv'
<1>1. /\ sReader[k] = "cleanup" /\ sReader' = [sReader EXCEPT ![k] = "read"]
      /\ UNCHANGED <<serverUp, backlog, acceptor, accepted, sListener, todo, routing,
                     m_connections, cClient, cSocket, cCount, cSent, cGot, cAnswered, toServer,
                     toClient>>
      /\ crashed' \in BOOLEAN /\ raced' \in BOOLEAN /\ (raced => raced')
      /\ \/ m_terminators' = m_terminators \ {k}
         \/ raced' /\ m_terminators' = m_terminators
  <2>1. crashed \in BOOLEAN /\ raced \in BOOLEAN
    BY DEF NetInv, TypeInv
  <2> DEFINE busy == \/ \E d \in Conns \ {k} : sReader[d] = "cleanup"
                     \/ acceptor = "accept" /\ backlog # <<>>
  <2>2. /\ raced' = (raced \/ busy)
        /\ \/ m_terminators' = m_terminators \ {k} /\ UNCHANGED crashed
           \/ busy /\ UNCHANGED <<m_terminators, crashed>>
           \/ busy /\ crashed' = TRUE /\ UNCHANGED m_terminators
    BY DEF Cleanup, Update
  <2>3. /\ crashed' \in BOOLEAN /\ raced' \in BOOLEAN /\ (raced => raced')
        /\ \/ m_terminators' = m_terminators \ {k}
           \/ raced' /\ m_terminators' = m_terminators
    <3> HIDE DEF busy
    <3> QED
      BY <2>1, <2>2
  <2> QED
    BY <2>3 DEF Cleanup, clientVars
<1>2. sReader'[k] = "read" /\ \A e \in Conns : e # k => sReader'[e] = sReader[e]
  BY <1>1 DEF NetInv, TypeInv
<1>3. sListener[k] = "connection"
  BY <1>1 DEF NetInv, TypeInv, HandshakeInv, PhaseInv
<1>4. TypeInv'
  BY <1>1 DEF NetInv, TypeInv
<1>5. AcceptInv'
  BY <1>1, <1>2, <1>3, InUse, AcceptKept DEF NetInv, AcceptInv
<1>6. ASSUME NEW e \in Conns PROVE HandshakeInv(e)'
  <2>1. CASE e = k
    <3>1. HandshakeInv(k)
      BY DEF NetInv
    <3> QED
      BY <1>1, <1>2, <1>3, <2>1, <3>1
         DEF HandshakeInv, PhaseInv, AnswerInv, CompleteInv, PastComplete
  <2>2. CASE e # k
    BY <1>1, <1>2, <2>2, HandshakeKept DEF NetInv, SameHandshake
  <2> QED
    BY <2>1, <2>2
<1>7. ASSUME NEW e \in Conns PROVE MapsInv(e)'
  <2>1. MapsInv(e)
    BY DEF NetInv
  <2> QED
    BY <1>1, <1>2, <1>3, <2>1 DEF MapsInv
<1>8. ASSUME NEW e \in Conns PROVE SendInv(e)' /\ OrderInv(e)'
  BY <1>1, SendKept, OrderKept DEF NetInv, TypeInv
<1> QED
  BY <1>4, <1>5, <1>6, <1>7, <1>8 DEF NetInv

\* The HandshakeCompleteMessage is the first thing the client is sent after its
\* answer, for which it had to take the HandshakeInitMessage off the stream.
LEMMA NetSendComplete == ASSUME NetInv, NEW k \in Conns, SendComplete(k) PROVE NetInv'
<1>1. /\ sReader[k] = "sendComplete" /\ sReader' = [sReader EXCEPT ![k] = "register"]
      /\ UNCHANGED <<serverUp, raced, backlog, acceptor, accepted, m_terminators, sListener,
                     todo, routing, m_connections, cClient, cSocket, cCount, cSent, cGot,
                     cAnswered, toServer>>
  BY DEF SendComplete, clientVars
<1>2. sReader'[k] = "register" /\ \A e \in Conns : e # k => sReader'[e] = sReader[e]
  BY <1>1 DEF NetInv, TypeInv
<1>3. /\ HandshakeInv(k) /\ sListener[k] = "none" /\ k \in cAnswered
      /\ cGot[k] = <<>> /\ toClient[k] = <<>>
  <2>1. HandshakeInv(k) /\ TypeInv
    BY DEF NetInv
  <2>2. sListener[k] = "none" /\ k \in cAnswered
    BY <1>1, <2>1 DEF HandshakeInv, PhaseInv, TypeInv
  <2> QED
    BY <1>1, <2>1, <2>2 DEF HandshakeInv, CompleteInv, PastComplete
<1>4. /\ crashed' \in BOOLEAN /\ toClient' \in [Conns -> Seq(FromServer)]
      /\ \A e \in Conns : e # k => toClient'[e] = toClient[e]
      /\ \/ cSocket[k] # "closed" /\ toClient'[k] = <<Complete>>
         \/ cSocket[k] = "closed" /\ toClient' = toClient
  <2>1. HandshakeSends(k, Complete) /\ Complete \in FromServer
    BY Kinds DEF SendComplete
  <2>2. Append(<<>>, Complete) = <<Complete>>
    OBVIOUS
  <2> QED
    BY <1>3, <2>1, <2>2, ServerSends DEF NetInv
<1>5. TypeInv'
  BY <1>1, <1>4 DEF NetInv, TypeInv
<1>6. AcceptInv'
  <2>1. acceptor # "accept" => k # Current
    BY <1>3 DEF NetInv, AcceptInv
  <2>2. k <= cCount
    BY <1>3, InUse
  <2> QED
    BY <1>1, <1>2, <1>4, <2>1, <2>2, AcceptKept DEF NetInv
<1>7. ASSUME NEW e \in Conns PROVE HandshakeInv(e)'
  <2>1. CASE e = k
    <3>1. /\ <<Complete>>[1] = Complete /\ <<Complete>> # <<>> /\ DOMAIN <<Complete>> = {1}
          /\ Init_ # Complete /\ DOMAIN <<>> = {}
      BY Kinds
    <3>2. PhaseInv(k)'
      BY <1>1, <1>2, <1>3, <1>4 DEF HandshakeInv, PhaseInv, PastComplete
    <3>3. AnswerInv(k)'
      BY <1>1, <1>3 DEF HandshakeInv, AnswerInv
    <3>4. CompleteInv(k)'
      BY <1>1, <1>2, <1>3, <1>4, <3>1 DEF CompleteInv, PastComplete
    <3> QED
      BY <2>1, <3>2, <3>3, <3>4 DEF HandshakeInv
  <2>2. CASE e # k
    BY <1>1, <1>2, <1>4, <2>2, HandshakeKept DEF NetInv, SameHandshake
  <2> QED
    BY <2>1, <2>2
<1>8. ASSUME NEW e \in Conns PROVE MapsInv(e)'
  <2>1. MapsInv(e)
    BY DEF NetInv
  <2> QED
    BY <1>1, <1>2, <1>3, <2>1 DEF MapsInv
<1>9. ASSUME NEW e \in Conns PROVE SendInv(e)'
  BY <1>1, SendKept DEF NetInv
<1>10. ASSUME NEW e \in Conns PROVE OrderInv(e)'
  <2>1. CASE toClient'[e] = toClient[e]
    BY <1>1, <2>1, OrderKept DEF NetInv, TypeInv
  <2>2. CASE e = k /\ toClient'[k] = <<Complete>>
    <3>1. OrderInv(e) /\ Complete.kind # "app"
      BY Kinds DEF NetInv
    <3> QED
      BY <1>1, <2>2, <3>1 DEF OrderInv, Earlier, Before
  <2> QED
    BY <1>4, <2>1, <2>2
<1> QED
  BY <1>5, <1>6, <1>7, <1>8, <1>9, <1>10 DEF NetInv

\* The connection is registered with the bus; nothing but the handshake's messages
\* has been sent to it.
LEMMA NetRegister == ASSUME NetInv, NEW k \in Conns, Register(k) PROVE NetInv'
<1>1. /\ sReader[k] = "register" /\ sReader' = [sReader EXCEPT ![k] = "cleanup"]
      /\ sListener' = [sListener EXCEPT ![k] = "connection"]
      /\ UNCHANGED <<serverUp, backlog, acceptor, accepted, m_terminators, routing, cClient,
                     cSocket, cCount, cSent, cGot, cAnswered, toServer, toClient>>
  BY DEF Register, createConnection, addListener, clientVars
<1>2. /\ crashed' \in BOOLEAN /\ raced' \in BOOLEAN /\ (raced => raced')
      /\ \/ m_connections' = m_connections \cup {k}
         \/ raced' /\ m_connections' = m_connections
  <2>1. crashed \in BOOLEAN /\ raced \in BOOLEAN
    BY DEF NetInv, TypeInv
  <2> DEFINE busy == {d \in Conns \ {k} : sReader[d] \in {"register", "route"}} # {}
  <2>2. /\ raced' = (raced \/ busy)
        /\ \/ m_connections' = m_connections \cup {k} /\ UNCHANGED crashed
           \/ busy /\ UNCHANGED <<m_connections, crashed>>
           \/ busy /\ crashed' = TRUE /\ UNCHANGED m_connections
    BY DEF Register, RegisterBus, Update
  <2> HIDE DEF busy
  <2> QED
    BY <2>1, <2>2
<1>3. PICK S \in SUBSET {d \in Conns \ {k} : sReader[d] = "route"} :
         todo' = [d \in Conns |-> IF d \in S THEN todo[d] \cup {k} ELSE todo[d]]
  <2> DEFINE busy == {d \in Conns \ {k} : sReader[d] \in {"register", "route"}}
  <2>1. PICK S \in SUBSET {d \in busy : sReader[d] = "route"} :
           todo' = [d \in Conns |-> IF d \in S THEN todo[d] \cup {k} ELSE todo[d]]
    BY DEF Register, RegisterBus
  <2>2. S \in SUBSET {d \in Conns \ {k} : sReader[d] = "route"}
    OBVIOUS
  <2> QED
    BY <2>1, <2>2
<1>4. \A d \in Conns : /\ todo'[d] \in SUBSET Conns
                       /\ \A e \in Conns : e # k => (e \in todo'[d] <=> e \in todo[d])
                       /\ k \in todo'[d] => k \in todo[d] \/ (d # k /\ sReader[d] = "route")
  <2>1. ASSUME NEW d \in Conns
        PROVE  /\ todo[d] \in SUBSET Conns
               /\ todo'[d] = todo[d] \/ (todo'[d] = todo[d] \cup {k} /\ d # k /\ sReader[d] = "route")
    BY <1>3 DEF NetInv, TypeInv
  <2> QED
    BY <2>1
<1>5. /\ sReader'[k] = "cleanup" /\ \A e \in Conns : e # k => sReader'[e] = sReader[e]
      /\ sListener'[k] = "connection" /\ \A e \in Conns : e # k => sListener'[e] = sListener[e]
  BY <1>1 DEF NetInv, TypeInv
<1>6. HandshakeInv(k) /\ sListener[k] = "none" /\ k \in cAnswered
  <2>1. HandshakeInv(k) /\ TypeInv
    BY DEF NetInv
  <2> QED
    BY <1>1, <2>1 DEF HandshakeInv, PhaseInv, TypeInv, PastComplete
<1>7. TypeInv'
  <2>1. todo' \in [Conns -> SUBSET Conns]
    BY <1>3, <1>4
  <2> QED
    BY <1>1, <1>2, <2>1 DEF NetInv, TypeInv
<1>8. AcceptInv'
  <2>1. acceptor # "accept" => k # Current
    BY <1>6 DEF NetInv, AcceptInv
  <2>2. k <= cCount
    BY <1>6, InUse
  <2> QED
    BY <1>1, <1>5, <1>6, <2>1, <2>2, AcceptKept DEF NetInv
<1>9. ASSUME NEW e \in Conns PROVE HandshakeInv(e)'
  <2>1. CASE e = k
    <3>1. PhaseInv(k)'
      BY <1>1, <1>5, <1>6 DEF HandshakeInv, PhaseInv, PastComplete
    <3>2. AnswerInv(k)'
      BY <1>1, <1>6 DEF HandshakeInv, AnswerInv
    <3>3. CompleteInv(k)'
      BY <1>1, <1>5, <1>6 DEF HandshakeInv, CompleteInv, PastComplete
    <3> QED
      BY <2>1, <3>1, <3>2, <3>3 DEF HandshakeInv
  <2>2. CASE e # k
    BY <1>1, <1>5, <2>2, HandshakeKept DEF NetInv, SameHandshake
  <2> QED
    BY <2>1, <2>2
<1>10. ASSUME NEW e \in Conns PROVE MapsInv(e)'
  <2>1. MapsInv(e) /\ MapsInv(k)
    BY DEF NetInv
  <2>2. \A d \in Conns : e \in todo'[d] => sListener'[e] = "connection" /\ sReader'[d] = "route"
    <3>1. ASSUME NEW d \in Conns, e \in todo[d] PROVE d # k
      BY <1>1, <2>1, <3>1 DEF MapsInv
    <3> QED
      BY <1>4, <1>5, <2>1, <3>1 DEF MapsInv
  <2> QED
    BY <1>1, <1>2, <1>5, <1>6, <2>1, <2>2 DEF MapsInv
<1>11. ASSUME NEW e \in Conns PROVE SendInv(e)'
  BY <1>1, SendKept DEF NetInv
<1>12. ASSUME NEW e \in Conns PROVE OrderInv(e)'
  <2>1. CASE e = k
    <3>1. OrderInv(k)
      BY DEF NetInv
    <3> QED
      BY <1>1, <1>6, <2>1, <3>1 DEF OrderInv, Earlier, Before
  <2>2. CASE e # k
    BY <1>1, <1>4, <1>5, <2>2, OrderKept DEF NetInv, TypeInv
  <2> QED
    BY <2>1, <2>2
<1> QED
  BY <1>7, <1>8, <1>9, <1>10, <1>11, <1>12 DEF NetInv

\* One recipient of a broadcast: it has nothing as new from this sender.
LEMMA NetRouteTo ==
    ASSUME NetInv, NEW k \in Conns, NEW d \in Conns, NEW m, m = App(k, routing[k]), RouteTo(k, d)
    PROVE  NetInv'
<1>1. /\ sReader[k] = "route" /\ d \in todo[k] /\ todo' = [todo EXCEPT ![k] = @ \ {d}]
      /\ UNCHANGED <<serverUp, raced, backlog, acceptor, accepted, m_terminators, sListener,
                     sReader, routing, m_connections, cClient, cSocket, cCount, cSent, cGot,
                     cAnswered, toServer>>
  BY DEF RouteTo, clientVars
<1>2. /\ todo'[k] = todo[k] \ {d} /\ \A e \in Conns : e # k => todo'[e] = todo[e]
      /\ todo' \in [Conns -> SUBSET Conns]
  BY <1>1 DEF NetInv, TypeInv
<1>3. /\ m \in Apps /\ m \in FromServer /\ m.kind = "app" /\ m.from = k /\ m.nr = routing[k]
      /\ routing[k] \in Nat
  BY Kinds DEF NetInv, TypeInv
<1>4. /\ crashed' \in BOOLEAN /\ toClient' \in [Conns -> Seq(FromServer)]
      /\ \A e \in Conns : e # d => toClient'[e] = toClient[e]
      /\ \/ cSocket[d] # "closed" /\ toClient'[d] = Append(toClient[d], m)
         \/ cSocket[d] = "closed" /\ toClient' = toClient
  <2>1. sendPacket(d, m)
    BY DEF RouteTo
  <2> QED
    BY <1>3, <2>1, ServerSends DEF NetInv
<1>5. /\ Append(toClient[d], m) \in Seq(FromServer)
      /\ DOMAIN Append(toClient[d], m) = 1 .. Len(toClient[d]) + 1
      /\ Len(toClient[d]) \in Nat /\ DOMAIN toClient[d] = 1 .. Len(toClient[d])
      /\ \A i \in DOMAIN toClient[d] : Append(toClient[d], m)[i] = toClient[d][i]
      /\ Append(toClient[d], m)[Len(toClient[d]) + 1] = m
  <2>1. toClient[d] \in Seq(FromServer)
    BY DEF NetInv, TypeInv
  <2> QED
    BY <1>3, <2>1, Appended
<1>6. HandshakeInv(d) /\ sListener[d] = "connection" /\ d \in cAnswered
  <2>1. sListener[d] = "connection"
    BY <1>1 DEF NetInv, MapsInv
  <2> QED
    BY <2>1 DEF NetInv, HandshakeInv, PhaseInv, PastComplete
<1>7. TypeInv'
  BY <1>1, <1>2, <1>4 DEF NetInv, TypeInv
<1>8. AcceptInv'
  <2>1. acceptor # "accept" => d # Current
    BY <1>6 DEF NetInv, AcceptInv
  <2>2. d <= cCount
    BY <1>6, InUse
  <2> QED
    BY <1>1, <1>4, <2>1, <2>2, AcceptKept DEF NetInv
<1>9. ASSUME NEW e \in Conns PROVE HandshakeInv(e)'
  <2>1. CASE toClient'[e] = toClient[e]
    BY <1>1, <2>1, HandshakeKept DEF NetInv, SameHandshake
  <2>2. CASE e = d /\ cSocket[d] # "closed" /\ toClient'[d] = Append(toClient[d], m)
    <3>1. PhaseInv(d)'
      BY <1>1, <1>6, <2>2 DEF HandshakeInv, PhaseInv, PastComplete
    <3>2. AnswerInv(d)'
      BY <1>1, <1>6 DEF HandshakeInv, AnswerInv
    <3>3. PastComplete(d) /\ PastComplete(d)' /\ m # Init_
      BY <1>1, <1>3, <1>6, Kinds DEF PastComplete
    <3>4. \A i \in DOMAIN toClient'[d] : toClient'[d][i] # Init_
      <4>1. ASSUME NEW i \in DOMAIN toClient'[d]
            PROVE  i \in DOMAIN toClient[d] \/ i = Len(toClient[d]) + 1
        BY <1>5, <2>2, <4>1
      <4> QED
        BY <1>5, <1>6, <2>2, <3>3, <4>1 DEF HandshakeInv, CompleteInv
    <3>5. toClient[d] # <<>> => toClient'[d] # <<>> /\ toClient'[d][1] = toClient[d][1]
      <4>1. ASSUME toClient[d] # <<>> PROVE 1 \in DOMAIN toClient[d] /\ 1 \in DOMAIN toClient'[d]
        <5>1. Len(toClient[d]) # 0
          BY <4>1, EmptySeq DEF NetInv, TypeInv
        <5> QED
          BY <1>5, <2>2, <5>1
      <4>2. DOMAIN <<>> = {}
        OBVIOUS
      <4> QED
        BY <1>5, <2>2, <4>1, <4>2
    <3>6. CompleteInv(d)'
      BY <1>1, <1>6, <2>2, <3>3, <3>4, <3>5 DEF HandshakeInv, CompleteInv
    <3> QED
      BY <2>2, <3>1, <3>2, <3>6 DEF HandshakeInv
  <2> QED
    BY <1>4, <2>1, <2>2
<1>10. ASSUME NEW e \in Conns PROVE MapsInv(e)'
  <2>1. MapsInv(e) /\ \A f \in Conns : e \in todo'[f] => e \in todo[f]
    BY <1>2 DEF NetInv
  <2> QED
    BY <1>1, <2>1 DEF MapsInv
<1>11. ASSUME NEW e \in Conns PROVE SendInv(e)'
  BY <1>1, SendKept DEF NetInv
<1>12. ASSUME NEW e \in Conns PROVE OrderInv(e)'
  <2>0. \A f \in Conns : e \in todo'[f] => e \in todo[f]
    BY <1>2
  <2>1. CASE toClient'[e] = toClient[e]
    BY <1>1, <2>0, <2>1, OrderKept DEF NetInv, TypeInv
  <2>2. CASE e = d /\ toClient'[d] = Append(toClient[d], m)
    <3>1. OrderInv(d)
      BY DEF NetInv
    <3>2. ASSUME NEW x \in FromServer, Earlier(x, d)
          PROVE  Before(x, m) /\ Earlier(x, d)'
      <4>1. x.kind = "app" => x.from \in Conns
        BY Kinds
      <4> QED
        BY <1>1, <1>2, <1>3, <3>2, <4>1 DEF Earlier, Before
    <3>3. Earlier(m, d)'
      BY <1>1, <1>2, <1>3 DEF Earlier
    <3>4. /\ \A i \in DOMAIN cGot[d] : cGot[d][i] \in FromServer
          /\ \A i \in DOMAIN toClient[d] : toClient[d][i] \in FromServer
      <4>1. cGot[d] \in Seq({Complete} \cup Apps) /\ toClient[d] \in Seq(FromServer)
        BY DEF NetInv, TypeInv
      <4>2. \A i \in DOMAIN cGot[d] : cGot[d][i] \in {Complete} \cup Apps
        BY <4>1
      <4>3. \A i \in DOMAIN toClient[d] : toClient[d][i] \in FromServer
        BY <4>1
      <4> QED
        BY <4>2, <4>3 DEF FromServer
    <3>5. \A i \in DOMAIN cGot[d] : Earlier(cGot[d][i], d)' /\ Before(cGot[d][i], m)
      BY <1>1, <3>1, <3>2, <3>4 DEF OrderInv, Earlier
    <3>6. ASSUME NEW i \in DOMAIN toClient'[d]
          PROVE  \/ i \in DOMAIN toClient[d] /\ toClient'[d][i] = toClient[d][i]
                 \/ i = Len(toClient[d]) + 1 /\ toClient'[d][i] = m
      BY <1>5, <2>2, <3>6
    <3>7. \A i \in DOMAIN toClient'[d] : Earlier(toClient[d][i], d)'
      BY <3>1, <3>2, <3>3, <3>4, <3>6 DEF OrderInv, Earlier
    <3>8. ASSUME NEW i \in DOMAIN toClient'[d], NEW j \in DOMAIN toClient'[d], i < j
          PROVE  Before(toClient'[d][i], toClient'[d][j])
      <4>1. i \in DOMAIN toClient[d] /\ toClient'[d][i] = toClient[d][i]
        BY <1>5, <2>2, <3>6, <3>8
      <4>2. CASE j \in DOMAIN toClient[d] /\ toClient'[d][j] = toClient[d][j]
        BY <3>1, <3>8, <4>1, <4>2 DEF OrderInv
      <4>3. CASE toClient'[d][j] = m
        BY <3>1, <3>2, <3>4, <4>1, <4>3 DEF OrderInv
      <4> QED
        BY <3>6, <4>2, <4>3
    <3>9. \A i \in DOMAIN cGot[d], j \in DOMAIN toClient'[d] : Before(cGot[d][i], toClient'[d][j])
      BY <3>1, <3>5, <3>6 DEF OrderInv
    <3> QED
      BY <1>1, <1>6, <2>2, <3>1, <3>5, <3>7, <3>8, <3>9 DEF OrderInv, Before
  <2> QED
    BY <1>4, <2>1, <2>2
<1> QED
  BY <1>7, <1>8, <1>9, <1>10, <1>11, <1>12 DEF NetInv

\* The reader thread takes the first of some messages off the stream: the answer to
\* the handshake, which was the only one, or a message to broadcast, which is newer
\* than what was broadcast before; otherwise nobody takes it.
LEMMA NetServerRead == ASSUME NetInv, NEW k \in Conns, ServerRead(k) PROVE NetInv'
<1> DEFINE msg == Head(toServer[k])
<1>1. /\ sListener[k] # "absent" /\ sReader[k] = "read"
      /\ UNCHANGED <<serverUp, crashed, raced, backlog, acceptor, accepted, m_terminators,
                     m_connections, cClient, cSocket, cCount, cSent, cGot, cAnswered, toClient>>
  BY DEF ServerRead, clientVars
<1>2. PICK n \in 1 .. Len(toServer[k]) : toServer' = [toServer EXCEPT ![k] = Rest(@, n)]
  BY DEF ServerRead
<1>3. toServer[k] \in Seq(FromClient)
  BY DEF NetInv, TypeInv
<1>4. /\ toServer'[k] = Rest(toServer[k], n) /\ toServer' \in [Conns -> Seq(FromClient)]
      /\ \A e \in Conns : e # k => toServer'[e] = toServer[e]
  BY <1>2, <1>3, RestOf DEF NetInv, TypeInv
<1>5. /\ \A i \in DOMAIN toServer'[k] :
            /\ i \in Int /\ n \in Int /\ i + n \in DOMAIN toServer[k] /\ i + n > 1
            /\ toServer'[k][i] = toServer[k][i + n]
      /\ 1 \in DOMAIN toServer[k] /\ msg = toServer[k][1] /\ msg \in FromClient
  <2>1. /\ DOMAIN Rest(toServer[k], n) = 1 .. Len(toServer[k]) - n /\ Len(toServer[k]) \in Nat
        /\ \A i \in DOMAIN Rest(toServer[k], n) :
              i + n \in DOMAIN toServer[k] /\ Rest(toServer[k], n)[i] = toServer[k][i + n]
        /\ 1 \in DOMAIN toServer[k] /\ msg = toServer[k][1]
    BY <1>3, RestOf, LenProperties
  <2>2. \A i \in DOMAIN toServer'[k] : i \in Int /\ n \in Int /\ i + n > 1
    BY <1>4, <2>1
  <2>3. msg \in FromClient
    BY <1>3, <2>1
  <2> QED
    BY <1>4, <2>1, <2>2, <2>3
<1> HIDE DEF msg
<1>6. HandshakeInv(k) /\ SendInv(k) /\ TypeInv /\ AcceptInv /\ MapsInv(k) /\ k <= cCount
  BY <1>1, InUse DEF NetInv
<1>7. \A i, j \in DOMAIN toServer'[k] : (i + n = j + n => i = j) /\ (i < j => i + n < j + n)
  BY <1>5
<1>8. CASE /\ sListener[k] = "handshake" /\ msg.kind = "HandshakeResponseMessageV1"
           /\ sListener' = [sListener EXCEPT ![k] = "none"]
           /\ sReader' = [sReader EXCEPT ![k] = "sendComplete"] /\ UNCHANGED <<todo, routing>>
  <2>1. /\ sListener'[k] = "none" /\ \A e \in Conns : e # k => sListener'[e] = sListener[e]
        /\ sReader'[k] = "sendComplete" /\ \A e \in Conns : e # k => sReader'[e] = sReader[e]
    BY <1>6, <1>8 DEF TypeInv
  <2>2. k \in cAnswered
    BY <1>5, <1>6, <1>8 DEF HandshakeInv, AnswerInv
  <2>3. TypeInv'
    BY <1>1, <1>4, <1>6, <1>8 DEF TypeInv
  <2>4. AcceptInv'
    <3>1. acceptor # "accept" => k # Current
      BY <1>6, <2>2 DEF AcceptInv
    <3> QED
      BY <1>1, <1>6, <2>1, <3>1, AcceptKept
  <2>5. HandshakeInv(k)'
    <3>1. PhaseInv(k)'
      BY <1>1, <1>6, <1>8, <2>1, <2>2 DEF HandshakeInv, PhaseInv, CompleteInv, PastComplete
    <3>2. \A i \in DOMAIN toServer'[k] : toServer'[k][i].kind # "HandshakeResponseMessageV1"
      <4>1. \A i \in DOMAIN toServer'[k] : i + n # 1
        BY <1>5
      <4> QED
        BY <1>5, <1>6, <1>8, <4>1 DEF HandshakeInv, AnswerInv
    <3>3. AnswerInv(k)'
      BY <3>2 DEF AnswerInv
    <3>4. CompleteInv(k)'
      BY <1>1, <1>6, <1>8, <2>1, <2>2 DEF HandshakeInv, CompleteInv, PastComplete
    <3> QED
      BY <3>1, <3>3, <3>4 DEF HandshakeInv
  <2>6. ASSUME NEW e \in Conns PROVE HandshakeInv(e)'
    <3>1. CASE e # k
      BY <1>1, <1>4, <2>1, <3>1, HandshakeKept DEF NetInv, SameHandshake
    <3> QED
      BY <2>5, <3>1
  <2>7. ASSUME NEW e \in Conns PROVE MapsInv(e)'
    <3>1. MapsInv(e)
      BY DEF NetInv
    <3> QED
      BY <1>1, <1>8, <2>1, <3>1 DEF MapsInv
  <2>8. SendInv(k)'
    BY <1>1, <1>5, <1>6, <1>7, <1>8 DEF SendInv
  <2>9. ASSUME NEW e \in Conns PROVE SendInv(e)'
    <3>1. CASE e # k
      BY <1>1, <1>4, <1>8, <3>1, SendKept DEF NetInv
    <3> QED
      BY <2>8, <3>1
  <2>10. ASSUME NEW e \in Conns PROVE OrderInv(e)'
    <3>1. OrderInv(e)
      BY DEF NetInv
    <3> QED
      BY <1>1, <1>8, <2>1, <3>1 DEF OrderInv, Earlier, Before
  <2> QED
    BY <2>3, <2>4, <2>6, <2>7, <2>9, <2>10 DEF NetInv
<1>9. CASE sListener[k] # "connection" /\ UNCHANGED <<sListener, sReader, todo, routing>>
  <2>1. TypeInv'
    BY <1>1, <1>4, <1>6, <1>9 DEF TypeInv
  <2>2. AcceptInv'
    BY <1>1, <1>9, <1>6 DEF AcceptInv, Current
  <2>3. HandshakeInv(k)'
    <3>1. AnswerInv(k)'
      BY <1>1, <1>5, <1>6, <1>7, <1>9 DEF HandshakeInv, AnswerInv
    <3>2. PhaseInv(k)' /\ CompleteInv(k)'
      BY <1>1, <1>6, <1>9 DEF HandshakeInv, PhaseInv, CompleteInv, PastComplete
    <3> QED
      BY <3>1, <3>2 DEF HandshakeInv
  <2>4. SendInv(k)'
    BY <1>1, <1>5, <1>6, <1>7, <1>9 DEF SendInv
  <2>5. ASSUME NEW e \in Conns PROVE HandshakeInv(e)' /\ SendInv(e)'
    <3>1. CASE e # k
      BY <1>1, <1>4, <1>9, <3>1, HandshakeKept, SendKept DEF NetInv, SameHandshake
    <3> QED
      BY <2>3, <2>4, <3>1
  <2>6. ASSUME NEW e \in Conns PROVE MapsInv(e)' /\ OrderInv(e)'
    BY <1>1, <1>9 DEF NetInv, MapsInv, OrderInv, Earlier, Before
  <2> QED
    BY <2>1, <2>2, <2>5, <2>6 DEF NetInv
<1>10. CASE sListener[k] = "connection" /\ GiveToBus(k, msg) /\ UNCHANGED sListener
  <2>1. msg \in Apps /\ msg.kind = "app" /\ msg.nr \in Nat /\ routing[k] < msg.nr /\ msg.nr <= cSent[k]
    <3>1. msg.kind # "HandshakeResponseMessageV1"
      BY <1>5, <1>6, <1>10 DEF HandshakeInv, AnswerInv
    <3>2. msg \in Apps /\ msg.kind = "app" /\ msg.nr \in Nat
      BY <1>5, <3>1, Kinds
    <3> QED
      BY <1>5, <1>6, <3>2 DEF SendInv
  <2>2. /\ sReader' = [sReader EXCEPT ![k] = "route"]
        /\ todo' = [todo EXCEPT ![k] = m_connections \ {k}]
        /\ routing' = [routing EXCEPT ![k] = msg.nr]
    BY <1>10 DEF GiveToBus
  <2>3. /\ sReader'[k] = "route" /\ \A e \in Conns : e # k => sReader'[e] = sReader[e]
        /\ todo'[k] = m_connections \ {k} /\ \A e \in Conns : e # k => todo'[e] = todo[e]
        /\ routing'[k] = msg.nr /\ \A e \in Conns : e # k => routing'[e] = routing[e]
    BY <1>6, <2>2 DEF TypeInv
  <2>4. TypeInv'
    BY <1>1, <1>4, <1>6, <1>10, <2>1, <2>2 DEF TypeInv
  <2>5. AcceptInv'
    <3>1. acceptor # "accept" => k # Current
      BY <1>6, <1>10 DEF AcceptInv, TypeInv
    <3> QED
      BY <1>1, <1>6, <1>10, <2>3, <3>1, AcceptKept
  <2>6. HandshakeInv(k)'
    <3>1. PhaseInv(k)' /\ CompleteInv(k)'
      BY <1>1, <1>6, <1>10, <2>3 DEF HandshakeInv, PhaseInv, CompleteInv, PastComplete
    <3>2. AnswerInv(k)'
      BY <1>1, <1>5, <1>6, <1>7, <1>10 DEF HandshakeInv, AnswerInv
    <3> QED
      BY <3>1, <3>2 DEF HandshakeInv
  <2>7. ASSUME NEW e \in Conns PROVE HandshakeInv(e)'
    <3>1. CASE e # k
      BY <1>1, <1>4, <1>10, <2>3, <3>1, HandshakeKept DEF NetInv, SameHandshake
    <3> QED
      BY <2>6, <3>1
  <2>8. ASSUME NEW e \in Conns PROVE MapsInv(e)'
    <3>1. MapsInv(e)
      BY DEF NetInv
    <3>2. \A d \in Conns : e \in todo'[d] => sListener'[e] = "connection" /\ sReader'[d] = "route"
      BY <1>10, <2>3, <3>1 DEF MapsInv
    <3> QED
      BY <1>1, <1>10, <2>3, <3>1, <3>2 DEF MapsInv
  <2>9. SendInv(k)'
    <3>1. \A i \in DOMAIN toServer'[k] : toServer'[k][i].kind = "app" => msg.nr < toServer'[k][i].nr
      BY <1>5, <1>6, <2>1 DEF SendInv
    <3>2. \A i \in DOMAIN toServer'[k] : toServer'[k][i].kind = "app" =>
             toServer'[k][i].from = k /\ toServer'[k][i].nr <= cSent[k]
      BY <1>5, <1>6 DEF SendInv
    <3>3. \A i, j \in DOMAIN toServer'[k] :
             i < j /\ toServer'[k][i].kind = "app" /\ toServer'[k][j].kind = "app" =>
                toServer'[k][i].nr < toServer'[k][j].nr
      BY <1>5, <1>6, <1>7 DEF SendInv
    <3> QED
      BY <1>1, <2>1, <2>3, <3>1, <3>2, <3>3 DEF SendInv
  <2>10. ASSUME NEW e \in Conns PROVE SendInv(e)'
    <3>1. CASE e # k
      BY <1>1, <1>4, <2>3, <3>1, SendKept DEF NetInv
    <3> QED
      BY <2>9, <3>1
  <2>11. ASSUME NEW e \in Conns PROVE OrderInv(e)'
    <3>1. \A f \in Conns : \/ routing'[f] = routing[f] /\ (e \in todo'[f] => e \in todo[f])
                           \/ routing[f] < routing'[f]
      BY <2>1, <2>3
    <3>2. routing' \in [Conns -> Nat]
      BY <2>4 DEF TypeInv
    <3> QED
      BY <1>1, <1>6, <1>10, <3>1, <3>2, OrderKept DEF NetInv
  <2> QED
    BY <2>4, <2>5, <2>7, <2>8, <2>10, <2>11 DEF NetInv
<1> QED
  <2>1. \/ HandshakeReceives(k, msg) \/ ConnectionReceives(k, msg)
        \/ sListener[k] = "none" /\ UNCHANGED <<sListener, sReader, todo, routing>>
    BY DEF ServerRead, msg
  <2> QED
    BY <1>8, <1>9, <1>10, <2>1 DEF HandshakeReceives, removeListener, ConnectionReceives

-----------------------------------------------------------------------------
(* The clients.                                                            *)

\* A new connection waits to be accepted.
LEMMA NetClientConnect ==
    ASSUME NetInv, NEW c \in Clients, NEW k, k = cCount + 1, ClientConnect(c) PROVE NetInv'
<1>1. /\ cCount < MaxConnects /\ cSocket' = [cSocket EXCEPT ![k] = "open"]
      /\ backlog' = Append(backlog, k) /\ cClient' = [cClient EXCEPT ![k] = c] /\ cCount' = k
      /\ UNCHANGED <<serverUp, crashed, raced, acceptor, accepted, m_terminators, sListener,
                     sReader, todo, routing, m_connections, cSent, cGot, cAnswered, toServer,
                     toClient>>
  BY DEF ClientConnect, EstablishConnection, SetSocket
<1>2. /\ k \in Conns /\ k > cCount /\ cCount \in Nat /\ k \in Nat /\ k = cCount + 1
      /\ k \in 0 .. MaxConnects
  BY <1>1, BoundsAssumption DEF NetInv, TypeInv, Conns
<1>3. sListener[k] = "absent" /\ cSocket[k] = "none"
  BY <1>2 DEF NetInv, AcceptInv
<1>4. cSocket'[k] = "open" /\ \A e \in Conns : e # k => cSocket'[e] = cSocket[e]
  BY <1>1, <1>2 DEF NetInv, TypeInv
<1>5. /\ backlog' \in Seq(Conns) /\ DOMAIN backlog' = 1 .. Len(backlog) + 1
      /\ Len(backlog) \in Nat /\ DOMAIN backlog = 1 .. Len(backlog)
      /\ \A i \in DOMAIN backlog : backlog'[i] = backlog[i] /\ backlog[i] \in Conns
      /\ backlog'[Len(backlog) + 1] = k
  <2>1. backlog \in Seq(Conns)
    BY DEF NetInv, TypeInv
  <2> QED
    BY <1>1, <1>2, <2>1, Appended
<1>6. \A i \in DOMAIN backlog' : \/ i \in DOMAIN backlog /\ backlog'[i] = backlog[i]
                                 \/ i = Len(backlog) + 1 /\ backlog'[i] = k
  BY <1>5
<1>7. TypeInv'
  BY <1>1, <1>2, <1>5 DEF NetInv, TypeInv
<1>8. AcceptInv'
  <2>1. \A i \in DOMAIN backlog : /\ sListener[backlog[i]] = "absent" /\ backlog[i] <= cCount
                                  /\ backlog[i] \in Nat
    BY <1>5 DEF NetInv, AcceptInv, Conns
  <2>2. \A i \in DOMAIN backlog' : sListener[backlog'[i]] = "absent" /\ backlog'[i] <= k
    BY <1>2, <1>3, <1>6, <2>1
  <2>3. \A i \in DOMAIN backlog : backlog[i] # k
    BY <1>2, <2>1
  <2>4. \A i, j \in DOMAIN backlog' : backlog'[i] = backlog'[j] => i = j
    BY <1>6, <2>3 DEF NetInv, AcceptInv
  <2>5. \A e \in Conns : e > k => e > cCount /\ e # k
    BY <1>2 DEF Conns
  <2>6. \A e \in Conns : e > k => cSocket'[e] = "none" /\ sListener[e] = "absent"
    BY <1>4, <2>5 DEF NetInv, AcceptInv
  <2>7. Current' = Current
    BY <1>1 DEF Current
  <2> QED
    BY <1>1, <2>2, <2>4, <2>6, <2>7 DEF NetInv, AcceptInv
<1>9. ASSUME NEW e \in Conns PROVE HandshakeInv(e)'
  <2>1. CASE e = k
    <3>1. HandshakeInv(k)
      BY <1>2 DEF NetInv
    <3> QED
      BY <1>1, <1>3, <1>4, <2>1, <3>1
         DEF HandshakeInv, PhaseInv, AnswerInv, CompleteInv, PastComplete
  <2>2. CASE e # k
    BY <1>1, <1>4, <2>2, HandshakeKept DEF NetInv, SameHandshake
  <2> QED
    BY <2>1, <2>2
<1>10. ASSUME NEW e \in Conns PROVE MapsInv(e)'
  BY <1>1 DEF NetInv, MapsInv
<1>11. ASSUME NEW e \in Conns PROVE SendInv(e)' /\ OrderInv(e)'
  BY <1>1, SendKept, OrderKept DEF NetInv, TypeInv
<1> QED
  BY <1>7, <1>8, <1>9, <1>10, <1>11 DEF NetInv

\* connect() adds the listener: the handshake has not been answered without it.
LEMMA NetClientAddListener == ASSUME NetInv, NEW k \in Conns, ClientAddListener(k) PROVE NetInv'
<1>1. /\ cSocket[k] = "open" /\ cSocket' = [cSocket EXCEPT ![k] = "ready"]
      /\ UNCHANGED <<serverUp, crashed, raced, backlog, acceptor, accepted, m_terminators,
                     sListener, sReader, todo, routing, m_connections, cClient, cCount, cSent,
                     cGot, cAnswered, toServer, toClient>>
  BY DEF ClientAddListener, SetSocket, serverVars
<1>2. cSocket'[k] = "ready" /\ \A e \in Conns : e # k => cSocket'[e] = cSocket[e]
  BY <1>1 DEF NetInv, TypeInv
<1>3. TypeInv'
  BY <1>1 DEF NetInv, TypeInv
<1>4. AcceptInv'
  BY <1>1, <1>2, InUse, AcceptKept DEF NetInv, AcceptInv
<1>5. ASSUME NEW e \in Conns PROVE HandshakeInv(e)'
  <2>1. CASE e = k
    <3>1. HandshakeInv(k)
      BY DEF NetInv
    <3> QED
      BY <1>1, <1>2, <2>1, <3>1
         DEF HandshakeInv, PhaseInv, AnswerInv, CompleteInv, PastComplete
  <2>2. CASE e # k
    BY <1>1, <1>2, <2>2, HandshakeKept DEF NetInv, SameHandshake
  <2> QED
    BY <2>1, <2>2
<1>6. ASSUME NEW e \in Conns PROVE MapsInv(e)'
  BY <1>1 DEF NetInv, MapsInv
<1>7. ASSUME NEW e \in Conns PROVE SendInv(e)' /\ OrderInv(e)'
  BY <1>1, SendKept, OrderKept DEF NetInv, TypeInv
<1> QED
  BY <1>3, <1>4, <1>5, <1>6, <1>7 DEF NetInv

\* A message the client sends is newer than those it sent before.
LEMMA NetClientSend ==
    ASSUME NetInv, NEW k \in Conns, NEW m, m = App(k, cSent[k] + 1), ClientSend(k) PROVE NetInv'
<1>1. /\ cSocket[k] = "ready" /\ cSent' = [cSent EXCEPT ![k] = @ + 1]
      /\ toServer' = [toServer EXCEPT ![k] = Append(@, m)]
      /\ UNCHANGED <<serverUp, crashed, raced, backlog, acceptor, accepted, m_terminators,
                     sListener, sReader, todo, routing, m_connections, cClient, cSocket, cCount,
                     cGot, cAnswered, toClient>>
  BY DEF ClientSend, ClientSocketSend, serverVars
<1>2. /\ cSent[k] \in Nat /\ cSent'[k] = cSent[k] + 1
      /\ \A e \in Conns : e # k => cSent'[e] = cSent[e] /\ toServer'[e] = toServer[e]
      /\ toServer'[k] = Append(toServer[k], m) /\ cSent' \in [Conns -> Nat]
  BY <1>1 DEF NetInv, TypeInv
<1>3. m \in FromClient /\ m.kind = "app" /\ m.from = k /\ m.nr = cSent[k] + 1
  BY <1>2, Kinds
<1>4. /\ toServer'[k] \in Seq(FromClient) /\ DOMAIN toServer'[k] = 1 .. Len(toServer[k]) + 1
      /\ Len(toServer[k]) \in Nat /\ DOMAIN toServer[k] = 1 .. Len(toServer[k])
      /\ \A i \in DOMAIN toServer[k] : toServer'[k][i] = toServer[k][i]
      /\ toServer'[k][Len(toServer[k]) + 1] = m
  <2>1. toServer[k] \in Seq(FromClient)
    BY DEF NetInv, TypeInv
  <2> QED
    BY <1>2, <1>3, <2>1, Appended
<1>5. \A i \in DOMAIN toServer'[k] : \/ i \in DOMAIN toServer[k] /\ toServer'[k][i] = toServer[k][i]
                                     \/ i = Len(toServer[k]) + 1 /\ toServer'[k][i] = m
  BY <1>4
<1>6. TypeInv'
  BY <1>1, <1>2, <1>4 DEF NetInv, TypeInv
<1>7. AcceptInv'
  BY <1>1 DEF NetInv, AcceptInv, Current
<1>8. ASSUME NEW e \in Conns PROVE HandshakeInv(e)'
  <2>1. CASE e = k
    <3>1. HandshakeInv(k)
      BY DEF NetInv
    <3>2. PhaseInv(k)' /\ CompleteInv(k)'
      BY <1>1, <3>1 DEF HandshakeInv, PhaseInv, CompleteInv, PastComplete
    <3>3. AnswerInv(k)'
      BY <1>1, <1>3, <1>5, <3>1 DEF HandshakeInv, AnswerInv
    <3> QED
      BY <2>1, <3>2, <3>3 DEF HandshakeInv
  <2>2. CASE e # k
    BY <1>1, <1>2, <2>2, HandshakeKept DEF NetInv, SameHandshake
  <2> QED
    BY <2>1, <2>2
<1>9. ASSUME NEW e \in Conns PROVE MapsInv(e)'
  BY <1>1 DEF NetInv, MapsInv
<1>10. SendInv(k)'
  <2>1. SendInv(k) /\ routing[k] \in Nat
    BY DEF NetInv, TypeInv
  <2>2. \A i \in DOMAIN toServer[k] : toServer[k][i].kind = "app" => toServer[k][i].nr \in Nat
    <3>1. \A i \in DOMAIN toServer[k] : toServer[k][i] \in FromClient
      BY DEF NetInv, TypeInv
    <3> QED
      BY <3>1, Kinds
  <2>3. \A i \in DOMAIN toServer'[k] : toServer'[k][i].kind = "app" =>
           /\ toServer'[k][i].from = k
           /\ routing[k] < toServer'[k][i].nr /\ toServer'[k][i].nr <= cSent[k] + 1
    <3> SUFFICES ASSUME NEW i \in DOMAIN toServer'[k], toServer'[k][i].kind = "app"
                 PROVE  /\ toServer'[k][i].from = k /\ routing[k] < toServer'[k][i].nr
                        /\ toServer'[k][i].nr <= cSent[k] + 1
      OBVIOUS
    <3>1. cSent[k] \in Nat /\ routing[k] \in Nat
      BY <1>2, <2>1
    <3>2. CASE i \in DOMAIN toServer[k] /\ toServer'[k][i] = toServer[k][i]
      <4>1. /\ toServer[k][i].from = k /\ routing[k] < toServer[k][i].nr
            /\ toServer[k][i].nr <= cSent[k] /\ toServer[k][i].nr \in Nat
        BY <2>1, <2>2, <3>2 DEF SendInv
      <4> QED
        BY <3>1, <3>2, <4>1
    <3>3. CASE toServer'[k][i] = m
      <4>1. routing[k] <= cSent[k]
        BY <2>1 DEF SendInv
      <4> QED
        BY <1>3, <3>1, <3>3, <4>1
    <3> QED
      BY <1>5, <3>2, <3>3
  <2>4. ASSUME NEW i \in DOMAIN toServer'[k], NEW j \in DOMAIN toServer'[k], i < j,
               toServer'[k][i].kind = "app", toServer'[k][j].kind = "app"
        PROVE  toServer'[k][i].nr < toServer'[k][j].nr
    <3>1. i \in DOMAIN toServer[k] /\ toServer'[k][i] = toServer[k][i]
      BY <1>4, <2>4
    <3>2. CASE j \in DOMAIN toServer[k] /\ toServer'[k][j] = toServer[k][j]
      BY <2>1, <2>4, <3>1, <3>2 DEF SendInv
    <3>3. CASE toServer'[k][j] = m
      BY <1>2, <1>3, <2>1, <2>2, <2>4, <3>1, <3>3 DEF SendInv
    <3> QED
      BY <1>5, <3>2, <3>3
  <2>5. routing'[k] = routing[k] /\ routing[k] <= cSent[k] + 1
    BY <1>1, <1>2, <2>1 DEF SendInv
  <2> QED
    BY <1>2, <2>3, <2>4, <2>5 DEF SendInv
<1>11. ASSUME NEW e \in Conns PROVE SendInv(e)'
  <2>1. CASE e # k
    BY <1>1, <1>2, <2>1, SendKept DEF NetInv
  <2> QED
    BY <1>10, <2>1
<1>12. ASSUME NEW e \in Conns PROVE OrderInv(e)'
  BY <1>1, OrderKept DEF NetInv, TypeInv
<1> QED
  BY <1>6, <1>7, <1>8, <1>9, <1>11, <1>12 DEF NetInv

\* The client closes its end, or dies: what is on its streams may be lost.
LEMMA NetClientDisconnect ==
    ASSUME NetInv, NEW k \in Conns, ClientDisconnect(k) \/ ClientDies(k) PROVE NetInv'
<1>1. /\ cSocket[k] \in {"open", "ready"} /\ cSocket' = [cSocket EXCEPT ![k] = "closed"]
      /\ toClient' = [toClient EXCEPT ![k] = <<>>]
      /\ toServer' = toServer \/ toServer' = [toServer EXCEPT ![k] = <<>>]
      /\ UNCHANGED <<serverUp, crashed, raced, backlog, acceptor, accepted, m_terminators,
                     sListener, sReader, todo, routing, m_connections, cClient, cCount, cSent,
                     cGot, cAnswered>>
  BY DEF ClientDisconnect, ClientDies, CloseSocket, SetSocket, serverVars
<1>2. /\ cSocket'[k] = "closed" /\ toClient'[k] = <<>>
      /\ toServer'[k] = toServer[k] \/ toServer'[k] = <<>>
      /\ \A e \in Conns : e # k => /\ cSocket'[e] = cSocket[e] /\ toClient'[e] = toClient[e]
                                   /\ toServer'[e] = toServer[e]
  BY <1>1 DEF NetInv, TypeInv
<1>3. TypeInv'
  <2>1. <<>> \in Seq(FromClient) /\ <<>> \in Seq(FromServer)
    OBVIOUS
  <2>2. toServer \in [Conns -> Seq(FromClient)] /\ toClient \in [Conns -> Seq(FromServer)]
    BY DEF NetInv, TypeInv
  <2>3. toServer' \in [Conns -> Seq(FromClient)]
    <3>1. toServer' = toServer \/ toServer' = [toServer EXCEPT ![k] = <<>>]
      BY <1>1
    <3> QED
      BY <2>1, <2>2, <3>1
  <2>4. toClient' \in [Conns -> Seq(FromServer)]
    <3>1. toClient' = [toClient EXCEPT ![k] = <<>>]
      BY <1>1
    <3> QED
      BY <2>1, <2>2, <3>1
  <2> QED
    BY <1>1, <2>3, <2>4 DEF NetInv, TypeInv
<1>4. AcceptInv'
  BY <1>1, <1>2, InUse, AcceptKept DEF NetInv, AcceptInv
<1>5. ASSUME NEW e \in Conns PROVE HandshakeInv(e)'
  <2>1. CASE e = k
    <3>1. HandshakeInv(k) /\ DOMAIN <<>> = {}
      BY DEF NetInv
    <3>2. PhaseInv(k)' /\ CompleteInv(k)'
      BY <1>1, <1>2, <3>1 DEF HandshakeInv, PhaseInv, CompleteInv, PastComplete
    <3>3. AnswerInv(k)'
      BY <1>1, <1>2, <3>1 DEF HandshakeInv, AnswerInv
    <3> QED
      BY <2>1, <3>2, <3>3 DEF HandshakeInv
  <2>2. CASE e # k
    BY <1>1, <1>2, <2>2, HandshakeKept DEF NetInv, SameHandshake
  <2> QED
    BY <2>1, <2>2
<1>6. ASSUME NEW e \in Conns PROVE MapsInv(e)'
  BY <1>1 DEF NetInv, MapsInv
<1>7. ASSUME NEW e \in Conns PROVE SendInv(e)' /\ OrderInv(e)'
  <2>1. SendInv(e) /\ OrderInv(e) /\ DOMAIN <<>> = {}
    BY DEF NetInv
  <2>2. toClient'[e] = toClient[e] \/ toClient'[e] = <<>>
    BY <1>2
  <2>3. toServer'[e] = toServer[e] \/ toServer'[e] = <<>>
    BY <1>2
  <2>4. SendInv(e)'
    BY <1>1, <2>1, <2>3 DEF SendInv
  <2>5. OrderInv(e)'
    BY <1>1, <2>1, <2>2 DEF OrderInv, Earlier, Before
  <2> QED
    BY <2>4, <2>5
<1> QED
  BY <1>3, <1>4, <1>5, <1>6, <1>7 DEF NetInv

\* The client's reader thread takes the first of some messages off the stream.  The
\* HandshakeInitMessage is alone on it, so nothing is skipped with it; what comes
\* first after the answer is the HandshakeCompleteMessage.
LEMMA NetClientRead ==
    ASSUME NetInv, NEW k \in Conns, NEW m, m = Head(toClient[k]), ClientRead(k) PROVE NetInv'
<1>1. /\ cSocket[k] \in {"open", "ready"}
      /\ UNCHANGED <<serverUp, crashed, raced, backlog, acceptor, accepted, m_terminators,
                     sListener, sReader, todo, routing, m_connections, cClient, cSocket, cCount,
                     cSent>>
  BY DEF ClientRead, serverVars
<1>2. PICK n \in 1 .. Len(toClient[k]) : toClient' = [toClient EXCEPT ![k] = Rest(@, n)]
  BY DEF ClientRead
<1>3. /\ HandshakeInv(k) /\ SendInv(k) /\ OrderInv(k) /\ TypeInv /\ AcceptInv /\ k <= cCount
      /\ toClient[k] \in Seq(FromServer)
  BY <1>1, InUse DEF NetInv, TypeInv
<1>4. /\ toClient'[k] = Rest(toClient[k], n) /\ toClient' \in [Conns -> Seq(FromServer)]
      /\ \A e \in Conns : e # k => toClient'[e] = toClient[e]
  BY <1>2, <1>3, RestOf DEF TypeInv
<1>5. /\ \A i \in DOMAIN toClient'[k] :
            /\ i \in Int /\ n \in Int /\ i + n \in DOMAIN toClient[k] /\ i + n > 1
            /\ toClient'[k][i] = toClient[k][i + n]
      /\ 1 \in DOMAIN toClient[k] /\ m = toClient[k][1] /\ m \in FromServer
      /\ toClient[k] # <<>>
  <2>1. /\ DOMAIN Rest(toClient[k], n) = 1 .. Len(toClient[k]) - n /\ Len(toClient[k]) \in Nat
        /\ \A i \in DOMAIN Rest(toClient[k], n) :
              i + n \in DOMAIN toClient[k] /\ Rest(toClient[k], n)[i] = toClient[k][i + n]
        /\ 1 \in DOMAIN toClient[k] /\ m = toClient[k][1]
    BY <1>3, RestOf, LenProperties
  <2>2. \A i \in DOMAIN toClient'[k] : i \in Int /\ n \in Int /\ i + n > 1
    BY <1>4, <2>1
  <2>3. m \in FromServer
    BY <1>3, <2>1
  <2>4. toClient[k] # <<>>
    BY <2>1
  <2> QED
    BY <1>4, <2>1, <2>2, <2>3, <2>4
<1>6. \A i, j \in DOMAIN toClient'[k] : i < j => i + n < j + n
  BY <1>5
<1>7. acceptor # "accept" => k # Current
  BY <1>3, <1>5 DEF AcceptInv
<1>8. ASSUME NEW e \in Conns PROVE MapsInv(e)'
  BY <1>1 DEF NetInv, MapsInv
<1>9. ASSUME toClient[k] = <<Init_>> PROVE toClient'[k] = <<>> /\ m = Init_
  <2>1. Len(<<Init_>>) = 1 /\ <<Init_>>[1] = Init_
    OBVIOUS
  <2>2. n = 1 /\ Rest(<<Init_>>, 1) = <<>>
    BY <1>2, <1>9, <2>1 DEF Rest
  <2> QED
    BY <1>4, <1>5, <1>9, <2>1, <2>2
<1>10. CASE ~PastComplete(k)
  <2>1. /\ toClient[k] = <<Init_>> /\ toClient'[k] = <<>> /\ m = Init_ /\ cGot[k] = <<>>
        /\ sListener[k] = "handshake" /\ k \notin cAnswered
    BY <1>3, <1>5, <1>9, <1>10 DEF HandshakeInv, CompleteInv
  <2>2. m.kind = "HandshakeInitMessage"
    BY <2>1, Kinds
  <2>3. /\ cGot' = cGot
        /\ \/ /\ cSocket[k] = "ready" /\ cAnswered' = cAnswered \cup {k}
              /\ toServer' = [toServer EXCEPT ![k] = Append(@, Response(cClient[k]))]
           \/ UNCHANGED <<toServer, cAnswered>>
    BY <2>2 DEF ClientRead, ClientReceives, ClientSocketSend
  <2>4. /\ \A e \in Conns : e # k => /\ toServer'[e] = toServer[e]
                                     /\ (e \in cAnswered' <=> e \in cAnswered)
        /\ \A i \in DOMAIN toServer'[k] :
              \/ i \in DOMAIN toServer[k] /\ toServer'[k][i] = toServer[k][i]
              \/ /\ i = Len(toServer[k]) + 1 /\ k \in cAnswered'
                 /\ toServer'[k][i].kind = "HandshakeResponseMessageV1"
        /\ toServer' \in [Conns -> Seq(FromClient)]
    <3>1. CASE UNCHANGED <<toServer, cAnswered>>
      BY <1>3, <3>1 DEF TypeInv
    <3>2. CASE /\ cAnswered' = cAnswered \cup {k}
               /\ toServer' = [toServer EXCEPT ![k] = Append(@, Response(cClient[k]))]
      <4>1. /\ Response(cClient[k]) \in FromClient
            /\ Response(cClient[k]).kind = "HandshakeResponseMessageV1"
        BY <1>3, Kinds DEF TypeInv, FromClient
      <4>2. toServer[k] \in Seq(FromClient)
        BY <1>3 DEF TypeInv
      <4>3. /\ toServer'[k] = Append(toServer[k], Response(cClient[k]))
            /\ \A e \in Conns : e # k => toServer'[e] = toServer[e]
        BY <1>3, <3>2 DEF TypeInv
      <4>4. /\ Append(toServer[k], Response(cClient[k])) \in Seq(FromClient)
            /\ DOMAIN toServer'[k] = 1 .. Len(toServer[k]) + 1
            /\ Len(toServer[k]) \in Nat /\ DOMAIN toServer[k] = 1 .. Len(toServer[k])
            /\ \A i \in DOMAIN toServer[k] : toServer'[k][i] = toServer[k][i]
            /\ toServer'[k][Len(toServer[k]) + 1] = Response(cClient[k])
        BY <4>1, <4>2, <4>3, Appended
      <4>5. \A i \in DOMAIN toServer'[k] : i \in DOMAIN toServer[k] \/ i = Len(toServer[k]) + 1
        BY <4>4
      <4>6. toServer' \in [Conns -> Seq(FromClient)]
        BY <1>3, <3>2, <4>4 DEF TypeInv
      <4> QED
        BY <3>2, <4>1, <4>3, <4>4, <4>5, <4>6
    <3> QED
      BY <2>3, <3>1, <3>2
  <2>5. TypeInv'
    BY <1>1, <1>3, <1>4, <2>3, <2>4 DEF TypeInv
  <2>6. AcceptInv'
    BY <1>1, <1>3, <1>4, <1>7, <2>3, <2>4, AcceptKept
  <2>7. HandshakeInv(k)'
    <3>1. PhaseInv(k)'
      BY <1>1, <1>3, <1>10, <2>1, <2>3 DEF HandshakeInv, PhaseInv, PastComplete
    <3>2. \A i \in DOMAIN toServer[k] : toServer[k][i].kind # "HandshakeResponseMessageV1"
      BY <1>3, <2>1 DEF HandshakeInv, AnswerInv
    <3>3. AnswerInv(k)'
      BY <1>1, <2>1, <2>4, <3>2 DEF AnswerInv
    <3>4. CompleteInv(k)'
      BY <1>1, <1>10, <2>1, <2>3 DEF CompleteInv, PastComplete
    <3> QED
      BY <3>1, <3>3, <3>4 DEF HandshakeInv
  <2>8. SendInv(k)'
    <3>1. \A i \in DOMAIN toServer'[k] : toServer'[k][i].kind = "app" =>
             i \in DOMAIN toServer[k] /\ toServer'[k][i] = toServer[k][i]
      BY <2>4
    <3> QED
      BY <1>1, <1>3, <3>1 DEF SendInv
  <2>9. ASSUME NEW e \in Conns PROVE HandshakeInv(e)' /\ SendInv(e)'
    <3>1. CASE e # k
      BY <1>1, <1>4, <2>3, <2>4, <3>1, HandshakeKept, SendKept DEF NetInv, SameHandshake
    <3> QED
      BY <2>7, <2>8, <3>1
  <2>10. ASSUME NEW e \in Conns PROVE OrderInv(e)'
    <3>1. CASE e # k
      BY <1>1, <1>4, <2>3, <3>1, OrderKept DEF NetInv, TypeInv
    <3>2. CASE e = k
      BY <1>1, <1>3, <2>1, <2>3, <3>2 DEF OrderInv, Earlier, Before
    <3> QED
      BY <3>1, <3>2
  <2> QED
    BY <1>8, <2>5, <2>6, <2>9, <2>10 DEF NetInv
<1>11. CASE PastComplete(k)
  <2>1. /\ cSocket[k] = "ready" /\ m # Init_ /\ m \in {Complete} \cup Apps
        /\ cGot[k] = <<>> => m = Complete
    <3>1. cSocket[k] = "ready"
      BY <1>1, <1>3, <1>11 DEF HandshakeInv, PhaseInv
    <3>2. m # Init_
      BY <1>3, <1>5, <1>11 DEF HandshakeInv, CompleteInv
    <3>3. m \in {Complete} \cup Apps
      BY <1>5, <3>2, Kinds
    <3>4. cGot[k] = <<>> => m = Complete
      BY <1>3, <1>5, <1>11, <3>1 DEF HandshakeInv, CompleteInv
    <3> QED
      BY <3>1, <3>2, <3>3, <3>4
  <2>2. cGot' = [cGot EXCEPT ![k] = Append(@, m)] /\ UNCHANGED <<toServer, cAnswered>>
    <3>1. m.kind # "HandshakeInitMessage"
      BY <2>1, Kinds
    <3> QED
      BY <2>1, <3>1 DEF ClientRead, ClientReceives
  <2>3. /\ cGot'[k] \in Seq({Complete} \cup Apps) /\ DOMAIN cGot'[k] = 1 .. Len(cGot[k]) + 1
        /\ Len(cGot[k]) \in Nat /\ DOMAIN cGot[k] = 1 .. Len(cGot[k])
        /\ \A i \in DOMAIN cGot[k] : cGot'[k][i] = cGot[k][i]
        /\ cGot'[k][Len(cGot[k]) + 1] = m
        /\ \A e \in Conns : e # k => cGot'[e] = cGot[e]
    <3>1. cGot[k] \in Seq({Complete} \cup Apps)
      BY <1>3 DEF TypeInv
    <3>2. /\ cGot'[k] = Append(cGot[k], m) /\ \A e \in Conns : e # k => cGot'[e] = cGot[e]
      BY <1>3, <2>2 DEF TypeInv
    <3> QED
      BY <2>1, <3>1, <3>2, Appended
  <2>4. \A i \in DOMAIN cGot'[k] : \/ i \in DOMAIN cGot[k] /\ cGot'[k][i] = cGot[k][i]
                                   \/ i = Len(cGot[k]) + 1 /\ cGot'[k][i] = m
    BY <2>3
  <2>5. TypeInv'
    BY <1>1, <1>3, <1>4, <2>2, <2>3 DEF TypeInv
  <2>6. AcceptInv'
    BY <1>1, <1>3, <1>4, <1>7, <2>2, AcceptKept
  <2>7. HandshakeInv(k)'
    <3>1. PhaseInv(k)'
      <4>1. ~(sListener[k] = "absent" \/ (sListener[k] = "none" /\ sReader[k] = "read"))
        BY <1>3, <1>11 DEF HandshakeInv, PhaseInv
      <4> QED
        BY <1>1, <1>3, <2>1, <2>2, <4>1 DEF HandshakeInv, PhaseInv, PastComplete
    <3>2. AnswerInv(k)'
      BY <1>1, <1>3, <2>2 DEF HandshakeInv, AnswerInv
    <3>3. cGot'[k] # <<>> /\ cGot'[k][1] = Complete
      <4>1. CASE cGot[k] = <<>>
        <5>1. Append(<<>>, m) = <<m>> /\ <<m>> # <<>> /\ <<m>>[1] = m
          OBVIOUS
        <5> QED
          BY <1>3, <2>1, <2>2, <4>1, <5>1 DEF TypeInv
      <4>2. CASE cGot[k] # <<>>
        <5>1. Len(cGot[k]) # 0
          BY <1>3, <4>2, EmptySeq DEF TypeInv
        <5>2. 1 \in DOMAIN cGot[k] /\ 1 \in DOMAIN cGot'[k]
          BY <2>3, <5>1
        <5>3. DOMAIN <<>> = {}
          OBVIOUS
        <5> QED
          BY <1>3, <2>3, <4>2, <5>2, <5>3 DEF HandshakeInv, CompleteInv
      <4> QED
        BY <4>1, <4>2
    <3>4. \A i \in DOMAIN toClient'[k] : toClient'[k][i] # Init_
      BY <1>3, <1>5, <1>11 DEF HandshakeInv, CompleteInv
    <3>5. PastComplete(k)'
      BY <1>1, <1>11 DEF PastComplete
    <3>6. CompleteInv(k)'
      BY <3>3, <3>4, <3>5 DEF CompleteInv
    <3> QED
      BY <3>1, <3>2, <3>6 DEF HandshakeInv
  <2>8. ASSUME NEW e \in Conns PROVE HandshakeInv(e)' /\ SendInv(e)'
    <3>1. SendInv(e)'
      BY <1>1, <2>2, SendKept DEF NetInv
    <3>2. CASE e # k
      BY <1>1, <1>4, <2>2, <2>3, <3>1, <3>2, HandshakeKept DEF NetInv, SameHandshake
    <3> QED
      BY <2>7, <3>1, <3>2
  <2>9. OrderInv(k)'
    <3>1. \A i \in DOMAIN cGot'[k] : Earlier(cGot[k][i], k)'
      BY <1>1, <1>3, <1>5, <2>4 DEF OrderInv, Earlier
    <3>2. \A i \in DOMAIN toClient'[k] : Earlier(toClient[k][i], k)'
      BY <1>1, <1>3, <1>5 DEF OrderInv, Earlier
    <3>3. ASSUME NEW i \in DOMAIN cGot'[k], NEW j \in DOMAIN cGot'[k], i < j
          PROVE  Before(cGot'[k][i], cGot'[k][j])
      <4>1. i \in DOMAIN cGot[k]
        BY <2>3, <3>3
      <4> QED
        BY <1>3, <1>5, <2>3, <2>4, <3>3, <4>1 DEF OrderInv
    <3>4. \A i, j \in DOMAIN toClient'[k] : i < j => Before(toClient'[k][i], toClient'[k][j])
      BY <1>3, <1>5, <1>6 DEF OrderInv
    <3>5. \A i \in DOMAIN cGot'[k], j \in DOMAIN toClient'[k] : Before(cGot'[k][i], toClient'[k][j])
      BY <1>3, <1>5, <2>4 DEF OrderInv
    <3>6. sListener[k] # "connection" =>
             /\ \A i \in DOMAIN cGot'[k] : cGot'[k][i].kind # "app"
             /\ \A i \in DOMAIN toClient'[k] : toClient'[k][i].kind # "app"
      BY <1>3, <1>5, <2>4 DEF OrderInv
    <3> QED
      BY <1>1, <3>1, <3>2, <3>3, <3>4, <3>5, <3>6 DEF OrderInv, Before
  <2>10. ASSUME NEW e \in Conns PROVE OrderInv(e)'
    <3>1. CASE e # k
      BY <1>1, <1>4, <2>3, <3>1, OrderKept DEF NetInv, TypeInv
    <3> QED
      BY <2>9, <3>1
  <2> QED
    BY <1>8, <2>5, <2>6, <2>8, <2>10 DEF NetInv
<1> QED
  BY <1>10, <1>11

-----------------------------------------------------------------------------
(* The theorems.                                                           *)

\* No connection has been made yet.
LEMMA NetInit == Init => NetInv
<1> SUFFICES ASSUME Init PROVE NetInv
  OBVIOUS
<1>1. <<>> \in Seq(Conns) /\ DOMAIN <<>> = {}
  OBVIOUS
<1>2. <<>> \in Seq({Complete} \cup Apps) /\ <<>> \in Seq(FromClient) /\ <<>> \in Seq(FromServer)
  OBVIOUS
<1>3. TypeInv
  <2>1. /\ serverUp \in BOOLEAN /\ crashed \in BOOLEAN /\ raced \in BOOLEAN
        /\ m_terminators \subseteq Conns /\ m_connections \subseteq Conns /\ cAnswered \subseteq Conns
        /\ backlog \in Seq(Conns) /\ accepted \in Seq(Conns) /\ acceptor = "accept"
    BY <1>1 DEF Init
  <2>2. cCount \in 0 .. MaxConnects
    BY BoundsAssumption DEF Init
  <2>3. /\ sListener \in [Conns -> {"absent", "none", "handshake", "connection"}]
        /\ sReader \in [Conns -> {"read", "sendComplete", "register", "cleanup", "route"}]
        /\ todo \in [Conns -> SUBSET Conns] /\ routing \in [Conns -> Nat]
        /\ cSocket \in [Conns -> {"none", "open", "ready", "closed"}] /\ cSent \in [Conns -> Nat]
    BY DEF Init
  <2>4. cClient \in [Conns -> Clients \cup {NoClient}]
    BY DEF Init
  <2>5. /\ cGot \in [Conns -> Seq({Complete} \cup Apps)]
        /\ toServer \in [Conns -> Seq(FromClient)] /\ toClient \in [Conns -> Seq(FromServer)]
    BY <1>2 DEF Init
  <2> QED
    BY <2>1, <2>2, <2>3, <2>4, <2>5 DEF TypeInv
<1>4. AcceptInv
  BY <1>1 DEF Init, AcceptInv
<1>5. ASSUME NEW k \in Conns PROVE HandshakeInv(k) /\ MapsInv(k) /\ SendInv(k) /\ OrderInv(k)
  <2>1. HandshakeInv(k)
    BY <1>1 DEF Init, HandshakeInv, PhaseInv, AnswerInv, CompleteInv, PastComplete
  <2>2. MapsInv(k)
    BY DEF Init, MapsInv
  <2>3. SendInv(k) /\ OrderInv(k)
    BY <1>1 DEF Init, SendInv, OrderInv
  <2> QED
    BY <2>1, <2>2, <2>3
<1> QED
  BY <1>3, <1>4, <1>5 DEF NetInv

\* Every step of the server, its threads, and the clients keeps the invariant.
LEMMA NetStep == NetInv /\ [Next]_vars => NetInv'
<1> SUFFICES ASSUME NetInv, [Next]_vars PROVE NetInv'
  OBVIOUS
<1>1. CASE ServerStart \/ ServerStop
  BY <1>1, NetServerStart
<1>2. CASE AcceptorStep
  BY <1>2, NetAccept, NetAddHandshakeListener, NetSendInit DEF AcceptorStep
<1>3. ASSUME NEW c \in Clients, ClientConnect(c) PROVE NetInv'
  BY <1>3, NetClientConnect
<1>4. ASSUME NEW k \in Conns, ServerReaderStep(k) PROVE NetInv'
  BY <1>4, NetServerRead, NetSendComplete, NetRegister, NetCleanup, NetRouteTo, NetRouteDone
     DEF ServerReaderStep
<1>5. ASSUME NEW k \in Conns,
             \/ ClientAddListener(k) \/ ClientRead(k) \/ ClientSend(k)
             \/ ClientDies(k) \/ ClientDisconnect(k)
      PROVE  NetInv'
  BY <1>5, NetClientAddListener, NetClientRead, NetClientSend, NetClientDisconnect
<1>6. CASE UNCHANGED vars
  <2>1. UNCHANGED <<serverUp, crashed, raced, backlog, acceptor, accepted, m_terminators,
                    sListener, sReader, todo, routing, m_connections, cClient, cSocket, cCount,
                    cSent, cGot, cAnswered, toServer, toClient>>
    BY <1>6 DEF vars, serverVars, clientVars
  <2>2. TypeInv' /\ AcceptInv'
    BY <2>1 DEF NetInv, TypeInv, AcceptInv, Current
  <2>3. ASSUME NEW k \in Conns PROVE HandshakeInv(k)' /\ SendInv(k)' /\ OrderInv(k)'
    BY <2>1, HandshakeKept, SendKept, OrderKept DEF NetInv, SameHandshake, TypeInv
  <2>4. ASSUME NEW k \in Conns PROVE MapsInv(k)'
    BY <2>1 DEF NetInv, MapsInv
  <2> QED
    BY <2>2, <2>3, <2>4 DEF NetInv
<1> QED
  BY <1>1, <1>2, <1>3, <1>4, <1>5, <1>6 DEF Next

\* The invariant of the remote bus.
THEOREM NetInvariant == Spec => []NetInv
  BY NetInit, NetStep, PTL DEF Spec

\* On every connection the messages of one sender reach the client's listeners in the
\* order they were sent and none twice, although every sender is routed by the reader
\* thread of its own connection and connections are registered meanwhile.
THEOREM OrderTheorem == Spec => []OrderedDelivery
<1>1. NetInv => OrderedDelivery
  BY DEF NetInv, OrderInv, Before, OrderedDelivery
<1> QED
  BY <1>1, NetInvariant, PTL

\* The HandshakeCompleteMessage is the first thing the listeners of a ClientConnection
\* are given: it is sent before the connection is registered with the bus.
THEOREM CompleteFirstTheorem == Spec => []CompleteComesFirst
<1>1. NetInv => CompleteComesFirst
  BY DEF NetInv, HandshakeInv, CompleteInv, CompleteComesFirst
<1> QED
  BY <1>1, NetInvariant, PTL

\* When a client has the HandshakeCompleteMessage and the reader thread of its
\* connection reads again, the connection is registered with the bus, unless two
\* threads have met in one of the server's maps.
THEOREM SafeToSendTheorem == Spec => []SafeToSend
<1>1. NetInv => SafeToSend
  <2> SUFFICES ASSUME NetInv, NEW k \in Conns, Handshaken(k), sReader[k] = "read"
               PROVE  k \in m_connections \/ raced
    BY DEF SafeToSend
  <2>1. cGot[k] # <<>>
    <3>1. Len(<<>>) = 0 /\ 1 .. 0 = {}
      OBVIOUS
    <3> QED
      BY <3>1 DEF Handshaken
  <2>2. sListener[k] = "connection"
    BY <2>1 DEF NetInv, HandshakeInv, CompleteInv, PastComplete
  <2> QED
    BY <2>2 DEF NetInv, MapsInv
<1> QED
  BY <1>1, NetInvariant, PTL

\* HandshakeHandler keeps the terminators of the handshakes under way and of no other,
\* whenever the reader thread of the connection reads, unless its map was raced for.
THEOREM CleanupTheorem == Spec => []HandshakesCleanedUp
<1>1. NetInv => HandshakesCleanedUp
  <2> SUFFICES ASSUME NetInv, NEW k \in Conns, sListener[k] # "absent", sReader[k] = "read", ~raced
               PROVE  k \in m_terminators <=> k \notin m_connections
    BY DEF HandshakesCleanedUp
  <2>1. MapsInv(k) /\ sListener[k] \in {"none", "handshake", "connection"}
    BY DEF NetInv, TypeInv
  <2> QED
    BY <2>1 DEF MapsInv
<1> QED
  BY <1>1, NetInvariant, PTL
=============================================================================
