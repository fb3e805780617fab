------------------------- MODULE BridgedBusesProofs -------------------------
(***************************************************************************)
(* What follows, for any number of buses, nodes and bridges, from the      *)
(* promise of the pool that the buses share (WorkQueue).                   *)
(***************************************************************************)
EXTENDS BridgedBuses, FiniteSetTheorems, SequenceTheorems, TLAPS

\* The work of the pool, and the bound on overtaking.
WorkInv ==
    /\ submitted \in Nat
    /\ begun \subseteq 1 .. submitted /\ finished \subseteq begun
    /\ FewOvertakers

-----------------------------------------------------------------------------
(* The buses use the pool only through its interface.                      *)

\* The instance's own copy of Cardinality is Cardinality.
LEMMA SameCardinality == \A S : pool!Cardinality(S) = Cardinality(S)
  BY DEF pool!Cardinality, Cardinality

\* What the application does to nodes and bridges submits work or leaves the
\* pool alone.
LEMMA ApplicationUsesPool == Application => pool!Submit \/ UNCHANGED <<submitted, begun, finished>>
<1> SUFFICES ASSUME Application PROVE pool!Submit \/ UNCHANGED <<submitted, begun, finished>>
  OBVIOUS
<1> USE DEF poolVars
<1>1. ASSUME NEW n \in Nodes, Connect(n) \/ Disconnect(n) \/ DestroyNode(n)
      PROVE  UNCHANGED <<submitted, begun, finished>>
  BY <1>1 DEF Connect, Disconnect, DestroyNode
<1>2. ASSUME NEW n, NEW r, AddProcessor(n, r) \/ RemoveProcessor(n, r)
      PROVE  UNCHANGED <<submitted, begun, finished>>
  BY <1>2 DEF AddProcessor, RemoveProcessor
<1>3. ASSUME NEW s \in Sends, NodeSends(s[1], s[2])
      PROVE  pool!Submit
  BY <1>3 DEF NodeSends, sendMessage
<1>4. ASSUME NEW b \in Bridges, CreateBridge(b) \/ DestroyBridge(b)
      PROVE  UNCHANGED <<submitted, begun, finished>>
  BY <1>4 DEF CreateBridge, DestroyBridge, CreateForwarder, DestroyForwarder
<1>5. ASSUME NEW f, NEW r, AddRule(f, r)
      PROVE  UNCHANGED <<submitted, begun, finished>>
  BY <1>5 DEF AddRule
<1> QED
  BY <1>1, <1>2, <1>3, <1>4, <1>5 DEF Application

\* The threads of the pool begin and finish work as the pool promises, and
\* forwarders submit more of it.
LEMMA PoolStepUsesPool ==
    ASSUME PoolStep
    PROVE  \/ pool!QNext
           \/ UNCHANGED <<submitted, begun, finished>>
<1>1. PICK i \in (1 .. submitted) \ finished :
         \/ (RouteMessage(i) \/ RouteEnds(i)) /\ UNCHANGED nodeVars
         \/ \E x \in left[i] : NodeReceives(i, x) \/ ForwarderReceives(i, x)
  BY DEF PoolStep
<1>2. CASE RouteMessage(i) \/ RouteEnds(i)
  BY <1>1, <1>2 DEF RouteMessage, RouteEnds, pool!QNext
<1>3. ASSUME NEW x \in left[i], NodeReceives(i, x)
      PROVE  UNCHANGED <<submitted, begun, finished>>
  BY <1>3 DEF NodeReceives, Returns
<1>4. ASSUME NEW x \in left[i], ForwarderReceives(i, x)
      PROVE  pool!QNext \/ UNCHANGED <<submitted, begun, finished>>
  <2>1. ASSUME NEW f, NEW type, NEW instance, Forward(i, x, f, type, instance)
        PROVE  pool!Submit \/ UNCHANGED <<submitted, begun, finished>>
    BY <2>1 DEF Forward, Returns, sendMessage
  <2>2. Returns(i, x) \/ \E f, type, instance : Forward(i, x, f, type, instance)
    BY <1>4 DEF ForwarderReceives
  <2> QED
    BY <2>1, <2>2 DEF Returns, pool!QNext
<1> QED
  BY <1>1, <1>2, <1>3, <1>4

\* A step of the buses is a step of the pool, or none.
LEMMA PoolUse == [Next]_vars => [pool!QNext]_(pool!qvars)
<1>1. CASE Application
  BY <1>1, ApplicationUsesPool DEF pool!QNext, pool!qvars
<1>2. CASE PoolStep
  BY <1>2, PoolStepUsesPool DEF pool!qvars
<1>3. CASE UNCHANGED vars
  BY <1>3 DEF vars, busVars, pool!qvars
<1> QED
  BY <1>1, <1>2, <1>3 DEF Next

\* ThreadedBus, Node and BridgeNode change the work of the pool only as
\* WorkQueue allows: whatever is proved of a pool of Slots threads holds for
\* the packets.
THEOREM BusesUseThePool == Spec => pool!QSpec
<1>1. Init => pool!QInit
  BY DEF Init, BusInit
<1> QED
  BY <1>1, PoolUse, PTL DEF Spec, pool!QSpec

-----------------------------------------------------------------------------
(* Overtaking.                                                             *)

\* The packets that i has overtaken.
Overtaken(i) == {j \in 1 .. i - 1 : j \notin finished}

\* A packet that begins has overtaken fewer packets than the pool has threads:
\* those that are skipped, and those in service.
LEMMA BeginsInTime ==
    ASSUME WorkInv, NEW i \in 1 .. submitted, pool!Begin(i)
    PROVE  Cardinality(Overtaken(i)) < Slots
<1> DEFINE Others == pool!Skipped(i) \cup (begun \ finished)
<1>1. Others \subseteq 1 .. submitted
  <2>1. submitted \in Nat /\ i \in 1 .. submitted
    BY DEF WorkInv
  <2>2. \A j \in 1 .. i - 1 : j \in 1 .. submitted
    BY <2>1
  <2>3. pool!Skipped(i) \subseteq 1 .. submitted
    BY <2>2 DEF pool!Skipped
  <2> QED
    BY <2>3 DEF WorkInv
<1>2. IsFiniteSet(1 .. submitted)
  BY FS_Interval DEF WorkInv
<1>3. IsFiniteSet(Others)
  BY <1>1, <1>2, FS_Subset
<1>4. Overtaken(i) \subseteq Others
  BY DEF Overtaken, pool!Skipped, WorkInv
<1>5. /\ Cardinality(Overtaken(i)) <= Cardinality(Others)
      /\ Cardinality(Overtaken(i)) \in Nat /\ Cardinality(Others) \in Nat
  BY <1>3, <1>4, FS_Subset, FS_CardinalityType
<1>6. Cardinality(Others) < Slots
  BY SameCardinality DEF pool!Begin
<1> QED
  BY <1>5, <1>6, SlotsAssumption

\* No step of the pool breaks the bound.
LEMMA WorkStep == WorkInv /\ [pool!QNext]_(pool!qvars) => WorkInv'
<1> SUFFICES ASSUME WorkInv, [pool!QNext]_(pool!qvars) PROVE WorkInv'
  OBVIOUS
<1>1. CASE pool!Submit
  BY <1>1 DEF WorkInv, FewOvertakers, pool!Submit
<1>2. ASSUME NEW i \in 1 .. submitted, pool!Begin(i)
      PROVE  WorkInv'
  <2>1. Cardinality({j \in 1 .. i - 1 : j \notin finished}) < Slots
    BY <1>2, BeginsInTime DEF Overtaken
  <2> QED
    BY <1>2, <2>1 DEF WorkInv, FewOvertakers, pool!Begin
<1>3. ASSUME NEW i \in 1 .. submitted, pool!Finish(i)
      PROVE  WorkInv'
  <2>1. ASSUME NEW k \in begun
        PROVE  Cardinality({j \in 1 .. k - 1 : j \notin finished'}) < Slots
    <3> DEFINE Before == {j \in 1 .. k - 1 : j \notin finished}
               After == {j \in 1 .. k - 1 : j \notin finished'}
    <3>1. After \subseteq Before
      BY <1>3 DEF pool!Finish
    <3>2. k - 1 \in Int /\ IsFiniteSet(1 .. k - 1)
      BY <2>1, FS_Interval DEF WorkInv
    <3>3. IsFiniteSet(Before)
      BY <3>2, FS_Subset
    <3>4. /\ Cardinality(After) <= Cardinality(Before)
          /\ Cardinality(After) \in Nat /\ Cardinality(Before) \in Nat
      BY <3>1, <3>3, FS_Subset, FS_CardinalityType
    <3>5. Cardinality(Before) < Slots
      BY <2>1 DEF WorkInv, FewOvertakers
    <3> QED
      BY <3>4, <3>5, SlotsAssumption
  <2> QED
    BY <1>3, <2>1 DEF WorkInv, FewOvertakers, pool!Finish
<1>4. CASE UNCHANGED pool!qvars
  BY <1>4 DEF WorkInv, FewOvertakers, pool!qvars
<1> QED
  BY <1>1, <1>2, <1>3, <1>4 DEF pool!QNext

\* A packet that is being routed has overtaken fewer packets than the pool has
\* threads (ThreadedBus), whatever the buses, bridges and rules are.
THEOREM OvertakingIsBounded == Spec => []FewOvertakers
<1>1. pool!QInit => WorkInv
  BY DEF pool!QInit, WorkInv, FewOvertakers
<1>2. WorkInv => FewOvertakers
  BY DEF WorkInv
<1> QED
  BY <1>1, <1>2, WorkStep, BusesUseThePool, PTL DEF pool!QSpec

-----------------------------------------------------------------------------
(* Listeners.                                                              *)

Stages == {None, "half built", "built", "half destroyed", "destroyed"}

\* The forwarder f exists: it is a listener of its connection.
Listens(f) ==
    stage[f[1]] \in (IF f[2] = "toExternal" THEN {"half built", "built", "half destroyed"}
                                            ELSE {"built"})

\* Each connection has at most one listener, the node or the forwarder that uses it.
ListenInv ==
    /\ node \subseteq Nodes /\ stage \in [Bridges -> Stages]
    /\ m_msgListeners \in [Conns -> Seq(Nodes \cup Forwarders)]
    /\ \A n \in Nodes : m_msgListeners[n] = IF n \in node THEN <<n>> ELSE <<>>
    /\ \A f \in Forwarders :
          m_msgListeners[m_fromConnection(f)] = IF Listens(f) THEN <<f>> ELSE <<>>
    /\ \A c \in Conns \ Nodes :
          (\A f \in Forwarders : m_fromConnection(f) # c) => m_msgListeners[c] = <<>>

\* A listener is added to no others, and leaves none (addMessageListener,
\* removeMessageListener).
LEMMA OnlyListener ==
    ASSUME NEW l
    PROVE  /\ addMessageListener(<<>>, l) = <<l>>
           /\ removeMessageListener(<<l>>, l) = <<>>
<1>1. addMessageListener(<<>>, l) = <<l>>
  BY DEF addMessageListener
<1>2. Len(<<l>>) - 1 = 0 /\ 1 .. 0 = {}
  OBVIOUS
<1>3. removeMessageListener(<<l>>, l) = <<>>
  BY <1>2 DEF removeMessageListener
<1> QED
  BY <1>1, <1>3

\* Vectors of no or one listener are vectors of listeners.
LEMMA ShortVectors ==
    /\ <<>> \in Seq(Nodes \cup Forwarders)
    /\ \A l \in Nodes \cup Forwarders : <<l>> \in Seq(Nodes \cup Forwarders)
<1>1. ASSUME NEW S, NEW l \in S PROVE <<>> \in Seq(S) /\ <<l>> \in Seq(S)
  OBVIOUS
<1>2. ASSUME NEW S PROVE <<>> \in Seq(S)
  OBVIOUS
<1> QED
  BY <1>1, <1>2

\* The connections of forwarders are no connections of nodes.
LEMMA FromConnection ==
    ASSUME NEW f \in Forwarders
    PROVE  /\ m_fromConnection(f) \in Conns \ Nodes /\ m_toConnection(f) \in Conns \ Nodes
           /\ BusOf[m_fromConnection(f)] # BusOf[m_toConnection(f)]
  BY BridgeAssumption DEF Forwarders, m_fromConnection, m_toConnection

\* The nodes and the standing bridges are the only listeners at first.
LEMMA ListenInit == Init => ListenInv
<1> SUFFICES ASSUME Init PROVE ListenInv
  OBVIOUS
<1>1. node \subseteq Nodes /\ stage \in [Bridges -> Stages]
  BY DEF Init, Stages
<1>2. Standing \X Directions \subseteq Forwarders
  BY BridgeAssumption DEF Forwarders
<1>3. \A f \in Forwarders : Listens(f) <=> f \in Standing \X Directions
  BY DEF Init, Listens, Forwarders, Directions, None
<1>4. ASSUME NEW n \in Nodes PROVE m_msgListeners[n] = <<n>> /\ n \in node
  BY OnlyListener, BridgeAssumption DEF Init
<1>5. ASSUME NEW f \in Forwarders
      PROVE  m_msgListeners[m_fromConnection(f)] = IF Listens(f) THEN <<f>> ELSE <<>>
  <2> DEFINE c == m_fromConnection(f)
  <2>1. c \in Conns /\ c \notin Nodes
    BY FromConnection
  <2>2. \A g \in Standing \X Directions : m_fromConnection(g) = c => g = f
    BY <1>2, BridgeAssumption
  <2>3. CASE Listens(f)
    <3>1. f \in Standing \X Directions
      BY <1>3, <2>3
    <3>2. (CHOOSE g \in Standing \X Directions : m_fromConnection(g) = c) = f
      BY <2>2, <3>1
    <3>3. m_msgListeners[c] = addMessageListener(<<>>, f)
      BY <2>1, <3>1, <3>2 DEF Init
    <3> QED
      BY <2>3, <3>3, OnlyListener
  <2>4. CASE ~Listens(f)
    <3>1. ~ \E g \in Standing \X Directions : m_fromConnection(g) = c
      BY <1>3, <2>2, <2>4
    <3>2. m_msgListeners[c] = <<>>
      BY <2>1, <3>1 DEF Init
    <3> QED
      BY <2>4, <3>2
  <2> QED
    BY <2>3, <2>4
<1>6. ASSUME NEW c \in Conns \ Nodes, \A f \in Forwarders : m_fromConnection(f) # c
      PROVE  m_msgListeners[c] = <<>>
  BY <1>2, <1>6 DEF Init
<1>7. m_msgListeners \in [Conns -> Seq(Nodes \cup Forwarders)]
  <2>1. ASSUME NEW c \in Conns PROVE m_msgListeners[c] \in Seq(Nodes \cup Forwarders)
    <3>1. CASE c \in Nodes
      BY <1>4, <3>1, ShortVectors
    <3>2. ASSUME c \notin Nodes, NEW f \in Forwarders, m_fromConnection(f) = c
          PROVE  m_msgListeners[c] \in Seq(Nodes \cup Forwarders)
      BY <1>5, <3>2, ShortVectors
    <3> QED
      BY <1>6, <3>1, <3>2, ShortVectors
  <2>2. m_msgListeners = [c \in Conns |-> m_msgListeners[c]]
    BY DEF Init
  <2> QED
    BY <2>1, <2>2
<1> QED
  BY <1>1, <1>4, <1>5, <1>6, <1>7 DEF ListenInv

\* A forwarder that is built or destroyed leaves the listeners in order.
LEMMA ListenForwarder ==
    ASSUME ListenInv, NEW f \in Forwarders,
           node' = node, stage' \in [Bridges -> Stages],
           \A g \in Forwarders : g # f => Listens(g)' <=> Listens(g),
           \/ CreateForwarder(f) /\ ~Listens(f) /\ Listens(f)'
           \/ DestroyForwarder(f) /\ Listens(f) /\ ~Listens(f)'
    PROVE  ListenInv'
<1> DEFINE c == m_fromConnection(f)
           s == IF Listens(f)' THEN <<f>> ELSE <<>>
<1>1. c \in Conns \ Nodes
  BY FromConnection
<1>2. m_msgListeners' = [m_msgListeners EXCEPT ![c] = s]
  BY OnlyListener DEF ListenInv, CreateForwarder, DestroyForwarder
<1>3. s \in Seq(Nodes \cup Forwarders)
  BY ShortVectors
<1>4. m_msgListeners' \in [Conns -> Seq(Nodes \cup Forwarders)]
  BY <1>2, <1>3 DEF ListenInv
<1>5. \A n \in Nodes : m_msgListeners'[n] = IF n \in node THEN <<n>> ELSE <<>>
  BY <1>1, <1>2, BridgeAssumption DEF ListenInv
<1>6. ASSUME NEW g \in Forwarders
      PROVE  m_msgListeners'[m_fromConnection(g)] = IF Listens(g)' THEN <<g>> ELSE <<>>
  <2>1. CASE g = f
    BY <1>1, <1>2, <2>1 DEF ListenInv
  <2>2. CASE g # f
    <3>1. m_fromConnection(g) # c
      BY <2>2, BridgeAssumption
    <3> QED
      BY <1>2, <2>2, <3>1, FromConnection DEF ListenInv
  <2> QED
    BY <2>1, <2>2
<1>7. ASSUME NEW d \in Conns \ Nodes, \A g \in Forwarders : m_fromConnection(g) # d
      PROVE  m_msgListeners'[d] = <<>>
  BY <1>2, <1>7 DEF ListenInv
<1> QED
  BY <1>4, <1>5, <1>6, <1>7 DEF ListenInv, m_fromConnection

\* The next-state relation, action by action.
LEMMA NextCases ==
    ASSUME [Next]_vars
    PROVE  \/ \E n \in Nodes : Connect(n) \/ Disconnect(n) \/ DestroyNode(n)
           \/ \E q \in Processors : AddProcessor(q[1], q[2]) \/ RemoveProcessor(q[1], q[2])
           \/ \E s \in Sends : NodeSends(s[1], s[2])
           \/ \E b \in Bridges : CreateBridge(b) \/ DestroyBridge(b)
           \/ \E x \in Rules : AddRule(x[1], x[2])
           \/ \E i \in 1 .. submitted : (RouteMessage(i) \/ RouteEnds(i)) /\ UNCHANGED nodeVars
           \/ \E i \in 1 .. submitted : \E x \in left[i] : NodeReceives(i, x)
           \/ \E i \in 1 .. submitted : \E x \in left[i] : ForwarderReceives(i, x)
           \/ UNCHANGED vars
  BY DEF Next, Application, PoolStep

\* Every step leaves the listeners in order.
LEMMA ListenStep == ASSUME ListenInv, [Next]_vars PROVE ListenInv'
<1> DEFINE Same == UNCHANGED <<node, stage, m_msgListeners>>
<1>1. CASE Same
  BY <1>1 DEF ListenInv, Listens
<1>2. ASSUME NEW n \in Nodes, Connect(n) \/ Disconnect(n) PROVE Same
  BY <1>2 DEF Connect, Disconnect, nodeVars
<1>3. ASSUME NEW n \in Nodes, DestroyNode(n) PROVE ListenInv'
  <2>1. m_msgListeners[n] = <<n>> /\ n \in node
    BY <1>3 DEF DestroyNode, ListenInv
  <2>2. m_msgListeners' = [m_msgListeners EXCEPT ![n] = <<>>]
    BY <1>3, <2>1, OnlyListener DEF DestroyNode
  <2>3. m_msgListeners' \in [Conns -> Seq(Nodes \cup Forwarders)]
    BY <2>2, ShortVectors DEF ListenInv
  <2>4. \A k \in Nodes : m_msgListeners'[k] = IF k \in node' THEN <<k>> ELSE <<>>
    BY <1>3, <2>2, BridgeAssumption DEF DestroyNode, ListenInv
  <2>5. \A c \in Conns \ Nodes : m_msgListeners'[c] = m_msgListeners[c]
    BY <2>2 DEF ListenInv
  <2>6. UNCHANGED stage /\ node' \subseteq Nodes
    BY <1>3 DEF DestroyNode, ListenInv
  <2> QED
    BY <2>3, <2>4, <2>5, <2>6, FromConnection DEF ListenInv, Listens, m_fromConnection
<1>4. ASSUME NEW q \in Processors, AddProcessor(q[1], q[2]) \/ RemoveProcessor(q[1], q[2])
      PROVE  Same
  BY <1>4 DEF AddProcessor, RemoveProcessor
<1>5. ASSUME NEW s \in Sends, NodeSends(s[1], s[2]) PROVE Same
  BY <1>5 DEF NodeSends
<1>6. ASSUME NEW b \in Bridges, CreateBridge(b) PROVE ListenInv'
  <2>1. PICK d \in Directions :
           /\ CreateForwarder(<<b, d>>)
           /\ SetStage(b, IF d = "toExternal" THEN None ELSE "half built",
                          IF d = "toExternal" THEN "half built" ELSE "built")
    BY <1>6 DEF CreateBridge, Directions
  <2>2. node' = node /\ stage' \in [Bridges -> Stages]
    BY <1>6, <2>1 DEF CreateBridge, SetStage, Stages, ListenInv
  <2>3. <<b, d>> \in Forwarders /\ ~Listens(<<b, d>>) /\ Listens(<<b, d>>)'
    BY <2>1 DEF Forwarders, Listens, SetStage, Directions, ListenInv, None
  <2>4. ASSUME NEW g \in Forwarders, g # <<b, d>> PROVE Listens(g)' <=> Listens(g)
    <3>1. g = <<g[1], g[2]>> /\ g[1] \in Bridges /\ g[2] \in Directions
      BY DEF Forwarders
    <3>2. CASE g[1] # b
      BY <2>1, <3>1, <3>2 DEF Listens, SetStage, ListenInv
    <3>3. CASE g[1] = b
      <4>1. g[2] # d
        BY <2>4, <3>1, <3>3
      <4>2. g[2] = IF d = "toExternal" THEN "toInternal" ELSE "toExternal"
        BY <3>1, <4>1 DEF Directions
      <4>3. /\ stage[b] = IF d = "toExternal" THEN None ELSE "half built"
            /\ stage'[b] = IF d = "toExternal" THEN "half built" ELSE "built"
        BY <2>1 DEF SetStage, ListenInv
      <4> QED
        BY <3>3, <4>2, <4>3 DEF Listens, Directions, None
    <3> QED
      BY <3>2, <3>3
  <2> QED
    BY <2>1, <2>2, <2>3, <2>4, ListenForwarder
<1>7. ASSUME NEW b \in Bridges, DestroyBridge(b) PROVE ListenInv'
  <2>1. PICK d \in Directions :
           /\ DestroyForwarder(<<b, d>>)
           /\ SetStage(b, IF d = "toInternal" THEN "built" ELSE "half destroyed",
                          IF d = "toInternal" THEN "half destroyed" ELSE "destroyed")
    BY <1>7 DEF DestroyBridge, Directions
  <2>2. node' = node /\ stage' \in [Bridges -> Stages]
    BY <1>7, <2>1 DEF DestroyBridge, SetStage, Stages, ListenInv
  <2>3. <<b, d>> \in Forwarders /\ Listens(<<b, d>>) /\ ~Listens(<<b, d>>)'
    BY <2>1 DEF Forwarders, Listens, SetStage, Directions, ListenInv, None
  <2>4. ASSUME NEW g \in Forwarders, g # <<b, d>> PROVE Listens(g)' <=> Listens(g)
    <3>1. g = <<g[1], g[2]>> /\ g[1] \in Bridges /\ g[2] \in Directions
      BY DEF Forwarders
    <3>2. CASE g[1] # b
      BY <2>1, <3>1, <3>2 DEF Listens, SetStage, ListenInv
    <3>3. CASE g[1] = b
      <4>1. g[2] # d
        BY <2>4, <3>1, <3>3
      <4>2. g[2] = IF d = "toExternal" THEN "toInternal" ELSE "toExternal"
        BY <3>1, <4>1 DEF Directions
      <4>3. /\ stage[b] = IF d = "toInternal" THEN "built" ELSE "half destroyed"
            /\ stage'[b] = IF d = "toInternal" THEN "half destroyed" ELSE "destroyed"
        BY <2>1 DEF SetStage, ListenInv
      <4> QED
        BY <3>3, <4>2, <4>3 DEF Listens, Directions, None
    <3> QED
      BY <3>2, <3>3
  <2> QED
    BY <2>1, <2>2, <2>3, <2>4, ListenForwarder
<1>8. ASSUME NEW x \in Rules, AddRule(x[1], x[2]) PROVE Same
  BY <1>8 DEF AddRule
<1>9. ASSUME NEW i \in 1 .. submitted, RouteMessage(i) \/ RouteEnds(i), UNCHANGED nodeVars
      PROVE  Same
  BY <1>9 DEF RouteMessage, RouteEnds, nodeVars
<1>10. ASSUME NEW i \in 1 .. submitted, NEW x \in left[i],
              NodeReceives(i, x) \/ ForwarderReceives(i, x)
       PROVE  Same
  BY <1>10 DEF NodeReceives, ForwarderReceives, nodeVars
<1>11. CASE UNCHANGED vars
  BY <1>11, <1>1 DEF vars, busVars, nodeVars
<1> QED
  BY <1>1, <1>2, <1>3, <1>4, <1>5, <1>6, <1>7, <1>8, <1>9, <1>10, <1>11, NextCases

-----------------------------------------------------------------------------
(* Rules, processors and connections.                                      *)

\* A bridge has rules only once it is built, and is connected on both sides
\* until its destruction begins.
NodeInv ==
    /\ m_connected \subseteq Conns
    /\ m_routing \in [Forwarders -> SUBSET {x[2] : x \in Rules}]
    /\ \A b \in Bridges :
          stage[b] = "built" => Internal[b] \in m_connected /\ External[b] \in m_connected
    /\ \A b \in Bridges : stage[b] = "half built" => Internal[b] \in m_connected
    /\ \A f \in Forwarders : m_routing[f] # {} =>
          stage[f[1]] \in {"built", "half destroyed", "destroyed"}
    /\ \A f \in Forwarders : \A r \in m_routing[f] : <<f, r>> \in ruled
    /\ m_processors \in [Nodes -> [MsgTypes -> {None} \cup DOMAIN MsgType]]
    /\ \A n \in Nodes : \A t \in MsgTypes :
          LET r == m_processors[n][t]
          IN  r = None \/ (<<n, r>> \in Processors /\ MsgType[r] = t)

\* It holds at first, when there are no rules.
LEMMA NodeInit == Init => NodeInv
<1> SUFFICES ASSUME Init PROVE NodeInv
  OBVIOUS
<1>1. m_connected \subseteq Conns
  BY BridgeAssumption DEF Init
<1>2. \A b \in Bridges : (stage[b] = "built" <=> b \in Standing) /\ stage[b] # "half built"
  BY DEF Init, None
<1>3. ASSUME NEW n \in Nodes, NEW t \in MsgTypes
      PROVE  LET r == m_processors[n][t]
             IN  r = None \/ (r \in DOMAIN MsgType /\ <<n, r>> \in Processors /\ MsgType[r] = t)
  <2> DEFINE rs == {r \in DOMAIN MsgType : <<n, r>> \in Processors /\ MsgType[r] = t}
  <2>1. m_processors[n][t] = IF rs = {} THEN None ELSE CHOOSE r \in rs : TRUE
    BY DEF Init
  <2> QED
    BY <2>1
<1>4. m_processors \in [Nodes -> [MsgTypes -> {None} \cup DOMAIN MsgType]]
  BY <1>3 DEF Init
<1>5. /\ m_routing \in [Forwarders -> SUBSET {x[2] : x \in Rules}]
      /\ \A f \in Forwarders : m_routing[f] = {}
  BY DEF Init
<1>6. \A b \in Bridges :
          stage[b] = "built" => Internal[b] \in m_connected /\ External[b] \in m_connected
  BY <1>2 DEF Init
<1> QED
  BY <1>1, <1>2, <1>3, <1>4, <1>5, <1>6 DEF NodeInv

\* No two bridges use the same connection.
LEMMA OwnConnections ==
    ASSUME NEW b \in Bridges, NEW e \in Bridges
    PROVE  /\ Internal[b] # External[e]
           /\ Internal[b] = Internal[e] => b = e
           /\ External[b] = External[e] => b = e
<1> DEFINE to(a) == <<a, "toExternal">>
           back(a) == <<a, "toInternal">>
<1>1. \A a \in {b, e} : to(a) \in Forwarders /\ back(a) \in Forwarders
  BY DEF Forwarders, Directions
<1>2. \A a \in {b, e} : m_fromConnection(to(a)) = Internal[a] /\ m_fromConnection(back(a)) = External[a]
  BY DEF m_fromConnection
<1>3. to(b) # back(e) /\ (to(b) = to(e) => b = e) /\ (back(b) = back(e) => b = e)
  OBVIOUS
<1> QED
  BY <1>1, <1>2, <1>3, BridgeAssumption

\* Every step keeps rules, processors and connections in order.
LEMMA NodeStep == ASSUME ListenInv, NodeInv, [Next]_vars PROVE NodeInv'
<1> DEFINE Same == UNCHANGED <<m_connected, m_routing, m_processors, ruled, stage>>
<1>1. CASE Same
  BY <1>1 DEF NodeInv
<1>2. ASSUME NEW n \in Nodes, Connect(n) \/ Disconnect(n) \/ DestroyNode(n) PROVE NodeInv'
  <2>1. UNCHANGED <<m_routing, m_processors, ruled, stage>>
    BY <1>2 DEF Connect, Disconnect, DestroyNode, nodeVars
  <2>2. m_connected' \subseteq Conns /\ \A c \in Conns \ Nodes : c \in m_connected => c \in m_connected'
    BY <1>2, BridgeAssumption DEF Connect, Disconnect, DestroyNode, NodeInv
  <2>3. \A b \in Bridges : Internal[b] \in Conns \ Nodes /\ External[b] \in Conns \ Nodes
    BY BridgeAssumption
  <2> QED
    BY <2>1, <2>2, <2>3 DEF NodeInv
<1>3. ASSUME NEW q \in Processors, AddProcessor(q[1], q[2]) \/ RemoveProcessor(q[1], q[2])
      PROVE  NodeInv'
  <2>1. UNCHANGED <<m_connected, m_routing, ruled, stage>>
    BY <1>3 DEF AddProcessor, RemoveProcessor
  <2>2. /\ q = <<q[1], q[2]>> /\ q[1] \in Nodes /\ q[2] \in DOMAIN MsgType
        /\ MsgType[q[2]] \in MsgTypes
    BY UseAssumption DEF MsgTypes
  <2>3. PICK r \in {None, q[2]} : m_processors' = [m_processors EXCEPT ![q[1]][MsgType[q[2]]] = r]
    BY <1>3 DEF AddProcessor, RemoveProcessor
  <2>4. m_processors' \in [Nodes -> [MsgTypes -> {None} \cup DOMAIN MsgType]]
    BY <2>2, <2>3 DEF NodeInv
  <2>5. ASSUME NEW n \in Nodes, NEW t \in MsgTypes
        PROVE  LET v == m_processors'[n][t]
               IN  v = None \/ (<<n, v>> \in Processors /\ MsgType[v] = t)
    <3>1. CASE n = q[1] /\ t = MsgType[q[2]]
      <4>1. m_processors'[n][t] = r
        BY <2>2, <2>3, <3>1 DEF NodeInv
      <4> QED
        BY <2>2, <3>1, <4>1
    <3>2. CASE ~(n = q[1] /\ t = MsgType[q[2]])
      <4>1. m_processors'[n][t] = m_processors[n][t]
        BY <2>2, <2>3, <3>2 DEF NodeInv
      <4> QED
        BY <4>1 DEF NodeInv
    <3> QED
      BY <3>1, <3>2
  <2> QED
    BY <2>1, <2>4, <2>5 DEF NodeInv
<1>4. ASSUME NEW s \in Sends, NodeSends(s[1], s[2]) PROVE Same
  BY <1>4 DEF NodeSends
<1>5. ASSUME NEW b \in Bridges, CreateBridge(b) \/ DestroyBridge(b) PROVE NodeInv'
  <2>1. UNCHANGED <<m_routing, m_processors, ruled>>
    BY <1>5 DEF CreateBridge, DestroyBridge
  <2>2. PICK d \in Directions :
          \/ /\ m_connected' = m_connected \cup {m_fromConnection(<<b, d>>)}
             /\ SetStage(b, IF d = "toExternal" THEN None ELSE "half built",
                            IF d = "toExternal" THEN "half built" ELSE "built")
          \/ /\ m_connected' = m_connected \ {m_fromConnection(<<b, d>>)}
             /\ SetStage(b, IF d = "toInternal" THEN "built" ELSE "half destroyed",
                            IF d = "toInternal" THEN "half destroyed" ELSE "destroyed")
    BY <1>5 DEF CreateBridge, DestroyBridge, CreateForwarder, DestroyForwarder, Directions
  <2>3. m_fromConnection(<<b, d>>) = IF d = "toExternal" THEN Internal[b] ELSE External[b]
    BY DEF m_fromConnection
  <2>4. m_connected' \subseteq Conns
    <3>1. m_fromConnection(<<b, d>>) \in Conns
      BY <2>3, BridgeAssumption
    <3> QED
      BY <2>2, <3>1 DEF NodeInv
  <2>5. ASSUME NEW e \in Bridges, e # b
        PROVE  /\ stage'[e] = stage[e]
               /\ Internal[e] \in m_connected' <=> Internal[e] \in m_connected
               /\ External[e] \in m_connected' <=> External[e] \in m_connected
    BY <2>2, <2>3, <2>5, OwnConnections DEF SetStage, ListenInv
  <2>6. /\ stage'[b] = "half built" => Internal[b] \in m_connected'
        /\ stage'[b] = "built" => Internal[b] \in m_connected' /\ External[b] \in m_connected'
    BY <2>2, <2>3 DEF SetStage, ListenInv, NodeInv, Directions, None
  <2>7. stage[b] \in {"built", "half destroyed", "destroyed"} =>
            stage'[b] \in {"built", "half destroyed", "destroyed"}
    BY <2>2 DEF SetStage, ListenInv, Directions, None
  <2>8. \A f \in Forwarders : f[1] \in Bridges
    BY DEF Forwarders
  <2>9. \A f \in Forwarders : m_routing'[f] # {} =>
            stage'[f[1]] \in {"built", "half destroyed", "destroyed"}
    BY <2>1, <2>5, <2>7, <2>8 DEF NodeInv
  <2>10. \A e \in Bridges :
            /\ stage'[e] = "half built" => Internal[e] \in m_connected'
            /\ stage'[e] = "built" => Internal[e] \in m_connected' /\ External[e] \in m_connected'
    BY <2>5, <2>6 DEF NodeInv
  <2> QED
    BY <2>1, <2>4, <2>9, <2>10 DEF NodeInv
<1>6. ASSUME NEW x \in Rules, AddRule(x[1], x[2]) PROVE NodeInv'
  <2> DEFINE f == x[1]
  <2>1. f \in Forwarders /\ x[2] \in {y[2] : y \in Rules}
    BY UseAssumption
  <2>2. /\ UNCHANGED <<m_connected, m_processors, stage>>
        /\ stage[f[1]] = "built"
        /\ m_routing' = [m_routing EXCEPT ![f] = (@ \ RuleFor(f, x[2].message)) \cup {x[2]}]
        /\ ruled' = ruled \cup {<<f, x[2]>>}
    BY <1>6 DEF AddRule
  <2>3. m_routing' \in [Forwarders -> SUBSET {y[2] : y \in Rules}]
    BY <2>1, <2>2 DEF NodeInv
  <2>4. ASSUME NEW g \in Forwarders
        PROVE  /\ m_routing'[g] # {} => stage[g[1]] \in {"built", "half destroyed", "destroyed"}
               /\ \A r \in m_routing'[g] : <<g, r>> \in ruled'
    BY <2>1, <2>2 DEF NodeInv
  <2> QED
    BY <2>2, <2>3, <2>4 DEF NodeInv
<1>7. ASSUME NEW i \in 1 .. submitted, RouteMessage(i) \/ RouteEnds(i), UNCHANGED nodeVars
      PROVE  Same
  BY <1>7 DEF RouteMessage, RouteEnds, nodeVars
<1>8. ASSUME NEW i \in 1 .. submitted, NEW x \in left[i],
             NodeReceives(i, x) \/ ForwarderReceives(i, x)
      PROVE  Same
  BY <1>8 DEF NodeReceives, ForwarderReceives, nodeVars
<1>9. CASE UNCHANGED vars
  BY <1>9, <1>1 DEF vars, busVars, nodeVars
<1> QED
  BY <1>1, <1>2, <1>3, <1>4, <1>5, <1>6, <1>7, <1>8, <1>9, NextCases

-----------------------------------------------------------------------------
(* Packets and calls.                                                      *)

\* What nodes send, and what forwarders make of it by their rules.
AnyPackets ==
    {s[2] : s \in Sends}
        \cup {Packet(m, x[2].type, x[2].instance) : m \in DOMAIN MsgType, x \in Rules}
Records == [sender : Conns, packet : AnyPackets, origin : Nat, trail : Seq(Forwarders)]

PacketTypes ==
    /\ submitted \in Nat
    /\ packets \in Seq(Records) /\ Len(packets) = submitted
    /\ left \in Seq(SUBSET (Conns \X Nat)) /\ Len(left) = submitted

\* Only packets in service have calls left; those are for listeners of other
\* connections of the sender's bus, which still exist.
CallsInv ==
    Running => \A i \in 1 .. submitted : \A x \in left[i] :
        /\ i \in begun /\ i \notin finished
        /\ x[1] \in Conns /\ x[1] # packets[i].sender
        /\ BusOf[x[1]] = BusOf[packets[i].sender]
        /\ x[2] \in DOMAIN m_msgListeners[x[1]]

\* A packet that was forwarded is sent by the bridge that did it last.
TrailInv ==
    /\ \A i \in 1 .. submitted :
          LET trail == packets[i].trail
          IN  trail # <<>> => packets[i].sender = m_toConnection(trail[Len(trail)])
    /\ NeverSentBack

PacketInv == PacketTypes /\ CallsInv /\ TrailInv

\* The messages of all packets have a type.
LEMMA MessagesHaveTypes == \A p \in AnyPackets : p.message \in DOMAIN MsgType
  BY UseAssumption DEF AnyPackets, Packet

\* Sending (ThreadedBus::sendMessage) adds one packet at the end.
LEMMA Sent ==
    ASSUME PacketTypes, NEW c \in Conns, NEW p \in AnyPackets, NEW o \in Nat,
           NEW t \in Seq(Forwarders), NEW calls \in Seq(SUBSET (Conns \X Nat)),
           Len(calls) = submitted, sendMessage(c, p, o, t, calls)
    PROVE  /\ PacketTypes' /\ submitted' = submitted + 1
           /\ begun' = begun /\ finished' = finished
           /\ \A i \in 1 .. submitted : packets'[i] = packets[i] /\ left'[i] = calls[i]
           /\ packets'[submitted + 1] = [sender |-> c, packet |-> p, origin |-> o, trail |-> t]
           /\ left'[submitted + 1] = {}
<1> DEFINE r == [sender |-> c, packet |-> p, origin |-> o, trail |-> t]
<1>1. /\ submitted' = submitted + 1 /\ begun' = begun /\ finished' = finished
      /\ packets' = Append(packets, r) /\ left' = Append(calls, {})
  BY DEF sendMessage, pool!Submit
<1>2. r \in Records
  BY DEF Records
<1>3. /\ packets' \in Seq(Records) /\ Len(packets') = submitted + 1
      /\ packets'[submitted + 1] = r
      /\ \A i \in 1 .. submitted : packets'[i] = packets[i]
  <2> HIDE DEF r
  <2> QED
    BY <1>1, <1>2, AppendProperties DEF PacketTypes
<1>4. /\ left' \in Seq(SUBSET (Conns \X Nat)) /\ Len(left') = submitted + 1
      /\ left'[submitted + 1] = {}
      /\ \A i \in 1 .. submitted : left'[i] = calls[i]
  <2>1. {} \in SUBSET (Conns \X Nat)
    OBVIOUS
  <2> QED
    BY <1>1, <2>1, AppendProperties DEF PacketTypes
<1> QED
  BY <1>1, <1>3, <1>4 DEF PacketTypes

\* A call that has been made is not made again.
LEMMA Made ==
    ASSUME PacketTypes, NEW i \in 1 .. submitted, NEW x
    PROVE  /\ AfterCall(i, x) \in Seq(SUBSET (Conns \X Nat)) /\ Len(AfterCall(i, x)) = submitted
           /\ AfterCall(i, x)[i] = left[i] \ {x}
           /\ \A j \in 1 .. submitted : j # i => AfterCall(i, x)[j] = left[j]
           /\ \A j \in 1 .. submitted : AfterCall(i, x)[j] \subseteq left[j]
<1>1. left[i] \ {x} \in SUBSET (Conns \X Nat)
  BY DEF PacketTypes
<1> QED
  BY <1>1 DEF PacketTypes, AfterCall

\* A forwarder that is called is a listener of the connection it receives from.
LEMMA CalledForwarder ==
    ASSUME ListenInv, NEW x, x[1] \in Conns, x[2] \in DOMAIN m_msgListeners[x[1]],
           Listener(x) \in Forwarders
    PROVE  m_fromConnection(Listener(x)) = x[1] /\ Listens(Listener(x))
<1> DEFINE s == m_msgListeners[x[1]]
<1>1. ASSUME NEW l, s = <<l>> PROVE Listener(x) = l
  BY <1>1 DEF Listener
<1>2. s # <<>>
  <2>1. DOMAIN <<>> = {}
    OBVIOUS
  <2> QED
    BY <2>1
<1>3. x[1] \notin Nodes
  <2> SUFFICES ASSUME x[1] \in Nodes PROVE FALSE
    OBVIOUS
  <2>1. s = <<x[1]>>
    BY <1>2 DEF ListenInv
  <2> QED
    BY <1>1, <2>1, UseAssumption
<1>4. PICK f \in Forwarders : m_fromConnection(f) = x[1]
  BY <1>2, <1>3 DEF ListenInv
<1>5. s = <<f>> /\ Listens(f)
  BY <1>2, <1>4 DEF ListenInv
<1> QED
  BY <1>1, <1>4, <1>5

\* A forwarder drops the message, fails, or sends it on by one of its rules.
LEMMA ForwardCases ==
    ASSUME PacketTypes, NodeInv, NEW i \in 1 .. submitted, NEW x \in left[i],
           ForwarderReceives(i, x)
    PROVE  \/ Returns(i, x)
           \/ /\ UNCHANGED failure
              /\ \E p \in AnyPackets :
                    sendMessage(m_toConnection(Listener(x)), p, packets[i].origin,
                                Append(packets[i].trail, Listener(x)), AfterCall(i, x))
<1> DEFINE f == Listener(x)
           m == packets[i].packet.message
<1>1. m \in DOMAIN MsgType
  <2>1. packets[i] \in Records
    BY DEF PacketTypes
  <2>2. packets[i].packet \in AnyPackets
    BY <2>1 DEF Records
  <2> QED
    BY <2>2, MessagesHaveTypes
<1>2. f \in Forwarders
  BY DEF ForwarderReceives
<1>3. ASSUME NEW r \in RuleFor(f, MsgType[m]), Forward(i, x, f, r.type, r.instance)
      PROVE  \/ Returns(i, x)
             \/ /\ UNCHANGED failure
                /\ sendMessage(m_toConnection(f), Packet(m, r.type, r.instance), packets[i].origin,
                               Append(packets[i].trail, f), AfterCall(i, x))
                /\ Packet(m, r.type, r.instance) \in AnyPackets
  <2>1. r \in {y[2] : y \in Rules}
    BY <1>2 DEF RuleFor, NodeInv
  <2>2. Packet(m, r.type, r.instance) \in AnyPackets
    BY <1>1, <2>1 DEF AnyPackets
  <2> QED
    BY <1>3, <2>2 DEF Forward
<1> QED
  BY <1>3 DEF ForwarderReceives

\* A change of one connection's listeners that is no race concerns no call that
\* is left: those are on other buses.
LEMMA CallsKept ==
    ASSUME PacketTypes, CallsInv, Running, UNCHANGED poolVars, NEW c \in Conns,
           TableChange(BusOf[c]),
           \A d \in Conns : d # c => m_msgListeners'[d] = m_msgListeners[d]
    PROVE  CallsInv'
<1> SUFFICES ASSUME Running', NEW i \in 1 .. submitted, NEW x \in left[i]
             PROVE  /\ i \in begun /\ i \notin finished
                    /\ x[1] \in Conns /\ x[1] # packets[i].sender
                    /\ BusOf[x[1]] = BusOf[packets[i].sender]
                    /\ x[2] \in DOMAIN m_msgListeners'[x[1]]
  BY DEF CallsInv, poolVars
<1>1. /\ i \in begun /\ i \notin finished
      /\ x[1] \in Conns /\ x[1] # packets[i].sender
      /\ BusOf[x[1]] = BusOf[packets[i].sender]
      /\ x[2] \in DOMAIN m_msgListeners[x[1]]
  BY DEF CallsInv
<1>2. BusOf[packets[i].sender] # BusOf[c]
  BY <1>1 DEF TableChange, Running, NoFailure, InService
<1> QED
  BY <1>1, <1>2

\* Nothing was sent at first.
LEMMA PacketInit == Init => PacketInv
<1> SUFFICES ASSUME Init PROVE PacketInv
  OBVIOUS
<1>1. submitted = 0 /\ packets = <<>> /\ left = <<>>
  BY DEF Init, BusInit, pool!QInit
<1>2. PacketTypes
  BY <1>1 DEF PacketTypes
<1>3. 1 .. submitted = {} /\ DOMAIN packets = {}
  BY <1>1
<1> QED
  BY <1>2, <1>3 DEF PacketInv, CallsInv, TrailInv, NeverSentBack

\* A packet that is sent on by the connection of the last forwarder, while calls
\* are made and none is added, leaves packets and calls in order.
LEMMA SendKeeps ==
    ASSUME PacketInv, Running, NEW c \in Conns, NEW p \in AnyPackets, NEW o \in Nat,
           NEW t \in Seq(Forwarders), NEW calls \in Seq(SUBSET (Conns \X Nat)),
           Len(calls) = submitted, sendMessage(c, p, o, t, calls), UNCHANGED m_msgListeners,
           \A j \in 1 .. submitted : calls[j] \subseteq left[j],
           t # <<>> => c = m_toConnection(t[Len(t)]),
           \A k \in 1 .. Len(t) - 1 : t[k][1] # t[k + 1][1]
    PROVE  PacketInv'
<1>1. /\ PacketTypes' /\ submitted' = submitted + 1
      /\ begun' = begun /\ finished' = finished
      /\ \A i \in 1 .. submitted : packets'[i] = packets[i] /\ left'[i] = calls[i]
      /\ packets'[submitted + 1] = [sender |-> c, packet |-> p, origin |-> o, trail |-> t]
      /\ left'[submitted + 1] = {}
  BY Sent DEF PacketInv
<1>2. packets'[submitted + 1].trail = t /\ packets'[submitted + 1].sender = c
  BY <1>1
<1>3. submitted \in Nat /\ \A i \in 1 .. submitted' : i \in 1 .. submitted \/ i = submitted + 1
  BY <1>1 DEF PacketInv, PacketTypes
<1>4. DOMAIN packets = 1 .. submitted /\ DOMAIN packets' = 1 .. submitted'
  <2>1. packets \in Seq(Records) /\ Len(packets) = submitted
    BY DEF PacketInv, PacketTypes
  <2>2. packets' \in Seq(Records)' /\ Len(packets') = submitted'
    BY <1>1 DEF PacketTypes
  <2> QED
    BY <2>1, <2>2
<1>5. CallsInv'
  <2>1. \A i \in 1 .. submitted : packets'[i].sender = packets[i].sender
    BY <1>1
  <2> QED
    BY <1>1, <1>3, <2>1 DEF PacketInv, CallsInv, Running
<1>6. NeverSentBack'
  <2> SUFFICES ASSUME NEW i \in DOMAIN packets', NEW k \in 1 .. Len(packets'[i].trail) - 1
               PROVE  packets'[i].trail[k][1] # packets'[i].trail[k + 1][1]
    BY DEF NeverSentBack
  <2>1. CASE i = submitted + 1
    BY <1>2, <2>1
  <2>2. CASE i # submitted + 1
    <3>1. i \in DOMAIN packets /\ packets'[i] = packets[i]
      BY <1>1, <1>3, <1>4, <2>2
    <3> QED
      BY <3>1 DEF PacketInv, TrailInv, NeverSentBack
  <2> QED
    BY <2>1, <2>2
<1>7. TrailInv'
  <2>1. ASSUME NEW i \in 1 .. submitted', packets'[i].trail # <<>>
        PROVE  packets'[i].sender = m_toConnection(packets'[i].trail[Len(packets'[i].trail)])
    <3>1. CASE i = submitted + 1
      BY <1>2, <2>1, <3>1
    <3>2. CASE i # submitted + 1
      <4>1. i \in 1 .. submitted /\ packets'[i] = packets[i]
        BY <1>1, <1>3, <3>2
      <4> QED
        BY <2>1, <4>1 DEF PacketInv, TrailInv
    <3> QED
      BY <3>1, <3>2
  <2> QED
    BY <1>6, <2>1 DEF TrailInv, m_toConnection
<1> QED
  BY <1>1, <1>5, <1>7 DEF PacketInv

\* What the application does leaves packets and calls in order.
LEMMA PacketApplication ==
    ASSUME ListenInv, NodeInv, PacketInv, Application PROVE PacketInv'
<1> USE DEF PacketInv
<1>1. ASSUME Running, UNCHANGED poolVars, CallsInv' PROVE PacketInv'
  BY <1>1 DEF PacketTypes, TrailInv, NeverSentBack, poolVars
<1>2. ASSUME NEW n \in Nodes, Connect(n) \/ Disconnect(n) \/ DestroyNode(n) PROVE PacketInv'
  <2>1. Running /\ UNCHANGED poolVars /\ TableChange(BusOf[n]) /\ n \in Conns
    BY <1>2, BridgeAssumption DEF Connect, Disconnect, DestroyNode
  <2>2. \A d \in Conns : d # n => m_msgListeners'[d] = m_msgListeners[d]
    BY <1>2 DEF Connect, Disconnect, DestroyNode, ListenInv
  <2> QED
    BY <1>1, <2>1, <2>2, CallsKept
<1>3. ASSUME NEW b \in Bridges, CreateBridge(b) \/ DestroyBridge(b) PROVE PacketInv'
  <2>1. PICK f \in Forwarders : CreateForwarder(f) \/ DestroyForwarder(f)
    BY <1>3 DEF CreateBridge, DestroyBridge, Forwarders, Directions
  <2>2. Running /\ UNCHANGED poolVars /\ TableChange(BusOf[m_fromConnection(f)])
    BY <1>3, <2>1 DEF CreateBridge, DestroyBridge, CreateForwarder, DestroyForwarder
  <2>3. m_fromConnection(f) \in Conns
    BY FromConnection
  <2>4. \A d \in Conns : d # m_fromConnection(f) => m_msgListeners'[d] = m_msgListeners[d]
    BY <2>1 DEF CreateForwarder, DestroyForwarder, ListenInv
  <2> QED
    BY <1>1, <2>2, <2>3, <2>4, CallsKept
<1>4. ASSUME Running, UNCHANGED poolVars, UNCHANGED m_msgListeners PROVE PacketInv'
  <2>1. CallsInv'
    BY <1>4 DEF CallsInv, poolVars
  <2> QED
    BY <1>1, <1>4, <2>1
<1>5. ASSUME NEW q \in Processors, AddProcessor(q[1], q[2]) \/ RemoveProcessor(q[1], q[2])
      PROVE  PacketInv'
  BY <1>4, <1>5 DEF AddProcessor, RemoveProcessor
<1>6. ASSUME NEW x \in Rules, AddRule(x[1], x[2]) PROVE PacketInv'
  BY <1>4, <1>6 DEF AddRule
<1>7. ASSUME NEW s \in Sends, NodeSends(s[1], s[2]) PROVE PacketInv'
  <2>1. /\ Running /\ sendMessage(s[1], s[2], submitted + 1, <<>>, left)
        /\ UNCHANGED <<m_msgListeners, failure>>
    BY <1>7 DEF NodeSends
  <2>2. s[1] \in Conns /\ s[2] \in AnyPackets
    BY UseAssumption, BridgeAssumption DEF AnyPackets
  <2>3. submitted + 1 \in Nat /\ <<>> \in Seq(Forwarders)
    BY DEF PacketTypes
  <2>4. left \in Seq(SUBSET (Conns \X Nat)) /\ Len(left) = submitted
    BY DEF PacketTypes
  <2>5. \A k \in 1 .. Len(<<>>) - 1 : FALSE
    OBVIOUS
  <2>6. UNCHANGED m_msgListeners
    BY <2>1
  <2> HIDE DEF PacketInv
  <2> QED
    BY <2>1, <2>2, <2>3, <2>4, <2>5, <2>6, SendKeeps
<1> QED
  BY <1>2, <1>3, <1>5, <1>6, <1>7 DEF Application

\* A routing that begins has the listeners of connections to call that the packet
\* is for; it was not in service before, and no other routing changes.
LEMMA PacketRoute ==
    ASSUME WorkInv, ListenInv, NodeInv, PacketInv, NEW i \in 1 .. submitted, RouteMessage(i)
    PROVE  PacketInv'
<1> DEFINE calls == Calls(packets[i].sender, packets[i].packet)
<1>1. /\ Running /\ i \notin begun /\ begun' = begun \cup {i}
      /\ left' = [left EXCEPT ![i] = calls]
      /\ UNCHANGED <<submitted, finished, packets, m_msgListeners, failure>>
  BY DEF RouteMessage, pool!Begin
<1>2. ASSUME NEW x \in calls
      PROVE  /\ x \in Conns \X Nat
             /\ x[1] \in Conns /\ x[1] # packets[i].sender
             /\ BusOf[x[1]] = BusOf[packets[i].sender]
             /\ x[2] \in DOMAIN m_msgListeners[x[1]]
  <2>1. PICK d \in Recipients(packets[i].sender, packets[i].packet) :
            x \in {d} \X DOMAIN m_msgListeners[d]
    BY DEF Calls
  <2>2. /\ d \in Conns /\ d # packets[i].sender
        /\ BusOf[d] = BusOf[packets[i].sender]
    BY <2>1 DEF Recipients, NodeInv
  <2>3. DOMAIN m_msgListeners[d] \subseteq Nat
    <3>1. m_msgListeners[d] \in Seq(Nodes \cup Forwarders)
      BY <2>2 DEF ListenInv
    <3> QED
      BY <3>1
  <2>4. x = <<d, x[2]>> /\ x[1] = d /\ x[2] \in DOMAIN m_msgListeners[d]
    BY <2>1
  <2> QED
    BY <2>2, <2>3, <2>4
<1> HIDE DEF calls
<1>3. calls \in SUBSET (Conns \X Nat)
  BY <1>2
<1>4. left \in Seq(SUBSET (Conns \X Nat)) /\ Len(left) = submitted
  BY DEF PacketInv, PacketTypes
<1>5. /\ left' \in Seq(SUBSET (Conns \X Nat)) /\ Len(left') = submitted
      /\ left'[i] = calls
      /\ \A j \in 1 .. submitted : j # i => left'[j] = left[j]
  BY <1>1, <1>3, <1>4
<1>6. PacketTypes'
  BY <1>1, <1>5 DEF PacketInv, PacketTypes
<1>7. CallsInv'
  <2>1. i \notin finished /\ i \in begun'
    BY <1>1 DEF WorkInv
  <2>2. ASSUME NEW j \in 1 .. submitted, NEW x \in left'[j]
        PROVE  /\ j \in begun' /\ j \notin finished
               /\ x[1] \in Conns /\ x[1] # packets[j].sender
               /\ BusOf[x[1]] = BusOf[packets[j].sender]
               /\ x[2] \in DOMAIN m_msgListeners[x[1]]
    <3>1. CASE j = i
      BY <1>2, <1>5, <2>1, <3>1
    <3>2. CASE j # i
      <4>1. x \in left[j]
        BY <1>5, <3>2
      <4> QED
        BY <1>1, <4>1 DEF PacketInv, CallsInv
    <3> QED
      BY <3>1, <3>2
  <2> QED
    BY <1>1, <2>2 DEF CallsInv
<1>8. TrailInv'
  BY <1>1 DEF PacketInv, TrailInv, NeverSentBack
<1> QED
  BY <1>6, <1>7, <1>8 DEF PacketInv

\* A routing ends when it has no calls left.
LEMMA PacketEnds ==
    ASSUME PacketInv, NEW i \in 1 .. submitted, RouteEnds(i) PROVE PacketInv'
<1>1. /\ Running /\ left[i] = {} /\ finished' = finished \cup {i}
      /\ UNCHANGED <<submitted, begun, packets, left, m_msgListeners, failure>>
  BY DEF RouteEnds, pool!Finish
<1>2. PacketTypes' /\ TrailInv'
  BY <1>1 DEF PacketInv, PacketTypes, TrailInv, NeverSentBack
<1>3. CallsInv'
  BY <1>1 DEF PacketInv, CallsInv, Running
<1> QED
  BY <1>2, <1>3 DEF PacketInv

\* A call that returns is made, and nothing else changes.
LEMMA PacketReturns ==
    ASSUME PacketInv, Running, NEW i \in 1 .. submitted, NEW x \in left[i], Returns(i, x),
           UNCHANGED m_msgListeners
    PROVE  PacketInv'
<1>1. /\ left' = AfterCall(i, x) /\ UNCHANGED <<submitted, begun, finished, packets>>
  BY DEF Returns
<1>2. /\ AfterCall(i, x) \in Seq(SUBSET (Conns \X Nat)) /\ Len(AfterCall(i, x)) = submitted
      /\ \A j \in 1 .. submitted : AfterCall(i, x)[j] \subseteq left[j]
  BY Made DEF PacketInv
<1>3. PacketTypes' /\ TrailInv'
  BY <1>1, <1>2 DEF PacketInv, PacketTypes, TrailInv, NeverSentBack
<1>4. CallsInv'
  BY <1>1, <1>2 DEF PacketInv, CallsInv
<1> QED
  BY <1>3, <1>4 DEF PacketInv

\* The other forwarder of a bridge listens where this one sends.
LEMMA BridgeConnections ==
    ASSUME NEW f \in Forwarders, NEW g \in Forwarders, f[1] = g[1]
    PROVE  m_toConnection(g) = m_toConnection(f) \/ m_toConnection(g) = m_fromConnection(f)
  BY DEF Forwarders, Directions, m_fromConnection, m_toConnection

\* What a forwarder receives it has not sent, and neither has the other forwarder
\* of its bridge.
LEMMA PacketForward ==
    ASSUME ListenInv, NodeInv, PacketInv, NEW i \in 1 .. submitted, NEW x \in left[i],
           ForwarderReceives(i, x)
    PROVE  PacketInv'
<1> DEFINE f == Listener(x)
           trail == packets[i].trail
           t == Append(trail, f)
           d == m_toConnection(f)
<1>1. f \in Forwarders /\ Running /\ UNCHANGED m_msgListeners
  BY DEF ForwarderReceives, Calling
<1>2. /\ x[1] \in Conns /\ x[1] # packets[i].sender
      /\ BusOf[x[1]] = BusOf[packets[i].sender]
      /\ x[2] \in DOMAIN m_msgListeners[x[1]]
  BY <1>1 DEF PacketInv, CallsInv
<1>3. m_fromConnection(f) = x[1]
  BY <1>1, <1>2, CalledForwarder
<1>4. packets[i] \in Records /\ i \in DOMAIN packets
  BY DEF PacketInv, PacketTypes
<1>5. trail \in Seq(Forwarders) /\ packets[i].origin \in Nat
  BY <1>4 DEF Records
<1>6. d \in Conns /\ BusOf[x[1]] # BusOf[d]
  BY <1>1, <1>3, FromConnection
<1>7. ASSUME trail # <<>> PROVE trail[Len(trail)][1] # f[1]
  <2> DEFINE g == trail[Len(trail)]
  <2>1. g \in Forwarders
    BY <1>5, <1>7
  <2>2. packets[i].sender = m_toConnection(g)
    BY <1>7 DEF PacketInv, TrailInv
  <2>3. m_toConnection(g) # d /\ m_toConnection(g) # m_fromConnection(f)
    BY <1>2, <1>3, <1>6, <2>2
  <2> HIDE DEF f, g, d
  <2>4. m_toConnection(g) # m_toConnection(f)
    BY <2>3 DEF d
  <2> QED
    BY <1>1, <2>1, <2>3, <2>4, BridgeConnections DEF f, g
<1> HIDE DEF f, d
<1>8. /\ t \in Seq(Forwarders) /\ Len(t) = Len(trail) + 1 /\ t[Len(t)] = f
      /\ \A k \in 1 .. Len(trail) : t[k] = trail[k]
  BY <1>1, <1>5, AppendProperties
<1>9. \A k \in 1 .. Len(trail) - 1 : trail[k][1] # trail[k + 1][1]
  BY <1>4 DEF PacketInv, TrailInv, NeverSentBack
<1>10. ASSUME NEW k \in 1 .. Len(t) - 1 PROVE t[k][1] # t[k + 1][1]
  <2>1. Len(trail) \in Nat /\ k \in 1 .. Len(trail) /\ t[k] = trail[k]
    BY <1>5, <1>8, <1>10
  <2>2. CASE k = Len(trail)
    <3>1. trail # <<>> /\ t[k + 1] = f
      BY <1>8, <2>1, <2>2
    <3> QED
      BY <1>7, <2>1, <2>2, <3>1
  <2>3. CASE k # Len(trail)
    <3>1. k \in 1 .. Len(trail) - 1 /\ k + 1 \in 1 .. Len(trail)
      BY <2>1, <2>3
    <3> QED
      BY <1>8, <1>9, <2>1, <3>1
  <2> QED
    BY <2>2, <2>3
<1>11. d = m_toConnection(t[Len(t)])
  BY <1>8 DEF d
<1>12. /\ AfterCall(i, x) \in Seq(SUBSET (Conns \X Nat)) /\ Len(AfterCall(i, x)) = submitted
       /\ \A j \in 1 .. submitted : AfterCall(i, x)[j] \subseteq left[j]
  BY Made DEF PacketInv
<1>13. CASE Returns(i, x)
  BY <1>1, <1>13, PacketReturns
<1>14. ASSUME NEW p \in AnyPackets,
              sendMessage(d, p, packets[i].origin, t, AfterCall(i, x))
       PROVE  PacketInv'
  <2> HIDE DEF t, trail
  <2> QED
    BY <1>1, <1>5, <1>6, <1>8, <1>10, <1>11, <1>12, <1>14, SendKeeps
<1>15. PacketTypes
  BY DEF PacketInv
<1> QED
  BY <1>13, <1>14, <1>15, ForwardCases DEF f, d

\* Every step keeps packets and calls in order.
LEMMA PacketStep ==
    ASSUME WorkInv, ListenInv, NodeInv, PacketInv, [Next]_vars PROVE PacketInv'
<1>1. CASE Application
  BY <1>1, PacketApplication
<1>2. ASSUME NEW i \in 1 .. submitted, RouteMessage(i) \/ RouteEnds(i) PROVE PacketInv'
  BY <1>2, PacketRoute, PacketEnds
<1>3. ASSUME NEW i \in 1 .. submitted, NEW x \in left[i], NodeReceives(i, x) PROVE PacketInv'
  <2>1. Running /\ Returns(i, x) /\ UNCHANGED m_msgListeners
    BY <1>3 DEF NodeReceives, Calling
  <2> QED
    BY <2>1, PacketReturns
<1>4. ASSUME NEW i \in 1 .. submitted, NEW x \in left[i], ForwarderReceives(i, x) PROVE PacketInv'
  BY <1>4, PacketForward
<1>5. CASE UNCHANGED vars
  BY <1>5 DEF vars, busVars, PacketInv, PacketTypes, CallsInv, TrailInv, NeverSentBack, Running
<1> QED
  BY <1>1, <1>2, <1>3, <1>4, <1>5 DEF Next, PoolStep

-----------------------------------------------------------------------------
(* Exceptions.                                                             *)

\* What the application does may race, but throws nothing into the pool.
LEMMA ApplicationThrowsNothing == Application => failure' \in {NoFailure, "race"}
  BY DEF Application, Connect, Disconnect, DestroyNode, AddProcessor, RemoveProcessor, NodeSends,
         CreateBridge, DestroyBridge, CreateForwarder, DestroyForwarder, AddRule,
         TableChange, ListenerChange, Running

\* A forwarder that has a rule and receives a message is built or half destroyed;
\* only in the second case the connection it sends to may be gone.
LEMMA ForwardThrows ==
    ASSUME ListenInv, NodeInv, PacketInv, NEW i \in 1 .. submitted, NEW x \in left[i],
           ForwarderReceives(i, x)
    PROVE  CrashOnlyByMisuse'
<1> DEFINE f == Listener(x)
           m == packets[i].packet.message
           d == m_toConnection(f)
<1>1. f \in Forwarders /\ Running /\ UNCHANGED <<stage, ruled>> /\ f[1] \in Bridges
  BY DEF ForwarderReceives, Calling, nodeVars, Forwarders
<1>2. /\ x[1] \in Conns /\ x[2] \in DOMAIN m_msgListeners[x[1]]
  BY <1>1 DEF PacketInv, CallsInv
<1>3. Listens(f)
  BY <1>1, <1>2, CalledForwarder
<1>4. CASE failure' \in {NoFailure, "race"}
  BY <1>4 DEF CrashOnlyByMisuse, NoFailure
<1>5. ASSUME NEW r \in RuleFor(f, MsgType[m]), Forward(i, x, f, r.type, r.instance)
      PROVE  CrashOnlyByMisuse'
  <2>1. r \in m_routing[f] /\ r.message = MsgType[m]
    BY DEF RuleFor
  <2>2. /\ stage[f[1]] \in {"built", "half destroyed", "destroyed"}
        /\ <<f, r>> \in ruled
    BY <1>1, <2>1 DEF NodeInv
  <2>3. CASE d \notin m_connected
    <3>1. failure' = "not connected"
      BY <1>5, <2>3 DEF Forward
    <3>2. stage[f[1]] # "built"
      BY <1>1, <2>3 DEF NodeInv, m_toConnection
    <3>3. stage[f[1]] = "half destroyed"
      BY <1>3, <2>2, <3>2 DEF Listens
    <3> QED
      BY <1>1, <3>1, <3>3 DEF CrashOnlyByMisuse
  <2>4. CASE d \in m_connected /\ MsgType[m] \notin Known[d]
    <3>1. failure' = "not registered"
      BY <1>5, <2>4 DEF Forward
    <3>2. \E y \in ruled : y[2].message \notin Known[m_toConnection(y[1])]
      BY <2>1, <2>2, <2>4
    <3> QED
      BY <1>1, <3>1, <3>2 DEF CrashOnlyByMisuse, m_toConnection
  <2>5. CASE d \in m_connected /\ MsgType[m] \in Known[d]
    BY <1>1, <1>4, <1>5, <2>5 DEF Forward, Running
  <2> QED
    BY <2>3, <2>4, <2>5
<1>6. CASE failure' = failure
  BY <1>1, <1>4, <1>6 DEF Running
<1> QED
  BY <1>5, <1>6 DEF ForwarderReceives

\* A processor converts to another class only when that has the type of the message.
LEMMA NodeThrows ==
    ASSUME ListenInv, NodeInv, PacketInv, NEW i \in 1 .. submitted, NEW x \in left[i],
           NodeReceives(i, x)
    PROVE  CrashOnlyByMisuse'
<1> DEFINE n == Listener(x)
           m == packets[i].packet.message
           r == m_processors[n][MsgType[m]]
<1>1. n \in Nodes /\ failure' = (IF r \notin {None, m} THEN "wrong class" ELSE NoFailure)
  BY DEF NodeReceives
<1>2. packets' = packets /\ i \in DOMAIN packets /\ packets[i] \in Records
  <2>1. packets' = packets
    BY DEF NodeReceives, Returns
  <2>2. i \in DOMAIN packets /\ packets[i] \in Records
    BY DEF PacketInv, PacketTypes
  <2> QED
    BY <2>1, <2>2
<1>3. packets[i].packet \in AnyPackets
  BY <1>2 DEF Records
<1>4. m \in DOMAIN MsgType /\ MsgType[m] \in MsgTypes
  BY <1>3, MessagesHaveTypes DEF MsgTypes
<1>5. CASE r \in {None, m}
  BY <1>1, <1>5 DEF CrashOnlyByMisuse, NoFailure
<1>6. CASE r \notin {None, m}
  <2>1. <<n, r>> \in Processors /\ MsgType[r] = MsgType[m]
    BY <1>1, <1>4, <1>6 DEF NodeInv
  <2>2. \E q \in Processors : q[2] # m /\ MsgType[q[2]] = MsgType[m]
    BY <1>6, <2>1
  <2> QED
    BY <1>1, <1>2, <1>6, <2>2 DEF CrashOnlyByMisuse
<1> QED
  BY <1>5, <1>6

\* No step ends the program in another way.
LEMMA CrashStep ==
    ASSUME ListenInv, NodeInv, PacketInv, CrashOnlyByMisuse, [Next]_vars
    PROVE  CrashOnlyByMisuse'
<1>1. CASE Application
  BY <1>1, ApplicationThrowsNothing DEF CrashOnlyByMisuse, NoFailure
<1>2. ASSUME NEW i \in 1 .. submitted, RouteMessage(i) \/ RouteEnds(i) PROVE CrashOnlyByMisuse'
  BY <1>2 DEF RouteMessage, RouteEnds, Running, CrashOnlyByMisuse, NoFailure
<1>3. ASSUME NEW i \in 1 .. submitted, NEW x \in left[i],
             NodeReceives(i, x) \/ ForwarderReceives(i, x)
      PROVE  CrashOnlyByMisuse'
  BY <1>3, NodeThrows, ForwardThrows
<1>4. CASE UNCHANGED vars
  BY <1>4 DEF vars, busVars, nodeVars, CrashOnlyByMisuse
<1> QED
  BY <1>1, <1>2, <1>3, <1>4 DEF Next, PoolStep

-----------------------------------------------------------------------------
\* The inductive invariant.
BusInv == WorkInv /\ ListenInv /\ NodeInv /\ PacketInv /\ CrashOnlyByMisuse

\* Listeners, calls, packets and rules stay in order, whatever the application
\* and the pool's threads do.
THEOREM BusesInOrder == Spec => []BusInv
<1>1. Init => BusInv
  <2>1. Init => WorkInv
    BY DEF Init, BusInit, pool!QInit, WorkInv, FewOvertakers
  <2>2. Init => CrashOnlyByMisuse
    BY DEF Init, BusInit, CrashOnlyByMisuse, NoFailure
  <2> QED
    BY <2>1, <2>2, ListenInit, NodeInit, PacketInit DEF BusInv
<1>2. BusInv /\ [Next]_vars => BusInv'
  <2> SUFFICES ASSUME BusInv, [Next]_vars PROVE BusInv'
    OBVIOUS
  <2>1. WorkInv'
    BY WorkStep, PoolUse DEF BusInv
  <2>2. ListenInv' /\ NodeInv'
    BY ListenStep, NodeStep DEF BusInv
  <2>3. PacketInv'
    BY PacketStep DEF BusInv
  <2>4. CrashOnlyByMisuse'
    BY CrashStep DEF BusInv
  <2> QED
    BY <2>1, <2>2, <2>3, <2>4 DEF BusInv
<1> QED
  BY <1>1, <1>2, PTL DEF Spec

\* A bridge never takes back what it has forwarded (MessageForwarder), however
\* many bridges join the buses and whatever rules they have.
THEOREM BridgesSendNothingBack == Spec => []NeverSentBack
<1>1. BusInv => NeverSentBack
  BY DEF BusInv, PacketInv, TrailInv
<1> QED
  BY <1>1, BusesInOrder, PTL

\* An exception reaches a thread of the pool only in three cases: a bridge that
\* is half destroyed, a rule for a message the other side does not know, two
\* classes that share a type.
THEOREM OnlyMisuseCrashes == Spec => []CrashOnlyByMisuse
<1>1. BusInv => CrashOnlyByMisuse
  BY DEF BusInv
<1> QED
  BY <1>1, BusesInOrder, PTL

-----------------------------------------------------------------------------
(* Paths.                                                                  *)

\* The routing of i has made the call to the listener of c, or will make none.
Done(i, c) == i \in begun /\ <<c, 1>> \notin left[i]

\* Two packets have the same history.
SameHistory(i, j) == packets[i].origin = packets[j].origin /\ packets[i].trail = packets[j].trail

\* A packet was sent by a node, or a forwarder made it of another packet, which has
\* called it; what a node has was given to it by a call that was made.  So no two
\* packets have the same history.
PathInv ==
    /\ got \in [Nodes -> Seq([origin : Nat, trail : Seq(Forwarders)])]
    /\ \A i, j \in 1 .. submitted : SameHistory(i, j) => i = j
    /\ \A i \in 1 .. submitted :
          \/ packets[i].trail = <<>> /\ packets[i].origin = i
          \/ \E h \in 1 .. submitted, f \in Forwarders :
                /\ packets[i].origin = packets[h].origin
                /\ packets[i].trail = Append(packets[h].trail, f)
                /\ Done(h, m_fromConnection(f))
    /\ \A n \in Nodes : \A g \in DOMAIN got[n] : \E h \in 1 .. submitted :
          /\ got[n][g].origin = packets[h].origin /\ got[n][g].trail = packets[h].trail
          /\ Done(h, n)
    /\ OncePerPath

\* A call is for the only listener of its connection.
LEMMA CalledFirst ==
    ASSUME ListenInv, NEW x \in Conns \X Nat, x[2] \in DOMAIN m_msgListeners[x[1]]
    PROVE  /\ x[2] = 1 /\ x = <<x[1], 1>>
           /\ Listener(x) \in Nodes => Listener(x) = x[1]
<1> DEFINE s == m_msgListeners[x[1]]
<1>1. x[1] \in Conns /\ x = <<x[1], x[2]>>
  OBVIOUS
<1>2. \A l : DOMAIN <<l>> = {1} /\ <<l>>[1] = l
  OBVIOUS
<1>3. DOMAIN <<>> = {}
  OBVIOUS
<1>4. s # <<>>
  BY <1>3
<1>5. CASE x[1] \in Nodes
  <2>1. s = <<x[1]>>
    BY <1>4, <1>5 DEF ListenInv
  <2>2. x[2] = 1 /\ Listener(x) = x[1]
    BY <1>2, <2>1 DEF Listener
  <2> QED
    BY <1>1, <2>2
<1>6. CASE x[1] \notin Nodes
  <2>1. PICK f \in Forwarders : m_fromConnection(f) = x[1]
    BY <1>1, <1>4, <1>6 DEF ListenInv
  <2>2. s = <<f>>
    BY <1>4, <2>1 DEF ListenInv
  <2>3. x[2] = 1 /\ Listener(x) = f
    BY <1>2, <2>2 DEF Listener
  <2> QED
    BY <1>1, <2>3, UseAssumption
<1> QED
  BY <1>5, <1>6

\* Nobody has sent or got anything at first.
LEMMA PathInit == Init => PathInv
<1> SUFFICES ASSUME Init PROVE PathInv
  OBVIOUS
<1>1. submitted = 0 /\ got = [n \in Nodes |-> <<>>]
  BY DEF Init, BusInit, pool!QInit
<1>2. 1 .. submitted = {} /\ DOMAIN <<>> = {}
  BY <1>1
<1>3. <<>> \in Seq([origin : Nat, trail : Seq(Forwarders)])
  OBVIOUS
<1>4. \A n \in Nodes : DOMAIN got[n] = {}
  BY <1>1, <1>2
<1>5. got \in [Nodes -> Seq([origin : Nat, trail : Seq(Forwarders)])]
  BY <1>1, <1>3
<1> QED
  BY <1>2, <1>4, <1>5 DEF PathInv, OncePerPath

\* A step that sends and delivers nothing: calls that are done stay done.
LEMMA PathKept ==
    ASSUME PathInv, UNCHANGED <<submitted, packets, got>>,
           \A h \in 1 .. submitted : \A c : Done(h, c) => Done(h, c)'
    PROVE  PathInv'
<1>1. ASSUME NEW i \in 1 .. submitted
      PROVE  \/ packets[i].trail = <<>> /\ packets[i].origin = i
             \/ \E h \in 1 .. submitted, f \in Forwarders :
                   /\ packets[i].origin = packets[h].origin
                   /\ packets[i].trail = Append(packets[h].trail, f)
                   /\ Done(h, m_fromConnection(f))'
  <2>1. ASSUME NEW h \in 1 .. submitted, NEW f \in Forwarders, Done(h, m_fromConnection(f))
        PROVE  Done(h, m_fromConnection(f))'
    BY <2>1 DEF Done
  <2> QED
    BY <2>1 DEF PathInv
<1>2. ASSUME NEW n \in Nodes, NEW g \in DOMAIN got[n]
      PROVE  \E h \in 1 .. submitted :
                /\ got[n][g].origin = packets[h].origin /\ got[n][g].trail = packets[h].trail
                /\ Done(h, n)'
  BY <1>2 DEF PathInv
<1> QED
  BY <1>1, <1>2 DEF PathInv, SameHistory, OncePerPath

\* The history that a packet is sent with: a node's, or one that a forwarder has
\* extended, whose call is made.
NewPath(o, t, calls) ==
    \/ t = <<>> /\ o = submitted + 1
    \/ \E h \in 1 .. submitted, f \in Forwarders :
          /\ o = packets[h].origin /\ t = Append(packets[h].trail, f)
          /\ h \in begun /\ <<m_fromConnection(f), 1>> \notin calls[h]

\* A packet with a history of its own is sent.
LEMMA PathSend ==
    ASSUME PacketTypes, PathInv, NEW c \in Conns, NEW p \in AnyPackets, NEW o \in Nat,
           NEW t \in Seq(Forwarders), NEW calls \in Seq(SUBSET (Conns \X Nat)),
           Len(calls) = submitted, sendMessage(c, p, o, t, calls), UNCHANGED got,
           \A j \in 1 .. submitted : calls[j] \subseteq left[j],
           \A j \in 1 .. submitted : ~(packets[j].origin = o /\ packets[j].trail = t),
           NewPath(o, t, calls)
    PROVE  PathInv'
<1> DEFINE k == submitted + 1
<1>1. /\ submitted' = k /\ begun' = begun
      /\ \A i \in 1 .. submitted : packets'[i] = packets[i] /\ left'[i] = calls[i]
      /\ packets'[k] = [sender |-> c, packet |-> p, origin |-> o, trail |-> t]
  BY Sent
<1>2. packets'[k].origin = o /\ packets'[k].trail = t
  BY <1>1
<1>3. /\ \A i \in 1 .. submitted' : i \in 1 .. submitted \/ i = k
      /\ \A i \in 1 .. submitted : i \in 1 .. submitted'
      /\ k \in 1 .. submitted'
  BY <1>1 DEF PacketTypes
<1> HIDE DEF k
<1>4. ASSUME NEW h \in 1 .. submitted, NEW d, Done(h, d) PROVE Done(h, d)'
  BY <1>1, <1>4 DEF Done
<1>5. ASSUME NEW i \in 1 .. submitted', NEW j \in 1 .. submitted', SameHistory(i, j)' PROVE i = j
  <2>1. CASE i \in 1 .. submitted /\ j \in 1 .. submitted
    BY <1>1, <1>5, <2>1 DEF PathInv, SameHistory
  <2>2. CASE i = k /\ j \in 1 .. submitted
    BY <1>1, <1>2, <1>5, <2>2 DEF SameHistory
  <2>3. CASE j = k /\ i \in 1 .. submitted
    BY <1>1, <1>2, <1>5, <2>3 DEF SameHistory
  <2> QED
    BY <1>3, <2>1, <2>2, <2>3
<1>6. ASSUME NEW i \in 1 .. submitted'
      PROVE  \/ packets'[i].trail = <<>> /\ packets'[i].origin = i
             \/ \E h \in 1 .. submitted', f \in Forwarders :
                   /\ packets'[i].origin = packets'[h].origin
                   /\ packets'[i].trail = Append(packets'[h].trail, f)
                   /\ Done(h, m_fromConnection(f))'
  <2>1. ASSUME NEW h \in 1 .. submitted, NEW f \in Forwarders,
               h \in begun /\ <<m_fromConnection(f), 1>> \notin calls[h]
        PROVE  Done(h, m_fromConnection(f))' /\ h \in 1 .. submitted' /\ packets'[h] = packets[h]
    BY <1>1, <1>3, <2>1 DEF Done
  <2>2. CASE i \in 1 .. submitted
    <3>1. packets'[i] = packets[i]
      BY <1>1, <2>2
    <3>2. CASE packets[i].trail = <<>> /\ packets[i].origin = i
      BY <3>1, <3>2
    <3>3. ASSUME NEW h \in 1 .. submitted, NEW f \in Forwarders,
                 packets[i].origin = packets[h].origin,
                 packets[i].trail = Append(packets[h].trail, f), Done(h, m_fromConnection(f))
          PROVE  \E g \in 1 .. submitted', e \in Forwarders :
                   /\ packets'[i].origin = packets'[g].origin
                   /\ packets'[i].trail = Append(packets'[g].trail, e)
                   /\ Done(g, m_fromConnection(e))'
      <4>1. h \in begun /\ <<m_fromConnection(f), 1>> \notin calls[h]
        BY <3>3 DEF Done
      <4> QED
        BY <2>1, <3>1, <3>3, <4>1
    <3> QED
      BY <2>2, <3>2, <3>3 DEF PathInv
  <2>3. CASE i = k
    <3>1. CASE t = <<>> /\ o = k
      BY <1>2, <2>3, <3>1
    <3>2. ASSUME NEW h \in 1 .. submitted, NEW f \in Forwarders,
                 o = packets[h].origin, t = Append(packets[h].trail, f),
                 h \in begun /\ <<m_fromConnection(f), 1>> \notin calls[h]
          PROVE  \E g \in 1 .. submitted', e \in Forwarders :
                   /\ packets'[i].origin = packets'[g].origin
                   /\ packets'[i].trail = Append(packets'[g].trail, e)
                   /\ Done(g, m_fromConnection(e))'
      BY <1>2, <2>1, <2>3, <3>2
    <3> QED
      BY <3>1, <3>2 DEF k, NewPath
  <2> QED
    BY <1>3, <2>2, <2>3
<1>7. ASSUME NEW n \in Nodes, NEW g \in DOMAIN got'[n]
      PROVE  \E h \in 1 .. submitted' :
                /\ got'[n][g].origin = packets'[h].origin /\ got'[n][g].trail = packets'[h].trail
                /\ Done(h, n)'
  <2>1. g \in DOMAIN got[n]
    BY <1>7
  <2>2. PICK h \in 1 .. submitted :
           /\ got[n][g].origin = packets[h].origin /\ got[n][g].trail = packets[h].trail
           /\ Done(h, n)
    BY <2>1 DEF PathInv
  <2>3. h \in 1 .. submitted' /\ packets'[h] = packets[h] /\ Done(h, n)'
    BY <1>1, <1>3, <1>4, <2>2
  <2> QED
    BY <2>2, <2>3
<1> QED
  BY <1>5, <1>6, <1>7 DEF PathInv, OncePerPath

\* A node is given the packet i by a call that was still to be made.
LEMMA PathReceive ==
    ASSUME ListenInv, PacketInv, PathInv, NEW i \in 1 .. submitted, NEW x \in left[i],
           NodeReceives(i, x)
    PROVE  PathInv'
<1> DEFINE n == Listener(x)
           r == [origin |-> packets[i].origin, trail |-> packets[i].trail]
<1>1. /\ Running /\ i \in begun /\ n \in Nodes /\ left' = AfterCall(i, x)
      /\ got' = [got EXCEPT ![n] = Append(@, r)]
      /\ UNCHANGED <<submitted, begun, packets>>
  BY DEF NodeReceives, Calling, InService, Returns
<1>2. x \in Conns \X Nat /\ packets[i] \in Records
  BY DEF PacketInv, PacketTypes
<1>3. x[2] \in DOMAIN m_msgListeners[x[1]]
  BY <1>1 DEF PacketInv, CallsInv
<1>4. x = <<n, 1>>
  BY <1>1, <1>2, <1>3, CalledFirst
<1>5. r \in [origin : Nat, trail : Seq(Forwarders)]
  BY <1>2 DEF Records
<1>6. /\ AfterCall(i, x)[i] = left[i] \ {x}
      /\ \A j \in 1 .. submitted : AfterCall(i, x)[j] \subseteq left[j]
  BY Made DEF PacketInv
<1>7. r.origin = packets[i].origin /\ r.trail = packets[i].trail
  OBVIOUS
<1> HIDE DEF n, r
<1>8. /\ got' \in [Nodes -> Seq([origin : Nat, trail : Seq(Forwarders)])]
      /\ \A k \in Nodes : k # n => got'[k] = got[k]
      /\ got'[n] = Append(got[n], r)
  <2>1. got[n] \in Seq([origin : Nat, trail : Seq(Forwarders)])
    BY <1>1 DEF PathInv
  <2>2. Append(got[n], r) \in Seq([origin : Nat, trail : Seq(Forwarders)])
    BY <1>5, <2>1, AppendProperties
  <2> QED
    BY <1>1, <2>2 DEF PathInv
<1>9. /\ DOMAIN got'[n] = 1 .. Len(got[n]) + 1 /\ Len(got[n]) \in Nat
      /\ DOMAIN got[n] = 1 .. Len(got[n])
      /\ \A g \in 1 .. Len(got[n]) : got'[n][g] = got[n][g]
      /\ got'[n][Len(got[n]) + 1] = r
  <2>1. got[n] \in Seq([origin : Nat, trail : Seq(Forwarders)])
    BY <1>1 DEF PathInv
  <2> QED
    BY <1>5, <1>8, <2>1, AppendProperties, LenProperties
<1>10. \A g \in DOMAIN got'[n] : \/ g \in DOMAIN got[n] /\ got'[n][g] = got[n][g]
                                 \/ g = Len(got[n]) + 1 /\ got'[n][g] = r
  BY <1>9
<1>11. ASSUME NEW h \in 1 .. submitted, NEW c, Done(h, c) PROVE Done(h, c)'
  BY <1>1, <1>6, <1>11 DEF Done
<1>12. \A g \in DOMAIN got[n] : got[n][g] # r
  <2> SUFFICES ASSUME NEW g \in DOMAIN got[n], got[n][g] = r PROVE FALSE
    OBVIOUS
  <2>1. PICK h \in 1 .. submitted :
           /\ got[n][g].origin = packets[h].origin /\ got[n][g].trail = packets[h].trail
           /\ Done(h, n)
    BY <1>1 DEF PathInv
  <2>2. h = i
    BY <1>7, <2>1 DEF PathInv, SameHistory
  <2> QED
    BY <1>4, <2>1, <2>2 DEF Done
<1>13. \A i1, j1 \in 1 .. submitted : SameHistory(i1, j1)' => i1 = j1
  BY <1>1 DEF PathInv, SameHistory
<1>14. ASSUME NEW j \in 1 .. submitted
       PROVE  \/ packets[j].trail = <<>> /\ packets[j].origin = j
              \/ \E h \in 1 .. submitted, f \in Forwarders :
                    /\ packets[j].origin = packets[h].origin
                    /\ packets[j].trail = Append(packets[h].trail, f)
                    /\ Done(h, m_fromConnection(f))'
  <2>1. ASSUME NEW h \in 1 .. submitted, NEW f \in Forwarders, Done(h, m_fromConnection(f))
        PROVE  Done(h, m_fromConnection(f))'
    BY <1>1, <1>6, <2>1 DEF Done
  <2> QED
    BY <2>1 DEF PathInv
<1>15. i \in begun' /\ <<n, 1>> \notin left'[i]
  BY <1>1, <1>4, <1>6
<1>16. ASSUME NEW k \in Nodes, NEW g \in DOMAIN got'[k]
       PROVE  \E h \in 1 .. submitted :
                 /\ got'[k][g].origin = packets[h].origin /\ got'[k][g].trail = packets[h].trail
                 /\ Done(h, k)'
  <2>1. CASE g \in DOMAIN got[k] /\ got'[k][g] = got[k][g]
    <3>1. PICK h \in 1 .. submitted :
             /\ got[k][g].origin = packets[h].origin /\ got[k][g].trail = packets[h].trail
             /\ Done(h, k)
      BY <2>1 DEF PathInv
    <3> QED
      BY <1>11, <2>1, <3>1
  <2>2. CASE k = n /\ got'[k][g] = r
    <3>1. Done(i, k)'
      BY <1>15, <2>2 DEF Done
    <3> QED
      BY <1>7, <2>2, <3>1
  <2> QED
    BY <1>8, <1>10, <1>16, <2>1, <2>2
<1>17. OncePerPath'
  <2> SUFFICES ASSUME NEW k \in Nodes, NEW g \in DOMAIN got'[k], NEW e \in DOMAIN got'[k],
                      got'[k][g] = got'[k][e]
               PROVE  g = e
    BY DEF OncePerPath
  <2>1. CASE k = n
    BY <1>1, <1>10, <1>12, <2>1 DEF PathInv, OncePerPath
  <2>2. CASE k # n
    BY <1>8, <2>2 DEF PathInv, OncePerPath
  <2> QED
    BY <2>1, <2>2
<1>18. submitted' = submitted /\ packets' = packets
  BY <1>1
<1>19. got' \in [Nodes -> Seq([origin : Nat, trail : Seq(Forwarders)])]
  BY <1>8
<1> QED
  BY <1>13, <1>14, <1>16, <1>17, <1>18, <1>19 DEF PathInv

\* A node sends: nothing has its number yet.
LEMMA PathNodeSends ==
    ASSUME PacketInv, PathInv, NEW s \in Sends, NodeSends(s[1], s[2]) PROVE PathInv'
<1>1. sendMessage(s[1], s[2], submitted + 1, <<>>, left) /\ UNCHANGED got /\ PacketTypes
  BY DEF NodeSends, PacketInv
<1>2. s[1] \in Conns /\ s[2] \in AnyPackets
  BY UseAssumption, BridgeAssumption DEF AnyPackets
<1>3. /\ submitted \in Nat /\ submitted + 1 \in Nat /\ packets \in Seq(Records) /\ Len(packets) = submitted
      /\ left \in Seq(SUBSET (Conns \X Nat)) /\ Len(left) = submitted
  BY <1>1 DEF PacketTypes
<1>4. <<>> \in Seq(Forwarders)
  OBVIOUS
<1>5. ASSUME NEW j \in 1 .. submitted, packets[j].origin = submitted + 1, packets[j].trail = <<>>
      PROVE  FALSE
  <2>1. ASSUME NEW h \in 1 .. submitted, NEW f \in Forwarders
        PROVE  Append(packets[h].trail, f) # <<>>
    <3>1. packets[h] \in Records
      BY <1>3
    <3>2. packets[h].trail \in Seq(Forwarders)
      BY <3>1 DEF Records
    <3> QED
      BY <3>2, AppendProperties
  <2>2. packets[j].origin = j
    BY <1>5, <2>1 DEF PathInv
  <2> QED
    BY <1>3, <1>5, <2>2
<1>6. \A j \in 1 .. submitted : left[j] \subseteq left[j]
  OBVIOUS
<1> DEFINE o == submitted + 1
           t == <<>>
<1>7. sendMessage(s[1], s[2], o, t, left) /\ o \in Nat /\ t \in Seq(Forwarders)
  BY <1>1, <1>3, <1>4
<1>8. \A j \in 1 .. submitted : ~(packets[j].origin = o /\ packets[j].trail = t)
  BY <1>5
<1>9. NewPath(o, t, left)
  BY DEF NewPath
<1>10. PacketTypes /\ UNCHANGED got
  BY <1>1
<1> HIDE DEF o, t
<1> QED
  BY <1>2, <1>3, <1>6, <1>7, <1>8, <1>9, <1>10, PathSend

\* A forwarder sends on the packet i, by a call that was still to be made: it has
\* not done so before.
LEMMA PathForward ==
    ASSUME ListenInv, NodeInv, PacketInv, PathInv, NEW i \in 1 .. submitted, NEW x \in left[i],
           ForwarderReceives(i, x)
    PROVE  PathInv'
<1> DEFINE f == Listener(x)
           o == packets[i].origin
           t == Append(packets[i].trail, f)
<1>1. f \in Forwarders /\ Running /\ i \in begun /\ UNCHANGED got /\ PacketTypes
  BY DEF ForwarderReceives, Calling, InService, nodeVars, PacketInv
<1>2. x \in Conns \X Nat /\ packets[i] \in Records
  BY <1>1 DEF PacketTypes
<1>3. x[2] \in DOMAIN m_msgListeners[x[1]] /\ x[1] \in Conns
  BY <1>1, <1>2 DEF PacketInv, CallsInv
<1>4. x = <<m_fromConnection(f), 1>>
  BY <1>1, <1>2, <1>3, CalledFirst, CalledForwarder
<1>5. /\ AfterCall(i, x)[i] = left[i] \ {x}
      /\ AfterCall(i, x) \in Seq(SUBSET (Conns \X Nat)) /\ Len(AfterCall(i, x)) = submitted
      /\ \A j \in 1 .. submitted : AfterCall(i, x)[j] \subseteq left[j]
  BY <1>1, Made
<1>6. m_toConnection(f) \in Conns
  BY <1>1, FromConnection
<1>7. o \in Nat /\ packets[i].trail \in Seq(Forwarders)
  BY <1>2 DEF Records
<1> HIDE DEF f
<1>8. t \in Seq(Forwarders) /\ t # <<>>
  BY <1>1, <1>7, AppendProperties
<1>9. ASSUME NEW j \in 1 .. submitted, packets[j].origin = o, packets[j].trail = t PROVE FALSE
  <2>1. PICK h \in 1 .. submitted, g \in Forwarders :
           /\ packets[j].origin = packets[h].origin
           /\ packets[j].trail = Append(packets[h].trail, g)
           /\ Done(h, m_fromConnection(g))
    BY <1>8, <1>9 DEF PathInv
  <2>2. packets[h] \in Records
    BY <1>1 DEF PacketTypes
  <2>3. packets[h].trail \in Seq(Forwarders)
    BY <2>2 DEF Records
  <2>4. packets[h].trail = packets[i].trail /\ g = f
    <3> DEFINE u == packets[h].trail
               v == packets[i].trail
    <3>1. Append(u, g) = Append(v, f) /\ u \in Seq(Forwarders) /\ v \in Seq(Forwarders)
      BY <1>7, <1>9, <2>1, <2>3
    <3>2. f \in Forwarders
      BY <1>1
    <3> HIDE DEF u, v
    <3>3. u = v /\ g = f
      BY <3>1, <3>2, AppendInjective
    <3> QED
      BY <3>3 DEF u, v
  <2>5. h = i
    BY <1>9, <2>1, <2>4 DEF PathInv, SameHistory
  <2> QED
    BY <1>4, <2>1, <2>4, <2>5 DEF Done
<1>10. CASE Returns(i, x)
  <2>1. UNCHANGED <<submitted, packets, got, begun>> /\ left' = AfterCall(i, x)
    BY <1>1, <1>10 DEF Returns
  <2>2. \A h \in 1 .. submitted : \A c : Done(h, c) => Done(h, c)'
    BY <1>5, <2>1 DEF Done
  <2> QED
    BY <2>1, <2>2, PathKept
<1>11. ASSUME NEW p \in AnyPackets, sendMessage(m_toConnection(f), p, o, t, AfterCall(i, x))
       PROVE  PathInv'
  <2>1. NewPath(o, t, AfterCall(i, x))
    BY <1>1, <1>4, <1>5 DEF NewPath
  <2>2. \A j \in 1 .. submitted : ~(packets[j].origin = o /\ packets[j].trail = t)
    BY <1>9
  <2> HIDE DEF o, t
  <2> QED
    BY <1>1, <1>5, <1>6, <1>7, <1>8, <1>11, <2>1, <2>2, PathSend
<1> QED
  BY <1>1, <1>10, <1>11, ForwardCases DEF f

\* Every step keeps the histories apart.
LEMMA PathStep ==
    ASSUME WorkInv, ListenInv, NodeInv, PacketInv, PathInv, [Next]_vars PROVE PathInv'
<1>1. ASSUME UNCHANGED <<submitted, begun, packets, left, got>> PROVE PathInv'
  <2>1. \A h \in 1 .. submitted : \A c : Done(h, c) => Done(h, c)'
    BY <1>1 DEF Done
  <2> QED
    BY <1>1, <2>1, PathKept
<1> USE DEF poolVars, nodeVars
<1>2. ASSUME NEW n \in Nodes, Connect(n) \/ Disconnect(n) \/ DestroyNode(n) PROVE PathInv'
  BY <1>1, <1>2 DEF Connect, Disconnect, DestroyNode
<1>3. ASSUME NEW q \in Processors, AddProcessor(q[1], q[2]) \/ RemoveProcessor(q[1], q[2])
      PROVE  PathInv'
  BY <1>1, <1>3 DEF AddProcessor, RemoveProcessor
<1>4. ASSUME NEW b \in Bridges, CreateBridge(b) \/ DestroyBridge(b) PROVE PathInv'
  BY <1>1, <1>4 DEF CreateBridge, DestroyBridge, CreateForwarder, DestroyForwarder
<1>5. ASSUME NEW x \in Rules, AddRule(x[1], x[2]) PROVE PathInv'
  BY <1>1, <1>5 DEF AddRule
<1>6. ASSUME NEW i \in 1 .. submitted, RouteMessage(i), UNCHANGED nodeVars PROVE PathInv'
  <2>1. /\ i \notin begun /\ begun' = begun \cup {i} /\ UNCHANGED <<submitted, packets, got>>
        /\ left' = [left EXCEPT ![i] = Calls(packets[i].sender, packets[i].packet)]
    BY <1>6 DEF RouteMessage, pool!Begin
  <2>2. \A h \in 1 .. submitted : h # i => left'[h] = left[h]
    BY <2>1 DEF PacketInv, PacketTypes
  <2>3. \A h \in 1 .. submitted : \A c : Done(h, c) => Done(h, c)'
    BY <2>1, <2>2 DEF Done
  <2> QED
    BY <2>1, <2>3, PathKept
<1>7. ASSUME NEW i \in 1 .. submitted, RouteEnds(i), UNCHANGED nodeVars PROVE PathInv'
  BY <1>1, <1>7 DEF RouteEnds, pool!Finish
<1>8. ASSUME NEW s \in Sends, NodeSends(s[1], s[2]) PROVE PathInv'
  BY <1>8, PathNodeSends
<1>9. ASSUME NEW i \in 1 .. submitted, NEW x \in left[i], NodeReceives(i, x) \/ ForwarderReceives(i, x)
      PROVE  PathInv'
  BY <1>9, PathReceive, PathForward
<1>10. CASE UNCHANGED vars
  BY <1>1, <1>10 DEF vars, busVars
<1> QED
  BY <1>2, <1>3, <1>4, <1>5, <1>6, <1>7, <1>8, <1>9, <1>10, NextCases

\* Along each path of forwarders a node gets a packet at most once, however many
\* bridges join the buses and whatever their rules are, in circles too: copies come
\* only from different bridges.
THEOREM NoCopiesOnAPath == Spec => []OncePerPath
<1>1. BusInv /\ PathInv /\ [Next]_vars => PathInv'
  BY PathStep DEF BusInv
<1>2. PathInv => OncePerPath
  BY DEF PathInv
<1> QED
  BY <1>1, <1>2, PathInit, BusesInOrder, PTL DEF Spec
=============================================================================
