------------------ MODULE CircularDependencyCheckerProofs ------------------
(* The search for circular dependencies is sound, for any configurations,    *)
(* beans and lists of resources: what it reports is a circle, and it reports *)
(* one whenever there is one.                                                *)
EXTENDS CircularDependencyChecker, SequenceTheorems, TLAPS

\* Between searches the stack is empty, and so are the calls when nothing is
\* being searched.
Quiet ==
    /\ result # "searching" => frames = <<>>
    /\ (result \in {"adding", "searching"} /\ frames = <<>>) => m_cycle = <<>>

Inv == TypeOK /\ SearchPath /\ CycleIsReal /\ Quiet

\* What Pop, and a change of the last element, do to a sequence.
LEMMA PopSeq ==
    ASSUME NEW T, NEW s \in Seq(T), s # <<>>
    PROVE  /\ Len(s) \in Nat \ {0} /\ s[Len(s)] \in T
           /\ Pop(s) \in Seq(T) /\ Len(Pop(s)) = Len(s) - 1
           /\ \A i \in 1 .. Len(s) - 1 : Pop(s)[i] = s[i]
  <1>1. Len(s) \in Nat \ {0}
    BY EmptySeq
  <1>2. \A i \in 1 .. Len(s) : s[i] \in T
    BY ElementOfSeq
  <1>3. \A i \in 1 .. Len(s) - 1 : s[i] \in T
    BY <1>1, <1>2
  <1>4. /\ SubSeq(s, 1, Len(s) - 1) \in Seq(T)
        /\ Len(SubSeq(s, 1, Len(s) - 1)) = IF 1 <= Len(s) - 1 THEN Len(s) - 1 - 1 + 1 ELSE 0
        /\ \A i \in 1 .. Len(s) - 1 - 1 + 1 : SubSeq(s, 1, Len(s) - 1)[i] = s[1 + i - 1]
    BY <1>1, <1>3, SubSeqProperties
  <1>5. Len(SubSeq(s, 1, Len(s) - 1)) = Len(s) - 1
    <2>. DEFINE k == Len(s)
                l == Len(SubSeq(s, 1, Len(s) - 1))
    <2>1. k \in Nat \ {0} /\ l = IF 1 <= k - 1 THEN k - 1 - 1 + 1 ELSE 0
      BY <1>1, <1>4
    <2>. HIDE DEF k, l
    <2>2. l = k - 1
      BY <2>1
    <2>. QED  BY <2>2 DEF k, l
  <1>6. ASSUME NEW i \in 1 .. Len(s) - 1 PROVE SubSeq(s, 1, Len(s) - 1)[i] = s[i]
    <2>1. i \in 1 .. Len(s) - 1 - 1 + 1 /\ 1 + i - 1 = i
      BY <1>1
    <2>. QED  BY <1>4, <2>1
  <1>7. s[Len(s)] \in T
    BY <1>1, <1>2
  <1>. QED  BY <1>1, <1>4, <1>5, <1>6, <1>7 DEF Pop

\* Advance changes the position of the last frame only.
LEMMA AdvanceSeq ==
    ASSUME NEW fs \in Seq(Frame), fs # <<>>
    PROVE  /\ Advance(fs) \in Seq(Frame) /\ Len(Advance(fs)) = Len(fs)
           /\ \A i \in 1 .. Len(fs) : Advance(fs)[i].config = fs[i].config
           /\ \A i \in 1 .. Len(fs) - 1 : Advance(fs)[i].next = fs[i].next
           /\ Advance(fs)[Len(fs)].next = fs[Len(fs)].next + 1
  <1>. DEFINE n == Len(fs)
              e == [fs[n] EXCEPT !.next = @ + 1]
  <1>1. n \in Nat \ {0} /\ n \in 1 .. Len(fs) /\ fs[n] \in Frame
    BY EmptySeq, ElementOfSeq
  <1>2. e \in Frame /\ e.config = fs[n].config /\ e.next = fs[n].next + 1
    BY <1>1 DEF Frame
  <1>3. Advance(fs) = [fs EXCEPT ![n] = e]
    BY DEF Advance
  <1>. HIDE DEF e
  <1>4. /\ [fs EXCEPT ![n] = e] \in Seq(Frame) /\ Len([fs EXCEPT ![n] = e]) = Len(fs)
        /\ \A j \in 1 .. Len(fs) : [fs EXCEPT ![n] = e][j] = IF j = n THEN e ELSE fs[j]
    BY <1>1, <1>2, ExceptSeq
  <1>5. \A j \in 1 .. n - 1 : j \in 1 .. Len(fs) /\ j # n
    BY <1>1
  <1>. QED  BY <1>1, <1>2, <1>3, <1>4, <1>5

\* The definitions that say where the search is, for a type-correct state.
LEMMA TopTypes ==
    ASSUME TypeOK, Searching
    PROVE  /\ Len(frames) \in Nat \ {0}
           /\ Top \in Frame /\ Top.config \in Names /\ Top.next \in Nat \ {0}
           /\ HasResource => Resource \in Beans /\ Compound \in Configs \X Beans
  <1>1. Len(frames) \in Nat \ {0} /\ Top \in Frame
    BY PopSeq DEF TypeOK, Searching, Top
  <1>2. Top.config \in Names /\ Top.next \in Nat \ {0}
    BY <1>1 DEF Frame
  <1>3. ASSUME HasResource PROVE Resource \in Beans
    <2>1. m_configResources[Top.config] \in Seq(Beans)
      BY <1>2 DEF TypeOK
    <2>2. Top.next \in 1 .. Len(m_configResources[Top.config])
      BY <1>2, <1>3, <2>1 DEF HasResource
    <2>. QED  BY <2>1, <2>2, ElementOfSeq DEF Resource
  <1>. QED  BY <1>1, <1>2, <1>3 DEF Compound, TypeOK

\* The resource under examination leads to the configuration that provides it.
LEMMA ResourceLeads ==
    ASSUME TypeOK, Searching, HasResource, Provided
    PROVE  Leads(Waits, m_beanSource, Top.config, Resource, m_beanSource[Resource])
  <1>1. m_configResources[Top.config] \in Seq(Beans)
    BY TopTypes DEF TypeOK
  <1>2. Top.next \in 1 .. Len(m_configResources[Top.config])
    BY TopTypes, <1>1 DEF HasResource
  <1>. QED  BY <1>2, TopTypes DEF Leads, Waits, Resource, Provided, Names

\* Nothing is searched at first.
LEMMA InvInit == Init => Inv
  <1>. SUFFICES ASSUME Init PROVE Inv
    OBVIOUS
  <1>1. TypeOK
    BY CheckerAssumption, EmptySeq DEF Init, TypeOK, Names, Configs
  <1>. QED  BY <1>1 DEF Init, Inv, SearchPath, CycleIsReal, Quiet, Searching

\* add, before any search.
LEMMA AddStep ==
    ASSUME Inv, NEW name \in Configs, NEW resources \in Resources,
           NEW beans \in SUBSET Beans, Add(name, resources, beans)
    PROVE  Inv'
  <1>1. TypeOK /\ Quiet /\ result = "adding" /\ frames = <<>>
    BY DEF Inv, Add, Quiet
  <1>2. resources \in Seq(Beans)
    BY CheckerAssumption
  <1>3. Names' = Names \cup {name}
    BY DEF Add, Names
  <1>4. \A c \in Names' : m_configResources'[c] \in Seq(Beans)
    BY <1>1, <1>2, <1>3 DEF Add, TypeOK
  <1>5. DOMAIN m_beanSource' \subseteq Beans /\ \A b \in DOMAIN m_beanSource' : m_beanSource'[b] \in Names'
    BY <1>1, <1>3 DEF Add, TypeOK
  <1>6. frames' \in Seq(Frame')
    BY <1>1, EmptySeq DEF Add
  <1>7. Names' \subseteq Configs
    BY <1>1, <1>3 DEF TypeOK
  <1>8. m_cycle' \in Seq(Configs \X Beans) /\ current' \in Nat /\ adds' \in Nat /\ result' = "adding"
    BY <1>1 DEF Add, TypeOK
  <1>9. TypeOK'
    BY <1>4, <1>5, <1>6, <1>7, <1>8 DEF TypeOK
  <1>. QED  BY <1>1, <1>9 DEF Add, Inv, SearchPath, CycleIsReal, Quiet, Searching

\* The search starts at the next configuration with an empty stack.
LEMMA CheckConfigStep ==
    ASSUME Inv, NEW c \in Configs, CheckConfig(c)
    PROVE  Inv'
  <1>1. TypeOK /\ m_cycle = <<>> /\ Names' = Names /\ Frame' = Frame /\ c \in Names
    BY DEF CheckConfig, Inv, Quiet, Names, Frame, Remaining
  <1>2. [config |-> c, next |-> 1] \in Frame
    BY <1>1 DEF Frame
  <1>3. frames' \in Seq(Frame) /\ Len(frames') = 1 /\ frames' # <<>>
    BY <1>2 DEF CheckConfig
  <1>4. TypeOK'
    BY <1>1, <1>3, CheckerAssumption DEF CheckConfig, TypeOK, Configs
  <1>. QED  BY <1>1, <1>3, <1>4 DEF CheckConfig, Inv, SearchPath, CycleIsReal, Quiet, Searching

\* The search ends without a cycle.
LEMMA CheckDoneStep ==
    ASSUME Inv, CheckDone
    PROVE  Inv'
  BY DEF CheckDone, Inv, TypeOK, Names, Frame, SearchPath, CycleIsReal, Quiet, Searching

\* A resource that nobody provides leaves the walk as it is.
LEMMA FollowNowhereStep ==
    ASSUME Inv, FollowNowhere
    PROVE  Inv'
  <1>1. TypeOK /\ SearchPath /\ Searching /\ result = "searching"
    BY DEF FollowNowhere, Inv, Searching
  <1>2. /\ m_configResources' = m_configResources /\ m_beanSource' = m_beanSource
        /\ m_cycle' = m_cycle /\ result' = result /\ Names' = Names /\ Frame' = Frame /\ Waits' = Waits
    BY DEF FollowNowhere, Names, Frame, Waits
  <1>3. frames \in Seq(Frame) /\ frames # <<>>
    BY <1>1 DEF TypeOK, Searching
  <1>4. /\ frames' \in Seq(Frame) /\ Len(frames') = Len(frames) /\ Len(frames) \in Nat \ {0}
        /\ \A i \in 1 .. Len(frames) : frames'[i].config = frames[i].config
    BY <1>3, AdvanceSeq, EmptySeq DEF FollowNowhere
  <1>5. TypeOK'
    BY <1>1, <1>2, <1>4 DEF FollowNowhere, TypeOK
  <1>6. m_cycle \in Seq(Configs \X Beans) /\ Len(m_cycle) \in Nat
    BY <1>1 DEF TypeOK
  <1>7. SearchPath'
    BY <1>1, <1>2, <1>4, <1>6 DEF SearchPath, Searching
  <1>8. frames' # <<>>
    BY <1>4
  <1>. QED  BY <1>1, <1>2, <1>5, <1>7, <1>8 DEF Inv, CycleIsReal, Quiet

\* The walk gets one step longer, by a step that it did not have.
LEMMA FollowSourceStep ==
    ASSUME Inv, FollowSource
    PROVE  Inv'
  <1>1. TypeOK /\ SearchPath /\ Searching /\ HasResource /\ Provided /\ ~Seen /\ result = "searching"
    BY DEF FollowSource, Inv, Searching
  <1>2. /\ m_configResources' = m_configResources /\ m_beanSource' = m_beanSource
        /\ result' = result /\ Names' = Names /\ Frame' = Frame /\ Waits' = Waits
    BY DEF FollowSource, Names, Frame, Waits
  <1>. DEFINE d == m_beanSource[Resource]
              f == [config |-> d, next |-> 1]
              n == Len(m_cycle)
  <1>3. f \in Frame /\ f.config = d
    BY <1>1 DEF Frame, Provided
  <1>4. Compound \in Configs \X Beans /\ Compound[1] = Top.config /\ Compound[2] = Resource
    BY <1>1, TopTypes DEF Compound
  <1>5. m_cycle \in Seq(Configs \X Beans) /\ n \in Nat /\ frames \in Seq(Frame) /\ Len(frames) = n + 1
    BY <1>1 DEF TypeOK, SearchPath
  <1>6. Leads(Waits, m_beanSource, Compound[1], Compound[2], d)
    BY <1>1, <1>4, ResourceLeads
  <1>. HIDE DEF f, d
  <1>7. /\ m_cycle' \in Seq(Configs \X Beans) /\ Len(m_cycle') = n + 1
        /\ \A i \in 1 .. n : m_cycle'[i] = m_cycle[i]
        /\ m_cycle'[n + 1] = Compound
    <2>. DEFINE C == Configs \X Beans
    <2>. HIDE DEF C
    <2>1. m_cycle \in Seq(C) /\ Compound \in C /\ m_cycle' = Append(m_cycle, Compound)
      BY <1>4, <1>5 DEF C, FollowSource
    <2>2. /\ m_cycle' \in Seq(C) /\ Len(m_cycle') = n + 1
          /\ \A i \in 1 .. n : m_cycle'[i] = m_cycle[i]
          /\ m_cycle'[n + 1] = Compound
      BY <2>1
    <2>. QED  BY <2>2 DEF C
  <1>8. /\ frames' \in Seq(Frame) /\ Len(frames') = n + 2 /\ frames' # <<>>
        /\ \A i \in 1 .. n + 1 : frames'[i] = frames[i]
        /\ frames'[n + 2] = f
    <2>1. frames' = Append(frames, f)
      BY DEF FollowSource, f, d
    <2>2. frames' # <<>>
      BY <1>3, <1>5, <2>1, EmptySeq
    <2>. QED  BY <1>3, <1>5, <2>1, <2>2
  <1>9. TypeOK'
    BY <1>1, <1>2, <1>7, <1>8 DEF FollowSource, TypeOK
  <1>10. ASSUME NEW i \in 1 .. Len(m_cycle')
         PROVE  /\ m_cycle'[i][1] = frames'[i].config
                /\ Leads(Waits', m_beanSource',
                         m_cycle'[i][1], m_cycle'[i][2], frames'[i + 1].config)
    <2>1. CASE i \in 1 .. n
      <3>1. m_cycle'[i] = m_cycle[i] /\ frames'[i] = frames[i] /\ frames'[i + 1] = frames[i + 1]
        BY <1>5, <1>7, <1>8, <2>1
      <3>. QED  BY <1>1, <1>2, <2>1, <3>1 DEF SearchPath
    <2>2. CASE i = n + 1
      <3>1. m_cycle'[i] = Compound /\ frames'[i] = Top /\ frames'[i + 1].config = d
        BY <1>3, <1>5, <1>7, <1>8, <2>2 DEF Top
      <3>. QED  BY <1>2, <1>4, <1>6, <3>1
    <2>. QED  BY <1>5, <1>7, <2>1, <2>2
  <1>11. \A i, j \in 1 .. Len(m_cycle') : m_cycle'[i] = m_cycle'[j] => i = j
    <2>1. \A i \in 1 .. n : m_cycle[i] # Compound
      BY <1>1 DEF Seen
    <2>2. \A i, j \in 1 .. n : m_cycle[i] = m_cycle[j] => i = j
      BY <1>1 DEF SearchPath
    <2>3. \A i \in 1 .. Len(m_cycle') : \/ i \in 1 .. n /\ m_cycle'[i] = m_cycle[i]
                                        \/ i = n + 1 /\ m_cycle'[i] = Compound
      BY <1>5, <1>7
    <2>4. ASSUME NEW i \in 1 .. Len(m_cycle'), NEW j \in 1 .. Len(m_cycle'),
                 m_cycle'[i] = m_cycle'[j]
          PROVE  i = j
      <3>1. CASE i \in 1 .. n /\ m_cycle'[i] = m_cycle[i]
        BY <2>1, <2>2, <2>3, <2>4, <3>1
      <3>2. CASE i = n + 1 /\ m_cycle'[i] = Compound
        BY <2>1, <2>3, <2>4, <3>2
      <3>. QED  BY <2>3, <3>1, <3>2
    <2>. QED  BY <2>4
  <1>12. SearchPath'
    BY <1>5, <1>7, <1>8, <1>10, <1>11 DEF SearchPath
  <1>. QED  BY <1>1, <1>2, <1>8, <1>9, <1>12 DEF Inv, CycleIsReal, Quiet

\* The walk gets one step shorter.
LEMMA ReturnFalseStep ==
    ASSUME Inv, ReturnFalse
    PROVE  Inv'
  <1>1. TypeOK /\ SearchPath /\ Searching /\ result = "searching"
    BY DEF ReturnFalse, Inv, Searching
  <1>2. /\ m_configResources' = m_configResources /\ m_beanSource' = m_beanSource
        /\ result' = result /\ Names' = Names /\ Frame' = Frame /\ Waits' = Waits
    BY DEF ReturnFalse, Names, Frame, Waits
  <1>. DEFINE n == Len(m_cycle)
  <1>3. /\ m_cycle \in Seq(Configs \X Beans) /\ n \in Nat
        /\ frames \in Seq(Frame) /\ frames # <<>> /\ Len(frames) = n + 1
    BY <1>1 DEF TypeOK, SearchPath, Searching
  <1>4. CASE Len(frames) = 1
    <2>1. frames' = <<>> /\ m_cycle' = m_cycle /\ m_cycle = <<>>
      BY <1>3, <1>4 DEF ReturnFalse
    <2>2. TypeOK'
      BY <1>1, <1>2, <2>1, EmptySeq DEF ReturnFalse, TypeOK
    <2>. QED  BY <1>1, <1>2, <2>1, <2>2 DEF Inv, SearchPath, Searching, CycleIsReal, Quiet
  <1>5. CASE Len(frames) # 1
    <2>1. frames' = Advance(Pop(frames)) /\ m_cycle' = Pop(m_cycle)
      BY <1>5 DEF ReturnFalse
    <2>2. n \in Nat \ {0} /\ m_cycle # <<>>
      BY <1>3, <1>5
    <2>3. /\ Pop(frames) \in Seq(Frame) /\ Len(Pop(frames)) = n
          /\ \A i \in 1 .. n : Pop(frames)[i] = frames[i]
      <3>1. /\ Pop(frames) \in Seq(Frame) /\ Len(Pop(frames)) = Len(frames) - 1
            /\ \A i \in 1 .. Len(frames) - 1 : Pop(frames)[i] = frames[i]
        BY <1>3, PopSeq
      <3>2. Len(frames) - 1 = n
        BY <1>3
      <3>. QED  BY <3>1, <3>2
    <2>4. Pop(frames) # <<>>
      BY <2>2, <2>3
    <2>5. /\ frames' \in Seq(Frame) /\ Len(frames') = n
          /\ \A i \in 1 .. n : frames'[i].config = frames[i].config
      BY <2>1, <2>3, <2>4, AdvanceSeq
    <2>6. /\ m_cycle' \in Seq(Configs \X Beans) /\ Len(m_cycle') = n - 1
          /\ \A i \in 1 .. n - 1 : m_cycle'[i] = m_cycle[i]
      <3>. DEFINE C == Configs \X Beans
      <3>. HIDE DEF C
      <3>1. m_cycle \in Seq(C)
        BY <1>3 DEF C
      <3>2. /\ Pop(m_cycle) \in Seq(C) /\ Len(Pop(m_cycle)) = n - 1
            /\ \A i \in 1 .. n - 1 : Pop(m_cycle)[i] = m_cycle[i]
        BY <2>2, <3>1, PopSeq
      <3>. QED  BY <2>1, <3>2 DEF C
    <2>7. TypeOK'
      BY <1>1, <1>2, <2>5, <2>6 DEF ReturnFalse, TypeOK
    <2>8. frames' # <<>>
      BY <2>2, <2>5
    <2>9. SearchPath'
      <3>1. ASSUME NEW i \in 1 .. n - 1
            PROVE  /\ m_cycle'[i][1] = frames'[i].config
                   /\ Leads(Waits', m_beanSource',
                            m_cycle'[i][1], m_cycle'[i][2], frames'[i + 1].config)
        <4>1. i \in 1 .. n /\ i + 1 \in 1 .. n
          BY <2>2
        <4>2. m_cycle'[i] = m_cycle[i] /\ frames'[i].config = frames[i].config
              /\ frames'[i + 1].config = frames[i + 1].config
          BY <2>5, <2>6, <4>1
        <4>. QED  BY <1>1, <1>2, <4>1, <4>2 DEF SearchPath
      <3>2. \A i, j \in 1 .. n - 1 : m_cycle'[i] = m_cycle'[j] => i = j
        <4>1. \A i, j \in 1 .. n : m_cycle[i] = m_cycle[j] => i = j
          BY <1>1 DEF SearchPath
        <4>. QED  BY <2>2, <2>6, <4>1
      <3>3. Len(frames') = Len(m_cycle') + 1
        BY <2>2, <2>5, <2>6
      <3>. QED  BY <2>6, <3>1, <3>2, <3>3 DEF SearchPath
    <2>. QED  BY <1>1, <1>2, <2>7, <2>8, <2>9 DEF Inv, CycleIsReal, Quiet
  <1>. QED  BY <1>4, <1>5

\* The walk closes at its first repetition, and is cut to the circle.
LEMMA FollowSeenStep ==
    ASSUME Inv, FollowSeen
    PROVE  Inv'
  <1>1. TypeOK /\ SearchPath /\ Searching /\ HasResource /\ Seen
    BY DEF FollowSeen, Inv
  <1>2. /\ m_configResources' = m_configResources /\ m_beanSource' = m_beanSource
        /\ frames' = <<>> /\ result' = "cycle" /\ Names' = Names /\ Frame' = Frame /\ Waits' = Waits
    BY DEF FollowSeen, Names, Frame, Waits
  <1>. DEFINE C == Configs \X Beans
              n == Len(m_cycle)
              walk == Append(m_cycle, Compound)
  <1>3. Compound \in C /\ Compound[1] = Top.config
    BY <1>1, TopTypes DEF Compound
  <1>4. m_cycle \in Seq(C) /\ n \in Nat /\ Len(frames) = n + 1
    BY <1>1 DEF TypeOK, SearchPath
  <1>. HIDE DEF C
  <1>5. /\ walk \in Seq(C) /\ Len(walk) = n + 1 /\ walk[n + 1] = Compound
        /\ \A i \in 1 .. n : walk[i] = m_cycle[i]
    BY <1>3, <1>4
  <1>6. \A i \in 1 .. n : Leads(Waits, m_beanSource,
                                walk[i][1], walk[i][2], walk[i + 1][1])
    <2>. SUFFICES ASSUME NEW i \in 1 .. n
                  PROVE  Leads(Waits, m_beanSource,
                               walk[i][1], walk[i][2], walk[i + 1][1])
      OBVIOUS
    <2>1. Leads(Waits, m_beanSource, m_cycle[i][1], m_cycle[i][2], frames[i + 1].config)
      BY <1>1 DEF SearchPath
    <2>2. walk[i + 1][1] = frames[i + 1].config
      <3>1. CASE i + 1 \in 1 .. n
        BY <1>1, <1>5, <3>1 DEF SearchPath
      <3>2. CASE i = n
        BY <1>3, <1>4, <1>5, <3>2 DEF Top
      <3>. QED  BY <1>4, <3>1, <3>2
    <2>. QED  BY <1>5, <2>1, <2>2
  <1>7. \A i, j \in 1 .. n : walk[i] = walk[j] => i = j
    BY <1>1, <1>5 DEF SearchPath
  <1>. HIDE DEF walk
  <1>. DEFINE P(i) == /\ walk[i] = walk[Len(walk)]
                      /\ \A j \in 1 .. i - 1 : walk[j] # walk[Len(walk)]
              first == CHOOSE i \in 1 .. Len(walk) : P(i)
  <1>8. PICK i \in 1 .. n : walk[i] = walk[n + 1]
    BY <1>1, <1>5 DEF Seen
  <1>9. i \in 1 .. Len(walk) /\ P(i)
    BY <1>4, <1>5, <1>7, <1>8
  <1>10. first \in 1 .. Len(walk) /\ P(first)
    BY <1>9
  <1>11. first \in 1 .. n
    BY <1>4, <1>5, <1>8, <1>10
  <1>12. m_cycle' = SubSeq(walk, first, n + 1)
    BY <1>5 DEF FollowSeen, Minimized, walk
  <1>. DEFINE m == n - first + 2
  <1>13. /\ m_cycle' \in Seq(C) /\ Len(m_cycle') = m /\ m \in Nat /\ m >= 2
         /\ \A k \in 1 .. m : m_cycle'[k] = walk[first + k - 1]
    <2>. HIDE DEF first
    <2>1. \A k \in first .. n + 1 : walk[k] \in C
      BY <1>4, <1>5, <1>11, ElementOfSeq
    <2>2. first \in Int /\ n + 1 \in Int /\ first <= n
      BY <1>4, <1>11
    <2>3. /\ SubSeq(walk, first, n + 1) \in Seq(C)
          /\ Len(SubSeq(walk, first, n + 1)) = IF first <= n + 1 THEN n + 1 - first + 1 ELSE 0
          /\ \A k \in 1 .. n + 1 - first + 1 :
                 SubSeq(walk, first, n + 1)[k] = walk[first + k - 1]
      BY <2>1, <2>2, SubSeqProperties
    <2>4. n + 1 - first + 1 = m /\ m \in Nat /\ m >= 2 /\ first <= n + 1
      BY <1>4, <2>2
    <2>5. Len(SubSeq(walk, first, n + 1)) = m
      BY <2>3, <2>4
    <2>. QED  BY <1>12, <2>3, <2>4, <2>5
  <1>. HIDE DEF first
  <1>14. TypeOK'
    BY <1>1, <1>2, <1>13, EmptySeq DEF FollowSeen, TypeOK, C
  <1>15. ClosedWalk(Waits, m_beanSource, m_cycle')
    <2>1. m_cycle'[1] = walk[first] /\ m_cycle'[m] = walk[n + 1] /\ walk[first] = walk[n + 1]
      <3>1. 1 \in 1 .. m /\ m \in 1 .. m /\ first + 1 - 1 = first /\ first + m - 1 = n + 1
        BY <1>4, <1>11, <1>13
      <3>. QED  BY <1>5, <1>10, <1>13, <3>1
    <2>2. ASSUME NEW k \in 1 .. m - 1
          PROVE  Leads(Waits, m_beanSource,
                       m_cycle'[k][1], m_cycle'[k][2], m_cycle'[k + 1][1])
      <3>1. first + k - 1 \in 1 .. n /\ k \in 1 .. m /\ k + 1 \in 1 .. m
            /\ first + (k + 1) - 1 = first + k - 1 + 1
        BY <1>4, <1>11
      <3>2. m_cycle'[k] = walk[first + k - 1] /\ m_cycle'[k + 1] = walk[first + k - 1 + 1]
        BY <1>13, <3>1
      <3>. QED  BY <1>6, <3>1, <3>2
    <2>. QED  BY <1>13, <2>1, <2>2 DEF ClosedWalk
  <1>16. \A k, l \in 1 .. Len(m_cycle') - 1 : m_cycle'[k] = m_cycle'[l] => k = l
    <2>. SUFFICES ASSUME NEW k \in 1 .. m - 1, NEW l \in 1 .. m - 1, m_cycle'[k] = m_cycle'[l]
                  PROVE  k = l
      <3>1. Len(m_cycle') - 1 = m - 1
        BY <1>13
      <3>. QED  BY <3>1
    <2>1. first + k - 1 \in 1 .. n /\ first + l - 1 \in 1 .. n /\ k \in 1 .. m /\ l \in 1 .. m
      BY <1>4, <1>11
    <2>2. walk[first + k - 1] = walk[first + l - 1]
      BY <1>13, <2>1
    <2>3. first + k - 1 = first + l - 1
      BY <1>7, <2>1, <2>2
    <2>. QED  BY <1>11, <2>3
  <1>17. CycleIsReal'
    BY <1>2, <1>15, <1>16 DEF CycleIsReal
  <1>. QED  BY <1>2, <1>14, <1>17 DEF Inv, SearchPath, Searching, Quiet

\* All steps together.
LEMMA Invariance == Spec => []Inv
  <1>1. Inv /\ UNCHANGED vars => Inv'
    <2>1. UNCHANGED vars => UNCHANGED <<Names, Waits, Frame>>
      BY DEF vars, Names, Waits, Frame
    <2>. QED  BY <2>1 DEF Inv, TypeOK, SearchPath, CycleIsReal, Quiet, vars, Searching
  <1>2. Inv /\ Next => Inv'
    BY AddStep, CheckConfigStep, CheckDoneStep, FollowSeenStep, FollowSourceStep,
       FollowNowhereStep, ReturnFalseStep DEF Next, checkForCycle
  <1>. QED  BY InvInit, <1>1, <1>2, PTL DEF Spec

-----------------------------------------------------------------------------
(* No cycle is missed.  Let S be any circle: configurations each of which    *)
(* waits for something that one of them is to provide.  The loop over the    *)
(* resources of a member of S cannot get to its end: it would have to pass a *)
(* resource that leads to a member of S, whose own loop would have ended.    *)

Circle(S) ==
    /\ S \subseteq Names /\ S # {}
    /\ \A c \in S : \E d \in S, r \in DOMAIN m_beanSource : Leads(Waits, m_beanSource, c, r, d)

\* Position j in the list of configuration c leads to a member of S.
LeadsInto(c, j, S) ==
    /\ j \in 1 .. Len(m_configResources[c])
    /\ m_configResources[c][j] \in DOMAIN m_beanSource
    /\ m_beanSource[m_configResources[c][j]] \in S

\* A call for a member of S has a way into S yet to try.
Ahead(f, S) == \E j \in Nat : f.next <= j /\ LeadsInto(f.config, j, S)

\* Each call is made for the resource that its caller's loop is at.
CalledFor ==
    Searching =>
        \A i \in 1 .. Len(m_cycle) :
            m_configResources[frames[i].config][frames[i].next] = m_cycle[i][2]

\* The search that is on began at current.
StartedAt ==
    /\ result = "adding" => current = 0
    /\ Searching => frames[1].config = current

\* No member of a circle has been dealt with, in the loop of checkForCycle or
\* in that of a call.
Untouched(S) ==
    /\ result \in {"adding", "searching"} =>
           \A c \in S : current <= c /\ (frames = <<>> => c # current)
    /\ Searching => \A i \in 1 .. Len(frames) : frames[i].config \in S => Ahead(frames[i], S)

CircleInv ==
    /\ CalledFor /\ StartedAt
    /\ \A S \in SUBSET Names : Circle(S) => Untouched(S)
    /\ NoCycleMissed

\* A circle has a way on from each of its members.
LEMMA CircleLeads ==
    ASSUME TypeOK, NEW S, Circle(S), NEW c \in S
    PROVE  c \in Names /\ \E j \in Nat : 1 <= j /\ LeadsInto(c, j, S)
  <1>1. PICK d \in S, r \in DOMAIN m_beanSource : Leads(Waits, m_beanSource, c, r, d)
    BY DEF Circle
  <1>2. c \in Names /\ r \in Waits[c] /\ m_beanSource[r] = d
    BY <1>1 DEF Leads, Waits
  <1>3. PICK j \in 1 .. Len(m_configResources[c]) : m_configResources[c][j] = r
    BY <1>2 DEF Waits
  <1>4. Len(m_configResources[c]) \in Nat
    BY <1>2, LenProperties DEF TypeOK
  <1>. QED  BY <1>1, <1>2, <1>3, <1>4 DEF LeadsInto

\* A loop at its end does not belong to a member of a circle.
LEMMA EndedOutside ==
    ASSUME TypeOK, Searching, ~HasResource, NEW S, Ahead(Top, S)
    PROVE  FALSE
  <1>1. PICK j \in Nat : Top.next <= j /\ LeadsInto(Top.config, j, S)
    BY DEF Ahead
  <1>2. j <= Len(m_configResources[Top.config]) /\ Top.next \in Nat /\ Top.config \in Names
    BY <1>1, TopTypes DEF LeadsInto
  <1>3. Len(m_configResources[Top.config]) \in Nat
    BY <1>2, LenProperties DEF TypeOK
  <1>. QED  BY <1>1, <1>2, <1>3 DEF HasResource

\* Nothing has been added at first.
LEMMA CircleInit == Init => CircleInv
  BY DEF Init, CircleInv, CalledFor, StartedAt, Circle, NoCycleMissed, Searching, Names

\* add: no search has begun.
LEMMA CircleAdd ==
    ASSUME Inv, TypeOK', CircleInv, NEW name \in Configs, NEW resources \in Resources,
           NEW beans \in SUBSET Beans, Add(name, resources, beans)
    PROVE  CircleInv'
  <1>1. result' = "adding" /\ current' = 0 /\ frames' = <<>>
    BY DEF Add, Inv, Quiet, CircleInv, StartedAt
  <1>2. \A S \in SUBSET Names' : \A c \in S : c \in Nat \ {0}
    BY CheckerAssumption DEF TypeOK, Configs
  <1>3. \A S \in SUBSET Names' : Untouched(S)'
    BY <1>1, <1>2 DEF Untouched, Searching
  <1>. QED  BY <1>1, <1>3 DEF CircleInv, CalledFor, StartedAt, Searching, NoCycleMissed

\* The search begins at the next configuration, at the head of its list.
LEMMA CircleCheckConfig ==
    ASSUME Inv, CircleInv, NEW c \in Configs, CheckConfig(c)
    PROVE  CircleInv'
  <1>1. TypeOK /\ m_cycle = <<>> /\ frames = <<>> /\ result \in {"adding", "searching"}
    BY DEF CheckConfig, Inv, Quiet
  <1>2. /\ UNCHANGED <<m_configResources, m_beanSource, m_cycle>> /\ Names' = Names /\ Waits' = Waits
        /\ current' = c /\ frames' = <<[config |-> c, next |-> 1]>> /\ result' = "searching"
    BY DEF CheckConfig, Names, Waits
  <1>3. /\ Len(frames') = 1 /\ frames'[1].config = c /\ frames'[1].next = 1 /\ Len(m_cycle') = 0
    BY <1>1, <1>2
  <1>4. ASSUME NEW S \in SUBSET Names', Circle(S)'
        PROVE  Untouched(S)'
    <2>1. Circle(S)
      BY <1>2, <1>4 DEF Circle
    <2>2. \A d \in S : current <= d /\ d # current
      BY <1>1, <1>2, <2>1 DEF CircleInv, Untouched
    <2>3. \A d \in S : c <= d
      <3>1. \A d \in S : d \in Nat /\ current \in Nat /\ d \in Names
        BY <1>1, <1>2, CheckerAssumption DEF TypeOK, Configs
      <3>2. \A d \in S : d \in Remaining
        BY <2>2, <3>1 DEF Remaining
      <3>. QED  BY <3>2 DEF CheckConfig
    <2>4. c \in S => Ahead(frames[1], S)'
      <3>1. c \in S => \E j \in Nat : 1 <= j /\ LeadsInto(c, j, S)
        BY <1>1, <2>1, CircleLeads
      <3>. QED  BY <1>2, <1>3, <3>1 DEF Ahead, LeadsInto
    <2>5. frames' # <<>>
      BY <1>3
    <2>. QED  BY <1>2, <1>3, <2>3, <2>4, <2>5 DEF Untouched
  <1>5. CalledFor' /\ StartedAt'
    BY <1>2, <1>3 DEF CalledFor, StartedAt
  <1>. QED  BY <1>2, <1>4, <1>5 DEF CircleInv, NoCycleMissed

\* When the loop of checkForCycle is through there is no circle left to be.
LEMMA CircleCheckDone == ASSUME Inv, CircleInv, CheckDone PROVE CircleInv'
  <1>1. /\ TypeOK /\ frames = <<>> /\ frames' = <<>> /\ result' = "none" /\ Remaining = {}
        /\ result \in {"adding", "searching"} /\ Names' = Names /\ Waits' = Waits
        /\ UNCHANGED <<m_configResources, m_beanSource>>
    BY DEF CheckDone, Inv, Names, Waits
  <1>2. ASSUME NEW S \in SUBSET Names, Circle(S) PROVE FALSE
    <2>1. PICK c \in S : TRUE
      BY <1>2 DEF Circle
    <2>2. c \in Names /\ c \in Nat /\ current \in Nat
      BY <1>1, <2>1, CheckerAssumption DEF TypeOK, Configs
    <2>3. current <= c /\ c # current
      BY <1>1, <1>2, <2>1 DEF CircleInv, Untouched
    <2>4. c \in Remaining
      BY <2>2, <2>3 DEF Remaining
    <2>. QED  BY <1>1, <2>4
  <1>3. NoCycleMissed'
    <2>1. DOMAIN Waits = Names
      BY DEF Waits
    <2>. QED  BY <1>1, <1>2, <2>1 DEF NoCycleMissed, HasCycle, Circle
  <1>4. \A S \in SUBSET Names' : Untouched(S)'
    BY <1>1 DEF Untouched, Searching
  <1>. QED  BY <1>1, <1>3, <1>4 DEF CircleInv, CalledFor, StartedAt, Searching

\* The search has found something: nothing is claimed of it.
LEMMA CircleFollowSeen == ASSUME Inv, CircleInv, FollowSeen PROVE CircleInv'
  <1>1. frames' = <<>> /\ result' = "cycle"
    BY DEF FollowSeen
  <1>2. \A S \in SUBSET Names' : Untouched(S)'
    BY <1>1 DEF Untouched, Searching
  <1>. QED  BY <1>1, <1>2 DEF CircleInv, CalledFor, StartedAt, Searching, NoCycleMissed

\* A loop that passes a resource which does not lead into S loses no way.
LEMMA StillAhead ==
    ASSUME NEW S, NEW f, NEW g, f.next \in Nat, g.config = f.config, g.next = f.next + 1,
           Ahead(f, S), ~LeadsInto(f.config, f.next, S)
    PROVE  Ahead(g, S)
  <1>1. PICK j \in Nat : f.next <= j /\ LeadsInto(f.config, j, S)
    BY DEF Ahead
  <1>2. j # f.next
    BY <1>1
  <1>3. g.next <= j
    BY <1>1, <1>2
  <1>. QED  BY <1>1, <1>3 DEF Ahead

\* Nobody among the configurations provides the resource that is passed.
LEMMA CircleFollowNowhere == ASSUME Inv, CircleInv, FollowNowhere PROVE CircleInv'
  <1>1. TypeOK /\ SearchPath /\ Searching /\ HasResource /\ ~Provided /\ result = "searching"
    BY DEF FollowNowhere, Inv, Searching
  <1>2. /\ UNCHANGED <<m_configResources, m_beanSource, m_cycle, current, result>>
        /\ Names' = Names /\ Waits' = Waits /\ frames' = Advance(frames)
    BY DEF FollowNowhere, Names, Waits
  <1>. DEFINE n == Len(frames)
  <1>3. /\ frames \in Seq(Frame) /\ frames # <<>> /\ n \in Nat \ {0} /\ n = Len(m_cycle) + 1
        /\ Len(m_cycle) \in Nat /\ Top = frames[n] /\ Top.next \in Nat
    BY <1>1, TopTypes, LenProperties DEF TypeOK, SearchPath, Searching, Top
  <1>4. /\ Len(frames') = n /\ \A i \in 1 .. n : frames'[i].config = frames[i].config
        /\ \A i \in 1 .. n - 1 : frames'[i].next = frames[i].next
        /\ frames'[n].next = frames[n].next + 1
    BY <1>2, <1>3, AdvanceSeq
  <1>5. frames' # <<>> /\ Searching'
    BY <1>1, <1>2, <1>3, <1>4 DEF Searching
  <1>6. ASSUME NEW S \in SUBSET Names', Circle(S)'
        PROVE  Untouched(S)'
    <2>1. Circle(S) /\ Untouched(S)
      BY <1>2, <1>6 DEF Circle, CircleInv
    <2>2. ASSUME NEW i \in 1 .. n, frames'[i].config \in S
          PROVE  Ahead(frames[i], S)'
      <3>1. Ahead(frames[i], S)
        BY <1>1, <1>4, <2>1, <2>2 DEF Untouched
      <3>2. CASE i = n
        <4>1. ~LeadsInto(Top.config, Top.next, S)
          BY <1>1, <1>2 DEF LeadsInto, Provided, Resource
        <4>2. Ahead(frames'[n], S)
          BY <1>3, <1>4, <3>1, <3>2, <4>1, StillAhead
        <4>. QED  BY <1>2, <3>2, <4>2 DEF Ahead, LeadsInto
      <3>3. CASE i \in 1 .. n - 1
        BY <1>2, <1>4, <3>1, <3>3 DEF Ahead, LeadsInto
      <3>. QED  BY <1>3, <3>2, <3>3
    <2>. QED  BY <1>1, <1>2, <1>4, <1>5, <2>1, <2>2 DEF Untouched, Searching
  <1>7. CalledFor'
    <2>1. \A i \in 1 .. Len(m_cycle) : i \in 1 .. n - 1 /\ i \in 1 .. n
      BY <1>3
    <2>. QED  BY <1>1, <1>2, <1>4, <2>1 DEF CircleInv, CalledFor
  <1>8. StartedAt'
    <2>1. 1 \in 1 .. n
      BY <1>3
    <2>. QED  BY <1>1, <1>2, <1>4, <2>1 DEF CircleInv, StartedAt
  <1>. QED  BY <1>1, <1>2, <1>6, <1>7, <1>8 DEF CircleInv, NoCycleMissed

\* The call for the provider of the resource begins at the head of its list.
LEMMA CircleFollowSource == ASSUME Inv, CircleInv, FollowSource PROVE CircleInv'
  <1>1. TypeOK /\ SearchPath /\ Searching /\ HasResource /\ Provided /\ result = "searching"
    BY DEF FollowSource, Inv, Searching
  <1>. DEFINE d == m_beanSource[Resource]
              f == [config |-> d, next |-> 1]
              n == Len(m_cycle)
              C == Configs \X Beans
  <1>2. /\ UNCHANGED <<m_configResources, m_beanSource, current, result>>
        /\ Names' = Names /\ Waits' = Waits
        /\ frames' = Append(frames, f) /\ m_cycle' = Append(m_cycle, Compound)
    BY DEF FollowSource, Names, Waits
  <1>3. f \in Frame /\ f.config = d /\ f.next = 1
    BY <1>1 DEF Frame, Provided
  <1>4. Compound \in C /\ Compound[2] = m_configResources[Top.config][Top.next]
    BY <1>1, TopTypes DEF Compound, Resource
  <1>5. /\ frames \in Seq(Frame) /\ n \in Nat /\ Len(frames) = n + 1 /\ Top = frames[n + 1]
        /\ m_cycle \in Seq(C)
    BY <1>1, LenProperties DEF TypeOK, SearchPath, Top
  <1>. HIDE DEF f, C
  <1>6. /\ Len(frames') = n + 2 /\ frames'[n + 2] = f
        /\ \A i \in 1 .. n + 1 : frames'[i] = frames[i]
    BY <1>2, <1>3, <1>5
  <1>7. /\ Len(m_cycle') = n + 1 /\ m_cycle'[n + 1] = Compound
        /\ \A i \in 1 .. n : m_cycle'[i] = m_cycle[i]
    BY <1>2, <1>4, <1>5
  <1>8. frames' # <<>> /\ Searching'
    BY <1>1, <1>2, <1>5, <1>6 DEF Searching
  <1>9. ASSUME NEW S \in SUBSET Names', Circle(S)'
        PROVE  Untouched(S)'
    <2>1. Circle(S) /\ Untouched(S)
      BY <1>2, <1>9 DEF Circle, CircleInv
    <2>2. ASSUME NEW i \in 1 .. n + 2, frames'[i].config \in S
          PROVE  Ahead(frames[i], S)'
      <3>1. CASE i = n + 2
        <4>1. \E j \in Nat : 1 <= j /\ LeadsInto(d, j, S)
          BY <1>1, <1>3, <1>6, <2>1, <2>2, <3>1, CircleLeads
        <4>. QED  BY <1>2, <1>3, <1>6, <3>1, <4>1 DEF Ahead, LeadsInto
      <3>2. CASE i \in 1 .. n + 1
        <4>1. Ahead(frames[i], S)
          BY <1>1, <1>5, <1>6, <2>1, <2>2, <3>2 DEF Untouched
        <4>. QED  BY <1>2, <1>6, <3>2, <4>1 DEF Ahead, LeadsInto
      <3>. QED  BY <1>5, <3>1, <3>2
    <2>. QED  BY <1>1, <1>2, <1>6, <1>8, <2>1, <2>2 DEF Untouched, Searching
  <1>10. ASSUME NEW i \in 1 .. n + 1
         PROVE  m_configResources'[frames'[i].config][frames'[i].next] = m_cycle'[i][2]
    <2>1. CASE i = n + 1
      BY <1>2, <1>4, <1>5, <1>6, <1>7, <2>1
    <2>2. CASE i \in 1 .. n
      BY <1>1, <1>2, <1>5, <1>6, <1>7, <2>2 DEF CircleInv, CalledFor
    <2>. QED  BY <1>5, <2>1, <2>2
  <1>11. CalledFor'
    BY <1>7, <1>10 DEF CalledFor
  <1>12. StartedAt'
    <2>1. 1 \in 1 .. n + 1
      BY <1>5
    <2>. QED  BY <1>1, <1>2, <1>6, <2>1 DEF CircleInv, StartedAt
  <1>. QED  BY <1>1, <1>2, <1>9, <1>11, <1>12 DEF CircleInv, NoCycleMissed

\* A call that returns false was for no member of a circle, so what its caller
\* passes does not lead into one.
LEMMA CircleReturnFalse == ASSUME Inv, CircleInv, ReturnFalse PROVE CircleInv'
  <1>1. TypeOK /\ SearchPath /\ Searching /\ ~HasResource /\ result = "searching"
    BY DEF ReturnFalse, Inv, Searching
  <1>2. /\ UNCHANGED <<m_configResources, m_beanSource, current, result>>
        /\ Names' = Names /\ Waits' = Waits
    BY DEF ReturnFalse, Names, Waits
  <1>. DEFINE n == Len(m_cycle)
  <1>3. /\ frames \in Seq(Frame) /\ frames # <<>> /\ n \in Nat /\ Len(frames) = n + 1
        /\ Top = frames[n + 1] /\ m_cycle \in Seq(Configs \X Beans)
    BY <1>1, LenProperties DEF TypeOK, SearchPath, Searching, Top
  <1>4. ASSUME NEW S \in SUBSET Names, Circle(S)
        PROVE  Untouched(S) /\ Top.config \notin S
    <2>1. Untouched(S)
      BY <1>4 DEF CircleInv
    <2>2. Top.config \in S => Ahead(Top, S)
      BY <1>1, <1>3, <2>1 DEF Untouched
    <2>. QED  BY <1>1, <2>1, <2>2, EndedOutside
  <1>5. CASE n = 0
    <2>1. frames' = <<>> /\ m_cycle' = m_cycle /\ Top.config = current
      BY <1>1, <1>3, <1>5 DEF ReturnFalse, CircleInv, StartedAt
    <2>2. ASSUME NEW S \in SUBSET Names', Circle(S)'
          PROVE  Untouched(S)'
      <3>1. Circle(S)
        BY <1>2, <2>2 DEF Circle
      <3>2. Untouched(S) /\ current \notin S
        BY <1>2, <1>4, <2>1, <3>1
      <3>. QED  BY <1>1, <1>2, <2>1, <3>2 DEF Untouched, Searching
    <2>. QED  BY <1>1, <1>2, <2>1, <2>2 DEF CircleInv, CalledFor, StartedAt, Searching, NoCycleMissed
  <1>6. CASE n # 0
    <2>1. frames' = Advance(Pop(frames)) /\ m_cycle' = Pop(m_cycle)
      BY <1>3, <1>6 DEF ReturnFalse
    <2>2. n \in Nat \ {0} /\ Len(frames) - 1 = n /\ m_cycle # <<>>
      BY <1>3, <1>6
    <2>3. /\ Pop(frames) \in Seq(Frame) /\ Len(Pop(frames)) = n /\ Pop(frames) # <<>>
          /\ \A i \in 1 .. n : Pop(frames)[i] = frames[i]
      <3>1. /\ Pop(frames) \in Seq(Frame) /\ Len(Pop(frames)) = n
            /\ \A i \in 1 .. n : Pop(frames)[i] = frames[i]
        BY <1>3, <2>2, PopSeq
      <3>. QED  BY <2>2, <3>1
    <2>4. /\ Len(frames') = n /\ \A i \in 1 .. n : frames'[i].config = frames[i].config
          /\ \A i \in 1 .. n - 1 : frames'[i].next = frames[i].next
          /\ frames'[n].next = frames[n].next + 1
      <3>1. /\ Len(frames') = n /\ \A i \in 1 .. n : frames'[i].config = Pop(frames)[i].config
            /\ \A i \in 1 .. n - 1 : frames'[i].next = Pop(frames)[i].next
            /\ frames'[n].next = Pop(frames)[n].next + 1
        BY <2>1, <2>3, AdvanceSeq
      <3>2. n \in 1 .. n /\ \A i \in 1 .. n - 1 : i \in 1 .. n
        BY <2>2
      <3>. QED  BY <2>3, <3>1, <3>2
    <2>5. Len(m_cycle') = n - 1 /\ \A i \in 1 .. n - 1 : m_cycle'[i] = m_cycle[i]
      <3>. DEFINE C == Configs \X Beans
      <3>. HIDE DEF C
      <3>1. m_cycle \in Seq(C)
        BY <1>3 DEF C
      <3>. QED  BY <2>1, <2>2, <3>1, PopSeq
    <2>6. frames' # <<>> /\ Searching'
      BY <1>1, <1>2, <2>2, <2>4 DEF Searching
    <2>7. /\ n \in 1 .. n /\ n \in 1 .. Len(frames) /\ frames[n] \in Frame /\ frames[n].next \in Nat
      <3>1. n \in 1 .. n /\ n \in 1 .. Len(frames)
        BY <1>3, <2>2
      <3>2. frames[n] \in Frame
        BY <1>3, <3>1, ElementOfSeq
      <3>. QED  BY <3>1, <3>2 DEF Frame
    <2>8. ASSUME NEW S \in SUBSET Names', Circle(S)'
          PROVE  Untouched(S)'
      <3>1. Circle(S) /\ Untouched(S) /\ Top.config \notin S
        <4>1. Circle(S)
          BY <1>2, <2>8 DEF Circle
        <4>. QED  BY <1>2, <1>4, <4>1
      <3>2. ASSUME NEW i \in 1 .. n, frames'[i].config \in S
            PROVE  Ahead(frames[i], S)'
        <4>1. Ahead(frames[i], S)
          <5>1. i \in 1 .. Len(frames)
            BY <1>3
          <5>. QED  BY <1>1, <2>4, <3>1, <3>2, <5>1 DEF Untouched
        <4>2. CASE i = n
          <5>1. /\ m_configResources[frames[n].config][frames[n].next] = m_cycle[n][2]
                /\ m_beanSource[m_cycle[n][2]] = Top.config
            BY <1>1, <1>3, <2>7 DEF CircleInv, CalledFor, SearchPath, Leads
          <5>2. ~LeadsInto(frames[n].config, frames[n].next, S)
            BY <3>1, <5>1 DEF LeadsInto
          <5>3. Ahead(frames'[n], S)
            BY <2>4, <2>7, <4>1, <4>2, <5>2, StillAhead
          <5>. QED  BY <1>2, <4>2, <5>3 DEF Ahead, LeadsInto
        <4>3. CASE i \in 1 .. n - 1
          BY <1>2, <2>4, <4>1, <4>3 DEF Ahead, LeadsInto
        <4>. QED  BY <2>2, <4>2, <4>3
      <3>. QED  BY <1>1, <1>2, <2>4, <2>6, <3>1, <3>2 DEF Untouched, Searching
    <2>9. CalledFor'
      <3>1. \A i \in 1 .. n - 1 : i \in 1 .. n
        BY <2>2
      <3>. QED  BY <1>1, <1>2, <2>4, <2>5, <3>1 DEF CircleInv, CalledFor
    <2>10. StartedAt'
      <3>1. 1 \in 1 .. n
        BY <2>2
      <3>. QED  BY <1>1, <1>2, <2>4, <3>1 DEF CircleInv, StartedAt
    <2>. QED  BY <1>1, <1>2, <2>8, <2>9, <2>10 DEF CircleInv, NoCycleMissed
  <1>. QED  BY <1>5, <1>6

\* All steps together.
LEMMA CircleInvariance == Spec => [](Inv /\ CircleInv)
  <1>1. Inv /\ CircleInv /\ UNCHANGED vars => CircleInv'
    <2>. SUFFICES ASSUME Inv, CircleInv, UNCHANGED vars PROVE CircleInv'
      OBVIOUS
    <2>1. /\ UNCHANGED <<m_configResources, m_beanSource, m_cycle, frames, current, result>>
          /\ UNCHANGED <<Names, Waits>>
      BY DEF vars, Names, Waits
    <2>2. \A S : (Circle(S) <=> Circle(S)') /\ (Untouched(S) <=> Untouched(S)')
      BY <2>1 DEF Circle, Untouched, Searching, Ahead, LeadsInto
    <2>. QED  BY <2>1, <2>2 DEF CircleInv, CalledFor, StartedAt, NoCycleMissed, Searching
  <1>2. Inv /\ Inv' /\ CircleInv /\ Next => CircleInv'
    BY CircleAdd, CircleCheckConfig, CircleCheckDone, CircleFollowSeen, CircleFollowSource,
       CircleFollowNowhere, CircleReturnFalse DEF Next, checkForCycle, Inv
  <1>. QED  BY CircleInit, Invariance, <1>1, <1>2, PTL DEF Spec

\* The type invariant of the checker.
THEOREM TypeCorrect == Spec => []TypeOK
  BY Invariance, PTL DEF Inv

\* The search walks along dependencies and never takes a step twice
\* (checkAllResources, followResource).
THEOREM SearchesPaths == Spec => []SearchPath
  BY Invariance, PTL DEF Inv

\* A cycle that is reported is one, and minimal (checkForCycle, minimizeCycle).
THEOREM ReportedCycleIsReal == Spec => []CycleIsReal
  BY Invariance, PTL DEF Inv

\* checkForCycle() returns false only if no configurations wait for each other
\* in a circle, although the search marks nothing (checkAllResources).
THEOREM CyclesAreFound == Spec => []NoCycleMissed
  BY CircleInvariance, PTL DEF CircleInv

\* The answer of a search that has ended.
ExactAnswer ==
    result \in {"cycle", "none"} => (result = "cycle") = HasCycle(Waits, m_beanSource)

\* checkForCycle() returns true iff there is a circle: what Context assumes of
\* the checker when it chooses its exception (Context.cpp, checkForCycle).
THEOREM AnswerIsExact == Spec => []ExactAnswer
  <1>1. ASSUME TypeOK, CycleIsReal, NoCycleMissed PROVE ExactAnswer
    <2>1. ASSUME result = "cycle" PROVE HasCycle(Waits, m_beanSource)
      <3>. DEFINE n == Len(m_cycle)
                  S == {m_cycle[i][1] : i \in 1 .. n - 1}
      <3>1. /\ n \in Nat /\ n >= 2 /\ m_cycle[1] = m_cycle[n]
            /\ \A i \in 1 .. n - 1 : Leads(Waits, m_beanSource,
                                            m_cycle[i][1], m_cycle[i][2], m_cycle[i + 1][1])
        BY <1>1, <2>1, LenProperties DEF TypeOK, CycleIsReal, ClosedWalk
      <3>2. S \subseteq DOMAIN Waits
        BY <3>1 DEF Leads
      <3>3. S # {}
        <4>1. 1 \in 1 .. n - 1
          BY <3>1
        <4>. QED  BY <4>1
      <3>4. ASSUME NEW i \in 1 .. n - 1
            PROVE  \E d \in S, r \in DOMAIN m_beanSource :
                       Leads(Waits, m_beanSource, m_cycle[i][1], r, d)
        <4>1. m_cycle[i + 1][1] \in S
          <5>1. CASE i + 1 \in 1 .. n - 1
            BY <5>1
          <5>2. CASE i + 1 = n
            <6>1. 1 \in 1 .. n - 1
              BY <3>1
            <6>. QED  BY <3>1, <5>2, <6>1
          <5>. QED  BY <3>1, <5>1, <5>2
        <4>2. m_cycle[i][2] \in DOMAIN m_beanSource
          BY <3>1 DEF Leads
        <4>. QED  BY <3>1, <4>1, <4>2
      <3>5. \A c \in S : \E d \in S, r \in DOMAIN m_beanSource : Leads(Waits, m_beanSource, c, r, d)
        BY <3>4
      <3>. HIDE DEF S
      <3>. QED  BY <3>2, <3>3, <3>5 DEF HasCycle
    <2>. QED  BY <1>1, <2>1 DEF ExactAnswer, NoCycleMissed, HasCycle
  <1>. QED  BY <1>1, CircleInvariance, PTL DEF Inv, CircleInv
=============================================================================
