--------------------------- MODULE LocalBusProofs ---------------------------
(***************************************************************************)
(* Proofs about LocalBus: its table is exact, a routing that ends has      *)
(* called its recipients once, and which misuse alone makes it undefined.  *)
(*                                                                         *)
(* The order of instances carries the argument: a connection has a fixed   *)
(* address, so whoever leaves and comes back returns to the same place of  *)
(* the table, before an iterator that has passed it.                       *)
(***************************************************************************)
EXTENDS LocalBus, SequenceTheorems, FiniteSetTheorems, TLAPS

-----------------------------------------------------------------------------
(* The invariant.                                                          *)

Frame ==
    [sender : Conns, packet : Packets, phase : {"test", "call", "advance"},
     it : Conns \cup {End, Dangling}, end : Conns \cup {End, Dangling},
     at : Nat, copy : Seq(Conns),
     to : Conns \cup {NoOne}, left : Seq(Listeners), stale : BOOLEAN,
     expected : SUBSET (Conns \X Listeners), got : Seq(Conns \X Listeners),
     touched : SUBSET (Conns \X Listeners), erased : SUBSET Conns]

TypeInv ==
    /\ m_connected \subseteq Conns
    /\ m_connections \in [Types -> Seq(Conns)]
    /\ stack \in Seq(Frame)
    /\ finished \in Frame \cup {NoFrame}
    /\ m_msgListeners \in [Conns -> Seq(Listeners)]
    /\ wanted \in [Conns -> [Listeners -> Nat]]
    /\ doubled \subseteq Conns

Sorted(s) == \A i, j \in 1 .. Len(s) : i < j => Instance[s[i]] < Instance[s[j]]
Distinct(s) == \A i, j \in 1 .. Len(s) : s[i] = s[j] => i = j

\* The table: sorted, and each type has exactly its connections.
TableInv ==
    \A t \in Types :
        /\ Sorted(m_connections[t])
        /\ \A c \in Conns : Contains(m_connections[t], c) <=> c \in m_connected /\ Type[c] = t

\* The vector of listeners, while none was there twice: what is wanted.
ListenInv ==
    \A c \in Conns \ doubled :
        /\ Distinct(m_msgListeners[c])
        /\ \A l \in Listeners : wanted[c][l] = IF Contains(m_msgListeners[c], l) THEN 1 ELSE 0

\* Only the innermost routing moves: the others are in a call.
NestingInv == \A i \in 1 .. Len(stack) - 1 : stack[i].phase = "call"

\* The loop over the listeners.
CallInv(f) ==
    /\ f.phase = "call" => f.to \in Conns /\ f.left # <<>>
    /\ f.phase # "call" => f.to = NoOne /\ f.left = <<>> /\ ~f.stale
    /\ f.stale => \E l \in Listeners : <<f.to, l>> \in f.touched
    /\ f.to \in Conns => f.to # f.sender /\ f.packet.message \in Known[f.to]

\* The iterators of an addressed routing.
WalkInv(f, connected) ==
    LET t == f.packet.type
        Live == {c \in connected : Type[c] = t} IN
    ~isTypeBroadcast(f.packet) =>
        /\ f.it \in Live \cup {End, Dangling} /\ f.end \in Live \cup {End, Dangling}
        /\ f.phase = "test" => f.it # Dangling
        /\ f.phase # "test" => f.it # End
        /\ f.phase = "call" => f.it \in {f.to, Dangling}
        /\ f.it = Dangling \/ f.end = Dangling => \E c \in f.erased : Type[c] = t
        /\ f.it # Dangling /\ f.end # Dangling =>
              /\ f.it = End => f.end = End
              /\ f.it # End /\ f.end # End => Instance[f.it] <= Instance[f.end]
              /\ f.phase # "test" => f.it # f.end

Rest(f) == {i \in 1 .. Len(f.copy) : f.phase = "test" \/ i > 1}

\* The copy of a broadcast.
CopyInv(f, connected) ==
    /\ Sorted(f.copy)
    /\ \A i \in 1 .. Len(f.copy) :
          /\ Type[f.copy[i]] = f.at
          /\ \A l \in Listeners : <<f.copy[i], l>> \notin f.touched => f.copy[i] \in connected
    /\ isTypeBroadcast(f.packet) =>
          /\ f.phase # "test" => f.copy # <<>>
          /\ f.phase = "call" => f.to = f.copy[1]
          /\ isInstanceBroadcast(f.packet)
             \/ \A i \in 1 .. Len(f.copy) : Instance[f.copy[i]] = f.packet.instance

\* The recipients of the packet, by address and MessageFactory.
Target(f, c) ==
    /\ c # f.sender
    /\ isTypeBroadcast(f.packet) \/ Type[c] = f.packet.type
    /\ isInstanceBroadcast(f.packet) \/ Instance[c] = f.packet.instance
    /\ f.packet.message \in Known[c]

SentInv(f, connected, want) ==
    \A c \in Conns, l \in Listeners :
        <<c, l>> \notin f.touched =>
            (<<c, l>> \in f.expected <=> c \in connected /\ Target(f, c) /\ want[c][l] > 0)

\* The range of an addressed routing holds the recipients, and who came later.
RangeInv(f, connected) ==
    ~isTypeBroadcast(f.packet) /\ f.it # Dangling /\ f.end # Dangling =>
        /\ isInstanceBroadcast(f.packet) => f.end = End
        /\ ~isInstanceBroadcast(f.packet) =>
              /\ f.end # End => Instance[f.end] > f.packet.instance
              /\ f.it # End => Instance[f.it] >= f.packet.instance
              /\ \A c \in connected, l \in Listeners :
                    /\ <<c, l>> \notin f.touched /\ Type[c] = f.packet.type
                    /\ Instance[c] > f.packet.instance
                    => f.end # End /\ Instance[f.end] <= Instance[c]

\* The routing has gone past c, or is at c and has begun to call it.
Passed(f, c) ==
    IF isTypeBroadcast(f.packet)
      THEN Type[c] <= f.at /\ \A i \in Rest(f) : f.copy[i] # c
      ELSE \/ f.it = End
           \/ Instance[c] < Instance[f.it]
           \/ f.phase # "test" /\ Instance[c] <= Instance[f.it]

\* The listener is still to be called in the loop over those of c.
Waits(f, c, l) == f.to = c /\ \E i \in 2 .. Len(f.left) : f.left[i] = l

\* The routing can still run to its end.
Sound(f) ==
    ~f.stale /\ (~isTypeBroadcast(f.packet) => f.it # Dangling /\ f.end # Dangling)

\* What the routing has done and has still to do for a listener of c.
CallOf(f, c, l) ==
    LET called == Contains(f.got, <<c, l>>) IN
    /\ \A i, j \in 1 .. Len(f.got) : f.got[i] = <<c, l>> /\ f.got[j] = <<c, l>> => i = j
    /\ f.to = c => Passed(f, c) /\ Distinct(f.left)
    /\ called => Passed(f, c) /\ ~Waits(f, c, l)
    /\ <<c, l>> \notin f.touched =>
          /\ <<c, l>> \in f.expected => called \/ Waits(f, c, l) \/ ~Passed(f, c)
          /\ called \/ Waits(f, c, l) => <<c, l>> \in f.expected

CallsInv(f, dbl) == Sound(f) => \A c \in Conns \ dbl, l \in Listeners : CallOf(f, c, l)

FrameInv(f, connected, want, dbl) ==
    /\ CallInv(f) /\ WalkInv(f, connected) /\ CopyInv(f, connected)
    /\ SentInv(f, connected, want) /\ RangeInv(f, connected) /\ CallsInv(f, dbl)

FramesInv == \A i \in 1 .. Len(stack) : FrameInv(stack[i], m_connected, wanted, doubled)

BusInv ==
    /\ TypeInv /\ TableInv /\ ListenInv /\ NestingInv /\ FramesInv
    /\ UndefinedOnlyByErasure /\ RoutedExactly

-----------------------------------------------------------------------------
(* Sequences and positions.                                                *)

\* A set of positions that holds with each of them all smaller ones is the
\* interval up to its size.
LEMMA DownClosed ==
    ASSUME NEW n \in Nat, NEW B \in SUBSET (1 .. n),
           \A i \in B : \A j \in 1 .. i : j \in B
    PROVE  Cardinality(B) \in 0 .. n /\ B = 1 .. Cardinality(B)
<1>1. IsFiniteSet(1 .. n) /\ Cardinality(1 .. n) = n
  <2>1. IsFiniteSet(1 .. n) /\ Cardinality(1 .. n) = IF 1 > n THEN 0 ELSE n - 1 + 1
    BY FS_Interval
  <2> QED BY <2>1
<1>2. IsFiniteSet(B) /\ Cardinality(B) <= n
  <2>1. IsFiniteSet(B) /\ Cardinality(B) <= Cardinality(1 .. n)
    BY <1>1, FS_Subset
  <2> QED BY <1>1, <2>1
<1>3. Cardinality(B) \in Nat
  BY <1>2, FS_CardinalityType
<1> DEFINE k == Cardinality(B)
<1>4. ASSUME NEW i \in B PROVE i <= k
  <2>1. (1 .. i) \in SUBSET B
    BY <1>4
  <2>2. Cardinality(1 .. i) <= k
    BY <2>1, <1>2, FS_Subset
  <2>3. Cardinality(1 .. i) = IF 1 > i THEN 0 ELSE i - 1 + 1
    BY FS_Interval
  <2> QED BY <2>2, <2>3, <1>3
<1>5. B \in SUBSET (1 .. k)
  BY <1>4, <1>3
<1>6. IsFiniteSet(1 .. k) /\ Cardinality(1 .. k) = k
  <2>1. IsFiniteSet(1 .. k) /\ Cardinality(1 .. k) = IF 1 > k THEN 0 ELSE k - 1 + 1
    BY FS_Interval, <1>3
  <2> QED BY <2>1, <1>3
<1>7. B = 1 .. k
  <2> HIDE DEF k
  <2>1. k = Cardinality(B)
    BY DEF k
  <2> QED BY <1>5, <1>6, <2>1, FS_Subset
<1> QED BY <1>2, <1>3, <1>7

\* What insert() leaves at each position.
LEMMA InsertPoints ==
    ASSUME NEW S, NEW s \in Seq(S), NEW e \in S, NEW p \in 1 .. Len(s) + 1
    PROVE  /\ InsertAt(s, p, e) \in Seq(S)
           /\ Len(InsertAt(s, p, e)) = Len(s) + 1
           /\ \A j \in 1 .. Len(s) + 1 :
                 InsertAt(s, p, e)[j] = IF j < p THEN s[j] ELSE IF j = p THEN e ELSE s[j - 1]
<1> DEFINE a == SubSeq(s, 1, p - 1)
           b == SubSeq(s, p, Len(s))
           m == a \o <<e>>
<1>0. Len(s) \in Nat /\ \A i \in 1 .. Len(s) : s[i] \in S
  BY LenProperties, ElementOfSeq
<1>1. a \in Seq(S) /\ Len(a) = p - 1 /\ \A i \in 1 .. p - 1 : a[i] = s[i]
  BY <1>0
<1>2. b \in Seq(S) /\ Len(b) = Len(s) - p + 1 /\ \A i \in 1 .. Len(s) - p + 1 : b[i] = s[p + i - 1]
  BY <1>0
<1>3. <<e>> \in Seq(S) /\ Len(<<e>>) = 1 /\ <<e>>[1] = e
  OBVIOUS
<1> HIDE DEF a, b
<1>4. m \in Seq(S) /\ Len(m) = p /\ \A i \in 1 .. p : m[i] = IF i < p THEN s[i] ELSE e
  <2>1. m \in Seq(S) /\ Len(m) = Len(a) + 1
        /\ \A i \in 1 .. Len(a) + 1 : m[i] = IF i <= Len(a) THEN a[i] ELSE <<e>>[i - Len(a)]
    BY <1>1, <1>3, ConcatProperties
  <2> QED BY <2>1, <1>1, <1>3
<1> HIDE DEF m
<1>5. /\ m \o b \in Seq(S) /\ Len(m \o b) = Len(m) + Len(b)
      /\ \A i \in 1 .. Len(m) + Len(b) : (m \o b)[i] = IF i <= Len(m) THEN m[i] ELSE b[i - Len(m)]
  BY <1>4, <1>2, ConcatProperties
<1>6. InsertAt(s, p, e) = m \o b
  BY DEF InsertAt, m, a, b
<1>7. ASSUME NEW j \in 1 .. Len(s) + 1
      PROVE  (m \o b)[j] = IF j < p THEN s[j] ELSE IF j = p THEN e ELSE s[j - 1]
  <2>1. CASE j <= p
    BY <2>1, <1>0, <1>2, <1>4, <1>5
  <2>2. CASE j > p
    <3>1. j - p \in 1 .. Len(s) - p + 1 /\ p + (j - p) - 1 = j - 1
      BY <2>2, <1>0
    <3> QED BY <3>1, <2>2, <1>0, <1>2, <1>4, <1>5
  <2>3. j \in Int /\ p \in Int
    BY <1>0
  <2>4. j <= p \/ j > p
    BY <2>3
  <2> QED BY ONLY <2>1, <2>2, <2>4
<1> QED BY <1>0, <1>2, <1>4, <1>5, <1>6, <1>7

\* What erase() leaves at each position.
LEMMA RemovePoints ==
    ASSUME NEW S, NEW s \in Seq(S), NEW p \in 1 .. Len(s)
    PROVE  /\ RemoveAt(s, p) \in Seq(S)
           /\ Len(RemoveAt(s, p)) = Len(s) - 1
           /\ \A j \in 1 .. Len(s) - 1 : RemoveAt(s, p)[j] = IF j < p THEN s[j] ELSE s[j + 1]
<1> DEFINE a == SubSeq(s, 1, p - 1)
           b == SubSeq(s, p + 1, Len(s))
<1>0. Len(s) \in Nat /\ \A i \in 1 .. Len(s) : s[i] \in S
  BY LenProperties, ElementOfSeq
<1>1. a \in Seq(S) /\ Len(a) = p - 1 /\ \A i \in 1 .. p - 1 : a[i] = s[i]
  BY <1>0
<1>2. b \in Seq(S) /\ Len(b) = Len(s) - p /\ \A i \in 1 .. Len(s) - p : b[i] = s[p + 1 + i - 1]
  BY <1>0
<1> HIDE DEF a, b
<1>5. /\ a \o b \in Seq(S) /\ Len(a \o b) = Len(a) + Len(b)
      /\ \A i \in 1 .. Len(a) + Len(b) : (a \o b)[i] = IF i <= Len(a) THEN a[i] ELSE b[i - Len(a)]
  BY <1>1, <1>2, ConcatProperties
<1>6. RemoveAt(s, p) = a \o b
  BY DEF RemoveAt, a, b
<1>7. ASSUME NEW j \in 1 .. Len(s) - 1
      PROVE  (a \o b)[j] = IF j < p THEN s[j] ELSE s[j + 1]
  <2>1. CASE j < p
    BY <2>1, <1>0, <1>1, <1>2, <1>5
  <2>2. CASE j >= p
    <3>1. j - (p - 1) \in 1 .. Len(s) - p /\ p + 1 + (j - (p - 1)) - 1 = j + 1
      BY <2>2, <1>0
    <3>2. b[j - (p - 1)] = s[j + 1]
      BY <3>1, <1>2
    <3>3. j \in 1 .. Len(a) + Len(b) /\ ~(j <= Len(a)) /\ ~(j < p) /\ j - Len(a) = j - (p - 1)
      BY <2>2, <1>0, <1>1, <1>2
    <3> QED BY <3>2, <3>3, <1>5
  <2>3. j \in Int /\ p \in Int
    BY <1>0
  <2>4. j < p \/ j >= p
    BY <2>3
  <2> QED BY ONLY <2>1, <2>2, <2>4
<1>8. Len(a) + Len(b) = Len(s) - 1
  BY <1>0, <1>1, <1>2
<1> QED BY <1>5, <1>6, <1>7, <1>8

\* erase() of the only element that is c.
LEMMA RemoveFirstAt ==
    ASSUME NEW s, NEW c, NEW p \in 1 .. Len(s), Len(s) \in Nat,
           \A i \in 1 .. Len(s) : s[i] = c <=> i = p
    PROVE  RemoveFirst(s, c) = RemoveAt(s, p)
<1>1. {i \in 1 .. Len(s) : s[i] = c} = {p}
  OBVIOUS
<1> QED BY <1>1 DEF RemoveFirst, SelectInSeq, Min

\* A set of positive numbers has a least element.
LEMMA Least ==
    ASSUME NEW T \in SUBSET (Nat \ {0}), T # {}
    PROVE  \E x \in T : \A y \in T : x <= y
<1>1. PICK x \in T : TRUE
  OBVIOUS
<1> DEFINE B == {i \in 1 .. x : \A y \in T : i < y}
<1>2. x \in Nat /\ x >= 1
  OBVIOUS
<1>3. B \in SUBSET (1 .. x) /\ \A i \in B : \A j \in 1 .. i : j \in B
  BY <1>2
<1> DEFINE k == Cardinality(B)
<1>4. k \in 0 .. x /\ B = 1 .. k
  <2> HIDE DEF B
  <2> QED BY <1>2, <1>3, DownClosed
<1>5. x \notin B
  BY <1>1
<1> HIDE DEF k
<1>6. k + 1 \in 1 .. x /\ k + 1 \notin B
  BY <1>2, <1>4, <1>5
<1>7. PICK y \in T : ~(k + 1 < y)
  BY <1>6
<1>8. \A z \in T : k < z
  <2>1. CASE k = 0
    BY <2>1
  <2>2. CASE k # 0
    <3>1. k \in B
      BY <2>2, <1>2, <1>4
    <3> QED BY <3>1
  <2> QED BY <2>1, <2>2
<1>9. \A z \in T : y <= z
  BY <1>2, <1>4, <1>7, <1>8
<1> QED BY <1>9

\* How many elements of an inner map have an instance up to n, and below n: the
\* first ones.
LEMMA Rank ==
    ASSUME NEW s \in Seq(Conns), Sorted(s), NEW n \in Int
    PROVE  LET k == Cardinality({i \in DOMAIN s : Instance[s[i]] <= n})
           IN  k \in 0 .. Len(s) /\ \A i \in 1 .. Len(s) : Instance[s[i]] <= n <=> i <= k
<1> DEFINE B == {i \in DOMAIN s : Instance[s[i]] <= n}
<1>1. /\ Len(s) \in Nat /\ DOMAIN s = 1 .. Len(s)
      /\ \A i \in 1 .. Len(s) : s[i] \in Conns /\ Instance[s[i]] \in Nat
  BY LenProperties, ElementOfSeq, AddressAssumption
<1>2. B \in SUBSET (1 .. Len(s)) /\ \A i \in B : \A j \in 1 .. i : j \in B
  <2>1. ASSUME NEW i \in B, NEW j \in 1 .. i PROVE j \in B
    <3>1. i \in 1 .. Len(s) /\ j \in 1 .. Len(s) /\ (j = i \/ j < i)
      BY <1>1
    <3>2. Instance[s[j]] <= Instance[s[i]]
      BY <3>1, <1>1 DEF Sorted
    <3> QED BY <3>1, <3>2, <1>1
  <2> QED BY <2>1, <1>1
<1>3. Cardinality(B) \in 0 .. Len(s) /\ B = 1 .. Cardinality(B)
  <2> HIDE DEF B
  <2> QED BY <1>1, <1>2, DownClosed
<1>4. ASSUME NEW i \in 1 .. Len(s) PROVE Instance[s[i]] <= n <=> i <= Cardinality(B)
  <2>1. i \in B <=> Instance[s[i]] <= n
    BY <1>1
  <2>2. i \in 1 .. Cardinality(B) <=> i <= Cardinality(B)
    BY <1>3
  <2> QED BY <2>1, <2>2, <1>3
<1> QED BY <1>3, <1>4

\* The same for the elements below n.
LEMMA RankBelow ==
    ASSUME NEW s \in Seq(Conns), Sorted(s), NEW n \in Int
    PROVE  LET k == Cardinality({i \in DOMAIN s : Instance[s[i]] < n})
           IN  k \in 0 .. Len(s) /\ \A i \in 1 .. Len(s) : Instance[s[i]] < n <=> i <= k
<1>1. /\ Len(s) \in Nat /\ DOMAIN s = 1 .. Len(s)
      /\ \A i \in 1 .. Len(s) : s[i] \in Conns /\ Instance[s[i]] \in Nat
  BY LenProperties, ElementOfSeq, AddressAssumption
<1>2. \A i \in DOMAIN s : Instance[s[i]] < n <=> Instance[s[i]] <= n - 1
  BY <1>1
<1>3. {i \in DOMAIN s : Instance[s[i]] < n} = {i \in DOMAIN s : Instance[s[i]] <= n - 1}
  BY <1>2
<1>4. n - 1 \in Int
  OBVIOUS
<1>5. LET k == Cardinality({i \in DOMAIN s : Instance[s[i]] <= n - 1})
      IN  k \in 0 .. Len(s) /\ \A i \in 1 .. Len(s) : Instance[s[i]] <= n - 1 <=> i <= k
  BY <1>4, Rank
<1> QED BY <1>1, <1>2, <1>3, <1>5

\* An element is inserted where it belongs.
LEMMA InsertedAt ==
    ASSUME NEW s \in Seq(Conns), Sorted(s), NEW c \in Conns,
           \A i \in 1 .. Len(s) : Instance[s[i]] # Instance[c]
    PROVE  /\ Inserted(s, c) \in Seq(Conns)
           /\ Sorted(Inserted(s, c))
           /\ \A d \in Conns : Contains(Inserted(s, c), d) <=> Contains(s, d) \/ d = c
<1> DEFINE k == Cardinality({i \in DOMAIN s : Instance[s[i]] <= Instance[c]})
           r == Inserted(s, c)
<1>1. /\ Len(s) \in Nat
      /\ \A i \in 1 .. Len(s) : s[i] \in Conns /\ Instance[s[i]] \in Nat
      /\ Instance[c] \in Nat
  BY LenProperties, ElementOfSeq, AddressAssumption
<1>2. k \in 0 .. Len(s) /\ \A i \in 1 .. Len(s) : Instance[s[i]] <= Instance[c] <=> i <= k
  BY <1>1, Rank
<1>3. r = InsertAt(s, k + 1, c)
  BY DEF Inserted
<1> HIDE DEF k, r
<1>4. k + 1 \in 1 .. Len(s) + 1
  BY <1>1, <1>2
<1>5. /\ r \in Seq(Conns) /\ Len(r) = Len(s) + 1
      /\ \A j \in 1 .. Len(s) + 1 :
            r[j] = IF j < k + 1 THEN s[j] ELSE IF j = k + 1 THEN c ELSE s[j - 1]
  <2> DEFINE p == k + 1
  <2>1. p \in 1 .. Len(s) + 1 /\ r = InsertAt(s, p, c)
    BY <1>3, <1>4
  <2> HIDE DEF p
  <2>2. /\ r \in Seq(Conns) /\ Len(r) = Len(s) + 1
        /\ \A j \in 1 .. Len(s) + 1 :
              r[j] = IF j < p THEN s[j] ELSE IF j = p THEN c ELSE s[j - 1]
    BY <2>1, InsertPoints
  <2> QED BY <2>2 DEF p
<1>6. ASSUME NEW i \in 1 .. Len(r), NEW j \in 1 .. Len(r), i < j
      PROVE  Instance[r[i]] < Instance[r[j]]
  <2>1. CASE j < k + 1
    <3>1. i \in 1 .. Len(s) /\ j \in 1 .. Len(s) /\ r[i] = s[i] /\ r[j] = s[j]
      BY <1>1, <1>2, <1>5, <1>6, <2>1
    <3> QED BY <3>1, <1>6 DEF Sorted
  <2>2. CASE j = k + 1
    <3>1. i \in 1 .. Len(s) /\ i <= k /\ r[i] = s[i] /\ r[j] = c
      BY <1>1, <1>2, <1>5, <1>6, <2>2
    <3>2. Instance[s[i]] <= Instance[c]
      BY <3>1, <1>2
    <3>3. Instance[s[i]] \in Nat /\ Instance[c] \in Nat /\ Instance[s[i]] # Instance[c]
      BY <3>1, <1>1
    <3>4. Instance[s[i]] < Instance[c]
      BY <3>2, <3>3
    <3> QED BY <3>1, <3>4
  <2>3. CASE j > k + 1 /\ i < k + 1
    <3>1. i \in 1 .. Len(s) /\ j - 1 \in 1 .. Len(s) /\ i < j - 1
      BY <1>1, <1>2, <1>5, <2>3
    <3>2. r[i] = s[i] /\ r[j] = s[j - 1]
      BY <1>1, <1>2, <1>5, <2>3
    <3> QED BY <3>1, <3>2 DEF Sorted
  <2>4. CASE j > k + 1 /\ i = k + 1
    <3>1. r[i] = c /\ r[j] = s[j - 1] /\ j - 1 \in 1 .. Len(s) /\ ~(j - 1 <= k)
      BY <1>1, <1>2, <1>5, <2>4
    <3> QED BY <3>1, <1>1, <1>2
  <2>5. CASE j > k + 1 /\ i > k + 1
    <3>1. r[i] = s[i - 1] /\ r[j] = s[j - 1] /\ i - 1 \in 1 .. Len(s) /\ j - 1 \in 1 .. Len(s)
      BY <1>1, <1>2, <1>5, <2>5
    <3>2. i - 1 < j - 1
      BY <1>6, <1>1, <1>5
    <3> QED BY <3>1, <3>2 DEF Sorted
  <2>6. i \in Int /\ j \in Int /\ k \in Int
    BY <1>1, <1>2, <1>5
  <2>7. j < k + 1 \/ j = k + 1 \/ (j > k + 1 /\ (i < k + 1 \/ i = k + 1 \/ i > k + 1))
    BY <2>6
  <2> QED BY ONLY <2>1, <2>2, <2>3, <2>4, <2>5, <2>7
<1>7. Sorted(r)
  BY <1>6 DEF Sorted
<1>8. ASSUME NEW d \in Conns PROVE Contains(r, d) <=> Contains(s, d) \/ d = c
  <2>1. ASSUME Contains(r, d) PROVE Contains(s, d) \/ d = c
    <3>1. PICK j \in 1 .. Len(r) : r[j] = d
      BY <2>1 DEF Contains
    <3>2. j < k + 1 => j \in 1 .. Len(s)
      BY <1>1, <1>2, <1>5
    <3>3. j > k + 1 => j - 1 \in 1 .. Len(s)
      BY <1>1, <1>2, <1>5
    <3>4. j \in Int /\ k \in Int
      BY <1>1, <1>2, <1>5
    <3> QED BY <3>1, <3>2, <3>3, <3>4, <1>5 DEF Contains
  <2>2. ASSUME Contains(s, d) PROVE Contains(r, d)
    <3>1. PICK j \in 1 .. Len(s) : s[j] = d
      BY <2>2 DEF Contains
    <3>2. CASE j < k + 1
      BY <3>1, <3>2, <1>1, <1>2, <1>5 DEF Contains
    <3>3. CASE ~(j < k + 1)
      <4>1. j + 1 \in 1 .. Len(r) /\ ~(j + 1 < k + 1) /\ j + 1 # k + 1 /\ (j + 1) - 1 = j
        BY <3>3, <1>1, <1>2, <1>5
      <4>2. r[j + 1] = d
        BY <4>1, <3>1, <1>5
      <4> QED BY <4>1, <4>2 DEF Contains
    <3> QED BY <3>2, <3>3
  <2>3. Contains(r, c)
    <3>1. k + 1 \in 1 .. Len(r) /\ k + 1 \in 1 .. Len(s) + 1 /\ ~(k + 1 < k + 1)
      BY <1>2, <1>4, <1>5
    <3>2. r[k + 1] = c
      BY <3>1, <1>5
    <3> QED BY <3>1, <3>2 DEF Contains
  <2> QED BY <2>1, <2>2, <2>3
<1> QED BY <1>5, <1>7, <1>8 DEF r

\* erase() takes the element away, and nothing else.
LEMMA Erased ==
    ASSUME NEW s \in Seq(Conns), Sorted(s), NEW c \in Conns, Contains(s, c)
    PROVE  /\ RemoveFirst(s, c) \in Seq(Conns)
           /\ Sorted(RemoveFirst(s, c))
           /\ \A d \in Conns : Contains(RemoveFirst(s, c), d) <=> Contains(s, d) /\ d # c
<1>1. /\ Len(s) \in Nat
      /\ \A i \in 1 .. Len(s) : s[i] \in Conns /\ Instance[s[i]] \in Nat
  BY LenProperties, ElementOfSeq, AddressAssumption
<1>2. PICK p \in 1 .. Len(s) : s[p] = c
  BY DEF Contains
<1>3. \A i, j \in 1 .. Len(s) : s[i] = s[j] => i = j
  <2> SUFFICES ASSUME NEW i \in 1 .. Len(s), NEW j \in 1 .. Len(s), s[i] = s[j], i # j
               PROVE  FALSE
    OBVIOUS
  <2>1. i < j \/ j < i
    BY <1>1
  <2>2. Instance[s[i]] < Instance[s[j]] \/ Instance[s[j]] < Instance[s[i]]
    BY <2>1 DEF Sorted
  <2> QED BY <2>2, <1>1
<1> DEFINE r == RemoveFirst(s, c)
<1>4. r = RemoveAt(s, p)
  BY <1>1, <1>2, <1>3, RemoveFirstAt
<1> HIDE DEF r
<1>5. /\ r \in Seq(Conns) /\ Len(r) = Len(s) - 1
      /\ \A j \in 1 .. Len(s) - 1 : r[j] = IF j < p THEN s[j] ELSE s[j + 1]
  BY <1>4, RemovePoints
<1>6. ASSUME NEW i \in 1 .. Len(r), NEW j \in 1 .. Len(r), i < j
      PROVE  Instance[r[i]] < Instance[r[j]]
  <2>1. /\ i \in 1 .. Len(s) /\ i + 1 \in 1 .. Len(s) /\ j \in 1 .. Len(s) /\ j + 1 \in 1 .. Len(s)
        /\ i < j /\ i + 1 < j + 1 /\ i < j + 1 /\ (~(i < p) => ~(j < p))
    BY <1>1, <1>5, <1>6
  <2> QED BY <2>1, <1>5 DEF Sorted
<1>7. Sorted(r)
  BY <1>6 DEF Sorted
<1>8. ASSUME NEW d \in Conns PROVE Contains(r, d) <=> Contains(s, d) /\ d # c
  <2>1. ASSUME Contains(r, d) PROVE Contains(s, d) /\ d # c
    <3>1. PICK j \in 1 .. Len(r) : r[j] = d
      BY <2>1 DEF Contains
    <3>2. j \in 1 .. Len(s) /\ j + 1 \in 1 .. Len(s) /\ (j < p => j # p) /\ (~(j < p) => j + 1 # p)
      BY <1>1, <1>5
    <3> QED BY <3>1, <3>2, <1>2, <1>3, <1>5 DEF Contains
  <2>2. ASSUME Contains(s, d), d # c PROVE Contains(r, d)
    <3>1. PICK j \in 1 .. Len(s) : s[j] = d
      BY <2>2 DEF Contains
    <3>2. j # p
      BY <3>1, <2>2, <1>2
    <3>3. CASE j < p
      <4>1. j \in 1 .. Len(r) /\ j \in 1 .. Len(s) - 1
        BY <3>3, <1>1, <1>5
      <4>2. r[j] = d
        BY <4>1, <3>1, <3>3, <1>5
      <4> QED BY <4>1, <4>2 DEF Contains
    <3>4. CASE ~(j < p)
      <4>1. j - 1 \in 1 .. Len(r) /\ ~(j - 1 < p) /\ (j - 1) + 1 = j
        BY <3>2, <3>4, <1>1, <1>5
      <4>2. r[j - 1] = d
        BY <4>1, <3>1, <1>5
      <4> QED BY <4>1, <4>2 DEF Contains
    <3> QED BY <3>3, <3>4
  <2> QED BY <2>1, <2>2
<1> QED BY <1>5, <1>7, <1>8 DEF r

\* What an appended element adds.
LEMMA Appended ==
    ASSUME NEW S, NEW s \in Seq(S), NEW x \in S, NEW y
    PROVE  /\ Contains(Append(s, x), y) <=> Contains(s, y) \/ y = x
           /\ \A i \in 1 .. Len(Append(s, x)) :
                 Append(s, x)[i] = y => \/ i \in 1 .. Len(s) /\ s[i] = y
                                        \/ i = Len(s) + 1 /\ y = x
<1> DEFINE r == Append(s, x)
<1>1. /\ Len(s) \in Nat /\ Len(r) = Len(s) + 1 /\ r[Len(s) + 1] = x
      /\ \A i \in 1 .. Len(s) : r[i] = s[i]
  OBVIOUS
<1> HIDE DEF r
<1>2. ASSUME NEW i \in 1 .. Len(r), r[i] = y
      PROVE  (i \in 1 .. Len(s) /\ s[i] = y) \/ (i = Len(s) + 1 /\ y = x)
  <2>1. i \in 1 .. Len(s) \/ i = Len(s) + 1
    BY <1>1
  <2> QED BY <2>1, <1>1, <1>2
<1>3. (\A i \in 1 .. Len(s) : i \in 1 .. Len(r)) /\ Len(s) + 1 \in 1 .. Len(r)
  BY <1>1
<1>4. Contains(r, y) <=> Contains(s, y) \/ y = x
  BY <1>1, <1>2, <1>3 DEF Contains
<1> QED BY <1>2, <1>4 DEF r

\* lower_bound(): the first element with at least the instance.
LEMMA LowerBound ==
    ASSUME NEW s \in Seq(Conns), Sorted(s), NEW n \in Int
    PROVE  LET b == lower_bound(s, n) IN
           \/ b = End /\ \A i \in 1 .. Len(s) : Instance[s[i]] < n
           \/ /\ b \in Conns /\ Contains(s, b) /\ Instance[b] >= n
              /\ \A i \in 1 .. Len(s) : Instance[s[i]] >= n => Instance[s[i]] >= Instance[b]
<1> DEFINE k == Cardinality({i \in DOMAIN s : Instance[s[i]] < n})
           b == lower_bound(s, n)
<1>1. /\ Len(s) \in Nat
      /\ \A i \in 1 .. Len(s) : s[i] \in Conns /\ Instance[s[i]] \in Nat
  BY LenProperties, ElementOfSeq, AddressAssumption
<1>2. k \in 0 .. Len(s) /\ \A i \in 1 .. Len(s) : Instance[s[i]] < n <=> i <= k
  BY RankBelow
<1>3. b = IF k + 1 <= Len(s) THEN s[k + 1] ELSE End
  BY DEF lower_bound, At
<1> HIDE DEF k, b
<1>4. CASE k + 1 <= Len(s)
  <2>1. k + 1 \in 1 .. Len(s) /\ ~(k + 1 <= k) /\ b = s[k + 1]
    BY <1>1, <1>2, <1>3, <1>4
  <2>2. b \in Conns /\ Contains(s, b) /\ Instance[b] >= n
    BY <2>1, <1>1, <1>2 DEF Contains
  <2>3. ASSUME NEW i \in 1 .. Len(s), Instance[s[i]] >= n PROVE Instance[s[i]] >= Instance[b]
    <3>1. ~(i <= k)
      BY <2>3, <1>1, <1>2
    <3>2. i = k + 1 \/ k + 1 < i
      BY <3>1, <1>1, <1>2
    <3> QED BY <3>2, <2>1, <1>1 DEF Sorted
  <2> QED BY <2>2, <2>3 DEF b
<1>5. CASE ~(k + 1 <= Len(s))
  <2>1. \A i \in 1 .. Len(s) : i <= k
    BY <1>1, <1>2, <1>5
  <2> QED BY <2>1, <1>2, <1>3, <1>5 DEF b
<1> QED BY <1>4, <1>5

\* upper_bound(): the first element with a greater one.
LEMMA UpperBound ==
    ASSUME NEW s \in Seq(Conns), Sorted(s), NEW n \in Int
    PROVE  LET b == upper_bound(s, n) IN
           \/ b = End /\ \A i \in 1 .. Len(s) : Instance[s[i]] <= n
           \/ /\ b \in Conns /\ Contains(s, b) /\ Instance[b] > n
              /\ \A i \in 1 .. Len(s) : Instance[s[i]] > n => Instance[s[i]] >= Instance[b]
<1> DEFINE k == Cardinality({i \in DOMAIN s : Instance[s[i]] <= n})
           b == upper_bound(s, n)
<1>1. /\ Len(s) \in Nat
      /\ \A i \in 1 .. Len(s) : s[i] \in Conns /\ Instance[s[i]] \in Nat
  BY LenProperties, ElementOfSeq, AddressAssumption
<1>2. k \in 0 .. Len(s) /\ \A i \in 1 .. Len(s) : Instance[s[i]] <= n <=> i <= k
  BY Rank
<1>3. b = IF k + 1 <= Len(s) THEN s[k + 1] ELSE End
  BY DEF upper_bound, At
<1> HIDE DEF k, b
<1>4. CASE k + 1 <= Len(s)
  <2>1. k + 1 \in 1 .. Len(s) /\ ~(k + 1 <= k) /\ b = s[k + 1]
    BY <1>1, <1>2, <1>3, <1>4
  <2>2. b \in Conns /\ Contains(s, b) /\ Instance[b] > n
    BY <2>1, <1>1, <1>2 DEF Contains
  <2>3. ASSUME NEW i \in 1 .. Len(s), Instance[s[i]] > n PROVE Instance[s[i]] >= Instance[b]
    <3>1. ~(i <= k)
      BY <2>3, <1>1, <1>2
    <3>2. i = k + 1 \/ k + 1 < i
      BY <3>1, <1>1, <1>2
    <3> QED BY <3>2, <2>1, <1>1 DEF Sorted
  <2> QED BY <2>2, <2>3 DEF b
<1>5. CASE ~(k + 1 <= Len(s))
  <2>1. \A i \in 1 .. Len(s) : i <= k
    BY <1>1, <1>2, <1>5
  <2> QED BY <2>1, <1>2, <1>3, <1>5 DEF b
<1> QED BY <1>4, <1>5

\* How often x occurs, when it does not occur twice.
LEMMA TimesOnce ==
    ASSUME NEW S, NEW s \in Seq(S), NEW x,
           \A i, j \in 1 .. Len(s) : s[i] = x /\ s[j] = x => i = j
    PROVE  Times(s, x) = IF Contains(s, x) THEN 1 ELSE 0
<1> DEFINE B == {i \in DOMAIN s : s[i] = x}
<1>1. DOMAIN s = 1 .. Len(s)
  BY LenProperties
<1>2. CASE Contains(s, x)
  <2>1. PICK p \in 1 .. Len(s) : s[p] = x
    BY <1>2 DEF Contains
  <2>2. B = {p}
    BY <2>1, <1>1
  <2> QED BY <2>2, <1>2, FS_Singleton DEF Times
<1>3. CASE ~Contains(s, x)
  <2>1. B = {}
    BY <1>1, <1>3 DEF Contains
  <2> QED BY <2>1, <1>3, FS_EmptySet DEF Times
<1> QED BY <1>2, <1>3

\* The number of occurrences is a natural number; unless it is more than one no
\* two positions hold x.
LEMMA TimesNat ==
    ASSUME NEW S, NEW s \in Seq(S), NEW x
    PROVE  /\ Times(s, x) \in Nat
           /\ ~(Times(s, x) > 1) => \A i, j \in 1 .. Len(s) : s[i] = x /\ s[j] = x => i = j
<1> DEFINE B == {i \in DOMAIN s : s[i] = x}
<1>1. DOMAIN s = 1 .. Len(s) /\ Len(s) \in Nat
  BY LenProperties
<1>2. IsFiniteSet(1 .. Len(s))
  BY <1>1, FS_Interval
<1>3. B \in SUBSET (1 .. Len(s))
  BY <1>1
<1>4. IsFiniteSet(B)
  BY <1>2, <1>3, FS_Subset
<1>5. Times(s, x) = Cardinality(B)
  BY DEF Times
<1>6. Cardinality(B) \in Nat
  BY <1>4, FS_CardinalityType
<1>7. ASSUME ~(Times(s, x) > 1),
             NEW i \in 1 .. Len(s), NEW j \in 1 .. Len(s), s[i] = x, s[j] = x
      PROVE  i = j
  <2>1. i \in B /\ j \in B
    BY <1>7, <1>1
  <2>2. Cardinality(B) # 0
    BY <2>1, <1>4, FS_EmptySet
  <2>3. Cardinality(B) = 1
    BY <2>2, <1>5, <1>6, <1>7
  <2>4. \E y : B = {y}
    BY <2>3, <1>4, FS_Singleton
  <2> QED BY <2>1, <2>4
<1> QED BY <1>5, <1>6, <1>7

\* Where remove_if() moves an element to: each place in front is taken once.
LEMMA Moved ==
    ASSUME NEW n \in Nat, NEW others \in SUBSET (1 .. n)
    PROVE  LET MovedTo(j) == Cardinality({i \in others : i <= j}) IN
           /\ Cardinality(others) \in Nat
           /\ \A j \in others : MovedTo(j) \in 1 .. Cardinality(others)
           /\ \A a, b \in others : MovedTo(a) = MovedTo(b) => a = b
           /\ \A k \in 1 .. Cardinality(others) : \E j \in others : MovedTo(j) = k
<1> DEFINE Upto(j) == {i \in others : i <= j}
           m == Cardinality(others)
           f == [j \in others |-> Cardinality(Upto(j))]
<1>1. IsFiniteSet(others)
  <2>1. IsFiniteSet(1 .. n)
    BY FS_Interval
  <2> QED BY <2>1, FS_Subset
<1>2. m \in Nat
  BY <1>1, FS_CardinalityType
<1>3. \A j \in others : Upto(j) \in SUBSET others
  OBVIOUS
<1>4. \A j \in others : IsFiniteSet(Upto(j)) /\ Cardinality(Upto(j)) <= m /\ Cardinality(Upto(j)) \in Nat
  BY <1>1, <1>3, FS_Subset, FS_CardinalityType
<1>5. \A j \in others : Cardinality(Upto(j)) # 0
  <2> SUFFICES ASSUME NEW j \in others PROVE Cardinality(Upto(j)) # 0
    OBVIOUS
  <2>1. j \in Upto(j)
    OBVIOUS
  <2> QED BY <2>1, <1>4, FS_EmptySet
<1>6. f \in [others -> 1 .. m]
  <2> SUFFICES ASSUME NEW j \in others PROVE Cardinality(Upto(j)) \in 1 .. m
    OBVIOUS
  <2> HIDE DEF Upto, m
  <2> QED BY <1>2, <1>4, <1>5
<1>7. \A j1, j2 \in others : j1 < j2 => f[j1] # f[j2]
  <2> SUFFICES ASSUME NEW j1 \in others, NEW j2 \in others, j1 < j2,
                      Cardinality(Upto(j1)) = Cardinality(Upto(j2))
               PROVE  FALSE
    OBVIOUS
  <2>0. \A i \in others : i \in Int
    OBVIOUS
  <2>1. Upto(j1) \in SUBSET Upto(j2)
    <3>1. \A i \in others : i <= j1 => i <= j2
      BY <2>0
    <3> QED BY ONLY <3>1, Zenon
  <2>2. j2 \in Upto(j2) /\ j2 \notin Upto(j1)
    BY <2>0
  <2>3. Upto(j2) = Upto(j1)
    <3> HIDE DEF Upto
    <3> QED BY <2>1, <1>4, FS_Subset
  <2> QED BY <2>2, <2>3
<1>8. f \in Injection(others, 1 .. m)
  <2>0. \A a \in others : a \in Int
    OBVIOUS
  <2>1. \A a, b \in others : a < b \/ b < a \/ a = b
    BY ONLY <2>0
  <2>2. \A a, b \in others : f[a] = f[b] => a = b
    <3> HIDE DEF f
    <3> QED BY <2>1, <1>7
  <2> HIDE DEF f, m
  <2> QED BY <1>6, <2>2 DEF Injection, IsInjective
<1>9. IsFiniteSet(1 .. m) /\ Cardinality(1 .. m) = m
  <2>1. IsFiniteSet(1 .. m) /\ Cardinality(1 .. m) = IF 1 > m THEN 0 ELSE m - 1 + 1
    BY <1>2, FS_Interval
  <2> QED BY <2>1, <1>2
<1>10. f \in Surjection(others, 1 .. m)
  <2> HIDE DEF f
  <2>1. Cardinality(others) = Cardinality(1 .. m)
    BY <1>9
  <2> HIDE DEF m
  <2> QED BY <2>1, <1>8, <1>9, FS_Injection
<1>11. \A k \in 1 .. m : \E j \in others : f[j] = k
  <2> HIDE DEF f, m
  <2> QED BY <1>10 DEF Surjection
<1>12. \A a, b \in others : f[a] = f[b] => a = b
  <2> HIDE DEF f, m
  <2> QED BY <1>8 DEF Injection, IsInjective
<1> QED BY <1>2, <1>6, <1>11, <1>12

\* Removing a listener leaves a vector of listeners; when none is there twice
\* it takes the one away and keeps all others.
LEMMA Removed ==
    ASSUME NEW s \in Seq(Listeners), NEW l \in Listeners
    PROVE  /\ removeMessageListener(s, l) \in Seq(Listeners)
           /\ Distinct(s) /\ Contains(s, l) =>
                 /\ Distinct(removeMessageListener(s, l))
                 /\ \A x \in Listeners :
                       Contains(removeMessageListener(s, l), x) <=> Contains(s, x) /\ x # l
<1> DEFINE others == {k \in DOMAIN s : s[k] # l}
           kept == Cardinality(others)
           MovedTo(k) == Cardinality({j \in others : j <= k})
           J(k) == CHOOSE j \in others : MovedTo(j) = k
           r == removeMessageListener(s, l)
<1>1. Len(s) \in Nat /\ DOMAIN s = 1 .. Len(s) /\ \A i \in 1 .. Len(s) : s[i] \in Listeners
  BY LenProperties, ElementOfSeq
<1>2. others \in SUBSET (1 .. Len(s))
  BY <1>1
<1>3. /\ kept \in Nat
      /\ \A j \in others : MovedTo(j) \in 1 .. kept
      /\ \A a, b \in others : MovedTo(a) = MovedTo(b) => a = b
      /\ \A k \in 1 .. kept : \E j \in others : MovedTo(j) = k
  <2> HIDE DEF others
  <2> QED BY <1>1, <1>2, Moved
<1>4. r = [k \in 1 .. Len(s) - 1 |-> IF k <= kept THEN s[J(k)] ELSE s[k + 1]]
  BY DEF removeMessageListener
<1> HIDE DEF MovedTo, kept, r
<1>5. \A k \in 1 .. kept : J(k) \in others /\ MovedTo(J(k)) = k
  BY <1>3
<1> HIDE DEF J, others
<1>6. ASSUME NEW k \in 1 .. Len(s) - 1
      PROVE  (IF k <= kept THEN s[J(k)] ELSE s[k + 1]) \in Listeners
  <2>1. CASE k <= kept
    <3>1. k \in 1 .. kept
      BY <2>1, <1>1, <1>3
    <3> QED BY <3>1, <2>1, <1>1, <1>2, <1>5
  <2>2. CASE ~(k <= kept)
    <3>1. k + 1 \in 1 .. Len(s)
      BY <1>1
    <3> QED BY <3>1, <2>2, <1>1
  <2> QED BY <2>1, <2>2
<1>7. r \in Seq(Listeners)
  <2>1. CASE Len(s) = 0
    <3>1. 1 .. Len(s) - 1 = 1 .. 0
      BY <2>1
    <3>2. r = [k \in 1 .. 0 |-> IF k <= kept THEN s[J(k)] ELSE s[k + 1]]
      BY <3>1, <1>4
    <3> QED BY <3>2
  <2>2. CASE Len(s) # 0
    <3>1. Len(s) - 1 \in Nat
      BY <2>2, <1>1
    <3> QED BY <3>1, <1>4, <1>6
  <2> QED BY <2>1, <2>2
<1>8. ASSUME Distinct(s), Contains(s, l)
      PROVE  /\ Distinct(r)
             /\ \A x \in Listeners : Contains(r, x) <=> Contains(s, x) /\ x # l
  <2>1. PICK p \in 1 .. Len(s) : s[p] = l
    BY <1>8 DEF Contains
  <2>2. others = (1 .. Len(s)) \ {p}
    BY <2>1, <1>1, <1>8 DEF Distinct, others
  <2>3. kept = Len(s) - 1
    <3>1. IsFiniteSet(1 .. Len(s)) /\ Cardinality(1 .. Len(s)) = IF 1 > Len(s) THEN 0 ELSE Len(s) - 1 + 1
      BY <1>1, FS_Interval
    <3>2. Cardinality((1 .. Len(s)) \ {p}) = Cardinality(1 .. Len(s)) - 1
      BY <3>1, FS_RemoveElement
    <3> QED BY <3>1, <3>2, <2>2, <1>1 DEF kept
  <2>4. Len(s) >= 1 /\ Len(r) = kept /\ \A k \in 1 .. kept : r[k] = s[J(k)]
    <3>1. Len(s) >= 1 /\ Len(s) - 1 \in Nat
      BY <1>1
    <3>2. DOMAIN r = 1 .. Len(s) - 1 /\ \A k \in 1 .. Len(s) - 1 : r[k] = IF k <= kept THEN s[J(k)] ELSE s[k + 1]
      BY <1>4
    <3>3. Len(r) = Len(s) - 1
      <4>1. Len(r) \in Nat /\ DOMAIN r = 1 .. Len(r)
        BY <1>7, LenProperties
      <4>2. 1 .. Len(r) = 1 .. Len(s) - 1
        BY <4>1, <3>2
      <4>3. \A a, b \in Nat : 1 .. a = 1 .. b => a = b
        <5> SUFFICES ASSUME NEW a \in Nat, NEW b \in Nat, 1 .. a = 1 .. b, a < b PROVE FALSE
          OBVIOUS
        <5>1. b \in 1 .. b /\ b \notin 1 .. a
          OBVIOUS
        <5> QED BY <5>1
      <4> QED BY <4>1, <4>2, <4>3, <3>1
    <3> QED BY <3>1, <3>2, <3>3, <2>3, <1>1
  <2>5. \A k \in 1 .. kept : J(k) \in 1 .. Len(s) /\ J(k) # p
    BY <2>2, <1>5
  <2>6. Distinct(r)
    <3> SUFFICES ASSUME NEW a \in 1 .. kept, NEW b \in 1 .. kept, s[J(a)] = s[J(b)] PROVE a = b
      BY <2>4 DEF Distinct
    <3>1. J(a) = J(b)
      BY <2>5, <1>8 DEF Distinct
    <3> QED BY <3>1, <1>5
  <2>7. ASSUME NEW x \in Listeners PROVE Contains(r, x) <=> Contains(s, x) /\ x # l
    <3>1. ASSUME Contains(r, x) PROVE Contains(s, x) /\ x # l
      <4>1. PICK k \in 1 .. kept : s[J(k)] = x
        BY <3>1, <2>4 DEF Contains
      <4> QED BY <4>1, <2>1, <2>5, <1>8 DEF Contains, Distinct
    <3>2. ASSUME Contains(s, x), x # l PROVE Contains(r, x)
      <4>1. PICK j \in 1 .. Len(s) : s[j] = x
        BY <3>2 DEF Contains
      <4>2. j \in others
        BY <4>1, <3>2, <2>1, <2>2
      <4>3. MovedTo(j) \in 1 .. kept /\ J(MovedTo(j)) = j
        BY <4>2, <1>3, <1>5
      <4> QED BY <4>1, <4>3, <2>4 DEF Contains
    <3> QED BY <3>1, <3>2
  <2> QED BY <2>6, <2>7
<1> QED BY <1>7, <1>8 DEF r

-----------------------------------------------------------------------------
(* What others do while a routing is in a call.                            *)

\* The parts of a frame that the others may not change.
SameLoop(f, g) ==
    /\ g.sender = f.sender /\ g.packet = f.packet /\ g.phase = f.phase
    /\ g.at = f.at /\ g.copy = f.copy /\ g.to = f.to /\ g.left = f.left
    /\ g.expected = f.expected /\ g.got = f.got

\* A connection comes.
LEMMA ConnectFrame ==
    ASSUME NEW f \in Frame, NEW connected \in SUBSET Conns, NEW want, NEW dbl, NEW c \in Conns,
           FrameInv(f, connected, want, dbl)
    PROVE  LET g == [f EXCEPT !.touched = @ \cup ({c} \X Listeners)]
           IN  g \in Frame /\ g.phase = f.phase /\ FrameInv(g, connected \cup {c}, want, dbl)
<1> DEFINE g == [f EXCEPT !.touched = @ \cup ({c} \X Listeners)]
<1>1. g \in Frame
  BY DEF Frame
<1>2. /\ SameLoop(f, g) /\ g.it = f.it /\ g.end = f.end /\ g.stale = f.stale /\ g.erased = f.erased
      /\ g.touched = f.touched \cup ({c} \X Listeners)
  BY DEF Frame, SameLoop
<1>3. /\ CallInv(f) /\ WalkInv(f, connected) /\ CopyInv(f, connected)
      /\ SentInv(f, connected, want) /\ RangeInv(f, connected) /\ CallsInv(f, dbl)
  BY DEF FrameInv
<1> HIDE DEF g
<1>4. CallInv(g)
  BY <1>2, <1>3 DEF CallInv, SameLoop
<1>5. WalkInv(g, connected \cup {c})
  BY <1>2, <1>3 DEF WalkInv, SameLoop
<1>7. \A d \in Conns, l \in Listeners : <<d, l>> \notin g.touched => d # c /\ <<d, l>> \notin f.touched
  BY <1>2
<1>6. CopyInv(g, connected \cup {c})
  <2>1. \A i \in 1 .. Len(f.copy) : f.copy[i] \in Conns
    BY ElementOfSeq DEF Frame
  <2> QED BY <1>2, <1>3, <1>7, <2>1 DEF CopyInv, SameLoop
<1>8. SentInv(g, connected \cup {c}, want)
  BY <1>2, <1>3, <1>7 DEF SentInv, Target, SameLoop
<1>9. RangeInv(g, connected \cup {c})
  BY <1>2, <1>3, <1>7 DEF RangeInv, SameLoop
<1>10. CallsInv(g, dbl)
  <2>1. \A d : Passed(g, d) <=> Passed(f, d)
    BY <1>2 DEF Passed, Rest, SameLoop
  <2>2. \A d, l : Waits(g, d, l) <=> Waits(f, d, l)
    BY <1>2 DEF Waits, SameLoop
  <2>3. Sound(g) => Sound(f)
    BY <1>2 DEF Sound, SameLoop
  <2> SUFFICES ASSUME Sound(g), NEW d \in Conns \ dbl, NEW l \in Listeners
               PROVE  CallOf(g, d, l)
    BY DEF CallsInv
  <2>4. CallOf(f, d, l)
    BY <1>3, <2>3 DEF CallsInv
  <2> QED BY <1>2, <1>7, <2>1, <2>2, <2>3, <2>4 DEF CallOf, SameLoop
<1> QED BY <1>1, <1>2, <1>4, <1>5, <1>6, <1>8, <1>9, <1>10 DEF FrameInv, SameLoop, g

\* A connection goes, and the iterators to it with it.
LEMMA DisconnectFrame ==
    ASSUME NEW f \in Frame, NEW connected \in SUBSET Conns, NEW want, NEW dbl, NEW c \in Conns,
           FrameInv(f, connected, want, dbl), f.phase = "call"
    PROVE  LET g == [f EXCEPT !.touched = @ \cup ({c} \X Listeners), !.erased = @ \cup {c},
                              !.it = Invalidate(@, c), !.end = Invalidate(@, c)]
           IN  g \in Frame /\ g.phase = f.phase /\ FrameInv(g, connected \ {c}, want, dbl)
<1> DEFINE g == [f EXCEPT !.touched = @ \cup ({c} \X Listeners), !.erased = @ \cup {c},
                          !.it = Invalidate(@, c), !.end = Invalidate(@, c)]
<1>0. /\ f.it \in Conns \cup {End, Dangling} /\ f.end \in Conns \cup {End, Dangling}
      /\ f.touched \in SUBSET (Conns \X Listeners) /\ f.erased \in SUBSET Conns
  BY DEF Frame
<1>1. g \in Frame
  <2>1. /\ Invalidate(f.it, c) \in Conns \cup {End, Dangling}
        /\ Invalidate(f.end, c) \in Conns \cup {End, Dangling}
    BY <1>0 DEF Invalidate
  <2>2. /\ f.touched \cup ({c} \X Listeners) \in SUBSET (Conns \X Listeners)
        /\ f.erased \cup {c} \in SUBSET Conns
    BY <1>0
  <2> QED BY <2>1, <2>2 DEF Frame
<1>2. /\ SameLoop(f, g) /\ g.stale = f.stale /\ g.erased = f.erased \cup {c}
      /\ g.it = Invalidate(f.it, c) /\ g.end = Invalidate(f.end, c)
      /\ g.touched = f.touched \cup ({c} \X Listeners)
  BY DEF Frame, SameLoop
<1>3. /\ CallInv(f) /\ WalkInv(f, connected) /\ CopyInv(f, connected)
      /\ SentInv(f, connected, want) /\ RangeInv(f, connected) /\ CallsInv(f, dbl)
  BY DEF FrameInv
<1> HIDE DEF g
<1>a. End # Dangling /\ c # End /\ c # Dangling
  BY MarksAssumption DEF End, Dangling
<1>b. /\ g.it # Dangling => g.it = f.it /\ f.it # c
      /\ g.end # Dangling => g.end = f.end /\ f.end # c
      /\ g.it = Dangling => f.it = Dangling \/ f.it = c
      /\ g.end = Dangling => f.end = Dangling \/ f.end = c
  BY <1>2 DEF Invalidate
<1>4. CallInv(g)
  BY <1>2, <1>3 DEF CallInv, SameLoop
<1>5. WalkInv(g, connected \ {c})
  <2> SUFFICES ASSUME ~isTypeBroadcast(f.packet)
               PROVE  WalkInv(g, connected \ {c})
    BY <1>2 DEF WalkInv, SameLoop
  <2> DEFINE t == f.packet.type
             Live == {d \in connected : Type[d] = t}
             LiveG == {d \in connected \ {c} : Type[d] = t}
  <2>1. /\ f.it \in Live \cup {End, Dangling} /\ f.end \in Live \cup {End, Dangling}
        /\ f.it # End /\ f.it \in {f.to, Dangling}
        /\ f.it = Dangling \/ f.end = Dangling => \E d \in f.erased : Type[d] = t
        /\ f.it # Dangling /\ f.end # Dangling =>
              /\ f.it = End => f.end = End
              /\ f.it # End /\ f.end # End => Instance[f.it] <= Instance[f.end]
              /\ f.it # f.end
    BY <1>3 DEF WalkInv
  <2>2. g.it \in LiveG \cup {End, Dangling} /\ g.end \in LiveG \cup {End, Dangling}
    BY <1>b, <2>1
  <2>3. g.it = Dangling \/ g.end = Dangling => \E d \in g.erased : Type[d] = t
    BY <1>2, <1>a, <1>b, <2>1
  <2> QED BY <1>2, <1>a, <1>b, <2>1, <2>2, <2>3 DEF WalkInv, SameLoop
<1>7. \A d \in Conns, l \in Listeners : <<d, l>> \notin g.touched => d # c /\ <<d, l>> \notin f.touched
  BY <1>2
<1>6. CopyInv(g, connected \ {c})
  <2>1. \A i \in 1 .. Len(f.copy) : f.copy[i] \in Conns
    BY ElementOfSeq DEF Frame
  <2> QED BY <1>2, <1>3, <1>7, <2>1 DEF CopyInv, SameLoop
<1>8. SentInv(g, connected \ {c}, want)
  BY <1>2, <1>3, <1>7 DEF SentInv, Target, SameLoop
<1>9. RangeInv(g, connected \ {c})
  BY <1>2, <1>3, <1>7, <1>b DEF RangeInv, SameLoop
<1>10. CallsInv(g, dbl)
  <2>1. (~isTypeBroadcast(f.packet) => g.it # Dangling) => \A d : Passed(g, d) <=> Passed(f, d)
    BY <1>2, <1>b DEF Passed, Rest, SameLoop
  <2>2. \A d, l : Waits(g, d, l) <=> Waits(f, d, l)
    BY <1>2 DEF Waits, SameLoop
  <2>3. Sound(g) => Sound(f) /\ (~isTypeBroadcast(f.packet) => g.it # Dangling)
    BY <1>2, <1>b DEF Sound, SameLoop
  <2> SUFFICES ASSUME Sound(g), NEW d \in Conns \ dbl, NEW l \in Listeners
               PROVE  CallOf(g, d, l)
    BY DEF CallsInv
  <2>4. CallOf(f, d, l)
    BY <1>3, <2>3 DEF CallsInv
  <2> QED BY <1>2, <1>7, <2>1, <2>2, <2>3, <2>4 DEF CallOf, SameLoop
<1> QED BY <1>1, <1>2, <1>4, <1>5, <1>6, <1>8, <1>9, <1>10 DEF FrameInv, SameLoop, g

\* A listener comes or goes, and the iterators of its vector with it.
LEMMA ListenFrame ==
    ASSUME NEW f \in Frame, NEW connected \in SUBSET Conns, NEW want, NEW dbl, NEW want2, NEW dbl2,
           NEW c \in Conns, NEW l \in Listeners, NEW g \in Frame,
           \A d \in Conns, k \in Listeners : <<d, k>> # <<c, l>> => want2[d][k] = want[d][k],
           dbl \subseteq dbl2,
           FrameInv(f, connected, want, dbl),
           SameLoop(f, g), g.it = f.it, g.end = f.end, g.erased = f.erased,
           g.touched = f.touched \cup {<<c, l>>},
           g.stale <=> f.stale \/ f.to = c
    PROVE  FrameInv(g, connected, want2, dbl2)
<1>2. /\ SameLoop(f, g) /\ g.it = f.it /\ g.end = f.end /\ g.erased = f.erased
      /\ g.touched = f.touched \cup {<<c, l>>}
      /\ g.stale <=> f.stale \/ f.to = c
  OBVIOUS
<1>3. /\ CallInv(f) /\ WalkInv(f, connected) /\ CopyInv(f, connected)
      /\ SentInv(f, connected, want) /\ RangeInv(f, connected) /\ CallsInv(f, dbl)
  BY DEF FrameInv
<1>4. CallInv(g)
  BY <1>2, <1>3, MarksAssumption DEF CallInv, SameLoop
<1>5. WalkInv(g, connected)
  BY <1>2, <1>3 DEF WalkInv, SameLoop
<1>7. \A d \in Conns, k \in Listeners :
         <<d, k>> \notin g.touched => <<d, k>> # <<c, l>> /\ <<d, k>> \notin f.touched
  BY <1>2
<1>6. CopyInv(g, connected)
  <2>1. \A i \in 1 .. Len(f.copy) : f.copy[i] \in Conns
    BY ElementOfSeq DEF Frame
  <2> QED BY <1>2, <1>3, <1>7, <2>1 DEF CopyInv, SameLoop
<1>8. SentInv(g, connected, want2)
  BY <1>2, <1>3, <1>7 DEF SentInv, Target, SameLoop
<1>9. RangeInv(g, connected)
  BY <1>2, <1>3, <1>7 DEF RangeInv, SameLoop
<1>10. CallsInv(g, dbl2)
  <2>1. \A d : Passed(g, d) <=> Passed(f, d)
    BY <1>2 DEF Passed, Rest, SameLoop
  <2>2. \A d, k : Waits(g, d, k) <=> Waits(f, d, k)
    BY <1>2 DEF Waits, SameLoop
  <2>3. Sound(g) => Sound(f)
    BY <1>2 DEF Sound, SameLoop
  <2> SUFFICES ASSUME Sound(g), NEW d \in Conns \ dbl2, NEW k \in Listeners
               PROVE  CallOf(g, d, k)
    BY DEF CallsInv
  <2>4. CallOf(f, d, k)
    BY <1>3, <2>3 DEF CallsInv
  <2> QED BY <1>2, <1>7, <2>1, <2>2, <2>3, <2>4 DEF CallOf, SameLoop
<1> QED BY <1>4, <1>5, <1>6, <1>8, <1>9, <1>10 DEF FrameInv

-----------------------------------------------------------------------------
(* The innermost routing goes on.                                          *)

\* The loop over the listeners begins, or there is none to call.
LEMMA NotifyFrame ==
    ASSUME NEW f \in Frame, NEW c \in Conns, TypeInv, ListenInv,
           FrameInv(f, m_connected, wanted, doubled), f.phase = "test",
           isTypeBroadcast(f.packet) => f.copy # <<>> /\ c = f.copy[1],
           ~isTypeBroadcast(f.packet) => f.it = c /\ f.it # f.end
    PROVE  /\ CallRecipient(f, c) \in Frame
           /\ FrameInv(CallRecipient(f, c), m_connected, wanted, doubled)

<1> DEFINE t == f.packet.type
<1>1. /\ CallInv(f) /\ WalkInv(f, m_connected) /\ CopyInv(f, m_connected)
      /\ SentInv(f, m_connected, wanted) /\ RangeInv(f, m_connected) /\ CallsInv(f, doubled)
  BY DEF FrameInv
<1>2. /\ f.to = NoOne /\ f.left = <<>> /\ ~f.stale /\ c # NoOne /\ c # End /\ c # Dangling
      /\ c \in Conns /\ f.copy \in Seq(Conns) /\ f.got \in Seq(Conns \X Listeners)
      /\ f.packet \in Packets /\ f.packet.instance \in Int
      /\ f.at \in Nat
  BY <1>1, MarksAssumption, PacketsAssumption DEF CallInv, Frame
<1>3. /\ Type[c] \in Nat /\ Instance[c] \in Nat
      /\ \A d \in Conns : Type[d] \in Nat /\ Instance[d] \in Nat
      /\ \A d \in Conns : Type[d] = Type[c] /\ Instance[d] = Instance[c] => d = c
  BY AddressAssumption
<1>4. ~Passed(f, c)
  <2>1. CASE isTypeBroadcast(f.packet)
    <3>1. 1 \in Rest(f) /\ f.copy[1] = c
      BY <1>2, <2>1, EmptySeq DEF Rest
    <3> QED BY <3>1, <2>1 DEF Passed
  <2>2. CASE ~isTypeBroadcast(f.packet)
    BY <2>2, <1>2, <1>3 DEF Passed
  <2> QED BY <2>1, <2>2
<1>5. ~isTypeBroadcast(f.packet) => c \in m_connected /\ Type[c] = t
  BY <1>1, <1>2 DEF WalkInv
<1>6. ASSUME NEW l \in Listeners, <<c, l>> \notin f.touched, Sound(f),
             c # f.sender, f.packet.message \in Known[c]
      PROVE  c \in m_connected /\ Target(f, c)
  <2>1. CASE isTypeBroadcast(f.packet)
    <3>1. 1 \in 1 .. Len(f.copy) /\ f.copy[1] = c
      BY <1>2, <2>1, EmptySeq
    <3> QED BY <3>1, <2>1, <1>1, <1>6 DEF CopyInv, Target
  <2>2. CASE ~isTypeBroadcast(f.packet)
    <3>1. ~isInstanceBroadcast(f.packet) => Instance[c] = f.packet.instance
      <4> SUFFICES ASSUME ~isInstanceBroadcast(f.packet) PROVE Instance[c] = f.packet.instance
        OBVIOUS
      <4>1. f.it = c /\ f.it # f.end /\ f.end # Dangling
        BY <2>2, <1>6 DEF Sound
      <4>2. Instance[c] >= f.packet.instance
        BY <4>1, <2>2, <1>1, <1>2 DEF RangeInv
      <4>3. Instance[c] > f.packet.instance => f.end # End /\ Instance[f.end] <= Instance[c]
        BY <4>1, <2>2, <1>1, <1>2, <1>5, <1>6 DEF RangeInv
      <4>4. f.end # End => f.end \in Conns /\ Type[f.end] = t /\ Instance[c] <= Instance[f.end]
        BY <4>1, <2>2, <1>1, <1>2 DEF WalkInv, TypeInv
      <4>5. f.end # End => Instance[c] # Instance[f.end]
        BY <4>1, <4>4, <2>2, <1>3, <1>5
      <4> QED BY <4>2, <4>3, <4>4, <4>5, <1>2, <1>3
    <3> QED BY <3>1, <2>2, <1>5, <1>6 DEF Target
  <2> QED BY <2>1, <2>2
<1>7. ASSUME NEW g, g.phase # "test", g.packet = f.packet, g.it = f.it, g.copy = f.copy, g.at = f.at
      PROVE  /\ Passed(g, c)
             /\ \A d \in Conns : Passed(f, d) => Passed(g, d)
             /\ \A d \in Conns : Passed(g, d) /\ Target(f, d) => Passed(f, d) \/ d = c
  <2>1. CASE isTypeBroadcast(f.packet)
    <3>1. /\ Len(f.copy) \in Nat /\ 1 \in 1 .. Len(f.copy) /\ f.copy[1] = c
          /\ \A i \in 1 .. Len(f.copy) : f.copy[i] \in Conns
      BY <1>2, <2>1, EmptySeq, ElementOfSeq
    <3>2. Rest(g) = {i \in 1 .. Len(f.copy) : i > 1} /\ Rest(f) = 1 .. Len(f.copy)
      BY <1>7 DEF Rest
    <3>3. \A i \in 1 .. Len(f.copy) : i > 1 => f.copy[i] # c
      <4> SUFFICES ASSUME NEW i \in 1 .. Len(f.copy), i > 1, f.copy[i] = c PROVE FALSE
        OBVIOUS
      <4>1. Instance[f.copy[1]] < Instance[f.copy[i]]
        BY <3>1, <1>1 DEF CopyInv, Sorted
      <4> QED BY <4>1, <3>1, <1>3
    <3>4. Type[c] = f.at
      BY <3>1, <1>1 DEF CopyInv
    <3>5. \A i \in Rest(f) : i = 1 \/ i \in Rest(g)
      BY <3>1, <3>2
    <3>6. \A i \in Rest(g) : i \in Rest(f)
      BY <3>2
    <3>7. \A d : Passed(f, d) <=> Type[d] <= f.at /\ \A i \in Rest(f) : f.copy[i] # d
      BY <2>1 DEF Passed
    <3>8. \A d : Passed(g, d) <=> Type[d] <= f.at /\ \A i \in Rest(g) : f.copy[i] # d
      BY <2>1, <1>7 DEF Passed
    <3>9. Passed(g, c)
      BY <3>2, <3>3, <3>4, <3>8, <1>2
    <3> QED BY ONLY <3>1, <3>5, <3>6, <3>7, <3>8, <3>9
  <2>2. CASE ~isTypeBroadcast(f.packet)
    <3>1. f.it = c
      BY <2>2
    <3>2. \A d \in Conns : Passed(f, d) <=> Instance[d] < Instance[c]
      BY <2>2, <3>1, <1>2 DEF Passed
    <3>3. \A d \in Conns : Passed(g, d) <=> Instance[d] <= Instance[c]
      BY <2>2, <3>1, <1>2, <1>3, <1>7 DEF Passed
    <3>4. \A d \in Conns : Target(f, d) => Type[d] = Type[c]
      BY <2>2, <1>5 DEF Target
    <3> QED BY <3>2, <3>3, <3>4, <1>3
  <2> QED BY <2>1, <2>2
<1>8. ASSUME c = f.sender \/ f.packet.message \notin Known[c] \/ m_msgListeners[c] = <<>>
      PROVE  LET g == [f EXCEPT !.phase = "advance"]
             IN  g \in Frame /\ FrameInv(g, m_connected, wanted, doubled)
  <2> DEFINE g == [f EXCEPT !.phase = "advance"]
  <2>1. g \in Frame
    BY DEF Frame
  <2>2. /\ g.sender = f.sender /\ g.packet = f.packet /\ g.phase = "advance"
        /\ g.at = f.at /\ g.copy = f.copy /\ g.to = f.to /\ g.left = f.left
        /\ g.expected = f.expected /\ g.got = f.got /\ g.it = f.it /\ g.end = f.end
        /\ g.stale = f.stale /\ g.erased = f.erased /\ g.touched = f.touched
    BY DEF Frame
  <2> HIDE DEF g
  <2>3. CallInv(g)
    BY <2>2, <1>1, <1>2, MarksAssumption DEF CallInv
  <2>4. WalkInv(g, m_connected)
    BY <2>2, <1>1, <1>2 DEF WalkInv
  <2>5. CopyInv(g, m_connected)
    BY <2>2, <1>1 DEF CopyInv
  <2>6. SentInv(g, m_connected, wanted)
    BY <2>2, <1>1 DEF SentInv, Target
  <2>7. RangeInv(g, m_connected)
    BY <2>2, <1>1 DEF RangeInv
  <2>8. CallsInv(g, doubled)
    <3> SUFFICES ASSUME Sound(g), NEW d \in Conns \ doubled, NEW l \in Listeners
                 PROVE  CallOf(g, d, l)
      BY DEF CallsInv
    <3>1. Sound(f)
      BY <2>2 DEF Sound
    <3>2. CallOf(f, d, l)
      BY <3>1, <1>1 DEF CallsInv
    <3>3. Passed(f, d) => Passed(g, d)
      BY <2>2, <1>7
    <3>4. Waits(g, d, l) <=> Waits(f, d, l)
      BY <2>2 DEF Waits
    <3>5. <<d, l>> \notin f.touched /\ <<d, l>> \in f.expected =>
             d \in m_connected /\ Target(f, d) /\ wanted[d][l] > 0
      BY <1>1 DEF SentInv
    <3>6. wanted[d][l] > 0 => m_msgListeners[d] # <<>>
      BY DEF ListenInv, Contains
    <3>7. <<d, l>> \notin f.touched /\ <<d, l>> \in f.expected => d # c
      BY <3>5, <3>6, <1>8 DEF Target
    <3>8. <<d, l>> \notin f.touched /\ <<d, l>> \in f.expected /\ Passed(g, d) => Passed(f, d)
      BY <3>5, <3>7, <2>2, <1>7
    <3> QED BY <3>2, <3>3, <3>4, <3>8, <2>2, <1>2, MarksAssumption DEF CallOf
  <2> QED BY <2>1, <2>3, <2>4, <2>5, <2>6, <2>7, <2>8 DEF FrameInv, g
<1>9. ASSUME c # f.sender, f.packet.message \in Known[c], m_msgListeners[c] # <<>>
      PROVE  LET g == [f EXCEPT !.phase = "call", !.to = c, !.left = m_msgListeners[c],
                                !.got = Append(@, <<c, Head(m_msgListeners[c])>>)]
             IN  g \in Frame /\ FrameInv(g, m_connected, wanted, doubled)
  <2> DEFINE v == m_msgListeners[c]
             h == Head(v)
             g == [f EXCEPT !.phase = "call", !.to = c, !.left = v, !.got = Append(@, <<c, h>>)]
  <2>1. /\ v \in Seq(Listeners) /\ Len(v) \in Nat \ {0} /\ h \in Listeners /\ h = v[1]
        /\ \A i \in 1 .. Len(v) : v[i] \in Listeners
    BY <1>9, EmptySeq, ElementOfSeq DEF TypeInv
  <2> HIDE DEF v, h
  <2>2. /\ Append(f.got, <<c, h>>) \in Seq(Conns \X Listeners)
        /\ Len(Append(f.got, <<c, h>>)) = Len(f.got) + 1
        /\ \A i \in 1 .. Len(f.got) : Append(f.got, <<c, h>>)[i] = f.got[i]
        /\ Append(f.got, <<c, h>>)[Len(f.got) + 1] = <<c, h>>
        /\ Len(f.got) \in Nat
    BY <2>1, <1>2
  <2>3. g \in Frame
    BY <2>1, <2>2 DEF Frame
  <2>4. /\ g.sender = f.sender /\ g.packet = f.packet /\ g.phase = "call"
        /\ g.at = f.at /\ g.copy = f.copy /\ g.to = c /\ g.left = v
        /\ g.expected = f.expected /\ g.got = Append(f.got, <<c, h>>) /\ g.it = f.it /\ g.end = f.end
        /\ g.stale = f.stale /\ g.erased = f.erased /\ g.touched = f.touched
    BY DEF Frame
  <2> HIDE DEF g
  <2>5. CallInv(g)
    BY <2>4, <1>1, <1>2, <1>9 DEF CallInv, v
  <2>6. WalkInv(g, m_connected)
    BY <2>4, <1>1, <1>2 DEF WalkInv
  <2>7. CopyInv(g, m_connected)
    BY <2>4, <1>1 DEF CopyInv
  <2>8. SentInv(g, m_connected, wanted)
    BY <2>4, <1>1 DEF SentInv, Target
  <2>9. RangeInv(g, m_connected)
    BY <2>4, <1>1 DEF RangeInv
  <2>10. CallsInv(g, doubled)
    <3> SUFFICES ASSUME Sound(g), NEW d \in Conns \ doubled, NEW l \in Listeners
                 PROVE  CallOf(g, d, l)
      BY DEF CallsInv
    <3>1. Sound(f)
      BY <2>4 DEF Sound
    <3>2. CallOf(f, d, l)
      BY <3>1, <1>1 DEF CallsInv
    <3>3. /\ Passed(g, c)
          /\ Passed(f, d) => Passed(g, d)
          /\ Passed(g, d) /\ Target(f, d) => Passed(f, d) \/ d = c
      BY <2>4, <1>7
    <3>4. ~Waits(f, d, l)
      BY <1>2, MarksAssumption DEF Waits
    <3>5. <<d, l>> \notin f.touched =>
             (<<d, l>> \in f.expected <=> d \in m_connected /\ Target(f, d) /\ wanted[d][l] > 0)
      BY <1>1 DEF SentInv
    <3>6. Contains(g.got, <<d, l>>) <=> Contains(f.got, <<d, l>>) \/ (d = c /\ l = h)
      <4>1. <<c, h>> \in Conns \X Listeners
        BY <2>1
      <4>2. Contains(g.got, <<d, l>>) <=> Contains(f.got, <<d, l>>) \/ <<d, l>> = <<c, h>>
        BY <4>1, <2>4, <1>2, Appended
      <4> QED BY <4>2
    <3>7. CASE d # c
      <4>1. ~Waits(g, d, l)
        BY <2>4, <3>7 DEF Waits
      <4>2. \A i \in 1 .. Len(g.got) : g.got[i] = <<d, l>> => i \in 1 .. Len(f.got) /\ f.got[i] = <<d, l>>
        BY <2>2, <2>4, <3>7
      <4>3. \A i, j \in 1 .. Len(g.got) : g.got[i] = <<d, l>> /\ g.got[j] = <<d, l>> => i = j
        BY <4>2, <3>2 DEF CallOf
      <4> QED BY <4>1, <4>3, <3>2, <3>3, <3>4, <3>5, <3>6, <3>7, <2>4 DEF CallOf
    <3>8. CASE d = c
      <4>1. ~Contains(f.got, <<d, l>>)
        BY <3>2, <3>8, <1>4 DEF CallOf
      <4>2. \A i \in 1 .. Len(g.got) : g.got[i] = <<d, l>> => i = Len(f.got) + 1
        BY <4>1, <2>2, <2>4 DEF Contains
      <4>3. \A i, j \in 1 .. Len(g.got) : g.got[i] = <<d, l>> /\ g.got[j] = <<d, l>> => i = j
        BY <4>2
      <4>4. Distinct(v) /\ (wanted[d][l] > 0 <=> Contains(v, l))
        BY <3>8 DEF ListenInv, v
      <4>5. Waits(g, d, l) <=> \E i \in 2 .. Len(v) : v[i] = l
        BY <2>4, <3>8 DEF Waits
      <4>6. Contains(v, l) <=> l = h \/ Waits(g, d, l)
        <5>1. \A i \in 1 .. Len(v) : i = 1 \/ i \in 2 .. Len(v)
          BY <2>1
        <5>2. (\A i \in 2 .. Len(v) : i \in 1 .. Len(v)) /\ 1 \in 1 .. Len(v)
          BY <2>1
        <5> QED BY <5>1, <5>2, <4>5, <2>1 DEF Contains
      <4>7. l = h => ~Waits(g, d, l)
        <5>1. \A i \in 2 .. Len(v) : i \in 1 .. Len(v) /\ 1 \in 1 .. Len(v) /\ i # 1
          BY <2>1
        <5> QED BY <5>1, <4>4, <4>5, <2>1 DEF Distinct
      <4>8. <<d, l>> \notin f.touched => c \in m_connected /\ Target(f, c)
        BY <3>1, <3>8, <1>6, <1>9
      <4> QED BY <4>1, <4>3, <4>4, <4>6, <4>7, <4>8, <3>3, <3>5, <3>6, <3>8, <2>4 DEF CallOf
    <3> QED BY <3>7, <3>8
  <2> QED BY <2>3, <2>5, <2>6, <2>7, <2>8, <2>9, <2>10 DEF FrameInv, g, h, v
<1> QED BY <1>8, <1>9 DEF CallRecipient, NotifyFirst

\* A listener returns and there is another one.
LEMMA NextListenerFrame ==
    ASSUME NEW f \in Frame, NEW connected \in SUBSET Conns, NEW want, NEW dbl,
           FrameInv(f, connected, want, dbl), f.phase = "call", ~f.stale, Len(f.left) > 1
    PROVE  LET g == [f EXCEPT !.left = Tail(@), !.got = Append(@, <<f.to, f.left[2]>>)]
           IN  g \in Frame /\ FrameInv(g, connected, want, dbl)
<1> DEFINE v == f.left
           x == <<f.to, v[2]>>
           g == [f EXCEPT !.left = Tail(@), !.got = Append(@, x)]
<1>1. /\ CallInv(f) /\ WalkInv(f, connected) /\ CopyInv(f, connected)
      /\ SentInv(f, connected, want) /\ RangeInv(f, connected) /\ CallsInv(f, dbl)
  BY DEF FrameInv
<1>2. /\ v \in Seq(Listeners) /\ Len(v) \in Nat /\ Len(v) > 1 /\ v # <<>> /\ f.to \in Conns
      /\ \A i \in 1 .. Len(v) : v[i] \in Listeners
      /\ f.got \in Seq(Conns \X Listeners)
  BY <1>1, ElementOfSeq DEF Frame, CallInv
<1>3. /\ Tail(v) \in Seq(Listeners) /\ Len(Tail(v)) = Len(v) - 1
      /\ \A i \in 1 .. Len(v) - 1 : Tail(v)[i] = v[i + 1]
  BY <1>2, HeadTailProperties
<1>4. x \in Conns \X Listeners
  BY <1>2
<1> HIDE DEF x
<1>5. g \in Frame
  <2>1. Append(f.got, x) \in Seq(Conns \X Listeners)
    BY <1>2, <1>4
  <2>2. f.left = v /\ Tail(f.left) \in Seq(Listeners)
    BY <1>3
  <2> HIDE DEF v
  <2> QED BY <2>1, <2>2 DEF Frame
<1>6. /\ g.sender = f.sender /\ g.packet = f.packet /\ g.phase = "call"
      /\ g.at = f.at /\ g.copy = f.copy /\ g.to = f.to /\ g.left = Tail(v)
      /\ g.expected = f.expected /\ g.got = Append(f.got, x) /\ g.it = f.it /\ g.end = f.end
      /\ g.stale = f.stale /\ g.erased = f.erased /\ g.touched = f.touched
  BY DEF Frame
<1> HIDE DEF g, v
<1>7. CallInv(g)
  <2>1. Tail(v) # <<>>
    <3> DEFINE w == Tail(v)
    <3>1. Len(w) = Len(v) - 1
      BY <1>3
    <3> HIDE DEF w
    <3>2. Len(w) # 0
      BY <3>1, <1>2
    <3>3. w # <<>>
      BY <3>2, EmptySeq
    <3> QED BY <3>3 DEF w
  <2> QED BY <2>1, <1>1, <1>2, <1>6 DEF CallInv
<1>8. WalkInv(g, connected)
  BY <1>1, <1>6 DEF WalkInv
<1>9. CopyInv(g, connected)
  BY <1>1, <1>6 DEF CopyInv
<1>10. SentInv(g, connected, want)
  BY <1>1, <1>6 DEF SentInv, Target
<1>11. RangeInv(g, connected)
  BY <1>1, <1>6 DEF RangeInv
<1>12. CallsInv(g, dbl)
  <2> SUFFICES ASSUME Sound(g), NEW d \in Conns \ dbl, NEW l \in Listeners
               PROVE  CallOf(g, d, l)
    BY DEF CallsInv
  <2>1. Sound(f)
    BY <1>6 DEF Sound
  <2>2. CallOf(f, d, l)
    BY <2>1, <1>1 DEF CallsInv
  <2>3. Passed(g, d) <=> Passed(f, d)
    BY <1>6 DEF Passed, Rest
  <2> DEFINE y == <<d, l>>
  <2>a. /\ Contains(Append(f.got, x), y) <=> Contains(f.got, y) \/ y = x
        /\ \A i \in 1 .. Len(Append(f.got, x)) :
              Append(f.got, x)[i] = y => \/ i \in 1 .. Len(f.got) /\ f.got[i] = y
                                         \/ i = Len(f.got) + 1 /\ y = x
    <3> HIDE DEF y
    <3> QED BY <1>2, <1>4, Appended
  <2>4. Contains(g.got, <<d, l>>) <=> Contains(f.got, <<d, l>>) \/ <<d, l>> = x
    BY <2>a, <1>6
  <2>5. \A i \in 1 .. Len(g.got) :
           g.got[i] = <<d, l>> => \/ i \in 1 .. Len(f.got) /\ f.got[i] = <<d, l>>
                                  \/ i = Len(f.got) + 1 /\ <<d, l>> = x
    BY <2>a, <1>6
  <2> HIDE DEF y
  <2>6. <<d, l>> = x <=> d = f.to /\ l = v[2]
    BY DEF x
  <2>7. CASE d # f.to
    <3>1. ~Waits(g, d, l) /\ ~Waits(f, d, l) /\ <<d, l>> # x
      BY <2>6, <2>7, <1>6 DEF Waits
    <3>2. \A i, j \in 1 .. Len(g.got) : g.got[i] = <<d, l>> /\ g.got[j] = <<d, l>> => i = j
      BY <3>1, <2>2, <2>5 DEF CallOf
    <3> QED BY <3>1, <3>2, <2>2, <2>3, <2>4, <2>7, <1>6 DEF CallOf
  <2>8. CASE d = f.to
    <3>1. Distinct(v) /\ Passed(f, d)
      BY <2>2, <2>8 DEF CallOf, v
    <3>2. Distinct(Tail(v))
      <4>1. \A i \in 1 .. Len(v) - 1 : i + 1 \in 1 .. Len(v)
        BY <1>2
      <4>2. \A i, j \in 1 .. Len(v) - 1 : i + 1 = j + 1 => i = j
        BY <1>2
      <4> QED BY <4>1, <4>2, <3>1, <1>3 DEF Distinct
    <3>3. Waits(f, d, l) <=> \E i \in 2 .. Len(v) : v[i] = l
      BY <2>8 DEF Waits, v
    <3>4. Waits(g, d, l) <=> \E i \in 2 .. Len(v) - 1 : v[i + 1] = l
      <4>1. \A i \in 2 .. Len(v) - 1 : i \in 1 .. Len(v) - 1
        BY <1>2
      <4> QED BY <4>1, <2>8, <1>3, <1>6 DEF Waits
    <3>5. Waits(f, d, l) <=> Waits(g, d, l) \/ l = v[2]
      <4>1. /\ \A i \in 2 .. Len(v) - 1 : i + 1 \in 2 .. Len(v)
            /\ \A i \in 2 .. Len(v) : i = 2 \/ (i - 1 \in 2 .. Len(v) - 1 /\ (i - 1) + 1 = i)
            /\ 2 \in 2 .. Len(v)
        BY <1>2
      <4> QED BY <4>1, <3>3, <3>4
    <3>6. Waits(g, d, l) => l # v[2]
      <4>1. \A i \in 2 .. Len(v) - 1 : i + 1 \in 1 .. Len(v) /\ 2 \in 1 .. Len(v) /\ i + 1 # 2
        BY <1>2
      <4> QED BY <4>1, <3>1, <3>4 DEF Distinct
    <3>7. l = v[2] => ~Contains(f.got, <<d, l>>)
      BY <3>5, <2>2 DEF CallOf
    <3>8. \A i, j \in 1 .. Len(g.got) : g.got[i] = <<d, l>> /\ g.got[j] = <<d, l>> => i = j
      <4>1. CASE l = v[2]
        <5>1. \A i \in 1 .. Len(f.got) : f.got[i] # <<d, l>>
          BY <4>1, <3>7 DEF Contains
        <5> QED BY <5>1, <2>5
      <4>2. CASE l # v[2]
        BY <4>2, <2>2, <2>5, <2>6 DEF CallOf
      <4> QED BY <4>1, <4>2
    <3> QED BY <3>1, <3>2, <3>5, <3>6, <3>8, <2>2, <2>3, <2>4, <2>6, <2>8, <1>6 DEF CallOf
  <2> QED BY <2>7, <2>8
<1> QED BY <1>5, <1>7, <1>8, <1>9, <1>10, <1>11, <1>12 DEF FrameInv, g, x, v

\* The last listener returns.
LEMMA LastListenerFrame ==
    ASSUME NEW f \in Frame, NEW connected \in SUBSET Conns, NEW want, NEW dbl,
           FrameInv(f, connected, want, dbl), f.phase = "call", ~f.stale, ~(Len(f.left) > 1)
    PROVE  LET g == [f EXCEPT !.phase = "advance", !.to = NoOne, !.left = <<>>]
           IN  g \in Frame /\ FrameInv(g, connected, want, dbl)
<1> DEFINE g == [f EXCEPT !.phase = "advance", !.to = NoOne, !.left = <<>>]
<1>1. /\ CallInv(f) /\ WalkInv(f, connected) /\ CopyInv(f, connected)
      /\ SentInv(f, connected, want) /\ RangeInv(f, connected) /\ CallsInv(f, dbl)
  BY DEF FrameInv
<1>2. g \in Frame
  <2>1. <<>> \in Seq(Listeners) /\ NoOne \in Conns \cup {NoOne}
    OBVIOUS
  <2> QED BY <2>1 DEF Frame
<1>3. /\ g.sender = f.sender /\ g.packet = f.packet /\ g.phase = "advance"
      /\ g.at = f.at /\ g.copy = f.copy /\ g.to = NoOne /\ g.left = <<>>
      /\ g.expected = f.expected /\ g.got = f.got /\ g.it = f.it /\ g.end = f.end
      /\ g.stale = f.stale /\ g.erased = f.erased /\ g.touched = f.touched
  BY DEF Frame
<1> HIDE DEF g
<1>4. CallInv(g)
  BY <1>1, <1>3, MarksAssumption DEF CallInv
<1>5. WalkInv(g, connected)
  BY <1>1, <1>3 DEF WalkInv
<1>6. CopyInv(g, connected)
  BY <1>1, <1>3 DEF CopyInv
<1>7. SentInv(g, connected, want)
  BY <1>1, <1>3 DEF SentInv, Target
<1>8. RangeInv(g, connected)
  BY <1>1, <1>3 DEF RangeInv
<1>9. CallsInv(g, dbl)
  <2> SUFFICES ASSUME Sound(g), NEW d \in Conns \ dbl, NEW l \in Listeners
               PROVE  CallOf(g, d, l)
    BY DEF CallsInv
  <2>1. CallOf(f, d, l)
    BY <1>1, <1>3 DEF CallsInv, Sound
  <2>2. Passed(g, d) <=> Passed(f, d)
    BY <1>3 DEF Passed, Rest
  <2>3. ~Waits(f, d, l) /\ ~Waits(g, d, l)
    <3>1. Len(f.left) \in Nat
      BY DEF Frame
    <3>2. 2 .. Len(f.left) = {}
      BY <3>1
    <3> QED BY <3>2, <1>3, MarksAssumption DEF Waits
  <2> QED BY <2>1, <2>2, <2>3, <1>3, MarksAssumption DEF CallOf
<1> QED BY <1>2, <1>4, <1>5, <1>6, <1>7, <1>8, <1>9 DEF FrameInv, g

\* The element after that of c in the inner map.
LEMMA NextElement ==
    ASSUME TypeInv, TableInv, NEW c \in m_connected
    PROVE  LET s == m_connections[Type[c]]
               i == CHOOSE i \in DOMAIN s : s[i] = c
               n == At(s, i + 1)
               Live == {d \in m_connected : Type[d] = Type[c]}
           IN  /\ n = End \/ (n \in Live /\ Instance[c] < Instance[n])
               /\ \A d \in Live : Instance[c] < Instance[d] => n # End /\ Instance[n] <= Instance[d]
<1> DEFINE s == m_connections[Type[c]]
           i == CHOOSE i \in DOMAIN s : s[i] = c
           n == At(s, i + 1)
           Live == {d \in m_connected : Type[d] = Type[c]}
<1>1. c \in Conns /\ Type[c] \in Types
  BY DEF TypeInv, Types
<1>2. /\ s \in Seq(Conns) /\ Sorted(s)
      /\ \A d \in Conns : Contains(s, d) <=> d \in m_connected /\ Type[d] = Type[c]
  BY <1>1 DEF TypeInv, TableInv
<1> HIDE DEF s
<1>3. /\ Len(s) \in Nat /\ DOMAIN s = 1 .. Len(s)
      /\ \A j \in 1 .. Len(s) : s[j] \in Conns /\ Instance[s[j]] \in Nat
  BY <1>2, LenProperties, ElementOfSeq, AddressAssumption
<1>4. Contains(s, c)
  BY <1>1, <1>2
<1>5. i \in 1 .. Len(s) /\ s[i] = c
  BY <1>3, <1>4 DEF Contains
<1> HIDE DEF i
<1>6. n = IF i + 1 <= Len(s) THEN s[i + 1] ELSE End
  BY DEF At
<1> HIDE DEF n
<1>7. ASSUME n # End
      PROVE  i + 1 \in 1 .. Len(s) /\ n = s[i + 1] /\ n \in Live /\ Instance[c] < Instance[n]
  <2>1. i + 1 \in 1 .. Len(s) /\ n = s[i + 1] /\ i < i + 1
    BY <1>3, <1>5, <1>6, <1>7
  <2>2. n \in Conns /\ Contains(s, n)
    BY <2>1, <1>3 DEF Contains
  <2>3. Instance[c] < Instance[n]
    BY <2>1, <1>2, <1>5 DEF Sorted
  <2> QED BY <2>1, <2>2, <2>3, <1>2
<1>8. ASSUME NEW d \in Live, Instance[c] < Instance[d]
      PROVE  n # End /\ Instance[n] <= Instance[d]
  <2>1. d \in Conns /\ Contains(s, d)
    BY <1>2, <1>8 DEF TypeInv
  <2>2. PICK j \in 1 .. Len(s) : s[j] = d
    BY <2>1 DEF Contains
  <2>3. ~(j < i) /\ j # i
    BY <2>2, <1>2, <1>3, <1>5, <1>8 DEF Sorted
  <2>4. i + 1 \in 1 .. Len(s) /\ (j = i + 1 \/ i + 1 < j)
    BY <2>3, <1>3, <1>5
  <2>5. n = s[i + 1] /\ n \in Conns
    BY <2>4, <1>3, <1>6
  <2>6. Instance[n] <= Instance[d]
    BY <2>2, <2>4, <2>5, <1>2, <1>3 DEF Sorted
  <2> QED BY <2>5, <2>6, MarksAssumption
<1> QED BY <1>7, <1>8 DEF n, i, s

\* The increment of the iterator of an addressed routing.
LEMMA AdvanceFrame ==
    ASSUME TypeInv, TableInv, NEW f \in Frame, FrameInv(f, m_connected, wanted, doubled),
           f.phase = "advance", ~isTypeBroadcast(f.packet), f.it # Dangling
    PROVE  LET s == m_connections[f.packet.type]
               i == CHOOSE i \in DOMAIN s : s[i] = f.it
               g == [f EXCEPT !.phase = "test", !.it = At(s, i + 1)]
           IN  g \in Frame /\ FrameInv(g, m_connected, wanted, doubled)
<1> DEFINE t == f.packet.type
           s == m_connections[t]
           i == CHOOSE i \in DOMAIN s : s[i] = f.it
           n == At(s, i + 1)
           g == [f EXCEPT !.phase = "test", !.it = n]
           Live == {d \in m_connected : Type[d] = t}
<1>1. /\ CallInv(f) /\ WalkInv(f, m_connected) /\ CopyInv(f, m_connected)
      /\ SentInv(f, m_connected, wanted) /\ RangeInv(f, m_connected) /\ CallsInv(f, doubled)
  BY DEF FrameInv
<1>2. /\ f.it \in Live /\ f.it # End /\ f.end \in Live \cup {End, Dangling}
      /\ f.end # Dangling /\ f.end # End => Instance[f.it] <= Instance[f.end]
      /\ f.end # Dangling => f.it # f.end
      /\ f.end = Dangling => \E c \in f.erased : Type[c] = t
  BY <1>1 DEF WalkInv
<1>3. m_connected \subseteq Conns
  BY DEF TypeInv
<1>4. /\ n = End \/ (n \in Live /\ Instance[f.it] < Instance[n])
      /\ \A d \in Live : Instance[f.it] < Instance[d] => n # End /\ Instance[n] <= Instance[d]
  <2> DEFINE c == f.it
  <2>1. c \in m_connected /\ Type[c] = t
    BY <1>2
  <2> HIDE DEF c
  <2>2. LET i0 == CHOOSE j \in DOMAIN s : s[j] = c
            n0 == At(s, i0 + 1)
        IN  /\ n0 = End \/ (n0 \in Live /\ Instance[c] < Instance[n0])
            /\ \A d \in Live : Instance[c] < Instance[d] => n0 # End /\ Instance[n0] <= Instance[d]
    <3> HIDE DEF t
    <3> QED BY <2>1, NextElement
  <2> QED BY <2>2 DEF c
<1> HIDE DEF n
<1>5. /\ n # Dangling /\ End # Dangling /\ f.packet.instance \in Int
      /\ \A d \in Conns : Instance[d] \in Nat /\ d # End /\ d # Dangling
      /\ \A d, e \in Live : Instance[d] = Instance[e] => d = e
  BY <1>3, <1>4, MarksAssumption, AddressAssumption, PacketsAssumption DEF End, Dangling, Frame
<1>6. g \in Frame
  BY <1>3, <1>4 DEF Frame
<1>7. /\ g.sender = f.sender /\ g.packet = f.packet /\ g.phase = "test"
      /\ g.at = f.at /\ g.copy = f.copy /\ g.to = f.to /\ g.left = f.left
      /\ g.expected = f.expected /\ g.got = f.got /\ g.it = n /\ g.end = f.end
      /\ g.stale = f.stale /\ g.erased = f.erased /\ g.touched = f.touched
  BY DEF Frame
<1> HIDE DEF g
<1>8. CallInv(g)
  BY <1>1, <1>7 DEF CallInv
<1>9. WalkInv(g, m_connected)
  <2>1. f.end # Dangling /\ f.end # End => n # End /\ Instance[n] <= Instance[f.end]
    <3> SUFFICES ASSUME f.end # Dangling, f.end # End
                 PROVE  n # End /\ Instance[n] <= Instance[f.end]
      OBVIOUS
    <3>1. f.end \in Live /\ Instance[f.it] # Instance[f.end] /\ Instance[f.it] <= Instance[f.end]
      BY <1>2, <1>5
    <3>2. Instance[f.it] < Instance[f.end]
      BY <3>1, <1>2, <1>3, <1>5
    <3> QED BY <3>1, <3>2, <1>4
  <2> QED BY <2>1, <1>2, <1>4, <1>5, <1>7 DEF WalkInv
<1>10. CopyInv(g, m_connected)
  BY <1>1, <1>7 DEF CopyInv
<1>11. SentInv(g, m_connected, wanted)
  BY <1>1, <1>7 DEF SentInv, Target
<1>12. RangeInv(g, m_connected)
  <2>1. n # End /\ Instance[f.it] >= f.packet.instance => Instance[n] >= f.packet.instance
    BY <1>2, <1>3, <1>4, <1>5
  <2> QED BY <2>1, <1>1, <1>2, <1>7 DEF RangeInv
<1>13. CallsInv(g, doubled)
  <2> SUFFICES ASSUME Sound(g), NEW d \in Conns \ doubled, NEW l \in Listeners
               PROVE  CallOf(g, d, l)
    BY DEF CallsInv
  <2>1. CallOf(f, d, l)
    BY <1>1, <1>7 DEF CallsInv, Sound
  <2>2. Passed(f, d) <=> Instance[d] <= Instance[f.it]
    BY <1>2, <1>3, <1>5 DEF Passed
  <2>3. Passed(g, d) <=> n = End \/ Instance[d] < Instance[n]
    BY <1>7 DEF Passed
  <2>4. Passed(f, d) => Passed(g, d)
    BY <2>2, <2>3, <1>2, <1>3, <1>4, <1>5
  <2>5. Passed(g, d) /\ d \in Live => Passed(f, d)
    BY <2>2, <2>3, <1>2, <1>3, <1>4, <1>5
  <2>6. <<d, l>> \notin f.touched /\ <<d, l>> \in f.expected => d \in Live
    BY <1>1 DEF SentInv, Target
  <2>7. Waits(g, d, l) <=> Waits(f, d, l)
    BY <1>7 DEF Waits
  <2> QED BY <2>1, <2>4, <2>5, <2>6, <2>7, <1>7 DEF CallOf
<1> QED BY <1>6, <1>8, <1>9, <1>10, <1>11, <1>12, <1>13 DEF FrameInv, g, n

\* The increment in the loop over the copy.
LEMMA BroadcastAdvanceFrame ==
    ASSUME NEW f \in Frame, NEW connected \in SUBSET Conns, NEW want, NEW dbl,
           FrameInv(f, connected, want, dbl), f.phase = "advance", isTypeBroadcast(f.packet)
    PROVE  LET g == [f EXCEPT !.phase = "test", !.copy = Tail(@)]
           IN  g \in Frame /\ FrameInv(g, connected, want, dbl)
<1> DEFINE v == f.copy
           w == Tail(v)
           g == [f EXCEPT !.phase = "test", !.copy = w]
<1>1. /\ CallInv(f) /\ WalkInv(f, connected) /\ CopyInv(f, connected)
      /\ SentInv(f, connected, want) /\ RangeInv(f, connected) /\ CallsInv(f, dbl)
  BY DEF FrameInv
<1>2. v \in Seq(Conns) /\ v # <<>> /\ Len(v) \in Nat
  BY <1>1 DEF CopyInv, Frame
<1>3. w \in Seq(Conns) /\ Len(w) = Len(v) - 1 /\ \A i \in 1 .. Len(w) : w[i] = v[i + 1]
  BY <1>2, HeadTailProperties
<1> HIDE DEF w
<1>4. /\ Len(w) \in Nat
      /\ \A i \in 1 .. Len(w) : i + 1 \in 1 .. Len(v) /\ i + 1 > 1
      /\ \A i \in 1 .. Len(v) : i > 1 => i - 1 \in 1 .. Len(w) /\ (i - 1) + 1 = i
  BY <1>2, <1>3
<1>5. g \in Frame
  BY <1>3 DEF Frame
<1>6. /\ g.sender = f.sender /\ g.packet = f.packet /\ g.phase = "test"
      /\ g.at = f.at /\ g.copy = w /\ g.to = f.to /\ g.left = f.left
      /\ g.expected = f.expected /\ g.got = f.got /\ g.it = f.it /\ g.end = f.end
      /\ g.stale = f.stale /\ g.erased = f.erased /\ g.touched = f.touched
  BY DEF Frame
<1> HIDE DEF g
<1>7. CallInv(g)
  BY <1>1, <1>6 DEF CallInv
<1>8. WalkInv(g, connected)
  BY <1>6 DEF WalkInv
<1>9. CopyInv(g, connected)
  <2>1. Sorted(w)
    <3>1. \A i, j \in 1 .. Len(w) : i < j => i + 1 < j + 1
      BY <1>4
    <3> QED BY <3>1, <1>1, <1>3, <1>4 DEF CopyInv, Sorted
  <2>2. \A i \in 1 .. Len(w) : \E j \in 1 .. Len(v) : w[i] = v[j]
    BY <1>3, <1>4
  <2> QED BY <2>1, <2>2, <1>1, <1>3, <1>6 DEF CopyInv
<1>10. SentInv(g, connected, want)
  BY <1>1, <1>6 DEF SentInv, Target
<1>11. RangeInv(g, connected)
  BY <1>6 DEF RangeInv
<1>12. CallsInv(g, dbl)
  <2> SUFFICES ASSUME Sound(g), NEW d \in Conns \ dbl, NEW l \in Listeners
               PROVE  CallOf(g, d, l)
    BY DEF CallsInv
  <2>1. CallOf(f, d, l)
    BY <1>1, <1>6 DEF CallsInv, Sound
  <2>2. Passed(f, d) <=> Type[d] <= f.at /\ \A i \in 1 .. Len(v) : i > 1 => v[i] # d
    BY DEF Passed, Rest
  <2>3. Passed(g, d) <=> Type[d] <= f.at /\ \A i \in 1 .. Len(w) : w[i] # d
    BY <1>6 DEF Passed, Rest
  <2>4. Passed(g, d) <=> Passed(f, d)
    BY <2>2, <2>3, <1>3, <1>4
  <2>5. Waits(g, d, l) <=> Waits(f, d, l)
    BY <1>6 DEF Waits
  <2> QED BY <2>1, <2>4, <2>5, <1>6 DEF CallOf
<1> QED BY <1>5, <1>7, <1>8, <1>9, <1>10, <1>11, <1>12 DEF FrameInv, g, w

\* The part of an inner map that a broadcast uses: the recipients by instance.
LEMMA ChosenPart ==
    ASSUME NEW s \in Seq(Conns), Sorted(s), NEW p \in Packets
    PROVE  LET v == Chosen(s, p) IN
           /\ v \in Seq(Conns) /\ Sorted(v)
           /\ \A i \in 1 .. Len(v) : /\ Contains(s, v[i])
                                     /\ isInstanceBroadcast(p) \/ Instance[v[i]] = p.instance
           /\ \A c \in Conns : /\ Contains(s, c)
                               /\ isInstanceBroadcast(p) \/ Instance[c] = p.instance
                               => \E i \in 1 .. Len(v) : v[i] = c
<1> DEFINE v == Chosen(s, p)
           b == lower_bound(s, p.instance)
<1>1. /\ Len(s) \in Nat /\ p.instance \in Int
      /\ \A i \in 1 .. Len(s) : s[i] \in Conns /\ Instance[s[i]] \in Nat
      /\ \A c \in Conns : Instance[c] \in Nat
  BY LenProperties, ElementOfSeq, AddressAssumption, PacketsAssumption
<1>2. CASE isInstanceBroadcast(p)
  <2>1. v = s
    BY <1>2 DEF Chosen
  <2> HIDE DEF v
  <2>2. v \in Seq(Conns) /\ Sorted(v) /\ (\A i \in 1 .. Len(v) : Contains(s, v[i]))
        /\ \A c \in Conns : Contains(s, c) => \E i \in 1 .. Len(v) : v[i] = c
    BY <2>1 DEF Contains
  <2> QED BY <2>2, <1>2 DEF v
<1>3. CASE ~isInstanceBroadcast(p)
  <2>1. \/ b = End /\ \A i \in 1 .. Len(s) : Instance[s[i]] < p.instance
        \/ /\ b \in Conns /\ Contains(s, b) /\ Instance[b] >= p.instance
           /\ \A i \in 1 .. Len(s) : Instance[s[i]] >= p.instance => Instance[s[i]] >= Instance[b]
    BY <1>1, LowerBound
  <2>2. v = IF b # End /\ Instance[b] = p.instance THEN <<b>> ELSE <<>>
    BY <1>3 DEF Chosen
  <2> HIDE DEF v, b
  <2>3. CASE b # End /\ Instance[b] = p.instance
    <3>1. v = <<b>> /\ b \in Conns /\ Contains(s, b)
      BY <2>1, <2>2, <2>3
    <3>2. v \in Seq(Conns) /\ Len(v) = 1 /\ v[1] = b
      BY <3>1
    <3>3. Sorted(v)
      BY <3>2 DEF Sorted
    <3>4. ASSUME NEW c \in Conns, Contains(s, c), Instance[c] = p.instance PROVE c = b
      <4>1. PICK i \in 1 .. Len(s) : s[i] = c
        BY <3>4 DEF Contains
      <4>2. PICK j \in 1 .. Len(s) : s[j] = b
        BY <3>1 DEF Contains
      <4>3. ~(i < j) /\ ~(j < i)
        BY <4>1, <4>2, <2>3, <3>4, <1>1 DEF Sorted
      <4>4. i = j
        BY <4>3, <1>1
      <4> QED BY <4>1, <4>2, <4>4
    <3>5. \A i \in 1 .. Len(v) : i = 1
      BY <3>2
    <3>6. 1 \in 1 .. Len(v)
      BY <3>2
    <3> QED BY <3>1, <3>2, <3>3, <3>4, <3>5, <3>6, <2>3, <1>3 DEF v
  <2>4. CASE ~(b # End /\ Instance[b] = p.instance)
    <3>1. v = <<>>
      BY <2>2, <2>4
    <3>2. v \in Seq(Conns) /\ Len(v) = 0 /\ 1 .. Len(v) = {}
      BY <3>1
    <3>3. Sorted(v)
      BY <3>2 DEF Sorted
    <3>4. ASSUME NEW c \in Conns, Contains(s, c), Instance[c] = p.instance PROVE FALSE
      <4>1. PICK i \in 1 .. Len(s) : s[i] = c
        BY <3>4 DEF Contains
      <4>2. CASE b = End
        BY <4>1, <4>2, <2>1, <3>4, <1>1, MarksAssumption
      <4>3. CASE b # End
        <5>1. b \in Conns /\ Instance[b] >= p.instance /\ Instance[c] >= Instance[b]
          BY <4>1, <4>3, <2>1, <3>4, <1>1
        <5>2. Instance[b] = p.instance
          BY <5>1, <3>4, <1>1
        <5> QED BY <5>2, <4>3, <2>4
      <4> QED BY <4>2, <4>3
    <3> QED BY <3>2, <3>3, <3>4, <1>3 DEF v
  <2> QED BY <2>3, <2>4
<1> QED BY <1>2, <1>3

\* The broadcast goes on to the next type.
LEMMA NextTypeFrame ==
    ASSUME TypeInv, TableInv, NEW f \in Frame, FrameInv(f, m_connected, wanted, doubled),
           f.phase = "test", isTypeBroadcast(f.packet), f.copy = <<>>,
           NEW u \in Types, u > f.at,
           \A t \in Types : t > f.at /\ m_connections[t] # <<>> => u <= t
    PROVE  LET g == [f EXCEPT !.at = u, !.copy = Chosen(m_connections[u], f.packet)]
           IN  g \in Frame /\ FrameInv(g, m_connected, wanted, doubled)
<1> DEFINE s == m_connections[u]
           v == Chosen(s, f.packet)
           g == [f EXCEPT !.at = u, !.copy = v]
<1>1. /\ CallInv(f) /\ WalkInv(f, m_connected) /\ CopyInv(f, m_connected)
      /\ SentInv(f, m_connected, wanted) /\ RangeInv(f, m_connected) /\ CallsInv(f, doubled)
  BY DEF FrameInv
<1>2. /\ s \in Seq(Conns) /\ Sorted(s) /\ f.packet \in Packets /\ f.at \in Nat
      /\ \A c \in Conns : Contains(s, c) <=> c \in m_connected /\ Type[c] = u
  BY DEF TypeInv, TableInv, Frame
<1>3. u \in Nat /\ \A c \in Conns : Type[c] \in Nat /\ Type[c] \in Types
  BY AddressAssumption DEF Types
<1> HIDE DEF s
<1>4. /\ v \in Seq(Conns) /\ Sorted(v)
      /\ \A i \in 1 .. Len(v) : /\ Contains(s, v[i])
                                /\ isInstanceBroadcast(f.packet) \/ Instance[v[i]] = f.packet.instance
      /\ \A c \in Conns : /\ Contains(s, c)
                          /\ isInstanceBroadcast(f.packet) \/ Instance[c] = f.packet.instance
                          => \E i \in 1 .. Len(v) : v[i] = c
  BY <1>2, ChosenPart
<1> HIDE DEF v
<1>5. g \in Frame
  BY <1>3, <1>4 DEF Frame
<1>6. /\ g.sender = f.sender /\ g.packet = f.packet /\ g.phase = "test"
      /\ g.at = u /\ g.copy = v /\ g.to = f.to /\ g.left = f.left
      /\ g.expected = f.expected /\ g.got = f.got /\ g.it = f.it /\ g.end = f.end
      /\ g.stale = f.stale /\ g.erased = f.erased /\ g.touched = f.touched
  BY DEF Frame
<1> HIDE DEF g
<1>7. CallInv(g)
  BY <1>1, <1>6 DEF CallInv
<1>8. WalkInv(g, m_connected)
  BY <1>6 DEF WalkInv
<1>9. \A i \in 1 .. Len(v) : v[i] \in Conns /\ Type[v[i]] = u /\ v[i] \in m_connected
  BY <1>2, <1>4, ElementOfSeq
<1>10. CopyInv(g, m_connected)
  BY <1>4, <1>6, <1>9 DEF CopyInv
<1>11. SentInv(g, m_connected, wanted)
  BY <1>1, <1>6 DEF SentInv, Target
<1>12. RangeInv(g, m_connected)
  BY <1>6 DEF RangeInv
<1>13. CallsInv(g, doubled)
  <2> SUFFICES ASSUME Sound(g), NEW d \in Conns \ doubled, NEW l \in Listeners
               PROVE  CallOf(g, d, l)
    BY DEF CallsInv
  <2>1. CallOf(f, d, l)
    BY <1>1, <1>6 DEF CallsInv, Sound
  <2>2. Passed(f, d) <=> Type[d] <= f.at
    <3>1. Rest(f) = {}
      BY DEF Rest
    <3> QED BY <3>1 DEF Passed
  <2>3. Passed(g, d) <=> Type[d] <= u /\ \A i \in 1 .. Len(v) : v[i] # d
    BY <1>6 DEF Passed, Rest
  <2>4. Passed(f, d) => Passed(g, d)
    <3>1. Type[d] <= f.at => Type[d] <= u /\ Type[d] # u
      BY <1>2, <1>3
    <3> QED BY <3>1, <2>2, <2>3, <1>9
  <2>5. ASSUME Passed(g, d), d \in m_connected, Target(f, d) PROVE Passed(f, d)
    <3> SUFFICES ASSUME Type[d] > f.at PROVE FALSE
      BY <2>2, <1>2, <1>3
    <3>1. Contains(m_connections[Type[d]], d)
      BY <2>5, <1>3 DEF TableInv
    <3>2. m_connections[Type[d]] # <<>>
      BY <3>1 DEF Contains
    <3>3. u <= Type[d]
      BY <3>2, <1>3
    <3>4. Type[d] = u
      BY <3>3, <2>3, <2>5, <1>3
    <3>5. Contains(s, d)
      BY <3>4, <2>5, <1>2
    <3>6. \E i \in 1 .. Len(v) : v[i] = d
      BY <3>5, <2>5, <1>4 DEF Target
    <3> QED BY <3>6, <2>3, <2>5
  <2>6. <<d, l>> \notin f.touched /\ <<d, l>> \in f.expected => d \in m_connected /\ Target(f, d)
    BY <1>1 DEF SentInv
  <2>7. Waits(g, d, l) <=> Waits(f, d, l)
    BY <1>6 DEF Waits
  <2> QED BY <2>1, <2>4, <2>5, <2>6, <2>7, <1>6 DEF CallOf
<1> QED BY <1>5, <1>7, <1>8, <1>10, <1>11, <1>12, <1>13 DEF FrameInv, g, v, s

\* The range that an addressed routing begins with.
LEMMA Bounds ==
    ASSUME TypeInv, TableInv, NEW p \in Packets
    PROVE  LET b == AddressedBounds(p)
               n == p.instance
               Live == {c \in m_connected : Type[c] = p.type} IN
           /\ b.it \in Live \cup {End} /\ b.end \in Live \cup {End}
           /\ b.it = End => b.end = End
           /\ b.it # End /\ b.end # End => Instance[b.it] <= Instance[b.end]
           /\ isInstanceBroadcast(p) => b.end = End
           /\ ~isInstanceBroadcast(p) =>
                 /\ b.end # End => Instance[b.end] > n
                 /\ b.it # End => Instance[b.it] >= n
                 /\ \A c \in Live : Instance[c] > n => b.end # End /\ Instance[b.end] <= Instance[c]
           /\ \A c \in Live : isInstanceBroadcast(p) \/ Instance[c] = n
                              => b.it # End /\ Instance[b.it] <= Instance[c]
<1> DEFINE n == p.instance
           t == p.type
           s == m_connections[t]
           b == AddressedBounds(p)
           Live == {c \in m_connected : Type[c] = t}
<1>1. /\ n \in Int /\ m_connected \subseteq Conns /\ End \notin Conns
      /\ \A c \in Conns : Instance[c] \in Nat /\ Type[c] \in Types
  BY AddressAssumption, PacketsAssumption, MarksAssumption DEF TypeInv, Types
<1>2. CASE t \notin Types
  <2>1. b.it = End /\ b.end = End
    BY <1>2 DEF AddressedBounds
  <2>2. Live = {}
    BY <1>1, <1>2
  <2> HIDE DEF b
  <2> QED BY <2>1, <2>2 DEF b
<1>3. CASE t \in Types
  <2>1. s \in Seq(Conns) /\ Sorted(s) /\ \A c \in Conns : Contains(s, c) <=> c \in Live
    BY <1>1, <1>3 DEF TypeInv, TableInv
  <2>2. Len(s) \in Nat /\ \A i \in 1 .. Len(s) : s[i] \in Live
    <3>1. Len(s) \in Nat /\ \A i \in 1 .. Len(s) : s[i] \in Conns
      BY <2>1, LenProperties, ElementOfSeq
    <3>2. \A i \in 1 .. Len(s) : Contains(s, s[i])
      BY DEF Contains
    <3> HIDE DEF s, Live
    <3> QED BY <3>1, <3>2, <2>1
  <2>3. \A c \in Live : \E i \in 1 .. Len(s) : s[i] = c
    BY <2>1, <1>1 DEF Contains
  <2>4. CASE isInstanceBroadcast(p)
    <3>1. b.it = (IF 1 <= Len(s) THEN s[1] ELSE End) /\ b.end = End
      BY <2>4, <1>3 DEF AddressedBounds, At
    <3> HIDE DEF b, s
    <3>2. CASE 1 <= Len(s)
      <4>1. b.it = s[1] /\ 1 \in 1 .. Len(s)
        BY <3>1, <3>2, <2>2
      <4>2. b.it \in Live /\ b.it # End
        BY <4>1, <2>2, <1>1
      <4>3. ASSUME NEW c \in Live PROVE Instance[b.it] <= Instance[c]
        <5>1. PICK i \in 1 .. Len(s) : s[i] = c
          BY <2>3
        <5>2. i = 1 \/ 1 < i
          BY <2>2
        <5> QED BY <5>1, <5>2, <4>1, <2>1, <1>1 DEF Sorted
      <4> QED BY <4>2, <4>3, <3>1, <2>4 DEF b
    <3>3. CASE ~(1 <= Len(s))
      <4>1. 1 .. Len(s) = {}
        BY <3>3, <2>2
      <4>2. Live = {}
        BY <4>1, <2>3
      <4> QED BY <4>2, <3>1, <3>3, <2>4 DEF b
    <3> QED BY <3>2, <3>3
  <2>5. CASE ~isInstanceBroadcast(p)
    <3>1. b.it = lower_bound(s, n) /\ b.end = upper_bound(s, n)
      BY <2>5, <1>3 DEF AddressedBounds
    <3> HIDE DEF b, s
    <3>2. \/ b.it = End /\ \A i \in 1 .. Len(s) : Instance[s[i]] < n
          \/ /\ b.it \in Conns /\ Contains(s, b.it) /\ Instance[b.it] >= n
             /\ \A i \in 1 .. Len(s) : Instance[s[i]] >= n => Instance[s[i]] >= Instance[b.it]
      BY <3>1, <2>1, <1>1, LowerBound
    <3>3. \/ b.end = End /\ \A i \in 1 .. Len(s) : Instance[s[i]] <= n
          \/ /\ b.end \in Conns /\ Contains(s, b.end) /\ Instance[b.end] > n
             /\ \A i \in 1 .. Len(s) : Instance[s[i]] > n => Instance[s[i]] >= Instance[b.end]
      BY <3>1, <2>1, <1>1, UpperBound
    <3>4. /\ b.it \in Live \cup {End} /\ b.end \in Live \cup {End}
          /\ b.it # End => b.it \in Live /\ Instance[b.it] >= n
          /\ b.end # End => b.end \in Live /\ Instance[b.end] > n
      BY <3>2, <3>3, <2>1
    <3>5. \A c \in Live : /\ Instance[c] >= n => b.it # End /\ Instance[b.it] <= Instance[c]
                          /\ Instance[c] > n => b.end # End /\ Instance[b.end] <= Instance[c]
      <4> SUFFICES ASSUME NEW c \in Live
                   PROVE  /\ Instance[c] >= n => b.it # End /\ Instance[b.it] <= Instance[c]
                          /\ Instance[c] > n => b.end # End /\ Instance[b.end] <= Instance[c]
        OBVIOUS
      <4>1. PICK i \in 1 .. Len(s) : s[i] = c
        BY <2>3
      <4>2. Instance[c] \in Nat
        BY <1>1
      <4>3. Instance[c] >= n => b.it # End /\ Instance[b.it] <= Instance[c]
        BY <4>1, <4>2, <3>2, <1>1
      <4>4. Instance[c] > n => b.end # End /\ Instance[b.end] <= Instance[c]
        BY <4>1, <4>2, <3>3, <1>1
      <4> QED BY <4>3, <4>4
    <3>6. b.end # End => b.it # End /\ Instance[b.it] <= Instance[b.end]
      <4>1. b.end # End => b.end \in Live /\ Instance[b.end] >= n
        BY <3>4, <1>1
      <4> QED BY <4>1, <3>5
    <3>7. \A c \in Live : Instance[c] = n => Instance[c] >= n
      BY <1>1
    <3> QED BY <3>4, <3>5, <3>6, <3>7, <2>5 DEF b
  <2> QED BY <2>4, <2>5
<1> QED BY <1>2, <1>3

\* A packet is sent: a new frame.
LEMMA SendFrame ==
    ASSUME TypeInv, TableInv, NEW c \in Conns, NEW p \in Packets, NEW it, NEW end,
           isTypeBroadcast(p) => it = End /\ end = End,
           ~isTypeBroadcast(p) => it = AddressedBounds(p).it /\ end = AddressedBounds(p).end
    PROVE  LET g == [sender |-> c, packet |-> p, phase |-> "test", it |-> it, end |-> end,
                     at |-> 0, copy |-> <<>>, to |-> NoOne, left |-> <<>>, stale |-> FALSE,
                     expected |-> Addressed(c, p), got |-> <<>>, touched |-> {}, erased |-> {}]
           IN  g \in Frame /\ FrameInv(g, m_connected, wanted, doubled)
<1> DEFINE E == Addressed(c, p)
           Live == {d \in m_connected : Type[d] = p.type}
           g == [sender |-> c, packet |-> p, phase |-> "test", it |-> it, end |-> end,
                 at |-> 0, copy |-> <<>>, to |-> NoOne, left |-> <<>>, stale |-> FALSE,
                 expected |-> E, got |-> <<>>, touched |-> {}, erased |-> {}]
<1>1. /\ m_connected \subseteq Conns /\ p.instance \in Int /\ End # Dangling
      /\ \A d \in Conns : d # End /\ d # Dangling /\ d # NoOne
      /\ \A d \in Conns : Instance[d] \in Nat /\ Type[d] \in Nat \ {0}
  BY AddressAssumption, PacketsAssumption, MarksAssumption DEF TypeInv, End, Dangling
<1>2. ~isTypeBroadcast(p) =>
        /\ it \in Live \cup {End} /\ end \in Live \cup {End}
        /\ it = End => end = End
        /\ it # End /\ end # End => Instance[it] <= Instance[end]
        /\ isInstanceBroadcast(p) => end = End
        /\ ~isInstanceBroadcast(p) =>
              /\ end # End => Instance[end] > p.instance
              /\ it # End => Instance[it] >= p.instance
              /\ \A d \in Live : Instance[d] > p.instance => end # End /\ Instance[end] <= Instance[d]
        /\ \A d \in Live : isInstanceBroadcast(p) \/ Instance[d] = p.instance
                           => it # End /\ Instance[it] <= Instance[d]
  BY Bounds
<1>3. /\ it \in Conns \cup {End, Dangling} /\ end \in Conns \cup {End, Dangling}
      /\ it # Dangling /\ end # Dangling
  BY <1>1, <1>2
<1>4. /\ E \in SUBSET (Conns \X Listeners)
      /\ \A d \in Conns, l \in Listeners :
            <<d, l>> \in E <=> /\ d \in m_connected /\ d # c
                               /\ isTypeBroadcast(p) \/ Type[d] = p.type
                               /\ isInstanceBroadcast(p) \/ Instance[d] = p.instance
                               /\ p.message \in Known[d]
                               /\ wanted[d][l] > 0
  BY <1>1 DEF Addressed
<1> HIDE DEF E
<1>5. g \in Frame
  <2>1. <<>> \in Seq(Conns) /\ <<>> \in Seq(Listeners) /\ <<>> \in Seq(Conns \X Listeners)
    OBVIOUS
  <2> QED BY <2>1, <1>3, <1>4 DEF Frame
<1>6. /\ g.sender = c /\ g.packet = p /\ g.phase = "test" /\ g.at = 0 /\ g.copy = <<>>
      /\ g.to = NoOne /\ g.left = <<>> /\ g.expected = E /\ g.got = <<>> /\ g.it = it /\ g.end = end
      /\ ~g.stale /\ g.erased = {} /\ g.touched = {}
  OBVIOUS
<1> HIDE DEF g
<1>7. CallInv(g)
  BY <1>6, MarksAssumption DEF CallInv
<1>8. WalkInv(g, m_connected)
  BY <1>1, <1>2, <1>3, <1>6 DEF WalkInv
<1>9. CopyInv(g, m_connected)
  <2>1. Len(<<>>) = 0 /\ 1 .. 0 = {}
    OBVIOUS
  <2> QED BY <2>1, <1>6 DEF CopyInv, Sorted
<1>10. SentInv(g, m_connected, wanted)
  BY <1>4, <1>6 DEF SentInv, Target
<1>11. RangeInv(g, m_connected)
  BY <1>2, <1>6 DEF RangeInv
<1>12. CallsInv(g, doubled)
  <2> SUFFICES ASSUME NEW d \in Conns \ doubled, NEW l \in Listeners
               PROVE  CallOf(g, d, l)
    BY DEF CallsInv
  <2>1. Len(g.got) = 0 /\ 1 .. 0 = {} /\ g.to # d
    BY <1>1, <1>6
  <2>2. ~Contains(g.got, <<d, l>>) /\ ~Waits(g, d, l)
    BY <2>1 DEF Contains, Waits
  <2>3. ASSUME <<d, l>> \in g.expected PROVE ~Passed(g, d)
    <3>1. CASE isTypeBroadcast(p)
      BY <3>1, <1>1, <1>6 DEF Passed
    <3>2. CASE ~isTypeBroadcast(p)
      <4>1. it # End /\ Instance[it] <= Instance[d]
        BY <3>2, <2>3, <1>2, <1>4, <1>6
      <4>2. it \in Conns
        BY <4>1, <1>3
      <4> QED BY <4>1, <4>2, <3>2, <1>1, <1>6 DEF Passed
    <3> QED BY <3>1, <3>2
  <2> QED BY <2>1, <2>2, <2>3 DEF CallOf
<1> QED BY <1>5, <1>7, <1>8, <1>9, <1>10, <1>11, <1>12 DEF FrameInv, g, E

\* A routing that runs to its end has called whom it had to.
LEMMA EndFrame ==
    ASSUME TypeInv, TableInv, NEW f \in Frame, FrameInv(f, m_connected, wanted, doubled),
           f.phase = "test",
           ~isTypeBroadcast(f.packet) => f.it = f.end,
           isTypeBroadcast(f.packet) =>
               f.copy = <<>> /\ \A t \in Types : ~(t > f.at /\ m_connections[t] # <<>>),
           NEW c \in Conns \ doubled, NEW l \in Listeners
    PROVE  LET n == Times(f.got, <<c, l>>) IN
           IF <<c, l>> \in f.touched THEN n <= 1 ELSE n = IF <<c, l>> \in f.expected THEN 1 ELSE 0
<1>1. /\ CallInv(f) /\ WalkInv(f, m_connected) /\ CopyInv(f, m_connected)
      /\ SentInv(f, m_connected, wanted) /\ RangeInv(f, m_connected) /\ CallsInv(f, doubled)
  BY DEF FrameInv
<1>2. Sound(f)
  BY <1>1 DEF Sound, CallInv, WalkInv
<1>3. CallOf(f, c, l)
  BY <1>1, <1>2 DEF CallsInv
<1>4. ~Waits(f, c, l)
  BY <1>1, MarksAssumption DEF CallInv, Waits
<1>5. ASSUME <<c, l>> \notin f.touched, <<c, l>> \in f.expected PROVE Passed(f, c)
  <2>1. c \in m_connected /\ Target(f, c)
    BY <1>1, <1>5 DEF SentInv
  <2>2. CASE isTypeBroadcast(f.packet)
    <3>1. Type[c] \in Types /\ Type[c] \in Nat /\ f.at \in Nat
      BY AddressAssumption DEF Types, Frame
    <3>2. Contains(m_connections[Type[c]], c)
      BY <3>1, <2>1 DEF TableInv
    <3>3. m_connections[Type[c]] # <<>>
      BY <3>2 DEF Contains
    <3>4. Type[c] <= f.at
      BY <3>1, <3>3, <2>2
    <3>5. Rest(f) = {}
      BY <2>2 DEF Rest
    <3> QED BY <3>4, <3>5, <2>2 DEF Passed
  <2>3. CASE ~isTypeBroadcast(f.packet)
    <3>1. f.it = f.end /\ f.it # Dangling /\ f.it \in m_connected \cup {End}
      BY <2>3, <1>1, <1>2 DEF Sound, WalkInv
    <3>2. CASE f.it = End
      BY <3>2, <2>3 DEF Passed
    <3>3. CASE f.it # End
      <4>1. ~isInstanceBroadcast(f.packet) /\ Instance[f.it] > f.packet.instance
        BY <3>1, <3>3, <2>3, <1>1 DEF RangeInv
      <4>2. Instance[c] = f.packet.instance
        BY <4>1, <2>1 DEF Target
      <4>3. Instance[c] \in Nat /\ Instance[f.it] \in Nat
        BY <3>1, <3>3, AddressAssumption DEF TypeInv
      <4> QED BY <4>1, <4>2, <4>3, <2>3 DEF Passed
    <3> QED BY <3>2, <3>3
  <2> QED BY <2>2, <2>3
<1>6. Times(f.got, <<c, l>>) = IF Contains(f.got, <<c, l>>) THEN 1 ELSE 0
  <2> DEFINE y == <<c, l>>
  <2>1. \A i, j \in 1 .. Len(f.got) : f.got[i] = y /\ f.got[j] = y => i = j
    BY <1>3 DEF CallOf
  <2>2. f.got \in Seq(Conns \X Listeners)
    BY DEF Frame
  <2> HIDE DEF y
  <2>3. Times(f.got, y) = IF Contains(f.got, y) THEN 1 ELSE 0
    BY <2>1, <2>2, TimesOnce
  <2> QED BY <2>3 DEF y
<1>7. <<c, l>> \notin f.touched => (Contains(f.got, <<c, l>>) <=> <<c, l>> \in f.expected)
  BY <1>3, <1>4, <1>5 DEF CallOf
<1> QED BY <1>6, <1>7

-----------------------------------------------------------------------------
(* The steps.                                                              *)

\* The innermost frame changes.
LEMMA TopSet ==
    ASSUME TypeInv, NestingInv, FramesInv, stack # <<>>, NEW g \in Frame,
           FrameInv(g, m_connected, wanted, doubled),
           SetTop(g), UNCHANGED <<m_connected, wanted, doubled>>
    PROVE  stack' \in Seq(Frame) /\ NestingInv' /\ FramesInv'
<1> DEFINE n == Len(stack)
           r == Front(stack)
<1>1. stack \in Seq(Frame) /\ n \in Nat \ {0}
  BY EmptySeq DEF TypeInv
<1>2. r \in Seq(Frame) /\ Len(r) = n - 1 /\ \A i \in 1 .. n - 1 : r[i] = stack[i]
  <2>1. 1 \in Int /\ n - 1 \in Int /\ \A i \in 1 .. n - 1 : stack[i] \in Frame
    BY <1>1, ElementOfSeq
  <2>2. /\ SubSeq(stack, 1, n - 1) \in Seq(Frame)
        /\ Len(SubSeq(stack, 1, n - 1)) = IF 1 <= n - 1 THEN n - 1 - 1 + 1 ELSE 0
        /\ \A i \in 1 .. n - 1 - 1 + 1 : SubSeq(stack, 1, n - 1)[i] = stack[1 + i - 1]
    BY <2>1, SubSeqProperties
  <2>3. r = SubSeq(stack, 1, n - 1)
    BY DEF Front
  <2>4. /\ (IF 1 <= n - 1 THEN n - 1 - 1 + 1 ELSE 0) = n - 1
        /\ n - 1 - 1 + 1 = n - 1 /\ \A i \in 1 .. n - 1 : 1 + i - 1 = i
    <3> HIDE DEF n
    <3> QED BY <1>1
  <2> HIDE DEF r
  <2> QED BY <2>2, <2>3, <2>4
<1> HIDE DEF r
<1>3. stack' = Append(r, g)
  BY DEF SetTop, r
<1>4. /\ Append(r, g) \in Seq(Frame) /\ Len(Append(r, g)) = n
      /\ \A i \in 1 .. n - 1 : Append(r, g)[i] = stack[i]
      /\ Append(r, g)[n] = g
  BY <1>1, <1>2
<1>5. stack' \in Seq(Frame) /\ Len(stack') = n /\ (\A i \in 1 .. n - 1 : stack'[i] = stack[i]) /\ stack'[n] = g
  BY <1>3, <1>4
<1>6. NestingInv'
  BY <1>5 DEF NestingInv
<1>7. \A i \in 1 .. n : i = n \/ i \in 1 .. n - 1
  BY <1>1
<1>8. ASSUME NEW i \in 1 .. n PROVE FrameInv(stack'[i], m_connected', wanted', doubled')
  <2>1. FrameInv(stack'[i], m_connected, wanted, doubled)
    BY <1>5, <1>7 DEF FramesInv
  <2> QED BY <2>1
<1>9. FramesInv'
  BY <1>5, <1>8 DEF FramesInv
<1> QED BY <1>5, <1>6, <1>9

\* Routings end, or are left.
LEMMA Popped ==
    ASSUME TypeInv, NestingInv, FramesInv, NEW k \in 0 .. Len(stack),
           stack' = SubSeq(stack, 1, k), UNCHANGED <<m_connected, wanted, doubled>>
    PROVE  stack' \in Seq(Frame) /\ NestingInv' /\ FramesInv'
<1>1. stack \in Seq(Frame) /\ Len(stack) \in Nat
  BY DEF TypeInv
<1>2. stack' \in Seq(Frame) /\ Len(stack') = k /\ \A i \in 1 .. k : stack'[i] = stack[i]
  BY <1>1
<1>3. /\ \A i \in 1 .. k - 1 : i \in 1 .. Len(stack) - 1 /\ i \in 1 .. k
      /\ \A i \in 1 .. k : i \in 1 .. Len(stack)
  BY <1>1
<1>4. NestingInv'
  BY <1>2, <1>3 DEF NestingInv
<1>5. ASSUME NEW i \in 1 .. k PROVE FrameInv(stack'[i], m_connected', wanted', doubled')
  <2>1. FrameInv(stack'[i], m_connected, wanted, doubled)
    BY <1>2, <1>3 DEF FramesInv
  <2> QED BY <2>1
<1>6. FramesInv'
  BY <1>2, <1>5 DEF FramesInv
<1> QED BY <1>2, <1>4, <1>6

\* The application or a listener may call: every routing is in a call.
LEMMA AllInCall ==
    ASSUME TypeInv, NestingInv, CanCall
    PROVE  \A i \in 1 .. Len(stack) : stack[i] \in Frame /\ stack[i].phase = "call"
<1>1. stack \in Seq(Frame) /\ Len(stack) \in Nat
  BY DEF TypeInv
<1> SUFFICES ASSUME NEW i \in 1 .. Len(stack) PROVE stack[i] \in Frame /\ stack[i].phase = "call"
  OBVIOUS
<1>2. stack[i] \in Frame
  BY <1>1, ElementOfSeq
<1>3. stack # <<>> /\ (i = Len(stack) \/ i \in 1 .. Len(stack) - 1)
  BY <1>1
<1>4. stack[Len(stack)].phase = "call"
  BY <1>3 DEF CanCall, Last
<1> QED BY <1>2, <1>3, <1>4 DEF NestingInv

\* LocalConnection::connect.
LEMMA ConnectKeeps == ASSUME BusInv, NEW c \in Conns, Connect(c) PROVE BusInv'
<1> DEFINE s == m_connections[Type[c]]
           G(f) == [f EXCEPT !.touched = @ \cup ({c} \X Listeners)]
<1>1. /\ TypeInv /\ TableInv /\ ListenInv /\ NestingInv /\ FramesInv
      /\ CanCall /\ c \notin m_connected
      /\ m_connections' = [m_connections EXCEPT ![Type[c]] = Inserted(@, c)]
      /\ m_connected' = m_connected \cup {c}
      /\ stack' = [i \in DOMAIN stack |-> G(stack[i])]
      /\ finished' = NoFrame
      /\ UNCHANGED <<undefined, m_msgListeners, wanted, doubled>>
  BY DEF BusInv, Connect, listening
<1>2. Type[c] \in Types /\ \A d \in Conns : Type[d] = Type[c] /\ Instance[d] = Instance[c] => d = c
  BY AddressAssumption DEF Types
<1>3. s \in Seq(Conns) /\ Sorted(s) /\ \A d \in Conns : Contains(s, d) <=> d \in m_connected /\ Type[d] = Type[c]
  BY <1>1, <1>2 DEF TypeInv, TableInv
<1>4. \A i \in 1 .. Len(s) : Instance[s[i]] # Instance[c]
  <2> SUFFICES ASSUME NEW i \in 1 .. Len(s) PROVE Instance[s[i]] # Instance[c]
    OBVIOUS
  <2>1. s[i] \in Conns /\ Contains(s, s[i])
    BY <1>3, ElementOfSeq DEF Contains
  <2>2. s[i] \in m_connected /\ Type[s[i]] = Type[c]
    BY <2>1, <1>3
  <2> QED BY <2>1, <2>2, <1>1, <1>2
<1>5. /\ Inserted(s, c) \in Seq(Conns) /\ Sorted(Inserted(s, c))
      /\ \A d \in Conns : Contains(Inserted(s, c), d) <=> Contains(s, d) \/ d = c
  BY <1>3, <1>4, InsertedAt
<1>6. m_connections' \in [Types -> Seq(Conns)]
  BY <1>1, <1>5 DEF TypeInv
<1>7. TableInv'
  <2> SUFFICES ASSUME NEW t \in Types
               PROVE  /\ Sorted(m_connections'[t])
                      /\ \A d \in Conns : Contains(m_connections'[t], d) <=> d \in m_connected' /\ Type[d] = t
    BY DEF TableInv
  <2>1. CASE t = Type[c]
    <3>1. m_connections'[t] = Inserted(s, c)
      BY <2>1, <1>1, <1>2 DEF TypeInv
    <3> QED BY <3>1, <2>1, <1>1, <1>3, <1>5
  <2>2. CASE t # Type[c]
    <3>1. m_connections'[t] = m_connections[t]
      BY <2>2, <1>1 DEF TypeInv
    <3> QED BY <3>1, <2>2, <1>1 DEF TableInv
  <2> QED BY <2>1, <2>2
<1>8. Len(stack) \in Nat /\ DOMAIN stack = 1 .. Len(stack)
  BY LenProperties DEF BusInv, TypeInv
<1>9. ASSUME NEW i \in 1 .. Len(stack)
      PROVE  /\ G(stack[i]) \in Frame /\ G(stack[i]).phase = "call"
             /\ FrameInv(G(stack[i]), m_connected', wanted', doubled')
  <2> DEFINE f == stack[i]
  <2>1. f \in Frame /\ f.phase = "call" /\ FrameInv(f, m_connected, wanted, doubled) /\ m_connected \in SUBSET Conns
    BY <1>1, AllInCall DEF FramesInv, TypeInv
  <2> HIDE DEF f
  <2>2. G(f) \in Frame /\ G(f).phase = f.phase /\ FrameInv(G(f), m_connected \cup {c}, wanted, doubled)
    BY <2>1, ConnectFrame
  <2>3. FrameInv(G(f), m_connected', wanted', doubled')
    BY <2>2, <1>1
  <2> QED BY <2>1, <2>2, <2>3 DEF f
<1> HIDE DEF G
<1>10. stack' \in Seq(Frame) /\ Len(stack') = Len(stack) /\ \A i \in 1 .. Len(stack) : stack'[i] = G(stack[i])
  BY <1>1, <1>8, <1>9
<1>11. NestingInv' /\ FramesInv'
  <2>1. NestingInv'
    BY <1>8, <1>9, <1>10 DEF NestingInv
  <2>2. FramesInv'
    BY <1>9, <1>10 DEF FramesInv
  <2> QED BY <2>1, <2>2
<1>12. TypeInv'
  BY <1>1, <1>6, <1>10 DEF TypeInv
<1>13. ListenInv'
  BY <1>1 DEF ListenInv
<1>14. UndefinedOnlyByErasure' /\ RoutedExactly'
  BY <1>1 DEF UndefinedOnlyByErasure, RoutedExactly, CanCall
<1> QED BY <1>7, <1>11, <1>12, <1>13, <1>14 DEF BusInv

\* LocalConnection::disconnect.
LEMMA DisconnectKeeps == ASSUME BusInv, NEW c \in Conns, Disconnect(c) PROVE BusInv'
<1> DEFINE s == m_connections[Type[c]]
           G(f) == [f EXCEPT !.touched = @ \cup ({c} \X Listeners), !.erased = @ \cup {c},
                             !.it = Invalidate(@, c), !.end = Invalidate(@, c)]
<1>1. /\ TypeInv /\ TableInv /\ ListenInv /\ NestingInv /\ FramesInv
      /\ CanCall /\ c \in m_connected
      /\ m_connections' = [m_connections EXCEPT ![Type[c]] = RemoveFirst(@, c)]
      /\ m_connected' = m_connected \ {c}
      /\ stack' = [i \in DOMAIN stack |-> G(stack[i])]
      /\ finished' = NoFrame
      /\ UNCHANGED <<undefined, m_msgListeners, wanted, doubled>>
  BY DEF BusInv, Disconnect, listening
<1>2. Type[c] \in Types
  BY DEF Types
<1>3. s \in Seq(Conns) /\ Sorted(s) /\ \A d \in Conns : Contains(s, d) <=> d \in m_connected /\ Type[d] = Type[c]
  BY <1>1, <1>2 DEF TypeInv, TableInv
<1>4. Contains(s, c)
  BY <1>1, <1>3
<1>5. /\ RemoveFirst(s, c) \in Seq(Conns) /\ Sorted(RemoveFirst(s, c))
      /\ \A d \in Conns : Contains(RemoveFirst(s, c), d) <=> Contains(s, d) /\ d # c
  BY <1>3, <1>4, Erased
<1>6. m_connections' \in [Types -> Seq(Conns)]
  BY <1>1, <1>5 DEF TypeInv
<1>7. TableInv'
  <2> SUFFICES ASSUME NEW t \in Types
               PROVE  /\ Sorted(m_connections'[t])
                      /\ \A d \in Conns : Contains(m_connections'[t], d) <=> d \in m_connected' /\ Type[d] = t
    BY DEF TableInv
  <2>1. CASE t = Type[c]
    <3>1. m_connections'[t] = RemoveFirst(s, c)
      BY <2>1, <1>1, <1>2 DEF TypeInv
    <3> QED BY <3>1, <2>1, <1>1, <1>3, <1>5
  <2>2. CASE t # Type[c]
    <3>1. m_connections'[t] = m_connections[t]
      BY <2>2, <1>1 DEF TypeInv
    <3> QED BY <3>1, <2>2, <1>1 DEF TableInv
  <2> QED BY <2>1, <2>2
<1>8. Len(stack) \in Nat /\ DOMAIN stack = 1 .. Len(stack)
  BY LenProperties DEF BusInv, TypeInv
<1>9. ASSUME NEW i \in 1 .. Len(stack)
      PROVE  /\ G(stack[i]) \in Frame /\ G(stack[i]).phase = "call"
             /\ FrameInv(G(stack[i]), m_connected', wanted', doubled')
  <2> DEFINE f == stack[i]
  <2>1. f \in Frame /\ f.phase = "call" /\ FrameInv(f, m_connected, wanted, doubled) /\ m_connected \in SUBSET Conns
    BY <1>1, AllInCall DEF FramesInv, TypeInv
  <2> HIDE DEF f
  <2>2. G(f) \in Frame /\ G(f).phase = f.phase /\ FrameInv(G(f), m_connected \ {c}, wanted, doubled)
    BY <2>1, DisconnectFrame
  <2>3. FrameInv(G(f), m_connected', wanted', doubled')
    BY <2>2, <1>1
  <2> QED BY <2>1, <2>2, <2>3 DEF f
<1> HIDE DEF G
<1>10. stack' \in Seq(Frame) /\ Len(stack') = Len(stack) /\ \A i \in 1 .. Len(stack) : stack'[i] = G(stack[i])
  BY <1>1, <1>8, <1>9
<1>11. NestingInv' /\ FramesInv'
  <2>1. NestingInv'
    BY <1>8, <1>9, <1>10 DEF NestingInv
  <2>2. FramesInv'
    BY <1>9, <1>10 DEF FramesInv
  <2> QED BY <2>1, <2>2
<1>12. TypeInv'
  BY <1>1, <1>6, <1>10 DEF TypeInv
<1>13. ListenInv'
  BY <1>1 DEF ListenInv
<1>14. UndefinedOnlyByErasure' /\ RoutedExactly'
  BY <1>1 DEF UndefinedOnlyByErasure, RoutedExactly, CanCall
<1> QED BY <1>7, <1>11, <1>12, <1>13, <1>14 DEF BusInv

\* The frames when a listener comes or goes.
LEMMA RelistenedFrames ==
    ASSUME TypeInv, NestingInv, FramesInv, CanCall, NEW c \in Conns, NEW l \in Listeners,
           stack' = Relistened(c, l), UNCHANGED m_connected, doubled \subseteq doubled',
           \A d \in Conns, k \in Listeners : <<d, k>> # <<c, l>> => wanted'[d][k] = wanted[d][k]
    PROVE  stack' \in Seq(Frame) /\ NestingInv' /\ FramesInv'
<1> DEFINE G(f) == [f EXCEPT !.touched = @ \cup {<<c, l>>}, !.stale = @ \/ f.to = c]
<1>1. stack' = [i \in DOMAIN stack |-> G(stack[i])]
  BY DEF Relistened
<1>2. Len(stack) \in Nat /\ DOMAIN stack = 1 .. Len(stack)
  BY DEF TypeInv
<1>3. ASSUME NEW i \in 1 .. Len(stack)
      PROVE  /\ G(stack[i]) \in Frame /\ G(stack[i]).phase = "call"
             /\ FrameInv(G(stack[i]), m_connected', wanted', doubled')
  <2> DEFINE f == stack[i]
             want2 == wanted'
             dbl2 == doubled'
  <2>1. f \in Frame /\ f.phase = "call" /\ FrameInv(f, m_connected, wanted, doubled) /\ m_connected \in SUBSET Conns
    BY AllInCall DEF FramesInv, TypeInv
  <2>2. /\ \A d \in Conns, k \in Listeners : <<d, k>> # <<c, l>> => want2[d][k] = wanted[d][k]
        /\ doubled \subseteq dbl2
    OBVIOUS
  <2> DEFINE g == G(f)
  <2> HIDE DEF f, want2, dbl2
  <2>3. g \in Frame
    <3>1. f.touched \cup {<<c, l>>} \in SUBSET (Conns \X Listeners)
      BY <2>1 DEF Frame
    <3>2. (f.stale \/ f.to = c) \in BOOLEAN
      OBVIOUS
    <3> QED BY <3>1, <3>2, <2>1 DEF Frame
  <2>4. /\ SameLoop(f, g) /\ g.it = f.it /\ g.end = f.end /\ g.erased = f.erased
        /\ g.touched = f.touched \cup {<<c, l>>}
        /\ g.stale <=> f.stale \/ f.to = c
    BY <2>1 DEF Frame, SameLoop
  <2> HIDE DEF g
  <2>5. FrameInv(g, m_connected, want2, dbl2)
    BY <2>1, <2>2, <2>3, <2>4, ListenFrame
  <2>6. FrameInv(g, m_connected', wanted', doubled')
    BY <2>5 DEF want2, dbl2
  <2> QED BY <2>1, <2>3, <2>4, <2>6 DEF f, g, SameLoop
<1> HIDE DEF G
<1>4. stack' \in Seq(Frame) /\ Len(stack') = Len(stack) /\ \A i \in 1 .. Len(stack) : stack'[i] = G(stack[i])
  BY <1>1, <1>2, <1>3
<1>5. NestingInv'
  BY <1>2, <1>3, <1>4 DEF NestingInv
<1>6. FramesInv'
  BY <1>3, <1>4 DEF FramesInv
<1> QED BY <1>4, <1>5, <1>6

\* addMessageListener.
LEMMA AddKeeps ==
    ASSUME BusInv, NEW c \in Conns, NEW l \in Listeners, AddMessageListener(c, l) PROVE BusInv'
<1>1. /\ TypeInv /\ TableInv /\ ListenInv /\ NestingInv /\ FramesInv /\ CanCall
      /\ m_msgListeners' = [m_msgListeners EXCEPT ![c] = Append(@, l)]
      /\ wanted' = [wanted EXCEPT ![c][l] = @ + 1]
      /\ doubled' = IF wanted[c][l] > 0 THEN doubled \cup {c} ELSE doubled
      /\ stack' = Relistened(c, l)
      /\ finished' = NoFrame
      /\ UNCHANGED <<m_connected, m_connections, undefined>>
  BY DEF BusInv, AddMessageListener, addMessageListener
<1>2. /\ m_msgListeners \in [Conns -> Seq(Listeners)] /\ wanted \in [Conns -> [Listeners -> Nat]]
      /\ doubled \subseteq Conns
  BY <1>1 DEF TypeInv
<1>3. /\ wanted' \in [Conns -> [Listeners -> Nat]] /\ wanted'[c][l] = wanted[c][l] + 1
      /\ \A d \in Conns, k \in Listeners : <<d, k>> # <<c, l>> => wanted'[d][k] = wanted[d][k]
  BY <1>1, <1>2
<1>4. /\ m_msgListeners' \in [Conns -> Seq(Listeners)] /\ m_msgListeners'[c] = Append(m_msgListeners[c], l)
      /\ \A d \in Conns : d # c => m_msgListeners'[d] = m_msgListeners[d]
  BY <1>1, <1>2
<1>5. doubled \subseteq doubled' /\ doubled' \subseteq Conns
  BY <1>1, <1>2
<1>6. stack' \in Seq(Frame) /\ NestingInv' /\ FramesInv'
  BY <1>1, <1>3, <1>5, RelistenedFrames
<1>7. TypeInv'
  BY <1>1, <1>3, <1>4, <1>5, <1>6 DEF TypeInv
<1>8. TableInv'
  BY <1>1 DEF TableInv
<1>9. ListenInv'
  <2> SUFFICES ASSUME NEW d \in Conns \ doubled'
               PROVE  /\ Distinct(m_msgListeners'[d])
                      /\ \A k \in Listeners :
                            wanted'[d][k] = IF Contains(m_msgListeners'[d], k) THEN 1 ELSE 0
    BY DEF ListenInv
  <2> DEFINE v == m_msgListeners[d]
  <2>1. /\ d \in Conns \ doubled /\ v \in Seq(Listeners) /\ Distinct(v)
        /\ \A k \in Listeners : wanted[d][k] = IF Contains(v, k) THEN 1 ELSE 0
    BY <1>1, <1>2, <1>5 DEF ListenInv
  <2>2. CASE d # c
    <3>1. \A k \in Listeners : wanted'[d][k] = wanted[d][k]
      BY <2>2, <1>3
    <3>2. m_msgListeners'[d] = v
      BY <2>2, <1>4
    <3> QED BY <3>1, <3>2, <2>1
  <2>3. CASE d = c
    <3>1. ~(wanted[d][l] > 0)
      BY <2>3, <1>1
    <3>2. ~Contains(v, l)
      BY <3>1, <2>1
    <3> HIDE DEF v
    <3>3. \A k \in Listeners : Contains(Append(v, l), k) <=> Contains(v, k) \/ k = l
      BY <2>1, Appended
    <3>4. Distinct(Append(v, l))
      <4>1. /\ Len(v) \in Nat /\ Len(Append(v, l)) = Len(v) + 1 /\ Append(v, l)[Len(v) + 1] = l
            /\ \A i \in 1 .. Len(v) : Append(v, l)[i] = v[i] /\ v[i] # l
        BY <3>2, <2>1 DEF Contains
      <4>2. \A i \in 1 .. Len(v) + 1 : i \in 1 .. Len(v) \/ i = Len(v) + 1
        BY <4>1
      <4> QED BY <4>1, <4>2, <2>1 DEF Distinct
    <3>5. m_msgListeners'[d] = Append(v, l)
      BY <2>3, <1>4 DEF v
    <3>6. wanted[d][l] = 0 /\ wanted'[d][l] = 1
      BY <3>2, <2>1, <2>3, <1>3
    <3>7. \A k \in Listeners : k # l => wanted'[d][k] = wanted[d][k]
      BY <1>3
    <3> QED BY <3>3, <3>4, <3>5, <3>6, <3>7, <2>1
  <2> QED BY <2>2, <2>3
<1>10. UndefinedOnlyByErasure' /\ RoutedExactly'
  BY <1>1 DEF UndefinedOnlyByErasure, RoutedExactly, CanCall
<1> QED BY <1>6, <1>7, <1>8, <1>9, <1>10 DEF BusInv

\* removeMessageListener: undefined only on a connection that had a listener
\* twice.
LEMMA RemoveKeeps ==
    ASSUME BusInv, NEW c \in Conns, NEW l \in Listeners, RemoveMessageListener(c, l) PROVE BusInv'
<1> DEFINE R == removeMessageListener(m_msgListeners[c], l)
<1>1. /\ TypeInv /\ TableInv /\ ListenInv /\ NestingInv /\ FramesInv /\ CanCall /\ wanted[c][l] > 0
      /\ m_msgListeners' = [m_msgListeners EXCEPT ![c] = R]
      /\ undefined' = IF Contains(m_msgListeners[c], l) THEN NoFrame ELSE [phase |-> "remove", to |-> c]
      /\ wanted' = [wanted EXCEPT ![c][l] = @ - 1]
      /\ stack' = Relistened(c, l)
      /\ finished' = NoFrame
      /\ UNCHANGED <<m_connected, m_connections, doubled>>
  BY DEF BusInv, RemoveMessageListener
<1>2. /\ m_msgListeners \in [Conns -> Seq(Listeners)] /\ wanted \in [Conns -> [Listeners -> Nat]]
      /\ doubled \subseteq Conns /\ m_msgListeners[c] \in Seq(Listeners)
  BY <1>1 DEF TypeInv
<1>3. /\ wanted' \in [Conns -> [Listeners -> Nat]] /\ wanted'[c][l] = wanted[c][l] - 1
      /\ \A d \in Conns, k \in Listeners : <<d, k>> # <<c, l>> => wanted'[d][k] = wanted[d][k]
  <2>1. wanted[c][l] - 1 \in Nat
    BY <1>1, <1>2
  <2> QED BY <2>1, <1>1, <1>2
<1>4. /\ R \in Seq(Listeners)
      /\ Distinct(m_msgListeners[c]) /\ Contains(m_msgListeners[c], l) =>
            /\ Distinct(R)
            /\ \A x \in Listeners : Contains(R, x) <=> Contains(m_msgListeners[c], x) /\ x # l
  BY <1>2, Removed
<1> HIDE DEF R
<1>5. /\ m_msgListeners' \in [Conns -> Seq(Listeners)] /\ m_msgListeners'[c] = R
      /\ \A d \in Conns : d # c => m_msgListeners'[d] = m_msgListeners[d]
  BY <1>1, <1>2, <1>4
<1>6. stack' \in Seq(Frame) /\ NestingInv' /\ FramesInv'
  BY <1>1, <1>3, RelistenedFrames
<1>7. TypeInv'
  BY <1>1, <1>3, <1>5, <1>6 DEF TypeInv
<1>8. TableInv'
  BY <1>1 DEF TableInv
<1>9. c \notin doubled => Distinct(m_msgListeners[c]) /\ Contains(m_msgListeners[c], l) /\ wanted[c][l] = 1
  BY <1>1 DEF ListenInv
<1>10. ListenInv'
  <2> SUFFICES ASSUME NEW d \in Conns \ doubled
               PROVE  /\ Distinct(m_msgListeners'[d])
                      /\ \A k \in Listeners :
                            wanted'[d][k] = IF Contains(m_msgListeners'[d], k) THEN 1 ELSE 0
    BY <1>1 DEF ListenInv
  <2>1. /\ Distinct(m_msgListeners[d])
        /\ \A k \in Listeners : wanted[d][k] = IF Contains(m_msgListeners[d], k) THEN 1 ELSE 0
    BY <1>1 DEF ListenInv
  <2>2. CASE d # c
    <3>1. \A k \in Listeners : wanted'[d][k] = wanted[d][k]
      BY <2>2, <1>3
    <3>2. m_msgListeners'[d] = m_msgListeners[d]
      BY <2>2, <1>5
    <3> QED BY <3>1, <3>2, <2>1
  <2>3. CASE d = c
    <3>1. wanted'[d][l] = 0
      BY <2>3, <1>3, <1>9
    <3>2. \A k \in Listeners : k # l => wanted'[d][k] = wanted[d][k]
      BY <1>3
    <3>3. Distinct(R) /\ \A x \in Listeners : Contains(R, x) <=> Contains(m_msgListeners[d], x) /\ x # l
      BY <2>3, <1>4, <1>9
    <3>4. m_msgListeners'[d] = R
      BY <2>3, <1>5
    <3> QED BY <3>1, <3>2, <3>3, <3>4, <2>1
  <2> QED BY <2>2, <2>3
<1>11. UndefinedOnlyByErasure' /\ RoutedExactly'
  BY <1>1, <1>9 DEF UndefinedOnlyByErasure, RoutedExactly
<1> QED BY <1>6, <1>7, <1>8, <1>10, <1>11 DEF BusInv

\* registerBus.
LEMMA RegisterKeeps == ASSUME BusInv, NEW c \in Conns, RegisterBus(c) PROVE BusInv'
<1>1. UNCHANGED <<m_connected, m_connections, stack, finished, undefined,
                  m_msgListeners, wanted, doubled>>
  BY DEF RegisterBus, listening
<1>2. TypeInv' /\ TableInv' /\ ListenInv'
  BY <1>1 DEF BusInv, TypeInv, TableInv, ListenInv
<1>3. NestingInv' /\ FramesInv'
  BY <1>1 DEF BusInv, NestingInv, FramesInv
<1>4. UndefinedOnlyByErasure' /\ RoutedExactly'
  BY <1>1 DEF BusInv, UndefinedOnlyByErasure, RoutedExactly
<1> QED BY <1>2, <1>3, <1>4 DEF BusInv

\* sendPacket: the new frame is the innermost one.
LEMMA SendKeeps == ASSUME BusInv, NEW c \in Conns, NEW p \in Packets, Send(c, p) PROVE BusInv'
<1> DEFINE bounds == IF isTypeBroadcast(p) THEN [it |-> End, end |-> End] ELSE AddressedBounds(p)
           g == [sender |-> c, packet |-> p, phase |-> "test", it |-> bounds.it, end |-> bounds.end,
                 at |-> 0, copy |-> <<>>, to |-> NoOne, left |-> <<>>, stale |-> FALSE,
                 expected |-> Addressed(c, p), got |-> <<>>, touched |-> {}, erased |-> {}]
<1>1. /\ TypeInv /\ TableInv /\ ListenInv /\ NestingInv /\ FramesInv /\ CanCall
      /\ finished' = NoFrame
      /\ UNCHANGED <<m_connected, m_connections, undefined, m_msgListeners, wanted, doubled>>
  BY DEF BusInv, Send, listening
<1>2. stack' = Append(stack, g)
  BY DEF Send
<1>3. g \in Frame /\ FrameInv(g, m_connected, wanted, doubled)
  <2>1. /\ isTypeBroadcast(p) => bounds.it = End /\ bounds.end = End
        /\ ~isTypeBroadcast(p) => bounds.it = AddressedBounds(p).it /\ bounds.end = AddressedBounds(p).end
    OBVIOUS
  <2> HIDE DEF bounds
  <2> QED BY <2>1, <1>1, SendFrame
<1> HIDE DEF g
<1>4. stack \in Seq(Frame) /\ Len(stack) \in Nat
  BY <1>1 DEF TypeInv
<1>5. /\ stack' \in Seq(Frame) /\ Len(stack') = Len(stack) + 1
      /\ stack'[Len(stack) + 1] = g /\ \A i \in 1 .. Len(stack) : stack'[i] = stack[i]
  BY <1>2, <1>3, <1>4
<1>6. NestingInv'
  <2>1. \A i \in 1 .. Len(stack) : stack[i].phase = "call"
    BY <1>1, AllInCall
  <2>2. (Len(stack) + 1) - 1 = Len(stack)
    BY <1>4
  <2> QED BY <2>1, <2>2, <1>5 DEF NestingInv
<1>7. FramesInv'
  <2> SUFFICES ASSUME NEW i \in 1 .. Len(stack) + 1
               PROVE  FrameInv(stack'[i], m_connected', wanted', doubled')
    BY <1>5 DEF FramesInv
  <2>1. i \in 1 .. Len(stack) \/ i = Len(stack) + 1
    BY <1>4
  <2>2. FrameInv(stack'[i], m_connected, wanted, doubled)
    BY <2>1, <1>1, <1>3, <1>5 DEF FramesInv
  <2> QED BY <2>2, <1>1
<1>8. TypeInv' /\ TableInv' /\ ListenInv'
  BY <1>1, <1>5 DEF TypeInv, TableInv, ListenInv
<1>9. UndefinedOnlyByErasure' /\ RoutedExactly'
  BY <1>1 DEF UndefinedOnlyByErasure, RoutedExactly, CanCall
<1> QED BY <1>6, <1>7, <1>8, <1>9 DEF BusInv

\* What a step of the innermost routing can build on, and leaves alone.
LEMMA RoutingFacts ==
    ASSUME BusInv, Routing
    PROVE  /\ TypeInv /\ TableInv /\ ListenInv /\ NestingInv /\ FramesInv
           /\ undefined = NoFrame /\ stack # <<>> /\ Len(stack) \in Nat \ {0}
           /\ Top \in Frame /\ FrameInv(Top, m_connected, wanted, doubled)
<1>1. /\ TypeInv /\ TableInv /\ ListenInv /\ NestingInv /\ FramesInv
      /\ undefined = NoFrame /\ stack # <<>>
  BY DEF BusInv, Routing
<1>2. stack \in Seq(Frame) /\ Len(stack) \in Nat \ {0}
  BY <1>1, EmptySeq DEF TypeInv
<1>3. Len(stack) \in 1 .. Len(stack)
  BY <1>2
<1>4. Top = stack[Len(stack)]
  BY DEF Top, Last
<1>5. Top \in Frame
  BY <1>2, <1>3, <1>4, ElementOfSeq
<1> QED BY <1>1, <1>2, <1>3, <1>4, <1>5 DEF FramesInv

\* A step of a routing changes neither the table nor the listeners.
LEMMA TableUnchanged ==
    ASSUME TypeInv, TableInv, ListenInv, UNCHANGED table,
           stack' \in Seq(Frame), finished' \in Frame \cup {NoFrame}
    PROVE  /\ TypeInv' /\ TableInv' /\ ListenInv'
           /\ UNCHANGED <<m_connected, m_connections, wanted, doubled>>
  BY DEF table, listening, TypeInv, TableInv, ListenInv

\* The innermost frame changes, and nothing else.
LEMMA TopKeeps ==
    ASSUME BusInv, Routing, NEW g \in Frame, FrameInv(g, m_connected, wanted, doubled),
           SetTop(g), finished' = NoFrame, UNCHANGED <<table, undefined>>
    PROVE  BusInv'
<1>1. /\ TypeInv /\ TableInv /\ ListenInv /\ NestingInv /\ FramesInv
      /\ undefined = NoFrame /\ stack # <<>>
  BY RoutingFacts
<1>2. UNCHANGED <<m_connected, wanted, doubled>>
  BY DEF table, listening
<1>3. stack' \in Seq(Frame) /\ NestingInv' /\ FramesInv'
  BY <1>1, <1>2, TopSet
<1>4. TypeInv' /\ TableInv' /\ ListenInv'
  BY <1>1, <1>3, TableUnchanged
<1> QED BY <1>1, <1>3, <1>4 DEF BusInv, UndefinedOnlyByErasure, RoutedExactly

\* A listener returns; the loop is broken only by a change of its own vector.
LEMMA ReturnsKeeps == ASSUME BusInv, ListenerReturns PROVE BusInv'
<1>1. /\ TypeInv /\ TableInv /\ ListenInv /\ NestingInv /\ FramesInv
      /\ undefined = NoFrame /\ stack # <<>> /\ Len(stack) \in Nat \ {0}
      /\ Top \in Frame /\ FrameInv(Top, m_connected, wanted, doubled)
      /\ Routing /\ Top.phase = "call" /\ finished' = NoFrame /\ UNCHANGED table
  BY RoutingFacts DEF ListenerReturns
<1>2. m_connected \in SUBSET Conns
  BY <1>1 DEF TypeInv
<1>3. CASE Top.stale
  <2>1. undefined' = Top /\ UNCHANGED stack
    BY <1>3 DEF ListenerReturns
  <2>2. stack' \in Seq(Frame)
    BY <2>1, <1>1 DEF TypeInv
  <2>3. TypeInv' /\ TableInv' /\ ListenInv' /\ UNCHANGED <<m_connected, wanted, doubled>>
    BY <2>2, <1>1, TableUnchanged
  <2>4. NestingInv' /\ FramesInv'
    BY <2>1, <2>3, <1>1 DEF NestingInv, FramesInv
  <2>5. \E l \in Listeners : <<Top.to, l>> \in Top.touched
    BY <1>1, <1>3 DEF FrameInv, CallInv
  <2>6. UndefinedOnlyByErasure'
    <3> DEFINE f == Top
    <3>1. undefined' = f /\ f.phase = "call" /\ \E l \in Listeners : <<f.to, l>> \in f.touched
      BY <2>1, <2>5, <1>1
    <3> HIDE DEF f
    <3> QED BY <3>1 DEF UndefinedOnlyByErasure
  <2> QED BY <2>3, <2>4, <2>6, <1>1 DEF BusInv, RoutedExactly
<1>5. CASE ~Top.stale /\ Len(Top.left) > 1
  <2> DEFINE g == [Top EXCEPT !.left = Tail(@), !.got = Append(@, <<Top.to, Top.left[2]>>)]
  <2>1. SetTop(g) /\ UNCHANGED undefined
    BY <1>5 DEF ListenerReturns
  <2>2. g \in Frame /\ FrameInv(g, m_connected, wanted, doubled)
    <3> HIDE DEF Top
    <3> QED BY <1>1, <1>2, <1>5, NextListenerFrame
  <2> HIDE DEF g
  <2> QED BY <2>1, <2>2, <1>1, TopKeeps
<1>6. CASE ~Top.stale /\ ~(Len(Top.left) > 1)
  <2> DEFINE g == [Top EXCEPT !.phase = "advance", !.to = NoOne, !.left = <<>>]
  <2>1. SetTop(g) /\ UNCHANGED undefined
    BY <1>6 DEF ListenerReturns
  <2>2. g \in Frame /\ FrameInv(g, m_connected, wanted, doubled)
    BY <1>1, <1>2, <1>6, LastListenerFrame
  <2> HIDE DEF g
  <2> QED BY <2>1, <2>2, <1>1, TopKeeps
<1> QED BY <1>3, <1>5, <1>6

\* A listener throws.
LEMMA ThrowsKeeps == ASSUME BusInv, ListenerThrows PROVE BusInv'
<1>1. /\ TypeInv /\ TableInv /\ ListenInv /\ NestingInv /\ FramesInv
      /\ undefined = NoFrame /\ stack # <<>> /\ Len(stack) \in Nat \ {0}
      /\ finished' = NoFrame /\ UNCHANGED <<table, undefined>>
  BY RoutingFacts DEF ListenerThrows
<1>2. PICK n \in 1 .. Len(stack) : stack' = SubSeq(stack, 1, Len(stack) - n)
  BY DEF ListenerThrows
<1> DEFINE k == Len(stack) - n
<1>3. k \in 0 .. Len(stack) /\ stack' = SubSeq(stack, 1, k)
  BY <1>1, <1>2
<1>4. UNCHANGED <<m_connected, wanted, doubled>>
  BY <1>1 DEF table, listening
<1> HIDE DEF k
<1>5. stack' \in Seq(Frame) /\ NestingInv' /\ FramesInv'
  BY <1>1, <1>3, <1>4, Popped
<1>6. TypeInv' /\ TableInv' /\ ListenInv'
  BY <1>1, <1>5, TableUnchanged
<1> QED BY <1>1, <1>5, <1>6 DEF BusInv, UndefinedOnlyByErasure, RoutedExactly

\* The innermost routing uses an invalid iterator of the table.
LEMMA UndefinedKeeps ==
    ASSUME BusInv, Routing, Top.phase # "call", ~isTypeBroadcast(Top.packet),
           \E c \in Top.erased : Type[c] = Top.packet.type,
           undefined' = Top, finished' = NoFrame, UNCHANGED <<table, stack>>
    PROVE  BusInv'
<1>1. /\ TypeInv /\ TableInv /\ ListenInv /\ NestingInv /\ FramesInv /\ Top \in Frame
  BY RoutingFacts
<1>2. stack' \in Seq(Frame)
  BY <1>1 DEF TypeInv
<1>3. TypeInv' /\ TableInv' /\ ListenInv' /\ UNCHANGED <<m_connected, wanted, doubled>>
  BY <1>1, <1>2, TableUnchanged
<1>4. NestingInv' /\ FramesInv'
  BY <1>1, <1>3 DEF NestingInv, FramesInv
<1>5. UndefinedOnlyByErasure'
  <2> DEFINE f == Top
  <2>1. /\ undefined' = f /\ f.phase # "call" /\ f.phase # "remove" /\ ~isTypeBroadcast(f.packet)
        /\ \E c \in f.erased : Type[c] = f.packet.type
    BY <1>1 DEF Frame
  <2> HIDE DEF f
  <2> QED BY <2>1 DEF UndefinedOnlyByErasure
<1> QED BY <1>3, <1>4, <1>5 DEF BusInv, RoutedExactly

\* The innermost routing ends.
LEMMA EndKeeps ==
    ASSUME BusInv, Routing, Top.phase = "test",
           ~isTypeBroadcast(Top.packet) => Top.it = Top.end,
           isTypeBroadcast(Top.packet) => Top.copy = <<>> /\ LaterTypes = {},
           stack' = Front(stack), finished' = Top, UNCHANGED <<table, undefined>>
    PROVE  BusInv'
<1>1. /\ TypeInv /\ TableInv /\ ListenInv /\ NestingInv /\ FramesInv
      /\ undefined = NoFrame /\ stack # <<>> /\ Len(stack) \in Nat \ {0}
      /\ Top \in Frame /\ FrameInv(Top, m_connected, wanted, doubled)
  BY RoutingFacts
<1>2. UNCHANGED <<m_connected, wanted, doubled>>
  BY DEF table, listening
<1> DEFINE k == Len(stack) - 1
<1>3. k \in 0 .. Len(stack) /\ stack' = SubSeq(stack, 1, k)
  BY <1>1 DEF Front
<1> HIDE DEF k
<1>4. stack' \in Seq(Frame) /\ NestingInv' /\ FramesInv'
  BY <1>1, <1>2, <1>3, Popped
<1>5. TypeInv' /\ TableInv' /\ ListenInv'
  BY <1>1, <1>4, TableUnchanged
<1>6. RoutedExactly'
  <2> DEFINE f == Top
  <2>1. isTypeBroadcast(f.packet) =>
           f.copy = <<>> /\ \A t \in Types : ~(t > f.at /\ m_connections[t] # <<>>)
    BY DEF LaterTypes
  <2>2. /\ f \in Frame /\ FrameInv(f, m_connected, wanted, doubled) /\ f.phase = "test"
        /\ ~isTypeBroadcast(f.packet) => f.it = f.end
        /\ finished' = f
    BY <1>1
  <2> HIDE DEF f
  <2>3. \A c \in Conns \ doubled : \A l \in Listeners :
           LET n == Times(f.got, <<c, l>>) IN
           IF <<c, l>> \in f.touched THEN n <= 1 ELSE n = IF <<c, l>> \in f.expected THEN 1 ELSE 0
    BY <2>1, <2>2, <1>1, EndFrame
  <2> QED BY <2>2, <2>3, <1>2 DEF RoutedExactly
<1> QED BY <1>1, <1>4, <1>5, <1>6 DEF BusInv, UndefinedOnlyByErasure

\* The loop test of an addressed routing: end, end() met too late, or a call.
LEMMA AddressedTestKeeps == ASSUME BusInv, AddressedTest PROVE BusInv'
<1>1. /\ TypeInv /\ TableInv /\ ListenInv
      /\ Top \in Frame /\ FrameInv(Top, m_connected, wanted, doubled)
      /\ Routing /\ Top.phase = "test" /\ ~isTypeBroadcast(Top.packet) /\ UNCHANGED table
  BY RoutingFacts DEF AddressedTest
<1>2. WalkInv(Top, m_connected)
  BY <1>1 DEF FrameInv
<1>3. CASE Top.it = Top.end
  <2>1. stack' = Front(stack) /\ finished' = Top /\ UNCHANGED undefined
    BY <1>3 DEF AddressedTest
  <2> QED BY <2>1, <1>1, <1>3, EndKeeps
<1>4. CASE Top.it # Top.end /\ Top.it = End
  <2>1. undefined' = Top /\ finished' = NoFrame /\ UNCHANGED stack
    BY <1>4 DEF AddressedTest
  <2>2. \E c \in Top.erased : Type[c] = Top.packet.type
    BY <1>1, <1>2, <1>4 DEF WalkInv
  <2>3. Top.phase # "call"
    BY <1>1
  <2> QED BY <2>1, <2>2, <2>3, <1>1, UndefinedKeeps
<1>5. CASE Top.it # Top.end /\ Top.it # End
  <2> DEFINE g == CallRecipient(Top, Top.it)
  <2>1. SetTop(g) /\ finished' = NoFrame /\ UNCHANGED undefined
    BY <1>5 DEF AddressedTest
  <2>2. Top.it \in Conns
    BY <1>1, <1>2, <1>5 DEF WalkInv, TypeInv
  <2>3. g \in Frame /\ FrameInv(g, m_connected, wanted, doubled)
    BY <2>2, <1>1, <1>5, NotifyFrame
  <2> HIDE DEF g
  <2> QED BY <2>1, <2>3, <1>1, TopKeeps
<1> QED BY <1>3, <1>4, <1>5

\* The increment of an addressed routing.
LEMMA AddressedAdvanceKeeps == ASSUME BusInv, AddressedAdvance PROVE BusInv'
<1>1. /\ TypeInv /\ TableInv
      /\ Top \in Frame /\ FrameInv(Top, m_connected, wanted, doubled)
      /\ Routing /\ Top.phase = "advance" /\ ~isTypeBroadcast(Top.packet)
      /\ finished' = NoFrame /\ UNCHANGED table
  BY RoutingFacts DEF AddressedAdvance
<1>2. CASE Top.it = Dangling
  <2>1. undefined' = Top /\ UNCHANGED stack
    BY <1>2 DEF AddressedAdvance
  <2>2. \E c \in Top.erased : Type[c] = Top.packet.type
    BY <1>1, <1>2 DEF FrameInv, WalkInv
  <2>3. Top.phase # "call"
    BY <1>1
  <2> QED BY <2>1, <2>2, <2>3, <1>1, UndefinedKeeps
<1>3. CASE Top.it # Dangling
  <2> DEFINE s == m_connections[Top.packet.type]
             i == CHOOSE i \in DOMAIN s : s[i] = Top.it
             g == [Top EXCEPT !.phase = "test", !.it = At(s, i + 1)]
  <2>1. SetTop(g) /\ UNCHANGED undefined
    BY <1>3 DEF AddressedAdvance
  <2>2. g \in Frame /\ FrameInv(g, m_connected, wanted, doubled)
    BY <1>1, <1>3, AdvanceFrame
  <2> HIDE DEF g
  <2> QED BY <2>1, <2>2, <1>1, TopKeeps
<1> QED BY <1>2, <1>3

\* The type whose turn comes next.
LEMMA NextTypeLeast ==
    ASSUME LaterTypes # {}
    PROVE  NextType \in LaterTypes /\ \A u \in LaterTypes : NextType <= u
<1>1. LaterTypes \in SUBSET (Nat \ {0})
  BY AddressAssumption DEF LaterTypes, Types
<1>2. \E t \in LaterTypes : \A u \in LaterTypes : t <= u
  BY <1>1, Least
<1> QED BY <1>2 DEF NextType

\* The loop test of a broadcast: a call, the next type, or the end.
LEMMA BroadcastTestKeeps == ASSUME BusInv, BroadcastTest PROVE BusInv'
<1>1. /\ TypeInv /\ TableInv /\ ListenInv
      /\ Top \in Frame /\ FrameInv(Top, m_connected, wanted, doubled)
      /\ Routing /\ Top.phase = "test" /\ isTypeBroadcast(Top.packet) /\ UNCHANGED <<table, undefined>>
  BY RoutingFacts DEF BroadcastTest
<1>2. CASE Top.copy # <<>>
  <2> DEFINE c == Head(Top.copy)
             g == CallRecipient(Top, c)
  <2>1. SetTop(g) /\ finished' = NoFrame
    BY <1>2 DEF BroadcastTest
  <2>2. c \in Conns /\ c = Top.copy[1]
    <3>1. Top.copy \in Seq(Conns)
      BY <1>1 DEF Frame
    <3> QED BY <3>1, <1>2, HeadTailProperties
  <2> HIDE DEF c
  <2>3. g \in Frame /\ FrameInv(g, m_connected, wanted, doubled)
    BY <2>2, <1>1, <1>2, NotifyFrame
  <2> HIDE DEF g
  <2> QED BY <2>1, <2>3, <1>1, TopKeeps
<1>3. CASE Top.copy = <<>> /\ LaterTypes = {}
  <2>1. stack' = Front(stack) /\ finished' = Top
    BY <1>3 DEF BroadcastTest
  <2> QED BY <2>1, <1>1, <1>3, EndKeeps
<1>4. CASE Top.copy = <<>> /\ LaterTypes # {}
  <2> DEFINE u == NextType
             g == [Top EXCEPT !.at = u, !.copy = Chosen(m_connections[u], Top.packet)]
  <2>1. SetTop(g) /\ finished' = NoFrame
    BY <1>4 DEF BroadcastTest
  <2>2. u \in Types /\ u > Top.at /\ \A t \in Types : t > Top.at /\ m_connections[t] # <<>> => u <= t
    BY <1>4, NextTypeLeast DEF LaterTypes
  <2> HIDE DEF u
  <2>3. g \in Frame /\ FrameInv(g, m_connected, wanted, doubled)
    BY <2>2, <1>1, <1>4, NextTypeFrame
  <2> HIDE DEF g
  <2> QED BY <2>1, <2>3, <1>1, TopKeeps
<1> QED BY <1>2, <1>3, <1>4

\* The increment of a broadcast.
LEMMA BroadcastAdvanceKeeps == ASSUME BusInv, BroadcastAdvance PROVE BusInv'
<1> DEFINE g == [Top EXCEPT !.phase = "test", !.copy = Tail(@)]
<1>1. /\ TypeInv /\ Top \in Frame /\ FrameInv(Top, m_connected, wanted, doubled)
      /\ Routing /\ Top.phase = "advance" /\ isTypeBroadcast(Top.packet)
      /\ finished' = NoFrame /\ UNCHANGED <<table, undefined>> /\ SetTop(g)
  BY RoutingFacts DEF BroadcastAdvance
<1>2. m_connected \in SUBSET Conns
  BY <1>1 DEF TypeInv
<1>3. g \in Frame /\ FrameInv(g, m_connected, wanted, doubled)
  BY <1>1, <1>2, BroadcastAdvanceFrame
<1> HIDE DEF g
<1> QED BY <1>1, <1>3, TopKeeps

\* The invariant holds at first.
LEMMA BusInit == Init => BusInv
<1> SUFFICES ASSUME Init PROVE BusInv
  OBVIOUS
<1>1. /\ m_connected = {} /\ m_connections = [t \in Types |-> <<>>]
      /\ stack = <<>> /\ finished = NoFrame /\ undefined = NoFrame
      /\ m_msgListeners \in [Conns -> Seq(Listeners)]
      /\ wanted = [c \in Conns |-> [l \in Listeners |-> Times(m_msgListeners[c], l)]]
      /\ doubled = {c \in Conns : \E l \in Listeners : wanted[c][l] > 1}
  BY ListenersAssumption DEF Init
<1>2. /\ <<>> \in Seq(Conns) /\ <<>> \in Seq(Frame) /\ Len(<<>>) = 0 /\ 1 .. 0 = {}
      /\ \A i \in 1 .. 0 - 1 : FALSE
  OBVIOUS
<1>3. \A c \in Conns, l \in Listeners :
         /\ Times(m_msgListeners[c], l) \in Nat
         /\ ~(Times(m_msgListeners[c], l) > 1) =>
               \A i, j \in 1 .. Len(m_msgListeners[c]) :
                  m_msgListeners[c][i] = l /\ m_msgListeners[c][j] = l => i = j
  BY <1>1, TimesNat
<1>4. TypeInv
  BY <1>1, <1>2, <1>3 DEF TypeInv
<1>5. TableInv
  BY <1>1, <1>2 DEF TableInv, Sorted, Contains
<1>6. ListenInv
  <2> SUFFICES ASSUME NEW c \in Conns \ doubled
               PROVE  /\ Distinct(m_msgListeners[c])
                      /\ \A l \in Listeners :
                            wanted[c][l] = IF Contains(m_msgListeners[c], l) THEN 1 ELSE 0
    BY DEF ListenInv
  <2> DEFINE v == m_msgListeners[c]
  <2>1. v \in Seq(Listeners) /\ \A i \in 1 .. Len(v) : v[i] \in Listeners
    BY <1>1, ElementOfSeq
  <2>2. \A l \in Listeners : wanted[c][l] = Times(v, l) /\ ~(Times(v, l) > 1)
    BY <1>1
  <2>3. \A l \in Listeners : \A i, j \in 1 .. Len(v) : v[i] = l /\ v[j] = l => i = j
    BY <2>2, <1>3
  <2>4. Distinct(v)
    BY <2>1, <2>3 DEF Distinct
  <2> HIDE DEF v
  <2>5. \A l \in Listeners : Times(v, l) = IF Contains(v, l) THEN 1 ELSE 0
    BY <2>1, <2>3, TimesOnce
  <2> QED BY <2>2, <2>4, <2>5 DEF v
<1>7. NestingInv /\ FramesInv
  BY <1>1, <1>2 DEF NestingInv, FramesInv
<1> QED BY <1>1, <1>4, <1>5, <1>6, <1>7 DEF BusInv, UndefinedOnlyByErasure, RoutedExactly

\* Every step keeps it.
LEMMA BusStep == BusInv /\ [Next]_vars => BusInv'
<1> SUFFICES ASSUME BusInv, [Next]_vars PROVE BusInv'
  OBVIOUS
<1>1. ASSUME NEW c \in Conns, RegisterBus(c) \/ Connect(c) \/ Disconnect(c) PROVE BusInv'
  BY <1>1, RegisterKeeps, ConnectKeeps, DisconnectKeeps
<1>2. ASSUME NEW c \in Conns, NEW p \in Packets, Send(c, p) PROVE BusInv'
  BY <1>2, SendKeeps
<1>3. ASSUME NEW x \in Changing, AddMessageListener(x[1], x[2]) \/ RemoveMessageListener(x[1], x[2])
      PROVE  BusInv'
  <2>1. x[1] \in Conns /\ x[2] \in Listeners
    BY ListenersAssumption
  <2> QED BY <2>1, <1>3, AddKeeps, RemoveKeeps
<1>4. ASSUME RouteStep PROVE BusInv'
  BY <1>4, ReturnsKeeps, ThrowsKeeps, AddressedTestKeeps, AddressedAdvanceKeeps,
     BroadcastTestKeeps, BroadcastAdvanceKeeps DEF RouteStep
<1>5. CASE UNCHANGED vars
  <2>1. UNCHANGED <<m_connected, m_connections, stack, finished, undefined,
                    m_msgListeners, wanted, doubled>>
    BY <1>5 DEF vars
  <2>2. TypeInv' /\ TableInv' /\ ListenInv'
    BY <2>1 DEF BusInv, TypeInv, TableInv, ListenInv
  <2>3. NestingInv' /\ FramesInv'
    BY <2>1 DEF BusInv, NestingInv, FramesInv
  <2>4. UndefinedOnlyByErasure' /\ RoutedExactly'
    BY <2>1 DEF BusInv, UndefinedOnlyByErasure, RoutedExactly
  <2> QED BY <2>2, <2>3, <2>4 DEF BusInv
<1> QED BY <1>1, <1>2, <1>3, <1>4, <1>5 DEF Next

\* The inductive invariant of the bus: table, listeners, nesting, and for every
\* routing in progress where its iterators are and whom it has called.
THEOREM BusInvariant == Spec => []BusInv
  BY BusInit, BusStep, PTL DEF Spec

\* AbstractBus keeps each connected LocalConnection once in its table, under its
\* type and ordered by instance, and no other, whatever listeners do.
THEOREM TableTheorem == Spec => []TableIsExact
<1>1. BusInv => TableIsExact
  <2> SUFFICES ASSUME BusInv, NEW t \in Types
               PROVE  /\ \A c \in Conns :
                            Cardinality({i \in DOMAIN m_connections[t] : m_connections[t][i] = c})
                              = IF c \in m_connected /\ Type[c] = t THEN 1 ELSE 0
                      /\ \A i, j \in DOMAIN m_connections[t] :
                            i < j => Instance[m_connections[t][i]] < Instance[m_connections[t][j]]
    BY DEF TableIsExact
  <2> DEFINE s == m_connections[t]
  <2>1. s \in Seq(Conns) /\ Sorted(s) /\ \A c \in Conns : Contains(s, c) <=> c \in m_connected /\ Type[c] = t
    BY DEF BusInv, TypeInv, TableInv
  <2> HIDE DEF s
  <2>2. /\ Len(s) \in Nat /\ DOMAIN s = 1 .. Len(s)
        /\ \A i \in 1 .. Len(s) : Instance[s[i]] \in Nat
    BY <2>1, LenProperties, ElementOfSeq, AddressAssumption
  <2>3. \A i, j \in 1 .. Len(s) : s[i] = s[j] => i = j
    <3> SUFFICES ASSUME NEW i \in 1 .. Len(s), NEW j \in 1 .. Len(s), s[i] = s[j] PROVE i = j
      OBVIOUS
    <3>1. ~(i < j) /\ ~(j < i)
      BY <2>1, <2>2 DEF Sorted
    <3> QED BY <3>1, <2>2
  <2>4. ASSUME NEW c \in Conns
        PROVE  Cardinality({i \in DOMAIN s : s[i] = c}) = IF c \in m_connected /\ Type[c] = t THEN 1 ELSE 0
    <3>1. Times(s, c) = IF Contains(s, c) THEN 1 ELSE 0
      BY <2>1, <2>3, TimesOnce
    <3> QED BY <3>1, <2>1 DEF Times
  <2> QED BY <2>1, <2>2, <2>4 DEF Sorted, s
<1> QED BY <1>1, BusInvariant, PTL

\* A routing of BasicBus that runs to its end has called each listener of each
\* recipient once and nobody else, but for what came or went meanwhile.
THEOREM RoutedTheorem == Spec => []RoutedExactly
<1>1. BusInv => RoutedExactly
  BY DEF BusInv
<1> QED BY <1>1, BusInvariant, PTL

\* The loops of Bus.cpp use an invalid iterator only after a listener
\* disconnected a connection of the type addressed; those of AbstractConnection
\* only after a listener of the same connection came or went; and
\* removeMessageListener erases end() only where one listener was added twice.
THEOREM UndefinedTheorem == Spec => []UndefinedOnlyByErasure
<1>1. BusInv => UndefinedOnlyByErasure
  BY DEF BusInv
<1> QED BY <1>1, BusInvariant, PTL
=============================================================================
