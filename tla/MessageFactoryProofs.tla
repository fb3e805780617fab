------------------------ MODULE MessageFactoryProofs ------------------------
(***************************************************************************)
(* Proofs about MessageFactory, for all types of data, all widths of       *)
(* integers, all messages and all sizes of buffers.  Data of any type is   *)
(* read as it was written, wherever it is in a buffer, and a buffer that   *)
(* ends in the middle of it is noticed (ReadAsWritten); getSize announces  *)
(* what serialize appends; and what the receiver makes of the stream is    *)
(* what was sent.  A template of DataSerializer calls itself for the types *)
(* of the parts, which are nested less deeply: the functions of the type   *)
(* are shown to exist, and their properties to hold, by induction on the   *)
(* nesting; their loops are runs of a step from one index to the next.     *)
(***************************************************************************)
EXTENDS MessageFactory, FiniteSetTheorems, WellFoundedInduction, TLAPS
-----------------------------------------------------------------------------
(* Induction and loops.                                                    *)

\* Induction on natural numbers, for a set of numbers.
LEMMA NatInductive ==
  ASSUME NEW P, 0 \in P, \A n \in Nat : n \in P => n + 1 \in P
  PROVE  \A n \in Nat : n \in P
<1>1. SUFFICES ASSUME Nat \ P # {} PROVE FALSE
  OBVIOUS
<1>2. PICK x \in Nat \ P : \A y \in Nat \ P : ~(<<y, x>> \in OpToRel(<, Nat))
  BY <1>1, WFMin, NatLessThanWellFounded
<1>3. x \in Nat /\ x # 0 /\ x \notin P
  BY <1>2
<1>4. x - 1 \in Nat /\ x - 1 < x /\ (x - 1) + 1 = x
  BY <1>3
<1>5. <<x - 1, x>> \in OpToRel(<, Nat)
  BY <1>3, <1>4 DEF OpToRel
<1>6. x - 1 \in P
  BY <1>2, <1>4, <1>5
<1>. QED  BY <1>3, <1>4, <1>6

\* The same up to a bound.
LEMMA BoundedInductive ==
  ASSUME NEW n \in Nat, NEW P, 0 \in P, \A k \in 1..n : k - 1 \in P => k \in P
  PROVE  \A k \in 0..n : k \in P
<1>. DEFINE Q == {k \in Nat : k <= n => k \in P}
<1>1. 0 \in Q
  OBVIOUS
<1>2. ASSUME NEW k \in Nat, k \in Q PROVE k + 1 \in Q
  <2>1. CASE k + 1 <= n
    <3>1. k + 1 \in 1..n /\ (k + 1) - 1 = k /\ k <= n
      BY <2>1
    <3>2. k \in P
      BY <1>2, <3>1
    <3>. QED  BY <3>1, <3>2
  <2>2. CASE ~(k + 1 <= n)
    BY <2>2
  <2>. QED  BY <2>1, <2>2
<1>3. \A k \in Nat : k \in Q
  <2>. HIDE DEF Q
  <2>. QED  BY <1>1, <1>2, NatInductive
<1>. QED  BY <1>3

\* A loop runs n times through values of V: it has a run, and all its runs are the same.
IsLoop(n, V, a, step) == n \in Nat /\ a \in V /\ step \in [1..n -> [V -> V]]
IsRun(w, n, V, a, step) ==
  w[0] = a /\ \A k \in 1..n : w[k - 1] \in V => w[k] = step[k][w[k - 1]]
HasRun(n, V, a, step) ==
  \E w \in [0..n -> V] : w[0] = a /\ \A k \in 1..n : w[k] = step[k][w[k - 1]]
SameRun(w, u, n, V) == \A k \in 0..n : w[k] \in V /\ w[k] = u[k]

\* Two runs of a loop pass through the same values.
LEMMA RunUnique ==
  ASSUME NEW n, NEW V, NEW a, NEW step, IsLoop(n, V, a, step),
         NEW w, IsRun(w, n, V, a, step), NEW u, IsRun(u, n, V, a, step)
  PROVE  SameRun(w, u, n, V)
<1>. USE DEF IsLoop
<1>. DEFINE P == {k \in 0..n : w[k] \in V /\ w[k] = u[k]}
<1>1. 0 \in P
  BY DEF IsRun
<1>2. ASSUME NEW k \in 1..n, k - 1 \in P PROVE k \in P
  <2>1. w[k] = step[k][w[k - 1]] /\ u[k] = step[k][u[k - 1]]
    BY <1>2 DEF IsRun
  <2>2. step[k] \in [V -> V]
    OBVIOUS
  <2>. QED  BY <1>2, <2>1, <2>2
<1>3. \A k \in 0..n : k \in P
  <2>. HIDE DEF P
  <2>. QED  BY <1>1, <1>2, BoundedInductive
<1>. QED  BY <1>3 DEF SameRun

\* A loop has a run.
LEMMA RunExists ==
  ASSUME NEW n, NEW V, NEW a, NEW step, IsLoop(n, V, a, step)
  PROVE  HasRun(n, V, a, step)
<1>. USE DEF IsLoop
<1>. DEFINE P == {m \in 0..n : \E w \in [0..m -> V] :
                     w[0] = a /\ \A k \in 1..m : w[k] = step[k][w[k - 1]]}
<1>1. 0 \in P
  <2>. DEFINE w == [k \in 0..0 |-> a]
  <2>1. w \in [0..0 -> V] /\ w[0] = a
    OBVIOUS
  <2>2. \A k \in 1..0 : w[k] = step[k][w[k - 1]]
    OBVIOUS
  <2>3. \E v \in [0..0 -> V] : v[0] = a /\ \A k \in 1..0 : v[k] = step[k][v[k - 1]]
    <3>. HIDE DEF w
    <3>. QED  BY <2>1, <2>2
  <2>. QED  BY <2>3
<1>2. ASSUME NEW m \in 1..n, m - 1 \in P PROVE m \in P
  <2>1. PICK w \in [0..m-1 -> V] : w[0] = a /\ \A k \in 1..m-1 : w[k] = step[k][w[k - 1]]
    BY <1>2
  <2>. DEFINE u == [k \in 0..m |-> IF k = m THEN step[m][w[m - 1]] ELSE w[k]]
  <2>2. step[m] \in [V -> V] /\ w[m - 1] \in V
    BY <2>1
  <2>3. u \in [0..m -> V]
    BY <2>1, <2>2
  <2>4. u[0] = a
    BY <2>1
  <2>5. ASSUME NEW k \in 1..m PROVE u[k] = step[k][u[k - 1]]
    <3>1. u[k - 1] = w[k - 1]
      OBVIOUS
    <3>2. CASE k = m
      BY <3>1, <3>2
    <3>3. CASE k # m
      <4>1. k \in 1..m-1
        BY <3>3
      <4>. QED  BY <2>1, <3>1, <3>3, <4>1
    <3>. QED  BY <3>2, <3>3
  <2>6. \E v \in [0..m -> V] : v[0] = a /\ \A k \in 1..m : v[k] = step[k][v[k - 1]]
    <3>. HIDE DEF u
    <3>. QED  BY <2>3, <2>4, <2>5
  <2>7. m \in 0..n
    OBVIOUS
  <2>. QED  BY <2>6, <2>7, Zenon
<1>3. n \in P
  <2>1. \A k \in 0..n : k \in P
    <3>. HIDE DEF P
    <3>. QED  BY <1>1, <1>2, BoundedInductive
  <2>. QED  BY <2>1
<1>. QED  BY <1>3 DEF HasRun
-----------------------------------------------------------------------------
(* Integers in memory.                                                     *)

\* The values of a byte.
Byte == 0..ByteBase-1

\* Shifted takes off one byte after the other.
LEMMA ShiftedRun ==
  ASSUME NEW n \in Int, NEW width \in Nat
  PROVE  /\ Shifted(n, width) \in [0..width -> Int]
         /\ Shifted(n, width)[0] = n
         /\ \A k \in 1..width : Shifted(n, width)[k] = Shifted(n, width)[k - 1] \div ByteBase
<1>. DEFINE step == [k \in 1..width |-> [v \in Int |-> v \div ByteBase]]
            IsShifted(w) == w = [k \in 0..width |-> IF k = 0 THEN n ELSE w[k - 1] \div ByteBase]
<1>1. ByteBase \in Nat \ {0}
  BY WidthAssumption
<1>2. IsLoop(width, Int, n, step)
  BY <1>1 DEF IsLoop
<1>3. PICK w \in [0..width -> Int] : w[0] = n /\ \A k \in 1..width : w[k] = step[k][w[k - 1]]
  <2>1. HasRun(width, Int, n, step)
    <3>. HIDE DEF step
    <3>. QED  BY <1>2, RunExists
  <2>. QED  BY <2>1 DEF HasRun
<1>4. ASSUME NEW k \in 1..width PROVE w[k] = w[k - 1] \div ByteBase
  <2>1. w[k - 1] \in Int
    OBVIOUS
  <2>2. w[k] = step[k][w[k - 1]]
    BY <1>3
  <2>. QED  BY <2>1, <2>2
<1>5. IsShifted(w)
  BY <1>3, <1>4
<1>6. Shifted(n, width) = CHOOSE u : IsShifted(u)
  BY DEF Shifted
<1>7. IsShifted(Shifted(n, width))
  <2>. HIDE DEF IsShifted
  <2>. QED  BY <1>5, <1>6
<1>. DEFINE u == Shifted(n, width)
<1>8. u[0] = n /\ \A k \in 1..width : u[k] = u[k - 1] \div ByteBase
  <2>1. u = [k \in 0..width |-> IF k = 0 THEN n ELSE u[k - 1] \div ByteBase]
    BY <1>7
  <2>. HIDE DEF u
  <2>. QED  BY <2>1
<1>9. \A k \in 0..width : u[k] \in Int
  <2>1. IsRun(u, width, Int, n, step)
    <3>. HIDE DEF u
    <3>. QED  BY <1>8 DEF IsRun
  <2>2. SameRun(u, u, width, Int)
    <3>. HIDE DEF u, step
    <3>. QED  BY <1>2, <2>1, RunUnique
  <2>. QED  BY <2>2 DEF SameRun
<1>10. u = [k \in 0..width |-> u[k]]
  <2>1. u = [k \in 0..width |-> IF k = 0 THEN n ELSE u[k - 1] \div ByteBase]
    BY <1>7
  <2>. HIDE DEF u
  <2>. QED  BY <2>1
<1>. HIDE DEF u
<1>11. u \in [0..width -> Int]
  BY <1>9, <1>10
<1>. QED  BY <1>8, <1>11 DEF u

\* The bytes of an integer in memory: as many as the integer is wide.
LEMMA BytesType ==
  ASSUME NEW n \in Int, NEW width \in Nat
  PROVE  /\ Bytes(n, width) \in [1..width -> Byte]
         /\ Bytes(n, width) \in Seq(Byte) /\ Len(Bytes(n, width)) = width
<1>1. ByteBase \in Nat \ {0}
  BY WidthAssumption
<1>2. \A k \in 1..width : Shifted(n, width)[k - 1] \in Int
  BY ShiftedRun
<1>3. \A k \in 1..width : Shifted(n, width)[k - 1] % ByteBase \in Byte
  BY <1>1, <1>2 DEF Byte
<1>4. Bytes(n, width) \in [1..width -> Byte]
  BY <1>3 DEF Bytes
<1>. QED  BY <1>4

\* An integer is put together again from quotient and remainder.
LEMMA DivMod ==
  ASSUME NEW x \in Int, NEW b \in Nat \ {0}
  PROVE  /\ x \div b \in Int /\ x % b \in Int
         /\ (x \div b) * b + (x % b) = x
OBVIOUS

\* What the bytes of a signed or unsigned integer may stand for.
Ints(signed) == IF signed THEN Int ELSE Nat

\* Value puts the bytes together one after the other, from the highest.
LEMMA ValueRun ==
  ASSUME NEW width \in Nat \ {0}, NEW bytes \in [1..width -> Byte], NEW signed \in BOOLEAN
  PROVE  \E v \in [0..width -> Ints(signed)] :
            /\ v[0] = Sign(bytes, signed)
            /\ \A k \in 1..width : v[k] = v[k - 1] * ByteBase + bytes[width - k + 1]
            /\ Value(bytes, signed) = v[width]
<1>. DEFINE V == Ints(signed)
            a == Sign(bytes, signed)
            step == [k \in 1..width |-> [v \in V |-> v * ByteBase + bytes[width - k + 1]]]
            IsValue(w) == w = [k \in 0..Len(bytes) |->
                                  IF k = 0 THEN Sign(bytes, signed)
                                  ELSE w[k - 1] * ByteBase + bytes[Len(bytes) - k + 1]]
<1>1. ByteBase \in Nat \ {0} /\ Len(bytes) = width
  BY WidthAssumption
<1>2. IsLoop(width, V, a, step)
  <2>1. a \in V
    BY DEF Sign, Ints
  <2>2. ASSUME NEW k \in 1..width, NEW v \in V PROVE v * ByteBase + bytes[width - k + 1] \in V
    <3>1. bytes[width - k + 1] \in Nat
      BY <1>1 DEF Byte
    <3>2. CASE signed
      <4>1. v \in Int /\ V = Int
        BY <3>2 DEF Ints
      <4>. QED  BY <1>1, <3>1, <4>1
    <3>3. CASE ~signed
      <4>1. v \in Nat /\ V = Nat
        BY <3>3 DEF Ints
      <4>2. v * ByteBase \in Nat
        BY <1>1, <4>1
      <4>. QED  BY <3>1, <4>1, <4>2
    <3>. QED  BY <3>2, <3>3
  <2>3. step \in [1..width -> [V -> V]]
    <3>. HIDE DEF V
    <3>. QED  BY <2>2
  <2>. QED  BY <2>1, <2>3 DEF IsLoop
<1>. HIDE DEF V
<1>3. PICK w \in [0..width -> V] : w[0] = a /\ \A k \in 1..width : w[k] = step[k][w[k - 1]]
  <2>1. HasRun(width, V, a, step)
    <3>. HIDE DEF step
    <3>. QED  BY <1>2, RunExists
  <2>. QED  BY <2>1 DEF HasRun
<1>4. ASSUME NEW k \in 1..width PROVE w[k] = w[k - 1] * ByteBase + bytes[width - k + 1]
  <2>1. w[k - 1] \in V
    OBVIOUS
  <2>2. w[k] = step[k][w[k - 1]]
    BY <1>3
  <2>. QED  BY <2>1, <2>2
<1>5. IsValue(w)
  BY <1>1, <1>3, <1>4
<1>. DEFINE u == CHOOSE x : IsValue(x)
<1>6. Value(bytes, signed) = u[width]
  BY <1>1 DEF Value
<1>7. u = [k \in 0..Len(bytes) |-> IF k = 0 THEN Sign(bytes, signed)
                                   ELSE u[k - 1] * ByteBase + bytes[Len(bytes) - k + 1]]
  <2>1. IsValue(u)
    <3>. HIDE DEF IsValue
    <3>. QED  BY <1>5
  <2>. HIDE DEF u
  <2>. QED  BY <2>1
<1>. HIDE DEF u, IsValue
<1>8. u[0] = a /\ \A k \in 1..width : u[k] = u[k - 1] * ByteBase + bytes[width - k + 1]
  BY <1>1, <1>7
<1>9. \A k \in 0..width : u[k] \in V
  <2>1. IsRun(u, width, V, a, step)
    BY <1>8 DEF IsRun
  <2>2. SameRun(u, u, width, V)
    <3>. HIDE DEF step
    <3>. QED  BY <1>2, <2>1, RunUnique
  <2>. QED  BY <2>2 DEF SameRun
<1>10. u \in [0..width -> V]
  BY <1>1, <1>7, <1>9
<1>. QED  BY <1>6, <1>8, <1>10 DEF V

\* An integer that fits is read as it was written.
LEMMA ValueOfBytes ==
  ASSUME NEW n \in Int, NEW width \in Nat \ {0}, NEW signed \in BOOLEAN, Fits(n, width, signed)
  PROVE  Value(Bytes(n, width), signed) = n
<1>. DEFINE bytes == Bytes(n, width)
            s == Shifted(n, width)
<1>1. ByteBase \in Nat \ {0}
  BY WidthAssumption
<1>2. bytes \in [1..width -> Byte]
  BY BytesType
<1>3. /\ s \in [0..width -> Int] /\ s[0] = n
      /\ \A k \in 1..width : s[k] = s[k - 1] \div ByteBase
  BY ShiftedRun
<1>4. \A k \in 1..width : bytes[k] = s[k - 1] % ByteBase
  BY DEF Bytes
<1>5. s[width] = Sign(bytes, signed)
  BY DEF Fits
<1>. HIDE DEF bytes, s
<1>6. PICK v \in [0..width -> Ints(signed)] :
            /\ v[0] = Sign(bytes, signed)
            /\ \A k \in 1..width : v[k] = v[k - 1] * ByteBase + bytes[width - k + 1]
            /\ Value(bytes, signed) = v[width]
  BY <1>2, ValueRun
<1>. DEFINE P == {k \in 0..width : v[k] = s[width - k]}
<1>7. 0 \in P
  BY <1>5, <1>6
<1>8. ASSUME NEW k \in 1..width, k - 1 \in P PROVE k \in P
  <2>. DEFINE j == width - k
  <2>1. j \in 0..width-1 /\ j + 1 \in 1..width /\ width - (k - 1) = j + 1 /\ (j + 1) - 1 = j
    OBVIOUS
  <2>2. v[k - 1] = s[j + 1]
    BY <1>8, <2>1
  <2>3. s[j + 1] = s[j] \div ByteBase /\ s[j] \in Int
    BY <1>3, <2>1
  <2>4. bytes[j + 1] = s[j] % ByteBase
    BY <1>4, <2>1
  <2>5. v[k] = (s[j] \div ByteBase) * ByteBase + (s[j] % ByteBase)
    BY <1>6, <2>1, <2>2, <2>3, <2>4
  <2>6. v[k] = s[j]
    BY <1>1, <2>3, <2>5, DivMod
  <2>. QED  BY <2>6
<1>9. \A k \in 0..width : k \in P
  <2>. HIDE DEF P
  <2>. QED  BY <1>7, <1>8, BoundedInductive
<1>10. v[width] = s[0]
  BY <1>9
<1>. QED  BY <1>3, <1>6, <1>10 DEF bytes
-----------------------------------------------------------------------------
(* Recursion along the nesting of types.                                   *)

\* How deeply a type is nested is a number with a bound.
LEMMA HeightType ==
  MaxHeight \in Nat /\ \A type \in Types : Height[type] \in 0..MaxHeight /\ Height[type] \in Nat
BY TypesAssumption

\* What holds for a type whenever it holds for all that are nested less, holds for all.
LEMMA HeightInduction ==
  ASSUME NEW P, \A t \in Types : (\A u \in Types : Height[u] < Height[t] => u \in P) => t \in P
  PROVE  \A t \in Types : t \in P
<1>. DEFINE Q == {n \in Nat : \A t \in Types : Height[t] < n => t \in P}
<1>1. 0 \in Q
  BY HeightType
<1>2. ASSUME NEW n \in Nat, n \in Q PROVE n + 1 \in Q
  <2>1. ASSUME NEW t \in Types, Height[t] < n + 1 PROVE t \in P
    <3>1. ASSUME NEW u \in Types, Height[u] < Height[t] PROVE u \in P
      <4>1. Height[u] < n
        BY <2>1, <3>1, HeightType
      <4>. QED  BY <1>2, <4>1
    <3>. QED  BY <3>1
  <2>. QED  BY <2>1
<1>3. \A n \in Nat : n \in Q
  <2>. HIDE DEF Q
  <2>. QED  BY <1>1, <1>2, NatInductive
<1>4. MaxHeight + 1 \in Nat /\ \A t \in Types : Height[t] < MaxHeight + 1
  BY HeightType
<1>. QED  BY <1>3, <1>4

\* A function of types with a value in W[t] for each type t is a fixed point of F, if
\* F[t] looks at less nested types only.
Typed(g, W) == \A t \in Types : g[t] \in W[t]
SameBelow(g, h, t) == \A u \in Types : Height[u] < Height[t] => g[u] = h[u]
All(W) == {g \in [Types -> UNION {W[t] : t \in Types}] : Typed(g, W)}
IsRecursion(F, W) ==
  \A t \in Types :
     /\ W[t] # {}
     /\ \A g \in All(W) : F[t][g] \in W[t]
     /\ \A g, h \in All(W) : SameBelow(g, h, t) => F[t][g] = F[t][h]
HasFixpoint(F, W) == \E f \in All(W) : \A t \in Types : f[t] = F[t][f]

\* A function of types with the right values is one of All.
LEMMA InAll ==
  ASSUME NEW W, NEW g, g = [t \in Types |-> g[t]], \A t \in Types : g[t] \in W[t]
  PROVE  g \in All(W)
<1>1. \A t \in Types : g[t] \in UNION {W[u] : u \in Types}
  OBVIOUS
<1>2. g \in [Types -> UNION {W[u] : u \in Types}]
  BY <1>1
<1>. QED  BY <1>2 DEF All, Typed

\* A recursion along the nesting has a solution: it is built height by height.
LEMMA FixpointExists ==
  ASSUME NEW F, NEW W, IsRecursion(F, W)
  PROVE  HasFixpoint(F, W)
<1>. DEFINE Up(n, g) == \A t \in Types : Height[t] < n => g[t] = F[t][g]
            Q == {n \in Nat : \E g \in All(W) : Up(n, g)}
<1>1. 0 \in Q
  <2>. DEFINE g == [t \in Types |-> CHOOSE x : x \in W[t]]
  <2>1. \A t \in Types : g[t] \in W[t]
    BY DEF IsRecursion
  <2>2. g = [t \in Types |-> g[t]]
    OBVIOUS
  <2>. HIDE DEF g
  <2>3. g \in All(W)
    BY <2>1, <2>2, InAll
  <2>4. Up(0, g)
    BY HeightType
  <2>. QED  BY <2>3, <2>4
<1>2. ASSUME NEW n \in Nat, n \in Q PROVE n + 1 \in Q
  <2>1. PICK g \in All(W) : Up(n, g)
    BY <1>2
  <2>. DEFINE h == [t \in Types |-> IF Height[t] = n THEN F[t][g] ELSE g[t]]
  <2>2. \A t \in Types : h[t] \in W[t]
    BY DEF All, Typed, IsRecursion
  <2>3. h = [t \in Types |-> h[t]]
    OBVIOUS
  <2>4. h \in All(W)
    <3>. HIDE DEF h
    <3>. QED  BY <2>2, <2>3, InAll
  <2>5. ASSUME NEW t \in Types, Height[t] < n + 1 PROVE h[t] = F[t][h]
    <3>1. SameBelow(g, h, t)
      BY <2>5, HeightType DEF SameBelow
    <3>2. F[t][g] = F[t][h]
      <4>. HIDE DEF h
      <4>. QED  BY <2>4, <3>1 DEF IsRecursion
    <3>3. CASE Height[t] = n
      <4>1. h[t] = F[t][g]
        BY <3>3
      <4>. QED  BY <3>2, <4>1
    <3>4. CASE Height[t] # n
      <4>1. h[t] = g[t] /\ Height[t] < n
        BY <2>5, <3>4, HeightType
      <4>2. g[t] = F[t][g]
        BY <2>1, <4>1
      <4>. QED  BY <3>2, <4>1, <4>2
    <3>. QED  BY <3>3, <3>4
  <2>6. \E f \in All(W) : Up(n + 1, f)
    <3>. HIDE DEF h
    <3>. QED  BY <2>4, <2>5
  <2>. HIDE DEF Up
  <2>. QED  BY <2>6
<1>3. MaxHeight + 1 \in Q
  <2>. HIDE DEF Q
  <2>1. \A n \in Nat : n \in Q
    BY <1>1, <1>2, NatInductive
  <2>. QED  BY <2>1, HeightType
<1>4. PICK f \in All(W) : Up(MaxHeight + 1, f)
  BY <1>3
<1>5. \A t \in Types : f[t] = F[t][f]
  BY <1>4, HeightType
<1>. QED  BY <1>5 DEF HasFixpoint
-----------------------------------------------------------------------------
(* The parts of data.                                                      *)

\* The keys of a map in order: every key once.
LEMMA KeysInOrder ==
  ASSUME NEW S, IsFiniteSet(S)
  PROVE  /\ Cardinality(S) \in Nat
         /\ SetToSeq(S) \in [1..Cardinality(S) -> S] /\ Len(SetToSeq(S)) = Cardinality(S)
         /\ \A j, k \in 1..Cardinality(S) : SetToSeq(S)[j] = SetToSeq(S)[k] => j = k
         /\ \A x \in S : \E k \in 1..Cardinality(S) : SetToSeq(S)[k] = x
<1>. DEFINE n == Cardinality(S)
            keys == SetToSeq(S)
<1>1. n \in Nat /\ Bijection(1..n, S) # {}
  BY FS_CardinalityType DEF ExistsBijection
<1>2. PICK f \in [1..n -> S] : IsInjective(f)
  BY <1>1 DEF Bijection, Injection
<1>3. keys \in [1..n -> S] /\ IsInjective(keys)
  <2>1. \E g \in [1..n -> S] : IsInjective(g)
    BY <1>2
  <2>2. keys = CHOOSE g \in [1..n -> S] : IsInjective(g)
    BY DEF SetToSeq
  <2>. QED  BY <2>1, <2>2
<1>. HIDE DEF keys
<1>4. keys \in Injection(1..n, S)
  BY <1>3 DEF Injection
<1>5. IsFiniteSet(1..n) /\ Cardinality(1..n) = n
  BY <1>1, FS_Interval
<1>6. keys \in Surjection(1..n, S)
  BY <1>4, <1>5, FS_Injection
<1>7. \A x \in S : \E k \in 1..n : keys[k] = x
  BY <1>6 DEF Surjection
<1>8. \A j, k \in 1..n : keys[j] = keys[k] => j = k
  BY <1>3 DEF IsInjective
<1>9. Len(keys) = n
  BY <1>1, <1>3
<1>. QED  BY <1>1, <1>3, <1>7, <1>8, <1>9 DEF keys

\* The parts of data are a sequence.
LEMMA PartNumber ==
  ASSUME NEW type \in Types, NEW data \in Data[type], ~IsBasic(type)
  PROVE  /\ Len(PartData(type, data)) \in Nat
         /\ PartData(type, data) = [k \in 1..Len(PartData(type, data)) |-> PartData(type, data)[k]]
<1>1. IsOf(data, type)
  BY DataAssumption
<1>2. CASE type.kind = "map"
  <2>1. IsFiniteSet(DOMAIN data)
    BY <1>1, <1>2 DEF IsOf
  <2>. DEFINE keys == SetToSeq(DOMAIN data)
              n == Cardinality(DOMAIN data)
  <2>2. n \in Nat /\ Len(keys) = n
    BY <2>1, KeysInOrder
  <2>. HIDE DEF n
  <2>3. PartData(type, data) = [k \in 1..n |-> <<keys[k], data[keys[k]]>>]
    BY <1>2, <2>2 DEF PartData
  <2>4. Len(PartData(type, data)) = n
    BY <2>2, <2>3
  <2>. QED  BY <2>2, <2>3, <2>4
<1>3. CASE type.kind # "map"
  <2>1. PartData(type, data) = data
    BY <1>3 DEF PartData
  <2>. QED  BY <1>1, <1>3, <2>1 DEF IsOf
<1>. QED  BY <1>2, <1>3

\* However many parts a container is found to have, their types are nested less.
LEMMA PartTypes ==
  ASSUME NEW type \in Types, ~IsBasic(type), NEW n \in Nat, ~IsCounted(type) => n = FixedNumber(type),
         NEW k \in 1..n
  PROVE  PartType(type, k) \in Types /\ Height[PartType(type, k)] < Height[type]
<1>1. CASE IsCounted(type)
  <2>1. PartType(type, 1) \in Types /\ Height[PartType(type, 1)] < Height[type]
    <3>1. 1 \in 1..1
      OBVIOUS
    <3>. QED  BY <1>1, <3>1, TypesAssumption
  <2>2. PartType(type, k) = PartType(type, 1)
    <3>1. type.kind # "struct"
      BY <1>1 DEF IsCounted
    <3>. QED  BY <3>1 DEF PartType
  <2>. QED  BY <2>1, <2>2
<1>2. CASE ~IsCounted(type)
  BY <1>2, TypesAssumption
<1>. QED  BY <1>1, <1>2

\* The parts of data are data of types that are nested less.
LEMMA Parts ==
  ASSUME NEW type \in Types, NEW data \in Data[type], ~IsBasic(type),
         NEW k \in 1..Len(PartData(type, data))
  PROVE  /\ PartType(type, k) \in Types /\ Height[PartType(type, k)] < Height[type]
         /\ PartData(type, data)[k] \in Data[PartType(type, k)]
<1>1. IsOf(data, type)
  BY DataAssumption
<1>2. PartData(type, data)[k] \in Data[PartType(type, k)]
  BY <1>1 DEF IsOf
<1>3. Len(PartData(type, data)) \in Nat
  BY PartNumber
<1>4. ~IsCounted(type) => Len(PartData(type, data)) = FixedNumber(type)
  BY <1>1 DEF IsOf
<1>. QED  BY <1>2, <1>3, <1>4, PartTypes

\* A basic type has at least one byte.
LEMMA WidthType == ASSUME NEW type PROVE Width(type) \in Nat \ {0}
BY WidthAssumption DEF Width
-----------------------------------------------------------------------------
(* sizeOf: the loop over the parts.                                        *)

\* sizeOf with the sizes of the parts taken from g, and what its loop goes through.
CountSize(type) == IF IsCounted(type) THEN SizeOfSize ELSE 0
SizeOfPart(g, type, data, k) == g[PartType(type, k)][PartData(type, data)[k]]
SizeBody(g, type, data) ==
  IF IsBasic(type) THEN Width(type)
  ELSE LET parts == PartData(type, data)
           size[k \in 0..Len(parts)] ==
               IF k = 0 THEN IF IsCounted(type) THEN SizeOfSize ELSE 0
               ELSE size[k - 1] + g[PartType(type, k)][parts[k]]
       IN  size[Len(parts)]

IsSizes(w, g, type, data) ==
  /\ w \in [0..Len(PartData(type, data)) -> Nat]
  /\ w[0] = CountSize(type)
  /\ \A k \in 1..Len(PartData(type, data)) : w[k] = w[k - 1] + SizeOfPart(g, type, data, k)

\* The loop of sizeOf has a run, and ends with its result.
LEMMA SizeLoop ==
  ASSUME NEW type \in Types, NEW data \in Data[type], ~IsBasic(type), NEW g,
         \A k \in 1..Len(PartData(type, data)) : SizeOfPart(g, type, data, k) \in Nat
  PROVE  \E w : /\ IsSizes(w, g, type, data)
                /\ SizeBody(g, type, data) = w[Len(PartData(type, data))]
<1>. DEFINE parts == PartData(type, data)
            n == Len(parts)
            a == CountSize(type)
            part(k) == SizeOfPart(g, type, data, k)
            step == [k \in 1..n |-> [v \in Nat |-> v + part(k)]]
            IsSize(w) == w = [k \in 0..n |-> IF k = 0 THEN a ELSE w[k - 1] + part(k)]
<1>1. n \in Nat /\ a \in Nat
  BY PartNumber, WidthAssumption DEF CountSize
<1>. DEFINE u == CHOOSE w : IsSize(w)
<1>2. SizeBody(g, type, data) = u[n]
  BY DEF SizeBody, SizeOfPart, CountSize
<1>3. \A k \in 1..n : part(k) \in Nat
  OBVIOUS
<1>. HIDE DEF n, a, part
<1>4. IsLoop(n, Nat, a, step)
  BY <1>1, <1>3 DEF IsLoop
<1>5. PICK w \in [0..n -> Nat] : w[0] = a /\ \A k \in 1..n : w[k] = step[k][w[k - 1]]
  <2>1. HasRun(n, Nat, a, step)
    <3>. HIDE DEF step
    <3>. QED  BY <1>4, RunExists
  <2>. QED  BY <2>1 DEF HasRun
<1>6. ASSUME NEW k \in 1..n PROVE w[k] = w[k - 1] + part(k)
  <2>1. w[k - 1] \in Nat
    BY <1>1
  <2>2. w[k] = step[k][w[k - 1]]
    BY <1>5
  <2>. QED  BY <2>1, <2>2
<1>7. IsSize(w)
  BY <1>1, <1>5, <1>6
<1>8. u = [k \in 0..n |-> IF k = 0 THEN a ELSE u[k - 1] + part(k)]
  <2>1. IsSize(u)
    <3>. HIDE DEF IsSize
    <3>. QED  BY <1>7
  <2>. HIDE DEF u
  <2>. QED  BY <2>1
<1>. HIDE DEF u, IsSize
<1>9. u[0] = a /\ \A k \in 1..n : u[k] = u[k - 1] + part(k)
  BY <1>1, <1>8
<1>10. \A k \in 0..n : u[k] \in Nat
  <2>1. IsRun(u, n, Nat, a, step)
    BY <1>1, <1>9 DEF IsRun
  <2>2. SameRun(u, u, n, Nat)
    <3>. HIDE DEF step
    <3>. QED  BY <1>4, <2>1, RunUnique
  <2>. QED  BY <2>2 DEF SameRun
<1>11. u \in [0..n -> Nat]
  BY <1>1, <1>8, <1>10
<1>12. IsSizes(u, g, type, data)
  BY <1>9, <1>11 DEF IsSizes, n, a, part
<1>. QED  BY <1>2, <1>12 DEF n

\* The sum depends on the sizes of the parts only.
LEMMA SizeLocal ==
  ASSUME NEW type \in Types, NEW data \in Data[type], ~IsBasic(type), NEW g, NEW h,
         \A k \in 1..Len(PartData(type, data)) :
            SizeOfPart(g, type, data, k) \in Nat
               /\ SizeOfPart(g, type, data, k) = SizeOfPart(h, type, data, k)
  PROVE  SizeBody(g, type, data) = SizeBody(h, type, data)
<1>. DEFINE n == Len(PartData(type, data))
            a == CountSize(type)
            part(k) == SizeOfPart(g, type, data, k)
            step == [k \in 1..n |-> [v \in Nat |-> v + part(k)]]
<1>1. n \in Nat /\ a \in Nat
  BY PartNumber, WidthAssumption DEF CountSize
<1>2. PICK w : IsSizes(w, g, type, data) /\ SizeBody(g, type, data) = w[n]
  BY SizeLoop
<1>3. PICK u : IsSizes(u, h, type, data) /\ SizeBody(h, type, data) = u[n]
  BY SizeLoop
<1>4. /\ w[0] = a /\ \A k \in 1..n : w[k] = w[k - 1] + part(k)
      /\ u[0] = a /\ \A k \in 1..n : u[k] = u[k - 1] + part(k)
  BY <1>2, <1>3 DEF IsSizes
<1>5. \A k \in 1..n : part(k) \in Nat
  OBVIOUS
<1>. HIDE DEF n, a, part
<1>6. IsLoop(n, Nat, a, step)
  BY <1>1, <1>5 DEF IsLoop
<1>7. IsRun(w, n, Nat, a, step) /\ IsRun(u, n, Nat, a, step)
  BY <1>1, <1>4 DEF IsRun
<1>8. SameRun(w, u, n, Nat)
  <2>. HIDE DEF step
  <2>. QED  BY <1>6, <1>7, RunUnique
<1>9. w[n] = u[n]
  BY <1>1, <1>8 DEF SameRun
<1>. QED  BY <1>2, <1>3, <1>9

\* sizeOf satisfies its recursive equation, and sizes are numbers.
LEMMA SizeEquation ==
  \A type \in Types : sizeOf[type] = [data \in Data[type] |-> SizeBody(sizeOf, type, data)]
<1>. DEFINE W == [t \in Types |-> [Data[t] -> Nat]]
            F == [t \in Types |-> [g \in All(W) |-> [data \in Data[t] |-> SizeBody(g, t, data)]]]
            IsSizeOf(f) == f = [t \in Types |-> [data \in Data[t] |-> SizeBody(f, t, data)]]
<1>1. ASSUME NEW g \in All(W), NEW t \in Types, NEW data \in Data[t], ~IsBasic(t)
      PROVE  \A k \in 1..Len(PartData(t, data)) : SizeOfPart(g, t, data, k) \in Nat
  <2>1. ASSUME NEW k \in 1..Len(PartData(t, data)) PROVE SizeOfPart(g, t, data, k) \in Nat
    <3>1. PartType(t, k) \in Types /\ PartData(t, data)[k] \in Data[PartType(t, k)]
      BY <1>1, Parts
    <3>2. g[PartType(t, k)] \in [Data[PartType(t, k)] -> Nat]
      BY <3>1 DEF All, Typed
    <3>. QED  BY <3>1, <3>2 DEF SizeOfPart
  <2>. QED  BY <2>1
<1>2. ASSUME NEW g \in All(W), NEW t \in Types, NEW data \in Data[t]
      PROVE  SizeBody(g, t, data) \in Nat
  <2>1. CASE IsBasic(t)
    BY <2>1, WidthType DEF SizeBody
  <2>2. CASE ~IsBasic(t)
    <3>1. PICK w : IsSizes(w, g, t, data) /\ SizeBody(g, t, data) = w[Len(PartData(t, data))]
      BY <1>1, <2>2, SizeLoop
    <3>2. Len(PartData(t, data)) \in Nat
      BY <2>2, PartNumber
    <3>. QED  BY <3>1, <3>2 DEF IsSizes
  <2>. QED  BY <2>1, <2>2
<1>3. ASSUME NEW g \in All(W), NEW h \in All(W), NEW t \in Types, SameBelow(g, h, t),
             NEW data \in Data[t]
      PROVE  SizeBody(g, t, data) = SizeBody(h, t, data)
  <2>1. CASE IsBasic(t)
    BY <2>1 DEF SizeBody
  <2>2. CASE ~IsBasic(t)
    <3>1. ASSUME NEW k \in 1..Len(PartData(t, data))
          PROVE  SizeOfPart(g, t, data, k) = SizeOfPart(h, t, data, k)
      <4>1. PartType(t, k) \in Types /\ Height[PartType(t, k)] < Height[t]
        BY <2>2, Parts
      <4>. QED  BY <1>3, <4>1 DEF SameBelow, SizeOfPart
    <3>. QED  BY <1>1, <2>2, <3>1, SizeLocal
  <2>. QED  BY <2>1, <2>2
<1>4. IsRecursion(F, W)
  <2>1. ASSUME NEW t \in Types PROVE W[t] # {}
    <3>1. [data \in Data[t] |-> 0] \in W[t]
      OBVIOUS
    <3>. QED  BY <3>1
  <2>2. ASSUME NEW t \in Types, NEW g \in All(W) PROVE F[t][g] \in W[t]
    <3>1. F[t][g] = [data \in Data[t] |-> SizeBody(g, t, data)]
      OBVIOUS
    <3>2. \A data \in Data[t] : SizeBody(g, t, data) \in Nat
      BY <1>2
    <3>. HIDE DEF F
    <3>. QED  BY <3>1, <3>2
  <2>3. ASSUME NEW t \in Types, NEW g \in All(W), NEW h \in All(W), SameBelow(g, h, t)
        PROVE  F[t][g] = F[t][h]
    <3>1. /\ F[t][g] = [data \in Data[t] |-> SizeBody(g, t, data)]
          /\ F[t][h] = [data \in Data[t] |-> SizeBody(h, t, data)]
      OBVIOUS
    <3>2. \A data \in Data[t] : SizeBody(g, t, data) = SizeBody(h, t, data)
      BY <1>3, <2>3
    <3>. HIDE DEF F
    <3>. QED  BY <3>1, <3>2
  <2>. HIDE DEF F, W
  <2>. QED  BY <2>1, <2>2, <2>3 DEF IsRecursion
<1>5. PICK f \in All(W) : \A t \in Types : f[t] = F[t][f]
  <2>1. HasFixpoint(F, W)
    <3>. HIDE DEF F, W
    <3>. QED  BY <1>4, FixpointExists
  <2>. QED  BY <2>1 DEF HasFixpoint
<1>6. IsSizeOf(f)
  <2>1. \A t \in Types : f[t] = [data \in Data[t] |-> SizeBody(f, t, data)]
    BY <1>5
  <2>2. f = [t \in Types |-> f[t]]
    BY DEF All
  <2>. QED  BY <2>1, <2>2
<1>7. sizeOf = CHOOSE g : IsSizeOf(g)
  BY DEF sizeOf, SizeBody
<1>8. IsSizeOf(sizeOf)
  <2>. HIDE DEF IsSizeOf
  <2>. QED  BY <1>6, <1>7
<1>. QED  BY <1>8

\* serialize with the bytes of the parts taken from g, and what its loop goes through.
CountBytes(type, n) == IF IsCounted(type) THEN Bytes(n, SizeOfSize) ELSE <<>>
\* The number of elements is written in SizeOfSize bytes, or not at all.
LEMMA CountBytesType ==
  ASSUME NEW type, NEW n \in Nat
  PROVE  CountBytes(type, n) \in Seq(Byte) /\ Len(CountBytes(type, n)) = CountSize(type)
<1>1. SizeOfSize \in Nat
  BY WidthAssumption
<1>2. Bytes(n, SizeOfSize) \in Seq(Byte) /\ Len(Bytes(n, SizeOfSize)) = SizeOfSize
  BY <1>1, BytesType
<1>. QED  BY <1>2 DEF CountBytes, CountSize

BytesOfPart(g, type, data, k) == g[PartType(type, k)][PartData(type, data)[k]]
BytesBody(g, type, data) ==
  IF IsBasic(type) THEN Bytes(data, Width(type))
  ELSE LET parts == PartData(type, data)
           written[k \in 0..Len(parts)] ==
               IF k = 0 THEN IF IsCounted(type) THEN Bytes(Len(parts), SizeOfSize) ELSE <<>>
               ELSE written[k - 1] \o g[PartType(type, k)][parts[k]]
       IN  written[Len(parts)]

IsWritten(w, g, type, data) ==
  /\ w \in [0..Len(PartData(type, data)) -> Seq(Byte)]
  /\ w[0] = CountBytes(type, Len(PartData(type, data)))
  /\ \A k \in 1..Len(PartData(type, data)) : w[k] = w[k - 1] \o BytesOfPart(g, type, data, k)

\* The loop of serialize has a run, and ends with its result.
LEMMA BytesLoop ==
  ASSUME NEW type \in Types, NEW data \in Data[type], ~IsBasic(type), NEW g,
         \A k \in 1..Len(PartData(type, data)) : BytesOfPart(g, type, data, k) \in Seq(Byte)
  PROVE  \E w : /\ IsWritten(w, g, type, data)
                /\ BytesBody(g, type, data) = w[Len(PartData(type, data))]
<1>. DEFINE parts == PartData(type, data)
            n == Len(parts)
            a == CountBytes(type, n)
            part(k) == BytesOfPart(g, type, data, k)
            more(v, k) == v \o part(k)
            step == [k \in 1..n |-> [v \in Seq(Byte) |-> more(v, k)]]
            IsSerialized(w) == w = [k \in 0..n |-> IF k = 0 THEN a ELSE more(w[k - 1], k)]
<1>1. n \in Nat /\ a \in Seq(Byte)
  BY PartNumber, CountBytesType
<1>. DEFINE u == CHOOSE w : IsSerialized(w)
<1>2. BytesBody(g, type, data) = u[n]
  BY DEF BytesBody, BytesOfPart, CountBytes
<1>3. \A k \in 1..n, v \in Seq(Byte) : more(v, k) \in Seq(Byte)
  OBVIOUS
<1>. HIDE DEF n, a, more
<1>4. IsLoop(n, Seq(Byte), a, step)
  BY <1>1, <1>3 DEF IsLoop
<1>5. PICK w \in [0..n -> Seq(Byte)] : w[0] = a /\ \A k \in 1..n : w[k] = step[k][w[k - 1]]
  <2>1. HasRun(n, Seq(Byte), a, step)
    <3>. HIDE DEF step
    <3>. QED  BY <1>4, RunExists
  <2>. QED  BY <2>1 DEF HasRun
<1>6. ASSUME NEW k \in 1..n PROVE w[k] = more(w[k - 1], k)
  <2>1. w[k - 1] \in Seq(Byte)
    BY <1>1
  <2>2. w[k] = step[k][w[k - 1]]
    BY <1>5
  <2>. QED  BY <2>1, <2>2
<1>7. IsSerialized(w)
  BY <1>1, <1>5, <1>6
<1>8. u = [k \in 0..n |-> IF k = 0 THEN a ELSE more(u[k - 1], k)]
  <2>1. IsSerialized(u)
    <3>. HIDE DEF IsSerialized
    <3>. QED  BY <1>7
  <2>. HIDE DEF u
  <2>. QED  BY <2>1
<1>. HIDE DEF u, IsSerialized
<1>9. u[0] = a /\ \A k \in 1..n : u[k] = more(u[k - 1], k)
  BY <1>1, <1>8
<1>10. \A k \in 0..n : u[k] \in Seq(Byte)
  <2>1. IsRun(u, n, Seq(Byte), a, step)
    BY <1>1, <1>9 DEF IsRun
  <2>2. SameRun(u, u, n, Seq(Byte))
    <3>. HIDE DEF step
    <3>. QED  BY <1>4, <2>1, RunUnique
  <2>. QED  BY <2>2 DEF SameRun
<1>11. u \in [0..n -> Seq(Byte)]
  BY <1>1, <1>8, <1>10
<1>12. IsWritten(u, g, type, data)
  BY <1>9, <1>11 DEF IsWritten, n, a, more
<1>. QED  BY <1>2, <1>12 DEF n

\* What is written depends on the bytes of the parts only.
LEMMA BytesLocal ==
  ASSUME NEW type \in Types, NEW data \in Data[type], ~IsBasic(type), NEW g, NEW h,
         \A k \in 1..Len(PartData(type, data)) :
            BytesOfPart(g, type, data, k) \in Seq(Byte)
               /\ BytesOfPart(g, type, data, k) = BytesOfPart(h, type, data, k)
  PROVE  BytesBody(g, type, data) = BytesBody(h, type, data)
<1>. DEFINE n == Len(PartData(type, data))
            a == CountBytes(type, n)
            part(k) == BytesOfPart(g, type, data, k)
            step == [k \in 1..n |-> [v \in Seq(Byte) |-> v \o part(k)]]
<1>1. n \in Nat /\ a \in Seq(Byte)
  BY PartNumber, CountBytesType
<1>2. PICK w : IsWritten(w, g, type, data) /\ BytesBody(g, type, data) = w[n]
  BY BytesLoop
<1>3. PICK u : IsWritten(u, h, type, data) /\ BytesBody(h, type, data) = u[n]
  BY BytesLoop
<1>4. /\ w[0] = a /\ \A k \in 1..n : w[k] = w[k - 1] \o part(k)
      /\ u[0] = a /\ \A k \in 1..n : u[k] = u[k - 1] \o part(k)
  BY <1>2, <1>3 DEF IsWritten
<1>5. \A k \in 1..n : part(k) \in Seq(Byte)
  OBVIOUS
<1>. HIDE DEF n, a, part
<1>6. IsLoop(n, Seq(Byte), a, step)
  BY <1>1, <1>5 DEF IsLoop
<1>7. IsRun(w, n, Seq(Byte), a, step) /\ IsRun(u, n, Seq(Byte), a, step)
  BY <1>1, <1>4 DEF IsRun
<1>8. SameRun(w, u, n, Seq(Byte))
  <2>. HIDE DEF step
  <2>. QED  BY <1>6, <1>7, RunUnique
<1>9. w[n] = u[n]
  BY <1>1, <1>8 DEF SameRun
<1>. QED  BY <1>2, <1>3, <1>9

\* serialize satisfies its recursive equation.
LEMMA BytesEquation ==
  \A type \in Types : serialize[type] = [data \in Data[type] |-> BytesBody(serialize, type, data)]
<1>. DEFINE W == [t \in Types |-> [Data[t] -> Seq(Byte)]]
            F == [t \in Types |-> [g \in All(W) |-> [data \in Data[t] |-> BytesBody(g, t, data)]]]
            IsSerialize(f) == f = [t \in Types |-> [data \in Data[t] |-> BytesBody(f, t, data)]]
<1>1. ASSUME NEW g \in All(W), NEW t \in Types, NEW data \in Data[t], ~IsBasic(t)
      PROVE  \A k \in 1..Len(PartData(t, data)) : BytesOfPart(g, t, data, k) \in Seq(Byte)
  <2>1. ASSUME NEW k \in 1..Len(PartData(t, data)) PROVE BytesOfPart(g, t, data, k) \in Seq(Byte)
    <3>1. PartType(t, k) \in Types /\ PartData(t, data)[k] \in Data[PartType(t, k)]
      BY <1>1, Parts
    <3>2. g[PartType(t, k)] \in [Data[PartType(t, k)] -> Seq(Byte)]
      BY <3>1 DEF All, Typed
    <3>. QED  BY <3>1, <3>2 DEF BytesOfPart
  <2>. QED  BY <2>1
<1>2. ASSUME NEW g \in All(W), NEW t \in Types, NEW data \in Data[t]
      PROVE  BytesBody(g, t, data) \in Seq(Byte)
  <2>1. CASE IsBasic(t)
    <3>1. data \in Int
      BY <2>1, DataAssumption DEF IsOf
    <3>2. Bytes(data, Width(t)) \in Seq(Byte)
      BY <3>1, WidthType, BytesType
    <3>. QED  BY <2>1, <3>2 DEF BytesBody
  <2>2. CASE ~IsBasic(t)
    <3>1. PICK w : IsWritten(w, g, t, data) /\ BytesBody(g, t, data) = w[Len(PartData(t, data))]
      BY <1>1, <2>2, BytesLoop
    <3>2. Len(PartData(t, data)) \in Nat
      BY <2>2, PartNumber
    <3>. QED  BY <3>1, <3>2 DEF IsWritten
  <2>. QED  BY <2>1, <2>2
<1>3. ASSUME NEW g \in All(W), NEW h \in All(W), NEW t \in Types, SameBelow(g, h, t),
             NEW data \in Data[t]
      PROVE  BytesBody(g, t, data) = BytesBody(h, t, data)
  <2>1. CASE IsBasic(t)
    BY <2>1 DEF BytesBody
  <2>2. CASE ~IsBasic(t)
    <3>1. ASSUME NEW k \in 1..Len(PartData(t, data))
          PROVE  BytesOfPart(g, t, data, k) = BytesOfPart(h, t, data, k)
      <4>1. PartType(t, k) \in Types /\ Height[PartType(t, k)] < Height[t]
        BY <2>2, Parts
      <4>. QED  BY <1>3, <4>1 DEF SameBelow, BytesOfPart
    <3>. QED  BY <1>1, <2>2, <3>1, BytesLocal
  <2>. QED  BY <2>1, <2>2
<1>4. IsRecursion(F, W)
  <2>1. ASSUME NEW t \in Types PROVE W[t] # {}
    <3>1. [data \in Data[t] |-> <<>>] \in W[t]
      OBVIOUS
    <3>. QED  BY <3>1
  <2>2. ASSUME NEW t \in Types, NEW g \in All(W) PROVE F[t][g] \in W[t]
    <3>1. F[t][g] = [data \in Data[t] |-> BytesBody(g, t, data)]
      OBVIOUS
    <3>2. \A data \in Data[t] : BytesBody(g, t, data) \in Seq(Byte)
      BY <1>2
    <3>. HIDE DEF F
    <3>. QED  BY <3>1, <3>2
  <2>3. ASSUME NEW t \in Types, NEW g \in All(W), NEW h \in All(W), SameBelow(g, h, t)
        PROVE  F[t][g] = F[t][h]
    <3>1. /\ F[t][g] = [data \in Data[t] |-> BytesBody(g, t, data)]
          /\ F[t][h] = [data \in Data[t] |-> BytesBody(h, t, data)]
      OBVIOUS
    <3>2. \A data \in Data[t] : BytesBody(g, t, data) = BytesBody(h, t, data)
      BY <1>3, <2>3
    <3>. HIDE DEF F
    <3>. QED  BY <3>1, <3>2
  <2>. HIDE DEF F, W
  <2>. QED  BY <2>1, <2>2, <2>3 DEF IsRecursion
<1>5. PICK f \in All(W) : \A t \in Types : f[t] = F[t][f]
  <2>1. HasFixpoint(F, W)
    <3>. HIDE DEF F, W
    <3>. QED  BY <1>4, FixpointExists
  <2>. QED  BY <2>1 DEF HasFixpoint
<1>6. IsSerialize(f)
  <2>1. \A t \in Types : f[t] = [data \in Data[t] |-> BytesBody(f, t, data)]
    BY <1>5
  <2>2. f = [t \in Types |-> f[t]]
    BY DEF All
  <2>. QED  BY <2>1, <2>2
<1>7. serialize = CHOOSE g : IsSerialize(g)
  BY DEF serialize, BytesBody
<1>8. IsSerialize(serialize)
  <2>. HIDE DEF IsSerialize
  <2>. QED  BY <1>6, <1>7
<1>. QED  BY <1>8
-----------------------------------------------------------------------------
(* What is written.                                                        *)

\* sizeOf is the number of bytes that serialize writes.
LEMMA SizeIsLength ==
  \A t \in Types : \A data \in Data[t] :
     serialize[t][data] \in Seq(Byte) /\ sizeOf[t][data] = Len(serialize[t][data])
<1>. DEFINE Exact(t, data) == /\ serialize[t][data] \in Seq(Byte)
                              /\ sizeOf[t][data] = Len(serialize[t][data])
            P == {t \in Types : \A data \in Data[t] : Exact(t, data)}
<1>1. ASSUME NEW t \in Types, \A u \in Types : Height[u] < Height[t] => u \in P,
             NEW data \in Data[t]
      PROVE  Exact(t, data)
  <2>1. serialize[t][data] = BytesBody(serialize, t, data)
    BY BytesEquation
  <2>2. sizeOf[t][data] = SizeBody(sizeOf, t, data)
    BY SizeEquation
  <2>3. CASE IsBasic(t)
    <3>1. data \in Int
      BY <2>3, DataAssumption DEF IsOf
    <3>2. Bytes(data, Width(t)) \in Seq(Byte) /\ Len(Bytes(data, Width(t))) = Width(t)
      BY <3>1, WidthType, BytesType
    <3>. QED  BY <2>1, <2>2, <2>3, <3>2 DEF BytesBody, SizeBody
  <2>4. CASE ~IsBasic(t)
    <3>. DEFINE n == Len(PartData(t, data))
                b(k) == BytesOfPart(serialize, t, data, k)
                s(k) == SizeOfPart(sizeOf, t, data, k)
    <3>1. n \in Nat
      BY <2>4, PartNumber
    <3>2. ASSUME NEW k \in 1..n PROVE b(k) \in Seq(Byte) /\ s(k) = Len(b(k)) /\ s(k) \in Nat
      <4>1. /\ PartType(t, k) \in Types /\ Height[PartType(t, k)] < Height[t]
            /\ PartData(t, data)[k] \in Data[PartType(t, k)]
        BY <2>4, Parts
      <4>2. Exact(PartType(t, k), PartData(t, data)[k])
        BY <1>1, <4>1
      <4>. QED  BY <4>2 DEF BytesOfPart, SizeOfPart
    <3>3. PICK u : IsWritten(u, serialize, t, data) /\ BytesBody(serialize, t, data) = u[n]
      BY <2>4, <3>2, BytesLoop
    <3>4. PICK w : IsSizes(w, sizeOf, t, data) /\ SizeBody(sizeOf, t, data) = w[n]
      BY <2>4, <3>2, SizeLoop
    <3>5. /\ u \in [0..n -> Seq(Byte)] /\ u[0] = CountBytes(t, n)
          /\ \A k \in 1..n : u[k] = u[k - 1] \o b(k)
      BY <3>3 DEF IsWritten
    <3>6. /\ w \in [0..n -> Nat] /\ w[0] = CountSize(t)
          /\ \A k \in 1..n : w[k] = w[k - 1] + s(k)
      BY <3>4 DEF IsSizes
    <3>. HIDE DEF n, b, s
    <3>. DEFINE Q == {k \in 0..n : w[k] = Len(u[k])}
    <3>7. 0 \in Q
      BY <3>1, <3>5, <3>6, CountBytesType
    <3>8. ASSUME NEW k \in 1..n, k - 1 \in Q PROVE k \in Q
      <4>1. u[k - 1] \in Seq(Byte) /\ b(k) \in Seq(Byte)
        BY <3>1, <3>2, <3>5
      <4>2. u[k] = u[k - 1] \o b(k)
        BY <3>5
      <4>3. Len(u[k]) = Len(u[k - 1]) + Len(b(k))
        BY <4>1, <4>2
      <4>4. w[k] = w[k - 1] + s(k) /\ s(k) = Len(b(k))
        BY <3>2, <3>6
      <4>. QED  BY <3>8, <4>3, <4>4
    <3>9. \A k \in 0..n : k \in Q
      <4>. HIDE DEF Q
      <4>. QED  BY <3>1, <3>7, <3>8, BoundedInductive
    <3>10. w[n] = Len(u[n]) /\ u[n] \in Seq(Byte)
      BY <3>1, <3>5, <3>9
    <3>. QED  BY <2>1, <2>2, <3>3, <3>4, <3>10
  <2>. QED  BY <2>3, <2>4
<1>2. \A t \in Types : t \in P
  <2>1. \A t \in Types : (\A u \in Types : Height[u] < Height[t] => u \in P) => t \in P
    <3>. HIDE DEF Exact
    <3>. QED  BY <1>1
  <2>. HIDE DEF P
  <2>. QED  BY <2>1, HeightInduction
<1>. QED  BY <1>2

\* The bytes of data are those of the number of its parts and of the parts, in order.
LEMMA Written ==
  ASSUME NEW t \in Types, NEW data \in Data[t], ~IsBasic(t)
  PROVE  \E u : /\ IsWritten(u, serialize, t, data)
                /\ serialize[t][data] = u[Len(PartData(t, data))]
<1>1. ASSUME NEW k \in 1..Len(PartData(t, data))
      PROVE  BytesOfPart(serialize, t, data, k) \in Seq(Byte)
  <2>1. PartType(t, k) \in Types /\ PartData(t, data)[k] \in Data[PartType(t, k)]
    BY Parts
  <2>. QED  BY <2>1, SizeIsLength DEF BytesOfPart
<1>2. serialize[t][data] = BytesBody(serialize, t, data)
  BY BytesEquation
<1>. QED  BY <1>1, <1>2, BytesLoop
-----------------------------------------------------------------------------
(* Reading numbers from a buffer.                                          *)

\* Where reading may end: in the buffer or with an exception.
Indices(in) == 0..Len(in) \cup {Overflow}

\* The buffer has these bytes behind index i, as far as it reaches.
Holds(in, i, bytes) == \A k \in 1..Len(bytes) : i + k <= Len(in) => in[i + k] = bytes[k]

\* retrieveNext moves behind the integer, or throws if the buffer ends before.
LEMMA RetrieveType ==
  ASSUME NEW in \in Seq(Byte), NEW i \in 0..Len(in), NEW width \in Nat \ {0}, NEW signed \in BOOLEAN
  PROVE  LET read == retrieveNext(in, i, width, signed)
         IN  /\ read.next \in Indices(in)
             /\ i + width > Len(in) => read.next = Overflow
             /\ i + width <= Len(in) => read.next = i + width
             /\ read.next # Overflow /\ ~signed => read.data \in Nat
<1>. DEFINE read == retrieveNext(in, i, width, signed)
            bytes == [k \in 1..width |-> in[i + k]]
<1>1. Len(in) \in Nat /\ i \in Nat
  OBVIOUS
<1>2. CASE i + width > Len(in)
  <2>1. nextValue(in, i, width) = [data |-> <<>>, next |-> Overflow]
    BY <1>2 DEF nextValue, Read
  <2>2. read.next = Overflow
    BY <2>1 DEF retrieveNext
  <2>. QED  BY <1>1, <1>2, <2>2 DEF Indices
<1>3. CASE i + width <= Len(in)
  <2>1. nextValue(in, i, width) = [data |-> bytes, next |-> i + width]
    BY <1>1, <1>3 DEF nextValue, Read
  <2>2. i + width # Overflow
    BY <1>1 DEF Overflow
  <2>3. read = [data |-> Value(bytes, signed), next |-> i + width]
    BY <2>1, <2>2 DEF retrieveNext, Read
  <2>4. bytes \in [1..width -> Byte]
    BY <1>1, <1>3
  <2>5. ASSUME ~signed PROVE Value(bytes, signed) \in Nat
    <3>. HIDE DEF bytes
    <3>1. PICK v \in [0..width -> Ints(signed)] : Value(bytes, signed) = v[width]
      BY <2>4, ValueRun
    <3>2. Ints(signed) = Nat
      BY <2>5 DEF Ints
    <3>. QED  BY <3>1, <3>2
  <2>6. i + width \in 0..Len(in) /\ ~(i + width > Len(in))
    BY <1>1, <1>3
  <2>. HIDE DEF bytes, read
  <2>. QED  BY <1>3, <2>3, <2>5, <2>6 DEF Indices, read
<1>. QED  BY <1>1, <1>2, <1>3

\* retrieveNext reads an integer that fits as it was written.
LEMMA RetrieveWritten ==
  ASSUME NEW in \in Seq(Byte), NEW i \in 0..Len(in), NEW width \in Nat \ {0}, NEW signed \in BOOLEAN,
         NEW n \in Int, Fits(n, width, signed), Holds(in, i, Bytes(n, width)),
         i + width <= Len(in)
  PROVE  retrieveNext(in, i, width, signed) = Read(n, i + width)
<1>1. Len(in) \in Nat /\ i \in Nat
  OBVIOUS
<1>2. Bytes(n, width) \in [1..width -> Byte] /\ Len(Bytes(n, width)) = width
  BY BytesType
<1>3. ASSUME NEW k \in 1..width PROVE in[i + k] = Bytes(n, width)[k]
  BY <1>1, <1>2 DEF Holds
<1>4. [k \in 1..width |-> in[i + k]] = Bytes(n, width)
  BY <1>2, <1>3
<1>5. nextValue(in, i, width) = Read(Bytes(n, width), i + width)
  <2>1. ~(i + width > Len(in))
    BY <1>1
  <2>. QED  BY <1>4, <2>1 DEF nextValue
<1>6. i + width # Overflow
  BY <1>1 DEF Overflow
<1>7. Value(Bytes(n, width), signed) = n
  BY ValueOfBytes
<1>. QED  BY <1>5, <1>6, <1>7 DEF retrieveNext, Read

\* The number of parts is fixed by the type, or any number that is in the buffer.
LEMMA NumberType ==
  ASSUME NEW in \in Seq(Byte), NEW i \in 0..Len(in), NEW type \in Types, ~IsBasic(type)
  PROVE  LET number == NumberAt(in, i, type)
         IN  /\ number.next \in Indices(in)
             /\ number.next # Overflow =>
                   number.data \in Nat /\ (~IsCounted(type) => number.data = FixedNumber(type))
<1>1. CASE IsCounted(type)
  <2>1. NumberAt(in, i, type) = retrieveNext(in, i, SizeOfSize, FALSE)
    BY <1>1 DEF NumberAt
  <2>2. SizeOfSize \in Nat \ {0} /\ FALSE \in BOOLEAN
    BY WidthAssumption
  <2>3. /\ retrieveNext(in, i, SizeOfSize, FALSE).next \in Indices(in)
        /\ retrieveNext(in, i, SizeOfSize, FALSE).next # Overflow =>
              retrieveNext(in, i, SizeOfSize, FALSE).data \in Nat
    BY <2>2, RetrieveType
  <2>. QED  BY <1>1, <2>1, <2>3
<1>2. CASE ~IsCounted(type)
  <2>1. NumberAt(in, i, type) = [data |-> FixedNumber(type), next |-> i]
    BY <1>2 DEF NumberAt, Read
  <2>2. FixedNumber(type) \in Nat
    BY <1>2, TypesAssumption
  <2>. QED  BY <1>2, <2>1, <2>2 DEF Indices
<1>. QED  BY <1>1, <1>2
-----------------------------------------------------------------------------
(* deserialize: the loop over the parts.                                   *)

\* deserialize with the parts read by g: one more part, and the loop over all of them.
WithPart(g, type, k, before) ==
  LET part == g[PartType(type, k)][before.next]
  IN  IF before.next = Overflow THEN before
      ELSE Read(Append(before.data, part.data), part.next)

ReadBody(g, in, type, i) ==
  IF IsBasic(type) THEN retrieveNext(in, i, Width(type), IsSigned(type))
  ELSE LET number == NumberAt(in, i, type)
           read[k \in 0..number.data] ==
               IF k = 0 THEN Read(<<>>, number.next)
               ELSE LET before == read[k - 1]
                        part == g[PartType(type, k)][before.next]
                    IN  IF before.next = Overflow THEN before
                        ELSE Read(Append(before.data, part.data), part.next)
       IN  IF number.next = Overflow THEN number
           ELSE Assembled(type, read[number.data])

\* What reading parts may give, and that it ends in the buffer or throws.
PartValues(g, in, type, n) == {g[PartType(type, k)][j].data : k \in 1..n, j \in 0..Len(in)}
PartReads(g, in, type, n) == [data : Seq(PartValues(g, in, type, n)), next : Indices(in)]
EndsIn(g, in, type, n) ==
  \A k \in 1..n : \A j \in 0..Len(in) : g[PartType(type, k)][j].next \in Indices(in)

\* What the loop of deserialize goes through.
IsReads(w, g, in, type, number) ==
  /\ w \in [0..number.data -> PartReads(g, in, type, number.data)]
  /\ w[0] = Read(<<>>, number.next)
  /\ \A k \in 1..number.data : w[k] = WithPart(g, type, k, w[k - 1])

ReadStep(g, in, type, n) ==
  [k \in 1..n |-> [v \in PartReads(g, in, type, n) |-> WithPart(g, type, k, v)]]

\* The loop of deserialize stays among reads that end in the buffer or throw.
LEMMA ReadStepType ==
  ASSUME NEW in \in Seq(Byte), NEW n \in Nat, NEW type, NEW g, EndsIn(g, in, type, n),
         NEW next \in Indices(in)
  PROVE  IsLoop(n, PartReads(g, in, type, n), Read(<<>>, next), ReadStep(g, in, type, n))
<1>. DEFINE D == PartValues(g, in, type, n)
            V == [data : Seq(D), next : Indices(in)]
<1>1. V = PartReads(g, in, type, n)
  BY DEF PartReads
<1>2. Read(<<>>, next) \in V
  BY DEF Read
<1>3. ASSUME NEW k \in 1..n, NEW v \in V PROVE WithPart(g, type, k, v) \in V
  <2>1. CASE v.next = Overflow
    BY <2>1 DEF WithPart
  <2>2. CASE v.next # Overflow
    <3>. DEFINE part == g[PartType(type, k)][v.next]
    <3>1. v.next \in 0..Len(in)
      BY <2>2 DEF Indices
    <3>2. part.next \in Indices(in)
      BY <3>1 DEF EndsIn
    <3>3. part.data \in D
      BY <3>1 DEF PartValues
    <3>. HIDE DEF part, D
    <3>4. Append(v.data, part.data) \in Seq(D)
      BY <3>3
    <3>5. WithPart(g, type, k, v) = [data |-> Append(v.data, part.data), next |-> part.next]
      BY <2>2 DEF WithPart, Read, part
    <3>. QED  BY <3>2, <3>4, <3>5
  <2>. QED  BY <2>1, <2>2
<1>. HIDE DEF V
<1>4. [k \in 1..n |-> [v \in V |-> WithPart(g, type, k, v)]] \in [1..n -> [V -> V]]
  BY <1>3
<1>. QED  BY <1>1, <1>2, <1>4 DEF IsLoop, ReadStep

\* The loop of deserialize has a run, and ends with its result.
LEMMA ReadLoop ==
  ASSUME NEW in \in Seq(Byte), NEW i \in 0..Len(in), NEW type \in Types, ~IsBasic(type), NEW g,
         NEW number, number = NumberAt(in, i, type), number.next # Overflow,
         EndsIn(g, in, type, number.data)
  PROVE  \E w : /\ IsReads(w, g, in, type, number)
                /\ ReadBody(g, in, type, i) = Assembled(type, w[number.data])
<1>. DEFINE n == number.data
            V == PartReads(g, in, type, n)
            a == Read(<<>>, number.next)
            step == ReadStep(g, in, type, n)
            more(v, k) == WithPart(g, type, k, v)
            IsRead(w) == w = [k \in 0..n |-> IF k = 0 THEN a ELSE more(w[k - 1], k)]
            u == CHOOSE w : IsRead(w)
<1>1. n \in Nat /\ number.next \in Indices(in)
  BY NumberType
<1>2. ReadBody(g, in, type, i) = Assembled(type, u[n])
  BY DEF ReadBody, WithPart
<1>3. IsLoop(n, V, a, step)
  BY <1>1, ReadStepType
<1>4. step = [k \in 1..n |-> [v \in V |-> more(v, k)]]
  BY DEF ReadStep
<1>5. IsReads(u, g, in, type, number) <=>
        /\ u \in [0..n -> V] /\ u[0] = a
        /\ \A k \in 1..n : u[k] = more(u[k - 1], k)
  BY DEF IsReads
<1>. HIDE DEF n, V, a, step, more
<1>6. PICK w \in [0..n -> V] : w[0] = a /\ \A k \in 1..n : w[k] = step[k][w[k - 1]]
  <2>1. HasRun(n, V, a, step)
    BY <1>3, RunExists
  <2>. QED  BY <2>1 DEF HasRun
<1>7. ASSUME NEW k \in 1..n PROVE w[k] = more(w[k - 1], k)
  <2>1. w[k - 1] \in V
    BY <1>1
  <2>2. w[k] = step[k][w[k - 1]]
    BY <1>6
  <2>. QED  BY <1>4, <2>1, <2>2
<1>8. IsRead(w)
  BY <1>1, <1>6, <1>7
<1>9. u = [k \in 0..n |-> IF k = 0 THEN a ELSE more(u[k - 1], k)]
  <2>1. IsRead(u)
    <3>. HIDE DEF IsRead
    <3>. QED  BY <1>8
  <2>. HIDE DEF u
  <2>. QED  BY <2>1
<1>. HIDE DEF u, IsRead
<1>10. u[0] = a /\ \A k \in 1..n : u[k] = more(u[k - 1], k)
  BY <1>1, <1>9
<1>11. \A k \in 0..n : u[k] \in V
  <2>1. IsRun(u, n, V, a, step)
    BY <1>1, <1>4, <1>10 DEF IsRun
  <2>2. SameRun(u, u, n, V)
    BY <1>3, <2>1, RunUnique
  <2>. QED  BY <2>2 DEF SameRun
<1>12. u \in [0..n -> V]
  BY <1>1, <1>9, <1>11
<1>13. IsReads(u, g, in, type, number)
  BY <1>5, <1>10, <1>12
<1>. QED  BY <1>2, <1>13 DEF n

\* Reading depends on how the parts are read only.
LEMMA ReadLocal ==
  ASSUME NEW in \in Seq(Byte), NEW i \in 0..Len(in), NEW type \in Types, NEW g, NEW h,
         \A u \in Types : Height[u] < Height[type] =>
            g[u] = h[u] /\ \A j \in 0..Len(in) : g[u][j].next \in Indices(in)
  PROVE  /\ ReadBody(g, in, type, i) = ReadBody(h, in, type, i)
         /\ ReadBody(g, in, type, i).next \in Indices(in)
<1>1. CASE IsBasic(type)
  <2>1. /\ ReadBody(g, in, type, i) = retrieveNext(in, i, Width(type), IsSigned(type))
        /\ ReadBody(h, in, type, i) = retrieveNext(in, i, Width(type), IsSigned(type))
    BY <1>1 DEF ReadBody
  <2>2. IsSigned(type) \in BOOLEAN
    BY DEF IsSigned
  <2>. QED  BY <2>1, <2>2, WidthType, RetrieveType
<1>2. CASE ~IsBasic(type)
  <2>. DEFINE number == NumberAt(in, i, type)
              n == number.data
  <2>1. number.next \in Indices(in)
    BY <1>2, NumberType
  <2>2. CASE number.next = Overflow
    <3>1. ReadBody(g, in, type, i) = number /\ ReadBody(h, in, type, i) = number
      BY <1>2, <2>2 DEF ReadBody
    <3>. QED  BY <2>1, <3>1
  <2>3. CASE number.next # Overflow
    <3>1. n \in Nat /\ (~IsCounted(type) => n = FixedNumber(type))
      BY <1>2, <2>3, NumberType
    <3>. HIDE DEF number
    <3>2. ASSUME NEW k \in 1..n
          PROVE  /\ g[PartType(type, k)] = h[PartType(type, k)]
                 /\ \A j \in 0..Len(in) : g[PartType(type, k)][j].next \in Indices(in)
      <4>1. PartType(type, k) \in Types /\ Height[PartType(type, k)] < Height[type]
        BY <1>2, <3>1, PartTypes
      <4>. QED  BY <4>1
    <3>3. EndsIn(g, in, type, n) /\ EndsIn(h, in, type, n)
      BY <3>2 DEF EndsIn
    <3>4. PartReads(g, in, type, n) = PartReads(h, in, type, n)
      <4>1. PartValues(g, in, type, n) = PartValues(h, in, type, n)
        BY <3>2 DEF PartValues
      <4>. QED  BY <4>1 DEF PartReads
    <3>. DEFINE V == PartReads(g, in, type, n)
                a == Read(<<>>, number.next)
                step == ReadStep(g, in, type, n)
    <3>5. ASSUME NEW k \in 1..n, NEW v PROVE WithPart(g, type, k, v) = WithPart(h, type, k, v)
      BY <3>2 DEF WithPart
    <3>6. PICK w : IsReads(w, g, in, type, number) /\ ReadBody(g, in, type, i) = Assembled(type, w[n])
      BY <1>2, <2>3, <3>3, ReadLoop DEF number
    <3>7. PICK u : IsReads(u, h, in, type, number) /\ ReadBody(h, in, type, i) = Assembled(type, u[n])
      BY <1>2, <2>3, <3>3, ReadLoop DEF number
    <3>8. IsLoop(n, V, a, step)
      BY <2>1, <3>1, <3>3, ReadStepType
    <3>9. IsRun(w, n, V, a, step) /\ IsRun(u, n, V, a, step)
      <4>1. w[0] = a /\ \A k \in 1..n : w[k] = WithPart(g, type, k, w[k - 1])
        BY <3>6 DEF IsReads
      <4>2. u[0] = a /\ \A k \in 1..n : u[k] = WithPart(g, type, k, u[k - 1])
        BY <3>5, <3>7 DEF IsReads
      <4>3. \A k \in 1..n : \A v \in V : step[k][v] = WithPart(g, type, k, v)
        BY DEF ReadStep
      <4>. HIDE DEF step, V, a
      <4>. QED  BY <3>1, <4>1, <4>2, <4>3 DEF IsRun
    <3>. HIDE DEF step, a
    <3>10. SameRun(w, u, n, V)
      <4>. HIDE DEF V
      <4>. QED  BY <3>8, <3>9, RunUnique
    <3>11. w[n] = u[n] /\ w[n] \in V
      BY <3>1, <3>10 DEF SameRun
    <3>12. w[n].next \in Indices(in)
      BY <3>11 DEF PartReads
    <3>13. Assembled(type, w[n]).next = w[n].next
      BY DEF Assembled, Read
    <3>. QED  BY <3>6, <3>7, <3>11, <3>12, <3>13
  <2>. QED  BY <2>2, <2>3
<1>. QED  BY <1>1, <1>2

\* deserialize satisfies its recursive equation, and ends in the buffer or throws.
LEMMA ReadEquation ==
  ASSUME NEW in \in Seq(Byte)
  PROVE  \A t \in Types :
            /\ deserialize(in)[t] = [i \in 0..Len(in) |-> ReadBody(deserialize(in), in, t, i)]
            /\ \A i \in 0..Len(in) : deserialize(in)[t][i].next \in Indices(in)
<1>. DEFINE Ends(g) == \A t \in Types : \A i \in 0..Len(in) : g[t][i].next \in Indices(in)
            Reads(g, t) == [i \in 0..Len(in) |-> ReadBody(g, in, t, i)]
            Up(n, g) == \A t \in Types : Height[t] < n => g[t] = Reads(g, t)
            Q == {n \in Nat : \E g : g = [t \in Types |-> g[t]] /\ Ends(g) /\ Up(n, g)}
            IsRead(f) == f = [t \in Types |-> Reads(f, t)]
<1>1. 0 \in Q
  <2>. DEFINE g == [t \in Types |-> [i \in 0..Len(in) |-> Read(<<>>, Overflow)]]
  <2>1. g = [t \in Types |-> g[t]]
    OBVIOUS
  <2>2. Ends(g)
    BY DEF Read, Indices
  <2>3. Up(0, g)
    <3>. HIDE DEF g, Reads
    <3>. QED  BY HeightType
  <2>. HIDE DEF g, Ends, Up
  <2>. QED  BY <2>1, <2>2, <2>3
<1>2. ASSUME NEW n \in Nat, n \in Q PROVE n + 1 \in Q
  <2>1. PICK g : g = [t \in Types |-> g[t]] /\ Ends(g) /\ Up(n, g)
    BY <1>2
  <2>. DEFINE h == [t \in Types |-> IF Height[t] = n THEN Reads(g, t) ELSE g[t]]
  <2>2. h = [t \in Types |-> h[t]]
    OBVIOUS
  <2>3. ASSUME NEW t \in Types, NEW i \in 0..Len(in) PROVE ReadBody(g, in, t, i).next \in Indices(in)
    BY <2>1, ReadLocal
  <2>4. Ends(h)
    <3>1. ASSUME NEW t \in Types, NEW i \in 0..Len(in) PROVE h[t][i].next \in Indices(in)
      <4>1. CASE Height[t] = n
        <5>1. h[t][i] = ReadBody(g, in, t, i)
          BY <4>1
        <5>. QED  BY <2>3, <5>1
      <4>2. CASE Height[t] # n
        BY <2>1, <4>2
      <4>. QED  BY <4>1, <4>2
    <3>. HIDE DEF h
    <3>. QED  BY <3>1
  <2>5. ASSUME NEW t \in Types, Height[t] < n + 1 PROVE h[t] = Reads(h, t)
    <3>1. ASSUME NEW u \in Types, Height[u] < Height[t]
          PROVE  g[u] = h[u] /\ \A j \in 0..Len(in) : g[u][j].next \in Indices(in)
      <4>1. Height[u] # n
        BY <2>5, <3>1, HeightType
      <4>2. h[u] = g[u]
        <5>. HIDE DEF Reads
        <5>. QED  BY <4>1
      <4>. HIDE DEF h
      <4>. QED  BY <2>1, <4>2
    <3>2. Reads(g, t) = Reads(h, t)
      <4>. HIDE DEF h
      <4>1. ASSUME NEW i \in 0..Len(in) PROVE ReadBody(g, in, t, i) = ReadBody(h, in, t, i)
        BY <3>1, ReadLocal
      <4>. QED  BY <4>1
    <3>. HIDE DEF Reads
    <3>3. CASE Height[t] = n
      <4>1. h[t] = Reads(g, t)
        BY <3>3
      <4>. QED  BY <3>2, <4>1
    <3>4. CASE Height[t] # n
      <4>1. h[t] = g[t] /\ Height[t] < n
        BY <2>5, <3>4, HeightType
      <4>2. g[t] = Reads(g, t)
        BY <2>1, <4>1
      <4>. QED  BY <3>2, <4>1, <4>2
    <3>. QED  BY <3>3, <3>4
  <2>6. Up(n + 1, h)
    <3>. HIDE DEF h, Reads
    <3>. QED  BY <2>5
  <2>. HIDE DEF h, Ends, Up
  <2>. QED  BY <2>2, <2>4, <2>6
<1>3. MaxHeight + 1 \in Q
  <2>. HIDE DEF Q
  <2>1. \A n \in Nat : n \in Q
    BY <1>1, <1>2, NatInductive
  <2>. QED  BY <2>1, HeightType
<1>4. PICK f : f = [t \in Types |-> f[t]] /\ Up(MaxHeight + 1, f)
  <2>. HIDE DEF Up
  <2>. QED  BY <1>3
<1>5. IsRead(f)
  <2>. HIDE DEF Reads
  <2>1. \A t \in Types : f[t] = Reads(f, t)
    BY <1>4, HeightType
  <2>. QED  BY <1>4, <2>1
<1>6. deserialize(in) = CHOOSE g : IsRead(g)
  BY DEF deserialize, ReadBody
<1>7. IsRead(deserialize(in))
  <2>. HIDE DEF IsRead
  <2>. QED  BY <1>5, <1>6
<1>. DEFINE d == deserialize(in)
<1>8. \A t \in Types : d[t] = Reads(d, t)
  <2>1. d = [t \in Types |-> Reads(d, t)]
    BY <1>7
  <2>. HIDE DEF d, Reads
  <2>. QED  BY <2>1
<1>. HIDE DEF d
<1>. DEFINE P == {t \in Types : \A i \in 0..Len(in) : d[t][i].next \in Indices(in)}
<1>9. ASSUME NEW t \in Types, \A u \in Types : Height[u] < Height[t] => u \in P PROVE t \in P
  <2>1. ASSUME NEW i \in 0..Len(in) PROVE d[t][i].next \in Indices(in)
    <3>1. d[t][i] = ReadBody(d, in, t, i)
      BY <1>8
    <3>2. ReadBody(d, in, t, i).next \in Indices(in)
      BY <1>9, ReadLocal
    <3>. QED  BY <3>1, <3>2
  <2>. QED  BY <2>1
<1>10. \A t \in Types : t \in P
  <2>. HIDE DEF P
  <2>. QED  BY <1>9, HeightInduction
<1>. QED  BY <1>8, <1>10 DEF d
-----------------------------------------------------------------------------
(* What is written can be read.                                            *)

\* A map is read from its pairs.
LEMMA MapOfPairs ==
  ASSUME NEW data, IsFiniteSet(DOMAIN data), data = [key \in DOMAIN data |-> data[key]],
         NEW type, type.kind = "map"
  PROVE  MapOf(PartData(type, data)) = data
<1>. DEFINE keys == SetToSeq(DOMAIN data)
            n == Cardinality(DOMAIN data)
            pairs == PartData(type, data)
<1>1. /\ n \in Nat /\ keys \in [1..n -> DOMAIN data] /\ Len(keys) = n
      /\ \A j, k \in 1..n : keys[j] = keys[k] => j = k
      /\ \A x \in DOMAIN data : \E k \in 1..n : keys[k] = x
  BY KeysInOrder
<1>2. pairs = [k \in 1..n |-> <<keys[k], data[keys[k]]>>]
  BY <1>1 DEF PartData
<1>. HIDE DEF keys, n, pairs
<1>3. Len(pairs) = n
  BY <1>1, <1>2
<1>4. \A k \in 1..n : pairs[k][1] = keys[k] /\ pairs[k][2] = data[keys[k]]
  BY <1>2
<1>5. {pairs[k][1] : k \in 1..Len(pairs)} = DOMAIN data
  <2>1. ASSUME NEW k \in 1..n PROVE pairs[k][1] \in DOMAIN data
    BY <1>1, <1>4
  <2>2. ASSUME NEW x \in DOMAIN data PROVE \E k \in 1..n : pairs[k][1] = x
    BY <1>1, <1>4
  <2>. QED  BY <1>3, <2>1, <2>2
<1>6. ASSUME NEW key \in DOMAIN data
      PROVE  pairs[Max({k \in 1..Len(pairs) : pairs[k][1] = key})][2] = data[key]
  <2>1. PICK m \in 1..n : keys[m] = key
    BY <1>1
  <2>2. {k \in 1..Len(pairs) : pairs[k][1] = key} = {m}
    BY <1>1, <1>3, <1>4, <2>1
  <2>3. Max({m}) = m
    <3>1. m \in {m} /\ \A y \in {m} : m >= y
      BY <1>1
    <3>2. Max({m}) \in {m}
      BY <3>1 DEF Max
    <3>. QED  BY <3>2
  <2>. QED  BY <1>4, <2>1, <2>2, <2>3
<1>7. MapOf(pairs) = [key \in DOMAIN data |-> data[key]]
  BY <1>5, <1>6 DEF MapOf
<1>. QED  BY <1>7 DEF pairs

\* A buffer has a length.
LEMMA IndexType ==
  ASSUME NEW in \in Seq(Byte) PROVE Len(in) \in Nat
OBVIOUS

\* Where the parts of data are in a buffer that holds it.
LEMMA PartHeld ==
  ASSUME NEW in \in Seq(Byte), NEW i \in 0..Len(in),
         NEW t \in Types, NEW data \in Data[t], ~IsBasic(t),
         NEW u, IsWritten(u, serialize, t, data), Holds(in, i, u[Len(PartData(t, data))])
  PROVE  /\ \A k \in 0..Len(PartData(t, data)) :
               Len(u[k]) \in Nat /\ Len(u[k]) <= Len(u[Len(PartData(t, data))])
         /\ Holds(in, i, CountBytes(t, Len(PartData(t, data))))
         /\ Len(u[0]) = CountSize(t)
         /\ \A k \in 1..Len(PartData(t, data)) :
               /\ Len(u[k]) = Len(u[k - 1]) + Len(BytesOfPart(serialize, t, data, k))
               /\ Len(BytesOfPart(serialize, t, data, k)) \in Nat
               /\ Holds(in, i + Len(u[k - 1]), BytesOfPart(serialize, t, data, k))
<1>. DEFINE n == Len(PartData(t, data))
            b(k) == BytesOfPart(serialize, t, data, k)
            s == u[n]
<1>1. n \in Nat
  BY PartNumber
<1>2. ASSUME NEW k \in 1..n PROVE b(k) \in Seq(Byte)
  <2>1. PartType(t, k) \in Types /\ PartData(t, data)[k] \in Data[PartType(t, k)]
    BY Parts
  <2>. QED  BY <2>1, SizeIsLength DEF BytesOfPart
<1>3. /\ u \in [0..n -> Seq(Byte)] /\ u[0] = CountBytes(t, n)
      /\ \A k \in 1..n : u[k] = u[k - 1] \o b(k)
  BY DEF IsWritten
<1>4. Holds(in, i, s)
  OBVIOUS
<1>. HIDE DEF n, b
<1>5. ASSUME NEW k \in 1..n
      PROVE  /\ u[k - 1] \in Seq(Byte) /\ u[k] \in Seq(Byte)
             /\ Len(u[k]) = Len(u[k - 1]) + Len(b(k))
             /\ \A j \in 1..Len(u[k - 1]) : u[k][j] = u[k - 1][j]
             /\ \A j \in 1..Len(b(k)) : u[k][Len(u[k - 1]) + j] = b(k)[j]
  <2>1. u[k - 1] \in Seq(Byte) /\ u[k] \in Seq(Byte) /\ b(k) \in Seq(Byte)
    BY <1>1, <1>2, <1>3
  <2>2. u[k] = u[k - 1] \o b(k)
    BY <1>3
  <2>. DEFINE x == u[k - 1]
              y == b(k)
  <2>. HIDE DEF x, y
  <2>3. ASSUME NEW j \in 1..Len(y) PROVE (x \o y)[Len(x) + j] = y[j]
    BY <2>1 DEF x, y
  <2>4. ASSUME NEW j \in 1..Len(x) PROVE (x \o y)[j] = x[j]
    BY <2>1 DEF x, y
  <2>5. Len(x \o y) = Len(x) + Len(y)
    BY <2>1 DEF x, y
  <2>. QED  BY <2>1, <2>2, <2>3, <2>4, <2>5 DEF x, y
<1>. DEFINE Prefix(v) == Len(v) <= Len(s) /\ \A j \in 1..Len(v) : s[j] = v[j]
            Q == {m \in 0..n : Prefix(u[n - m])}
<1>6. 0 \in Q
  <2>1. n - 0 = n /\ s \in Seq(Byte)
    BY <1>1, <1>3
  <2>. QED  BY <1>1, <2>1
<1>7. ASSUME NEW m \in 1..n, m - 1 \in Q PROVE m \in Q
  <2>. DEFINE k == n - m + 1
  <2>1. k \in 1..n /\ n - (m - 1) = k /\ n - m = k - 1
    BY <1>1
  <2>2. Prefix(u[k])
    BY <1>7, <2>1
  <2>. HIDE DEF k
  <2>3. /\ u[k - 1] \in Seq(Byte) /\ u[k] \in Seq(Byte) /\ b(k) \in Seq(Byte)
        /\ Len(u[k]) = Len(u[k - 1]) + Len(b(k))
        /\ \A j \in 1..Len(u[k - 1]) : u[k][j] = u[k - 1][j]
    BY <1>2, <1>5, <2>1
  <2>4. Len(u[k]) \in Nat /\ Len(u[k - 1]) \in Nat /\ Len(b(k)) \in Nat /\ s \in Seq(Byte)
    BY <1>1, <1>3, <2>3
  <2>5. Len(u[k - 1]) <= Len(u[k]) /\ Len(s) \in Nat
    BY <2>3, <2>4
  <2>. HIDE DEF s
  <2>6. Len(u[k - 1]) <= Len(s)
    BY <2>2, <2>4, <2>5
  <2>7. ASSUME NEW j \in 1..Len(u[k - 1]) PROVE s[j] = u[k - 1][j]
    <3>1. j \in 1..Len(u[k])
      BY <2>4, <2>5
    <3>. QED  BY <2>2, <2>3, <3>1
  <2>8. Prefix(u[k - 1])
    BY <2>6, <2>7
  <2>. HIDE DEF Prefix
  <2>. QED  BY <1>1, <2>1, <2>8
<1>8. \A m \in 0..n : m \in Q
  <2>. HIDE DEF Q
  <2>. QED  BY <1>1, <1>6, <1>7, BoundedInductive
<1>9. ASSUME NEW k \in 0..n PROVE Prefix(u[k])
  <2>1. n - k \in 0..n /\ n - (n - k) = k
    BY <1>1
  <2>. HIDE DEF Prefix
  <2>. QED  BY <1>8, <2>1
<1>10. \A k \in 0..n : Len(u[k]) \in Nat /\ Len(u[k]) <= Len(s)
  BY <1>3, <1>9
<1>11. Len(s) \in Nat /\ Len(in) \in Nat /\ i \in Nat
  BY <1>1, <1>3, IndexType
<1>12. ASSUME NEW v, Len(v) \in Nat, Prefix(v) PROVE Holds(in, i, v)
  BY <1>4, <1>11, <1>12 DEF Holds
<1>13. Holds(in, i, CountBytes(t, n)) /\ Len(u[0]) = CountSize(t)
  <2>1. 0 \in 0..n
    BY <1>1
  <2>. HIDE DEF Prefix
  <2>. QED  BY <1>1, <1>3, <1>9, <1>10, <1>12, <2>1, CountBytesType
<1>14. ASSUME NEW k \in 1..n
       PROVE  /\ Len(u[k]) = Len(u[k - 1]) + Len(b(k)) /\ Len(b(k)) \in Nat
              /\ Holds(in, i + Len(u[k - 1]), b(k))
  <2>1. k \in 0..n /\ k - 1 \in 0..n
    BY <1>1
  <2>2. Len(b(k)) \in Nat /\ Len(u[k - 1]) \in Nat /\ Len(u[k]) \in Nat
    BY <1>2, <1>10, <2>1
  <2>3. Holds(in, i, u[k])
    <3>. HIDE DEF Prefix
    <3>. QED  BY <1>9, <1>12, <2>1, <2>2
  <2>4. Len(u[k]) = Len(u[k - 1]) + Len(b(k))
    BY <1>5
  <2>5. ASSUME NEW j \in 1..Len(b(k)), (i + Len(u[k - 1])) + j <= Len(in)
        PROVE  in[(i + Len(u[k - 1])) + j] = b(k)[j]
    <3>. DEFINE l == Len(u[k - 1]) + j
    <3>1. l \in 1..Len(u[k]) /\ i + l = (i + Len(u[k - 1])) + j
      BY <1>11, <2>2, <2>4
    <3>2. in[i + l] = u[k][l]
      BY <2>3, <2>5, <3>1 DEF Holds
    <3>3. u[k][l] = b(k)[j]
      BY <1>5
    <3>. QED  BY <3>1, <3>2, <3>3
  <2>. QED  BY <2>2, <2>4, <2>5 DEF Holds
<1>. QED  BY <1>10, <1>13, <1>14 DEF n, b

\* Data at index i of a buffer is read as it was written, if the buffer holds all of it,
\* and otherwise the end of the buffer is noticed.
IsReadFrom(in, t, data, i) ==
  LET size == Len(serialize[t][data])
  IN  IF i + size <= Len(in) THEN deserialize(in)[t][i] = Read(data, i + size)
      ELSE deserialize(in)[t][i].next = Overflow

\* The number of elements is read as it was written, or the end of the buffer noticed.
LEMMA ReadNumber ==
  ASSUME NEW in \in Seq(Byte), NEW i \in 0..Len(in),
         NEW t \in Types, NEW data \in Data[t], ~IsBasic(t),
         Holds(in, i, CountBytes(t, Len(PartData(t, data))))
  PROVE  IF i + CountSize(t) <= Len(in)
         THEN NumberAt(in, i, t) = Read(Len(PartData(t, data)), i + CountSize(t))
         ELSE NumberAt(in, i, t).next = Overflow
<1>. DEFINE n == Len(PartData(t, data))
<1>1. n \in Nat
  BY PartNumber
<1>2. IsOf(data, t)
  BY DataAssumption
<1>3. CASE IsCounted(t)
  <2>1. Fits(n, SizeOfSize, FALSE)
    BY <1>2, <1>3 DEF IsOf
  <2>2. NumberAt(in, i, t) = retrieveNext(in, i, SizeOfSize, FALSE) /\ CountSize(t) = SizeOfSize
    BY <1>3 DEF NumberAt, CountSize
  <2>3. Holds(in, i, Bytes(n, SizeOfSize))
    BY <1>3 DEF CountBytes
  <2>4. SizeOfSize \in Nat \ {0} /\ Len(in) \in Nat
    BY WidthAssumption
  <2>. HIDE DEF n
  <2>5. CASE i + SizeOfSize <= Len(in)
    <3>1. n \in Int /\ FALSE \in BOOLEAN
      BY <1>1
    <3>2. retrieveNext(in, i, SizeOfSize, FALSE) = Read(n, i + SizeOfSize)
      BY <2>1, <2>3, <2>4, <2>5, <3>1, RetrieveWritten
    <3>. QED  BY <2>2, <2>5, <3>2 DEF n
  <2>6. CASE ~(i + SizeOfSize <= Len(in))
    <3>1. i + SizeOfSize > Len(in)
      BY <2>4, <2>6
    <3>. QED  BY <2>2, <2>4, <2>6, <3>1, RetrieveType
  <2>. QED  BY <2>5, <2>6
<1>4. CASE ~IsCounted(t)
  <2>1. n = FixedNumber(t)
    BY <1>2, <1>4 DEF IsOf
  <2>2. CountSize(t) = 0 /\ NumberAt(in, i, t) = Read(FixedNumber(t), i)
    BY <1>4 DEF CountSize, NumberAt
  <2>3. i + 0 = i /\ i <= Len(in)
    OBVIOUS
  <2>. QED  BY <2>1, <2>2, <2>3
<1>. QED  BY <1>3, <1>4

\* If all less nested data is read as it was written, so is data with parts.
LEMMA ReadParts ==
  ASSUME NEW in \in Seq(Byte), NEW i \in 0..Len(in),
         NEW t \in Types, NEW data \in Data[t], ~IsBasic(t), Holds(in, i, serialize[t][data]),
         \A v \in Types : Height[v] < Height[t] =>
            \A x \in Data[v], j \in 0..Len(in) :
               Holds(in, j, serialize[v][x]) => IsReadFrom(in, v, x, j)
  PROVE  IsReadFrom(in, t, data, i)
<1>. DEFINE n == Len(PartData(t, data))
            parts == PartData(t, data)
            d == deserialize(in)
            size == Len(serialize[t][data])
            b(k) == BytesOfPart(serialize, t, data, k)
            number == NumberAt(in, i, t)
<1>1. n \in Nat /\ Len(in) \in Nat /\ i \in Nat
  BY PartNumber, IndexType
<1>2. PICK u : IsWritten(u, serialize, t, data) /\ serialize[t][data] = u[n]
  BY Written
<1>3. /\ \A k \in 0..n : Len(u[k]) \in Nat /\ Len(u[k]) <= size
      /\ Holds(in, i, CountBytes(t, n)) /\ Len(u[0]) = CountSize(t)
      /\ \A k \in 1..n :
            /\ Len(u[k]) = Len(u[k - 1]) + Len(b(k)) /\ Len(b(k)) \in Nat
            /\ Holds(in, i + Len(u[k - 1]), b(k))
  BY <1>2, PartHeld
<1>4. Len(u[n]) = size /\ size \in Nat /\ Len(u[0]) \in Nat /\ Len(u[0]) <= size
  BY <1>1, <1>2, <1>3
<1>5. d[t][i] = ReadBody(d, in, t, i)
  <2>1. d[t] = [j \in 0..Len(in) |-> ReadBody(d, in, t, j)]
    BY ReadEquation
  <2>. HIDE DEF d
  <2>. QED  BY <2>1
<1>6. CASE ~(i + Len(u[0]) <= Len(in))
  <2>1. number.next = Overflow
    BY <1>3, <1>6, ReadNumber
  <2>2. ReadBody(d, in, t, i) = number
    BY <2>1 DEF ReadBody
  <2>3. ~(i + size <= Len(in))
    <3>. HIDE DEF size, n
    <3>. QED  BY <1>1, <1>4, <1>6
  <2>. QED  BY <1>5, <2>1, <2>2, <2>3 DEF IsReadFrom
<1>7. CASE i + Len(u[0]) <= Len(in)
  <2>1. number = Read(n, i + Len(u[0]))
    BY <1>3, <1>7, ReadNumber
  <2>2. number.data = n /\ number.next = i + Len(u[0]) /\ number.next # Overflow
    BY <1>1, <1>4, <2>1 DEF Read, Overflow
  <2>3. ASSUME NEW k \in 1..n
        PROVE  /\ PartType(t, k) \in Types /\ Height[PartType(t, k)] < Height[t]
               /\ parts[k] \in Data[PartType(t, k)]
    BY Parts
  <2>4. EndsIn(d, in, t, n)
    BY <2>3, ReadEquation DEF EndsIn
  <2>. HIDE DEF number
  <2>5. PICK w : IsReads(w, d, in, t, number) /\ ReadBody(d, in, t, i) = Assembled(t, w[n])
    BY <2>2, <2>4, ReadLoop DEF number
  <2>6. /\ w[0] = Read(<<>>, i + Len(u[0]))
        /\ \A k \in 1..n : w[k] = WithPart(d, t, k, w[k - 1])
    BY <2>2, <2>5 DEF IsReads
  <2>7. ASSUME NEW k \in 1..n, NEW j \in 0..Len(in), Holds(in, j, b(k))
        PROVE  IF j + Len(b(k)) <= Len(in) THEN d[PartType(t, k)][j] = Read(parts[k], j + Len(b(k)))
               ELSE d[PartType(t, k)][j].next = Overflow
    <3>1. b(k) = serialize[PartType(t, k)][parts[k]]
      BY DEF BytesOfPart
    <3>2. IsReadFrom(in, PartType(t, k), parts[k], j)
      BY <2>3, <2>7, <3>1
    <3>. QED  BY <3>1, <3>2 DEF IsReadFrom
  <2>. HIDE DEF n, parts, d, size, b
  <2>. DEFINE First(k) == [j \in 1..k |-> parts[j]]
              IsNext(k) == IF i + Len(u[k]) <= Len(in) THEN w[k] = Read(First(k), i + Len(u[k]))
                           ELSE w[k].next = Overflow
              Q == {k \in 0..n : IsNext(k)}
  <2>8. 0 \in Q
    <3>1. First(0) = <<>>
      OBVIOUS
    <3>2. IsNext(0)
      BY <1>7, <2>6, <3>1
    <3>. HIDE DEF IsNext
    <3>. QED  BY <1>1, <3>2
  <2>9. ASSUME NEW k \in 1..n, k - 1 \in Q PROVE k \in Q
    <3>1. /\ Len(u[k]) = Len(u[k - 1]) + Len(b(k)) /\ Len(b(k)) \in Nat
          /\ Holds(in, i + Len(u[k - 1]), b(k))
          /\ Len(u[k - 1]) \in Nat /\ Len(u[k]) \in Nat
      <4>1. k - 1 \in 0..n /\ k \in 0..n
        BY <1>1
      <4>. QED  BY <1>3, <4>1
    <3>2. w[k] = WithPart(d, t, k, w[k - 1])
      BY <2>6
    <3>3. CASE ~(i + Len(u[k - 1]) <= Len(in))
      <4>1. w[k - 1].next = Overflow
        BY <2>9, <3>3
      <4>2. w[k] = w[k - 1]
        BY <3>2, <4>1 DEF WithPart
      <4>3. ~(i + Len(u[k]) <= Len(in))
        BY <1>1, <3>1, <3>3
      <4>. QED  BY <1>1, <4>1, <4>2, <4>3
    <3>4. CASE i + Len(u[k - 1]) <= Len(in)
      <4>. DEFINE j == i + Len(u[k - 1])
                  part == d[PartType(t, k)][j]
      <4>1. w[k - 1] = Read(First(k - 1), j)
        BY <2>9, <3>4
      <4>2. j \in 0..Len(in) /\ j # Overflow /\ j + Len(b(k)) = i + Len(u[k])
        <5>1. j \in Nat /\ j <= Len(in) /\ j + Len(b(k)) = i + Len(u[k])
          BY <1>1, <3>1, <3>4
        <5>. QED  BY <1>1, <5>1 DEF Overflow
      <4>3. IF i + Len(u[k]) <= Len(in) THEN part = Read(parts[k], i + Len(u[k]))
            ELSE part.next = Overflow
        BY <2>7, <3>1, <4>2
      <4>. HIDE DEF First, j
      <4>4. w[k] = Read(Append(First(k - 1), part.data), part.next)
        BY <3>2, <4>1, <4>2 DEF WithPart, Read
      <4>5. CASE i + Len(u[k]) <= Len(in)
        <5>1. part.data = parts[k] /\ part.next = i + Len(u[k])
          BY <4>3, <4>5 DEF Read
        <5>2. Append(First(k - 1), parts[k]) = First(k)
          BY <1>1 DEF First
        <5>3. w[k] = Read(First(k), i + Len(u[k]))
          BY <4>4, <5>1, <5>2
        <5>. QED  BY <4>5, <5>3
      <4>6. CASE ~(i + Len(u[k]) <= Len(in))
        <5>1. w[k].next = Overflow
          BY <4>3, <4>4, <4>6 DEF Read
        <5>. QED  BY <4>6, <5>1
      <4>. QED  BY <4>5, <4>6
    <3>. QED  BY <3>3, <3>4
  <2>10. IsNext(n)
    <3>1. \A k \in 0..n : k \in Q
      <4>. HIDE DEF Q
      <4>. QED  BY <1>1, <2>8, <2>9, BoundedInductive
    <3>. HIDE DEF IsNext
    <3>. QED  BY <1>1, <3>1
  <2>11. CASE i + size <= Len(in)
    <3>1. w[n] = Read(First(n), i + size)
      BY <1>4, <2>10, <2>11
    <3>2. First(n) = parts
      BY PartNumber DEF parts, n
    <3>3. i + size # Overflow
      BY <1>1, <1>4 DEF Overflow
    <3>4. Assembled(t, w[n]) = Read(data, i + size)
      <4>. HIDE DEF First
      <4>1. IsOf(data, t)
        BY DataAssumption
      <4>2. CASE t.kind = "map"
        <5>1. MapOf(parts) = data
          BY <4>1, <4>2, MapOfPairs DEF IsOf, parts
        <5>. QED  BY <3>1, <3>2, <3>3, <4>2, <5>1 DEF Assembled, Read
      <4>3. CASE t.kind # "map"
        <5>1. parts = data
          BY <4>3 DEF parts, PartData
        <5>. QED  BY <3>1, <3>2, <4>3, <5>1 DEF Assembled
      <4>. QED  BY <4>2, <4>3
    <3>. QED  BY <1>5, <2>5, <2>11, <3>4 DEF IsReadFrom, d, size
  <2>12. CASE ~(i + size <= Len(in))
    <3>1. w[n].next = Overflow
      BY <1>4, <2>10, <2>12
    <3>2. Assembled(t, w[n]).next = Overflow
      BY <3>1 DEF Assembled
    <3>. QED  BY <1>5, <2>5, <2>12, <3>2 DEF IsReadFrom, d, size
  <2>. QED  BY <2>11, <2>12
<1>. QED  BY <1>6, <1>7

\* DataSerializer's templates read all data of all types as it was written, wherever it is
\* in an InputBuffer, and throw if the buffer ends before the data does.
THEOREM ReadAsWritten ==
  ASSUME NEW in \in Seq(Byte)
  PROVE  \A t \in Types : \A data \in Data[t], i \in 0..Len(in) :
            Holds(in, i, serialize[t][data]) => IsReadFrom(in, t, data, i)
<1>. DEFINE P == {t \in Types : \A data \in Data[t], i \in 0..Len(in) :
                     Holds(in, i, serialize[t][data]) => IsReadFrom(in, t, data, i)}
<1>1. ASSUME NEW t \in Types, \A v \in Types : Height[v] < Height[t] => v \in P PROVE t \in P
  <2>1. ASSUME NEW data \in Data[t], NEW i \in 0..Len(in), Holds(in, i, serialize[t][data])
        PROVE  IsReadFrom(in, t, data, i)
    <3>1. CASE IsBasic(t)
      <4>. DEFINE width == Width(t)
                  signed == IsSigned(t)
      <4>1. data \in Int /\ Fits(data, width, signed)
        BY <3>1, DataAssumption DEF IsOf
      <4>2. width \in Nat \ {0} /\ signed \in BOOLEAN
        BY WidthType DEF IsSigned
      <4>3. serialize[t][data] = Bytes(data, width)
        <5>1. serialize[t][data] = BytesBody(serialize, t, data)
          BY BytesEquation
        <5>. QED  BY <3>1, <5>1 DEF BytesBody
      <4>4. deserialize(in)[t][i] = retrieveNext(in, i, width, signed)
        <5>1. deserialize(in)[t] = [j \in 0..Len(in) |-> ReadBody(deserialize(in), in, t, j)]
          BY ReadEquation
        <5>2. deserialize(in)[t][i] = ReadBody(deserialize(in), in, t, i)
          BY <5>1
        <5>. QED  BY <3>1, <5>2 DEF ReadBody
      <4>. HIDE DEF width, signed
      <4>5. Len(Bytes(data, width)) = width /\ Len(in) \in Nat
        BY <4>1, <4>2, BytesType
      <4>6. CASE i + width <= Len(in)
        <5>1. retrieveNext(in, i, width, signed) = Read(data, i + width)
          BY <2>1, <4>1, <4>2, <4>3, <4>6, RetrieveWritten
        <5>. QED  BY <4>3, <4>4, <4>5, <4>6, <5>1 DEF IsReadFrom
      <4>7. CASE ~(i + width <= Len(in))
        <5>1. i + width > Len(in)
          BY <4>2, <4>5, <4>7
        <5>2. retrieveNext(in, i, width, signed).next = Overflow
          BY <4>2, <5>1, RetrieveType
        <5>. QED  BY <4>3, <4>4, <4>5, <4>7, <5>2 DEF IsReadFrom
      <4>. QED  BY <4>6, <4>7
    <3>2. CASE ~IsBasic(t)
      BY <1>1, <2>1, <3>2, ReadParts
    <3>. QED  BY <3>1, <3>2
  <2>. QED  BY <2>1
<1>2. \A t \in Types : t \in P
  <2>. HIDE DEF P
  <2>. QED  BY <1>1, HeightInduction
<1>. QED  BY <1>2
-----------------------------------------------------------------------------
(* Registration.                                                           *)

\* A map from names to classes.
IsTable(table) == table = [name \in DOMAIN table |-> table[name]]

\* Tables with the same classes, of a set of them.
SameTables(T) ==
  {v \in [messages : T, serializers : T, failed : BOOLEAN] : v.messages = v.serializers}

\* registerMessages, also if it throws halfway, leaves the same classes in both maps.
LEMMA RegisteredInBoth ==
  ASSUME NEW registry \in Registries, NEW table, IsTable(table),
         NEW tables,
         tables = registerMessages([messages |-> table, serializers |-> table, failed |-> FALSE],
                                   registry)
  PROVE  /\ tables.messages = tables.serializers
         /\ IsTable(tables.messages)
<1>. DEFINE n == Len(registry)
            N == DOMAIN table \cup {registry[k].name : k \in 1..n}
            C == {table[name] : name \in DOMAIN table} \cup {registry[k] : k \in 1..n}
            T == UNION {[S -> C] : S \in SUBSET N}
            V == SameTables(T)
            a == [messages |-> table, serializers |-> table, failed |-> FALSE]
            more(v, k) == registerMessage(v, registry[k])
            step == [k \in 1..n |-> [v \in V |-> more(v, k)]]
            IsRegistered(w) == w = [k \in 0..n |-> IF k = 0 THEN a ELSE more(w[k - 1], k)]
            u == CHOOSE w : IsRegistered(w)
<1>1. n \in Nat
  BY FactoryAssumption
<1>2. tables = u[n]
  BY DEF registerMessages
<1>3. a \in V
  <2>1. table \in [DOMAIN table -> C] /\ DOMAIN table \in SUBSET N
    BY DEF IsTable
  <2>2. table \in T
    <3>. HIDE DEF N, C
    <3>. QED  BY <2>1
  <2>. HIDE DEF T
  <2>. QED  BY <2>2 DEF SameTables
<1>4. ASSUME NEW k \in 1..n, NEW v \in V PROVE more(v, k) \in V
  <2>. DEFINE class == registry[k]
  <2>1. class \in C /\ class.name \in N
    OBVIOUS
  <2>. HIDE DEF N, C, class
  <2>2. PICK f \in T, x \in BOOLEAN : v = [messages |-> f, serializers |-> f, failed |-> x]
    <3>. HIDE DEF T
    <3>1. v.messages \in T /\ v.failed \in BOOLEAN
      BY DEF SameTables
    <3>2. v = [messages |-> v.messages, serializers |-> v.messages, failed |-> v.failed]
      BY DEF SameTables
    <3>. QED  BY <3>1, <3>2
  <2>3. CASE x
    <3>1. more(v, k) = v
      BY <2>2, <2>3 DEF registerMessage
    <3>. QED  BY <3>1
  <2>4. CASE ~x /\ class.name \in DOMAIN f
    <3>1. more(v, k) = [messages |-> f, serializers |-> f, failed |-> TRUE]
      BY <2>2, <2>4 DEF registerMessage, class
    <3>. HIDE DEF T, more
    <3>. QED  BY <3>1 DEF SameTables
  <2>5. CASE ~x /\ class.name \notin DOMAIN f
    <3>. DEFINE g == WithClass(f, class)
    <3>1. more(v, k) = [messages |-> g, serializers |-> g, failed |-> FALSE]
      BY <2>2, <2>5 DEF registerMessage, class
    <3>2. PICK S \in SUBSET N : f \in [S -> C]
      BY <2>2
    <3>3. g \in [S \cup {class.name} -> C] /\ S \cup {class.name} \in SUBSET N
      BY <2>1, <3>2 DEF WithClass
    <3>4. g \in T
      <4>. HIDE DEF g
      <4>. QED  BY <3>3
    <3>. HIDE DEF g, T, more
    <3>. QED  BY <3>1, <3>4 DEF SameTables
  <2>. QED  BY <2>2, <2>3, <2>4, <2>5
<1>5. \A v \in V : v.messages = v.serializers /\ IsTable(v.messages)
  <2>1. ASSUME NEW v \in V
        PROVE  v.messages = v.serializers /\ IsTable(v.messages)
    <3>. HIDE DEF N, C
    <3>1. v.messages \in T /\ v.messages = v.serializers
      <4>. HIDE DEF T
      <4>. QED  BY DEF SameTables
    <3>2. \A f \in T : IsTable(f)
      BY DEF IsTable
    <3>. HIDE DEF T
    <3>. QED  BY <3>1, <3>2
  <2>. QED  BY <2>1
<1>. HIDE DEF n, V, a, more
<1>6. IsLoop(n, V, a, step)
  BY <1>1, <1>3, <1>4 DEF IsLoop
<1>7. PICK w \in [0..n -> V] : w[0] = a /\ \A k \in 1..n : w[k] = step[k][w[k - 1]]
  <2>1. HasRun(n, V, a, step)
    <3>. HIDE DEF step
    <3>. QED  BY <1>6, RunExists
  <2>. QED  BY <2>1 DEF HasRun
<1>8. ASSUME NEW k \in 1..n PROVE w[k] = more(w[k - 1], k)
  <2>1. w[k - 1] \in V
    BY <1>1
  <2>2. w[k] = step[k][w[k - 1]]
    BY <1>7
  <2>. QED  BY <2>1, <2>2
<1>9. IsRegistered(w)
  BY <1>1, <1>7, <1>8
<1>10. u = [k \in 0..n |-> IF k = 0 THEN a ELSE more(u[k - 1], k)]
  <2>1. IsRegistered(u)
    <3>. HIDE DEF IsRegistered
    <3>. QED  BY <1>9
  <2>. HIDE DEF u
  <2>. QED  BY <2>1
<1>. HIDE DEF u, IsRegistered
<1>11. u[0] = a /\ \A k \in 1..n : u[k] = more(u[k - 1], k)
  <2>. HIDE DEF N, C, T, step
  <2>. QED  BY <1>1, <1>10
<1>12. u[n] \in V
  <2>1. IsRun(u, n, V, a, step)
    BY <1>1, <1>11 DEF IsRun
  <2>2. SameRun(u, u, n, V)
    <3>. HIDE DEF step
    <3>. QED  BY <1>6, <2>1, RunUnique
  <2>. QED  BY <1>1, <2>2 DEF SameRun
<1>. QED  BY <1>2, <1>5, <1>12
-----------------------------------------------------------------------------
(* Messages.                                                               *)

\* What is written before the data of a packet, and what may be sent.
HeaderData(p) == <<p.class.name, p.type, p.instance>>
IsPacket(p) == \E i \in DOMAIN Packets : p = Packets[i]

\* A packet has data of its class's type, and a header of the header's type.
LEMMA PacketType ==
  ASSUME NEW p, IsPacket(p)
  PROVE  /\ p = [class |-> p.class, type |-> p.type, instance |-> p.instance, data |-> p.data]
         /\ HeaderType \in Types /\ HeaderData(p) \in Data[HeaderType]
         /\ p.class.data \in Types /\ p.data \in Data[p.class.data]
BY PacketsAssumption DEF IsPacket, HeaderData

\* getSize announces as many bytes as are written, in whatever order it adds them.
LEMMA MessageSize ==
  ASSUME NEW p, IsPacket(p)
  PROVE  /\ MessageBytes(p) \in Seq(Byte)
         /\ getSize(p) = Len(MessageBytes(p)) /\ getSize(p) \in Nat
<1>. DEFINE h == HeaderData(p)
            head == serialize[HeaderType][h]
            body == serialize[p.class.data][p.data]
<1>1. /\ HeaderType \in Types /\ h \in Data[HeaderType]
      /\ p.class.data \in Types /\ p.data \in Data[p.class.data]
  BY PacketType
<1>2. /\ head \in Seq(Byte) /\ sizeOf[HeaderType][h] = Len(head)
      /\ body \in Seq(Byte) /\ sizeOf[p.class.data][p.data] = Len(body)
  BY <1>1, SizeIsLength
<1>3. ~IsBasic(HeaderType) /\ ~IsCounted(HeaderType) /\ PartData(HeaderType, h) = h /\ Len(h) = 3
  BY DEF HeaderType, StructType, IsBasic, IsCounted, PartData, HeaderData
<1>4. /\ PartType(HeaderType, 1) = StringType
      /\ PartType(HeaderType, 2) = IntType
      /\ PartType(HeaderType, 3) = IntType
  BY DEF HeaderType, StructType, PartType
<1>5. h[1] = p.class.name /\ h[2] = p.type /\ h[3] = p.instance
  BY DEF HeaderData
<1>. DEFINE s(k) == SizeOfPart(sizeOf, HeaderType, h, k)
<1>6. /\ s(1) = sizeOf[StringType][p.class.name]
      /\ s(2) = sizeOf[IntType][p.type]
      /\ s(3) = sizeOf[IntType][p.instance]
  BY <1>3, <1>4, <1>5 DEF SizeOfPart
<1>. HIDE DEF h
<1>7. ASSUME NEW k \in 1..3 PROVE s(k) \in Nat
  <2>1. PartType(HeaderType, k) \in Types /\ h[k] \in Data[PartType(HeaderType, k)]
    BY <1>1, <1>3, Parts
  <2>2. serialize[PartType(HeaderType, k)][h[k]] \in Seq(Byte)
        /\ sizeOf[PartType(HeaderType, k)][h[k]] = Len(serialize[PartType(HeaderType, k)][h[k]])
    BY <2>1, SizeIsLength
  <2>3. s(k) = sizeOf[PartType(HeaderType, k)][h[k]]
    BY <1>3 DEF SizeOfPart
  <2>. QED  BY <2>2, <2>3
<1>8. sizeOf[HeaderType][h] = SizeBody(sizeOf, HeaderType, h)
  BY <1>1, SizeEquation
<1>9. PICK w : IsSizes(w, sizeOf, HeaderType, h) /\ SizeBody(sizeOf, HeaderType, h) = w[3]
  BY <1>1, <1>3, <1>7, SizeLoop
<1>10. w[0] = 0 /\ \A k \in 1..3 : w[k] = w[k - 1] + s(k)
  BY <1>3, <1>9 DEF IsSizes, CountSize
<1>11. w[1] = w[0] + s(1) /\ w[2] = w[1] + s(2) /\ w[3] = w[2] + s(3)
  <2>1. 1 \in 1..3 /\ 2 \in 1..3 /\ 3 \in 1..3 /\ 1 - 1 = 0 /\ 2 - 1 = 1 /\ 3 - 1 = 2
    OBVIOUS
  <2>. HIDE DEF s
  <2>. QED  BY <1>10, <2>1
<1>12. s(1) \in Nat /\ s(2) \in Nat /\ s(3) \in Nat
  BY <1>7
<1>13. Len(head) = s(1) + s(2) + s(3)
  <2>. HIDE DEF s, head
  <2>. QED  BY <1>2, <1>8, <1>9, <1>10, <1>11, <1>12
<1>14. getSize(p) = s(2) + s(3) + s(1) + Len(body)
  BY <1>2, <1>6 DEF getSize
<1>15. MessageBytes(p) = head \o body
  BY DEF MessageBytes, HeaderData, h
<1>. HIDE DEF s, head, body
<1>16. Len(head \o body) = Len(head) + Len(body) /\ head \o body \in Seq(Byte)
       /\ Len(head) \in Nat /\ Len(body) \in Nat
  BY <1>2
<1>. QED  BY <1>12, <1>13, <1>14, <1>15, <1>16

\* A packet fills its buffer, or it is larger than m_bufferSize.
LEMMA BufferFilled ==
  ASSUME NEW p, IsPacket(p)
  PROVE  LET out == serializeMessage(p)
         IN  /\ ~out.overflow => out.data = MessageBytes(p) /\ Len(out.data) = out.totalSize
             /\ out.overflow => Len(MessageBytes(p)) > BufferSize
<1>. DEFINE bytes == MessageBytes(p)
            total == IF getSize(p) < BufferSize THEN getSize(p) ELSE BufferSize
            out == serializeMessage(p)
<1>1. bytes \in Seq(Byte) /\ getSize(p) = Len(bytes) /\ Len(bytes) \in Nat /\ BufferSize \in Nat
  BY MessageSize, FactoryAssumption
<1>2. total <= Len(bytes) /\ total \in Nat
  BY <1>1
<1>3. Len(bytes) > total => Len(bytes) > BufferSize
  BY <1>1
<1>4. out = AppendTo(OutputBuffer(total), bytes)
  BY DEF serializeMessage
<1>. HIDE DEF bytes, total
<1>5. /\ OutputBuffer(total).data = <<>> /\ OutputBuffer(total).totalSize = total
      /\ OutputBuffer(total).overflow = FALSE
      /\ OutputBuffer(total) = [data |-> <<>>, totalSize |-> total, overflow |-> FALSE]
  BY DEF OutputBuffer
<1>6. Len(<<>>) + Len(bytes) = Len(bytes) /\ <<>> \o bytes = bytes
  BY <1>1
<1>7. CASE Len(bytes) > total
  <2>1. out = [data |-> <<>>, totalSize |-> total, overflow |-> TRUE]
    BY <1>4, <1>5, <1>6, <1>7 DEF AppendTo
  <2>. QED  BY <1>3, <1>7, <2>1 DEF bytes
<1>8. CASE ~(Len(bytes) > total)
  <2>1. out = [data |-> bytes, totalSize |-> total, overflow |-> FALSE]
    BY <1>4, <1>5, <1>6, <1>8 DEF AppendTo
  <2>2. Len(bytes) = total
    BY <1>1, <1>2, <1>8
  <2>. QED  BY <2>1, <2>2 DEF bytes
<1>. QED  BY <1>7, <1>8
-----------------------------------------------------------------------------
(* The two ends of a connection.                                           *)

\* What the ghost variable remembers of a packet.
SentPackets == [packet : {Packets[i] : i \in DOMAIN Packets}, begin : Nat]

\* Both maps of a side have the same classes.
TablesInv ==
    /\ m_serializers = m_messages
    /\ m_messages = [side \in Sides |-> m_messages[side]]
    /\ \A side \in Sides : IsTable(m_messages[side])

\* The bytes of a packet that was sent are in the stream, where it begins.
InStream(s) ==
    LET bytes == MessageBytes(s.packet)
    IN  /\ s.begin + Len(bytes) <= Len(stream)
        /\ \A k \in 1..Len(bytes) : stream[s.begin + k] = bytes[k]
StreamInv ==
    /\ stream \in Seq(Byte) /\ position \in Nat /\ position <= Len(stream)
    /\ sent \in Seq(SentPackets)
    /\ \A i \in 1..Len(sent) : InStream(sent[i])

\* The properties of the last call, and the inductive invariant.
ReadInv == BufferIsExact /\ DeliveredAsSent /\ PartIsRejected
CodecInv == TablesInv /\ StreamInv /\ ReadInv

\* Everything but the receipt of a message leaves nothing that was received.
LEMMA NothingReceived ==
  ASSUME last.call # "receive" PROVE DeliveredAsSent /\ PartIsRejected
BY DEF DeliveredAsSent, PartIsRejected, ReceivedAt

\* The same for the next state.
LEMMA NothingReceivedNext ==
  ASSUME last'.call # "receive" PROVE DeliveredAsSent' /\ PartIsRejected'
BY DEF DeliveredAsSent, PartIsRejected, ReceivedAt

\* Nothing is registered, sent or received at the beginning.
LEMMA CodecInit == Init => CodecInv
<1>. SUFFICES ASSUME Init PROVE CodecInv
  OBVIOUS
<1>1. last.call = "none"
  BY DEF Init, Nothing
<1>2. TablesInv
  BY DEF Init, TablesInv, IsTable
<1>3. StreamInv
  BY DEF Init, StreamInv
<1>4. ReadInv
  BY <1>1, NothingReceived DEF ReadInv, BufferIsExact
<1>. QED  BY <1>2, <1>3, <1>4 DEF CodecInv

\* registerMessage adds a class to both maps or to none.
LEMMA RegisterSafe ==
  ASSUME CodecInv, NEW side \in Sides, NEW registry \in Registries, RegisterMessages(side, registry)
  PROVE  CodecInv'
<1>. DEFINE tables == registerMessages([messages |-> m_messages[side],
                                        serializers |-> m_serializers[side], failed |-> FALSE],
                                       registry)
<1>1. m_serializers[side] = m_messages[side] /\ IsTable(m_messages[side])
  BY DEF CodecInv, TablesInv
<1>2. tables.messages = tables.serializers /\ IsTable(tables.messages)
  <2>1. tables = registerMessages([messages |-> m_messages[side],
                                   serializers |-> m_messages[side], failed |-> FALSE], registry)
    BY <1>1
  <2>. HIDE DEF tables
  <2>. QED  BY <1>1, <2>1, RegisteredInBoth
<1>3. /\ m_messages' = [m_messages EXCEPT ![side] = tables.messages]
      /\ m_serializers' = [m_serializers EXCEPT ![side] = tables.serializers]
      /\ last'.call = "register"
      /\ UNCHANGED <<stream, position, sent>>
  BY DEF RegisterMessages
<1>. HIDE DEF tables
<1>4. TablesInv'
  <2>1. m_serializers' = m_messages'
    BY <1>2, <1>3 DEF CodecInv, TablesInv
  <2>2. m_messages' = [x \in Sides |-> m_messages'[x]]
    BY <1>3 DEF CodecInv, TablesInv
  <2>3. ASSUME NEW x \in Sides PROVE IsTable(m_messages'[x])
    <3>1. CASE x = side
      <4>1. m_messages'[x] = tables.messages
        BY <1>3, <3>1 DEF CodecInv, TablesInv
      <4>. QED  BY <1>2, <4>1
    <3>2. CASE x # side
      <4>1. m_messages'[x] = m_messages[x]
        BY <1>3, <3>2 DEF CodecInv, TablesInv
      <4>. QED  BY <4>1 DEF CodecInv, TablesInv
    <3>. QED  BY <3>1, <3>2
  <2>. QED  BY <2>1, <2>2, <2>3 DEF TablesInv
<1>5. StreamInv'
  BY <1>3 DEF CodecInv, StreamInv, InStream
<1>6. ReadInv'
  BY <1>3, NothingReceivedNext DEF ReadInv, BufferIsExact
<1>. QED  BY <1>4, <1>5, <1>6 DEF CodecInv

\* A packet that cannot be sent leaves nothing in the stream, and a buffer
\* overflows only if the packet is larger than m_bufferSize.
LEMMA SendThrowsSafe ==
  ASSUME CodecInv, NEW p, IsPacket(p), SendThrows(p)
  PROVE  CodecInv'
<1>. DEFINE out == serializeMessage(p)
<1>1. /\ last'.call = "send" /\ last'.packet = p
      /\ last'.result # "ok"
      /\ last'.result = "BufferOverflowException" => out.overflow
      /\ UNCHANGED <<m_messages, m_serializers, stream, position, sent>>
  BY DEF SendThrows, SendEnds
<1>2. out.overflow => Len(MessageBytes(p)) > BufferSize
  BY BufferFilled
<1>. HIDE DEF out
<1>3. TablesInv'
  BY <1>1 DEF CodecInv, TablesInv
<1>4. StreamInv'
  BY <1>1 DEF CodecInv, StreamInv, InStream
<1>5. BufferIsExact'
  BY <1>1, <1>2 DEF BufferIsExact
<1>6. DeliveredAsSent' /\ PartIsRejected'
  BY <1>1, NothingReceivedNext
<1>. QED  BY <1>3, <1>4, <1>5, <1>6 DEF CodecInv, ReadInv

\* A packet that is sent fills its buffer, and its bytes are appended to the stream.
LEMMA SendSafe ==
  ASSUME CodecInv, NEW p, IsPacket(p), Send(p)
  PROVE  CodecInv'
<1>. DEFINE out == serializeMessage(p)
            bytes == MessageBytes(p)
            s == [packet |-> p, begin |-> Len(stream)]
<1>1. /\ ~out.overflow /\ stream' = stream \o out.data
      /\ last'.call = "send" /\ last'.packet = p /\ last'.result = "ok" /\ last'.out = out
      /\ sent' = Append(sent, s)
      /\ UNCHANGED <<m_messages, m_serializers, position>>
  BY DEF Send, SendEnds
<1>2. out.data = bytes /\ Len(out.data) = out.totalSize
  BY <1>1, BufferFilled
<1>3. bytes \in Seq(Byte)
  BY MessageSize
<1>4. /\ stream \in Seq(Byte) /\ position \in Nat /\ position <= Len(stream)
      /\ sent \in Seq(SentPackets) /\ \A i \in 1..Len(sent) : InStream(sent[i])
  BY DEF CodecInv, StreamInv
<1>5. s \in SentPackets
  BY <1>4 DEF SentPackets, IsPacket
<1>6. /\ s.packet = p /\ s.begin = Len(stream)
  OBVIOUS
<1>. HIDE DEF out, bytes, s
<1>7. /\ stream' \in Seq(Byte) /\ Len(stream') = Len(stream) + Len(bytes)
      /\ Len(stream) \in Nat /\ Len(bytes) \in Nat
      /\ \A k \in 1..Len(stream) : stream'[k] = stream[k]
      /\ \A k \in 1..Len(bytes) : stream'[Len(stream) + k] = bytes[k]
  <2>1. stream' = stream \o bytes
    BY <1>1, <1>2
  <2>. QED  BY <1>3, <1>4, <2>1
<1>8. /\ sent' \in Seq(SentPackets) /\ Len(sent') = Len(sent) + 1 /\ Len(sent) \in Nat
      /\ \A i \in 1..Len(sent) : sent'[i] = sent[i]
      /\ sent'[Len(sent) + 1] = s
  BY <1>1, <1>4, <1>5
<1>9. ASSUME NEW i \in 1..Len(sent') PROVE InStream(sent[i])'
  <2>1. CASE i \in 1..Len(sent)
    <3>. DEFINE b == MessageBytes(sent[i].packet)
                begin == sent[i].begin
    <3>1. sent'[i] = sent[i]
      BY <1>8, <2>1
    <3>2. begin + Len(b) <= Len(stream) /\ \A k \in 1..Len(b) : stream[begin + k] = b[k]
      BY <1>4, <2>1 DEF InStream
    <3>3. sent[i] \in SentPackets
      BY <1>4, <2>1
    <3>4. begin \in Nat /\ IsPacket(sent[i].packet)
      BY <3>3 DEF SentPackets, IsPacket
    <3>5. Len(b) \in Nat
      BY <3>4, MessageSize
    <3>. HIDE DEF b, begin
    <3>6. begin + Len(b) <= Len(stream')
      BY <1>7, <3>2, <3>4, <3>5
    <3>7. ASSUME NEW k \in 1..Len(b) PROVE stream'[begin + k] = b[k]
      <4>1. begin + k \in 1..Len(stream)
        BY <1>7, <3>2, <3>4, <3>5
      <4>. QED  BY <1>7, <3>2, <4>1
    <3>. QED  BY <3>1, <3>6, <3>7 DEF InStream, b, begin
  <2>2. CASE i \notin 1..Len(sent)
    <3>1. sent'[i] = s
      <4>1. i = Len(sent) + 1
        BY <1>8, <2>2
      <4>. QED  BY <1>8, <4>1
    <3>2. Len(stream) + Len(bytes) <= Len(stream')
      BY <1>7
    <3>. QED  BY <1>6, <1>7, <3>1, <3>2 DEF InStream, bytes
  <2>. QED  BY <2>1, <2>2
<1>10. StreamInv'
  <2>1. position' \in Nat /\ position' <= Len(stream')
    BY <1>1, <1>4, <1>7
  <2>. QED  BY <1>7, <1>8, <1>9, <2>1 DEF StreamInv
<1>11. TablesInv'
  BY <1>1 DEF CodecInv, TablesInv
<1>12. BufferIsExact'
  BY <1>1, <1>2 DEF BufferIsExact
<1>13. DeliveredAsSent' /\ PartIsRejected'
  BY <1>1, NothingReceivedNext
<1>. QED  BY <1>10, <1>11, <1>12, <1>13 DEF CodecInv, ReadInv

\* The bytes that a read() takes from the stream.
LEMMA SubSeqBytes ==
  ASSUME NEW s \in Seq(Byte), NEW i \in Nat, NEW length \in Nat, i + length <= Len(s)
  PROVE  LET in == SubSeq(s, i + 1, i + length)
         IN  /\ in \in Seq(Byte) /\ Len(in) = length
             /\ \A k \in 1..length : in[k] = s[i + k]
<1>. DEFINE in == SubSeq(s, i + 1, i + length)
            j == i + length
<1>1. Len(s) \in Nat /\ j \in Nat /\ j <= Len(s) /\ i + 1 \in Int /\ j - (i + 1) + 1 = length
  OBVIOUS
<1>2. ASSUME NEW k \in 1..length PROVE i + k \in 1..Len(s) /\ (i + 1) + k - 1 = i + k
  BY <1>1
<1>3. \A k \in (i + 1)..j : s[k] \in Byte
  BY <1>1
<1>4. in \in Seq(Byte) /\ Len(in) = length
  BY <1>1, <1>3
<1>5. ASSUME NEW k \in 1..length PROVE in[k] = s[i + k]
  BY <1>1, <1>2
<1>. QED  BY <1>4, <1>5

\* What a read() returns from where a packet begins holds the bytes of the packet, as
\* far as it reaches.
LEMMA PacketHeld ==
  ASSUME StreamInv, NEW i \in 1..Len(sent), NEW length \in Nat, position + length <= Len(stream),
         position = sent[i].begin,
         NEW in, in = SubSeq(stream, position + 1, position + length)
  PROVE  /\ in \in Seq(Byte) /\ Len(in) = length
         /\ IsPacket(sent[i].packet)
         /\ Holds(in, 0, MessageBytes(sent[i].packet))
<1>. DEFINE p == sent[i].packet
            bytes == MessageBytes(p)
<1>1. stream \in Seq(Byte) /\ position \in Nat /\ sent \in Seq(SentPackets)
  BY DEF StreamInv
<1>2. sent[i] \in SentPackets
  BY <1>1
<1>3. IsPacket(p)
  BY <1>2 DEF SentPackets, IsPacket
<1>4. \A k \in 1..Len(bytes) : stream[position + k] = bytes[k]
  BY DEF StreamInv, InStream
<1>5. bytes \in Seq(Byte)
  BY <1>3, MessageSize
<1>. HIDE DEF bytes, p
<1>6. /\ in \in Seq(Byte) /\ Len(in) = length
      /\ \A k \in 1..length : in[k] = stream[position + k]
  BY <1>1, SubSeqBytes
<1>7. ASSUME NEW k \in 1..Len(bytes), 0 + k <= Len(in) PROVE in[0 + k] = bytes[k]
  BY <1>4, <1>5, <1>6, <1>7
<1>. QED  BY <1>3, <1>6, <1>7 DEF Holds, bytes, p

\* A buffer that begins with a packet of a registered class gives the packet, or the
\* exception of InputBuffer::nextValue if it ends before the packet.
LEMMA PacketRead ==
  ASSUME TablesInv, NEW in \in Seq(Byte), NEW p, IsPacket(p), Holds(in, 0, MessageBytes(p)),
         p.class.name \in DOMAIN m_messages["receiver"],
         m_messages["receiver"][p.class.name] = p.class
  PROVE  deserializeMessage(in) = IF Len(MessageBytes(p)) <= Len(in)
                                  THEN [result |-> "ok", packet |-> p]
                                  ELSE Thrown("BufferOverflowException")
<1>. DEFINE h == HeaderData(p)
            head == serialize[HeaderType][h]
            type == p.class.data
            body == serialize[type][p.data]
            d == deserialize(in)
            header == d[HeaderType][0]
            data == d[type][header.next]
<1>1. /\ p = [class |-> p.class, type |-> p.type, instance |-> p.instance, data |-> p.data]
      /\ HeaderType \in Types /\ h \in Data[HeaderType]
      /\ type \in Types /\ p.data \in Data[type]
  BY PacketType
<1>2. head \in Seq(Byte) /\ body \in Seq(Byte)
  BY <1>1, SizeIsLength
<1>3. MessageBytes(p) = head \o body
  BY DEF MessageBytes, HeaderData
<1>4. h[1] = p.class.name /\ h[2] = p.type /\ h[3] = p.instance
  BY DEF HeaderData
<1>5. m_serializers["receiver"] = m_messages["receiver"]
  BY DEF TablesInv
<1>6. /\ \A t \in Types : \A x \in Data[t], i \in 0..Len(in) :
            Holds(in, i, serialize[t][x]) => IsReadFrom(in, t, x, i)
  BY ReadAsWritten
<1>. HIDE DEF h
<1>7. /\ 0 \in 0..Len(in) /\ Len(in) \in Nat /\ Len(head) \in Nat /\ Len(body) \in Nat
      /\ Len(MessageBytes(p)) = Len(head) + Len(body)
  <2>. HIDE DEF head, body
  <2>. QED  BY <1>2, <1>3
<1>8. Holds(in, 0, head) /\ Holds(in, Len(head), body)
  <2>. DEFINE bytes == MessageBytes(p)
  <2>1. bytes = head \o body /\ \A k \in 1..Len(bytes) : 0 + k <= Len(in) => in[0 + k] = bytes[k]
    BY <1>3 DEF Holds
  <2>. HIDE DEF head, body, bytes
  <2>2. /\ \A k \in 1..Len(head) : bytes[k] = head[k]
        /\ \A k \in 1..Len(body) : bytes[Len(head) + k] = body[k]
        /\ Len(bytes) = Len(head) + Len(body)
    BY <1>2, <2>1
  <2>3. ASSUME NEW k \in 1..Len(head), 0 + k <= Len(in) PROVE in[0 + k] = head[k]
    BY <1>7, <2>1, <2>2, <2>3
  <2>4. ASSUME NEW k \in 1..Len(body), Len(head) + k <= Len(in)
        PROVE  in[Len(head) + k] = body[k]
    <3>1. Len(head) + k \in 1..Len(bytes) /\ 0 + (Len(head) + k) = Len(head) + k
      BY <1>7, <2>2
    <3>. QED  BY <2>1, <2>2, <2>4, <3>1
  <2>. QED  BY <2>3, <2>4 DEF Holds
<1>9. IsReadFrom(in, HeaderType, h, 0)
  BY <1>1, <1>6, <1>7, <1>8
<1>10. CASE ~(Len(head) <= Len(in))
  <2>1. ~(0 + Len(head) <= Len(in)) /\ ~(Len(MessageBytes(p)) <= Len(in))
    <3>. HIDE DEF head, body
    <3>. QED  BY <1>7, <1>10
  <2>2. header.next = Overflow
    BY <1>9, <2>1 DEF IsReadFrom
  <2>3. deserializeMessage(in) = Thrown("BufferOverflowException")
    BY <2>2 DEF deserializeMessage, Header
  <2>. QED  BY <2>1, <2>3
<1>11. CASE Len(head) <= Len(in)
  <2>1. 0 + Len(head) <= Len(in) /\ 0 + Len(head) = Len(head) /\ Len(head) \in 0..Len(in)
    <3>. HIDE DEF head, body
    <3>. QED  BY <1>7, <1>11
  <2>2. header = Read(h, Len(head))
    BY <1>9, <2>1 DEF IsReadFrom
  <2>3. header.next = Len(head) /\ header.data = h
    BY <2>2 DEF Read
  <2>4. Len(head) # Overflow
    <3>. HIDE DEF head
    <3>. QED  BY <1>7 DEF Overflow
  <2>5. IsReadFrom(in, type, p.data, Len(head))
    <3>. HIDE DEF head
    <3>. QED  BY <1>1, <1>6, <1>8, <2>1
  <2>6. IF data.next = Overflow THEN deserializeMessage(in) = Thrown("BufferOverflowException")
        ELSE deserializeMessage(in) =
                [result |-> "ok",
                 packet |-> [class |-> p.class, type |-> p.type, instance |-> p.instance,
                             data |-> data.data]]
    <3>1. Header(in) = header /\ header.next # Overflow
      BY <2>3, <2>4 DEF Header
    <3>2. /\ header.data[1] = p.class.name
          /\ header.data[2] = p.type
          /\ header.data[3] = p.instance
      BY <1>4, <2>3
    <3>3. /\ m_messages["receiver"][header.data[1]] = p.class
          /\ m_serializers["receiver"][header.data[1]].data = type
          /\ header.data[1] \in DOMAIN m_messages["receiver"]
      BY <1>5, <3>2
    <3>4. deserialize(in)[m_serializers["receiver"][header.data[1]].data][header.next] = data
      BY <3>3
    <3>. HIDE DEF header, type, data, d
    <3>. QED  BY <3>1, <3>2, <3>3, <3>4 DEF deserializeMessage
  <2>7. CASE Len(MessageBytes(p)) <= Len(in)
    <3>1. Len(head) + Len(body) <= Len(in) /\ Len(head) + Len(body) # Overflow
      <4>. HIDE DEF head, body
      <4>. QED  BY <1>7, <2>7 DEF Overflow
    <3>2. data = Read(p.data, Len(head) + Len(body))
      BY <2>3, <2>5, <3>1 DEF IsReadFrom
    <3>. HIDE DEF data, head, body
    <3>3. data.data = p.data /\ data.next # Overflow
      BY <3>1, <3>2 DEF Read
    <3>. QED  BY <1>1, <2>6, <2>7, <3>3
  <2>8. CASE ~(Len(MessageBytes(p)) <= Len(in))
    <3>1. ~(Len(head) + Len(body) <= Len(in))
      <4>. HIDE DEF head, body
      <4>. QED  BY <1>7, <2>8
    <3>2. data.next = Overflow
      BY <2>3, <2>5, <3>1 DEF IsReadFrom
    <3>. QED  BY <2>6, <2>8, <3>2
  <2>. QED  BY <2>7, <2>8
<1>. QED  BY <1>10, <1>11

\* What is received from where a packet begins is the packet, or is rejected.
LEMMA ReceiveSafe ==
  ASSUME CodecInv, NEW length \in 1..MaxMessageSize, Receive(length)
  PROVE  CodecInv'
<1>. DEFINE in == SubSeq(stream, position + 1, position + length)
            received == deserializeMessage(in)
<1>1. /\ position + length <= Len(stream)
      /\ last' = [call |-> "receive", begin |-> position, length |-> length,
                  result |-> received.result, packet |-> received.packet]
      /\ position' = position + length
      /\ UNCHANGED <<m_messages, m_serializers, stream, sent>>
  BY DEF Receive
<1>2. TablesInv /\ StreamInv /\ length \in Nat /\ sent \in Seq(SentPackets)
  BY FactoryAssumption DEF CodecInv, StreamInv
<1>3. TablesInv'
  BY <1>1 DEF CodecInv, TablesInv
<1>4. StreamInv'
  BY <1>1, <1>2 DEF StreamInv, InStream
<1>5. BufferIsExact'
  BY <1>1 DEF BufferIsExact
<1>6. ASSUME NEW i \in DOMAIN sent,
             ReceivedAt(sent[i])', sent[i].packet.class.name \in DOMAIN m_messages["receiver"],
             m_messages["receiver"][sent[i].packet.class.name] = sent[i].packet.class
      PROVE  /\ last'.length >= SizeOf(sent[i]) => last'.packet = sent[i].packet
             /\ last'.length < SizeOf(sent[i]) => last'.result = "BufferOverflowException"
  <2>. DEFINE p == sent[i].packet
              size == Len(MessageBytes(p))
  <2>1. i \in 1..Len(sent) /\ position = sent[i].begin /\ last'.length = length
    BY <1>1, <1>2, <1>6 DEF ReceivedAt
  <2>2. in \in Seq(Byte) /\ Len(in) = length /\ IsPacket(p) /\ Holds(in, 0, MessageBytes(p))
    <3>. HIDE DEF in
    <3>. QED  BY <1>1, <1>2, <2>1, PacketHeld DEF in
  <2>3. received = IF size <= length THEN [result |-> "ok", packet |-> p]
                   ELSE Thrown("BufferOverflowException")
    <3>. HIDE DEF in, p
    <3>1. /\ p.class.name \in DOMAIN m_messages["receiver"]
          /\ m_messages["receiver"][p.class.name] = p.class
      BY <1>6 DEF p
    <3>. QED  BY <1>2, <2>2, <3>1, PacketRead
  <2>4. size \in Nat
    <3>1. MessageBytes(p) \in Seq(Byte)
      BY <2>2, MessageSize
    <3>. QED  BY <3>1
  <2>5. last'.packet = received.packet /\ last'.result = received.result
    BY <1>1
  <2>6. SizeOf(sent[i]) = size
    BY DEF SizeOf
  <2>. HIDE DEF received, size, p
  <2>7. CASE size <= length
    <3>1. last'.packet = p
      BY <2>3, <2>5, <2>7
    <3>2. ~(length < size)
      BY <1>2, <2>4, <2>7
    <3>. QED  BY <2>1, <2>6, <3>1, <3>2 DEF p
  <2>8. CASE ~(size <= length)
    <3>1. last'.result = "BufferOverflowException"
      BY <2>3, <2>5, <2>8 DEF Thrown
    <3>2. ~(length >= size)
      BY <1>2, <2>4, <2>8
    <3>. QED  BY <2>1, <2>6, <3>1, <3>2
  <2>. QED  BY <2>7, <2>8
<1>. HIDE DEF received, in
<1>7. sent' = sent /\ m_messages' = m_messages
  BY <1>1
<1>8. DeliveredAsSent'
  BY <1>6, <1>7 DEF DeliveredAsSent, SizeOf
<1>9. PartIsRejected'
  BY <1>6, <1>7 DEF PartIsRejected, SizeOf
<1>. QED  BY <1>3, <1>4, <1>5, <1>8, <1>9 DEF CodecInv, ReadInv

\* Every step keeps the invariant.
LEMMA CodecStep == CodecInv /\ [Next]_vars => CodecInv'
<1>. SUFFICES ASSUME CodecInv, [Next]_vars PROVE CodecInv'
  OBVIOUS
<1>1. ASSUME NEW side \in Sides, NEW registry \in Registries, RegisterMessages(side, registry)
      PROVE  CodecInv'
  BY <1>1, RegisterSafe
<1>2. ASSUME NEW i \in DOMAIN Packets, Send(Packets[i]) \/ SendThrows(Packets[i])
      PROVE  CodecInv'
  <2>1. IsPacket(Packets[i])
    BY DEF IsPacket
  <2>. QED  BY <1>2, <2>1, SendSafe, SendThrowsSafe
<1>3. ASSUME NEW length \in 1..MaxMessageSize, Receive(length) PROVE CodecInv'
  BY <1>3, ReceiveSafe
<1>4. CASE UNCHANGED vars
  <2>1. TablesInv' /\ StreamInv'
    BY <1>4 DEF vars, CodecInv, TablesInv, StreamInv, InStream
  <2>2. ReadInv'
    BY <1>4 DEF vars, CodecInv, ReadInv, BufferIsExact, DeliveredAsSent, PartIsRejected, ReceivedAt
  <2>. QED  BY <2>1, <2>2 DEF CodecInv
<1>. QED  BY <1>1, <1>2, <1>3, <1>4 DEF Next

\* The classes in m_messages and m_serializers are always the same, every packet sent
\* is in the stream where it begins, and the last call has kept its promise.
THEOREM CodecSafe == Spec => []CodecInv
BY CodecInit, CodecStep, PTL DEF Spec

\* MessageFactory::getSize announces what MessageSerializer::serialize appends: a buffer
\* is sent full and overflows only if the message is larger than m_bufferSize, for all
\* types of data.
THEOREM BufferExact == Spec => []BufferIsExact
<1>1. CodecInv => BufferIsExact
  BY DEF CodecInv, ReadInv
<1>. QED  BY <1>1, CodecSafe, PTL

\* MessageFactory::deserialize delivers every packet that a read() returns whole as it
\* was sent, with its recipient, if its class is registered, for all types of data.
THEOREM PacketsDelivered == Spec => []DeliveredAsSent
<1>1. CodecInv => DeliveredAsSent
  BY DEF CodecInv, ReadInv
<1>. QED  BY <1>1, CodecSafe, PTL

\* MessageFactory::deserialize delivers nothing from a packet that a read() returns in
\* part: InputBuffer::nextValue throws, wherever in the nested data the buffer ends.
THEOREM PartsRejected == Spec => []PartIsRejected
<1>1. CodecInv => PartIsRejected
  BY DEF CodecInv, ReadInv
<1>. QED  BY <1>1, CodecSafe, PTL
=============================================================================
