--------------------------- MODULE ContextProofs ---------------------------
(* Beans and contexts.  First the manager's invariants, for any beans and any *)
(* code that uses them: what getBean, registration, constructors and handlers *)
(* each preserve, and hence the manager on its own.  Then assembling a        *)
(* context: the manager's invariants hold throughout, and no configuration is *)
(* active whose resources were not there before it.                           *)
EXTENDS Context, SequenceTheorems, FiniteSetTheorems, WellFoundedInduction, TLAPS
-----------------------------------------------------------------------------
(* BeanManager.                                                            *)

\* The state's shape, and the inductive invariant of the manager.
Shape ==
    /\ DOMAIN m_repo \subseteq Names
    /\ m_beanNameStack \in Seq(DOMAIN m_repo) /\ calls \in Seq(DOMAIN m_repo)
    /\ made \in [Names -> Nat] /\ unwound \in BOOLEAN
    /\ \A n \in Names \ DOMAIN m_repo : made[n] = 0

BeanInv == Shape /\ CallsOnStack /\ NeverReentered /\ SingletonOnce /\ StackIsCallStack

\* A step that leaves the manager's own state alone.
Untouched == UNCHANGED <<m_repo, m_beanNameStack, calls, made, unwound>>

\* What Pop does to a stack.
LEMMA PopStack ==
    ASSUME NEW S, NEW s \in Seq(S), s # <<>>
    PROVE  /\ Len(s) \in Nat \ {0} /\ s[Len(s)] \in S
           /\ Pop(s) \in Seq(S) /\ Len(Pop(s)) = Len(s) - 1
           /\ \A i \in 1 .. Len(s) - 1 : Pop(s)[i] = s[i]
  <1>1. Len(s) \in Nat \ {0}
    BY EmptySeq
  <1>2. \A i \in 1 .. Len(s) : s[i] \in S
    BY ElementOfSeq
  <1>3. \A i \in 1 .. Len(s) - 1 : s[i] \in S
    BY <1>1, <1>2
  <1>4. /\ Pop(s) \in Seq(S)
        /\ Len(Pop(s)) = IF 1 <= Len(s) - 1 THEN Len(s) - 1 - 1 + 1 ELSE 0
        /\ \A i \in 1 .. Len(s) - 1 - 1 + 1 : Pop(s)[i] = s[1 + i - 1]
    BY <1>1, <1>3, SubSeqProperties DEF Pop
  <1>5. Len(Pop(s)) = Len(s) - 1
    <2>. DEFINE last == Len(s)
                l == Len(Pop(s))
    <2>1. last \in Nat \ {0} /\ l = IF 1 <= last - 1 THEN last - 1 - 1 + 1 ELSE 0
      BY <1>1, <1>4
    <2>. HIDE DEF last, l
    <2>2. l = last - 1
      BY <2>1
    <2>. QED  BY <2>2 DEF last, l
  <1>6. ASSUME NEW i \in 1 .. Len(s) - 1 PROVE Pop(s)[i] = s[i]
    <2>1. i \in 1 .. Len(s) - 1 - 1 + 1 /\ 1 + i - 1 = i
      BY <1>1
    <2>. QED  BY <1>4, <2>1
  <1>7. s[Len(s)] \in S
    BY <1>1, <1>2
  <1>. QED  BY <1>1, <1>4, <1>5, <1>6, <1>7

\* What Append does to a stack.
LEMMA PushStack ==
    ASSUME NEW S, NEW s \in Seq(S), NEW x \in S
    PROVE  /\ Append(s, x) \in Seq(S) /\ Len(Append(s, x)) = Len(s) + 1 /\ Len(s) \in Nat
           /\ \A i \in 1 .. Len(s) : Append(s, x)[i] = s[i]
           /\ Append(s, x)[Len(s) + 1] = x
  BY AppendProperties

\* Nothing the invariant is about changes (refusals, ready beans, handlers).
LEMMA UntouchedKeeps == BeanInv /\ Untouched => BeanInv'
  BY DEF BeanInv, Untouched, Shape, CallsOnStack, NeverReentered, SingletonOnce, StackIsCallStack

\* The manager starts empty.
LEMMA BeanInitInv == BeanInit => BeanInv
  <1>. SUFFICES ASSUME BeanInit PROVE BeanInv
    OBVIOUS
  <1>1. /\ calls = <<>> /\ m_beanNameStack = <<>> /\ m_repo = <<>>
        /\ unwound = FALSE /\ Len(calls) = 0 /\ Len(m_beanNameStack) = 0
    BY DEF BeanInit
  <1>2. DOMAIN m_repo = {}
    BY <1>1
  <1>3. made \in [Names -> Nat] /\ \A n \in Names : made[n] = 0
    BY DEF BeanInit
  <1>4. calls \in Seq({}) /\ m_beanNameStack \in Seq({})
    BY <1>1
  <1>5. Shape
    BY <1>1, <1>2, <1>3, <1>4 DEF Shape
  <1>. QED
    BY <1>1, <1>3, <1>5 DEF BeanInv, CallsOnStack, NeverReentered, SingletonOnce, StackIsCallStack

\* A new bean was never made, and is nobody's constructor in progress.
LEMMA RegisterAddedKeeps ==
    ASSUME NEW n, NEW provider, BeanInv, RegisterAdded(n, provider)
    PROVE  BeanInv'
  <1>1. /\ n \in Names /\ n \notin DOMAIN m_repo /\ made[n] = 0
        /\ DOMAIN m_repo' = DOMAIN m_repo \cup {n}
        /\ \A m \in DOMAIN m_repo : m_repo'[m] = m_repo[m]
        /\ UNCHANGED <<m_beanNameStack, calls, unwound>>
    BY DEF RegisterAdded, containsBean, BeanInv, Shape
  <1>2. /\ made' \in [Names -> Nat]
        /\ \A m \in Names : m # n => made'[m] = made[m]
        /\ made'[n] \in {0, 1}
    BY <1>1 DEF RegisterAdded, BeanInv, Shape
  <1>3. Shape'
    BY <1>1, <1>2 DEF BeanInv, Shape
  <1>4. SingletonOnce'
    <2>1. \A i \in 1 .. Len(calls) : calls[i] \in DOMAIN m_repo
      BY DEF BeanInv, Shape
    <2>2. \A i \in 1 .. Len(calls) : made'[calls[i]] = made[calls[i]] /\ m_repo'[calls[i]] = m_repo[calls[i]]
      BY <1>1, <1>2, <2>1 DEF BeanInv, Shape
    <2>3. \A m \in Names : made'[m] <= 1
      BY <1>2 DEF BeanInv, SingletonOnce
    <2>. QED  BY <1>1, <2>2, <2>3 DEF BeanInv, SingletonOnce
  <1>. QED  BY <1>1, <1>3, <1>4 DEF BeanInv, CallsOnStack, NeverReentered, StackIsCallStack

\* A name left on the stack hides nothing that is below it.
LEMMA GetCycleKeeps ==
    ASSUME NEW n, BeanInv, GetCycle(n)
    PROVE  BeanInv'
  <1>1. /\ n \in DOMAIN m_repo /\ unwound' = TRUE
        /\ m_beanNameStack' = Append(m_beanNameStack, n)
        /\ UNCHANGED <<m_repo, calls, made>>
    BY DEF GetCycle, containsBean
  <1>2. /\ m_beanNameStack' \in Seq(DOMAIN m_repo)
        /\ Len(m_beanNameStack') = Len(m_beanNameStack) + 1
        /\ \A i \in 1 .. Len(m_beanNameStack) : m_beanNameStack'[i] = m_beanNameStack[i]
    BY <1>1, PushStack DEF BeanInv, Shape
  <1>3. CallsOnStack'
    <2>1. Len(calls) \in Nat /\ Len(m_beanNameStack) \in Nat
      BY DEF BeanInv, Shape
    <2>2. ASSUME NEW i \in 1 .. Len(calls)
          PROVE  \E j \in 1 .. Len(m_beanNameStack') - Len(calls) + i : m_beanNameStack'[j] = calls[i]
      <3>1. PICK j \in 1 .. Len(m_beanNameStack) - Len(calls) + i : m_beanNameStack[j] = calls[i]
        BY DEF BeanInv, CallsOnStack
      <3>2. j \in 1 .. Len(m_beanNameStack) /\ j \in 1 .. Len(m_beanNameStack') - Len(calls) + i
        BY <1>2, <2>1
      <3>. QED  BY <1>2, <3>1, <3>2
    <2>3. Len(calls) <= Len(m_beanNameStack')
      BY <1>2, <2>1 DEF BeanInv, CallsOnStack
    <2>4. calls' = calls
      BY <1>1
    <2>. QED  BY <2>2, <2>3, <2>4 DEF CallsOnStack
  <1>4. Shape'
    BY <1>1, <1>2 DEF BeanInv, Shape
  <1>. QED  BY <1>1, <1>3, <1>4 DEF BeanInv, NeverReentered, SingletonOnce, StackIsCallStack

\* A bean whose name is not on the stack is not under construction.
LEMMA GetCreateKeeps ==
    ASSUME NEW n, NEW type, BeanInv, GetCreate(n, type)
    PROVE  BeanInv'
  <1>1. /\ n \in DOMAIN m_repo /\ ~OnStack(n) /\ MustCreate(n)
        /\ m_beanNameStack' = Append(m_beanNameStack, n) /\ calls' = Append(calls, n)
        /\ UNCHANGED <<m_repo, made, unwound>>
    BY DEF GetCreate, containsBean
  <1>2. /\ m_beanNameStack' \in Seq(DOMAIN m_repo)
        /\ Len(m_beanNameStack') = Len(m_beanNameStack) + 1
        /\ \A i \in 1 .. Len(m_beanNameStack) : m_beanNameStack'[i] = m_beanNameStack[i]
        /\ m_beanNameStack'[Len(m_beanNameStack) + 1] = n
    BY <1>1, PushStack DEF BeanInv, Shape
  <1>3. /\ calls' \in Seq(DOMAIN m_repo) /\ Len(calls') = Len(calls) + 1
        /\ \A i \in 1 .. Len(calls) : calls'[i] = calls[i]
        /\ calls'[Len(calls) + 1] = n
    BY <1>1, PushStack DEF BeanInv, Shape
  <1>4. Len(calls) \in Nat /\ Len(m_beanNameStack) \in Nat
    BY DEF BeanInv, Shape
  <1>5. CallsOnStack'
    <2>1. ASSUME NEW i \in 1 .. Len(calls')
          PROVE  \E j \in 1 .. Len(m_beanNameStack') - Len(calls') + i : m_beanNameStack'[j] = calls'[i]
      <3>1. CASE i = Len(calls) + 1
        <4>1. Len(m_beanNameStack) + 1 \in 1 .. Len(m_beanNameStack') - Len(calls') + i
          BY <1>2, <1>3, <1>4, <3>1
        <4>. QED  BY <1>2, <1>3, <3>1, <4>1
      <3>2. CASE i \in 1 .. Len(calls)
        <4>1. PICK j \in 1 .. Len(m_beanNameStack) - Len(calls) + i : m_beanNameStack[j] = calls[i]
          BY <3>2 DEF BeanInv, CallsOnStack
        <4>2. j \in 1 .. Len(m_beanNameStack) /\ j \in 1 .. Len(m_beanNameStack') - Len(calls') + i
          BY <1>2, <1>3, <1>4, <3>2
        <4>. QED  BY <1>2, <1>3, <3>2, <4>1, <4>2
      <3>. QED  BY <1>3, <1>4, <3>1, <3>2
    <2>2. Len(calls') <= Len(m_beanNameStack')
      BY <1>2, <1>3, <1>4 DEF BeanInv, CallsOnStack
    <2>. QED  BY <2>1, <2>2 DEF CallsOnStack
  <1>6. ASSUME NEW i \in 1 .. Len(calls) PROVE calls[i] # n
    <2>1. PICK j \in 1 .. Len(m_beanNameStack) - Len(calls) + i : m_beanNameStack[j] = calls[i]
      BY DEF BeanInv, CallsOnStack
    <2>2. j \in 1 .. Len(m_beanNameStack)
      BY <1>4
    <2>. QED  BY <1>1, <2>1, <2>2 DEF OnStack
  <1>7. NeverReentered'
    BY <1>3, <1>4, <1>6 DEF BeanInv, NeverReentered
  <1>8. SingletonOnce'
    BY <1>1, <1>3, <1>4 DEF BeanInv, Shape, SingletonOnce, MustCreate
  <1>. QED  BY <1>1, <1>2, <1>3, <1>5, <1>7, <1>8 DEF BeanInv, Shape, StackIsCallStack

\* Both stacks lose their last element, and a pointer is made for the first time.
LEMMA CreatedKeeps == ASSUME BeanInv, Created PROVE BeanInv'
  <1>. DEFINE lc == Len(calls)
              ls == Len(m_beanNameStack)
  <1>1. calls \in Seq(DOMAIN m_repo) /\ calls # <<>> /\ lc \in Nat /\ lc >= 1
        /\ Top = calls[lc] /\ Top \in DOMAIN m_repo /\ Top \in Names
    BY PopStack DEF Created, BeanInv, Shape, Top
  <1>2. m_beanNameStack \in Seq(DOMAIN m_repo) /\ ls \in Nat /\ ls >= lc /\ m_beanNameStack # <<>>
    BY <1>1 DEF BeanInv, Shape, CallsOnStack
  <1>3. /\ calls' \in Seq(DOMAIN m_repo) /\ Len(calls') = lc - 1
        /\ \A i \in 1 .. lc - 1 : calls'[i] = calls[i]
    BY <1>1, PopStack DEF Created
  <1>4. /\ m_beanNameStack' \in Seq(DOMAIN m_repo) /\ Len(m_beanNameStack') = ls - 1
        /\ \A i \in 1 .. ls - 1 : m_beanNameStack'[i] = m_beanNameStack[i]
    BY <1>1, <1>2, PopStack DEF Created
  <1>5. /\ made' \in [Names -> Nat]
        /\ \A m \in Names : m # Top => made'[m] = made[m]
        /\ made'[Top] = made[Top] \/ (m_repo[Top].kind = "pointer" /\ made'[Top] = made[Top] + 1)
        /\ UNCHANGED <<m_repo, unwound>>
    BY <1>1 DEF Created, BeanInv, Shape
  <1>6. Shape'
    BY <1>1, <1>3, <1>4, <1>5 DEF BeanInv, Shape
  <1>7. CallsOnStack'
    <2>1. ASSUME NEW i \in 1 .. Len(calls')
          PROVE  \E j \in 1 .. Len(m_beanNameStack') - Len(calls') + i : m_beanNameStack'[j] = calls'[i]
      <3>1. i \in 1 .. lc /\ i \in 1 .. lc - 1
        BY <1>1, <1>3
      <3>2. PICK j \in 1 .. ls - lc + i : m_beanNameStack[j] = calls[i]
        BY <3>1 DEF BeanInv, CallsOnStack
      <3>3. j \in 1 .. ls - 1 /\ j \in 1 .. Len(m_beanNameStack') - Len(calls') + i
        BY <1>1, <1>2, <1>3, <1>4
      <3>. QED  BY <1>3, <1>4, <3>2, <3>3
    <2>2. Len(calls') <= Len(m_beanNameStack')
      BY <1>1, <1>2, <1>3, <1>4
    <2>. QED  BY <2>1, <2>2 DEF CallsOnStack
  <1>8. NeverReentered'
    BY <1>1, <1>3 DEF BeanInv, NeverReentered
  <1>9. SingletonOnce'
    <2>1. made'[Top] <= 1
      <3>1. lc \in 1 .. lc /\ made[Top] \in Nat /\ made[Top] <= 1
        BY <1>1 DEF BeanInv, SingletonOnce, Shape
      <3>2. m_repo[Top].kind = "pointer" => made[Top] = 0
        BY <1>1, <3>1 DEF BeanInv, SingletonOnce
      <3>. QED  BY <1>5, <3>1, <3>2
    <2>2. ASSUME NEW i \in 1 .. lc - 1
          PROVE  i \in 1 .. lc /\ calls[i] # Top /\ calls[i] \in Names
      <3>1. i \in 1 .. lc /\ lc \in 1 .. lc /\ i # lc
        BY <1>1
      <3>2. calls[i] # Top
        BY <1>1, <3>1 DEF BeanInv, NeverReentered
      <3>3. calls[i] \in DOMAIN m_repo
        BY <1>1, <3>1, ElementOfSeq
      <3>. QED  BY <3>1, <3>2, <3>3 DEF BeanInv, Shape
    <2>3. \A m \in Names : made'[m] <= 1
      BY <1>5, <2>1 DEF BeanInv, SingletonOnce
    <2>4. ASSUME NEW i \in 1 .. lc - 1, m_repo[calls[i]].kind \in {"pointer", "reference"}
          PROVE  made'[calls[i]] = 0
      BY <1>5, <2>2, <2>4 DEF BeanInv, SingletonOnce
    <2>. QED  BY <1>1, <1>3, <1>5, <2>3, <2>4 DEF SingletonOnce
  <1>10. StackIsCallStack'
    BY <1>5 DEF Created, BeanInv, StackIsCallStack
  <1>. QED  BY <1>6, <1>7, <1>8, <1>9, <1>10 DEF BeanInv

\* An exception leaves the name of the bean on the stack.
LEMMA ConstructorThrowsKeeps == ASSUME BeanInv, ConstructorThrows PROVE BeanInv'
  <1>1. calls \in Seq(DOMAIN m_repo) /\ calls # <<>> /\ Len(calls) \in Nat /\ Len(calls) >= 1
    BY PopStack DEF ConstructorThrows, BeanInv, Shape
  <1>2. /\ calls' \in Seq(DOMAIN m_repo) /\ Len(calls') = Len(calls) - 1
        /\ \A i \in 1 .. Len(calls) - 1 : calls'[i] = calls[i]
    BY <1>1, PopStack DEF ConstructorThrows
  <1>3. unwound' = TRUE /\ UNCHANGED <<m_repo, m_beanNameStack, made>>
    BY DEF ConstructorThrows
  <1>4. m_beanNameStack \in Seq(DOMAIN m_repo) /\ Len(m_beanNameStack) \in Nat
    BY DEF BeanInv, Shape
  <1>5. CallsOnStack'
    <2>1. ASSUME NEW i \in 1 .. Len(calls')
          PROVE  \E j \in 1 .. Len(m_beanNameStack) - Len(calls') + i : m_beanNameStack[j] = calls'[i]
      <3>1. i \in 1 .. Len(calls) /\ i \in 1 .. Len(calls) - 1
        BY <1>1, <1>2
      <3>2. PICK j \in 1 .. Len(m_beanNameStack) - Len(calls) + i : m_beanNameStack[j] = calls[i]
        BY <3>1 DEF BeanInv, CallsOnStack
      <3>3. j \in 1 .. Len(m_beanNameStack) - Len(calls') + i
        BY <1>1, <1>2, <1>4
      <3>. QED  BY <1>2, <3>2, <3>3
    <2>2. Len(calls') <= Len(m_beanNameStack)
      BY <1>1, <1>2, <1>4 DEF BeanInv, CallsOnStack
    <2>3. m_beanNameStack' = m_beanNameStack
      BY <1>3
    <2>. QED  BY <2>1, <2>2, <2>3 DEF CallsOnStack
  <1>6. Shape'
    BY <1>2, <1>3 DEF BeanInv, Shape
  <1>7. \A i \in 1 .. Len(calls) - 1 : i \in 1 .. Len(calls)
    BY <1>1
  <1>8. NeverReentered' /\ SingletonOnce'
    BY <1>2, <1>3, <1>7 DEF BeanInv, NeverReentered, SingletonOnce
  <1>. QED  BY <1>3, <1>5, <1>6, <1>8 DEF BeanInv, StackIsCallStack

\* The whole of getBean, for any name and type.
LEMMA GetBeanKeeps == ASSUME NEW n, NEW type, BeanInv, getBean(n, type) PROVE BeanInv'
  BY GetCycleKeeps, GetCreateKeeps, UntouchedKeeps
  DEF getBean, GetUnknown, GetWrongType, GetReady, Untouched

\* The whole of registerBean and registerBeanInstance.
LEMMA RegisterKeeps == ASSUME NEW n, NEW provider, BeanInv, Register(n, provider) PROVE BeanInv'
  BY RegisterAddedKeeps, UntouchedKeeps DEF Register, RegisterRefused, RegisterFails, Untouched

\* Any step of user code.
LEMMA UserKeeps == ASSUME BeanInv, UserCall \/ Constructor \/ Catch PROVE BeanInv'
  BY GetBeanKeeps, RegisterKeeps, CreatedKeeps, ConstructorThrowsKeeps, UntouchedKeeps
  DEF UserCall, Constructor, Catch, Untouched

\* The manager on its own: getBean keeps every bean under construction on its
\* stack, whatever constructors call, throw and catch; so it never constructs a
\* bean inside itself, and makes a singleton once.
THEOREM ManagerSafe == BeanSpec => [](CallsOnStack /\ NeverReentered /\ SingletonOnce)
  <1>1. BeanInv /\ [BeanNext]_beanVars => BeanInv'
    BY UserKeeps, UntouchedKeeps DEF BeanNext, beanVars, Untouched
  <1>2. BeanInv => CallsOnStack /\ NeverReentered /\ SingletonOnce
    BY DEF BeanInv
  <1>. QED  BY <1>1, <1>2, BeanInitInv, PTL DEF BeanSpec
-----------------------------------------------------------------------------
(* What registerConfiguration pushes.                                      *)

\* Induction on natural numbers, for a set of numbers.
LEMMA NumberInduction ==
    ASSUME NEW P, 0 \in P, \A n \in Nat : n \in P => n + 1 \in P
    PROVE  \A n \in Nat : n \in P
  <1>1. SUFFICES ASSUME Nat \ P # {} PROVE FALSE
    OBVIOUS
  <1>2. PICK least \in Nat \ P : \A y \in Nat \ P : ~(<<y, least>> \in OpToRel(<, Nat))
    BY <1>1, WFMin, NatLessThanWellFounded
  <1>3. /\ least - 1 \in Nat /\ least - 1 < least /\ (least - 1) + 1 = least
        /\ <<least - 1, least>> \in OpToRel(<, Nat)
    <2>1. least \in Nat /\ least # 0
      BY <1>2
    <2>2. least - 1 \in Nat /\ least - 1 < least /\ (least - 1) + 1 = least
      BY <2>1
    <2>. QED  BY <2>1, <2>2 DEF OpToRel
  <1>4. least - 1 \in P
    BY <1>2, <1>3
  <1>. QED  BY <1>2, <1>3, <1>4

\* A loop that appends lists, from a first one, ends with a list.
IsJoined(w, n, a, x) == w = [i \in 0 .. n |-> IF i = 0 THEN a ELSE w[i - 1] \o x[i]]

\* Such a loop has a result.
LEMMA JoinedExists ==
    ASSUME NEW S, NEW n \in Nat, NEW a \in Seq(S), NEW x \in [1 .. n -> Seq(S)]
    PROVE  \E w : IsJoined(w, n, a, x)
  <1>. DEFINE P == {m \in Nat : m <= n => \E w : IsJoined(w, m, a, x)}
  <1>1. 0 \in P
    <2>1. IsJoined([i \in 0 .. 0 |-> a], 0, a, x)
      BY DEF IsJoined
    <2>. QED  BY <2>1
  <1>2. ASSUME NEW m \in Nat, m \in P PROVE m + 1 \in P
    <2>1. SUFFICES ASSUME m + 1 <= n PROVE \E w : IsJoined(w, m + 1, a, x)
      OBVIOUS
    <2>2. PICK w : IsJoined(w, m, a, x)
      BY <1>2, <2>1
    <2>. DEFINE u == [i \in 0 .. m + 1 |-> IF i = m + 1 THEN w[m] \o x[m + 1] ELSE w[i]]
    <2>3. ASSUME NEW i \in 0 .. m + 1 PROVE u[i] = IF i = 0 THEN a ELSE u[i - 1] \o x[i]
      <3>1. CASE i = m + 1
        <4>1. i # 0 /\ i - 1 = m /\ m \in 0 .. m + 1 /\ m # m + 1
          BY <3>1
        <4>2. u[i] = w[m] \o x[m + 1] /\ u[m] = w[m]
          BY <3>1, <4>1
        <4>. HIDE DEF u
        <4>. QED  BY <3>1, <4>1, <4>2
      <3>2. CASE i # m + 1
        <4>1. i \in 0 .. m /\ (i # 0 => i - 1 \in 0 .. m + 1 /\ i - 1 # m + 1)
          BY <3>2
        <4>2. u[i] = w[i] /\ (i # 0 => u[i - 1] = w[i - 1])
          BY <3>2, <4>1
        <4>3. w[i] = IF i = 0 THEN a ELSE w[i - 1] \o x[i]
          BY <2>2, <4>1 DEF IsJoined
        <4>. QED  BY <4>2, <4>3
      <3>. QED  BY <3>1, <3>2
    <2>4. u = [i \in 0 .. m + 1 |-> u[i]]
      OBVIOUS
    <2>. HIDE DEF u
    <2>5. IsJoined(u, m + 1, a, x)
      BY <2>3, <2>4 DEF IsJoined
    <2>. QED  BY <2>5
  <1>3. n \in P
    <2>. HIDE DEF P
    <2>. QED  BY <1>1, <1>2, NumberInduction
  <1>. QED  BY <1>3

\* It is a list.
LEMMA JoinedType ==
    ASSUME NEW S, NEW n \in Nat, NEW a \in Seq(S), NEW x \in [1 .. n -> Seq(S)],
           NEW w, IsJoined(w, n, a, x)
    PROVE  w[n] \in Seq(S)
  <1>. DEFINE P == {m \in Nat : m <= n => w[m] \in Seq(S)}
  <1>1. 0 \in P
    BY DEF IsJoined
  <1>2. ASSUME NEW m \in Nat, m \in P PROVE m + 1 \in P
    <2>1. SUFFICES ASSUME m + 1 <= n PROVE w[m + 1] \in Seq(S)
      OBVIOUS
    <2>2. m + 1 \in 1 .. n /\ m + 1 \in 0 .. n /\ (m + 1) - 1 = m /\ m <= n /\ m + 1 # 0
      BY <2>1
    <2>3. w[m + 1] = w[m] \o x[m + 1]
      BY <2>2 DEF IsJoined
    <2>4. w[m] \in Seq(S) /\ x[m + 1] \in Seq(S)
      BY <1>2, <2>2
    <2>. QED  BY <2>3, <2>4
  <1>3. n \in P
    <2>. HIDE DEF P
    <2>. QED  BY <1>1, <1>2, NumberInduction
  <1>. QED  BY <1>3

\* What is pushed for the class c, with the lists of g for its dependencies, while the
\* classes of loading are being registered.
Pushed(g, d, loading, c) ==
    LET deps == d[c].dependencies
        Upto[i \in 0 .. Len(deps)] ==
            IF i = 0 THEN <<c>> ELSE Upto[i - 1] \o g[loading \cup {c}][deps[i]]
    IN IF c \in loading THEN <<c>> ELSE Upto[Len(deps)]

\* Lists of classes, for the classes of a program.
Lists == [Configs -> Seq(Configs)]

\* What is pushed is a list, and depends on what is pushed while c too is being registered.
LEMMA PushedList ==
    ASSUME NEW d \in Declarations, NEW loading \in SUBSET Configs, NEW c \in Configs, NEW g,
           c \notin loading => g[loading \cup {c}] \in Lists
    PROVE  /\ Pushed(g, d, loading, c) \in Seq(Configs)
           /\ \A h : (c \notin loading => h[loading \cup {c}] = g[loading \cup {c}]) =>
                 Pushed(h, d, loading, c) = Pushed(g, d, loading, c)
  <1>. DEFINE deps == d[c].dependencies
              n == Len(deps)
              x == [i \in 1 .. n |-> g[loading \cup {c}][deps[i]]]
  <1>1. deps \in Seq(Configs)
    BY ContextAssumption DEF Declaration
  <1>2. CASE c \in loading
    <2>1. \A h : Pushed(h, d, loading, c) = <<c>>
      BY <1>2 DEF Pushed
    <2>2. <<c>> \in Seq(Configs)
      OBVIOUS
    <2>. QED  BY <2>1, <2>2
  <1>3. CASE c \notin loading
    <2>1. n \in Nat /\ x \in [1 .. n -> Seq(Configs)] /\ <<c>> \in Seq(Configs)
      <3>1. g[loading \cup {c}] \in [Configs -> Seq(Configs)]
        BY <1>3 DEF Lists
      <3>2. n \in Nat /\ \A i \in 1 .. n : deps[i] \in Configs
        BY <1>1
      <3>3. ASSUME NEW i \in 1 .. n PROVE g[loading \cup {c}][deps[i]] \in Seq(Configs)
        <4>. HIDE DEF n, deps
        <4>. QED  BY <3>1, <3>2
      <3>4. <<c>> \in Seq(Configs)
        OBVIOUS
      <3>. HIDE DEF n, deps
      <3>. QED  BY <3>2, <3>3, <3>4
    <2>2. ASSUME NEW h, h[loading \cup {c}] = g[loading \cup {c}]
          PROVE  Pushed(h, d, loading, c) = (CHOOSE w : IsJoined(w, n, <<c>>, x))[n]
      <3>. DEFINE IsUpto(w) ==
                      w = [i \in 0 .. n |-> IF i = 0 THEN <<c>>
                                            ELSE w[i - 1] \o h[loading \cup {c}][deps[i]]]
      <3>1. Pushed(h, d, loading, c) = (CHOOSE w : IsUpto(w))[n]
        BY <1>3 DEF Pushed
      <3>2. ASSUME NEW w PROVE IsUpto(w) <=> IsJoined(w, n, <<c>>, x)
        <4>1. ASSUME NEW i \in 0 .. n
              PROVE  (IF i = 0 THEN <<c>> ELSE w[i - 1] \o h[loading \cup {c}][deps[i]])
                       = (IF i = 0 THEN <<c>> ELSE w[i - 1] \o x[i])
          BY <2>2
        <4>2. [i \in 0 .. n |-> IF i = 0 THEN <<c>> ELSE w[i - 1] \o h[loading \cup {c}][deps[i]]]
                = [i \in 0 .. n |-> IF i = 0 THEN <<c>> ELSE w[i - 1] \o x[i]]
          <5>. HIDE DEF x, n
          <5>. QED  BY <4>1
        <4>. QED  BY <4>2 DEF IsJoined
      <3>. HIDE DEF IsUpto
      <3>3. (CHOOSE w : IsUpto(w)) = (CHOOSE w : IsJoined(w, n, <<c>>, x))
        BY <3>2, Zenon
      <3>. QED  BY <3>1, <3>3
    <2>3. \E w : IsJoined(w, n, <<c>>, x)
      <3>. HIDE DEF n, x
      <3>. QED  BY <2>1, JoinedExists
    <2>. DEFINE u == CHOOSE w : IsJoined(w, n, <<c>>, x)
    <2>4. IsJoined(u, n, <<c>>, x)
      <3>. HIDE DEF n, x
      <3>. QED  BY <2>3
    <2>5. u[n] \in Seq(Configs)
      <3>. HIDE DEF n, x, u
      <3>. QED  BY <2>1, <2>4, JoinedType
    <2>6. Pushed(g, d, loading, c) = u[n]
      BY <2>2
    <2>. HIDE DEF u, n, x
    <2>. QED  BY <1>3, <2>2, <2>5, <2>6 DEF u
  <1>. QED  BY <1>2, <1>3

\* The number of classes that are not being registered.
Rest(loading) == Cardinality(Configs \ loading)

\* There are finitely many, and one less when a class is being registered.
LEMMA RestShrinks ==
    /\ \A loading \in SUBSET Configs : Rest(loading) \in Nat /\ Rest(loading) <= Rest({})
    /\ \A loading \in SUBSET Configs : \A c \in Configs \ loading :
          Rest(loading \cup {c}) < Rest(loading)
  <1>1. ASSUME NEW loading \in SUBSET Configs
        PROVE  Rest(loading) \in Nat /\ Rest(loading) <= Rest({})
    <2>1. Configs \ loading \subseteq Configs /\ Configs \ {} = Configs
      OBVIOUS
    <2>. QED  BY <2>1, ContextAssumption, FS_Subset, FS_CardinalityType DEF Rest
  <1>2. ASSUME NEW loading \in SUBSET Configs, NEW c \in Configs \ loading
        PROVE  Rest(loading \cup {c}) < Rest(loading)
    <2>1. IsFiniteSet(Configs \ loading)
      BY ContextAssumption, FS_Subset
    <2>2. Configs \ (loading \cup {c}) = (Configs \ loading) \ {c}
      OBVIOUS
    <2>3. Cardinality((Configs \ loading) \ {c}) = Cardinality(Configs \ loading) - 1
      BY <2>1, FS_RemoveElement
    <2>4. Rest(loading) \in Nat
      BY <1>1
    <2>5. Rest(loading \cup {c}) = Rest(loading) - 1
      BY <2>2, <2>3 DEF Rest
    <2>. QED  BY <2>4, <2>5
  <1>. QED  BY <1>1, <1>2

\* registerConfiguration with its dependencies pushes a list of classes: by induction on
\* the classes that are not being registered, of which each call of the macro leaves one less.
LEMMA DependenciesList ==
    ASSUME NEW d \in Declarations
    PROVE  WithDependencies(d) \in [Configs -> Seq(Configs)]
  <1>. DEFINE Body(g, loading) == [c \in Configs |-> Pushed(g, d, loading, c)]
              Up(n, g) == \A loading \in SUBSET Configs :
                             Rest(loading) < n => g[loading] = Body(g, loading)
              Q == {n \in Nat : \E g \in [SUBSET Configs -> Lists] : Up(n, g)}
              IsWith(f) == f = [loading \in SUBSET Configs |-> Body(f, loading)]
  <1>1. ASSUME NEW g, NEW loading \in SUBSET Configs,
               \A c \in Configs \ loading : g[loading \cup {c}] \in Lists
        PROVE  Body(g, loading) \in Lists
    <2>1. ASSUME NEW c \in Configs PROVE Pushed(g, d, loading, c) \in Seq(Configs)
      <3>1. c \notin loading => g[loading \cup {c}] \in Lists
        BY <1>1
      <3>. QED  BY <3>1, PushedList
    <2>. QED  BY <2>1 DEF Lists
  <1>2. ASSUME NEW g, NEW h, NEW loading \in SUBSET Configs,
               \A c \in Configs \ loading :
                  g[loading \cup {c}] \in Lists /\ h[loading \cup {c}] = g[loading \cup {c}]
        PROVE  Body(h, loading) = Body(g, loading)
    <2>1. ASSUME NEW c \in Configs PROVE Pushed(h, d, loading, c) = Pushed(g, d, loading, c)
      <3>1. /\ c \notin loading => g[loading \cup {c}] \in Lists
            /\ c \notin loading => h[loading \cup {c}] = g[loading \cup {c}]
        BY <1>2
      <3>. QED  BY <3>1, PushedList
    <2>. QED  BY <2>1
  <1>. HIDE DEF Body
  <1>3. ASSUME NEW loading \in SUBSET Configs, NEW c \in Configs
        PROVE  loading \cup {c} \in SUBSET Configs
    OBVIOUS
  <1>4. 0 \in Q
    <2>1. [loading \in SUBSET Configs |-> [c \in Configs |-> <<>>]] \in [SUBSET Configs -> Lists]
      BY DEF Lists
    <2>2. \A g : Up(0, g)
      BY RestShrinks
    <2>. HIDE DEF Up
    <2>. QED  BY <2>1, <2>2
  <1>5. ASSUME NEW n \in Nat, n \in Q PROVE n + 1 \in Q
    <2>1. PICK g \in [SUBSET Configs -> Lists] : Up(n, g)
      BY <1>5
    <2>. DEFINE h == [loading \in SUBSET Configs |->
                         IF Rest(loading) = n THEN Body(g, loading) ELSE g[loading]]
    <2>2. \A loading \in SUBSET Configs : Body(g, loading) \in Lists
      BY <1>1, <1>3
    <2>3. h \in [SUBSET Configs -> Lists]
      BY <2>2
    <2>4. ASSUME NEW loading \in SUBSET Configs, Rest(loading) < n + 1
          PROVE  h[loading] = Body(h, loading)
      <3>1. ASSUME NEW c \in Configs \ loading
            PROVE  /\ g[loading \cup {c}] \in Lists
                   /\ h[loading \cup {c}] = g[loading \cup {c}]
        <4>1. loading \cup {c} \in SUBSET Configs
          BY <1>3
        <4>2. Rest(loading \cup {c}) # n
          BY <2>4, <4>1, RestShrinks
        <4>. QED  BY <4>1, <4>2
      <3>2. Body(h, loading) = Body(g, loading)
        <4>. HIDE DEF h
        <4>. QED  BY <1>2, <3>1
      <3>3. CASE Rest(loading) = n
        <4>1. h[loading] = Body(g, loading)
          BY <3>3
        <4>. QED  BY <3>2, <4>1
      <3>4. CASE Rest(loading) # n
        <4>1. Rest(loading) < n
          BY <2>4, <3>4, RestShrinks
        <4>2. h[loading] = g[loading] /\ g[loading] = Body(g, loading)
          BY <2>1, <3>4, <4>1
        <4>. QED  BY <3>2, <4>2
      <3>. QED  BY <3>3, <3>4
    <2>. HIDE DEF h
    <2>5. Up(n + 1, h)
      BY <2>4
    <2>. HIDE DEF Up
    <2>. QED  BY <2>3, <2>5
  <1>6. Rest({}) + 1 \in Q
    <2>1. \A n \in Nat : n \in Q
      <3>. HIDE DEF Q
      <3>. QED  BY <1>4, <1>5, NumberInduction
    <2>2. Rest({}) + 1 \in Nat
      BY RestShrinks
    <2>. HIDE DEF Q
    <2>. QED  BY <2>1, <2>2
  <1>7. PICK f \in [SUBSET Configs -> Lists] : Up(Rest({}) + 1, f)
    <2>. HIDE DEF Up
    <2>. QED  BY <1>6
  <1>8. IsWith(f)
    <2>1. ASSUME NEW loading \in SUBSET Configs PROVE f[loading] = Body(f, loading)
      <3>1. Rest(loading) < Rest({}) + 1
        BY RestShrinks
      <3>. QED  BY <1>7, <3>1
    <2>. QED  BY <2>1
  <1>. DEFINE With == CHOOSE g : IsWith(g)
  <1>9. WithDependencies(d) = With[{}]
    BY DEF WithDependencies, Body, Pushed
  <1>10. IsWith(With)
    <2>. HIDE DEF IsWith
    <2>. QED  BY <1>8
  <1>11. \A loading \in SUBSET Configs : With[loading] = Body(With, loading)
    <2>1. With = [loading \in SUBSET Configs |-> Body(With, loading)]
      BY <1>10
    <2>. HIDE DEF With
    <2>. QED  BY <2>1
  <1>. HIDE DEF With
  <1>. DEFINE P == {n \in Nat : \A loading \in SUBSET Configs :
                       Rest(loading) < n => With[loading] \in Lists}
  <1>12. 0 \in P
    BY RestShrinks
  <1>13. ASSUME NEW n \in Nat, n \in P PROVE n + 1 \in P
    <2>1. ASSUME NEW loading \in SUBSET Configs, Rest(loading) < n + 1 PROVE With[loading] \in Lists
      <3>1. ASSUME NEW c \in Configs \ loading PROVE With[loading \cup {c}] \in Lists
        <4>1. loading \cup {c} \in SUBSET Configs
          BY <1>3
        <4>2. Rest(loading \cup {c}) < n
          BY <2>1, <4>1, RestShrinks
        <4>. QED  BY <1>13, <4>1, <4>2
      <3>. QED  BY <1>1, <1>11, <3>1
    <2>. QED  BY <2>1
  <1>14. \A n \in Nat : n \in P
    <2>. HIDE DEF P
    <2>. QED  BY <1>12, <1>13, NumberInduction
  <1>15. With[{}] \in Lists
    <2>1. Rest({}) \in Nat /\ Rest({}) + 1 \in P /\ Rest({}) < Rest({}) + 1 /\ {} \in SUBSET Configs
      <3>. HIDE DEF P
      <3>. QED  BY <1>14, RestShrinks
    <2>. QED  BY <2>1
  <1>. QED  BY <1>9, <1>15 DEF Lists
-----------------------------------------------------------------------------
(* Context.                                                                *)

\* A resource is there, of the right type, registered before configuration id.
Available(r, id) ==
    /\ r.name \in DOMAIN m_repo
    /\ m_repo[r.name].type = r.type /\ m_repo[r.name].by < id

\* Beans are never removed or replaced.
RepoGrows == \A n \in DOMAIN m_repo : n \in DOMAIN m_repo' /\ m_repo'[n] = m_repo[n]

WrapperType == [config : Configs, waiting : SUBSET Names]

\* Who declared what.
Declared ==
    /\ decl \in Declarations
    /\ m_waitingConfigs \in Seq(WrapperType)
    /\ m_activeConfigs \in Seq([config : Configs, id : Nat])

\* Everything that is registered was so by a configuration built so far.
Numbered ==
    /\ built \in Nat /\ k \in Nat /\ it \in Nat \ {0}
    /\ \A n \in DOMAIN m_repo : m_repo[n].by \in Nat /\ m_repo[n].by <= built

AtConfig == pc \in {"build", "resource", "postInit", "provide"}

\* What assemble has established about the configuration it is at.
Progress ==
    /\ AtConfig => it \in 1 .. Len(m_waitingConfigs)
    /\ pc \in {"build", "resource"} =>
           \A j \in 1 .. Len(RESOURCES(Config)) : j < k => Available(RESOURCES(Config)[j], built + 1)
    /\ pc = "resource" =>
           \/ Available(RESOURCES(Config)[k], built + 1)
           \/ calls = <<>> /\ raised # "none"
    /\ pc \in {"postInit", "provide"} =>
           \A j \in 1 .. Len(RESOURCES(Config)) : Available(RESOURCES(Config)[j], built)

Inv == BeanInv /\ Declared /\ Numbered /\ Progress /\ ActiveInOrder

\* The configuration that assemble is at, and its resources.
LEMMA ConfigTypes ==
    ASSUME Declared, it \in 1 .. Len(m_waitingConfigs)
    PROVE  /\ Config \in Configs
           /\ Len(RESOURCES(Config)) \in Nat
           /\ \A c \in Configs : Len(RESOURCES(c)) \in Nat
  <1>1. m_waitingConfigs[it] \in WrapperType
    BY ElementOfSeq DEF Declared
  <1>3. Config \in Configs
    BY <1>1 DEF Config, WrapperType
  <1>4. \A c \in Configs : RESOURCES(c) \in Seq([name : Names, type : Types])
    BY ContextAssumption DEF Declared, Declaration, RESOURCES
  <1>. QED  BY <1>3, <1>4, LenProperties

\* A class waits for names of beans.
LEMMA NamesOfResources ==
    ASSUME Declared, NEW c \in Configs
    PROVE  getResourceNames(c) \subseteq Names
  <1>1. RESOURCES(c) \in Seq([name : Names, type : Types])
    BY ContextAssumption DEF Declared, Declaration, RESOURCES
  <1>2. \A i \in 1 .. Len(RESOURCES(c)) : RESOURCES(c)[i] \in [name : Names, type : Types]
    BY <1>1, ElementOfSeq
  <1>. QED  BY <1>2 DEF getResourceNames

\* What erase() leaves at each position.
LEMMA RemoveFrom ==
    ASSUME NEW T, NEW s \in Seq(T), NEW p \in 1 .. Len(s)
    PROVE  LET t == SubSeq(s, 1, p - 1) \o SubSeq(s, p + 1, Len(s)) IN
           /\ t \in Seq(T) /\ Len(t) = Len(s) - 1
           /\ \A i \in 1 .. Len(s) - 1 : t[i] = s[IF i < p THEN i ELSE i + 1]
  <1>. DEFINE n == Len(s)
              a == SubSeq(s, 1, p - 1)
              b == SubSeq(s, p + 1, n)
  <1>1. n \in Nat /\ p \in 1 .. n /\ \A i \in 1 .. n : s[i] \in T
    BY ElementOfSeq, LenProperties
  <1>2. a \in Seq(T) /\ Len(a) = p - 1 /\ \A i \in 1 .. p - 1 : a[i] = s[i]
    <2>1. \A i \in 1 .. p - 1 : s[i] \in T
      BY <1>1
    <2>2. /\ a \in Seq(T) /\ Len(a) = IF 1 <= p - 1 THEN p - 1 - 1 + 1 ELSE 0
          /\ \A i \in 1 .. p - 1 - 1 + 1 : a[i] = s[1 + i - 1]
      BY <1>1, <2>1, SubSeqProperties
    <2>3. p - 1 - 1 + 1 = p - 1 /\ \A i \in 1 .. p - 1 : 1 + i - 1 = i
      BY <1>1
    <2>4. (IF 1 <= p - 1 THEN p - 1 - 1 + 1 ELSE 0) = p - 1
      BY <1>1
    <2>. QED  BY <2>2, <2>3, <2>4
  <1>3. b \in Seq(T) /\ Len(b) = n - p /\ \A i \in 1 .. n - p : b[i] = s[p + i]
    <2>1. \A i \in p + 1 .. n : s[i] \in T
      BY <1>1
    <2>2. /\ b \in Seq(T) /\ Len(b) = IF p + 1 <= n THEN n - (p + 1) + 1 ELSE 0
          /\ \A i \in 1 .. n - (p + 1) + 1 : b[i] = s[p + 1 + i - 1]
      BY <1>1, <2>1, SubSeqProperties
    <2>3. n - (p + 1) + 1 = n - p /\ \A i \in 1 .. n - p : p + 1 + i - 1 = p + i
      BY <1>1
    <2>4. (IF p + 1 <= n THEN n - (p + 1) + 1 ELSE 0) = n - p
      BY <1>1
    <2>. QED  BY <2>2, <2>3, <2>4
  <1>. HIDE DEF a, b
  <1>4. /\ a \o b \in Seq(T) /\ Len(a \o b) = Len(a) + Len(b)
        /\ \A i \in 1 .. Len(a) + Len(b) : (a \o b)[i] = IF i <= Len(a) THEN a[i] ELSE b[i - Len(a)]
    BY <1>2, <1>3, ConcatProperties
  <1>5. Len(a) + Len(b) = n - 1
    BY <1>1, <1>2, <1>3
  <1>6. ASSUME NEW i \in 1 .. n - 1
        PROVE  (a \o b)[i] = s[IF i < p THEN i ELSE i + 1]
    <2>1. CASE i < p
      <3>1. i \in 1 .. p - 1 /\ i <= Len(a)
        BY <1>1, <1>2, <2>1
      <3>. QED  BY <1>2, <1>4, <1>5, <2>1, <3>1
    <2>2. CASE ~(i < p)
      <3>1. i - Len(a) \in 1 .. n - p /\ ~(i <= Len(a)) /\ p + (i - Len(a)) = i + 1
        BY <1>1, <1>2, <2>2
      <3>. QED  BY <1>3, <1>4, <1>5, <2>2, <3>1
    <2>. QED  BY <2>1, <2>2
  <1>. QED  BY <1>4, <1>5, <1>6 DEF a, b

\* Retrieval leaves the repository alone.
LEMMA GetGrows == ASSUME NEW n, NEW type, getBean(n, type) PROVE m_repo' = m_repo
  BY DEF getBean, GetUnknown, GetCycle, GetWrongType, GetReady, GetCreate

\* Registration adds at most one bean, in the name of by.
LEMMA RegisterGrows ==
    ASSUME NEW n, NEW type, NEW kind, NEW by \in Nat, by <= built, Numbered,
           Register(n, Provider(type, kind, by)), UNCHANGED <<built, it>>, k' \in {k, k + 1}
    PROVE  RepoGrows /\ Numbered'
  <1>1. CASE m_repo' = m_repo
    BY <1>1 DEF RepoGrows, Numbered
  <1>2. CASE RegisterAdded(n, Provider(type, kind, by))
    <2>1. /\ n \notin DOMAIN m_repo
          /\ m_repo' = [m \in DOMAIN m_repo \cup {n} |->
                            IF m = n THEN Provider(type, kind, by) ELSE m_repo[m]]
      BY <1>2 DEF RegisterAdded, containsBean
    <2>2. Provider(type, kind, by).by = by
      BY DEF Provider
    <2>3. RepoGrows
      BY <2>1 DEF RepoGrows
    <2>4. \A m \in DOMAIN m_repo' : m_repo'[m].by \in Nat /\ m_repo'[m].by <= built
      BY <2>1, <2>2 DEF Numbered
    <2>. QED  BY <2>3, <2>4 DEF Numbered
  <1>. QED  BY <1>1, <1>2 DEF Register, RegisterRefused, RegisterFails

\* A resource stays available.
LEMMA Persists == ASSUME NEW r, NEW id, RepoGrows, Available(r, id) PROVE Available(r, id)'
  BY DEF RepoGrows, Available

\* The same for all resources of all active configurations.
LEMMA ActivePersists ==
    ASSUME ActiveInOrder, RepoGrows, UNCHANGED <<m_activeConfigs, decl>>
    PROVE  ActiveInOrder'
  <1>1. \A c : RESOURCES(c)' = RESOURCES(c)
    BY DEF RESOURCES
  <1>2. ASSUME NEW i \in 1 .. Len(m_activeConfigs),
               NEW j \in 1 .. Len(RESOURCES(m_activeConfigs[i].config)),
               NEW r, r = RESOURCES(m_activeConfigs[i].config)[j]
        PROVE  /\ r.name \in DOMAIN m_repo' /\ m_repo'[r.name].type = r.type
               /\ m_repo'[r.name].by < m_activeConfigs[i].id
    <2>1. /\ r.name \in DOMAIN m_repo /\ m_repo[r.name].type = r.type
          /\ m_repo[r.name].by < m_activeConfigs[i].id
      BY <1>2 DEF ActiveInOrder, containsBean
    <2>. QED  BY <2>1 DEF RepoGrows
  <1>. QED  BY <1>1, <1>2 DEF ActiveInOrder, containsBean

\* User code, wherever it runs, removes no bean,
LEMMA UserStepGrows == ASSUME Inv, UserStep PROVE RepoGrows /\ Numbered'
  <1>1. UNCHANGED contextVars
    BY DEF UserStep
  <1>2. CASE UserCall
    <2>1. CASE \E n \in Names, type \in Types : getBean(n, type)
      BY <1>1, <2>1, GetGrows DEF RepoGrows, Numbered, Inv, contextVars
    <2>2. CASE \E n \in Names \cup {NoName}, type \in Types, kind \in Kinds :
                   Register(n, Provider(type, kind, 0))
      BY <1>1, <2>2, RegisterGrows DEF Inv, Numbered, contextVars
    <2>. QED  BY <1>2, <2>1, <2>2 DEF UserCall
  <1>3. CASE m_repo' = m_repo
    BY <1>1, <1>3 DEF RepoGrows, Numbered, Inv, contextVars
  <1>. QED  BY <1>2, <1>3 DEF UserStep, Constructor, Created, ConstructorThrows, Catch

\* and breaks nothing that assemble has established.
LEMMA UserStepKeeps == ASSUME Inv, UserStep PROVE Inv'
  <1>1. BeanInv'
    BY UserKeeps DEF UserStep, Inv
  <1>2. UNCHANGED contextVars
    BY DEF UserStep
  <1>3. RepoGrows /\ Numbered'
    BY UserStepGrows
  <1>4. Progress'
    <2>1. RESOURCES(Config)' = RESOURCES(Config)
      BY <1>2 DEF RESOURCES, Config, contextVars
    <2>2. pc = "resource" => Available(RESOURCES(Config)[k], built + 1)
      BY DEF UserStep, Inv, Progress
    <2>. QED  BY <1>2, <1>3, <2>1, <2>2, Persists DEF Inv, Progress, AtConfig, contextVars
  <1>5. ActiveInOrder'
    BY <1>2, <1>3, ActivePersists DEF Inv, contextVars
  <1>6. Declared'
    BY <1>2 DEF Inv, Declared, contextVars
  <1>. QED  BY <1>1, <1>3, <1>4, <1>5, <1>6 DEF Inv

\* registerConfiguration adds wrappers at the end.
LEMMA RegisterConfigurationKeeps ==
    ASSUME NEW c \in Configs, Inv, registerConfiguration(c)
    PROVE  Inv'
  <1>. DEFINE all == WithDependencies(decl)[c]
              new == [i \in 1 .. Len(all) |-> Wrapper(all[i])]
  <1>1. all \in Seq(Configs)
    BY DependenciesList DEF Inv, Declared
  <1>2. /\ m_waitingConfigs' = m_waitingConfigs \o new /\ pc = "idle" /\ pc' = pc
        /\ UNCHANGED <<beanVars, decl, m_activeConfigs, it, k, built>>
    BY DEF registerConfiguration, Outside
  <1>. HIDE DEF all
  <1>5. new \in Seq(WrapperType)
    <2>1. Len(all) \in Nat /\ \A i \in 1 .. Len(all) : all[i] \in Configs
      BY <1>1, ElementOfSeq, LenProperties
    <2>2. \A i \in 1 .. Len(all) : Wrapper(all[i]) \in WrapperType
      BY <2>1, NamesOfResources DEF Wrapper, WrapperType, Inv
    <2>. QED  BY <2>1, <2>2, IsASeq
  <1>6. m_waitingConfigs' \in Seq(WrapperType)
    BY <1>2, <1>5, ConcatProperties DEF Inv, Declared
  <1>7. Declared'
    BY <1>2, <1>6 DEF Inv, Declared
  <1>8. BeanInv'
    BY <1>2, UntouchedKeeps DEF Inv, Untouched, beanVars
  <1>9. Numbered' /\ Progress'
    BY <1>2 DEF Inv, Numbered, Progress, AtConfig, beanVars
  <1>10. ActiveInOrder'
    BY <1>2, ActivePersists DEF Inv, RepoGrows, beanVars
  <1>. QED  BY <1>7, <1>8, <1>9, <1>10 DEF Inv

\* Steps between configurations: assemble begins or ends, or a pass does.
LEMMA BetweenKeeps ==
    ASSUME Inv, assemble \/ AssembleThrows \/ PassEnds
    PROVE  Inv'
  <1>1. /\ UNCHANGED <<m_repo, m_beanNameStack, calls, made, unwound, decl, m_waitingConfigs,
                       m_activeConfigs, k, built>>
        /\ it' \in {it, 1} /\ pc' \in {"idle", "pass"}
    BY DEF assemble, AssembleThrows, PassEnds, At, beanVars
  <1>2. BeanInv'
    BY <1>1, UntouchedKeeps DEF Inv, Untouched
  <1>3. Declared'
    BY <1>1 DEF Inv, Declared
  <1>4. Numbered'
    BY <1>1 DEF Inv, Numbered
  <1>5. Progress'
    BY <1>1 DEF Progress, AtConfig
  <1>6. ActiveInOrder'
    BY <1>1, ActivePersists DEF Inv, RepoGrows
  <1>. QED  BY <1>2, <1>3, <1>4, <1>5, <1>6 DEF Inv

\* A configuration is only begun within the list.
LEMMA TestConfigKeeps == ASSUME Inv, TestConfig PROVE Inv'
  <1>. DEFINE missing == Missing(m_waitingConfigs[it].waiting)
  <1>1. /\ pc = "pass" /\ it <= Len(m_waitingConfigs)
        /\ m_waitingConfigs' = [m_waitingConfigs EXCEPT ![it].waiting = missing]
        /\ UNCHANGED <<beanVars, decl, m_activeConfigs, built>>
        /\ \/ pc' = "build" /\ k' = 1 /\ it' = it
           \/ pc' = "pass" /\ k' = k /\ it' = it + 1
    BY DEF TestConfig, At
  <1>. HIDE DEF missing
  <1>2. m_waitingConfigs \in Seq(WrapperType)
    BY DEF Inv, Declared
  <1>3. it \in 1 .. Len(m_waitingConfigs)
    BY <1>1, <1>2, LenProperties DEF Inv, Numbered
  <1>. DEFINE w == [m_waitingConfigs[it] EXCEPT !.waiting = missing]
  <1>5. w \in WrapperType
    <2>1. m_waitingConfigs[it] \in WrapperType
      BY <1>2, <1>3, ElementOfSeq
    <2>. QED  BY <2>1 DEF WrapperType, missing, Missing
  <1>. HIDE DEF w
  <1>6. m_waitingConfigs' = [m_waitingConfigs EXCEPT ![it] = w]
    BY <1>1 DEF w
  <1>7. m_waitingConfigs' \in Seq(WrapperType) /\ Len(m_waitingConfigs') = Len(m_waitingConfigs)
    BY <1>2, <1>3, <1>5, <1>6, ExceptSeq
  <1>8. Declared'
    BY <1>1, <1>7 DEF Inv, Declared
  <1>9. BeanInv'
    BY <1>1, UntouchedKeeps DEF Inv, Untouched, beanVars
  <1>10. Numbered'
    BY <1>1 DEF Inv, Numbered, beanVars
  <1>11. Progress'
    <2>1. CASE pc' = "pass"
      BY <2>1 DEF Progress, AtConfig
    <2>2. CASE pc' = "build" /\ k' = 1 /\ it' = it
      BY <1>3, <1>7, <2>2 DEF Progress, AtConfig
    <2>. QED  BY <1>1, <2>1, <2>2
  <1>12. ActiveInOrder'
    BY <1>1, ActivePersists DEF Inv, RepoGrows, beanVars
  <1>. QED  BY <1>8, <1>9, <1>10, <1>11, <1>12 DEF Inv

\* A resource that getBean returns is there, and was registered before.
LEMMA GetResourceKeeps == ASSUME Inv, GetResource PROVE Inv'
  <1>. DEFINE r == RESOURCES(Config)[k]
  <1>1. /\ pc = "build" /\ pc' = "resource" /\ calls = <<>> /\ getBean(r.name, r.type)
        /\ UNCHANGED <<decl, m_waitingConfigs, m_activeConfigs, it, k, built>>
    BY DEF GetResource, At
  <1>2. m_repo' = m_repo
    BY <1>1, GetGrows
  <1>3. BeanInv'
    BY <1>1, GetBeanKeeps DEF Inv
  <1>4. Declared' /\ Numbered'
    BY <1>1, <1>2 DEF Inv, Declared, Numbered
  <1>5. ActiveInOrder'
    BY <1>1, <1>2, ActivePersists DEF Inv, RepoGrows
  <1>6. \/ Available(r, built + 1)
        \/ calls' = <<>> /\ raised' # "none"
    BY <1>1 DEF getBean, GetUnknown, GetCycle, GetWrongType, GetReady, GetCreate, containsBean,
                Available, Inv, Numbered
  <1>7. Progress'
    BY <1>1, <1>2, <1>6 DEF Inv, Progress, AtConfig, Available, RESOURCES, Config
  <1>. QED  BY <1>3, <1>4, <1>5, <1>7 DEF Inv

\* The loop over the resources, and the call of postInit after it.
LEMMA BuildKeeps == ASSUME Inv, GotResource \/ Built \/ PostInitReturns PROVE Inv'
  <1>1. /\ AtConfig
        /\ UNCHANGED <<beanVars, decl, m_waitingConfigs, m_activeConfigs, it>>
        /\ \/ pc = "resource" /\ raised = "none" /\ pc' = "build" /\ k' = k + 1 /\ built' = built
           \/ pc = "build" /\ k > Len(RESOURCES(Config)) /\ pc' = "postInit" /\ k' = k /\ built' = built + 1
           \/ pc = "postInit" /\ pc' = "provide" /\ k' = 1 /\ built' = built
    BY DEF GotResource, Built, PostInitReturns, At, AtConfig
  <1>2. it \in 1 .. Len(m_waitingConfigs) /\ Len(RESOURCES(Config)) \in Nat
    BY <1>1, ConfigTypes DEF Inv, Progress
  <1>3. k \in Nat /\ built \in Nat
    BY DEF Inv, Numbered
  <1>4. BeanInv'
    BY <1>1, UntouchedKeeps DEF Inv, Untouched, beanVars
  <1>5. Declared' /\ Numbered'
    <2>1. Declared'
      BY <1>1 DEF Inv, Declared
    <2>2. built' \in Nat /\ built <= built' /\ k' \in Nat /\ it' = it /\ m_repo' = m_repo
      BY <1>1, <1>3 DEF beanVars
    <2>3. \A n \in DOMAIN m_repo : m_repo[n].by \in Nat /\ m_repo[n].by <= built'
      BY <1>3, <2>2 DEF Inv, Numbered
    <2>. QED  BY <2>1, <2>2, <2>3 DEF Inv, Numbered
  <1>6. ActiveInOrder'
    BY <1>1, ActivePersists DEF Inv, RepoGrows, beanVars
  <1>7. RESOURCES(Config)' = RESOURCES(Config)
    BY <1>1 DEF RESOURCES, Config
  <1>8. \A j \in 1 .. Len(RESOURCES(Config)) : j \in Nat /\ (j < k + 1 => j < k \/ j = k)
    BY <1>2, <1>3
  <1>9. Progress'
    <2>1. CASE pc = "resource" /\ raised = "none" /\ pc' = "build" /\ k' = k + 1 /\ built' = built
      BY <1>1, <1>2, <1>7, <1>8, <2>1 DEF Inv, Progress, AtConfig, Available, beanVars
    <2>2. CASE pc = "build" /\ k > Len(RESOURCES(Config)) /\ pc' = "postInit" /\ k' = k /\ built' = built + 1
      <3>1. \A j \in 1 .. Len(RESOURCES(Config)) : j < k
        BY <1>2, <1>3, <2>2
      <3>. QED  BY <1>1, <1>2, <1>7, <2>2, <3>1 DEF Inv, Progress, AtConfig, Available, beanVars
    <2>3. CASE pc = "postInit" /\ pc' = "provide" /\ k' = 1 /\ built' = built
      BY <1>1, <1>2, <1>7, <2>3 DEF Inv, Progress, AtConfig, Available, beanVars
    <2>. QED  BY <1>1, <2>1, <2>2, <2>3
  <1>. QED  BY <1>4, <1>5, <1>6, <1>9 DEF Inv

\* provideBeans removes no bean,
LEMMA ProvideBeanGrows == ASSUME Inv, ProvideBean PROVE RepoGrows /\ Numbered'
  <1>. DEFINE bean == BEANS(Config)[k]
  <1>1. /\ Register(bean.name, Provider(bean.type, bean.kind, built))
        /\ k' = k + 1 /\ UNCHANGED <<it, built>>
    BY DEF ProvideBean
  <1>2. Numbered /\ built \in Nat /\ built <= built
    BY DEF Inv, Numbered
  <1>. QED  BY <1>1, <1>2, RegisterGrows

\* The beans of the configuration are registered in its name.
LEMMA ProvideBeanKeeps == ASSUME Inv, ProvideBean PROVE Inv'
  <1>. DEFINE bean == BEANS(Config)[k]
  <1>1. /\ pc = "provide" /\ pc' = "provide"
        /\ Register(bean.name, Provider(bean.type, bean.kind, built))
        /\ k' = k + 1 /\ UNCHANGED <<decl, m_waitingConfigs, m_activeConfigs, it, built>>
    BY DEF ProvideBean, At
  <1>2. BeanInv'
    BY <1>1, RegisterKeeps DEF Inv
  <1>3. RepoGrows /\ Numbered'
    BY ProvideBeanGrows
  <1>4. Declared'
    BY <1>1 DEF Inv, Declared
  <1>5. ActiveInOrder'
    BY <1>1, <1>3, ActivePersists DEF Inv
  <1>6. RESOURCES(Config)' = RESOURCES(Config)
    BY <1>1 DEF RESOURCES, Config
  <1>7. Progress'
    BY <1>1, <1>3, <1>6, Persists DEF Inv, Progress, AtConfig
  <1>. QED  BY <1>2, <1>3, <1>4, <1>5, <1>7 DEF Inv

\* The configuration becomes active with its resources in place.
LEMMA LoadedKeeps == ASSUME Inv, Loaded PROVE Inv'
  <1>. DEFINE a == [config |-> Config, id |-> built]
  <1>1. /\ pc = "provide" /\ pc' = "pass" /\ m_activeConfigs' = Append(m_activeConfigs, a)
        /\ m_waitingConfigs' = SubSeq(m_waitingConfigs, 1, it - 1)
                                 \o SubSeq(m_waitingConfigs, it + 1, Len(m_waitingConfigs))
        /\ UNCHANGED <<beanVars, decl, it, k, built>>
    BY DEF Loaded, At
  <1>2. it \in 1 .. Len(m_waitingConfigs) /\ Config \in Configs
    BY <1>1, ConfigTypes DEF Inv, Progress, AtConfig
  <1>3. a \in [config : Configs, id : Nat]
    BY <1>2 DEF Inv, Numbered
  <1>5. m_waitingConfigs' \in Seq(WrapperType)
    BY <1>1, <1>2, RemoveFrom DEF Inv, Declared
  <1>6. m_activeConfigs \in Seq([config : Configs, id : Nat])
    BY DEF Inv, Declared
  <1>. HIDE DEF a
  <1>7. /\ m_activeConfigs' \in Seq([config : Configs, id : Nat])
        /\ Len(m_activeConfigs') = Len(m_activeConfigs) + 1 /\ Len(m_activeConfigs) \in Nat
        /\ \A i \in 1 .. Len(m_activeConfigs) : m_activeConfigs'[i] = m_activeConfigs[i]
        /\ m_activeConfigs'[Len(m_activeConfigs) + 1] = a
    BY <1>1, <1>3, <1>6, AppendProperties
  <1>8. Declared'
    BY <1>1, <1>5, <1>7 DEF Inv, Declared
  <1>9. BeanInv'
    BY <1>1, UntouchedKeeps DEF Inv, Untouched, beanVars
  <1>10. Numbered' /\ Progress'
    BY <1>1 DEF Inv, Numbered, Progress, AtConfig, beanVars
  <1>11. ActiveInOrder'
    <2>1. a.config = Config /\ a.id = built
      BY DEF a
    <2>2. \A j \in 1 .. Len(RESOURCES(a.config)) : Available(RESOURCES(a.config)[j], a.id)
      BY <1>1, <2>1 DEF Inv, Progress
    <2>3. ASSUME NEW i \in 1 .. Len(m_activeConfigs')
          PROVE  \A j \in 1 .. Len(RESOURCES(m_activeConfigs'[i].config)) :
                     Available(RESOURCES(m_activeConfigs'[i].config)[j], m_activeConfigs'[i].id)
      <3>1. CASE i = Len(m_activeConfigs) + 1
        BY <1>7, <2>2, <3>1
      <3>2. CASE i \in 1 .. Len(m_activeConfigs)
        BY <1>7, <3>2 DEF Inv, ActiveInOrder, Available, containsBean
      <3>. QED  BY <1>7, <3>1, <3>2
    <2>4. m_repo' = m_repo /\ decl' = decl
      BY <1>1 DEF beanVars
    <2>. QED  BY <2>3, <2>4 DEF ActiveInOrder, Available, containsBean, RESOURCES
  <1>. QED  BY <1>8, <1>9, <1>10, <1>11 DEF Inv

\* The program starts with nothing registered.
LEMMA InitKeeps == Init => Inv
  <1>. SUFFICES ASSUME Init PROVE Inv
    OBVIOUS
  <1>1. BeanInv
    BY BeanInitInv DEF Init
  <1>2. /\ decl \in Declarations /\ m_waitingConfigs = <<>> /\ m_activeConfigs = <<>>
        /\ m_repo = <<>> /\ pc = "idle" /\ it = 1 /\ k = 1 /\ built = 0
    BY DEF Init, BeanInit
  <1>3. Declared
    BY <1>2, EmptySeq DEF Declared
  <1>4. DOMAIN m_repo = {} /\ Len(m_activeConfigs) = 0
    BY <1>2
  <1>. QED  BY <1>1, <1>2, <1>3, <1>4 DEF Inv, Numbered, Progress, AtConfig, ActiveInOrder

\* All steps together.
LEMMA Invariance == Spec => []Inv
  <1>1. Inv /\ [Next]_vars => Inv'
    <2>. SUFFICES ASSUME Inv, [Next]_vars PROVE Inv'
      OBVIOUS
    <2>1. CASE Next
      BY <2>1, RegisterConfigurationKeeps, BetweenKeeps, TestConfigKeeps, GetResourceKeeps,
         BuildKeeps, ProvideBeanKeeps, LoadedKeeps, UserStepKeeps DEF Next, AssembleStep
    <2>2. CASE UNCHANGED vars
      <3>1. UNCHANGED <<beanVars, contextVars>>
        BY <2>2 DEF vars
      <3>2. BeanInv'
        BY <3>1, UntouchedKeeps DEF beanVars, Inv, Untouched
      <3>3. Declared' /\ Numbered'
        BY <3>1 DEF Inv, Declared, Numbered, beanVars, contextVars
      <3>4. Progress'
        BY <3>1 DEF Inv, Progress, AtConfig, Available, RESOURCES, Config, beanVars, contextVars
      <3>5. ActiveInOrder'
        BY <3>1, ActivePersists DEF Inv, RepoGrows, beanVars, contextVars
      <3>. QED  BY <3>2, <3>3, <3>4, <3>5 DEF Inv
    <2>. QED  BY <2>1, <2>2
  <1>. QED  BY <1>1, InitKeeps, PTL DEF Spec

\* While configurations are registered and assembled, constructors call the
\* manager and exceptions leave assemble() half-way, getBean keeps every bean
\* under construction on its stack.
THEOREM ConstructionIsTracked == Spec => []CallsOnStack
  BY Invariance, PTL DEF Inv, BeanInv

\* No bean is constructed inside its own construction (getBean's cycle check).
THEOREM NoReentry == Spec => []NeverReentered
  BY Invariance, PTL DEF Inv, BeanInv

\* A singleton is made at most once (SingletonBeanCreator).
THEOREM OneInstance == Spec => []SingletonOnce
  BY Invariance, PTL DEF Inv, BeanInv

\* Unless an exception has left a constructor, m_beanNameStack is the stack of
\* the constructors in progress.
THEOREM StackIsExact == Spec => []StackIsCallStack
  BY Invariance, PTL DEF Inv, BeanInv

\* The resources of an active configuration were there before it was built,
\* for all programs and all orders of registration (assemble, loadConfig).
THEOREM AssembledInOrder == Spec => []ActiveInOrder
  BY Invariance, PTL DEF Inv

-----------------------------------------------------------------------------
(* No configuration is lost: positions are counted.                          *)

\* Positions are finitely many.
LEMMA FinitePlaces ==
    ASSUME NEW n \in Nat, NEW A \in SUBSET (1 .. n)
    PROVE  IsFiniteSet(A) /\ Cardinality(A) \in Nat
  <1>1. IsFiniteSet(1 .. n)
    BY FS_Interval
  <1>. QED  BY <1>1, FS_Subset, FS_CardinalityType

\* Appending a list adds the counts.
LEMMA CountAppended ==
    ASSUME NEW n \in Nat, NEW m \in Nat, NEW A \in SUBSET (1 .. n), NEW B \in SUBSET (1 .. m)
    PROVE  Cardinality(A \cup {n + j : j \in B}) = Cardinality(A) + Cardinality(B)
  <1>. DEFINE D == {n + j : j \in B}
              f == [j \in B |-> n + j]
  <1>1. IsFiniteSet(A) /\ IsFiniteSet(B) /\ Cardinality(A) \in Nat /\ Cardinality(B) \in Nat
    BY FinitePlaces
  <1>2. f \in Bijection(B, D)
    <2>1. f \in [B -> D]
      OBVIOUS
    <2>2. \A i, j \in B : f[i] = f[j] => i = j
      OBVIOUS
    <2>3. \A d \in D : \E j \in B : f[j] = d
      OBVIOUS
    <2>. HIDE DEF f, D
    <2>. QED  BY <2>1, <2>2, <2>3 DEF Bijection, Injection, Surjection, IsInjective
  <1>3. IsFiniteSet(D) /\ Cardinality(D) = Cardinality(B)
    BY <1>1, <1>2, FS_Bijection DEF ExistsBijection
  <1>4. A \cap D = {}
    OBVIOUS
  <1>. HIDE DEF D
  <1>5. Cardinality(A \cup D) = Cardinality(A) + Cardinality(D) - Cardinality({})
    BY <1>1, <1>3, <1>4, FS_Union
  <1>6. Cardinality({}) = 0
    BY FS_EmptySet
  <1>7. Cardinality(A \cup D) = Cardinality(A) + Cardinality(B)
    BY <1>1, <1>3, <1>5, <1>6
  <1>. QED  BY <1>7 DEF D

\* Erasing a position takes away at most that one.
LEMMA CountErased ==
    ASSUME NEW n \in Nat, NEW p \in 1 .. n, NEW A \in SUBSET (1 .. n), NEW C \in SUBSET (1 .. n - 1),
           \A i \in 1 .. n - 1 : i \in C <=> (IF i < p THEN i ELSE i + 1) \in A
    PROVE  Cardinality(A) = Cardinality(C) + (IF p \in A THEN 1 ELSE 0)
  <1>. DEFINE D == A \ {p}
              f == [i \in C |-> IF i < p THEN i ELSE i + 1]
  <1>1. IsFiniteSet(A) /\ Cardinality(A) \in Nat
    BY FinitePlaces
  <1>2. IsFiniteSet(C)
    <2>1. n - 1 \in Nat
      OBVIOUS
    <2>. QED  BY <2>1, FinitePlaces
  <1>3. f \in Bijection(C, D)
    <2>1. \A i \in C : f[i] \in D
      OBVIOUS
    <2>2. \A i, j \in C : f[i] = f[j] => i = j
      OBVIOUS
    <2>3. ASSUME NEW d \in D PROVE \E i \in C : f[i] = d
      <3>1. CASE d < p
        <4>1. d \in 1 .. n - 1
          BY <3>1
        <4>. QED  BY <3>1, <4>1
      <3>2. CASE d > p
        <4>1. d - 1 \in 1 .. n - 1 /\ ~(d - 1 < p) /\ (d - 1) + 1 = d
          BY <3>2
        <4>2. d - 1 \in C
          BY <4>1
        <4>. QED  BY <4>1, <4>2
      <3>. QED  BY <3>1, <3>2
    <2>4. f \in [C -> D]
      BY <2>1
    <2>. HIDE DEF f, D
    <2>. QED  BY <2>2, <2>3, <2>4 DEF Bijection, Injection, Surjection, IsInjective
  <1>4. Cardinality(D) = Cardinality(C)
    BY <1>2, <1>3, FS_Bijection DEF ExistsBijection
  <1>5. Cardinality(D) = IF p \in A THEN Cardinality(A) - 1 ELSE Cardinality(A)
    BY <1>1, FS_RemoveElement
  <1>. HIDE DEF D
  <1>. QED  BY <1>1, <1>4, <1>5

\* The positions of a list that hold a member of P, and how many there are.
Hits(s, P) == {i \in 1 .. Len(s) : s[i] \in P}
Number(s, P) == Cardinality(Hits(s, P))

\* The positions are finitely many, so their number is a natural number.
LEMMA NumberType ==
    ASSUME NEW T, NEW s \in Seq(T), NEW P
    PROVE  Len(s) \in Nat /\ Hits(s, P) \in SUBSET (1 .. Len(s)) /\ Number(s, P) \in Nat
  <1>1. Len(s) \in Nat /\ Hits(s, P) \in SUBSET (1 .. Len(s))
    BY LenProperties DEF Hits
  <1>. QED  BY <1>1, FinitePlaces DEF Number

\* Appending a list adds its number.
LEMMA NumberConcat ==
    ASSUME NEW T, NEW s \in Seq(T), NEW t \in Seq(T), NEW P
    PROVE  Number(s \o t, P) = Number(s, P) + Number(t, P)
  <1>. DEFINE n == Len(s)
              m == Len(t)
              u == s \o t
  <1>1. /\ n \in Nat /\ m \in Nat /\ u \in Seq(T) /\ Len(u) = n + m
        /\ \A i \in 1 .. n + m : u[i] = IF i <= n THEN s[i] ELSE t[i - n]
    BY ConcatProperties, LenProperties
  <1>. HIDE DEF n, m, u
  <1>2. \A i \in 1 .. n : u[i] = s[i] /\ i \in 1 .. n + m
    BY <1>1
  <1>3. ASSUME NEW j \in 1 .. m PROVE u[n + j] = t[j] /\ n + j \in 1 .. n + m
    <2>1. n + j \in 1 .. n + m /\ ~(n + j <= n) /\ n + j - n = j
      BY <1>1
    <2>. QED  BY <1>1, <2>1
  <1>4. Hits(s, P) \in SUBSET (1 .. n) /\ Hits(t, P) \in SUBSET (1 .. m)
    BY DEF Hits, n, m
  <1>5. Hits(u, P) = Hits(s, P) \cup {n + j : j \in Hits(t, P)}
    <2>1. ASSUME NEW i \in Hits(u, P)
          PROVE  i \in Hits(s, P) \/ \E j \in Hits(t, P) : i = n + j
      <3>1. i \in 1 .. n + m /\ u[i] \in P
        BY <1>1 DEF Hits
      <3>2. CASE i <= n
        BY <1>1, <1>2, <3>1, <3>2 DEF Hits, n
      <3>3. CASE ~(i <= n)
        <4>1. i - n \in 1 .. m /\ n + (i - n) = i
          BY <1>1, <3>1, <3>3
        <4>2. i - n \in Hits(t, P)
          BY <1>1, <3>1, <3>3, <4>1 DEF Hits, m
        <4>. QED  BY <4>1, <4>2
      <3>. QED  BY <3>2, <3>3
    <2>2. Hits(s, P) \subseteq Hits(u, P)
      BY <1>1, <1>2 DEF Hits, n
    <2>3. \A j \in Hits(t, P) : n + j \in Hits(u, P)
      BY <1>1, <1>3 DEF Hits, m
    <2>. QED  BY <2>1, <2>2, <2>3
  <1>6. Cardinality(Hits(s, P) \cup {n + j : j \in Hits(t, P)})
          = Cardinality(Hits(s, P)) + Cardinality(Hits(t, P))
    <2>1. n \in Nat /\ m \in Nat
      BY <1>1
    <2>2. \A A \in SUBSET (1 .. n), B \in SUBSET (1 .. m) :
              Cardinality(A \cup {n + j : j \in B}) = Cardinality(A) + Cardinality(B)
      BY <2>1, CountAppended
    <2>. QED  BY <1>4, <2>2
  <1>. QED  BY <1>5, <1>6 DEF Number, u

\* Erasing an element takes away at most that one.
LEMMA NumberErased ==
    ASSUME NEW T, NEW s \in Seq(T), NEW p \in 1 .. Len(s), NEW P
    PROVE  Number(s, P) = Number(SubSeq(s, 1, p - 1) \o SubSeq(s, p + 1, Len(s)), P)
                            + (IF s[p] \in P THEN 1 ELSE 0)
  <1>. DEFINE n == Len(s)
              t == SubSeq(s, 1, p - 1) \o SubSeq(s, p + 1, Len(s))
  <1>1. /\ Len(t) = n - 1 /\ \A i \in 1 .. n - 1 : t[i] = s[IF i < p THEN i ELSE i + 1]
    BY RemoveFrom
  <1>2. n \in Nat /\ p \in 1 .. n
    BY LenProperties
  <1>. HIDE DEF n, t
  <1>3. \A i \in 1 .. n - 1 : (IF i < p THEN i ELSE i + 1) \in 1 .. n
    BY <1>2
  <1>4. Hits(s, P) \in SUBSET (1 .. n) /\ Hits(t, P) \in SUBSET (1 .. n - 1)
    BY <1>1 DEF Hits, n
  <1>5. \A i \in 1 .. n - 1 : i \in Hits(t, P) <=> (IF i < p THEN i ELSE i + 1) \in Hits(s, P)
    BY <1>1, <1>3 DEF Hits, n
  <1>6. p \in Hits(s, P) <=> s[p] \in P
    BY DEF Hits
  <1>7. Cardinality(Hits(s, P)) = Cardinality(Hits(t, P)) + (IF p \in Hits(s, P) THEN 1 ELSE 0)
    <2>. DEFINE A == Hits(s, P)
                C == Hits(t, P)
    <2>1. /\ A \in SUBSET (1 .. n) /\ C \in SUBSET (1 .. n - 1)
          /\ \A i \in 1 .. n - 1 : i \in C <=> (IF i < p THEN i ELSE i + 1) \in A
      BY <1>4, <1>5
    <2>. HIDE DEF A, C
    <2>2. Cardinality(A) = Cardinality(C) + (IF p \in A THEN 1 ELSE 0)
      BY <1>2, <2>1, CountErased
    <2>. QED  BY <2>2 DEF A, C
  <1>. QED  BY <1>6, <1>7 DEF Number, t

\* A list of one element.
LEMMA NumberOne ==
    ASSUME NEW e, NEW P
    PROVE  Number(<<e>>, P) = IF e \in P THEN 1 ELSE 0
  <1>1. Hits(<<e>>, P) = IF e \in P THEN {1} ELSE {}
    <2>1. Len(<<e>>) = 1 /\ <<e>>[1] = e /\ 1 .. 1 = {1}
      OBVIOUS
    <2>. QED  BY <2>1 DEF Hits
  <1>2. Cardinality({1}) = 1 /\ Cardinality({}) = 0
    BY FS_Singleton, FS_EmptySet
  <1>. QED  BY <1>1, <1>2 DEF Number

\* The elements that stand for a class, in each of the lists.
WaitingOf(c) == {w \in WrapperType : w.config = c}
ActiveType == [config : Configs, id : Nat]
ActiveOf(c) == {a \in ActiveType : a.config = c}

AccountInv ==
    /\ registered \in Seq(Configs)
    /\ \A c \in Configs :
           Number(registered, {c})
             = Number(m_waitingConfigs, WaitingOf(c)) + Number(m_activeConfigs, ActiveOf(c))

\* This is what NothingLost says.
LEMMA Accounts == ASSUME Declared, AccountInv PROVE NothingLost
  <1>. SUFFICES ASSUME NEW c \in Configs
                PROVE  Cardinality({i \in 1 .. Len(registered) : registered[i] = c})
                         = Cardinality({i \in 1 .. Len(m_waitingConfigs) : m_waitingConfigs[i].config = c})
                             + Cardinality({i \in 1 .. Len(m_activeConfigs) : m_activeConfigs[i].config = c})
    BY DEF NothingLost, Count
  <1>1. Hits(registered, {c}) = {i \in 1 .. Len(registered) : registered[i] = c}
    BY DEF Hits
  <1>2. Hits(m_waitingConfigs, WaitingOf(c))
          = {i \in 1 .. Len(m_waitingConfigs) : m_waitingConfigs[i].config = c}
    <2>1. \A i \in 1 .. Len(m_waitingConfigs) : m_waitingConfigs[i] \in WrapperType
      BY ElementOfSeq DEF Declared
    <2>. QED  BY <2>1 DEF Hits, WaitingOf
  <1>3. Hits(m_activeConfigs, ActiveOf(c))
          = {i \in 1 .. Len(m_activeConfigs) : m_activeConfigs[i].config = c}
    <2>1. \A i \in 1 .. Len(m_activeConfigs) : m_activeConfigs[i] \in ActiveType
      BY ElementOfSeq DEF Declared, ActiveType
    <2>. QED  BY <2>1 DEF Hits, ActiveOf
  <1>. QED  BY <1>1, <1>2, <1>3 DEF AccountInv, Number

\* registerConfiguration appends the same classes to both lists.
LEMMA AccountRegister ==
    ASSUME NEW c \in Configs, Inv, AccountInv, registerConfiguration(c)
    PROVE  AccountInv'
  <1>. DEFINE all == WithDependencies(decl)[c]
              new == [i \in 1 .. Len(all) |-> Wrapper(all[i])]
  <1>1. all \in Seq(Configs)
    BY DependenciesList DEF Inv, Declared
  <1>2. /\ m_waitingConfigs' = m_waitingConfigs \o new
        /\ registered' = registered \o all /\ m_activeConfigs' = m_activeConfigs
    BY DEF registerConfiguration
  <1>. HIDE DEF all
  <1>3. /\ Len(all) \in Nat /\ \A i \in 1 .. Len(all) : all[i] \in Configs
        /\ registered \in Seq(Configs) /\ m_waitingConfigs \in Seq(WrapperType)
        /\ m_activeConfigs \in Seq(ActiveType)
    BY <1>1, ElementOfSeq, LenProperties DEF Inv, Declared, AccountInv, ActiveType
  <1>4. \A i \in 1 .. Len(all) : Wrapper(all[i]) \in WrapperType /\ Wrapper(all[i]).config = all[i]
    BY <1>3, NamesOfResources DEF Wrapper, WrapperType, Inv
  <1>5. new \in Seq(WrapperType) /\ Len(new) = Len(all) /\ \A i \in 1 .. Len(all) : new[i] = Wrapper(all[i])
    BY <1>3, <1>4, IsASeq
  <1>. HIDE DEF new
  <1>6. registered' \in Seq(Configs)
    BY <1>1, <1>2, <1>3, ConcatProperties
  <1>7. ASSUME NEW d \in Configs
        PROVE  Number(registered', {d})
                 = Number(m_waitingConfigs', WaitingOf(d)) + Number(m_activeConfigs', ActiveOf(d))
    <2>1. Number(new, WaitingOf(d)) = Number(all, {d})
      <3>1. Hits(new, WaitingOf(d)) = Hits(all, {d})
        BY <1>4, <1>5 DEF Hits, WaitingOf
      <3>. QED  BY <3>1 DEF Number
    <2>2. Number(registered', {d}) = Number(registered, {d}) + Number(all, {d})
      BY <1>1, <1>2, <1>3, NumberConcat
    <2>3. Number(m_waitingConfigs', WaitingOf(d))
            = Number(m_waitingConfigs, WaitingOf(d)) + Number(new, WaitingOf(d))
      BY <1>2, <1>3, <1>5, NumberConcat
    <2>4. /\ Number(all, {d}) \in Nat /\ Number(m_waitingConfigs, WaitingOf(d)) \in Nat
          /\ Number(m_activeConfigs, ActiveOf(d)) \in Nat
      BY <1>1, <1>3, NumberType
    <2>5. Number(registered, {d})
            = Number(m_waitingConfigs, WaitingOf(d)) + Number(m_activeConfigs, ActiveOf(d))
      BY DEF AccountInv
    <2>6. Number(m_activeConfigs', ActiveOf(d)) = Number(m_activeConfigs, ActiveOf(d))
      BY <1>2
    <2>. QED  BY <2>1, <2>2, <2>3, <2>4, <2>5, <2>6
  <1>. QED  BY <1>6, <1>7 DEF AccountInv, Number, Hits

\* A configuration that is loaded moves from one list to the other.
LEMMA AccountLoaded == ASSUME Inv, AccountInv, Loaded PROVE AccountInv'
  <1>. DEFINE a == [config |-> Config, id |-> built]
  <1>1. /\ pc = "provide" /\ m_activeConfigs' = Append(m_activeConfigs, a)
        /\ m_waitingConfigs' = SubSeq(m_waitingConfigs, 1, it - 1)
                                 \o SubSeq(m_waitingConfigs, it + 1, Len(m_waitingConfigs))
        /\ registered' = registered
    BY DEF Loaded, At
  <1>2. it \in 1 .. Len(m_waitingConfigs) /\ Config \in Configs
    BY <1>1, ConfigTypes DEF Inv, Progress, AtConfig
  <1>3. /\ m_waitingConfigs \in Seq(WrapperType) /\ m_activeConfigs \in Seq(ActiveType)
        /\ m_waitingConfigs[it] \in WrapperType
    BY <1>2, ElementOfSeq DEF Inv, Declared, ActiveType
  <1>4. a \in ActiveType /\ a.config = m_waitingConfigs[it].config
    BY <1>2 DEF Inv, Numbered, Config, ActiveType
  <1>. HIDE DEF a
  <1>5. m_activeConfigs' = m_activeConfigs \o <<a>> /\ <<a>> \in Seq(ActiveType)
    BY <1>1, <1>3, <1>4, AppendIsConcat
  <1>6. m_waitingConfigs' \in Seq(WrapperType)
    BY <1>1, <1>2, <1>3, RemoveFrom
  <1>7. ASSUME NEW d \in Configs
        PROVE  Number(registered', {d})
                 = Number(m_waitingConfigs', WaitingOf(d)) + Number(m_activeConfigs', ActiveOf(d))
    <2>. DEFINE moved == IF m_waitingConfigs[it].config = d THEN 1 ELSE 0
    <2>1. Number(m_waitingConfigs, WaitingOf(d)) = Number(m_waitingConfigs', WaitingOf(d)) + moved
      <3>1. Number(m_waitingConfigs, WaitingOf(d))
              = Number(m_waitingConfigs', WaitingOf(d))
                  + (IF m_waitingConfigs[it] \in WaitingOf(d) THEN 1 ELSE 0)
        BY <1>1, <1>2, <1>3, NumberErased
      <3>2. m_waitingConfigs[it] \in WaitingOf(d) <=> m_waitingConfigs[it].config = d
        BY <1>3 DEF WaitingOf
      <3>. QED  BY <3>1, <3>2
    <2>2. Number(m_activeConfigs', ActiveOf(d)) = Number(m_activeConfigs, ActiveOf(d)) + moved
      <3>1. Number(m_activeConfigs', ActiveOf(d))
              = Number(m_activeConfigs, ActiveOf(d)) + Number(<<a>>, ActiveOf(d))
        BY <1>3, <1>5, NumberConcat
      <3>2. Number(<<a>>, ActiveOf(d)) = IF a \in ActiveOf(d) THEN 1 ELSE 0
        BY NumberOne
      <3>3. a \in ActiveOf(d) <=> m_waitingConfigs[it].config = d
        BY <1>4 DEF ActiveOf
      <3>. QED  BY <3>1, <3>2, <3>3
    <2>3. /\ Number(m_waitingConfigs', WaitingOf(d)) \in Nat
          /\ Number(m_activeConfigs, ActiveOf(d)) \in Nat
      BY <1>3, <1>6, NumberType
    <2>4. Number(registered, {d})
            = Number(m_waitingConfigs, WaitingOf(d)) + Number(m_activeConfigs, ActiveOf(d))
      BY DEF AccountInv
    <2>5. moved \in Nat /\ Number(registered', {d}) = Number(registered, {d})
      BY <1>1
    <2>. HIDE DEF moved
    <2>. QED  BY <2>1, <2>2, <2>3, <2>4, <2>5
  <1>. QED  BY <1>1, <1>7 DEF AccountInv, Number, Hits

\* TestConfig changes what a configuration waits for, not which one it is.
LEMMA AccountTest == ASSUME Inv, AccountInv, TestConfig PROVE AccountInv'
  <1>1. /\ m_waitingConfigs' =
               [m_waitingConfigs EXCEPT ![it].waiting = Missing(m_waitingConfigs[it].waiting)]
        /\ registered' = registered /\ m_activeConfigs' = m_activeConfigs
        /\ m_waitingConfigs \in Seq(WrapperType)
    BY DEF TestConfig, Inv, Declared
  <1>2. Len(m_waitingConfigs') = Len(m_waitingConfigs)
    BY <1>1
  <1>3. \A i \in 1 .. Len(m_waitingConfigs) :
            \A c : m_waitingConfigs'[i] \in WaitingOf(c) <=> m_waitingConfigs[i] \in WaitingOf(c)
    <2>1. \A i \in 1 .. Len(m_waitingConfigs) : m_waitingConfigs[i] \in WrapperType
      BY <1>1, ElementOfSeq
    <2>2. \A i \in 1 .. Len(m_waitingConfigs) :
              /\ m_waitingConfigs'[i].config = m_waitingConfigs[i].config
              /\ m_waitingConfigs'[i] \in WrapperType
      BY <1>1, <2>1 DEF WrapperType, Missing
    <2>. QED  BY <2>1, <2>2 DEF WaitingOf
  <1>4. \A c : Hits(m_waitingConfigs', WaitingOf(c)) = Hits(m_waitingConfigs, WaitingOf(c))
    BY <1>2, <1>3 DEF Hits
  <1>5. \A c : Number(m_waitingConfigs', WaitingOf(c)) = Number(m_waitingConfigs, WaitingOf(c))
    BY <1>4 DEF Number
  <1>. QED  BY <1>1, <1>5 DEF AccountInv

\* All steps together.
LEMMA AccountInvariance == Spec => []AccountInv
  <1>1. Init => AccountInv
    <2>. SUFFICES ASSUME Init PROVE AccountInv
      OBVIOUS
    <2>1. m_waitingConfigs = <<>> /\ m_activeConfigs = <<>> /\ registered = <<>>
      BY DEF Init
    <2>2. \A P : Number(<<>>, P) = 0
      <3>1. \A P : Hits(<<>>, P) = {}
        BY DEF Hits
      <3>. QED  BY <3>1, FS_EmptySet DEF Number
    <2>. QED  BY <2>1, <2>2, EmptySeq DEF AccountInv
  <1>2. ASSUME Inv, AccountInv, [Next]_vars PROVE AccountInv'
    <2>1. ASSUME UNCHANGED <<m_waitingConfigs, m_activeConfigs, registered>> PROVE AccountInv'
      BY <1>2, <2>1 DEF AccountInv
    <2>2. ASSUME NEW c \in Configs, registerConfiguration(c) PROVE AccountInv'
      BY <1>2, <2>2, AccountRegister
    <2>3. CASE assemble
      BY <2>1, <2>3 DEF assemble
    <2>4. CASE TestConfig
      BY <1>2, <2>4, AccountTest
    <2>5. CASE GetResource \/ GotResource \/ Built \/ PostInitReturns \/ ProvideBean
      BY <2>1, <2>5 DEF GetResource, GotResource, Built, PostInitReturns, ProvideBean
    <2>6. CASE Loaded
      BY <1>2, <2>6, AccountLoaded
    <2>7. CASE AssembleThrows \/ PassEnds
      BY <2>1, <2>7 DEF AssembleThrows, PassEnds
    <2>8. CASE UserStep \/ UNCHANGED vars
      BY <2>1, <2>8 DEF UserStep, vars, contextVars
    <2>. QED  BY <1>2, <2>2, <2>3, <2>4, <2>5, <2>6, <2>7, <2>8 DEF Next, AssembleStep
  <1>. QED  BY <1>1, <1>2, Invariance, PTL DEF Spec

\* A registered configuration is waiting or active, once, whatever assemble()
\* loads and however it is left (registerConfiguration, loadConfig, assemble).
THEOREM NoConfigurationLost == Spec => []NothingLost
  BY Invariance, AccountInvariance, Accounts, PTL DEF Inv

-----------------------------------------------------------------------------
(* The exception that assemble() ends with.  What a wrapper waits for is what *)
(* its class lacks, as of its last test; in a pass that loads nothing no bean *)
(* is registered, so the tests of the pass are still valid at its end.       *)

\* Only what is there has been dropped from a wrapper's list.
Dropped(w) ==
    /\ w.waiting \subseteq getResourceNames(w.config)
    /\ \A n \in getResourceNames(w.config) \ w.waiting : containsBean(n)

\* The list is up to date, and the configuration cannot be loaded.
Tested(w) == w.waiting = Missing(getResourceNames(w.config)) /\ w.waiting # {}

WaitInv ==
    /\ pc = "pass" => calls = <<>>
    /\ \A i \in 1 .. Len(m_waitingConfigs) : Dropped(m_waitingConfigs[i])
    /\ (pc = "pass" /\ ~configProcessed) =>
           \A i \in 1 .. Len(m_waitingConfigs) : i < it => Tested(m_waitingConfigs[i])

\* Beans that come do no harm to the lists.
LEMMA DroppedPersists ==
    ASSUME RepoGrows, decl' = decl, NEW w, Dropped(w)
    PROVE  Dropped(w)'
  BY DEF Dropped, RepoGrows, containsBean, getResourceNames, RESOURCES

\* Steps that leave the wrappers alone and are not those of a pass.
LEMMA WaitPersists ==
    ASSUME WaitInv, RepoGrows, UNCHANGED <<decl, m_waitingConfigs>>, pc' # "pass"
    PROVE  WaitInv'
  BY DroppedPersists DEF WaitInv

\* registerConfiguration adds wrappers that have not been tested yet.
LEMMA WaitRegister ==
    ASSUME NEW c \in Configs, Inv, WaitInv, registerConfiguration(c)
    PROVE  WaitInv'
  <1>. DEFINE all == WithDependencies(decl)[c]
              new == [i \in 1 .. Len(all) |-> Wrapper(all[i])]
              n == Len(m_waitingConfigs)
              m == Len(all)
  <1>1. all \in Seq(Configs)
    BY DependenciesList DEF Inv, Declared
  <1>2. /\ m_waitingConfigs' = m_waitingConfigs \o new /\ pc' = "idle"
        /\ UNCHANGED <<beanVars, decl>>
    BY DEF registerConfiguration, Outside
  <1>. HIDE DEF all
  <1>3. /\ m \in Nat /\ n \in Nat /\ m_waitingConfigs \in Seq(WrapperType)
        /\ \A i \in 1 .. m : all[i] \in Configs
    BY <1>1, ElementOfSeq, LenProperties DEF Inv, Declared
  <1>4. \A i \in 1 .. m : Wrapper(all[i]) \in WrapperType /\ Dropped(Wrapper(all[i]))
    BY <1>3, NamesOfResources DEF Wrapper, WrapperType, Inv, Dropped
  <1>5. new \in Seq(WrapperType) /\ Len(new) = m /\ \A i \in 1 .. m : Dropped(new[i])
    BY <1>3, <1>4, IsASeq
  <1>. HIDE DEF new
  <1>6. /\ Len(m_waitingConfigs \o new) = n + m
        /\ \A i \in 1 .. n + m :
               (m_waitingConfigs \o new)[i] = IF i <= n THEN m_waitingConfigs[i] ELSE new[i - n]
    <2>1. /\ Len(m_waitingConfigs \o new) = n + Len(new)
          /\ \A i \in 1 .. n + Len(new) :
                 (m_waitingConfigs \o new)[i] = IF i <= n THEN m_waitingConfigs[i] ELSE new[i - n]
      BY <1>3, <1>5, ConcatProperties
    <2>2. Len(new) = m
      BY <1>5
    <2>. QED  BY <2>1, <2>2
  <1>7. ASSUME NEW i \in 1 .. Len(m_waitingConfigs')
        PROVE  Dropped(m_waitingConfigs'[i])
    <2>1. CASE i <= n
      <3>1. i \in 1 .. n /\ m_waitingConfigs'[i] = m_waitingConfigs[i]
        BY <1>2, <1>3, <1>6, <2>1
      <3>. QED  BY <3>1 DEF WaitInv
    <2>2. CASE ~(i <= n)
      <3>1. i - n \in 1 .. m /\ m_waitingConfigs'[i] = new[i - n]
        BY <1>2, <1>3, <1>6, <2>2
      <3>. QED  BY <1>5, <3>1
    <2>. QED  BY <2>1, <2>2
  <1>8. RepoGrows
    BY <1>2 DEF RepoGrows, beanVars
  <1>. QED  BY <1>2, <1>7, <1>8, DroppedPersists DEF WaitInv

\* A wrapper that is tested has its list brought up to date.
LEMMA WaitTest == ASSUME Inv, WaitInv, TestConfig PROVE WaitInv'
  <1>. DEFINE missing == Missing(m_waitingConfigs[it].waiting)
              n == Len(m_waitingConfigs)
              w == [m_waitingConfigs[it] EXCEPT !.waiting = missing]
  <1>1. /\ pc = "pass" /\ calls = <<>> /\ it <= n
        /\ m_waitingConfigs' = [m_waitingConfigs EXCEPT ![it].waiting = missing]
        /\ UNCHANGED <<beanVars, decl, configProcessed>>
        /\ \/ pc' = "build"
           \/ pc' = "pass" /\ it' = it + 1 /\ missing # {}
    BY DEF TestConfig, At
  <1>2. m_waitingConfigs \in Seq(WrapperType) /\ n \in Nat /\ it \in 1 .. n
    BY <1>1, LenProperties DEF Inv, Declared, Numbered
  <1>3. m_waitingConfigs[it] \in WrapperType
    BY <1>2, ElementOfSeq
  <1>4. missing = Missing(getResourceNames(m_waitingConfigs[it].config))
    BY <1>2 DEF WaitInv, Dropped, Missing
  <1>5. /\ w.waiting = missing /\ w.config = m_waitingConfigs[it].config
    BY <1>3 DEF WrapperType
  <1>6. /\ Len(m_waitingConfigs') = n /\ m_waitingConfigs'[it] = w
        /\ \A i \in 1 .. n : i # it => m_waitingConfigs'[i] = m_waitingConfigs[i]
    BY <1>1, <1>2
  <1>7. Dropped(w)
    BY <1>4, <1>5 DEF Dropped, Missing
  <1>8. missing # {} => Tested(w)
    BY <1>4, <1>5 DEF Tested
  <1>. HIDE DEF missing, w
  <1>9. \A x : (Dropped(x) <=> Dropped(x)') /\ (Tested(x) <=> Tested(x)')
    BY <1>1 DEF Dropped, Tested, Missing, containsBean, getResourceNames, RESOURCES, beanVars
  <1>10. \A i \in 1 .. n : Dropped(m_waitingConfigs'[i])
    BY <1>6, <1>7 DEF WaitInv
  <1>11. ASSUME pc' = "pass", ~configProcessed, NEW i \in 1 .. n, i < it'
         PROVE  Tested(m_waitingConfigs'[i])
    <2>1. it' = it + 1 /\ missing # {}
      BY <1>1, <1>11
    <2>2. CASE i = it
      BY <1>6, <1>8, <2>1, <2>2
    <2>3. CASE i # it
      <3>1. i < it
        BY <1>2, <1>11, <2>1, <2>3
      <3>. QED  BY <1>1, <1>6, <1>11, <2>3, <3>1 DEF WaitInv
    <2>. QED  BY <2>2, <2>3
  <1>12. calls' = <<>> /\ configProcessed' = configProcessed
    BY <1>1 DEF beanVars
  <1>. QED  BY <1>6, <1>9, <1>10, <1>11, <1>12 DEF WaitInv

\* A pass that has loaded something claims nothing of its tests.
LEMMA WaitLoaded == ASSUME Inv, WaitInv, Loaded PROVE WaitInv'
  <1>. DEFINE n == Len(m_waitingConfigs)
  <1>1. /\ pc = "provide" /\ calls = <<>> /\ configProcessed' = TRUE
        /\ m_waitingConfigs' = SubSeq(m_waitingConfigs, 1, it - 1)
                                 \o SubSeq(m_waitingConfigs, it + 1, Len(m_waitingConfigs))
        /\ UNCHANGED <<beanVars, decl>>
    BY DEF Loaded, At
  <1>2. it \in 1 .. n /\ n \in Nat /\ m_waitingConfigs \in Seq(WrapperType)
    BY <1>1, LenProperties DEF Inv, Progress, AtConfig, Declared
  <1>3. /\ Len(m_waitingConfigs') = n - 1
        /\ \A i \in 1 .. n - 1 :
               m_waitingConfigs'[i] = m_waitingConfigs[IF i < it THEN i ELSE i + 1]
    BY <1>1, <1>2, RemoveFrom
  <1>4. \A i \in 1 .. n - 1 : (IF i < it THEN i ELSE i + 1) \in 1 .. n
    BY <1>2
  <1>5. \A i \in 1 .. n - 1 : Dropped(m_waitingConfigs'[i])
    BY <1>3, <1>4 DEF WaitInv
  <1>6. RepoGrows /\ calls' = <<>>
    BY <1>1 DEF RepoGrows, beanVars
  <1>. QED  BY <1>1, <1>3, <1>5, <1>6, DroppedPersists DEF WaitInv

\* A new pass has tested nothing.
LEMMA WaitPass == ASSUME Inv, WaitInv, assemble \/ PassEnds PROVE WaitInv'
  <1>1. /\ calls = <<>> /\ it' = 1 /\ UNCHANGED <<beanVars, decl, m_waitingConfigs>>
    BY DEF assemble, PassEnds, At, Outside
  <1>2. RepoGrows /\ calls' = <<>>
    BY <1>1 DEF RepoGrows, beanVars
  <1>3. \A i \in 1 .. Len(m_waitingConfigs) : ~(i < 1)
    OBVIOUS
  <1>. QED  BY <1>1, <1>2, <1>3, DroppedPersists DEF WaitInv

\* All steps together.
LEMMA WaitInvariance == Spec => []WaitInv
  <1>1. Init => WaitInv
    BY DEF Init, WaitInv
  <1>2. ASSUME Inv, WaitInv, [Next]_vars PROVE WaitInv'
    <2>1. ASSUME NEW c \in Configs, registerConfiguration(c) PROVE WaitInv'
      BY <1>2, <2>1, WaitRegister
    <2>2. CASE assemble \/ PassEnds
      BY <1>2, <2>2, WaitPass
    <2>3. CASE TestConfig
      BY <1>2, <2>3, WaitTest
    <2>4. CASE Loaded
      BY <1>2, <2>4, WaitLoaded
    <2>5. CASE GetResource
      <3>1. UNCHANGED <<decl, m_waitingConfigs>> /\ pc' = "resource" /\ m_repo' = m_repo
        BY <2>5, GetGrows DEF GetResource
      <3>2. RepoGrows
        BY <3>1 DEF RepoGrows
      <3>. QED  BY <1>2, <3>1, <3>2, WaitPersists
    <2>6. CASE ProvideBean
      <3>1. UNCHANGED <<decl, m_waitingConfigs>> /\ pc' = "provide"
        BY <2>6 DEF ProvideBean, At
      <3>. QED  BY <1>2, <2>6, <3>1, ProvideBeanGrows, WaitPersists
    <2>7. CASE GotResource \/ Built \/ PostInitReturns \/ AssembleThrows
      <3>1. UNCHANGED <<decl, m_waitingConfigs, m_repo>> /\ pc' # "pass"
        BY <2>7 DEF GotResource, Built, PostInitReturns, AssembleThrows, beanVars
      <3>2. RepoGrows
        BY <3>1 DEF RepoGrows
      <3>. QED  BY <1>2, <3>1, <3>2, WaitPersists
    <2>8. CASE UserStep
      <3>1. UNCHANGED <<decl, m_waitingConfigs>> /\ pc' = pc
        BY <2>8 DEF UserStep, contextVars
      <3>2. pc # "pass"
        BY <1>2, <2>8 DEF UserStep, WaitInv
      <3>. QED  BY <1>2, <2>8, <3>1, <3>2, UserStepGrows, WaitPersists
    <2>9. CASE UNCHANGED vars
      <3>1. UNCHANGED <<decl, m_waitingConfigs, pc, it, configProcessed, calls, m_repo>>
        BY <2>9 DEF vars, beanVars, contextVars
      <3>2. ASSUME NEW w PROVE Dropped(w)' = Dropped(w) /\ Tested(w)' = Tested(w)
        BY <3>1 DEF Dropped, Tested, Missing, containsBean, getResourceNames, RESOURCES
      <3>. QED  BY <1>2, <3>1, <3>2 DEF WaitInv
    <2>10. CASE AssembleStep
      BY <2>2, <2>3, <2>4, <2>5, <2>6, <2>7, <2>10 DEF AssembleStep
    <2>. QED  BY <1>2, <2>1, <2>2, <2>8, <2>9, <2>10 DEF Next
  <1>. QED  BY <1>1, <1>2, Invariance, PTL DEF Spec

\* A set of positions that is not empty has a last one.
LEMMA LastOf ==
    ASSUME NEW n \in Nat, NEW Q \in SUBSET (1 .. n), Q # {}
    PROVE  \E i \in Q : \A j \in i + 1 .. n : j \notin Q
  <1>. DEFINE D == {j \in 1 .. n : \E q \in Q : j <= q}
              last == Cardinality(D)
  <1>1. IsFiniteSet(D) /\ last \in Nat
    BY FinitePlaces
  <1>2. Q \subseteq D /\ D \subseteq 1 .. n
    OBVIOUS
  <1>3. ASSUME NEW i \in D PROVE i <= last
    <2>1. (1 .. i) \in SUBSET D
      OBVIOUS
    <2>. HIDE DEF D
    <2>2. Cardinality(1 .. i) <= Cardinality(D)
      BY <1>1, <2>1, FS_Subset
    <2>3. i \in 1 .. n /\ Cardinality(1 .. i) = IF 1 > i THEN 0 ELSE i - 1 + 1
      BY <1>2, FS_Interval
    <2>. QED  BY <1>1, <2>2, <2>3 DEF last
  <1>4. D = 1 .. last
    <2>. HIDE DEF D
    <2>1. D \in SUBSET (1 .. last)
      BY <1>1, <1>2, <1>3
    <2>2. IsFiniteSet(1 .. last) /\ Cardinality(1 .. last) = IF 1 > last THEN 0 ELSE last - 1 + 1
      BY <1>1, FS_Interval
    <2>3. Cardinality(1 .. last) = last
      BY <1>1, <2>2
    <2>. QED  BY <2>1, <2>2, <2>3, FS_Subset DEF last
  <1>. HIDE DEF last
  <1>5. last \in D
    <2>1. PICK i \in D : TRUE
      BY <1>2
    <2>2. i \in 1 .. last
      BY <1>4
    <2>. QED  BY <1>1, <1>4, <2>2
  <1>6. PICK q \in Q : last <= q
    BY <1>5
  <1>7. q = last
    BY <1>1, <1>2, <1>3, <1>6
  <1>8. \A j \in last + 1 .. n : j \notin Q
    <2>1. \A j \in D : j <= last
      BY <1>3
    <2>. HIDE DEF D
    <2>. QED  BY <1>1, <1>2, <2>1
  <1>. QED  BY <1>7, <1>8

\* What the checker is given, after a pass that has loaded nothing: what each
\* class lacks, and a waiting provider for each bean that has one.
LEMMA CheckerIsGiven ==
    ASSUME Inv, WaitInv, \A i \in 1 .. Len(m_waitingConfigs) : Tested(m_waitingConfigs[i])
    PROVE  /\ CheckedResources = Lacks
           /\ \A b \in DOMAIN CheckedSource : CheckedSource[b] \in WaitingNames
           /\ \A c \in WaitingNames : Lacks[c] # {}
  <1>. DEFINE n == Len(m_waitingConfigs)
  <1>1. n \in Nat
    BY LenProperties DEF Inv, Declared
  <1>2. ASSUME NEW c \in WaitingNames
        PROVE  CheckedResources[c] = Lacks[c] /\ Lacks[c] # {}
    <2>. DEFINE Q == {i \in 1 .. n : m_waitingConfigs[i].config = c}
                l == CHOOSE i \in 1 .. n : /\ m_waitingConfigs[i].config = c
                                           /\ \A j \in i + 1 .. n : ~(m_waitingConfigs[j].config = c)
    <2>1. \E i \in Q : \A j \in i + 1 .. n : j \notin Q
      <3>1. Q \in SUBSET (1 .. n) /\ Q # {}
        BY DEF WaitingNames
      <3>. HIDE DEF Q
      <3>. QED  BY <1>1, <3>1, LastOf
    <2>2. l \in 1 .. n /\ m_waitingConfigs[l].config = c
      <3>1. \E i \in 1 .. n : /\ m_waitingConfigs[i].config = c
                              /\ \A j \in i + 1 .. n : ~(m_waitingConfigs[j].config = c)
        BY <1>1, <2>1
      <3>. QED  BY <3>1
    <2>3. CheckedResources[c] = m_waitingConfigs[l].waiting
      BY DEF CheckedResources, LastWaiting
    <2>. HIDE DEF l
    <2>4. Tested(m_waitingConfigs[l])
      BY <2>2
    <2>. QED  BY <2>2, <2>3, <2>4 DEF Tested, Lacks
  <1>3. ASSUME NEW b \in DOMAIN CheckedSource
        PROVE  CheckedSource[b] \in WaitingNames
    <2>. DEFINE Q == {i \in 1 .. n : b \in getBeanNames(m_waitingConfigs[i].config)}
                l == CHOOSE i \in 1 .. n :
                         /\ b \in getBeanNames(m_waitingConfigs[i].config)
                         /\ \A j \in i + 1 .. n : ~(b \in getBeanNames(m_waitingConfigs[j].config))
    <2>1. \E i \in Q : \A j \in i + 1 .. n : j \notin Q
      <3>1. Q \in SUBSET (1 .. n) /\ Q # {}
        BY DEF WaitingNames, CheckedSource
      <3>. HIDE DEF Q
      <3>. QED  BY <1>1, <3>1, LastOf
    <2>2. l \in 1 .. n
      <3>1. \E i \in 1 .. n : /\ b \in getBeanNames(m_waitingConfigs[i].config)
                              /\ \A j \in i + 1 .. n : ~(b \in getBeanNames(m_waitingConfigs[j].config))
        BY <1>1, <2>1
      <3>. QED  BY <3>1
    <2>3. CheckedSource[b] = m_waitingConfigs[l].config
      BY DEF CheckedSource, LastWaiting
    <2>. HIDE DEF l
    <2>. QED  BY <2>2, <2>3 DEF WaitingNames
  <1>4. CheckedResources = Lacks
    BY <1>2 DEF CheckedResources, Lacks
  <1>. QED  BY <1>2, <1>3, <1>4

\* Each step that ends an assembly without an exception of the user's.
LEMMA VerdictStep == ASSUME Inv, WaitInv, [Next]_vars PROVE [Verdict]_vars
  <1>. SUFFICES ASSUME pc = "pass", pc' = "idle", Next PROVE Verdict
    BY DEF Verdict
  <1>. DEFINE n == Len(m_waitingConfigs)
  <1>1. PassEnds
    <2>1. calls = <<>>
      BY DEF WaitInv
    <2>. QED  BY <2>1 DEF Next, AssembleStep, registerConfiguration, assemble, TestConfig, GetResource,
                 GotResource, Built, PostInitReturns, ProvideBean, Loaded, AssembleThrows,
                 UserStep, At, Outside, contextVars
  <1>2. /\ it > n /\ ~configProcessed
        /\ outcome' = IF m_waitingConfigs = <<>> THEN "assembled"
                      ELSE IF HasCycle(CheckedResources, CheckedSource) THEN "cycle"
                      ELSE "initialization"
    BY <1>1 DEF PassEnds
  <1>3. n \in Nat /\ it \in Nat
    BY LenProperties DEF Inv, Declared, Numbered
  <1>4. \A i \in 1 .. n : Tested(m_waitingConfigs[i])
    BY <1>2, <1>3 DEF WaitInv
  <1>5. /\ CheckedResources = Lacks /\ DOMAIN Lacks = WaitingNames
        /\ \A b \in DOMAIN CheckedSource : CheckedSource[b] \in WaitingNames
        /\ \A c \in WaitingNames : Lacks[c] # {}
    BY <1>4, CheckerIsGiven DEF Lacks
  <1>6. m_waitingConfigs = <<>> => ~HasCycle(Lacks, CheckedSource)
    <2>1. m_waitingConfigs = <<>> => WaitingNames = {}
      BY DEF WaitingNames
    <2>. QED  BY <1>5, <2>1 DEF HasCycle
  <1>7. ASSUME outcome' = "initialization"
        PROVE  \E c \in WaitingNames : \E b \in Lacks[c] :
                   \A d \in WaitingNames : b \notin getBeanNames(d)
    <2>1. m_waitingConfigs # <<>> /\ ~HasCycle(Lacks, CheckedSource)
      BY <1>2, <1>5, <1>7
    <2>2. WaitingNames # {}
      <3>1. 1 \in 1 .. n
        BY <2>1, <1>3, EmptySeq DEF Inv, Declared
      <3>. QED  BY <3>1 DEF WaitingNames
    <2>3. PICK c \in WaitingNames :
              \A d \in WaitingNames, r \in DOMAIN CheckedSource : ~Leads(Lacks, CheckedSource, c, r, d)
      BY <1>5, <2>1, <2>2 DEF HasCycle
    <2>4. PICK b \in Lacks[c] : TRUE
      BY <1>5
    <2>5. b \notin DOMAIN CheckedSource
      BY <1>5, <2>3, <2>4 DEF Leads
    <2>6. \A d \in WaitingNames : b \notin getBeanNames(d)
      BY <2>5 DEF CheckedSource
    <2>. QED  BY <2>4, <2>6
  <1>8. (outcome' = "assembled") = (m_waitingConfigs = <<>>)
    BY <1>2
  <1>9. (outcome' = "cycle") = HasCycle(Lacks, CheckedSource)
    <2>1. outcome' = "cycle" <=> HasCycle(Lacks, CheckedSource)
      BY <1>2, <1>5, <1>6
    <2>2. HasCycle(Lacks, CheckedSource) \in BOOLEAN
      BY DEF HasCycle
    <2>. QED  BY <2>1, <2>2
  <1>. QED  BY <1>5, <1>7, <1>8, <1>9 DEF Verdict

\* When assemble() gives up it says why: a cycle is reported iff waiting
\* configurations wait for each other, and otherwise one lacks something that
\* none of them provides; nothing that could be loaded is left (verifyContext,
\* checkForCycle, areResourcesSatisfied).
THEOREM VerdictTheorem == Spec => VerdictIsRight
  BY Invariance, WaitInvariance, VerdictStep, PTL DEF Spec, VerdictIsRight
=============================================================================
