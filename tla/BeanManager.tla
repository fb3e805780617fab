---------------------------- MODULE BeanManager ----------------------------
(* di-lib's BeanManager: the repository of beans, and getBean(), which runs  *)
(* constructors that may call the manager again.  User code (whoever calls   *)
(* from outside, or the constructor of the bean on top of calls) runs while  *)
(* raised is "none"; otherwise an exception is on its way to it.  The build  *)
(* without ENABLE_BEAN_AUTOREGISTRATION is modelled.                         *)
EXTENDS Naturals, Sequences

CONSTANTS
    Names,          \* names of beans
    NoName,         \* the empty name
    Types,          \* types of beans
    MaxCalls        \* bound: calls made by user code

ASSUME BeanAssumption ==
    /\ NoName \notin Names
    /\ MaxCalls \in Nat

\* BeanInstanceProvider; BeanCreatorProvider with a SingletonBeanCreator of a
\* reference (made when it is registered) or of a pointer (made at the first
\* request), or with a FactoryBeanCreator (made at each request).
Kinds == {"instance", "reference", "pointer", "factory"}

VARIABLES
    m_repo,             \* name -> provider
    m_beanNameStack,    \* names of the beans being retrieved, as the code sees it
    calls,              \* the beans whose constructors are running
    raised,             \* the exception on its way, or "none"
    made,               \* instances made, per bean with a singleton creator
    unwound,            \* has an exception left a name on the stack?
    userCalls           \* calls made by user code so far

beanVars == <<m_repo, m_beanNameStack, calls, raised, made, unwound, userCalls>>

Pop(s) == SubSeq(s, 1, Len(s) - 1)
Top == calls[Len(calls)]

\* Provider(type, kind, by): by tells who registered it, for the properties.
Provider(type, kind, by) == [type |-> type, kind |-> kind, by |-> by]

BeanInit ==
    /\ m_repo = <<>> /\ m_beanNameStack = <<>> /\ calls = <<>>
    /\ raised = "none" /\ made = [n \in Names |-> 0]
    /\ unwound = FALSE /\ userCalls = 0

containsBean(n) == n \in DOMAIN m_repo

\* registerBean, registerBeanInstance: verifyCanAddBean throws,
RegisterRefused(n) ==
    /\ raised = "none" /\ (n = NoName \/ containsBean(n))
    /\ raised' = "name"
    /\ UNCHANGED <<m_repo, m_beanNameStack, calls, made, unwound>>

\* or the provider is created and stored.
RegisterAdded(n, provider) ==
    /\ raised = "none" /\ n \in Names /\ ~containsBean(n)
    /\ m_repo' = [m \in DOMAIN m_repo \cup {n} |-> IF m = n THEN provider ELSE m_repo[m]]
    /\ made' = IF provider.kind = "reference" THEN [made EXCEPT ![n] = @ + 1] ELSE made
    /\ UNCHANGED <<m_beanNameStack, calls, raised, unwound>>

\* The singleton of a reference is made with its provider, and that may fail.
RegisterFails(n, provider) ==
    /\ raised = "none" /\ n \in Names /\ ~containsBean(n)
    /\ provider.kind = "reference"
    /\ raised' = "user"
    /\ UNCHANGED <<m_repo, m_beanNameStack, calls, made, unwound>>

Register(n, provider) ==
    RegisterRefused(n) \/ RegisterAdded(n, provider) \/ RegisterFails(n, provider)

\* mutant: a cycle is only seen when a bean requests itself.
OnStackTop(n) == m_beanNameStack # <<>> /\ m_beanNameStack[Len(m_beanNameStack)] = n

OnStack(n) == \E i \in 1 .. Len(m_beanNameStack) : m_beanNameStack[i] = n

\* getBean of a name nobody registered,
GetUnknown(n) ==
    /\ raised = "none" /\ ~containsBean(n)
    /\ raised' = "name"
    /\ UNCHANGED <<m_repo, m_beanNameStack, calls, made, unwound>>

\* of a bean that seems to be under construction: the name stays on the stack,
GetCycle(n) ==
    /\ raised = "none" /\ containsBean(n) /\ OnStack(n)
    /\ raised' = "cycle"
    /\ m_beanNameStack' = Append(m_beanNameStack, n)
    /\ unwound' = TRUE
    /\ UNCHANGED <<m_repo, calls, made>>

\* of another type: the name is pushed and popped,
GetWrongType(n, type) ==
    /\ raised = "none" /\ containsBean(n) /\ ~OnStack(n)
    /\ m_repo[n].type # type
    /\ raised' = "type"
    /\ UNCHANGED <<m_repo, m_beanNameStack, calls, made, unwound>>

\* Will the provider of n run a constructor?
MustCreate(n) ==
    \/ m_repo[n].kind = "factory"
    \/ m_repo[n].kind = "pointer" /\ made[n] = 0

\* mutant: the type is not compared.
GetReadyUntyped(n, type) ==
    /\ raised = "none" /\ containsBean(n) /\ ~OnStack(n) /\ ~MustCreate(n)
    /\ UNCHANGED <<m_repo, m_beanNameStack, calls, raised, made, unwound>>

\* of a bean that is there: the name is pushed and popped,
GetReady(n, type) ==
    /\ raised = "none" /\ containsBean(n) /\ ~OnStack(n)
    /\ m_repo[n].type = type /\ ~MustCreate(n)
    /\ UNCHANGED <<m_repo, m_beanNameStack, calls, raised, made, unwound>>

\* or of one that has to be constructed first.
GetCreate(n, type) ==
    /\ raised = "none" /\ containsBean(n) /\ ~OnStack(n)
    /\ m_repo[n].type = type /\ MustCreate(n)
    /\ m_beanNameStack' = Append(m_beanNameStack, n)
    /\ calls' = Append(calls, n)
    /\ UNCHANGED <<m_repo, raised, made, unwound>>

getBean(n, type) ==
    \/ GetUnknown(n) \/ GetCycle(n) \/ GetWrongType(n, type)
    \/ GetReady(n, type) \/ GetCreate(n, type)

\* The constructor on top returns, and getBean with it: whatever name is last
\* on the stack is popped.
Created ==
    /\ calls # <<>> /\ raised = "none"
    /\ made' = IF m_repo[Top].kind = "pointer" THEN [made EXCEPT ![Top] = @ + 1] ELSE made
    /\ calls' = Pop(calls)
    /\ m_beanNameStack' = Pop(m_beanNameStack)
    /\ UNCHANGED <<m_repo, raised, unwound, userCalls>>

\* It throws, or lets an exception pass; getBean does not pop the name.
ConstructorThrows ==
    /\ calls # <<>>
    /\ raised' = IF raised = "none" THEN "user" ELSE raised
    /\ calls' = Pop(calls)
    /\ unwound' = TRUE
    /\ UNCHANGED <<m_repo, m_beanNameStack, made, userCalls>>

\* The code that called the manager handles the exception.
Catch ==
    /\ raised # "none"
    /\ raised' = "none"
    /\ UNCHANGED <<m_repo, m_beanNameStack, calls, made, unwound, userCalls>>

\* What user code may ask of the manager.
UserCall ==
    /\ userCalls < MaxCalls
    /\ userCalls' = userCalls + 1
    /\ \/ \E n \in Names, type \in Types : getBean(n, type)
       \/ \E n \in Names \cup {NoName}, type \in Types, kind \in Kinds :
              Register(n, Provider(type, kind, 0))

Constructor == Created \/ ConstructorThrows

BeanNext == UserCall \/ Constructor \/ Catch

BeanSpec == BeanInit /\ [][BeanNext]_beanVars

-----------------------------------------------------------------------------
\* Every constructor in progress has its name on the stack, with at least as
\* many names above it as there are constructors above it.  So names that
\* exceptions left behind never make the manager forget one in progress.
CallsOnStack ==
    /\ Len(calls) <= Len(m_beanNameStack)
    /\ \A i \in 1 .. Len(calls) :
           \E j \in 1 .. Len(m_beanNameStack) - Len(calls) + i : m_beanNameStack[j] = calls[i]

\* No bean is constructed inside its own construction, whatever the
\* constructors call, throw and catch: the cycle check ends every recursion.
NeverReentered == \A i, j \in 1 .. Len(calls) : calls[i] = calls[j] => i = j

\* A singleton is made at most once, and not at all once it is there.
SingletonOnce ==
    /\ \A n \in Names : made[n] <= 1
    /\ \A i \in 1 .. Len(calls) :
           m_repo[calls[i]].kind \in {"pointer", "reference"} => made[calls[i]] = 0

\* As long as no exception has left a constructor, m_beanNameStack lists
\* exactly the constructors in progress.
StackIsCallStack == ~unwound => m_beanNameStack = calls
=============================================================================
