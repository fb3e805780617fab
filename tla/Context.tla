------------------------------ MODULE Context ------------------------------
(* di-lib's Context, a BeanManager that loads configurations: a              *)
(* configuration is built when all of its resources are registered, gets     *)
(* them with getBean(), runs its postInit() and provides its beans.          *)
(* assemble() goes over the waiting configurations until a pass loads none.  *)
(* User code that runs meanwhile uses the manager, but does not register     *)
(* configurations or call assemble() again.                                  *)
EXTENDS BeanManager, DependencyGraph, FiniteSets

CONSTANTS
    Configs,            \* classes of configurations
    Declarations,       \* what the classes may declare, see decl
    MaxRegistrations,   \* bound: calls of registerConfiguration
    MaxAssembles        \* bound: calls of assemble

\* RESOURCES, BEANS and DEPENDENCIES of a class.
Declaration ==
    [resources : Seq([name : Names, type : Types]),
     beans : Seq([name : Names \cup {NoName}, type : Types, kind : Kinds]),
     dependencies : Seq(Configs)]

\* registerConfiguration pushes c and then its DEPENDENCIES, which do the same;
\* the macro's flag isLoading stops a class that is being registered from
\* registering its dependencies again, but not from being pushed again.
WithDependencies(d) ==
    LET With[loading \in SUBSET Configs] ==
            [c \in Configs |->
                LET deps == d[c].dependencies
                    Upto[i \in 0 .. Len(deps)] ==
                        IF i = 0 THEN <<c>>
                        ELSE Upto[i - 1] \o With[loading \cup {c}][deps[i]]
                IN IF c \in loading THEN <<c>> ELSE Upto[Len(deps)]]
    IN With[{}]

\* A program has finitely many classes.
ASSUME ContextAssumption ==
    /\ MaxRegistrations \in Nat /\ MaxAssembles \in Nat
    /\ IsFiniteSet(Configs) /\ Declarations \subseteq [Configs -> Declaration]

VARIABLES
    decl,               \* what the program's configurations declare
    m_waitingConfigs,   \* sequence of wrappers [config, waiting]: a class, what it lacks
    m_activeConfigs,    \* sequence of [config, id]
    pc,                 \* where assemble is
    it,                 \* its iterator
    k,                  \* the resource, or bean, that the configuration is at
    configProcessed,
    outcome,            \* how the last assemble ended
    built,              \* configurations constructed so far: gives them an id
    registered,         \* configurations registered, in order
    assembles           \* calls of assemble so far

contextVars == <<decl, m_waitingConfigs, m_activeConfigs, pc, it, k, configProcessed,
                 outcome, built, registered, assembles>>
vars == <<beanVars, contextVars>>

\* The RESOURCES macro: members initialised in this order with getBean, and
\* their names, of which only the set matters.
RESOURCES(c) == decl[c].resources
getResourceNames(c) == {RESOURCES(c)[i].name : i \in 1 .. Len(RESOURCES(c))}

\* The BEANS macro: what provideBeans registers, in this order, and the names.
BEANS(c) == decl[c].beans
getBeanNames(c) == {BEANS(c)[i].name : i \in 1 .. Len(BEANS(c))}

Init ==
    /\ BeanInit
    /\ decl \in Declarations
    /\ m_waitingConfigs = <<>> /\ m_activeConfigs = <<>>
    /\ pc = "idle" /\ it = 1 /\ k = 1 /\ configProcessed = FALSE
    /\ outcome = "none" /\ built = 0 /\ registered = <<>> /\ assembles = 0

\* ConfigurationWrapper: at first it waits for all resources.
Wrapper(c) == [config |-> c, waiting |-> getResourceNames(c)]

\* Code outside the context runs; it has handled every exception.
Outside == pc = "idle" /\ calls = <<>> /\ raised = "none"

registerConfiguration(c) ==
    /\ Outside /\ Len(registered) < MaxRegistrations
    /\ LET all == WithDependencies(decl)[c] IN
       /\ m_waitingConfigs' = m_waitingConfigs \o [i \in 1 .. Len(all) |-> Wrapper(all[i])]
       /\ registered' = registered \o all
    /\ UNCHANGED <<beanVars, decl, m_activeConfigs, pc, it, k, configProcessed,
                   outcome, built, assembles>>

assemble ==
    /\ Outside /\ assembles < MaxAssembles
    /\ assembles' = assembles + 1
    /\ pc' = "pass" /\ it' = 1 /\ configProcessed' = FALSE /\ outcome' = "none"
    /\ UNCHANGED <<beanVars, decl, m_waitingConfigs, m_activeConfigs, k, built, registered>>

\* assemble itself runs, not a constructor called from it.
At(place) == pc = place /\ calls = <<>>

Missing(names) == {n \in names : ~containsBean(n)}

\* loadConfig: areResourcesSatisfied drops what has become available.
TestConfig ==
    /\ At("pass") /\ it <= Len(m_waitingConfigs)
    /\ LET missing == Missing(m_waitingConfigs[it].waiting) IN
       /\ m_waitingConfigs' = [m_waitingConfigs EXCEPT ![it].waiting = missing]
       /\ IF missing = {} THEN pc' = "build" /\ k' = 1 /\ UNCHANGED it
                            ELSE it' = it + 1 /\ UNCHANGED <<pc, k>>
    /\ UNCHANGED <<beanVars, decl, m_activeConfigs, configProcessed, outcome, built,
                   registered, assembles>>

Config == m_waitingConfigs[it].config

\* buildConfig: the constructor gets its resources one by one.
GetResource ==
    /\ At("build") /\ k <= Len(RESOURCES(Config))
    /\ getBean(RESOURCES(Config)[k].name, RESOURCES(Config)[k].type)
    /\ pc' = "resource"
    /\ UNCHANGED <<userCalls, decl, m_waitingConfigs, m_activeConfigs, it, k, configProcessed,
                   outcome, built, registered, assembles>>

GotResource ==
    /\ At("resource") /\ raised = "none"
    /\ pc' = "build" /\ k' = k + 1
    /\ UNCHANGED <<beanVars, decl, m_waitingConfigs, m_activeConfigs, it, configProcessed,
                   outcome, built, registered, assembles>>

Built ==
    /\ At("build") /\ k > Len(RESOURCES(Config))
    /\ built' = built + 1 /\ pc' = "postInit"
    /\ UNCHANGED <<beanVars, decl, m_waitingConfigs, m_activeConfigs, it, k, configProcessed,
                   outcome, registered, assembles>>

\* initialize: postInit is user code; when it returns the beans are provided.
PostInitReturns ==
    /\ At("postInit") /\ raised = "none"
    /\ pc' = "provide" /\ k' = 1
    /\ UNCHANGED <<beanVars, decl, m_waitingConfigs, m_activeConfigs, it, configProcessed,
                   outcome, built, registered, assembles>>

ProvideBean ==
    /\ At("provide") /\ raised = "none" /\ k <= Len(BEANS(Config))
    /\ LET bean == BEANS(Config)[k] IN
       Register(bean.name, Provider(bean.type, bean.kind, built))
    /\ k' = k + 1
    /\ UNCHANGED <<userCalls, decl, m_waitingConfigs, m_activeConfigs, pc, it, configProcessed,
                   outcome, built, registered, assembles>>

\* mutant: the wrapper of a loaded configuration is not erased.
LoadedNotErased ==
    /\ At("provide") /\ raised = "none" /\ k > Len(BEANS(Config))
    /\ m_activeConfigs' = Append(m_activeConfigs, [config |-> Config, id |-> built])
    /\ it' = it + 1
    /\ configProcessed' = TRUE /\ pc' = "pass"
    /\ UNCHANGED <<beanVars, decl, m_waitingConfigs, k, outcome, built, registered, assembles>>

\* mutant: a pass that loads something is not followed by another.
LoadedUnnoticed ==
    /\ At("provide") /\ raised = "none" /\ k > Len(BEANS(Config))
    /\ m_activeConfigs' = Append(m_activeConfigs, [config |-> Config, id |-> built])
    /\ m_waitingConfigs' = SubSeq(m_waitingConfigs, 1, it - 1)
                             \o SubSeq(m_waitingConfigs, it + 1, Len(m_waitingConfigs))
    /\ pc' = "pass"
    /\ UNCHANGED <<beanVars, decl, it, k, configProcessed, outcome, built, registered, assembles>>

\* loadConfig returns true; assemble erases the wrapper.
Loaded ==
    /\ At("provide") /\ raised = "none" /\ k > Len(BEANS(Config))
    /\ m_activeConfigs' = Append(m_activeConfigs, [config |-> Config, id |-> built])
    /\ m_waitingConfigs' = SubSeq(m_waitingConfigs, 1, it - 1)
                             \o SubSeq(m_waitingConfigs, it + 1, Len(m_waitingConfigs))
    /\ configProcessed' = TRUE /\ pc' = "pass"
    /\ UNCHANGED <<beanVars, decl, it, k, outcome, built, registered, assembles>>

\* An exception of getBean, postInit or provideBeans leaves assemble; the
\* wrapper stays, and so do the beans registered so far.
AssembleThrows ==
    /\ \/ pc \in {"resource", "postInit", "provide"} /\ calls = <<>> /\ raised # "none"
       \/ At("postInit") /\ raised = "none"
    /\ pc' = "idle" /\ outcome' = "thrown" /\ raised' = "none"
    /\ UNCHANGED <<m_repo, m_beanNameStack, calls, made, unwound, userCalls, decl,
                   m_waitingConfigs, m_activeConfigs, it, k, configProcessed, built,
                   registered, assembles>>

\* checkForCycle fills the checker with the waiting configurations; a later
\* one of the same name, or source of the same bean, wins.
WaitingNames == {m_waitingConfigs[i].config : i \in 1 .. Len(m_waitingConfigs)}
LastWaiting(P(_)) ==
    CHOOSE i \in 1 .. Len(m_waitingConfigs) :
        P(i) /\ \A j \in i + 1 .. Len(m_waitingConfigs) : ~P(j)
CheckedResources ==
    [c \in WaitingNames |->
        m_waitingConfigs[LastWaiting(LAMBDA i : m_waitingConfigs[i].config = c)].waiting]
CheckedSource ==
    [b \in UNION {getBeanNames(c) : c \in WaitingNames} |->
        m_waitingConfigs[LastWaiting(LAMBDA i : b \in getBeanNames(m_waitingConfigs[i].config))].config]

\* mutant: configProcessed is not reset for the next pass.
PassEndsNoReset ==
    /\ At("pass") /\ it > Len(m_waitingConfigs)
    /\ it' = 1
    /\ IF configProcessed THEN UNCHANGED <<pc, outcome>>
       ELSE pc' = "idle" /\ outcome' = "initialization"
    /\ UNCHANGED <<beanVars, decl, m_waitingConfigs, m_activeConfigs, k, built, registered,
                   assembles, configProcessed>>

\* The end of a pass: another one, or verifyContext.
PassEnds ==
    /\ At("pass") /\ it > Len(m_waitingConfigs)
    /\ it' = 1 /\ configProcessed' = FALSE
    /\ IF configProcessed THEN UNCHANGED <<pc, outcome>>
       ELSE /\ pc' = "idle"
            /\ outcome' = IF m_waitingConfigs = <<>> THEN "assembled"
                          ELSE IF HasCycle(CheckedResources, CheckedSource) THEN "cycle"
                          ELSE "initialization"
    /\ UNCHANGED <<beanVars, decl, m_waitingConfigs, m_activeConfigs, k, built, registered,
                   assembles>>

\* User code: outside, in postInit, or in a constructor of a bean.
UserStep ==
    /\ UserCall \/ Constructor \/ (Catch /\ (calls # <<>> \/ pc \in {"idle", "postInit"}))
    /\ calls # <<>> \/ pc \in {"idle", "postInit"}
    /\ UNCHANGED contextVars

AssembleStep ==
    \/ TestConfig \/ GetResource \/ GotResource \/ Built \/ PostInitReturns
    \/ ProvideBean \/ Loaded \/ AssembleThrows \/ PassEnds

Next ==
    \/ \E c \in Configs : registerConfiguration(c)
    \/ assemble
    \/ AssembleStep
    \/ UserStep

Spec == Init /\ [][Next]_vars

\* Constructors come to an end; assemble goes on.
FairSpec == Spec /\ WF_vars(AssembleStep) /\ WF_vars(Constructor /\ UNCHANGED contextVars)

-----------------------------------------------------------------------------
Count(s, P(_)) == Cardinality({i \in 1 .. Len(s) : P(s[i])})

\* A registered configuration is waiting or active, and neither twice nor
\* lost, however often assemble() fails half-way and is called again.
NothingLost ==
    \A c \in Configs :
        Count(registered, LAMBDA d : d = c)
          = Count(m_waitingConfigs, LAMBDA w : w.config = c)
            + Count(m_activeConfigs, LAMBDA a : a.config = c)

\* The resources of an active configuration are there, and were so before it
\* was built: no configuration runs before those it depends on.
ActiveInOrder ==
    \A i \in 1 .. Len(m_activeConfigs) :
        \A j \in 1 .. Len(RESOURCES(m_activeConfigs[i].config)) :
            LET r == RESOURCES(m_activeConfigs[i].config)[j] IN
            /\ containsBean(r.name) /\ m_repo[r.name].type = r.type
            /\ m_repo[r.name].by < m_activeConfigs[i].id

\* What a waiting configuration really lacks, and who is to provide it.
Lacks == [c \in WaitingNames |-> Missing(getResourceNames(c))]

\* The step by which assemble() ends, unless by an exception of the user's.
Verdict ==
    (pc = "pass" /\ pc' = "idle") =>
        /\ (outcome' = "assembled") = (m_waitingConfigs = <<>>)
        /\ \A c \in WaitingNames : Lacks[c] # {}
        /\ (outcome' = "cycle") = HasCycle(Lacks, CheckedSource)
        /\ outcome' = "initialization" =>
               \E c \in WaitingNames : \E n \in Lacks[c] :
                   \A d \in WaitingNames : n \notin getBeanNames(d)

\* When assemble() gives up without another exception it says why: it reports
\* a cycle iff waiting configurations wait for each other, and otherwise one
\* of them lacks a resource that none of them provides.  No configuration that
\* could be loaded is left behind.
VerdictIsRight == [][Verdict]_vars

\* assemble() returns or throws, provided that constructors do.
AssembleEnds == (pc # "idle") ~> (pc = "idle")
=============================================================================
