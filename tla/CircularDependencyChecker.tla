--------------------- MODULE CircularDependencyChecker ---------------------
(* di-lib's CircularDependencyChecker: a depth-first search, without marks,  *)
(* through the resources that the remaining configurations wait for.         *)
(* checkAllResources and followResource call each other; a call of both for  *)
(* one configuration is a frame [config, next], where next is the position   *)
(* in the list of resources at which the loop is.                            *)
EXTENDS DependencyGraph

CONSTANTS
    NumConfigs,     \* names of configurations, in the order of std::map
    Beans,          \* names of beans
    Resources,      \* the lists of resources to consider
    MaxAdds         \* bound: calls of add

Configs == 1 .. NumConfigs

ASSUME CheckerAssumption ==
    /\ NumConfigs \in Nat
    /\ MaxAdds \in Nat
    /\ Resources \subseteq Seq(Beans)

VARIABLES
    m_configResources,  \* name -> resources
    m_beanSource,       \* bean -> name
    m_cycle,            \* a stack of <<config, resource>>
    frames,             \* the calls in progress
    current,            \* where the loop of checkForCycle is
    result,             \* "adding", "searching", "cycle" or "none"
    adds                \* calls of add so far

vars == <<m_configResources, m_beanSource, m_cycle, frames, current, result, adds>>

Names == DOMAIN m_configResources
Top == frames[Len(frames)]
Pop(s) == SubSeq(s, 1, Len(s) - 1)

Init ==
    /\ m_configResources = <<>> /\ m_beanSource = <<>>
    /\ m_cycle = <<>> /\ frames = <<>> /\ current = 0
    /\ result = "adding" /\ adds = 0

\* A later configuration of the same name, or source of the same bean, wins.
Add(name, resources, beans) ==
    /\ result = "adding" /\ adds < MaxAdds
    /\ adds' = adds + 1
    /\ m_configResources' =
           [c \in Names \cup {name} |-> IF c = name THEN resources ELSE m_configResources[c]]
    /\ m_beanSource' =
           [b \in DOMAIN m_beanSource \cup beans |->
                IF b \in beans THEN name ELSE m_beanSource[b]]
    /\ UNCHANGED <<m_cycle, frames, current, result>>

\* mutant: looks only at the first configuration.
OnlyFirst == IF current = 0 THEN Names ELSE {}

\* The configurations that the loop of checkForCycle has yet to come to.
Remaining == {c \in Names : c > current}

\* checkForCycle goes on to the next configuration,
CheckConfig(c) ==
    /\ result \in {"adding", "searching"} /\ frames = <<>>
    /\ c \in Remaining /\ \A d \in Remaining : c <= d
    /\ current' = c
    /\ frames' = <<[config |-> c, next |-> 1]>>
    /\ result' = "searching"
    /\ UNCHANGED <<m_configResources, m_beanSource, m_cycle, adds>>

\* or returns false when it has seen them all.
CheckDone ==
    /\ result \in {"adding", "searching"} /\ frames = <<>>
    /\ Remaining = {}
    /\ result' = "none"
    /\ UNCHANGED <<m_configResources, m_beanSource, m_cycle, frames, current, adds>>

\* mutant: keeps the way to the cycle.
NotMinimized(cycle) == cycle

\* minimizeCycle: from the first occurrence of the last element on.
Minimized(cycle) ==
    LET first == CHOOSE i \in 1 .. Len(cycle) :
                     /\ cycle[i] = cycle[Len(cycle)]
                     /\ \A j \in 1 .. i - 1 : cycle[j] # cycle[Len(cycle)]
    IN SubSeq(cycle, first, Len(cycle))

Resource == m_configResources[Top.config][Top.next]
Compound == <<Top.config, Resource>>
Seen == \E i \in 1 .. Len(m_cycle) : m_cycle[i] = Compound
Provided == Resource \in DOMAIN m_beanSource /\ m_beanSource[Resource] \in Names
Searching == result = "searching" /\ frames # <<>>
HasResource == Top.next <= Len(m_configResources[Top.config])
Advance(fs) == [fs EXCEPT ![Len(fs)].next = @ + 1]

\* followResource meets what is on the stack already: everything returns true.
FollowSeen ==
    /\ Searching /\ HasResource /\ Seen
    /\ m_cycle' = Minimized(Append(m_cycle, Compound))
    /\ frames' = <<>> /\ result' = "cycle"
    /\ UNCHANGED <<m_configResources, m_beanSource, current, adds>>

\* followResource goes on to the configuration that provides the resource.
FollowSource ==
    /\ Searching /\ HasResource /\ ~Seen /\ Provided
    /\ m_cycle' = Append(m_cycle, Compound)
    /\ frames' = Append(frames, [config |-> m_beanSource[Resource], next |-> 1])
    /\ UNCHANGED <<m_configResources, m_beanSource, current, result, adds>>

\* Nobody provides the resource: it is pushed, popped, and the loop goes on.
FollowNowhere ==
    /\ Searching /\ HasResource /\ ~Seen /\ ~Provided
    /\ frames' = Advance(frames)
    /\ UNCHANGED <<m_configResources, m_beanSource, m_cycle, current, result, adds>>

\* mutant: the caller's loop does not go on after a fruitless search.
ReturnNoAdvance ==
    /\ Searching /\ ~HasResource
    /\ IF Len(frames) = 1
       THEN frames' = <<>> /\ UNCHANGED m_cycle
       ELSE frames' = Pop(frames) /\ m_cycle' = Pop(m_cycle)
    /\ UNCHANGED <<m_configResources, m_beanSource, current, result, adds>>

\* checkAllResources is through with a configuration and returns false; so
\* does the followResource that called it, and its caller's loop goes on.
ReturnFalse ==
    /\ Searching /\ ~HasResource
    /\ IF Len(frames) = 1
       THEN frames' = <<>> /\ UNCHANGED m_cycle
       ELSE frames' = Advance(Pop(frames)) /\ m_cycle' = Pop(m_cycle)
    /\ UNCHANGED <<m_configResources, m_beanSource, current, result, adds>>

checkForCycle ==
    \/ \E c \in Configs : CheckConfig(c)
    \/ CheckDone
    \/ FollowSeen \/ FollowSource \/ FollowNowhere \/ ReturnFalse

Next ==
    \/ \E name \in Configs, resources \in Resources, beans \in SUBSET Beans :
           Add(name, resources, beans)
    \/ checkForCycle

Spec == Init /\ [][Next]_vars
FairSpec == Spec /\ WF_vars(checkForCycle)

-----------------------------------------------------------------------------
\* What a configuration waits for, in whatever order.
Waits ==
    [c \in Names |->
        {m_configResources[c][i] : i \in 1 .. Len(m_configResources[c])}]

Frame == [config : Names, next : Nat \ {0}]

TypeOK ==
    /\ Names \subseteq Configs /\ \A c \in Names : m_configResources[c] \in Seq(Beans)
    /\ DOMAIN m_beanSource \subseteq Beans
    /\ \A b \in DOMAIN m_beanSource : m_beanSource[b] \in Names
    /\ m_cycle \in Seq(Configs \X Beans)
    /\ frames \in Seq(Frame)
    /\ current \in Nat /\ adds \in Nat
    /\ result \in {"adding", "searching", "cycle", "none"}

\* While the search is on, m_cycle is the walk from the configuration the
\* search started at to the one under examination, with no step twice.
SearchPath ==
    Searching =>
        /\ Len(frames) = Len(m_cycle) + 1
        /\ \A i \in 1 .. Len(m_cycle) :
               /\ m_cycle[i][1] = frames[i].config
               /\ Leads(Waits, m_beanSource,
                        m_cycle[i][1], m_cycle[i][2], frames[i + 1].config)
        /\ \A i, j \in 1 .. Len(m_cycle) : m_cycle[i] = m_cycle[j] => i = j

\* What getCycle() reports is a circle of configurations that wait for each
\* other, and as small as it can be: nothing but the first element repeats.
CycleIsReal ==
    result = "cycle" =>
        /\ ClosedWalk(Waits, m_beanSource, m_cycle)
        /\ \A i, j \in 1 .. Len(m_cycle) - 1 : m_cycle[i] = m_cycle[j] => i = j

\* checkForCycle() returns false only if there is no circle, wherever a
\* circle is and whatever other resources have no source.
NoCycleMissed == result = "none" => ~HasCycle(Waits, m_beanSource)

\* The search ends, although it marks nothing as visited.
SearchEnds == (result = "searching") ~> (result \in {"cycle", "none"})
=============================================================================
