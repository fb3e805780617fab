-------------------------- MODULE DependencyGraph --------------------------
(* What it means for configurations to depend on each other in a circle.     *)
(* resources maps a configuration to the set of the resources it waits for,  *)
(* source a bean to the configuration that is to provide it.                 *)
EXTENDS Naturals, Sequences

\* source[r] is where the search goes on from a configuration that waits for r.
Leads(resources, source, c, r, d) ==
    /\ c \in DOMAIN resources /\ r \in resources[c]
    /\ r \in DOMAIN source /\ source[r] = d

\* There is a circle among finitely many configurations iff there are some of
\* which each waits for something that one of them is to provide.
HasCycle(resources, source) ==
    \E S \in SUBSET DOMAIN resources :
        /\ S # {}
        /\ \A c \in S : \E d \in S, r \in DOMAIN source :
               Leads(resources, source, c, r, d)

\* cycle is a closed walk: a sequence of pairs <<configuration, resource>> each
\* of which leads to the configuration of the next, with equal ends.
ClosedWalk(resources, source, cycle) ==
    /\ Len(cycle) >= 2 /\ cycle[1] = cycle[Len(cycle)]
    /\ \A i \in 1 .. Len(cycle) - 1 :
           Leads(resources, source, cycle[i][1], cycle[i][2], cycle[i + 1][1])
=============================================================================
