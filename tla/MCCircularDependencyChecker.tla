-------------------- MODULE MCCircularDependencyChecker --------------------
(* CircularDependencyChecker for TLC: up to two different resources each.    *)
EXTENDS CircularDependencyChecker

MCBeans == {"a", "b", "c"}
MCResources ==
    {<<>>} \cup {<<x>> : x \in MCBeans}
           \cup {<<p[1], p[2]>> : p \in {q \in MCBeans \X MCBeans : q[1] # q[2]}}
=============================================================================
