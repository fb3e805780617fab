----------------------------- MODULE MCContext -----------------------------
(* Context for TLC: programs of two or three configurations and two beans.   *)
EXTENDS Context, TLC

CONSTANTS ConfA, ConfB, ConfC, beanX, beanY, TypeT, TypeU

MCConfigs == {ConfA, ConfB, ConfC}
MCNames == {beanX, beanY}

Class(resources, beans, dependencies) ==
    [resources |-> resources, beans |-> beans, dependencies |-> dependencies]
Resource(n) == [name |-> n, type |-> TypeT]
Bean(n, kind) == [name |-> n, type |-> TypeT, kind |-> kind]
Plain == Class(<<>>, <<>>, <<>>)

MCDeclarations == {
    \* ConfC <- ConfB <- ConfA, registered together; the last is the only one without resources.
    ConfA :> Class(<<Resource(beanX), Resource(beanY)>>, <<>>, <<ConfB, ConfC>>) @@
    ConfB :> Class(<<Resource(beanY)>>, <<Bean(beanX, "pointer")>>, <<>>) @@
    ConfC :> Class(<<>>, <<Bean(beanY, "factory")>>, <<>>),
    \* ConfA and ConfB wait for each other, ConfC for ConfA.
    ConfA :> Class(<<Resource(beanX)>>, <<Bean(beanY, "instance")>>, <<>>) @@
    ConfB :> Class(<<Resource(beanY)>>, <<Bean(beanX, "instance")>>, <<>>) @@
    ConfC :> Class(<<Resource(beanY)>>, <<>>, <<ConfA, ConfB>>),
    \* ConfA depends on ConfB and ConfB on ConfA; a resource of another type.
    ConfA :> Class(<<>>, <<Bean(beanX, "reference"), Bean(beanY, "pointer")>>, <<ConfB>>) @@
    ConfB :> Class(<<[name |-> beanX, type |-> TypeU]>>, <<>>, <<ConfA>>) @@
    ConfC :> Plain,
    \* ConfA waits for itself; ConfB and ConfC provide the same bean.
    ConfA :> Class(<<Resource(beanY)>>, <<Bean(beanY, "pointer")>>, <<>>) @@
    ConfB :> Class(<<>>, <<Bean(beanX, "pointer")>>, <<>>) @@
    ConfC :> Class(<<>>, <<Bean(beanX, "instance")>>, <<ConfB>>)}
=============================================================================
