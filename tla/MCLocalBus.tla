----------------------------- MODULE MCLocalBus -----------------------------
(* LocalBus for TLC: two instances of type 1 and one of type 2, one of      *)
(* which does not know the second message; the four kinds of addressing.    *)
EXTENDS LocalBus

CONSTANTS n1, n2, n3

MCConns == {n1, n2, n3}
MCType == n1 :> 1 @@ n2 :> 1 @@ n3 :> 2
MCInstance == n1 :> 1 @@ n2 :> 2 @@ n3 :> 1
MCKnown == n1 :> {"m"} @@ n2 :> {"m", "n"} @@ n3 :> {"m", "n"}
MCPackets ==
    {[type |-> t, instance |-> i, message |-> "m"] : t \in {-1, 1}, i \in {-1, 1}}
      \cup {[type |-> -1, instance |-> -1, message |-> "n"],
            [type |-> 3, instance |-> 1, message |-> "m"]}

\* Node's listener x everywhere, a second one on n3; or x twice on n3.
MCAttached == {n1 :> <<"x">> @@ n2 :> <<"x">> @@ n3 :> <<"x", "y">>,
               n1 :> <<"x">> @@ n2 :> <<>> @@ n3 :> <<"x", "x", "y">>}
MCChanging == {<<n3, "x">>}
=============================================================================
