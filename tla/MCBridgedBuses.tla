--------------------------- MODULE MCBridgedBuses ---------------------------
(* BridgedBuses for TLC: two buses with a node each, joined by two bridges.  *)
(* The message "u" is unknown to the connections of the second bus; "k" is   *)
(* of another class than "m" and of the same type.                           *)
EXTENDS BridgedBuses, TLC

CONSTANTS na, nb, xa, xb, ya, yb, x, y

MCBusOf == na :> "A" @@ xa :> "A" @@ ya :> "A" @@ nb :> "B" @@ xb :> "B" @@ yb :> "B"
MCType == na :> 1 @@ nb :> 2 @@ [c \in {xa, xb, ya, yb} |-> 9]
MCInstance == na :> 1 @@ nb :> 1 @@ xa :> 1 @@ xb :> 1 @@ ya :> 2 @@ yb :> 2
MCKnown == [c \in {na, xa, ya} |-> {"m", "u"}] @@ [c \in {nb, xb, yb} |-> {"m"}]
MCMsgType == "m" :> "m" @@ "k" :> "m" @@ "u" :> "u"
MCInternal == x :> xa @@ y :> ya
MCExternal == x :> xb @@ y :> yb
MCSends == {<<na, Packet("m", -1, -1)>>, <<na, Packet("u", 9, 1)>>, <<nb, Packet("k", 9, 2)>>}
MCProcessors == {<<na, "m">>}
MCRules ==
    {<<<<x, "toExternal">>, Packet("m", -1, -1)>>, <<<<x, "toExternal">>, Packet("u", -1, -1)>>,
     <<<<x, "toInternal">>, Packet("m", 1, 1)>>,
     <<<<y, "toExternal">>, Packet("m", 2, 1)>>, <<<<y, "toInternal">>, Packet("m", -1, -1)>>}
=============================================================================
