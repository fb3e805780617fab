SPECIFICATION Spec
CONSTANTS
    na = na
    nb = nb
    xa = xa
    xb = xb
    ya = ya
    yb = yb
    x = x
    y = y
    Conns = {na, nb, xa, xb, ya, yb}
    BusOf <- MCBusOf
    Type <- MCType
    Instance <- MCInstance
    Known <- MCKnown
    MsgType <- MCMsgType
    Slots = 2
    Nodes = {na, nb}
    Bridges = {x, y}
    Internal <- MCInternal
    External <- MCExternal
    Processors <- MCProcessors
    Standing = {y}
    Sends <- MCSends
    Rules <- MCRules
    MaxSends = 2
    MaxWork = 6
    MaxRules = 2
    MaxChanges = 1
INVARIANTS OncePerPath NeverSentBack CrashOnlyByMisuse FewOvertakers
PROPERTY ForwardingEnds
CHECK_DEADLOCK FALSE
