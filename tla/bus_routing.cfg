SPECIFICATION Spec
CONSTANTS
    n1 = n1
    n2 = n2
    n3 = n3
    Conns <- MCConns
    Type <- MCType
    Instance <- MCInstance
    Known <- MCKnown
    Packets <- MCPackets
    MaxDepth = 2
    MaxSends = 2
    Listeners = {"x", "y"}
    Attached <- MCAttached
    Changing <- MCChanging
    MaxChanges = 2
INVARIANTS TableIsExact RoutedExactly UndefinedOnlyByErasure
CHECK_DEADLOCK FALSE
