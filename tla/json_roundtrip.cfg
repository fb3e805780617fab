SPECIFICATION ProtocolSpec
CONSTANTS
    Texts <- MCTexts
    Names <- MCNames
    Values <- MCValues
    MaxAssignments = 2
    MaxReads = 2
    Packets <- MCPackets
    Registered <- MCRegistered
    IntRange = 16
    BufferSize = 44
    MaxMessageSize = 42
    Behind <- MCBehind
    MaxSends = 2
INVARIANTS AcceptsDocuments RoundTrip SizeIsExact JsonDeliveredAsSent JsonPartRejected
PROPERTY ParseEnds
CHECK_DEADLOCK FALSE
