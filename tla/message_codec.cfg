SPECIFICATION Spec
CONSTANTS
    ByteBase = 4
    SizeOfInt = 2
    SizeOfSize = 1
    Types <- MCTypes
    Height <- MCHeight
    MaxHeight = 3
    Data <- MCData
    Registries <- MCRegistries
    Packets <- MCPackets
    BufferSize = 16
    MaxMessageSize = 15
    MaxRegistrations = 2
    MaxSends = 2
INVARIANTS BufferIsExact DeliveredAsSent PartIsRejected
CHECK_DEADLOCK FALSE
