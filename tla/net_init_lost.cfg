SPECIFICATION FairSpec
CONSTANTS
    Clients = {a}
    MaxConnects = 1
    MaxMsgs = 1
    EarlySend = FALSE
PROPERTIES ConnectRegisters
CHECK_DEADLOCK FALSE
