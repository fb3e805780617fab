SPECIFICATION FairSpec
CONSTANTS
    Clients = {a, b}
    MaxConnects = 2
    MaxMsgs = 2
    EarlySend = TRUE
INVARIANTS OrderedDelivery CompleteComesFirst SafeToSend HandshakesCleanedUp
PROPERTIES AnswerRegisters
CHECK_DEADLOCK FALSE
