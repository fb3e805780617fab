SPECIFICATION FairSpec
CONSTANTS
    ConfA = ConfA
    ConfB = ConfB
    ConfC = ConfC
    beanX = beanX
    beanY = beanY
    TypeT = TypeT
    TypeU = TypeU
    Configs <- MCConfigs
    Names <- MCNames
    NoName = NoName
    Types = {TypeT, TypeU}
    Declarations <- MCDeclarations
    MaxCalls = 2
    MaxRegistrations = 2
    MaxAssembles = 2
INVARIANTS NeverReentered SingletonOnce NothingLost ActiveInOrder
PROPERTIES VerdictIsRight AssembleEnds
CHECK_DEADLOCK FALSE
