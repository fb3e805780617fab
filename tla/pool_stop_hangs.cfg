SPECIFICATION FairSpec
CONSTANTS
    Workers = {w1}
    Clients = {c1}
    NoThread = NoThread
    ClientCalls = {"start", "stop"}
    FuncCalls = {}
    MaxTasks = 0
PROPERTY StopReturns
CHECK_DEADLOCK FALSE
