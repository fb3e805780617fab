SPECIFICATION FairSpec
CONSTANTS
    Workers = {w1, w2}
    Clients = {c1, c2}
    NoThread = NoThread
    ClientCalls <- AllCalls
    FuncCalls <- FromFunctions
    MaxTasks = 3
INVARIANTS ExactlyOnePlace NoLostWakeup StoppedIsQuiet TakeIsSafe
PROPERTIES ImplementsWorkQueue ScheduledIsExecuted
CHECK_DEADLOCK FALSE
