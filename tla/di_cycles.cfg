SPECIFICATION FairSpec
CONSTANTS
    NumConfigs = 3
    Beans <- MCBeans
    Resources <- MCResources
    MaxAdds = 3
INVARIANTS CycleIsReal NoCycleMissed
PROPERTY SearchEnds
CHECK_DEADLOCK FALSE
