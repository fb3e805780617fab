SPECIFICATION FairSpec
CONSTANT TaskKinds <- AllKinds
INVARIANTS AliveIsAccurate NeverOverwritten
PROPERTY StopEndsTask
