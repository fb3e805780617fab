SPECIFICATION FairSpec
CONSTANT TaskKinds <- SpinningLoop
PROPERTY StopReturns
