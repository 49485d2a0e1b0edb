SPECIFICATION FairSpec
CONSTANT MaxPid = 3
INVARIANT OkWasRunning
INVARIANT SteadyIsFound
PROPERTY ScanEnds
