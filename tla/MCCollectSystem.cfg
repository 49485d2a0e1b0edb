SPECIFICATION FairSpec
CONSTANT N = 5
CONSTANT Collectors <- MCCollectors
CONSTANT Spawn <- MCSpawn
CONSTANT Gets <- MCGets
INVARIANT PromiseOutlivesWorker
INVARIANT NoThreadLeftBehind
INVARIANT WholeReport
PROPERTY ImplementsGather
PROPERTY CallEnds
