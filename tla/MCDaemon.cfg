SPECIFICATION FairSpec
CONSTANT Interval = 3
INVARIANT ConstructedBeforeUse
INVARIANT NoLostWakeup
INVARIANT AtMostOneLateTask
PROPERTY Spacing
PROPERTY ImplementsPeriodicTask
PROPERTY DtorReturns
PROPERTY KeepsBeating
