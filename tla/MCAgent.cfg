SPECIFICATION FairSpec
CONSTANT Collectors = {cpu, disk}
CONSTANT MaxSent = 2
CONSTANT MaxWorld = 3
INVARIANT FreshReport
INVARIANT ChecksAreNewest
INVARIANT OvertakenGivenUp
PROPERTY ImplementsDelivery
PROPERTY BeatEnds
PROPERTY RepairTakes
