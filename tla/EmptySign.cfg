SPECIFICATION MainSpec
CONSTANT MCMissing = Missing
CONSTANT Missing <- MCMissing
CONSTANT Lines <- MCLines
CONSTANT Number <- MCNumber
CONSTANT Secrets <- MCSecrets
CONSTANT Disks <- MCDisks
CONSTANT Starts <- MCCommands
CONSTANT Keys = {"key"}
INVARIANT SignRequestNeverStartsAgent
CHECK_DEADLOCK FALSE
