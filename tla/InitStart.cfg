SPECIFICATION MainSpec
CONSTANT MCMissing = Missing
CONSTANT Missing <- MCMissing
CONSTANT Lines <- MCLines
CONSTANT Number <- MCNumber
CONSTANT Secrets <- MCSecrets
CONSTANT Disks <- MCDisks
CONSTANT Starts <- MCServices
CONSTANT Keys = {"key"}
INVARIANT InitScriptStartsAgent
CHECK_DEADLOCK FALSE
