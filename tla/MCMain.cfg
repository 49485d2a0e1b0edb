SPECIFICATION MainSpec
CONSTANT MCMissing = Missing
CONSTANT Missing <- MCMissing
CONSTANT Lines <- MCLines
CONSTANT Number <- MCNumber
CONSTANT Secrets <- MCSecrets
CONSTANT Disks <- MCDisks
CONSTANT Starts <- MCStarts
CONSTANT Keys = {"key"}
INVARIANT PropertiesAsWritten
INVARIANT TokenAsWritten
INVARIANT RejectsTheIncomplete
INVARIANT RunsAsAsked
CHECK_DEADLOCK FALSE
