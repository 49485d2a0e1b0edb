SPECIFICATION Spec
CONSTANT Ages = {6, 7, 20, 21}
CONSTANT Peers = {0, 4, 7, 8}
CONSTANT States = {"proposing", "tracking", "missing"}
CONSTANT Latencies = {1, 2, 3}
INVARIANT WarnsBelowFive
