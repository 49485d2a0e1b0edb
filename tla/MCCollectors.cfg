SPECIFICATION MCSpec
CONSTANTS
  BlockDevices = {"/dev/sda1", "/dev/sdb1", "/devices/c"}
  InDev = {"/dev/sda1", "/dev/sdb1"}
  Blocks = {0, 1, 5}
  Size <- MCSize
  Below <- MCBelow
  PerMB = 2
  MaxChanges = 2
  Ticked = {20, 511}
  MaxTicks = 4
  Units = {1, 3}
  Sizes = {0, 1, 5, 10, 23}
  Megabyte = 4
  Width = 512
  IntWidth = 16
  Loads = {0, 5, 9}
  LoadOne = 4
  Uptimes = {0, 59, 60, 3599, 86399, 86400, 90061, 1000000}
  Garbage <- MCGarbage
  States = {"proposing", "tracking", "missing"}
  Ages = {6, 7, 20, 21}
  Peers = {0, 4, 7, 8}
  Latencies = {1, 2, 3}
INVARIANT RowsAddUp
INVARIANT LadenIsReported
INVARIANT SharesAddUp
INVARIANT FiguresAgree
INVARIANT VerdictsAsWorded
INVARIANT SilenceIsCritical
PROPERTY WorseIsNeverBetter
CHECK_DEADLOCK FALSE
