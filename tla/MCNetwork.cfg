SPECIFICATION Spec
CONSTANTS
  Devices = {"eth0", "wlan0"}
  Addresses = {1, 2, 3, 4, 5}
  Loopback = {5}
  Device <- MCDevice
  Name <- MCName
  Unit = 2
  Modulus = 4
  Boot = {3}
  MaxEvents = 3
INVARIANT RowsAreTraffic
INVARIANT HeldIsReported
INVARIANT DiesOnlyInTheGap
CHECK_DEADLOCK FALSE
