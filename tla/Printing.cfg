\* Three prints on two devices, with two deaths and a loss.
SPECIFICATION PrintSpec
CONSTANTS
  Prints = {p1, p2, p3}
  Devices = {d1, d2}
  NoDevice = NoDevice
  MaxReruns = 1
  MaxDeaths = 2
  MaxLosses = 1
SYMMETRY PrintsAndDevices
INVARIANTS ReceiptsApart ErrorLeavesNoPaper
CHECK_DEADLOCK FALSE
