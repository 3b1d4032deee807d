CONSTANTS
  main = main
  demo = demo
  r1 = r1
  eth0 = eth0
  App = {main, demo}
  SimDevice = {r1}
  Device = {r1}
  SimIndex = {1}
  Interface = {eth0}
  NoInterface = NoInterface
  InterfaceName <- MCInterfaceName
  Direction = {"in", "out"}
  Modulus <- MCModulus
  CounterBits = 64
  MaxPlausible = 1000000
  Threshold <- MCThreshold
  Record <- MCRecord
  Rounding = {0, 1}
  Controlled = {"HIGH_BANDWIDTH", "PACKET_LOSS", "DEVICE_DOWN"}
  MaxCopies = 2
  MaxTransit = 2
  MaxClock = 2
SPECIFICATION MCSpec
INVARIANTS RatesFollowScenario AlertsTellLastHeard TwoPollsSuffice
CHECK_DEADLOCK FALSE
