CONSTANTS
  d1 = d1
  d2 = d2
  e1 = e1
  e2 = e2
  Device = {d1, d2}
  DeviceList <- TwoDevices
  Index = {1}
  Name = {e1}
  Speed <- MCSpeed
  Direction = {"in"}
  Modulus <- MCModulus
  CounterBits = 2
  MaxPlausible = 8
  MaxCarried = 0
  MaxLives = 0
  MaxClock = 1
  Count = 2
  TimeoutHalves = 1
  UnreachableIsReply = FALSE
SPECIFICATION MCISpec
INVARIANTS ITypeOK LossIsHonest NoPingLeftRunning
PROPERTIES EveryDevicePolled MeasureImplementsCollector
