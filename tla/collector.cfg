CONSTANTS
  d1 = d1
  d2 = d2
  e1 = e1
  e2 = e2
  Device = {d1}
  DeviceList <- OneDevice
  Index = {1}
  Name = {e1, e2}
  Speed <- MCSpeed
  Direction = {"in"}
  Modulus <- MCModulus
  CounterBits = 2
  MaxPlausible = 8
  MaxCarried = 6
  MaxLives = 2
  MaxClock = 2
SPECIFICATION MCSpec
INVARIANTS CTypeOK MeasuredIsPassed NoSpike ReportedOnce
