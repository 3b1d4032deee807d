CONSTANTS
  Index = {1, 2}
  eth = eth
  tun = tun
  Name = {eth, tun}
  Direction = {"in", "out"}
  Columns <- MCColumns
  Modulus <- MCModulus
  CounterBits = 1
  MaxPlausible = 16
  MaxPassed = 2
  MaxLives = 1
  MaxEvents = 2
SPECIFICATION MCSpec
INVARIANTS STypeOK SteadyIsSampled DeviceFailsForCause MeasuredBetweenReads SkewIsBounded TransportIsClosed
PROPERTY PollEnds
