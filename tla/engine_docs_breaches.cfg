CONSTANTS
  Device = {d1}
  Interface = {e1}
  NoInterface = NoInterface
  Threshold <- MCThreshold
  Record <- MCRecord
  MaxAlerts = 3
SPECIFICATION MCSpec
INVARIANT ConsecutiveBreachesRequired
