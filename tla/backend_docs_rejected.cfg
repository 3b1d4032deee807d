CONSTANTS
  Device = {d1}
  Interface = {e1}
  NoInterface = NoInterface
  NoDevice = NoDevice
  NoCall = NoCall
  Call = {c1, c2}
  Threshold <- MCThreshold
  Record <- MCRecord
  Batch <- MCBatch
SPECIFICATION Spec
INVARIANT RejectedStoredNothing
