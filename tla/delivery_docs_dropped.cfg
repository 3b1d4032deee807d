CONSTANTS
  Device = {d1}
  Interface = {e1}
  NoInterface = NoInterface
  NoDevice = NoDevice
  NoCall = NoCall
  Collector = {x1}
  Polled <- MCPolled
  MaxRetries = 1
  MaxBatches = 2
  Call <- MCCall
  Threshold <- MCThreshold
  Record <- MCRecord
  Batch <- MCBatch
SPECIFICATION DSpec
INVARIANT DroppedOnlyAfterRetries
