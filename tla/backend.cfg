CONSTANTS
  Device = {d1}
  Interface = {e1}
  NoInterface = NoInterface
  NoDevice = NoDevice
  NoCall = NoCall
  Call = {c1, c2, c3}
  Threshold <- MCThreshold
  Record <- MCRecord
  Batch <- MCBatch
SPECIFICATION FairSpec
INVARIANTS TypeOK AlertsMatchReadings ReachableMatchesAlert
           AlertsAreJustified AcceptedIsComplete
PROPERTIES EveryCallEnds
