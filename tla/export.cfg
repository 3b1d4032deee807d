CONSTANTS
  bandwidth = bandwidth
  latency = latency
  Kind = {bandwidth, latency}
  Time = {1, 2, 3, 4}
  Polls <- MCPolls
  Filters <- MCFilters
  BatchSize = 2
  MaxRows = 4
  Limits = {1}
  MaxTable = 5
SPECIFICATION MCSpec
INVARIANTS XTypeOK NothingSkipped RepeatsAreBounded NewestAreReturned
