CONSTANTS
  Lease = 17
  MaxTTL = 50
  MinInterval = 10
  MaxLatency = 2
  MaxLost = 1
  MaxNow = 80
SPECIFICATION TokenSpec
INVARIANTS TokenTypeOK ValidWhileReliable
CHECK_DEADLOCK FALSE
