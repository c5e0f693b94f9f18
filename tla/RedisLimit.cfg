SPECIFICATION Spec
CONSTANTS
  Stream = {s1, s2, s3}
  Max = 2
  TTL = 3
  Duration = 2
  CallTime = 1
  MaxCount = 5
  MaxExcess = 4
  Faults = {}
INVARIANT LimitHolds
