SPECIFICATION FairSpec
CONSTANTS
  Entry = {e1, e2}
  Caller = {c1}
  QueueSize = 1
  BatchSize = 1
  MaxErrors = 2
INVARIANTS
  NothingVanishes
  GapsAccounted
  DroppedIsExact
PROPERTIES
  AcceptedSettles
  GapsReported
