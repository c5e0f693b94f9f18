SPECIFICATION Spec
CONSTANTS
  Worker = {w1, w2}
  Case = {c1}
  Position = {p1, p2}
  p1 = p1
  p2 = p2
  ai = ai
  typed = typed
  even = even
  other = other
  major = major
  gone = gone
  Snapshot = {even, other, major, gone}
  Conflicting = {even, other, major}
  Majority <- MCMajority
  LastWriter <- MCLastWriter
  FirstSnapshot = even
  NoWorker = NoWorker
  NoPosition = NoPosition
  DueAt = 1
  TicksPerDay = 1
  MaxNow = 3
  MaxFailedDays = 2
  MaxAttempts = 3
  Model = {ai, typed}
  Required = {typed}
  Configured <- MCConfigured
  MaxFaults = 1
  MaxChanges = 1
SYMMETRY Symmetric
INVARIANTS DecidedOnCurrentEvidence FreshIsBacked OnePlanDecides LastWriteIsEarned OneAttemptADay AttemptsAreFaults
PROPERTIES ClosedIsFinal CompletedRunsStand
CHECK_DEADLOCK FALSE
