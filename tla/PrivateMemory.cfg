SPECIFICATION FairSpec
CONSTANTS
  Space = {s1}
  Op = {o1, o2}
  Worker = {w1, w2}
  Writer = {x1}
  Key = {k1, k2}
  NoKey = NoKey
  NoWorker = NoWorker
  MaxAttempts = 2
  BatchSize = 1
INVARIANTS
  SealedIsRecoverable
  RetirementSticks
  NoStaleContent
  OneOperationPerRequest
PROPERTIES
  HeldContentKept
  ClaimIsExclusive
  ErasureSettles
