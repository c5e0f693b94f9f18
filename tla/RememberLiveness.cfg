SPECIFICATION FairSpec
CONSTANTS
  Proc = {p1, p2}
  Key = {k1, k2}
  Hash = {h1}
  Call = {c1, c2}
  NoCall = NoCall
  Limit = 1
  Faults = {"crash", "detach"}
PROPERTY EveryCallReturns
