SPECIFICATION Spec
CONSTANTS
  Proc = {p1, p2}
  Key = {k1}
  Hash = {h1, h2}
  Call = {c1, c2, c3}
  NoCall = NoCall
  Limit = 2
  Faults = {"detach"}
SYMMETRY Symmetric
INVARIANT FinalFailureStands
PROPERTY LedgerNeverDenies
