SPECIFICATION Spec
CONSTANTS
  Proc = {p1, p2}
  Key = {k1}
  Hash = {h1, h2}
  Call = {c1, c2}
  NoCall = NoCall
  Limit = 1
  Faults = {"crash", "lose", "panic", "revoke", "detach"}
SYMMETRY Symmetric
INVARIANTS OneRequestPerKey NothingLeaks OneTerminalRow AnswersAreDurable HistoryStaysClosed
PROPERTIES StoredWithAuthority ImplementsOnce
