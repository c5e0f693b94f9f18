SPECIFICATION FairSpec
CONSTANTS
  Caller = {c1, c2}
  Request = {r1, r2, r3}
  r1 = r1
  r2 = r2
  r3 = r3
  Key = {ka, kb}
  ka = ka
  kb = kb
  Event = {e1, e2}
  e1 = e1
  e2 = e2
  Window = {w1, w2}
  w1 = w1
  w2 = w2
  KeyOf <- MCKeyOf
  Text <- MCText
  Core <- MCCore
  Answer = {fact, none, signal}
  Facts = {fact}
  Signals = {signal}
  Linking = {x, y}
  NoAnswer = NoAnswer
  NoCaller = NoCaller
  NoKey = NoKey
  NoRequest = NoRequest
  MaxFaults = 2
INVARIANTS
  CommittedIsCheckpointed
  RejectedIsNeverApplied
PROPERTIES
  SubmissionsSettle
CHECK_DEADLOCK FALSE
