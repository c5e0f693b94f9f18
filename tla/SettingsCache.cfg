SPECIFICATION SettingsSpec
CONSTANTS
  Caller = {c1, c2}
  NoCaller = NoCaller
  NoCache = NoCache
  Interval = 2
  MaxNow = 2
  MaxVersion = 2
  MaxFaults = 1
SYMMETRY Symmetric
INVARIANTS BoundedStaleness UpdatesShowThemselves
