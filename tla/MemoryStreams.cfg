SPECIFICATION Spec
CONSTANTS
  Stream = {s1, s2, s3, s4, s5}
  Max = 2
  TTL = 2
  Durations = {2, 5}
  MaxExcess = 4
SYMMETRY Symmetric
PROPERTY ImplementsSlots
