SPECIFICATION CallsSpec
CONSTANTS
  Call = {c1}
  Slot = {s1, s2}
  NoCall = NoCall
INVARIANT ActiveCallsAreActive
