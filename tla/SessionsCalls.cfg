SPECIFICATION FairSpec
CONSTANTS
  None = None
  Client = {c1}
  Request = {r1}
  RefreshToken = {k1}
  MaxPassword = 2
PROPERTIES
  CallsEnd
