SPECIFICATION TelephonySpec
CONSTANTS
  Action = {a1, a2}
  Login = {l1, l2}
  None = None
  Call = {c1}
  Slot = {s1, s2, s3}
  NoCall = NoCall
INVARIANTS
  TelephonyTypeOK
  ConnectionIsKnown
  NothingWaitsUntimed
  
  RevivedOnlyByRace
PROPERTIES
  SettledOnce
  TornOnlyAtLogin
  EventuallyConnected
  RequestsEnd
  EndedCallsLeave
