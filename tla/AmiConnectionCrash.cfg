SPECIFICATION Spec
CONSTANTS
  Action = {a1}
  Login = {l1}
  None = None
PROPERTY OnlyKilled
