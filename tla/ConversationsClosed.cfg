SPECIFICATION Spec
CONSTANTS
  Conversation = {c1}
  Contact = {k1}
  Number = {n1}
  Agent = {a1}
  Queue = {q1}
  Request = {r1, r2}
  Handler = {r1, r2}
  None = None
  Op = {"create", "resolve", "close"}
  CreateDto <- MCCreateDto
  UpdateDto <- MCQueueOnly
  TransferDto <- MCTransferDto
SYMMETRY Symmetry
PROPERTIES
  ClosedIsNotResolved
