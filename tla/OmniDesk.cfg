SPECIFICATION FairDeskSpec
CONSTANTS
  k1 = k1 n1 = n1 w1 = w1 m1 = m1 q1 = q1 a1 = a1
  opened = opened received = received keyword = keyword closed = closed
  None = None
  Conversation = {c1}
  Contact = {k1}
  Number = {n1}
  Agent = {a1}
  Queue = {q1}
  Handler = {r1, d1}
  Request = {r1}
  Op = {"create", "close", "reopen", "transfer"}
  CreateDto <- MCCreateDto
  UpdateDto <- MCUpdateDto
  TransferDto <- MCTransferDto
  Delivery = {d1}
  Webhook = {w1}
  Message = {m1}
  Batch <- MCBatch
  ToNumber <- MCToNumber
  Sender <- MCSender
  Registered = {n1}
  PhoneTaken = {}
  MaxTries = 1
  Run = {u1, u2}
  Automation = {opened, received, keyword, closed}
  Created <- MCCreated
  Trigger <- MCTrigger
  Condition <- MCCondition
  Actions <- MCActions
  Switched = {keyword}
INVARIANTS
  DeskKeepsRules
PROPERTIES
  DeskOnlyReopenLeavesUnattended
  RevivedByRunOrAgent
  AutomationsSettle
