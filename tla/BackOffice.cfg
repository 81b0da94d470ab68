SPECIFICATION BackOfficeSpec
CONSTANTS
  e1 = e1 q1 = q1 v1 = v1 r1 = r1 k1 = k1 k2 = k2 c1 = c1 c2 = c2
  x1 = x1 x2 = x2 n1 = n1 n2 = n2 t1 = t1 t2 = t2
  Extension = {e1}
  Queue = {q1}
  Ivr = {v1}
  Inbound = {r1}
  Trunk = {}
  Group = {}
  Outbound = {}
  Admin = {s1, s2}
  Applier = {s1, s2}
  Configured <- MCConfigured
  Asked <- MCAsked
  MaxEdits = 2
  MaxWork = 3
  NoEdit = NoEdit
  Update = {k1, k2}
  Understood = {k1, k2}
  Chat = {c1, c2}
  ChatOf <- MCChatOf
  Receiver = {s1, s2}
  MaxPosts = 3
  MaxOthers = 1
  NoUpdate = NoUpdate
  Execution = {x1, x2}
  PartnerKind = {"IXC", "HTTP"}
  KindOf <- MCKindOf
  AnyKind = AnyKind
  Secret = {"s1"}
  SecretMask = SecretMask
  RowId = {"r1", "r2"}
  Field = {"type", "config"}
  Json = {"config"}
  CreateOnly = {}
  Key = {"type"}
  Masked = {"config"}
  Content = {"a", "b"}
  Given <- MCGiven
  MaxForms = 2
  MaxTyped = 1
  Tab = {t1, t2}
  ReadOnly = {t2}
  Always = {}
  Call = {s1, s2}
  MaxWrites = 2
  Talk = {a1, a2}
  Text = {h1, h2}
  SendSlot = {s1, s2}
  MaxSends = 2
  NoTalk = NoTalk
  NoText = NoText
  Port = {1, 2, 3, 4}
  RtpFloor = 2
  DefaultSignal = 1
  DefaultStart = 2
  DefaultEnd = 4
  PortBodies <- MCPortBodies
  PostedLogs <- MCPostedLogs
  Editor = {s1, s2}
  LogSize = 2
  MaxTests = 3
  Agent = {u1, u2}
  Employed = {u1}
  AgentStatus = {"ONLINE", "OFFLINE"}
  StatusChange = {s1, s2}
  MaxLog = 2
  MaxTurns = 1
  NoAgent = NoAgent
  Flow = {s1, s2}
  Node = {n1, n2}
  Blueprint <- MCBlueprint
  Run = {y1}
  MaxLinks = 1
  NoNode = NoNode
  NoFlow = NoFlow
SYMMETRY Symmetry
VIEW Running
INVARIANTS
  BackOfficeTypeOK
  LiveJumpsLand
  DanglingOnlyByRetirement
  AcknowledgedIsHandled
  AnswerMatchesLog
  SavesAreMeant
  OwnWritesShow
  TypedIsSentOrKept
  NumbersAreSound
  AgentsAreAccountedFor
  FlowsHoldTogether
