SPECIFICATION FairSpec
CONSTANTS
  w1 = w1 w2 = w2 w3 = w3 m1 = m1 m2 = m2 m3 = m3 m4 = m4
  k1 = k1 k2 = k2 k3 = k3 n1 = n1 n2 = n2
  None = None
  Conversation = {c1, c2}
  Contact = {k1, k2, k3}
  Number = {n1, n2}
  Agent = {}
  Queue = {}
  Handler = {d1, d2}
  Delivery = {d1, d2}
  Webhook = {w1, w2, w3}
  Message = {m1, m2, m3, m4}
  Batch <- MCBatch
  ToNumber <- MCToNumber
  Sender <- MCSender
  Registered = {n1}
  PhoneTaken = {k3}
  MaxTries = 2
INVARIANTS
  TypeOK
  StoredWhereItBelongs
PROPERTIES
  KeepsContract
  EventuallyAnswered
