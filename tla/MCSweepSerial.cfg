SPECIFICATION Spec
CONSTANTS
  a1 = a1
  a2 = a2
  c1 = c1
  c2 = c2
  Quants = {q1}
  Catalysts = {c1}
  Articles = {a1, a2}
  Verdicts <- FourVerdicts
  Chats = {chat}
  NoChat = NoChat
  Created <- AllOfAll
  ProposalsEnabled = FALSE
  MaxSweeps = 3
  MaxVerdicts = 1
  MaxEdits = 1
INVARIANTS
  TypeOK
  ConfirmedHasGrounds
PROPERTIES
  LadderHolds
  ImplementsEdgeAlerts
CHECK_DEADLOCK FALSE
SYMMETRY Interchangeable
