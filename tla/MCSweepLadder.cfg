SPECIFICATION Spec
CONSTANTS
  a1 = a1
  a2 = a2
  c1 = c1
  c2 = c2
  Quants = {}
  Catalysts = {c1}
  Articles = {a1}
  Verdicts <- FourVerdicts
  Chats = {}
  NoChat = NoChat
  Created <- AllOfAll
  ProposalsEnabled = TRUE
  MaxSweeps = 2
  MaxVerdicts = 2
  MaxEdits = 0
PROPERTY
  LadderHolds
CHECK_DEADLOCK FALSE
