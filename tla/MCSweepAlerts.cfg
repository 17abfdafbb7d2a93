SPECIFICATION Spec
CONSTANTS
  a1 = a1
  a2 = a2
  c1 = c1
  c2 = c2
  Quants = {q1}
  Catalysts = {}
  Articles = {}
  Verdicts <- OneVerdict
  Chats = {chat}
  NoChat = NoChat
  Created <- AllOfAll
  ProposalsEnabled = TRUE
  MaxSweeps = 3
  MaxVerdicts = 0
  MaxEdits = 1
INVARIANT
  RepeatAlertNeedsReset
CHECK_DEADLOCK FALSE
