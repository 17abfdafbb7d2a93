SPECIFICATION FairSpec
CONSTANTS
  a1 = a1
  a2 = a2
  c1 = c1
  c2 = c2
  Quants = {}
  Catalysts = {c1, c2}
  Articles = {a1}
  Verdicts <- OneVerdict
  Chats = {}
  NoChat = NoChat
  Created <- AllOfAll
  ProposalsEnabled = TRUE
  MaxSweeps = 2
  MaxVerdicts = 2
  MaxEdits = 1
INVARIANTS
  NoRejudgedArticle
  OnlyCommittedSweepsLeaveRows
PROPERTY
  SweepsEnd
CHECK_DEADLOCK FALSE
