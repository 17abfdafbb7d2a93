SPECIFICATION FairApprovalSpec
CONSTANTS
  a1 = a1
  c1 = c1
  q1 = q1
  Quants = {q1}
  Catalysts = {c1}
  Articles = {a1}
  Verdicts <- OneVerdict
  Chats = {}
  NoChat = NoChat
  Created <- AllOfAll
  ProposalsEnabled = TRUE
  MaxSweeps = 2
  MaxVerdicts = 1
  MaxEdits = 2
  Approvals = {p1, p2}
INVARIANTS
  ApprovalTypeOK
  ApprovalIsEvaluated
PROPERTY
  ApprovalsEnd
CHECK_DEADLOCK FALSE
