SPECIFICATION Spec
CONSTANTS
  q1 = q1
  q2 = q2
  pe = pe
  beta = beta
  c1 = c1
  s1 = s1
  s2 = s2
  None = None
  NoEvaluation = NoEvaluation
  FETCHABLE_METRICS = {pe, beta}
  MAX_REFINEMENTS = 2
  MAX_DISCOVERIES = 1
  Created <- Created1
  Edited <- Edited1
  Markets <- Markets1
  Tolerance = 1
  Verdicts <- Verdicts1
  Reviews <- Reviews1
  MAX_ARTICLES = 1
  Sessions = {s1, s2}
  MaxArticles = 2
  MaxSweeps = 2
  MaxEdits = 1
INVARIANTS
  TypeOK
  NewsReachesReviewer
  ReviewerAskedOfThis
  ApprovalsAloneDoNotFire
CHECK_DEADLOCK FALSE
SYMMETRY Interchangeable
