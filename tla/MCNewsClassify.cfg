SPECIFICATION NewsSpec
CONSTANTS
  MaxTrail = 6
  Sources = {finnhub}
  Articles = {1, 2, 3}
  Bodied = {1, 2}
  Answers <- Decisive
  Relevant = {1}
  PASS1_CHUNK = 2
  MaxPairs = 2
  MaxFaults = 1
INVARIANTS
  NewsTypeOK
  StateIsLastDecision
  LatestArticleDecides
PROPERTY
  RelevantNewsIsHeard
CHECK_DEADLOCK FALSE
