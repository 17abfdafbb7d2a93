SPECIFICATION Spec
CONSTANTS
  q1 = q1
  q2 = q2
  v1 = v1
  v2 = v2
  low = low
  mid = mid
  high = high
  Rows = {r1}
  Topics = {pe}
  Says = {low, mid, high}
  Requests = {q1, q2}
  Reviews = {v1, v2}
  NoTerm = NoTerm
  NoProposal = NoProposal
  MaxSuggestions = 2
  MaxEdits = 1
INVARIANTS
  TypeOK
  AppliedIffApproved
  RivalsNotBothApproved
  NoRepeatedSuggestion
PROPERTIES
  ImplementsQueue
CHECK_DEADLOCK FALSE
SYMMETRY Interchangeable
