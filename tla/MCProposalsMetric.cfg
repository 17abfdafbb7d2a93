SPECIFICATION Spec
CONSTANTS
  q1 = q1
  q2 = q2
  v1 = v1
  v2 = v2
  low = low
  mid = mid
  high = high
  Rows = {r1}
  Topics = {pe, ev}
  Says = {low, high}
  Requests = {q1, q2}
  Reviews = {v1}
  NoTerm = NoTerm
  NoProposal = NoProposal
  MaxSuggestions = 2
  MaxEdits = 0
INVARIANT
  OneRowPerTopic
CHECK_DEADLOCK FALSE
