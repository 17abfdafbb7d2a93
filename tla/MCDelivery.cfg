SPECIFICATION DeliverySpec
CONSTANTS
  r1 = r1
  r2 = r2
  sw = sw
  s1 = s1
  s2 = s2
  Requests = {r1, r2}
  Sweep = sw
  Pushers = {r1, r2, sw}
  Chats = {chat1}
  Tokens = {t1, t2}
  Sockets = {s1, s2}
  Nothing = Nothing
INVARIANTS
  DeliveryTypeOK
  LinkedHasNoToken
  FailsForAReason
PROPERTIES
  DeadSocketsCostNothing
CHECK_DEADLOCK FALSE
SYMMETRY Interchangeable
