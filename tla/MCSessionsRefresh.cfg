CONSTANTS
  p1 = p1
  p2 = p2
  s1 = s1
  e1 = e1
  Requests = {p1, p2}
  Sockets = {s1}
  Deciders = {e1}
  MaxTokens = 2
  Limit = 1
  Scenarios <- OnlyLogout
SPECIFICATION Spec
PROPERTY RevokedForGood
CHECK_DEADLOCK FALSE
