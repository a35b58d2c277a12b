CONSTANTS
  r1 = r1
  r2 = r2
  h = h
  Rows = {r1, r2}
  Hosts = {h}
  HostOf <- OneHost
  PortOf <- OnePort
  Users = {ann}
  NoUser = NoUser
  c1 = c1
  c2 = c2
  s1 = s1
  s2 = s2
  Calls = {c1, c2}
  NoRow = NoRow
  Socks = {s1, s2}
  NoSock = NoSock
  Scenarios <- EachEvent
SPECIFICATION Spec
INVARIANT TypeOK
INVARIANT ListsAgree
PROPERTY PolicySpec
PROPERTY RevokeIsHonest
SYMMETRY Symmetric
CHECK_DEADLOCK FALSE
