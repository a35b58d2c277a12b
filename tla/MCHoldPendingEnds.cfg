SPECIFICATION FairSpec
CONSTANTS
  r1 = r1  r2 = r2  d1 = d1  d2 = d2  w1 = w1  a = a
  Relays = {r1}
  Deciders = {d1}
  Workspaces = {w1}
  Dests = {a}
  WorkspaceOf <- MCOneWorkspace
  DestOf <- MCDestOf
  DeciderWorkspace <- MCDeciders
  RateLimit = 0
  Faults = {"relay"}
  NoRequest = NoRequest
PROPERTY PendingEnds
