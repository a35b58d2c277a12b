SPECIFICATION FairSpec
CONSTANTS
  r1 = r1  r2 = r2  d1 = d1  d2 = d2  w1 = w1  a = a
  Relays = {r1, r2}
  Deciders = {d1, d2}
  Workspaces = {w1}
  Dests = {a}
  WorkspaceOf <- MCOneWorkspace
  DestOf <- MCDestOf
  DeciderWorkspace <- MCDeciders
  RateLimit = 2
  Faults = {"db", "relay", "decider", "crash", "delete"}
  NoRequest = NoRequest
INVARIANT IInv
INVARIANT TypeOK
INVARIANT HeldWillExpire
INVARIANT PoppedHasOneOwner
INVARIANT AllowIsRecorded
INVARIANT ToldOnce
INVARIANT OnePromptPerDest
INVARIANT PendingIsAccountedFor
PROPERTY ImplementsPromise
PROPERTY HoldIsAnswered
PROPERTY RelayEnds
PROPERTY StopReturns
