CONSTANTS
  r1 = r1
  r2 = r2
  d1 = d1
  d2 = d2
  Reqs = {r1, r2}
  Deciders = {d1, d2}
  QueueSize = 1
  Pasts <- SomePasts
  Scenarios <- Scenes
SPECIFICATION FairSpec
INVARIANT TypeOK
INVARIANT HeldIsShown
INVARIANT NoGhost
INVARIANT PauseIsOfThisEpoch
PROPERTY PauseKeepsDenials
PROPERTY GoneIsReaped
CHECK_DEADLOCK FALSE
