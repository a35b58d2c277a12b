SPECIFICATION FairSpec
CONSTANTS
  f1 = f1
  f2 = f2
  f3 = f3
  a = a
  b = b
  host = host
  Flows = {f1, f2, f3}
  IPs = {a, b}
  DstOf <- TwoAndOne
  Host = host
  MaxTasks = 2
  MaxTime = 2
  MaxQueries = 2
  TimedTtl = 1
  DnsTtl = 2
  ShortTtl = 1
  Scenarios <- EachEvent
INVARIANT TypeOK
INVARIANT RulesHaveRecords
INVARIANT OneTaskPerConnection
INVARIANT OnceIsPerConnection
INVARIANT RuleLapsesWithVerdict
PROPERTY RevokedStaysRevoked
PROPERTY ConnectEnds
CHECK_DEADLOCK FALSE
