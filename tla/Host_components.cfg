SPECIFICATION HostSpec
CONSTANTS
  g = g  h = h  s = s  p1 = p1
  Node = {g, h, s}
  DependsOn <- TwoGates
  Rule <- NoneFailed
  Proc = {p1}
  Gate = {g, h}
  Stopper = {s}
  Unsafe = {}
  MaxRework <- NoRework
  Conditional = {s}
  MaxParallel = 2
  MaxCrashes = 1
  MaxShutdowns = 1
  NoNode = NoNode
  NoProc = NoProc
  DeadProc = DeadProc
  MaxAttempts = 2
  MaxIterations = 2
  MaxCuts = 1
  MaxRecords = 3
  MaxHubCrashes = 1
  c1 = c1  c2 = c2  q1 = q1  q2 = q2
  Client = {c1, c2}
  Call = {q1, q2}
  ClientOf <- CallersOwn
  MaxGrants = 3
  MaxRestarts = 1
  NoTokens = NoTokens
  ParallelNodes = 2
  MaxNodeFailures = 1
INVARIANTS
  HostTypeOK
  ParkedRunHasQuestion
  LoopBudgetHolds
  StoredTokenIsAccepted
  CompletedRunDelivers
  NothingBuiltUnasked
PROPERTIES
  RunningRunEnds
  EveryNodeEnds
  CrashedChildIsReplaced
  EveryCallEnds
CHECK_DEADLOCK FALSE
