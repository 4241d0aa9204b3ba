SPECIFICATION DaemonSpec
CONSTANTS
  k1 = k1  t1 = t1  d1 = d1
  Ticket = {k1}
  Target = {t1}
  TicketOf <- OneTicketOf
  DependsOn <- NoDeps
  EnvGated = {}
  Daemon = {d1}
  Pass = {d1}
  MaxRuns = 1
  MaxRework = 0
  MaxRestarts = 1
  NoTarget = NoTarget
  drain1 = drain1  drain2 = drain2  s1 = s1
  Drainer = {drain1, drain2}
  MaxRows = 2
  Issue = {s1}
  IssueOf <- SameIssue
  BatchSize = 2
  MaxAttempts = 2
  MaxCrashes = 1
  SlowBatch = FALSE
  MaxLaunches = 2
  MaxPending = 2
  MaxDispatchCrashes = 1
  pr1 = pr1  pr2 = pr2
  Pull = {pr1, pr2}
  MaxParallelNodes = 2
  DocumentNodes = 3
  su1 = su1  su2 = su2
  Surface = {su1, su2}
  MaxEdits = 2
  MaxFileCrashes = 1
  o1 = o1  o2 = o2  o3 = o3
  Opener = {o1, o2, o3}
  MaxOpenerCrashes = 1
  c1 = c1  c2 = c2  g1 = g1  g2 = g2
  Client = {c1, c2}
  Gate = {g1, g2}
  NoClient = NoClient
  Patch <- SomePatches
  NodeWrite <- SomeWrites
  Attempt = {"0", "1", "2"}
  Content = {"", "text", "running", "completed", "failed"}
  MaxReworks = 1
INVARIANTS
  UnstartedTicketHasNoRun
  OneSenderPerRow
  BudgetOverrunBounded
  DaemonTypeOK
  KilledRunStops
  AcceptedWorkflowRunsThrough
  TakenBranchHolds
  OneDocumentPerRun
  EveryoneOpensWholeSchema
PROPERTIES
  KeepsPromise
  KeepsMemory
  EveryRowResolves
  RunningTargetSettles
  PhasesComeRound
  ClosedIssueHasLanded
CHECK_DEADLOCK FALSE
