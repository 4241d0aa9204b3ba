SPECIFICATION IntakeSpec
CONSTANTS
  p1 = p1  p2 = p2
  Sync = {p1, p2}
  MaxMoves = 2
  good = good  bad = bad
  Revision = {good, bad}
  Good = {good}
  Malformed = {bad}
  MaxPushes = 1
  MaxCommands = 1
  MaxFaults = 1
INVARIANTS
  SubIssueIsNoTicket
PROPERTIES
  StartedWorkIsLeft
  BoardCatchesUp
  ContextCatchesUp
CHECK_DEADLOCK FALSE
