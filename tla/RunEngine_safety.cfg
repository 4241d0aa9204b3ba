SPECIFICATION Spec
CONSTANTS
  w = w  g = g  s = s  p1 = p1  p2 = p2
  Node = {w, g, s}
  DependsOn <- BehindGate
  Rule <- AllSuccess
  Proc = {p1, p2}
  Gate = {g}
  Stopper = {}
  Unsafe = {w}
  MaxRework <- OneRework
  Conditional = {}
  MaxParallel = 2
  MaxCrashes = 1
  MaxShutdowns = 1
  NoNode = NoNode
  NoProc = NoProc
  DeadProc = DeadProc
CONSTRAINT TwoTroubles
SYMMETRY Processes
INVARIANTS
  OneDriver
  CompletedRunIsWhole
  UnansweredGateHolds
  ParkedRunHasQuestion
CHECK_DEADLOCK FALSE
