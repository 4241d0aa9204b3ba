SPECIFICATION Spec
CONSTANTS
  w = w  g = g  s = s  p1 = p1  p2 = p2
  Node = {w, g, s}
  DependsOn <- BehindGate
  Rule <- AllSuccess
  Proc = {p1}
  Gate = {g}
  Stopper = {}
  Unsafe = {w}
  MaxRework <- OneRework
  Conditional = {s}
  MaxParallel = 2
  MaxCrashes = 0
  MaxShutdowns = 0
  NoNode = NoNode
  NoProc = NoProc
  DeadProc = DeadProc
PROPERTY RejectedGateHolds
CHECK_DEADLOCK FALSE
