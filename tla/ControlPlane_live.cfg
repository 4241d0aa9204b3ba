SPECIFICATION FairSpec
CONSTANTS
  k1 = k1  t1 = t1  t2 = t2  t3 = t3  d1 = d1  pass1 = pass1  pass2 = pass2
  Ticket = {k1}
  Target = {t1, t2}
  TicketOf <- OneTicketOf
  DependsOn <- Chain
  EnvGated = {}
  Daemon = {d1}
  Pass = {pass1}
  MaxRuns = 1
  MaxRework = 0
  MaxRestarts = 0
  NoTarget = NoTarget
PROPERTIES
  StartedTicketProgresses
  CancelledTicketDrains
