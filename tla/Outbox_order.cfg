SPECIFICATION OutboxSpec
CONSTANTS
  d1 = d1
  d2 = d2
  s1 = s1
  Drainer = {d1}
  MaxRows = 2
  Issue = {s1}
  IssueOf <- SameIssue
  BatchSize = 2
  MaxAttempts = 2
  MaxCrashes = 0
  SlowBatch = FALSE
PROPERTIES
  NewestWriteStays
