CONSTANTS
  Sessions = {s1}
  Runs = {r1, r2}
  Summaries = {q1}
  None = None
  NoRow = NoRow
  MaxCharges = 1
  MaxUpdates = 1
SPECIFICATION Spec
INVARIANT CancelReachesRun
CHECK_DEADLOCK FALSE
