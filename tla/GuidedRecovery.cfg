SPECIFICATION Spec
CONSTANTS
  Requests = {r1,r2}
  Answerers = {r1}
  Watchdogs = {}
  Verified = {TRUE}
  Sessions = {s1,s2}
  Bases = {"pool"}
  MaxTroubles = 1
  MaxStarts = 1
  MaxEvents = 2
INVARIANTS RecoveryTypeOK VerdictMatchesCell
CHECK_DEADLOCK FALSE
