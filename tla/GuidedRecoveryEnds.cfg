SPECIFICATION FairSpec
CONSTANTS
  Requests = {r1}
  Answerers = {r1}
  Watchdogs = {watchdog}
  Verified = {TRUE, FALSE}
  Sessions = {s1}
  Bases = {"pool", "gripper", "mill"}
  MaxTroubles = 1
  MaxStarts = 1
  MaxEvents = 1
PROPERTIES RecoveryEnds
CHECK_DEADLOCK FALSE
