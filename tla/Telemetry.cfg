SPECIFICATION FairSpec
CONSTANTS
  None = None
  Refreshers = {f1, f2}
  Readers = {r1, r2}
  MaxEvents = 2
INVARIANTS
  TelemetryTypeOK
  OneStream
  SampleOfThisStream
  SuspendedIsSilent
PROPERTIES
  TelemetryRecovers
CHECK_DEADLOCK FALSE
