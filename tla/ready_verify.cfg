\* Two daemons, a verifier that needs three samples, and a fault.
SPECIFICATION Spec
CONSTANTS
  Profile = "v0.3"
  Backend = "genaid"
  SamplesNeeded = 3  StaleAfter = 1  Tolerance = 1  Deadline = 3
  Ahead <- MCAhead
  MaxReports = 3  MaxFaults = 1
  NoReport = NoReport
PROPERTIES CountedAdvances NobodyLongDeadCounts
CHECK_DEADLOCK FALSE
