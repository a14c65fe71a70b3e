SPECIFICATION FairSpec
CONSTANTS
  Period = 4
  Latency = 3
  MaxFailures = 2
  ServerMayHang = FALSE
  MaxAge = 0
PROPERTIES
  RefreshContinues
  RefreshStops
CHECK_DEADLOCK FALSE
