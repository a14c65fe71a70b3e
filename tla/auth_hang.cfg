SPECIFICATION FairSpec
CONSTANTS
  Period = 4
  Latency = 3
  MaxFailures = 2
  ServerMayHang = TRUE
  MaxAge = 12
PROPERTIES
  RefreshStops
CHECK_DEADLOCK FALSE
