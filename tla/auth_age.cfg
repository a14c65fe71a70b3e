SPECIFICATION Spec
CONSTANTS
  Period = 4
  Latency = 6
  MaxFailures = 2
  ServerMayHang = TRUE
  MaxAge = 32
INVARIANTS
  TypeOK
  TokenAgeBounded
CHECK_DEADLOCK FALSE
