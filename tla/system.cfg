SPECIFICATION SystemFairSpec
CONSTANTS
  Period = 2
  Latency = 1
  MaxFailures = 2
  ServerMayHang = FALSE
  MaxAge = 0
  Lifetime = 5
  Terminals = {"cam"}
  Tags = {"ipan"}
  Entries = {1}
  TagOf <- MCTagOf
  MaxVersion = 2
  TagsAt <- MCTagsAt
  Similar <- MCSimilar
  Limit = 2
PROPERTIES
  ConvergesWithToken
CHECK_DEADLOCK FALSE
