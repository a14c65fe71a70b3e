SPECIFICATION FairSpec
CONSTANTS
  Tags = {ipan, mes}
  Confs <- GoodConfs
  QueueCap = 1
PROPERTIES
  PollingContinues
CHECK_DEADLOCK FALSE
