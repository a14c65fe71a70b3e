SPECIFICATION FairSpec
CONSTANTS
  Tags = {ipan, mes}
  Confs <- LiveConfs
  QueueCap = 1
PROPERTIES
  StopEndsEverything
  SessionComesBack
CHECK_DEADLOCK FALSE
