SPECIFICATION Spec
CONSTANTS
  Tags = {ipan, mes}
  Confs <- GoodConfs
  QueueCap = 1
INVARIANTS
  ExitsNormallyOnceRunning
CHECK_DEADLOCK FALSE
