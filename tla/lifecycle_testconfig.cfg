SPECIFICATION Spec
CONSTANTS
  Tags = {ipan, mes}
  Confs <- TestConfs
  QueueCap = 1
INVARIANTS
  TestConfigIsAccepted
CHECK_DEADLOCK FALSE
