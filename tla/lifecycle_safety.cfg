SPECIFICATION Spec
CONSTANTS
  Tags = {ipan, mes}
  Confs <- AllConfs
  QueueCap = 1
INVARIANTS
  TypeOK
  OnlyKnownPanics
  RegisteredIsRecorded
  ReconnectAbandonsNothing
PROPERTIES
  NoCallbackAfterRun
  ImplementsBeater
CHECK_DEADLOCK FALSE
