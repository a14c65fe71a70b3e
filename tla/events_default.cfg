SPECIFICATION Spec
CONSTANTS
  Tags = {"ipan", "ipan2"}
  Namesets <- MCNamesets
  Values = {"cam1", "cam2"}
  Default = "none"
  Key <- MCKey
  Inputs <- LabelInputs
  Nil = Nil
INVARIANTS
  DefaultMeansEmptyRoute
CHECK_DEADLOCK FALSE
