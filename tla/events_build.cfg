SPECIFICATION Spec
CONSTANTS
  Tags = {"ipan", "ipan2"}
  Namesets <- MCNamesets
  Values = {"cam1", "cam2"}
  Default = "none"
  Key <- MCKey
  Inputs <- MCInputs
  Nil = Nil
INVARIANTS
  TypeOK
  PublishesTaggedEdges
  NamesetsAreKept
  LabelsMatchNamesets
CHECK_DEADLOCK FALSE
