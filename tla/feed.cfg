SPECIFICATION FairSpec
CONSTANTS
  Terminals = {"cam", "mon"}
  Tags = {"ipan"}
  Entries = {1, 2}
  TagOf <- MCTagOf
  MaxVersion = 3
  TagsAt <- MCTagsAt
  Similar <- MCSimilar
  Limit = 1
INVARIANTS
  TypeOK
  OnlyTaggedRoutes
PROPERTIES
  FreshAsOfRequest
  ImplementsRegister
  Converges
