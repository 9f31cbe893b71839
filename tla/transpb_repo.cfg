SPECIFICATION LiveSpec
CONSTANTS
  Files = {"main", "rs", "cs", "map"}
  Defines <- RepoDefines
  Kind <- RepoKind
  Fields <- RepoFields
  EnumValues <- RepoEnumValues
  GlobalPbs = {TRUE, FALSE}
  MaxCount = 2
INVARIANTS
  IInv
  Complete
  ListsAreWhole
  EnteredIsEncoded
  ErrorsExplained
PROPERTIES
  NothingOverwritten
  WalkAdvances
  CallEnds
CHECK_DEADLOCK FALSE
