SPECIFICATION Spec
CONSTANTS
  Files = {"main", "rs", "cs", "map"}
  Defines <- RepoDefines
  Kind <- RepoKind
  Fields <- RepoFields
  EnumValues <- RepoEnumValues
  GlobalPbs = {TRUE}
  MaxCount = 1
INVARIANTS
  BaseTypesEncode
CHECK_DEADLOCK FALSE
