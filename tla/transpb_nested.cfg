SPECIFICATION Spec
CONSTANTS
  Files = {"rs"}
  Defines <- NestedDefines
  Kind <- RepoKind
  Fields <- RepoFields
  EnumValues <- RepoEnumValues
  GlobalPbs = {TRUE}
  MaxCount = 1
INVARIANTS
  EnteredIsEncoded
CHECK_DEADLOCK FALSE
