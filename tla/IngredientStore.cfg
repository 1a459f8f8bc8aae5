CONSTANTS
  Requests = {r1, r2}
  MaxId = 2
  MaxVersion = 3
  Names <- MCNames
  Attrs = {"mild", "strong"}
  Icons = {"png"}
  LowerName <- MCLowerName
  Calls <- AllCalls
  BlindVersions = FALSE
  None = None
  Bad = Bad
SPECIFICATION Spec
SYMMETRY RequestSymmetry
INVARIANTS
  TypeOK OneWinner ConflictIsFinal VersionNamesContent
PROPERTIES
  PatchMeetsCurrentRow GoneStaysGone ImplementsCatalog
