CONSTANTS
  Requests = {r1, r2, r3}
  MaxId = 1
  MaxVersion = 3
  Names <- MCNames
  Attrs = {"mild", "strong"}
  Icons = {"png"}
  LowerName <- MCLowerName
  Calls <- OneIngredientCalls
  BlindVersions = TRUE
  None = None
  Bad = Bad
SPECIFICATION Spec
PROPERTY OmittedFieldsStay
