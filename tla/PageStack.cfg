CONSTANTS
  Rows = {1, 2, 3}
  Texts = {"", "gin", "gin "}
  Trim <- MCTrim
  Types = {"any", "vermouth"}
  Matching <- MCMatching
  SortModels <- MCSortModels
  PageSizes = {1, 2}
  Default <- MCDefault
  Searches <- MCSearches
  MaxPages = 4
  MaxQueries = 3
  NoToken = NoToken
  None = None
SPECIFICATION Spec
INVARIANT TokensFollow
