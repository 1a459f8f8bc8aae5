CONSTANTS
  Rows = {1, 2}
  Texts = {"", "gin", "gin "}
  Trim <- MCTrim
  Types = {"any", "vermouth"}
  Matching <- MCMatching
  SortModels <- MCSortModels
  PageSizes = {1, 2}
  Default <- MCDefault
  Searches <- MCSearches
  MaxPages = 2
  MaxQueries = 3
  NoToken = NoToken
  None = None
SPECIFICATION FairSpec
INVARIANTS
  TypeOK NeverRestarts RowsMatchParams
PROPERTY SearchTakesEffect StackKeptRight
