CONSTANTS
  Ids = {1, 2}
  Names = {1, 2, 3}
  CreationTimes = {1, 2}
  ABVs = {"strong", "soft"}
  Queries <- Mixed
  DefaultPageSize = 1
  MaxPageSize = 2
  None = None
  Deleted = Deleted
  Other = Other
SPECIFICATION FairSpec
INVARIANTS
  TypeOK PagesAscend ShownOnce NothingSkipped
PROPERTY
  WalkEnds
