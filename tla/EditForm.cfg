CONSTANTS
  Names = {"", "gin"}
  Descriptions = {"", "dry"}
  MaxVersion = 3
  Absent = Absent
  Gone = Gone
  None = None
SPECIFICATION FairSpec
INVARIANTS
  TypeOK DataWasReal BlankFormWaits
PROPERTY
  SavedIsWhatUserSaw OutdatedDataGoes
