CONSTANTS
  Names = {"", "gin"}
  Descriptions = {"", "dry"}
  MaxVersion = 2
  Absent = Absent
  Gone = Gone
  None = None
SPECIFICATION Spec
INVARIANT FormHasData
