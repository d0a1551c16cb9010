CONSTANTS
  Apps = {"control_room", "mobile", "workbench"}
  Files = {"f", "g"}
  Preferred = "f"
  NoFile = "none"
  NoProjection = NoProjection
  NoAnswer = NoAnswer
  MaxTasks = 2
  MaxIncidents = 3
SPECIFICATION AppsSpec
INVARIANTS
  LockedWithoutStream
  ConfirmedOnce
  WritesFitTheirLease
PROPERTY StreamComesBack
CHECK_DEADLOCK FALSE
