\* A SETTINGS frame while two requests start.
SPECIFICATION FairSpec
CONSTANTS
  Requests = {r1, r2}
  NoOne = NoOne
  ReadLoop = ReadLoop
  Limits = {2}
  MaxSettings = 1
PROPERTIES SettingsApplied
CHECK_DEADLOCK FALSE
