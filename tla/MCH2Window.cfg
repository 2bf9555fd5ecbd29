\* One request and SETTINGS that raise the window.
SPECIFICATION Spec
CONSTANTS
  Requests = {r1}
  MaxSettings = 1
  Half = 4
  InflowMinRefresh = 2
  MaxFrame = 2
  Reserve = 1
  Low = 1
  Declared <- NoneDeclared
  MaxBody = 3
  FirstWindow = 1
  Windows = {2}
  Increments = {2}
  MaxUpdates = 1
PROPERTIES DataWithinWindow
CHECK_DEADLOCK FALSE
