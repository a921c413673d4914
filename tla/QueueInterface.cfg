SPECIFICATION Spec
CONSTANTS
  Which = {"queue"}
  Off = Off
  CacheKeys = {1, 2, 3}
  CacheValues = {1, 2}
  Capacities = {0, 1, 2}
  MaxCalls = 5
  Elements = {x, y, z}
  Null = Null
  MaxSize = 5
  StreamLength = 5
  Buffer = 3
  Counts = {1, 2, 3, 4, 5}
  MaxDraws = 2
  CourseNames = {1, 2, 3}
  IntWidth = 4
  MaxList = 3
  MaxDay = 3
  MaxGuests = 3
PROPERTY DequeueAsDocumented
CHECK_DEADLOCK FALSE
