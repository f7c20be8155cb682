SPECIFICATION LiveMediaSpec
CONSTANTS
  MaxAttempts = 2
  MaxFaults = 2
  Video = Video
  Lost = Lost
  None = None
INVARIANT MediaIsReadable
PROPERTY ExpiredIsPurged
CHECK_DEADLOCK FALSE
