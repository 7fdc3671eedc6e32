\* One observation whose recording fails to start.
SPECIFICATION ObservationsSpec
CONSTANTS
  Recordings = {r1}
  Syncs = {y1}
  MaxEdits = 0
  MaxReboots = 0
  MaxDowns = 1
  Patient = TRUE
PROPERTY FailedStaysFailed
CHECK_DEADLOCK FALSE
