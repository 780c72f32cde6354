SPECIFICATION CaptureSpec
CONSTANTS
  Calls = 2
  MaxActive = 2
  Capacity = 1
  MayCancel = FALSE
INVARIANTS SendersMatchCaptures
