SPECIFICATION CaptureFairSpec
CONSTANTS
  Calls = 3
  MaxActive = 2
  Capacity = 1
  MayCancel = TRUE
INVARIANTS CaptureTypeOK AloneIsServed
PROPERTIES CapturesReturn
