SPECIFICATION Spec
CONSTANTS
  Cameras <- OneCamera
  MaxPlays = 2
  MaxEvents = 1
  BlfFrames = 1
INVARIANT ReplayIsComplete
CHECK_DEADLOCK FALSE
