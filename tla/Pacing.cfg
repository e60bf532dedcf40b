SPECIFICATION FairSpec
CONSTANTS
  MaxWidth = 8
  MaxHeight = 5
  PreviewMaxWidth = 4
  PreviewMaxHeight = 2
  NumCameras = 1
  Sources <- AllSources
  Captures <- OneCapture
  TenMics = 2
  MaxPasses = 3
  MaxNow = 6
INVARIANTS NeverEarly ClocksDriftByPass InStep  FitsTarget
PROPERTIES GoesOn
CHECK_DEADLOCK FALSE
