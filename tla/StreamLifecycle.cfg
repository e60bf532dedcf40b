SPECIFICATION FairSpec
CONSTANTS
  Cameras <- OneCamera
  MaxPlays = 2
  MaxEvents = 1
  BlfFrames = 1
INVARIANTS StreamOutlivesThread NoOrphanSender FewCallsAfterStop
PROPERTIES NoThreadOverwritten OwnErrorStays StoppedStreamsEnd GuiReturns
CHECK_DEADLOCK FALSE
