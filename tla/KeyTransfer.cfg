CONSTANTS
  Builds = {"IOS", "LINUX"}
  MaxInbound = 2
  MaxEvents = 3
  MaxSessions = 2
  MaxScroll = 2
  Fade = 2
  FileBlocks = 2
SPECIFICATION KeySpec
INVARIANTS KeyTypeOK HandlesLive NothingLeftOpen RedrawPending OutputShownBeforeEnd ReportMatchesFiles
PROPERTIES ChangesAreDrawn HangupEnds LostTransferEnds
CHECK_DEADLOCK FALSE
