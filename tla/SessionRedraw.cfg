CONSTANTS
  Builds = {"LINUX"}
  MaxInbound = 2
  MaxEvents = 2
  MaxSessions = 2
  MaxScroll = 2
  Fade = 2
SPECIFICATION Spec
PROPERTY EveryChangeIsDrawn
CHECK_DEADLOCK FALSE
