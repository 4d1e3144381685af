SPECIFICATION SessionFairSpec
CONSTANTS
  Channel = {main, display}
  NoChannel = NoChannel
INVARIANTS
  SessionTypeOK
  SocketIsOwned
PROPERTIES
  TunnelIsTakenDown
  SessionEnds
  DroppedConsoleIsNoticed
CHECK_DEADLOCK FALSE
