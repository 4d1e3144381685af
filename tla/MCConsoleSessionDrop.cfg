SPECIFICATION SessionSpec
CONSTANTS
  Channel = {main, display}
  NoChannel = NoChannel
INVARIANTS
  DropAbortsEveryPump
CHECK_DEADLOCK FALSE
