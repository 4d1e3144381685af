SPECIFICATION SilentSpec
CONSTANTS
  Remote = {local, cluster}
  FirstRemote = local
  None = None
  MaxChange = 1
  MaxSwitch = 0
  MaxRequest = 1
  MaxBreak = 0
PROPERTIES
  WatchdogKeepsPolling
