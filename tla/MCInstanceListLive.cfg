SPECIFICATION FairSpec
CONSTANTS
  Remote = {local, cluster}
  FirstRemote = local
  None = None
  MaxChange = 1
  MaxSwitch = 1
  MaxRequest = 1
  MaxBreak = 0
PROPERTIES
  ListConverges
  OldListenersEnd
