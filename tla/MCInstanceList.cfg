SPECIFICATION Spec
CONSTANTS
  Remote = {local, cluster}
  FirstRemote = local
  None = None
  MaxChange = 1
  MaxSwitch = 1
  MaxRequest = 1
  MaxBreak = 2
INVARIANTS
  TypeOK
  NoMissedChange
PROPERTIES
  ActsOnCurrentRemoteOnly
