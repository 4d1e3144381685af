SPECIFICATION Spec
CONSTANTS
  Remote = {local, cluster}
  FirstRemote = local
  None = None
  MaxChange = 0
  MaxSwitch = 1
  MaxRequest = 1
  MaxBreak = 0
INVARIANTS
  ListIsOfCurrentRemote
