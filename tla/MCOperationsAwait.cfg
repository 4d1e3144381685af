SPECIFICATION Spec
CONSTANTS
  Remote = {local, cluster}
  FirstRemote = local
  Task = {t1, t2}
  MaxRounds = 2
  None = None
INVARIANTS
  AwaitedWhereStarted
