SPECIFICATION Spec
CONSTANTS
  Vm = {1, 2}
  Task = {t1, t2}
  MaxRows = 2
  None = None
PROPERTIES
  EnterTakesWhatWasSeen
