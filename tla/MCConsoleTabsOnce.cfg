SPECIFICATION Spec
CONSTANTS
  a1 = a1
  a2 = a2
  b1 = b1
  proj_a = proj_a
  proj_b = proj_b
  Vm = {a1, b1}
  Project = {proj_a, proj_b}
  ProjectOf <- MCProjectOf
  Remote = {local}
  FirstRemote = local
  MaxAttempt = 3
  None = None
INVARIANTS
  OneConsolePerVm
