SPECIFICATION Spec
CONSTANTS
  c1 = c1
  c2 = c2
  Console = {c1, c2}
  None = None
  Key = {escape, equals, keypad}
  Escape = escape
  MainRow = equals
  Keypad = keypad
  Plus = plus
  Shortcuts = {equals}
  Modifier = {"shift", "cmd"}
  MaxTorn = 3
  HoldsRepeat = TRUE
INVARIANTS
  TypeOK
  NoStuckInput
CONSTRAINT FewTorn
SYMMETRY Symmetry
