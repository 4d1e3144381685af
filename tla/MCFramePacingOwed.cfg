SPECIFICATION Spec
CONSTANTS
  c1 = c1
  c2 = c2
  Console = {c1}
  MaxDamage <- MCMaxDamage
PROPERTIES
  FlagReturnedForPaint
