SPECIFICATION FairSpec
CONSTANTS
  c1 = c1
  c2 = c2
  Console = {c1, c2}
  MaxDamage <- MCMaxDamage
INVARIANTS
  NoLostWakeup
  NoLostDamage
PROPERTIES
  PaintsLatest
  ScreenNeverGoesBack
