SPECIFICATION Spec
CONSTANTS
  left = left
  ctrl = ctrl
  del = del
  caps = caps
  Place = {1, 2}
  Button = {left}
  Up = Up
  Down = Down
  Key = {ctrl, del, caps}
  CapsLock = caps
  Combo <- MCCombo
  Turn <- MCTurn
  Notch = 2
  MaxNotches = 2
  Outside = Outside
  None = None
  MaxHandled = 4
INVARIANTS
  TypeOK
  MaskIsButtonsDown
  ClickLandsWherePointed
PROPERTIES
  PumpIsLink
