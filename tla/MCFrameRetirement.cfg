SPECIFICATION Spec
CONSTANTS
  c1 = c1
  c2 = c2
  Console = {c1, c2}
  None = None
  KEEP_FOR_REPAINTS = 2
  MaxFrame = 4
  MaxRender = 5
INVARIANTS
  TypeOK
  NoTextureLeaks
PROPERTIES
  RetiredAreReleasedIdle
SYMMETRY Symmetry
