SPECIFICATION Spec
CONSTANTS
  c1 = c1
  c2 = c2
  Console = {c1, c2}
  None = None
  Key = {escape, p}
  Escape = escape
  MainRow = None
  Keypad = None
  Plus = plus
  Shortcuts = {p}
  Modifier = {"shift", "cmd"}
  MaxTorn = 9
  HoldsRepeat = FALSE
\* One at a time: each is violated, KeyUpReleases in another way, too, when
\* HoldsRepeat is TRUE.
PROPERTIES
  KeyUpReleases
\*  ReleasesOnlyWhatWasPressed
\* INVARIANTS
\*  ModifiersAreReleased
\*  ButtonUpReleases
\*  DialogHasKeyboard
