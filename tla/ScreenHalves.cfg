\* Half of a wide character is covered by a drawing next to it.
CONSTANTS
  PARTS = {"screen"}
  Names = {a, b}
  Places = {p, q}
  NoPlace = NoPlace
  Sessions = {s1, s2}
  Quiet = {}
  Stuck = {}
  NoSession = NoSession
  Foreign = Foreign
  MAX_PENDING = 2
  MAX_CHANGES = 5
  Contents = {c1, c2, c3}
  Missing = Missing
  Partial = Partial
  NEW_FILES = FALSE
  KEY_WAITS = FALSE
  WRITES_FAIL = TRUE
  MAX_STEPS = 6
  ScreenSizes <- TwoSizesAndNarrow
  RESIZES_ALWAYS = FALSE
  MAX_OUTPUTS = 5
  ScreenLines <- LinesShown
  Widths = {7, 8}
  HALVES_COVERED = TRUE
  MAX_CELL = 2
  MAX_DRAWINGS = 2
SPECIFICATION PartsSpec
INVARIANTS ScreenShown
CHECK_DEADLOCK FALSE
