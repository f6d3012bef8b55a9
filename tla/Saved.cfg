\* Two sessions and two bookmarks; a file that others write; a terminal of two
\* lines whose size changes; two windows side by side.
CONSTANTS
  PARTS = {"bookmarks", "files", "terminal", "screen"}
  Names = {a, b}
  Places = {p, q}
  NoPlace = NoPlace
  Sessions = {s1, s2}
  Quiet = {}
  Stuck = {}
  NoSession = NoSession
  Foreign = Foreign
  MAX_PENDING = 2
  MAX_CHANGES = 5
  Contents = {c1, c2, c3}
  Missing = Missing
  Partial = Partial
  NEW_FILES = FALSE
  WRITES_FAIL = TRUE
  KEY_WAITS = FALSE
  MAX_STEPS = 6
  ScreenSizes <- TwoSizesAndNarrow
  RESIZES_ALWAYS = FALSE
  MAX_OUTPUTS = 5
  ScreenLines <- LinesShown
  Widths = {7, 8}
  HALVES_COVERED = FALSE
  MAX_CELL = 2
  MAX_DRAWINGS = 2
SPECIFICATION PartsSpec
INVARIANTS LockHeld SessionsSound SavesAreSafe TerminalKept ScreenShown
PROPERTIES FileKept OnlyOwnChanges
CHECK_DEADLOCK FALSE
