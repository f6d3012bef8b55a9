\* Files are copied and moved within the directory that is listed.
CONSTANTS
  PARTS = {"dired"}
  Machines = {m1, m2, m3}
  Local = Local
  Dirs = {d}
  NoDir = NoDir
  Sessions = {s1, s2}
  Quiet = {}
  NoSession = NoSession
  Foreign = Foreign
  SAVES_MAY_FAIL = TRUE
  MAX_SAVED_CONNECTIONS = 2
  MAX_NOTES = 5
  Buffers = {b1, b2, s, h1, h2}
  Scratch = s
  Help = {h1, h2}
  NoBuffer = NoBuffer
  NoPoint = NoPoint
  MAX_PLACES = 2
  MAX_POINT = 1
  MAX_WINDOWS = 2
  MAX_COMMANDS = 4
  Panes = {p1, p2, p3}
  LINK_SPLIT_WIDTH = 8
  MAX_GENERATION = 3
  MAX_RESIZES = 2
  Drags = {1, 13, 30}
  Sizes <- WideAndSmall
  NAMES <- TwoFilesAndDirectory
  DirNames = {"x"}
  SAME_DIR = TRUE
  MERGES = FALSE
  MAX_DIRED = 2
  FILES <- TwoFiles
  MAX_HUNKS = 2
  MAX_GIT = 3
  NoLine = NoLine
  MakeDirs = {"a", "b"}
  MAX_LINES = 3
  MAX_EDITS = 1
  MAX_VISITS = 1
  PickerSpecs <- Pickers
  Listing <- InDirectory
  Produced <- FoundByThread
  Older <- InHistory
  Letters2 = {"a", "b", "/"}
  MAX_INPUT_LENGTH = 3
  MAX_PICKER_KEYS = 4
SPECIFICATION PartsSpec
INVARIANTS NothingLost
CHECK_DEADLOCK FALSE
