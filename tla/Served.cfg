\* Two sessions, one of which may hang while it has the lock, and one started
\* with -q; two processes at a time; a command with pipes that hold little.
CONSTANTS
  PARTS = {"bookmarks", "processes", "piped"}
  Names = {a, b}
  Places = {p}
  NoPlace = NoPlace
  Sessions = {s1, s2, sq}
  Quiet = {sq}
  Stuck = {s2}
  NoSession = NoSession
  Foreign = Foreign
  MAX_PENDING = 1
  MAX_CHANGES = 5
  MAX_PROCESSES = 2
  REMOTE_REPOS = FALSE
  MAX_OUTPUT = 1
  PIPE_SIZE = 1
  MAX_INPUT = 2
  MAX_ANSWER = 2
  MAX_KEYS = 2
SPECIFICATION PartsSpec
PROPERTIES CommitsEnd SavesAreAtomic ProcessesServed RunsAnswered
CHECK_DEADLOCK FALSE
