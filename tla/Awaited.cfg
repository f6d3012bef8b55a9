\* A PDF of up to two pages in one window, whose size changes; two key presses
\* or pastes and a change of size; two commands on each of the texts.
CONSTANTS
  PARTS = {"previews", "keys", "text"}
  Docs = {pdf}
  Pdfs = {pdf}
  NoDoc = NoDoc
  Windows = {w1}
  Widths = {1, 2}
  Workers = {t1, t2}
  NoWorker = NoWorker
  THREADS_MAY_FAIL = TRUE
  MAX_PAGES = 2
  KEEP_PAGES = 1
  TEXTURE_BUDGET = 3
  MAX_COMMANDS = 2
  TypedKeys <- PressesAndPaste
  SEQ_SIZE = 32
  RESIZES_IN_PASTE = FALSE
  PASTES_UNGOT = FALSE
  MAX_TYPED = 2
  MAX_RESIZES = 1
  MAX_UNGOT = 1
  TextsToEdit <- Texts
  FILL_COLUMN = 2
  TAB_WIDTH = 2
  SIZE = 64
  EDGES = {}
  MAX_TEXT_COMMANDS = 2
SPECIFICATION PartsSpec
PROPERTIES JobsEnd PagesSettle NoInputLost InputRead CommandsEnd TextHeeded
CHECK_DEADLOCK FALSE
