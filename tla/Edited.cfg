\* Two buffers, one- and two-character files, and five commands; a gap of one or
\* two; texts of two letters up to four long; four kills; 81 patterns in
\* 18 texts.
CONSTANTS
  PARTS = {"undo", "buffer", "search", "kill", "regexps"}
  Buffers = {b1, b2}
  Chars = {x, nl}
  Eol = nl
  PASTES_LATE = FALSE
  NESTED_SWITCHES = FALSE
  MATCHES = FALSE
  MAX_TEXT = 2
  MAX_FILE = 0
  MAX_DEPTH = 1
  MAX_COMMANDS = 5
  TextChars = {"quote", "Eol"}
  EolChar = "Eol"
  Blank = "Blank"
  MIN_GAP = 1
  MAX_GAP = 2
  STRIDES = {2, 4}
  HIGHLIGHTS_LONG = FALSE
  WORD = 16
  MARKS_INSIDE = FALSE
  MAX_BUFFER = 3
  MAX_EDITS = 3
  SearchLetters = {"a", "b"}
  FileTexts <- SearchedTexts
  Replacements <- ReplacedWith
  SHRINKS = FALSE
  MAX_PATTERN = 2
  MAX_SEARCHES = 1
  Pieces = {"a", "b"}
  KILLS_AGAIN = FALSE
  KILLS_NOTHING = FALSE
  COPIES_BETWEEN = FALSE
  MAX_KILLS = 4
  RegexPatterns <- CompiledPatterns
  RegexTexts <- MatchedTexts
  RegexBefore <- CharactersBefore
SPECIFICATION PartsSpec
SYMMETRY BufferSymmetry
INVARIANTS UndoSound UnmodifiedIsSaved TextSound SearchesTrue YankIsLatest FoundAsMeant
PROPERTIES UndoTakesOneCommand
CHECK_DEADLOCK FALSE
