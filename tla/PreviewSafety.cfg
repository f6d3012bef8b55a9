SPECIFICATION Spec
CONSTANTS
    Docs = {pdf}
    Pdfs = {pdf}
    NoDoc = NoDoc
    Windows = {w1}
    Widths = {1, 2}
    Workers = {t1, t2}
    NoWorker = NoWorker
    THREADS_MAY_FAIL = FALSE
    MAX_PAGES = 3
    KEEP_PAGES = 1
    TEXTURE_BUDGET = 1
    MAX_COMMANDS = 3
SYMMETRY WorkerSymmetry
INVARIANTS TypeOK ReferencesCounted PagesFollowed
PROPERTIES ShownTexturesKept
CHECK_DEADLOCK FALSE
