SPECIFICATION Spec
CONSTANTS
    Docs = {pdf}
    Pdfs = {pdf}
    NoDoc = NoDoc
    Windows = {w1, w2}
    Widths = {1, 2}
    Workers = {t1, t2}
    NoWorker = NoWorker
    THREADS_MAY_FAIL = FALSE
    MAX_PAGES = 1
    KEEP_PAGES = 2
    TEXTURE_BUDGET = 3
    MAX_COMMANDS = 2
PROPERTIES PagesSettle
CHECK_DEADLOCK FALSE
