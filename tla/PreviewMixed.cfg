SPECIFICATION Spec
CONSTANTS
    Docs = {pdf1, pdf2, image}
    Pdfs = {pdf1, pdf2}
    NoDoc = NoDoc
    Windows = {w1}
    Widths = {1, 2}
    Workers = {t1, t2}
    NoWorker = NoWorker
    THREADS_MAY_FAIL = FALSE
    MAX_PAGES = 1
    KEEP_PAGES = 2
    TEXTURE_BUDGET = 1
    MAX_COMMANDS = 3
SYMMETRY PdfSymmetry
INVARIANTS WorkersExclusive PdfsOwned ResultsAnnounced
PROPERTIES ShutdownIsSafe
CHECK_DEADLOCK FALSE
