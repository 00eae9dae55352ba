\* The archive's first zip is not read to its end; one request is enough.
CONSTANTS
    NFiles = 2
    Retries = 0
    ChecksumsCalc = FALSE
    FileItems = {}
    DirItems = {}
    Threads = 1
SPECIFICATION FairSpec
PROPERTIES CompletesUnlessRefused
CHECK_DEADLOCK FALSE
