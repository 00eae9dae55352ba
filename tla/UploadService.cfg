\* Two files in the archive let a record be stolen between them; one retry
\* gives three generations of zip goroutines.
CONSTANTS
    NFiles = 2
    Retries = 1
    ChecksumsCalc = TRUE
    FileItems = {f}
    DirItems = {d}
    Threads = 2
SPECIFICATION FairSpec
INVARIANTS NilMeansWholeArchive SummaryHonest NilMeansAll
PROPERTIES CompletesUnlessRefused
CHECK_DEADLOCK FALSE
