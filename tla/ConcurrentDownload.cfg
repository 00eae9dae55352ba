\* Three chunks, one retry each, a file size that does not divide evenly.
CONSTANTS
    FileSize = 7
    SplitCount = 3
    Retries = 1
    Checksum = TRUE
    Explode = TRUE
SPECIFICATION FairSpec
INVARIANTS ChunksContract
PROPERTIES OldFileKept FetchesFile
CHECK_DEADLOCK FALSE
