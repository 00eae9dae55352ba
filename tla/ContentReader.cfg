\* Two consumers, two files, errors; the reader is reset and counted when drained.
CONSTANTS
    Consumers = {c1, c2}
    Capacity = 1
    MaxResets = 1
    MayFail = TRUE
    Careful = TRUE
    Files <- MCFiles
SPECIFICATION FairSpec
PROPERTIES ReadingsComplete CallsReturn
CHECK_DEADLOCK FALSE
