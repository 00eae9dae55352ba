\* One consumer that resets the reader while its goroutine is still reading.
CONSTANTS
    Consumers = {c1}
    Capacity = 1
    MaxResets = 1
    MayFail = FALSE
    Careful = FALSE
    Files <- MCFiles
SPECIFICATION Spec
INVARIANTS ReadsFromStart
CHECK_DEADLOCK FALSE
