\* A first, a middle and a last retry; stable connections that give retries back;
\* two writers with more records than the channel holds, and every fault.
CONSTANTS
    MaxRetries = 3
    Interval = 1
    HandlerErrs = {"send", "status", "parse", "failed"}
    RetriesNum = 2
    Window = TRUE
    Lines = 2
    HasHandler = TRUE
    MaxStable = 2
    MaxAttempts = 4
    Writers = {w1, w2}
    Records = 2
    Capacity = 2
    Faults = {"create", "open", "encode", "write", "end", "sync"}
SPECIFICATION WaitingSpec
INVARIANTS CancelStopsRetries VerdictMatchesJob ResultHonest NilMeansComplete SkippingKeepsJson
PROPERTIES ClosedIsFinal JobCallReturns ResponseCallReturns WorkerCallReturns
CHECK_DEADLOCK FALSE
