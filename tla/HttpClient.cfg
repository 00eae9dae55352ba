\* Every operation alone; pairs of operations that race on the redirect closure.
CONSTANTS
    t1 = t1
    t2 = t2
    Threads <- MCThreads
    Workloads <- MCWorkloads
    MaxRedirects = 1
    None = None
SPECIFICATION FairSpec
INVARIANTS ResultContract RequestBudget BodiesClosed
PROPERTIES FetchesFile
CHECK_DEADLOCK FALSE
