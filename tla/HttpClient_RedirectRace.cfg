\* A GET that must not follow redirects beside one that may.
CONSTANTS
    t1 = t1
    t2 = t2
    Threads <- MCThreads
    Workloads <- MCRace
    MaxRedirects = 1
    None = None
SPECIFICATION Spec
INVARIANTS NoRedirectIsNotFollowed
CHECK_DEADLOCK FALSE
