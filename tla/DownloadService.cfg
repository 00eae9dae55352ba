\* Two groups, used and empty disks, two consumers.
CONSTANTS
    Threads = {t1, t2}
    None = none
    Names = {"a", "b", "c", "d", "e", "f", "l", "x"}
    Groups <- Separate
    LocalFiles <- UsedDisks
    Unsigned <- OneUnsigned
SPECIFICATION Spec
INVARIANTS NilMeansAll SummaryHonest ReportedIsThere
PROPERTIES Returns
CHECK_DEADLOCK FALSE
