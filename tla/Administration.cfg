\* Two callers, every kind of thing, one repeated request.
CONSTANTS
    Callers = {c1, c2}
    Attempts = 2
    Kinds <- AllKinds
    Absent = absent
    Zero = zero
SPECIFICATION AdminSpec
INVARIANTS NilMeansDone AbsenceIsReal IssuedOnce
PROPERTIES OthersKept
CHECK_DEADLOCK FALSE
