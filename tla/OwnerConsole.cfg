CONSTANTS
    None = None
    Console = {c1, c2}
    Approval = {q1, q2}
    Filter = {"pending", "approved"}
    HistoryLimit = 1
    MaxSends = 2
SPECIFICATION Spec
SYMMETRY Symmetry
CHECK_DEADLOCK FALSE
INVARIANTS
    HistoryTrue
    OneVerdict
