CONSTANTS
    None = None
    Process = {p1, p2}
    MaxTokens = 3
    MaxPowerLosses = 1
SPECIFICATION Spec
SYMMETRY Symmetry
INVARIANTS
    AlwaysWhole
    Tidy
PROPERTIES
    AnswersCurrent
CHECK_DEADLOCK FALSE
