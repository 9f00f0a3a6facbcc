CONSTANTS
    None = None
    Process = {p1, p2}
    MaxTokens = 2
    MaxPowerLosses = 0
SPECIFICATION Spec
PROPERTIES
    NeverOverwritten
CHECK_DEADLOCK FALSE
