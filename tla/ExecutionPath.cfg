CONSTANTS
    None = None
    a1 = a1
    x1 = x1
    n1 = n1
    Thread = {t1, t2}
    Request <- Requests
    Rule <- Rules
    Agent <- Agents
    NameOf <- Names
    Tool = {x1}
    Permitted <- Pairs
    HistoryLimit = 2
    MaxDecisions = 3
    MaxGrants = 2
SYMMETRY Symmetry
SPECIFICATION Spec
CHECK_DEADLOCK FALSE
INVARIANTS
    FailClosed
    BooksAgree
    BusyWhileActive
    ToolHeld
