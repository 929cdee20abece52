SPECIFICATION Spec
CONSTANTS
    Clients = {u1, u2}
    Names = {n1, n2}
    NoName = NoName
    MaxTurns = 2
    HistoryTurns = 2
    Commands = {"ask", "chat", "rename", "delete"}
    MaxThreads = 2
    MaxAppends = 4
INVARIANTS TypeOK ReplayedWasRecorded
PROPERTIES ImplementsLog NeverAnotherThread
CHECK_DEADLOCK FALSE
SYMMETRY Symmetry
