SPECIFICATION Spec
CONSTANTS
    Processes = {p1, p2, p3}
    NoProcess = NoProcess
    MaxInstance = 2
SYMMETRY Symmetry
CHECK_DEADLOCK FALSE
INVARIANTS
    OneHolder
    StateFileWhole
    ReportsAreTrue
PROPERTIES
    RefusedOnlyWhenBusy
