SPECIFICATION Spec
CONSTANTS
    Param = {p, q}
    Value = {v, w}
    Invalid = invalid
    None = none
    MaxEvents = 3
SYMMETRY Symmetric
INVARIANTS TypeOK LastEditTravels EditStaysOnScreen Agreement
CHECK_DEADLOCK FALSE
