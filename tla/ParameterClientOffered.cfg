SPECIFICATION Spec
CONSTANTS
    Param = {p}
    Value = {v}
    Invalid = invalid
    None = none
    MaxEvents = 2
INVARIANT OnlyAvailableOffered
CHECK_DEADLOCK FALSE
