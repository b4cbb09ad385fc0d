SPECIFICATION FairSpec
CONSTANTS
    Param = {p}
    Value = {v, w}
    Invalid = invalid
    None = none
    MaxEvents = 3
PROPERTY Settles
CHECK_DEADLOCK FALSE
