SPECIFICATION FairSpec
CONSTANTS
    Sides <- MCSides
    UserCurve <- MCUserCurve
    TargetTemp <- MCTargetTemp
    Reading <- MCReading
    CurveFor <- MCCurveFor
    DefaultTarget <- MCDefault
    FanMode = {advanced, auto}
    Advanced = advanced
    ZeroMode = auto
    None = none
INVARIANTS TypeOK UserCurveReturns TargetInForce
PROPERTY TargetTakesOver
