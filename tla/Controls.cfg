SPECIFICATION Spec
CONSTANTS
    Cpu = {1, 2}
    Freq = {1, 2}
    Lowest = 1
    Highest = 2
    Governor = {"powersave", "power-saver", "balanced"}
    Profiles = {"power-saver", "balanced"}
    Normal <- MCNormal
    Unreadable <- MCUnreadable
    NoCpuConfig = NoCpuConfig
    MaxOutside = 2
    Gpu = {"card0", "card1"}
    ControlsOf <- MCControlsOf
    Level = {"auto", "low"}
    Watts = {2, 9}
    MinWatts = 1
    MaxWatts = 2
    MaxGpuOutside = 2
    ShiftModes = {"Eco", "Comfort", "Turbo"}
    FanModes = {"Auto", "Advanced"}
    Percent = {35, 36}
    Degrees = {85, 86}
    NoValue = NoValue
    MaxAutoEvents = 3
    Kind = {"frequency", "limit"}
    Top = 4
    Epsilon = 2
    NoNorm = NoNorm
    MaxBars = 1
    MaxUpdates = 4
INVARIANTS ControlsTypeOK RememberedIsInForce ShownModeIsReal IdleShowsTargets CurveWellFormed
PROPERTIES OnlyWhatIsShown AutoModeArrives AnimationEnds HotterNeverWeaker
CHECK_DEADLOCK FALSE
