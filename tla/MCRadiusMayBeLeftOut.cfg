CONSTANTS
    Unset = Unset
    Malformed = Malformed
    NaN = NaN
    Setting <- MCSetting
    Default <- MCDefault
SPECIFICATION ConfigSpec
INVARIANTS
    RadiusMayBeLeftOut
CHECK_DEADLOCK FALSE
