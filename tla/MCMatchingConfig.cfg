CONSTANTS
    Unset = Unset
    Malformed = Malformed
    NaN = NaN
    Setting <- MCSetting
    Default <- MCDefault
SPECIFICATION ConfigSpec
INVARIANTS
    StartsUsable
    ProperIsHonoured
    AllOrNothing
CHECK_DEADLOCK FALSE
