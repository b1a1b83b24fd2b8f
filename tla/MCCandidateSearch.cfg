CONSTANTS
    e1 = e1
    e2 = e2
    here = here
    near = near
    far = far
    k1 = k1
    k2 = k2
    p1 = p1
    Entry = {e1, e2}
    NoEntry = NoEntry
    Bodies <- MCBodies
    Key = {k1, k2}
    NoKey = NoKey
    Location = {here, near, far}
    NoLocation = NoLocation
    Distance <- MCDistance
    Payload = {p1}
    NoPayload = NoPayload
    MaxTimeDiff = 1500
    MaxDistance = 5
    MinScoreWithKey = 100
    KeyBonus = 200
SPECIFICATION Spec
INVARIANTS
    TypeOK
    KeepsBest
    KeysNeverConflict
    ChoiceIsMutual
CHECK_DEADLOCK FALSE
