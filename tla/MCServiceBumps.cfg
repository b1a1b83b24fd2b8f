CONSTANTS
    k1 = k1
    k2 = k2
    p1 = p1
    p2 = p2
    here = here
    nowhere = nowhere
    Request = {r1, r2, r3}
    NoRequest = NoRequest
    NoBody = NoBody
    NoResult = NoResult
    Offer <- MCBumps
    MaxSize = 2
    Callers = 2
    Horizon = 2
    Key = {k1, k2}
    NoKey = NoKey
    Location = {here, nowhere}
    NoLocation = NoLocation
    Distance <- MCDistance
    Payload = {p1, p2}
    NoPayload = NoPayload
    MaxTimeDiff = 1
    MaxDistance = 1
    MinScoreWithKey = 100
    KeyBonus = 200
    Worker = {w1, w2}
    NoWorker = NoWorker
    OutOfRange = {nowhere}
    NoAnswer = NoAnswer
    LastSubmit = 1
SYMMETRY Symmetry
SPECIFICATION ServiceSpec
INVARIANTS
    ServiceTypeOK
    WaiterAnswersAreMutual
    PayloadsBelong
    FailuresAreFinal
    CallsAreAllowed
CHECK_DEADLOCK FALSE
