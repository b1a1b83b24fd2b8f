CONSTANTS
    k1 = k1
    p1 = p1
    Request = {r1, r2}
    NoRequest = NoRequest
    NoBody = NoBody
    NoResult = NoResult
    Offer <- MCBumps
    MaxSize = 2
    Callers = 2
    Horizon = 1
    Key = {k1}
    NoKey = NoKey
    Location = {}
    NoLocation = NoLocation
    Distance <- MCDistance
    Payload = {p1}
    NoPayload = NoPayload
    MaxTimeDiff = 1
    MaxDistance = 1
    MinScoreWithKey = 100
    KeyBonus = 200
    Buffer = 2
SPECIFICATION MetricsSpec
INVARIANTS
    CountersAccount
    ReportsArePossible
CHECK_DEADLOCK FALSE
PROPERTIES
    CountersSettle
