CONSTANTS
    k1 = k1
    p1 = p1
    here = here
    Request = {r1, r2, r3}
    NoRequest = NoRequest
    NoBody = NoBody
    NoResult = NoResult
    Offer <- MCSendReceive
    MaxSize = 1
    Callers = 2
    Horizon = 2
    Key = {k1}
    NoKey = NoKey
    Location = {here}
    NoLocation = NoLocation
    Distance <- MCDistance
    Payload = {p1}
    NoPayload = NoPayload
    MaxTimeDiff = 1
    MaxDistance = 1
    MinScoreWithKey = 100
    KeyBonus = 200
SYMMETRY Symmetry
SPECIFICATION QueueSpec
INVARIANTS
    TypeOK
    Overshoot
    NoMissedMatch
    DeliveryMatchesClaim
    ListenerHasOutcome
    PartnersOverlap
    EventsAreAccurate
CHECK_DEADLOCK FALSE
