CONSTANTS
    k1 = k1
    p1 = p1
    p2 = p2
    here = here
    Request = {r1, r2, r3}
    NoRequest = NoRequest
    NoBody = NoBody
    NoResult = NoResult
    Offer <- MCBumps
    MaxSize = 3
    Callers = 2
    Horizon = 1
    Key = {k1}
    NoKey = NoKey
    Location = {here}
    NoLocation = NoLocation
    Distance <- MCDistance
    Payload = {p1, p2}
    NoPayload = NoPayload
    MaxTimeDiff = 1
    MaxDistance = 1
    MinScoreWithKey = 100
    KeyBonus = 200
SYMMETRY Symmetry
SPECIFICATION QueueSpec
INVARIANTS
    ClaimedOnce
    NoMissedMatch
    EventsAreAccurate
    DeliveryMatchesClaim
    ListenerHasOutcome
    PartnersOverlap
PROPERTIES
    ImplementsClaimBoard
CHECK_DEADLOCK FALSE
