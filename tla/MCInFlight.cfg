SPECIFICATION FairSpec
CONSTANTS
    h1 = h1
    h2 = h2
    h3 = h3
    k1 = k1
    k2 = k2
    e1 = e1
    e2 = e2
    e3 = e3
    Holder <- MCHolder
    Key <- MCKey
    Entry <- MCEntry
    Result = {r1}
    NoEntry = NoEntry
    NoKey = NoKey
    NoResult = NoResult
INVARIANTS
    TypeOK
    SingleFlight
    OwnEntryRegistered
    EveryFlightIsLed
    NoLostWakeup
PROPERTIES
    OutcomeIsFinal
    FollowersReleased
