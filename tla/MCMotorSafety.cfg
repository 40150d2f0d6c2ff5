SPECIFICATION Spec
CONSTANTS
    Requests <- MCRequests
    PwmMax = 1
    CommandTimeout = 2
    FastPeriod = 2
    FastLatency = 1
    MaxAge = 6
INVARIANTS
    ForwardOnly
    UnrefreshedStops
    BridgeFollowsDuty
PROPERTIES
    StopsOnlyUnrefreshed
