SPECIFICATION Spec
CONSTANTS
    Wrap = 8
    DutyPairs <- MCDutyPairs
    DefaultHold = 2
    IntegralDelay = 3
    Holds <- MCHolds
    ControlPeriod = 2
    ControlLatency = 1
PROPERTY LastStopObeyed
