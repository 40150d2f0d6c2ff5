CONSTANTS
    Text = {"$PAUSE", "$RESUME", "$RATE,", "$RAWIMU,", "$RAWLINE,", "$DUTY,", "1", "2", ","}
    CMD_BUF_LEN = 3
    Second = 2
    MaxHz = 2
    DefaultPeriod = 1
    Wrap = 4
    Poll = 2
SPECIFICATION Spec
INVARIANTS TypeOK StreamAlive PauseEndsStream
PROPERTY LineDiscipline
