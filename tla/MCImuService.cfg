SPECIFICATION Spec
CONSTANTS
    Retries = 2
    CalSamples = 2
    SettleSamples = 2
    FourLap = 100
    PhaseYaws <- MCPhaseYaws
    ProfileScale = 201
INVARIANTS
    ReadyMeansCalibrated
    ScaleRestored
PROPERTIES
    LeftAtRest
    BringUpEnds
