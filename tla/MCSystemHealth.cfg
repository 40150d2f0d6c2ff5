SPECIFICATION Spec
CONSTANTS
    ctrl = ctrl
    imu = imu
    Wrap = 10
    Tasks = {ctrl, imu}
    ControlTask = ctrl
    ImuTask = imu
    Priority <- MCPriority
    Deadline <- MCDeadline
    Grace = 0
    HealthPeriod = 2
    HealthLatency = 1
    WdtPeriod = 3
INVARIANTS
    DetectionBound
    OffUnlessPreempted
PROPERTIES
    AccusesOnlyStale
    FaultIsFinal
    FaultResets
    NoSilentHang
