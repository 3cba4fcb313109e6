SPECIFICATION FairSpec
CONSTANTS
    Caller = {c1, c2, c3}
    FailureThreshold = 2
    SuccessThreshold = 2
    RecoveryTimeout = 2
    MonitoringWindow = 5
INVARIANTS ThresholdsActedOn
PROPERTIES CoolingOff Recovers
CHECK_DEADLOCK TRUE
