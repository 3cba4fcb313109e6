SPECIFICATION MCSpec
CONSTANTS
    k1 = k1  k2 = k2  p1 = p1  tok = tok
    Req = {k1, k2, p1}
    Kalshi = {k1, k2}
    Opening = {k1}
    Token = {tok}
    TokenOf <- OneToken
    Size = 2
    PMFill <- FillAndKill
    MaxRetries = 1
    Units <- SmallUnits
    FailureThreshold = 2
    SuccessThreshold = 1
    RecoveryTimeout = 1
    MonitoringWindow = 1
CHECK_DEADLOCK FALSE
 
PROPERTIES KalshiHaltHolds UnwindGoesOut Terminates 
