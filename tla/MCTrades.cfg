SPECIFICATION Spec
CONSTANTS
    o1 = o1  o2 = o2
    Opp = {o1, o2}
    Order <- MCOrder
    OnKalshi <- MCOnKalshi
    Units <- MCUnits
    Contract = 2
    Volume = 2
    MaxConcurrent = 1
    LossLimit = 1
    Nets <- WinOrLose
SYMMETRY Symmetric
CHECK_DEADLOCK FALSE
INVARIANTS InFlightExact ExposureKnown
PROPERTIES  LossLimitHolds
