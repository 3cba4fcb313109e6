SPECIFICATION ControllerSpec
CONSTANTS
    a = a  b = b
    Lane = {a, b}
    Paper = {p1}
    Task = {t1}
    VendorOf <- Vendors
    MaxLanes = 1
    Meters <- Readings
    Options <- OneKind
    MaxQueue = 2
    MaxSpawns = 3
    MaxToggles = 3
    MaxCrashes = 1
CHECK_DEADLOCK FALSE
INVARIANTS PauseTakesHold OneInstance
