SPECIFICATION OperatorSpec
CONSTANTS
    Kalshi = {k1}
    Polymarket = {p1}
    MaxOpen = 2
    MaxLive = 2
INVARIANTS FlattenLeavesFlat
