SPECIFICATION Spec
CONSTANTS
    g1 = g1  u1 = u1  u2 = u2
    Pair = {g1, u1, u2}
    USPair <- USTurns
    Wired = {g1}
    Event <- Events
    Ladders <- PairLadders
    BasketLadders <- LegLadders
    Level = {1}
    MaxSize = 1
    MaxFlight = 1
    MaxMoves = 5
    MinGross = 1
    PmFeeBps = 500
    USPerSweep = 1
    MinNet = 1000
    Mortal = {g1, u2}
    Options <- TwoOptions
    MaxOpens = 1
    MaxRuns = 2
    MaxRefreshes = 1
CHECK_DEADLOCK FALSE
INVARIANTS  EpisodesRecorded 
