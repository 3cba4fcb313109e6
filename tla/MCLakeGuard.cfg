SPECIFICATION LakeSpec
CONSTANTS
    Game = {"g1", "g2"}
    MaxImports = 1
    MaxLakeFaults = 0
CHECK_DEADLOCK FALSE
INVARIANT LakeKeepsTestOut
