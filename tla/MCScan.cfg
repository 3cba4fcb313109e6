SPECIFICATION Spec
CONSTANTS
    p1 = p1  p2 = p2  k1 = k1
    Pair = {p1, p2}
    Ticker = {k1}
    TickerOf <- SameTicker
    TokensOf <- Tokens
    BatchOf <- OneBatch
    Listing <- Says
    Listed = {p1}
    MaxMatches = 2
    Judged = TRUE
    Entries = {"inverted", "denied", "absent"}
    Template <- TemplateWords
    Qualifier <- QualifierWords
    MaxDeadlineSkew = 7
    MaxAge = 1
    MaxSkew = 0
    Budget = 1
    RequireReal = TRUE
    MaxLag = 0
    MaxTicks = 1
    MaxScans = 1
    MaxProfit = 1
CHECK_DEADLOCK FALSE
INVARIANTS ChoiceIsHedged
