SPECIFICATION MCSpec
CONSTANTS
    RawBooks <- SmallBooks
    FreshBooks <- FewBooks
    MaxTrades = 2
    MinVolume = 2
    Rates <- NoRateOrSports
    RiskOpportunities <- CrossVenue
    RiskBooks <- RiskBookChoices
    NoRiskBook = NoRiskBook
    KalshiTicker = "k1"
    PmTokens = {"t1", "t2"}
    PmOutcome <- OutcomeNames
    VenueBooks <- CacheBooks
    BookMaxAge = 1
    Delay = 1
    MaxRequests <- TwoOrOne
    NoEntry = NoEntry
    KalshiPages <- KRows
    SamplingPages <- SamplingRows
    GammaPages <- GammaRows
    USMarkets = {"u1"}
    Worlds <- TwoWorlds
    Asks = {30, 60, 900}
    MaxSweeps = 2
    NoOpportunity = NoOpportunity
CHECK_DEADLOCK FALSE
INVARIANTS FilledWithinDepth RiskGateHolds QuotesAreTheVenues LegsPayEitherWay
