SPECIFICATION Spec
CONSTANTS
    Feature = {"margin", "espn_home_winprob", "pace"}
    LiveSafe = {"margin", "pace"}
    Builtin = {"pos_size", "elapsed"}
    MaxStop = 2
    CommandLine <- SomeLines
    Proc = {p1, p2}
    Reviewer = {v1}
    TestBudget = 1
    SeedDigits = 2
    MaxLaunches = 2
    MaxReviews = 1
    None = None
    NaN = NaN
    Depth = 3
    Staleness = 1
    Lookback = 2
    LineupOffset = 1
    Twins <- SomeTwins
    ReplaySpecs <- SomePlans
    Profiles <- SomeProfiles
    Id = {"m", "t"}
    Worlds <- SomeWorlds
    Recent = 2
    Horizon = 2
    Latency = 1
    MaxTime = 6
    MaxFaults = 2
    Idea = {"i1", "i2"}
    Age <- Ages
    FamilyOf <- Families
    Analyst = {"resident", "cron"}
    Resident = "resident"
    NoFamily = NoFamily
    MaxIdeas = 1
    StopAfterIdle = 2
    Executors = {"agent"}
    MaxPasses = 1
    Outcome = {"PROMISING", "NEEDS_DATA", "none"}
    MaxLabFaults = 1
    Samples <- SomeSamples
    Calendars <- SomeCalendars
    FloatShort = {90, 170, 180}
    EvenHome = {0}
    MinTrades = 4
    DaysOfMonth = 20
    Sweep = {0, 1}
    NoNumber = NoNumber
    Panels <- SomePanels
    NormCdf <- Cdf
    Blank = Blank
    MinBars = 2
    Events <- SomeEvents
    Event = {1, 2}
    Contract = {"a", "b"}
    Worker = {0, 1}
    MinEvents = 2
    TrainOf <- HalfOf
    ValOf <- NoneOf
    MaxCacheFaults = 1
    MaxReadings = 1
    Moment = {1, 2}
    FieldValue = {"x", "y"}
    MaxWrites = 3
    Game = {"g1"}
    MaxImports = 2
    MaxLakeFaults = 2
CHECK_DEADLOCK FALSE
INVARIANTS
    TestReadsArePaid
    NoLookahead
    
    FillRateIsTrue
    TrialsAreCounted
    PassNeedsBreadth
    SplitsSeparateDays
    LabTradesAreCausal
    SidesAreComplements
    SettlesAsTheVenue
    HeldOutStaysOut
    FeaturesAsOf

    
