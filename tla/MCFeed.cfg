SPECIFICATION FeedSpec
CONSTANTS
    k1 = k1  k2 = k2  m1 = m1  m2 = m2  m3 = m3
    Kalshi = {k1, k2}
    Polymarket = {m1, m2, m3}
    PageOf <- Pages
    Series = {"b"}
    SeriesOf <- Kinds
    MaxPages = 2
    MaxRateLimits = 1
    FetchRetries = 2
    SeriesAttempts = 2
    MaxReconnects = 1
    SubscriptionLimit = 1
    MaxChanges = 1
CHECK_DEADLOCK FALSE
PROPERTIES ListedIsNotClosed StartupEnds
