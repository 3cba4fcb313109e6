----------------------------- MODULE MarketFeed -----------------------------
(***************************************************************************)
(* How the analyzer comes to know the markets it may trade: the start of   *)
(* the two venue clients (paged discovery over REST, then a websocket      *)
(* connection and one subscription), the messages of the streams, the      *)
(* reconnection of a lost stream, and the periodic sweep that adds the     *)
(* Polymarket markets listed since and closes the ones listed no more.     *)
(*                                                                         *)
(* A venue lists its markets on pages; a market keeps its page.  A request *)
(* may be answered, refused, time out or fail.                             *)
(***************************************************************************)
EXTENDS Integers, FiniteSets, FiniteSetsExt

CONSTANTS
    Kalshi, Polymarket,     \* the markets of each venue that may ever be listed
    PageOf,                 \* the page each is listed on
    Series, SeriesOf,       \* Kalshi's series and the one of each of its markets
    MaxPages,               \* *_MAX_DISCOVERY_PAGES
    MaxRateLimits,          \* max_rate_limit_retries
    FetchRetries,           \* DISCOVERY_FETCH_RETRIES
    SeriesAttempts,         \* tries of a series that is rate limited
    MaxReconnects,          \* max_reconnect_attempts
    SubscriptionLimit,      \* *_STREAM_SUBSCRIPTION_LIMIT
    MaxChanges              \* bound: listings and delistings

\* Pages are counted from 1; a cursor of 0 asks for the first.
ASSUME FeedAssumption == PageOf \in [Kalshi \cup Polymarket -> Nat \ {0}]

Venue == {"kalshi", "polymarket"}
Market == Kalshi \cup Polymarket
Of(v) == IF v = "kalshi" THEN Kalshi ELSE Polymarket

VARIABLES
    stage,      \* what initialize awaits, then "running" and "stopped"
    listed,     \* the markets the venues list
    changes,    \* how often that has changed
    page,       \* pages fetched by the listing in progress
    cursor,     \* where the next page starts, 0 for no cursor
    tries,      \* refused or failed requests for this page
    found,      \* all_markets
    series,     \* attempts left for each series of the event sweep
    marketsCache, \* markets_cache
    closed,     \* the cached markets whose status is closed
    priced,     \* the markets with an entry in price_cache
    truncated,  \* catalog_truncated of each venue
    conn,       \* "idle", "dialing", "open", "backoff" or "failed"
    attempts,   \* reconnect_attempts
    closing,    \* _closing
    subscribed, \* subscribed_markets
    streamed,   \* the markets the venue really sends on the connection
    sweep,      \* a refresh is in progress
    seen,       \* seen_ids of that refresh
    absent      \* the markets that were not listed at some time of that refresh

listing == <<page, cursor, tries, found>>
catalogue == <<marketsCache, closed, priced, truncated>>
stream == <<conn, attempts, closing, subscribed, streamed>>
refresh == <<sweep, seen, absent>>
feedVars == <<stage, listed, changes, listing, series, catalogue, stream, refresh>>

FeedInit ==
    /\ stage = "kalshi_pages"
    /\ listed \in {l \in SUBSET Market : l \cap Kalshi # {} /\ l \cap Polymarket # {}}
    /\ changes = 0 /\ page = 0 /\ cursor = 0 /\ tries = 0 /\ found = {}
    /\ series = [s \in Series |-> 0]
    /\ marketsCache = {} /\ closed = {} /\ priced = {}
    /\ truncated = [v \in Venue |-> FALSE]
    /\ conn = [v \in Venue |-> "idle"] /\ attempts = [v \in Venue |-> 0]
    /\ closing = [v \in Venue |-> FALSE]
    /\ subscribed = {} /\ streamed = {}
    /\ sweep = FALSE /\ seen = {} /\ absent = {}

\* A market is listed or delisted by its venue.
ListingChanges ==
    /\ changes < MaxChanges
    /\ \E m \in Market :
          /\ listed' = (IF m \in listed THEN listed \ {m} ELSE listed \cup {m})
          /\ absent' = IF sweep /\ m \in listed THEN absent \cup {m} ELSE absent
    /\ changes' = changes + 1
    /\ UNCHANGED <<stage, listing, series, catalogue, stream, sweep, seen>>

(***************************************************************************)
(* Paged listings.                                                         *)
(***************************************************************************)
\* The venue answers a cursor with the next page that has a market, and a
\* cursor if there are more; an answer without rows ends the listing.
From(v, c) == {m \in listed \cap Of(v) : PageOf[m] >= c}
Rows(v, c) == {m \in From(v, c) : \A n \in From(v, c) : PageOf[m] <= PageOf[n]}
NextCursor(v, c) ==
    LET later == From(v, c) \ Rows(v, c)
    IN IF later = {} THEN 0 ELSE Min({PageOf[m] : m \in later})

NewListing == page' = 0 /\ cursor' = 0 /\ tries' = 0 /\ found' = {}

\* Kalshi's listing is over, for whatever reason: what was found is cached.
KalshiListed(all, pages, next) ==
    /\ truncated' = [truncated EXCEPT !["kalshi"] = pages >= MaxPages /\ next # 0]
    /\ marketsCache' = marketsCache \cup all
    /\ stage' = "kalshi_events"
    /\ NewListing
    /\ UNCHANGED <<closed, priced>>

KalshiPage ==
    LET rows == Rows("kalshi", cursor)
        next == NextCursor("kalshi", cursor)
    IN /\ stage = "kalshi_pages"
       /\ IF rows = {} THEN KalshiListed(found, page, cursor)
          ELSE IF next = 0 \/ page + 1 = MaxPages THEN KalshiListed(found \cup rows, page + 1, next)
          ELSE /\ found' = found \cup rows /\ page' = page + 1 /\ cursor' = next
               /\ tries' \in {0, tries}     \* kept by a page that came on the second request
               /\ UNCHANGED <<stage, catalogue>>
       /\ UNCHANGED <<listed, changes, series, stream, refresh>>

\* 429: the same page again, up to a number of times.
KalshiRateLimited ==
    /\ stage = "kalshi_pages"
    /\ IF tries = MaxRateLimits THEN KalshiListed(found, page, cursor)
       ELSE tries' = tries + 1 /\ UNCHANGED <<stage, page, cursor, found, catalogue>>
    /\ UNCHANGED <<listed, changes, series, stream, refresh>>

\* Another status, an error, or a timeout of the second request too.
KalshiPageFails ==
    /\ stage = "kalshi_pages"
    /\ KalshiListed(found, page, cursor)
    /\ UNCHANGED <<listed, changes, series, stream, refresh>>

\* The sweep over the open events finds series to ask for, or fails.
KalshiEvents ==
    /\ stage = "kalshi_events"
    /\ \E s \in SUBSET Series : series' = [x \in Series |-> IF x \in s THEN SeriesAttempts ELSE 0]
    /\ stage' = "kalshi_series"
    /\ UNCHANGED <<listed, changes, listing, catalogue, stream, refresh>>

\* One series: its markets that the cache does not have, one refused request,
\* or the end of it (an error, the last refusal, the deadline of the sweep).
SeriesFetched(s) ==
    LET new == {m \in listed \cap Kalshi : SeriesOf[m] = s} \ marketsCache
    IN /\ stage = "kalshi_series" /\ series[s] > 0
       /\ marketsCache' = marketsCache \cup new
       /\ series' = [series EXCEPT ![s] = 0]
       /\ UNCHANGED <<stage, listed, changes, listing, closed, priced, truncated, stream, refresh>>

SeriesRefused(s) ==
    /\ stage = "kalshi_series" /\ series[s] > 0
    /\ \E left \in {0, series[s] - 1} : series' = [series EXCEPT ![s] = left]
    /\ UNCHANGED <<stage, listed, changes, listing, catalogue, stream, refresh>>

KalshiDiscovered ==
    /\ stage = "kalshi_series" /\ \A s \in Series : series[s] = 0
    /\ \/ stage' = "kalshi_connect" /\ conn' = [conn EXCEPT !["kalshi"] = "dialing"]
       \/ stage' = "polymarket_pages" /\ UNCHANGED conn     \* no API key: REST only
    /\ UNCHANGED <<listed, changes, listing, series, catalogue, attempts, closing,
                   subscribed, streamed, refresh>>

\* Polymarket's bootstrap: the markets found are cached, with their prices if valid.
PolymarketListed(all, whole) ==
    /\ truncated' = [truncated EXCEPT !["polymarket"] = @ \/ ~whole]
    /\ marketsCache' = marketsCache \cup all
    /\ \E valid \in {{}, all} : priced' = priced \cup valid
    /\ IF all = {} THEN stage' = "running" /\ UNCHANGED conn
       ELSE stage' = "polymarket_connect" /\ conn' = [conn EXCEPT !["polymarket"] = "dialing"]
    /\ NewListing
    /\ UNCHANGED closed

PolymarketPage ==
    LET rows == Rows("polymarket", cursor)
        next == NextCursor("polymarket", cursor)
    IN /\ stage = "polymarket_pages"
       /\ IF rows = {} \/ next = 0 \/ page + 1 = MaxPages
          THEN PolymarketListed(found \cup rows, TRUE)
          ELSE /\ found' = found \cup rows /\ page' = page + 1 /\ cursor' = next /\ tries' = 0
               /\ UNCHANGED <<stage, catalogue, conn>>
       /\ UNCHANGED <<listed, changes, series, attempts, closing, subscribed, streamed, refresh>>

PolymarketPageFails ==
    /\ stage = "polymarket_pages"
    /\ IF tries + 1 = FetchRetries THEN PolymarketListed(found, FALSE)
       ELSE tries' = tries + 1 /\ UNCHANGED <<stage, page, cursor, found, catalogue, conn>>
    /\ UNCHANGED <<listed, changes, series, attempts, closing, subscribed, streamed, refresh>>

(***************************************************************************)
(* The connections.                                                        *)
(***************************************************************************)
\* The stage in which initialize awaits connect(), and the one in which connect() has
\* returned to it: connected, or given up after the reconnections it awaits itself.
Dialing(v) == IF v = "kalshi" THEN "kalshi_connect" ELSE "polymarket_connect"
Dialed(v) == IF v = "kalshi" THEN "kalshi_subscribe" ELSE "polymarket_subscribe"
Return(v) == stage' = IF stage = Dialing(v) THEN Dialed(v) ELSE stage

\* A bug the reconnection could have: the attempts are not counted.
HandleReconnection_NotCounted(v) ==
    /\ conn' = [conn EXCEPT ![v] = IF closing[v] THEN "idle" ELSE "backoff"]
    /\ UNCHANGED <<attempts, stage>>

\* _handle_reconnection: gives up for good after a number of attempts.
HandleReconnection(v) ==
    IF closing[v] THEN conn' = [conn EXCEPT ![v] = "idle"] /\ UNCHANGED <<attempts, stage>>
    ELSE IF attempts[v] >= MaxReconnects
         THEN conn' = [conn EXCEPT ![v] = "failed"] /\ Return(v) /\ UNCHANGED attempts
    ELSE /\ conn' = [conn EXCEPT ![v] = "backoff"]
         /\ attempts' = [attempts EXCEPT ![v] = @ + 1]
         /\ UNCHANGED stage

\* connect() succeeds; a session that was closed refuses.
Connects(v) ==
    /\ conn[v] = "dialing" /\ ~closing[v]
    /\ conn' = [conn EXCEPT ![v] = "open"]
    /\ attempts' = [attempts EXCEPT ![v] = 0]
    /\ Return(v)
    /\ UNCHANGED <<listed, changes, listing, series, catalogue, closing, subscribed, streamed, refresh>>

DialFails(v) ==
    /\ conn[v] = "dialing" /\ HandleReconnection(v)
    /\ UNCHANGED <<listed, changes, listing, series, catalogue, closing, subscribed, streamed, refresh>>

\* The backoff is over.  Only Polymarket's connect looks at _closing first.
DialsAgain(v) ==
    /\ conn[v] = "backoff"
    /\ conn' = [conn EXCEPT ![v] = IF closing[v] /\ v = "polymarket" THEN "idle" ELSE "dialing"]
    /\ UNCHANGED <<stage, listed, changes, listing, series, catalogue, attempts, closing, subscribed, streamed, refresh>>

\* The message loop ends with an error or a close.
Drops(v) ==
    /\ conn[v] = "open" /\ HandleReconnection(v)
    /\ streamed' = streamed \ Of(v)
    /\ UNCHANGED <<listed, changes, listing, series, catalogue, closing, subscribed, refresh>>

\* initialize subscribes some of the cached markets, up to the limit, if the
\* connection is still there; later nobody subscribes again.
Subscribe(chosen) == subscribed' = subscribed \cup chosen /\ streamed' = streamed \cup chosen
SomeOf(own) == kSubset(Min({Cardinality(own), SubscriptionLimit}), own)

\* Kalshi: subscribe_to_all_markets, by ticker.
SubscribeToAllMarkets == \E tickers \in SomeOf(marketsCache \cap Of("kalshi")) : Subscribe(tickers)

\* Polymarket: subscribe_to_markets, by token.
SubscribeToMarkets == \E tokens \in SomeOf(marketsCache \cap Of("polymarket")) : Subscribe(tokens)

Subscribes(v) == IF v = "kalshi" THEN SubscribeToAllMarkets ELSE SubscribeToMarkets

InitializeGoesOn(v) ==
    /\ stage = Dialed(v)
    /\ IF conn[v] = "open" THEN Subscribes(v) ELSE UNCHANGED <<subscribed, streamed>>
    /\ stage' = IF v = "kalshi" THEN "polymarket_pages" ELSE "running"
    /\ UNCHANGED <<listed, changes, listing, series, catalogue, conn, attempts, closing, refresh>>

(***************************************************************************)
(* Messages of the streams.                                                *)
(***************************************************************************)
\* A price of the stream is cached.  Only cached markets are ever subscribed, so
\* the entries Kalshi's handler makes for unknown tickers do not come about.
PriceUpdate(m) ==
    /\ m \in streamed /\ m \in listed
    /\ priced' = priced \cup {m}
    /\ UNCHANGED <<stage, listed, changes, listing, series, marketsCache, closed, truncated, stream, refresh>>

(***************************************************************************)
(* The refresh of the Polymarket catalogue.                                *)
(***************************************************************************)
RefreshStarts ==
    /\ stage = "running" /\ ~sweep
    /\ sweep' = TRUE /\ seen' = {} /\ absent' = Polymarket \ listed
    /\ NewListing
    /\ UNCHANGED <<stage, listed, changes, series, catalogue, stream>>

\* The end of a sweep; only after a complete one is what it has not seen closed.
RefreshEnds(ids, complete) ==
    /\ closed' = ((closed \ ids) \cup (IF complete THEN (marketsCache \cap Polymarket) \ ids ELSE {}))
    /\ sweep' = FALSE /\ seen' = {} /\ absent' = {}
    /\ NewListing

RefreshPage ==
    LET rows == Rows("polymarket", cursor)
        next == NextCursor("polymarket", cursor)
    IN /\ sweep
       /\ marketsCache' = marketsCache \cup rows
       /\ IF rows = {} \/ next = 0 THEN RefreshEnds(seen \cup rows, TRUE)
          ELSE IF page + 1 = MaxPages THEN RefreshEnds(seen \cup rows, FALSE)
          ELSE /\ closed' = closed \ rows /\ seen' = seen \cup rows
               /\ page' = page + 1 /\ cursor' = next
               /\ UNCHANGED <<tries, found, sweep, absent>>
       /\ UNCHANGED <<stage, listed, changes, series, priced, truncated, stream>>

\* A bug the sweep could have: an error counts as the end of the listing.
RefreshFails_Complete ==
    /\ sweep /\ RefreshEnds(seen, TRUE)
    /\ UNCHANGED <<stage, listed, changes, series, marketsCache, priced, truncated, stream>>

\* A failed request or the time limit.
RefreshFails ==
    /\ sweep /\ RefreshEnds(seen, FALSE)
    /\ UNCHANGED <<stage, listed, changes, series, marketsCache, priced, truncated, stream>>

\* shutdown(): each client is disconnected.  A handshake under way may be done.
Disconnects(v) ==
    /\ stage \in {"running", "stopped"} /\ ~sweep /\ ~closing[v]
    /\ v = "polymarket" => closing["kalshi"]
    /\ stage' = "stopped"
    /\ closing' = [closing EXCEPT ![v] = TRUE]
    /\ \/ conn' = [conn EXCEPT ![v] = IF @ = "open" THEN "idle" ELSE @]
       \/ conn[v] = "dialing" /\ conn' = [conn EXCEPT ![v] = "open"]
    /\ streamed' = streamed \ Of(v)
    /\ UNCHANGED <<listed, changes, listing, series, catalogue, attempts, subscribed, refresh>>

Initialize ==
    \/ KalshiPage \/ KalshiRateLimited \/ KalshiPageFails \/ KalshiEvents \/ KalshiDiscovered
    \/ \E s \in Series : SeriesFetched(s) \/ SeriesRefused(s)
    \/ PolymarketPage \/ PolymarketPageFails
    \/ \E v \in Venue : InitializeGoesOn(v)

Connection(v) == Connects(v) \/ DialFails(v) \/ DialsAgain(v)

FeedNext ==
    \/ Initialize \/ ListingChanges
    \/ \E v \in Venue : Connection(v) \/ Drops(v) \/ Disconnects(v)
    \/ \E m \in Market : PriceUpdate(m)
    \/ RefreshStarts \/ RefreshPage \/ RefreshFails

\* Every request is answered or times out, every backoff ends.
FeedSpec == FeedInit /\ [][FeedNext]_feedVars /\ WF_feedVars(Initialize) /\ \A v \in Venue : WF_feedVars(Connection(v))

-----------------------------------------------------------------------------
\* No market that was listed during a whole refresh is closed by it, however
\* many pages it took, whatever else was delisted and whichever request failed.
ListedIsNotClosed ==
    [][\A m \in closed' \ closed : m \notin listed \/ m \in absent]_feedVars

\* Startup ends: no answers of the venues, refusals, timeouts and failures
\* included, keep initialize in its listings or in its reconnections.
StartupEnds == <>(stage = "running")
=============================================================================
