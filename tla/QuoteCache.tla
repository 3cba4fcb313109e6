---------------------------- MODULE QuoteCache ----------------------------
(***************************************************************************)
(* What one venue client knows of prices and books: the frames of the      *)
(* stream are parsed into messages, the messages' handlers fill the price  *)
(* cache and the book cache, a REST request fills them where the stream    *)
(* has not, and a book is served while its time stamp is recent.           *)
(*                                                                         *)
(* Numbers on the wire are counted in hundredths: a price of p cents is p  *)
(* when sent in dollars and 100 * p when sent in cents.  The venue's book  *)
(* of a token stands still: an entry keeps whose book it was made from and *)
(* how long ago that was read at the venue, which is what may go wrong.    *)
(***************************************************************************)
EXTENDS VenueFees, SequencesExt

CONSTANTS
    KalshiTicker,        \* the Kalshi market
    PmTokens,            \* the two tokens of the Polymarket market
    PmOutcome,           \* their outcomes' names: token_outcome_map
    VenueBooks,          \* the books each venue may have, two sides of levels in cents
    BookMaxAge,          \* ESTIMATED_MAX_ORDERBOOK_AGE_SECONDS
    Delay,               \* how long a frame or an answer may be under way
    MaxRequests,         \* REST requests under way at a time
    NoEntry              \* a missing entry, request, frame or field

\* The levels of a venue's book: Kalshi's prices are whole cents between nothing and a dollar.
KalshiLevel == [price : 1..99, size : Nat]
PmLevel == [price : 0..100, size : Nat \ {0}]

\* The market's tokens and its outcomes are different names; both ages are numbers.
ASSUME QuoteAssumption ==
    /\ BookMaxAge \in Nat /\ Delay \in Nat
    /\ NoEntry \notin Int /\ NoEntry \notin PmTokens /\ "default" \notin PmTokens
    /\ \A t \in PmTokens : PmOutcome[t] \notin PmTokens \cup {"default", NoEntry}
    /\ \A t, u \in PmTokens : PmOutcome[t] = PmOutcome[u] => t = u
    /\ \A b \in VenueBooks["kalshi"] : b.yes \in Seq(KalshiLevel) /\ b.no \in Seq(KalshiLevel)
    /\ \A b \in VenueBooks["polymarket"] : b.bids \in Seq(PmLevel) /\ b.asks \in Seq(PmLevel)

VARIABLES
    client,     \* the venue whose client this is
    watched,    \* the Polymarket channel looked at, books or prices: their caches do not meet
    truth,      \* the venue's book of each token
    wire,       \* the frame under way on the stream
    requests,   \* the REST requests under way
    held,       \* orderbook_cache
    quotes      \* price_cache

quoteVars == <<client, watched, truth, wire, requests, held, quotes>>

PmKeys == PmTokens \cup {PmOutcome[t] : t \in PmTokens} \cup {"default"}
ClientTokens(v) == IF v = "kalshi" THEN {KalshiTicker} ELSE PmTokens
Keys == PmKeys \cup {KalshiTicker}

\* A book too old to be served; what is in it no longer matters.
StaleBook == [of |-> NoEntry, book |-> <<>>, is |-> 0, says |-> BookMaxAge + 1]

QuoteInit ==
    /\ client \in {"kalshi", "polymarket"} /\ watched \in {"book", "price_change"}
    /\ truth \in [ClientTokens(client) -> VenueBooks[client]]
    /\ wire = NoEntry
    /\ requests = [r \in 1..MaxRequests[client] |-> NoEntry]
    /\ held = [k \in Keys |-> NoEntry]
    /\ quotes = [k \in Keys |-> NoEntry]

(***************************************************************************)
(* Levels and prices.                                                      *)
(***************************************************************************)
\* A level that cannot be read as two numbers.
Unreadable == [price |-> -1, size |-> -1]

\* KalshiClient._cents_to_dollars: from one on, a number is cents.
CentsToDollars(x) == IF x = NoEntry THEN 50 ELSE IF x >= 100 THEN x \div 100 ELSE x

\* _normalize_kalshi_levels
NormalizeKalshiLevels(levels, alreadyDollars) ==
    LET good == Only(levels, {i \in DOMAIN levels : levels[i] # Unreadable})
    IN IF alreadyDollars THEN good
       ELSE [i \in DOMAIN good |-> [good[i] EXCEPT !.price = CentsToDollars(@)]]

\* The asks that the bids on the other side amount to.
Complements(bids) ==
    LET positive == Only(bids, {i \in DOMAIN bids : bids[i].price > 0})
    IN [i \in DOMAIN positive |-> [positive[i] EXCEPT !.price = 100 - @]]

\* _parse_orderbook_payload: the dollar arrays, or the cents arrays of old.
ParseOrderbookPayload(data) ==
    LET bids(side) == NormalizeKalshiLevels(data.sides[side], data.shape = "fp")
    IN [yes_bids |-> bids("yes"), no_bids |-> bids("no"),
        yes_asks |-> Complements(bids("no")), no_asks |-> Complements(bids("yes"))]

\* PolymarketClient._is_valid_probability
IsValidProbability(x) == x # NoEntry /\ x >= 0 /\ x <= 100

\* _normalize_polymarket_levels: drops what is no price or no size, best level first.
NormalizePolymarketLevels(levels, side) ==
    LET good == {i \in DOMAIN levels : IsValidProbability(levels[i].price) /\ levels[i].size > 0}
    IN Arranged(levels, good, [i \in good |-> IF side = "bids" THEN -levels[i].price ELSE levels[i].price])

(***************************************************************************)
(* Frames and messages.  A frame names its market, its asset, its outcome  *)
(* and its time, or leaves them out.                                       *)
(***************************************************************************)
Improbable == [price |-> 150, size |-> 1]
Junk(levels) == {levels, Append(levels, Unreadable), Append(levels, Improbable)}
Encoded(levels, shape) ==
    IF shape = "fp" THEN levels ELSE [i \in DOMAIN levels |-> [levels[i] EXCEPT !.price = 100 * @]]

\* What the venue sends: books, price changes (a frame with several is several
\* frames), tickers, changes of one level, trades, and what is no message at all.
Frames(v) ==
    IF v = "kalshi"
    THEN [type : {"orderbook_delta", "ticker_v2", "trade", "noise"}, of : {KalshiTicker}, named : {{"asset"}},
          shape : {"fp", "legacy"}, age : {0}]
    ELSE [type : {watched, "noise"}, of : PmTokens, shape : {"fp"}, age : {0},
          named : {{"asset"}, {"outcome"}, {"market", "time"}, {"market", "outcome"}, {"market", "asset", "outcome", "time"}}]

VenueSends ==
    /\ wire = NoEntry /\ wire' \in Frames(client)
    /\ UNCHANGED <<client, watched, truth, requests, held, quotes>>

\* The best price of a side and a number in the unit it is sent in, if there is one.
BestPrice(levels) == IF levels = <<>> THEN NoEntry ELSE CHOOSE p \in {l.price : l \in Range(levels)} : \A l \in Range(levels) : l.price <= p
OnWire(x, shape) == IF x = NoEntry \/ shape = "fp" THEN x ELSE 100 * x
AskFor(bids) == IF bids = <<>> THEN NoEntry ELSE 100 - BestPrice(bids)

\* KalshiWebSocketClient._parse_message: answers to commands and unknown types are no message.
ParseKalshiMessage(f) ==
    IF f.type = "noise" THEN {}
    ELSE {[channel |-> CASE f.type = "orderbook_delta" -> "orderbook" [] f.type = "ticker_v2" -> "ticker" [] OTHER -> "trade",
           frame |-> f]}

\* _parse_polymarket_event: a book or a price change.
ParsePolymarketEvent(f) ==
    CASE f.type = "book" -> {[channel |-> "orderbook", frame |-> f]}
      [] f.type = "price_change" -> {[channel |-> "price", frame |-> f]}
      [] OTHER -> {}

\* _parse_polymarket_timestamp: the venue's time, in milliseconds or seconds, else now.
StampAge(f) == IF "time" \in f.named THEN f.age ELSE 0

\* The token a message is about: its asset, else its outcome's name.
TokenId(f) == IF "asset" \in f.named THEN f.of ELSE IF "outcome" \in f.named THEN PmOutcome[f.of] ELSE NoEntry

\* _resolve_market_id: by its own market, else by its token.
ResolvesMarket(f) == "market" \in f.named \/ TokenId(f) \in PmTokens

(***************************************************************************)
(* The handlers.                                                           *)
(***************************************************************************)
\* KalshiClient._handle_price_update
HandleKalshiPrice(f) ==
    LET cents(x) == CentsToDollars(OnWire(x, f.shape))
        sides == truth[f.of]
    IN /\ quotes' = [quotes EXCEPT ![f.of] =
              [yes_price |-> cents(BestPrice(sides.yes)), no_price |-> cents(BestPrice(sides.no)),
               yes_ask |-> cents(AskFor(sides.no))]]
       /\ UNCHANGED held

\* A bug the handler had: the change of one level taken for the whole book.
HandleKalshiOrderbook_AsBook(f) ==
    /\ held' = [held EXCEPT ![f.of] =
          [of |-> f.of, is |-> f.age, says |-> 0,
           book |-> ParseOrderbookPayload([shape |-> "fp", sides |-> [yes |-> SelectSeq(truth[f.of].yes, LAMBDA l : l.price = BestPrice(truth[f.of].yes)), no |-> <<>>]])]]
    /\ UNCHANGED quotes

\* KalshiClient._handle_orderbook_update: changes are counted and dropped.
HandleKalshiOrderbook(f) == UNCHANGED <<held, quotes>>

\* PolymarketClient._handle_price_update; an invalid price is dropped.
HandlePmPrice(f) ==
    LET key == IF TokenId(f) = NoEntry THEN "default" ELSE TokenId(f)
    IN /\ \E price \in {BestPrice(truth[f.of].bids), Improbable.price, NoEntry} :
             quotes' = IF ResolvesMarket(f) /\ IsValidProbability(price) THEN [quotes EXCEPT ![key] = price] ELSE quotes
       /\ UNCHANGED held

PmEntry(f, book) == [of |-> f.of, book |-> book, is |-> f.age, says |-> StampAge(f)]

\* PolymarketClient._handle_orderbook_update: by token, and by outcome unless that is there.
HandlePmOrderbook(f) ==
    LET token == TokenId(f)
        outcome == IF "outcome" \in f.named \/ token \in PmTokens THEN PmOutcome[f.of] ELSE "default"
        key == IF token = NoEntry THEN outcome ELSE token
    IN /\ \E bids \in Junk(truth[f.of].bids), asks \in Junk(truth[f.of].asks) :
             LET book == [bids |-> NormalizePolymarketLevels(bids, "bids"),
                          asks |-> NormalizePolymarketLevels(asks, "asks")]
                 stored == [held EXCEPT ![key] = PmEntry(f, book)]
             IN held' = IF ~ResolvesMarket(f) \/ (book.bids = <<>> /\ book.asks = <<>>) THEN held
                        ELSE IF token # NoEntry /\ stored[outcome] = NoEntry THEN [stored EXCEPT ![outcome] = PmEntry(f, book)]
                        ELSE stored
       /\ UNCHANGED quotes

\* WebSocketManager._handle_message dispatches a message to its channel's
\* handler; trades have none.
Dispatch(m) ==
    CASE m.channel = "ticker" -> HandleKalshiPrice(m.frame)
      [] m.channel = "orderbook" -> IF client = "kalshi" THEN HandleKalshiOrderbook(m.frame) ELSE HandlePmOrderbook(m.frame)
      [] m.channel = "price" -> HandlePmPrice(m.frame)
      [] OTHER -> UNCHANGED <<held, quotes>>

\* Text that is empty, an acknowledgement, an error or no JSON yields no message.
HandleMessage ==
    LET messages == IF client = "kalshi" THEN ParseKalshiMessage(wire) ELSE ParsePolymarketEvent(wire)
    IN /\ wire # NoEntry
       /\ IF messages = {} THEN UNCHANGED <<held, quotes>> ELSE \E m \in messages : Dispatch(m)
       /\ wire' = NoEntry
       /\ UNCHANGED <<client, watched, truth, requests>>

(***************************************************************************)
(* REST.                                                                   *)
(***************************************************************************)
IsFreshBook(e) == e # NoEntry /\ e.says <= BookMaxAge

\* get_market_orderbook looks under the token and then under its outcome.
Cached(t) == IF client = "kalshi" \/ held[t] # NoEntry THEN held[t] ELSE held[PmOutcome[t]]

\* A miss or a stale book is asked for (what the requests may cost is another module's).
AsksForBook(r, t) ==
    /\ requests[r] = NoEntry /\ ~IsFreshBook(Cached(t))
    /\ requests' = [requests EXCEPT ![r] = [of |-> t, is |-> -1]]
    /\ UNCHANGED <<client, watched, truth, wire, held, quotes>>

VenueReads(r) ==
    /\ requests[r] # NoEntry /\ requests[r].is = -1
    /\ requests' = [requests EXCEPT ![r].is = 0]
    /\ UNCHANGED <<client, watched, truth, wire, held, quotes>>

RestEntry(r, book) == [of |-> requests[r].of, book |-> book, is |-> requests[r].is, says |-> 0]

\* KalshiClient._fetch_orderbook_rest: the answer is parsed, stamped with now and kept.
FetchKalshiBook(r) ==
    LET t == requests[r].of
    IN \E shape \in {"fp", "legacy"}, junk \in {<<>>, <<Unreadable>>} :
          held' = [held EXCEPT ![t] = RestEntry(r, ParseOrderbookPayload(
                      [shape |-> shape, sides |-> [yes |-> Encoded(truth[t].yes, shape) \o junk,
                                                   no |-> Encoded(truth[t].no, shape)]]))]

\* PolymarketClient._fetch_orderbook_rest, which keeps an empty book too.
FetchPmBook(r) ==
    LET t == requests[r].of
    IN \E bids \in Junk(truth[t].bids) :
          held' = [held EXCEPT ![t] = RestEntry(r, [bids |-> NormalizePolymarketLevels(bids, "bids"),
                                                    asks |-> NormalizePolymarketLevels(truth[t].asks, "asks")])]

RestBookArrives(r) ==
    /\ requests[r] # NoEntry /\ requests[r].is >= 0
    /\ IF client = "kalshi" THEN FetchKalshiBook(r) ELSE FetchPmBook(r)
    /\ requests' = [requests EXCEPT ![r] = NoEntry]
    /\ UNCHANGED <<client, watched, truth, wire, quotes>>

\* Another status, or an error.
RestBookFails(r) ==
    /\ requests[r] # NoEntry
    /\ requests' = [requests EXCEPT ![r] = NoEntry]
    /\ UNCHANGED <<client, watched, truth, wire, held, quotes>>

\* KalshiClient._fetch_prices_via_rest, only for a market without a price.
\* Its own guard against cents is "> 1".
FetchPricesViaRest ==
    LET sides == truth[KalshiTicker]
        guard(x) == IF x > 100 THEN x \div 100 ELSE x
        orHalf(x) == IF x = 0 THEN 50 ELSE x
    IN /\ client = "kalshi" /\ quotes[KalshiTicker] = NoEntry
       /\ \E shape \in {"fp", "legacy"} :
             LET number(x) == IF x = NoEntry THEN 0 ELSE guard(OnWire(x, shape))
                 bid == number(BestPrice(sides.yes))
                 ask == number(AskFor(sides.no))
             IN quotes' = [quotes EXCEPT ![KalshiTicker] =
                    [yes_price |-> orHalf(bid), no_price |-> IF ask = 0 THEN 50 ELSE 100 - ask, yes_ask |-> orHalf(ask)]]
       /\ UNCHANGED <<client, watched, truth, wire, requests, held>>

(***************************************************************************)
(* Time.                                                                   *)
(***************************************************************************)
OneOlder(e) ==
    IF e = NoEntry THEN NoEntry
    ELSE IF e.says >= BookMaxAge THEN StaleBook
    ELSE [e EXCEPT !.is = @ + 1, !.says = @ + 1]

TimePasses ==
    /\ wire # NoEntry => wire.age < Delay
    /\ \A r \in DOMAIN requests : requests[r] # NoEntry => requests[r].is < Delay
    /\ held' = [k \in Keys |-> OneOlder(held[k])]
    /\ wire' = IF wire = NoEntry THEN wire ELSE [wire EXCEPT !.age = @ + 1]
    /\ requests' = [r \in DOMAIN requests |->
           IF requests[r] # NoEntry /\ requests[r].is >= 0 THEN [requests[r] EXCEPT !.is = @ + 1] ELSE requests[r]]
    /\ UNCHANGED <<client, watched, truth, quotes>>

QuoteNext ==
    \/ VenueSends \/ HandleMessage \/ FetchPricesViaRest \/ TimePasses
    \/ \E r \in DOMAIN requests :
          \/ VenueReads(r) \/ RestBookArrives(r) \/ RestBookFails(r)
          \/ \E t \in ClientTokens(client) : AsksForBook(r, t)
QuoteSpec == QuoteInit /\ [][QuoteNext]_quoteVars

-----------------------------------------------------------------------------
Priced(levels) == {<<l.price, l.size>> : l \in Range(levels)}
Flipped(levels) == {<<100 - l.price, l.size>> : l \in Range(levels)}
Falling(levels) == \A i, j \in DOMAIN levels : i < j => levels[i].price >= levels[j].price

\* A Kalshi book (YES and NO bids, the asks they amount to) and a Polymarket
\* book (best level first) that say what the venue's own book says.
SameKalshiBook(book, true) ==
    /\ Priced(book.yes_bids) = Priced(true.yes) /\ Priced(book.yes_asks) = Flipped(true.no)
    /\ Priced(book.no_bids) = Priced(true.no) /\ Priced(book.no_asks) = Flipped(true.yes)
SamePmBook(book, true) ==
    /\ Priced(book.bids) = Priced(true.bids) /\ Falling(book.bids)
    /\ Priced(book.asks) = Priced(true.asks) /\ Falling(Reverse(book.asks))

\* The token's own, read recently, and whole.
BookIsRecent(t) ==
    IsFreshBook(Cached(t)) => Cached(t).of = t /\ Cached(t).is <= BookMaxAge + Delay
Whole(book, true) == IF client = "kalshi" THEN SameKalshiBook(book, true) ELSE SamePmBook(book, true)
BookIsWhole(t) == IsFreshBook(Cached(t)) => Whole(Cached(t).book, truth[t])
BookIsTheVenues(t) == BookIsRecent(t) /\ BookIsWhole(t)

\* Read at one cent, in cents, the REST price is taken for a dollar: the exception.
PriceIsTheVenues(t) ==
    quotes[t] # NoEntry =>
        IF client = "polymarket" THEN quotes[t] = BestPrice(truth[t].bids)
        ELSE 1 \notin {BestPrice(truth[t].yes), AskFor(truth[t].no)} =>
                /\ quotes[t].yes_price \in {BestPrice(truth[t].yes), 50}
                /\ quotes[t].no_price \in {BestPrice(truth[t].no), 50}
                /\ quotes[t].yes_ask \in {AskFor(truth[t].no), 50}

\* What a client serves is what its venue said, whichever of frames and answers
\* came last and whatever they left out.  A book served as fresh is the asked
\* token's own and whole book, every level at the venue's price on its side,
\* read at the venue no longer ago than the age limit and one delay; a price is
\* the venue's, or the half that stands for none.
QuotesAreTheVenues == \A t \in ClientTokens(client) : BookIsTheVenues(t) /\ PriceIsTheVenues(t)
=============================================================================
