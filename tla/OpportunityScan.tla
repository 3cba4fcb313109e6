-------------------------- MODULE OpportunityScan --------------------------
(***************************************************************************)
(* The scan loop of the market analyzer and the evaluation of its matches. *)
(* One task per matched pair runs concurrently with the others: it reads   *)
(* the Kalshi book and then each Polymarket token's book, each from the    *)
(* cache its venue client keeps or, when that is missing or too old, over  *)
(* REST from a budget all tasks share; it then drops a book that is too    *)
(* far from the Kalshi one, turns the pair into the Kalshi-YES frame, and  *)
(* keeps the best of four strategies, which is executed.                   *)
(*                                                                         *)
(* Time is the age of a book, which every tick of the clock increases for  *)
(* the books in the caches and for the copies the tasks hold.  A book is   *)
(* its age: what its levels make of a strategy is any profit.              *)
(***************************************************************************)
EXTENDS MatchVerification, Sequences

CONSTANTS
    Pair, Ticker,   \* matched pairs of a scan; Kalshi markets
    TickerOf,       \* the Kalshi market of each pair: one may be in several pairs
    TokensOf,       \* the Polymarket outcomes of each pair that have a price: of "yes", "no"
    BatchOf,        \* the batch each pair is evaluated in
    Listing,        \* of each pair, what its two markets may say: <<Kalshi, Polymarket>>
    Listed,         \* the pairs the operator may write into the allow and deny list
    MaxMatches,     \* max_matches_per_market
    Judged,         \* whether the tiebreaker is configured
    Entries,        \* bound: the entries the operator writes, "absent" among them
    MaxAge,         \* ESTIMATED_MAX_ORDERBOOK_AGE_SECONDS
    MaxSkew,        \* MAX_CROSS_VENUE_SKEW_SECONDS
    Budget,         \* ORDERBOOK_REST_BUDGET_PER_SCAN
    RequireReal,    \* REQUIRE_REAL_ORDERBOOKS_FOR_ESTIMATED
    MaxLag,         \* bound: how old a book is when the stream delivers it
    MaxTicks,       \* bound: clock ticks of a scan
    MaxScans,       \* --max-scans
    MaxProfit       \* bound: the profits the strategies may have

ASSUME ScanAssumption ==
    /\ MaxAge \in Nat /\ MaxProfit \in Nat
    /\ \A p \in Pair : TickerOf[p] \in Ticker
    \* the direction of a market is read off its title
    /\ \A p \in Pair : \A l \in Listing[p] : \A i \in 1..2 :
          /\ {"negations", "over", "under", "plus"} \subseteq DOMAIN l[i]
          /\ l[i].over \in BOOLEAN /\ l[i].under \in BOOLEAN

Venue == {"kalshi", "polymarket"}
Leg == {"kalshi", "yes", "no"}      \* the books a task reads
Token == {"yes", "no"}
Book == {<<"kalshi", k>> : k \in Ticker} \cup {<<p, t>> : p \in Pair, t \in Token}
BookOf(p, leg) == IF leg = "kalshi" THEN <<"kalshi", TickerOf[p]>> ELSE <<p, leg>>
VenueOf(leg) == IF leg = "kalshi" THEN "kalshi" ELSE "polymarket"

Old == MaxAge + 1           \* ages are not told apart beyond the bound
None == -1                  \* no book
Synthetic == -2             \* a book made up from the last price, without a timestamp
Ages == None..Old

VARIABLES
    phase,      \* "start", "evaluate", "report", "sleep" or "stopped"
    running,    \* cleared by the signal handler
    scans,      \* scan_count
    ticks,      \* clock ticks of this scan
    age,        \* the age of each book in the clients' caches
    budget,     \* _orderbook_rest_budget of each venue
    pc,         \* of each task: "idle", a leg it is about to read, "rest", "evaluate", "execute", "done"
    leg,        \* the leg a task reads
    got,        \* the ages of the books each task holds
    file, status,   \* the list on disk, whether it is "ok", "missing" or "corrupt"
    list,       \* _approved and _denied: the list the verifier holds
    decided,    \* history: the operator's last readable list, as this scan began
    polarity,   \* the match's polarity
    meaning,    \* history: what the operator, the two titles or the judge say it is, or "open"
    best,       \* the strategy each task chose, or "none"
    history     \* opportunities_history: the number of opportunities of each scan

taskVars == <<pc, leg, got, best>>
listVars == <<file, status>>
matchVars == <<list, decided, polarity, meaning>>
vars == <<phase, running, scans, ticks, age, budget, taskVars, listVars, matchVars, history>>

NoBooks == [l \in Leg |-> None]
NoList == [p \in Pair |-> "absent"]
Lists == {f \in [Pair -> Entries] : \A p \in Pair \ Listed : f[p] = "absent"}

Init ==
    /\ phase = "start" /\ running = TRUE /\ scans = 0 /\ ticks = 0
    /\ age = [b \in Book |-> None]
    /\ budget = [v \in Venue |-> Budget]
    /\ pc = [p \in Pair |-> "idle"]
    /\ leg = [p \in Pair |-> "kalshi"]
    /\ got = [p \in Pair |-> NoBooks]
    /\ file \in Lists /\ status = "ok"
    /\ list = Load(file, status, NoList) /\ decided = file
    /\ polarity = [p \in Pair |-> "unknown"]
    /\ meaning = [p \in Pair |-> "open"]
    /\ best = [p \in Pair |-> "none"]
    /\ history = <<>>

(***************************************************************************)
(* The loop of the program and the frame of a scan.                        *)
(***************************************************************************)
\* The operator writes, breaks or removes the list: one edit between two loads.
EditList ==
    /\ phase = "start" /\ status = "ok" /\ list = file
    /\ \/ file' \in Lists /\ status' = "ok"
       \/ file' = NoList /\ status' \in {"missing", "corrupt"}
    /\ UNCHANGED <<phase, running, scans, ticks, age, budget, taskVars, matchVars, history>>

\* What a match's polarity should be: recorded by the operator, or read off two
\* comparable titles.
Meaning(entry, k, m) ==
    IF entry \in {"aligned", "inverted"} THEN entry
    ELSE IF ~TitlesComparable(k, m) THEN "open"
    ELSE IF TitlesOppose(k, m) THEN "inverted" ELSE "aligned"

\* What the filters and the verifier may make of a pair: a pair whose titles are
\* not similar is not verified.
Findings(p, entry) ==
    {[verdict |-> Reject, meaning |-> "open"]} \cup
    {[verdict |-> CompositeVerifier(entry, s[1], s[2], same), meaning |-> Meaning(entry, s[1], s[2])] :
        s \in {l \in Listing[p] : StatFilter(l[1], l[2])}, same \in BOOLEAN}

\* Where the rules leave the polarity open, two negations without a direction among
\* them, the judge's answer is what the match means.
MeaningKept(finding, verdict) ==
    IF verdict.polarity = finding.verdict.polarity THEN finding.meaning ELSE verdict.polarity

\* _find_market_matches: the best of the passed pairs of each Kalshi market, less
\* those the judge finds different.
MatchesFrom(found, kept) ==
    LET passed == {p \in Pair : found[p].verdict.passed}
    IN \E top \in SUBSET passed, score \in [Pair -> 0..1] :
          /\ \A k \in Ticker : IsTopMatches({p \in top : TickerOf[p] = k},
                                           {p \in passed : TickerOf[p] = k}, MaxMatches, score)
          /\ \A p \in Pair : kept[p] \in IF p \in top THEN Resolved(found[p].verdict, Judged) ELSE {Reject}

\* run_full_scan up to the evaluation: the counters and budgets of the scan
\* are reset, the list is loaded, the catalogue is read and matched.
StartScan ==
    /\ phase = "start" /\ running /\ scans < MaxScans
    /\ phase' = "evaluate" /\ ticks' = 0
    /\ budget' = [v \in Venue |-> Budget]
    /\ list' = Load(file, status, list)
    /\ decided' = IF status = "corrupt" THEN decided ELSE file
    /\ \E found \in [Pair -> UNION {Findings(p, list'[p]) : p \in Pair}] :
          /\ \A p \in Pair : found[p] \in Findings(p, list'[p])
          /\ \E kept \in [Pair -> UNION {Resolved(found[p].verdict, Judged) : p \in Pair} \cup {Reject}] :
                /\ MatchesFrom(found, kept)
                /\ pc' = [p \in Pair |-> IF kept[p].passed THEN "idle" ELSE "done"]
                /\ polarity' = [p \in Pair |-> kept[p].polarity]
                /\ meaning' = [p \in Pair |-> IF ~kept[p].passed THEN "open"
                                             ELSE MeaningKept(found[p], kept[p])]
    /\ leg' = [p \in Pair |-> "kalshi"]
    /\ got' = [p \in Pair |-> NoBooks]
    /\ best' = [p \in Pair |-> "none"]
    /\ UNCHANGED <<running, scans, age, listVars, history>>

\* A scan whose evaluation is over is reported, saved and counted.
Report ==
    /\ phase = "evaluate" /\ \A p \in Pair : pc[p] = "done"
    /\ history' = Append(history, Cardinality({p \in Pair : best[p] # "none"}))
    /\ scans' = scans + 1
    /\ phase' = "sleep"
    /\ UNCHANGED <<running, ticks, age, budget, taskVars, listVars, matchVars>>

\* An error in the frame of a scan is logged and the loop goes on.
ScanFails ==
    /\ phase = "start" /\ running /\ scans < MaxScans
    /\ phase' = "sleep"
    /\ UNCHANGED <<running, scans, ticks, age, budget, taskVars, listVars, matchVars, history>>

WakeUp ==
    /\ phase = "sleep"
    /\ phase' = IF running /\ scans < MaxScans THEN "start" ELSE "stopped"
    /\ UNCHANGED <<running, scans, ticks, age, budget, taskVars, listVars, matchVars, history>>

\* SIGINT or SIGTERM: the scan in progress is finished first.
Signal ==
    /\ running /\ phase # "stopped"
    /\ running' = FALSE
    /\ phase' = IF phase = "start" THEN "stopped" ELSE phase
    /\ UNCHANGED <<scans, ticks, age, budget, taskVars, listVars, matchVars, history>>

Older(n) == IF n \in 0..MaxAge THEN n + 1 ELSE n

Tick ==
    /\ phase = "evaluate" /\ ticks < MaxTicks
    /\ ticks' = ticks + 1
    /\ age' = [b \in Book |-> Older(age[b])]
    /\ got' = [p \in Pair |-> [l \in Leg |-> Older(got[p][l])]]
    /\ UNCHANGED <<phase, running, scans, budget, pc, leg, best, listVars, matchVars, history>>

\* A book message of the Polymarket stream replaces the token's cached book and
\* carries the venue's timestamp.  Kalshi's deltas are dropped by its client.
StreamBook ==
    /\ phase = "evaluate"
    /\ \E p \in Pair : pc[p] # "done" /\ \E t \in TokensOf[p], n \in 0..MaxLag :
          age' = [age EXCEPT ![<<p, t>>] = n]
    /\ UNCHANGED <<phase, running, scans, ticks, budget, taskVars, listVars, matchVars, history>>

(***************************************************************************)
(* One task: _calculate_single_opportunity and _find_best_arbitrage.       *)
(***************************************************************************)
IsFresh(n) == n \in 0..MaxAge

\* The legs a task reads one after the other, and what follows the last.
NextLeg(p, l) ==
    IF l = "kalshi" /\ "yes" \in TokensOf[p] THEN "yes"
    ELSE IF l \in {"kalshi", "yes"} /\ "no" \in TokensOf[p] THEN "no"
    ELSE "evaluate"

\* _get_cached_orderbook passes on what the client returned: a fresh book is
\* used, a stale one is not, and nothing is made up unless that is allowed.
Gate(n) == IF IsFresh(n) THEN n ELSE IF RequireReal THEN None ELSE Synthetic

\* The task holds the book and goes on; without a Kalshi book it gives up.
Reads(p, l, n) ==
    IF l = "kalshi" /\ Gate(n) = None
    THEN pc' = [pc EXCEPT ![p] = "done"] /\ UNCHANGED <<got, leg>>
    ELSE /\ got' = [got EXCEPT ![p][l] = Gate(n)]
         /\ leg' = [leg EXCEPT ![p] = NextLeg(p, l)]
         /\ pc' = [pc EXCEPT ![p] = IF NextLeg(p, l) = "evaluate" THEN "evaluate" ELSE "read"]

\* Only the tasks of the first unfinished batch run; a pair without cached
\* Polymarket prices is passed over.
StartTask(p) ==
    /\ phase = "evaluate" /\ pc[p] = "idle"
    /\ \A q \in Pair : BatchOf[q] < BatchOf[p] => pc[q] = "done"
    /\ pc' = [pc EXCEPT ![p] = IF TokensOf[p] = {} THEN "done" ELSE "read"]
    /\ UNCHANGED <<phase, running, scans, ticks, age, budget, leg, got, best, listVars, matchVars, history>>

\* get_market_orderbook: a fresh cached book.
ReadsCache(p) ==
    /\ pc[p] = "read" /\ IsFresh(age[BookOf(p, leg[p])])
    /\ Reads(p, leg[p], age[BookOf(p, leg[p])])
    /\ UNCHANGED <<phase, running, scans, ticks, age, budget, best, listVars, matchVars, history>>

\* No budget left: the stale book, or none.
ReadsStale(p) ==
    /\ pc[p] = "read" /\ ~IsFresh(age[BookOf(p, leg[p])]) /\ budget[VenueOf(leg[p])] = 0
    /\ Reads(p, leg[p], age[BookOf(p, leg[p])])
    /\ UNCHANGED <<phase, running, scans, ticks, age, budget, best, listVars, matchVars, history>>

\* The budget is charged before the request is awaited.
AsksRest(p) ==
    LET v == VenueOf(leg[p])
    IN /\ pc[p] = "read" /\ ~IsFresh(age[BookOf(p, leg[p])]) /\ budget[v] > 0
       /\ budget' = [budget EXCEPT ![v] = @ - 1]
       /\ pc' = [pc EXCEPT ![p] = "rest"]
       /\ UNCHANGED <<phase, running, scans, ticks, age, leg, got, best, listVars, matchVars, history>>

\* The answer is parsed, cached under the market and returned.
RestAnswers(p) ==
    /\ pc[p] = "rest"
    /\ age' = [age EXCEPT ![BookOf(p, leg[p])] = 0]
    /\ Reads(p, leg[p], 0)
    /\ UNCHANGED <<phase, running, scans, ticks, budget, best, listVars, matchVars, history>>

\* An error or another status: the book read before the request, which was
\* missing or stale, is returned.
RestFails(p) ==
    /\ pc[p] = "rest"
    /\ Reads(p, leg[p], None)
    /\ UNCHANGED <<phase, running, scans, ticks, age, budget, best, listVars, matchVars, history>>

(***************************************************************************)
(* The four strategies, in the Kalshi-YES frame.                           *)
(***************************************************************************)
Strategy == {"buyK_sellP", "buyP_sellK", "buyK_buyPno", "buyP_buyKno"}
Order == <<"buyK_sellP", "buyP_sellK", "buyK_buyPno", "buyP_buyKno">>

\* _skew_ok: a book without a timestamp is not held against the other.
Abs(n) == IF n < 0 THEN -n ELSE n
SkewOk(p, t) == \/ got[p][t] < 0 \/ got[p]["kalshi"] < 0
                \/ Abs(got[p]["kalshi"] - got[p][t]) <= MaxSkew
Usable(p, t) == got[p][t] # None /\ SkewOk(p, t)

\* The Polymarket token that stands for Kalshi's YES and for its NO: swapped
\* when the pair is inverted.
InFrame(p, t) == IF polarity[p] # "inverted" THEN t ELSE IF t = "yes" THEN "no" ELSE "yes"

\* The Polymarket token each strategy trades.
TokenOf(p, s) == InFrame(p, IF s = "buyK_buyPno" THEN "no" ELSE "yes")

Available(p) == {s \in Strategy : Usable(p, TokenOf(p, s))}

\* The first strategy with the largest profit, if any is positive.
BestOf(profit) ==
    LET top == Max({profit[s] : s \in Strategy})
        first == Min({i \in 1..4 : profit[Order[i]] = top})
    IN IF top > 0 THEN Order[first] ELSE "none"

\* The task returns: the books it held are gone.
Ends(p) ==
    /\ pc' = [pc EXCEPT ![p] = "done"]
    /\ leg' = [leg EXCEPT ![p] = "kalshi"]
    /\ got' = [got EXCEPT ![p] = NoBooks]

Evaluate(p) ==
    /\ pc[p] = "evaluate"
    /\ \E profit \in [Strategy -> 0..MaxProfit] :
          /\ \A s \in Strategy \ Available(p) : profit[s] = 0
          /\ best' = [best EXCEPT ![p] = BestOf(profit)]
          /\ IF BestOf(profit) = "none" THEN Ends(p)
             ELSE pc' = [pc EXCEPT ![p] = "execute"] /\ UNCHANGED <<leg, got>>
    /\ UNCHANGED <<phase, running, scans, ticks, age, budget, listVars, matchVars, history>>

\* The executor or the simulation has answered; an exception ends the task
\* without an opportunity.
Executes(p) ==
    /\ pc[p] = "execute" /\ Ends(p)
    /\ \/ UNCHANGED best
       \/ best' = [best EXCEPT ![p] = "none"]
    /\ UNCHANGED <<phase, running, scans, ticks, age, budget, listVars, matchVars, history>>

Task(p) ==
    \/ StartTask(p) \/ ReadsCache(p) \/ ReadsStale(p) \/ AsksRest(p)
    \/ RestAnswers(p) \/ RestFails(p) \/ Evaluate(p) \/ Executes(p)

Loop == StartScan \/ Report \/ ScanFails \/ WakeUp

Next == Loop \/ EditList \/ Signal \/ Tick \/ StreamBook \/ \E p \in Pair : Task(p)

Spec == Init /\ [][Next]_vars

-----------------------------------------------------------------------------
\* What a strategy holds if the event of the Kalshi market happens, less what it
\* holds if it does not: a Kalshi YES pays on the event, a token on its outcome.
KalshiExposure(s) == IF s \in {"buyK_sellP", "buyK_buyPno"} THEN 1 ELSE -1
Truth(p) == IF meaning[p] = "open" THEN InFrame(p, "yes") ELSE IF meaning[p] = "aligned" THEN "yes" ELSE "no"
PaysOnEvent(p, t) == t = Truth(p)
PolymarketExposure(p, s) ==
    LET bought == IF s = "buyK_sellP" THEN -1 ELSE 1
    IN IF PaysOnEvent(p, TokenOf(p, s)) THEN bought ELSE -bought

\* Whatever the titles say and the operator recorded, whichever books are missing
\* or dropped, the strategy a task chooses holds the same whether the event happens
\* or not, it trades a token whose book the task has, and the operator's last
\* readable list does not deny the pair (a corrupt file keeps the list before it).
ChoiceIsHedged ==
    \A p \in Pair : pc[p] = "execute" =>
        /\ decided[p] # "denied"
        /\ KalshiExposure(best[p]) + PolymarketExposure(p, best[p]) = 0
        /\ got[p][TokenOf(p, best[p])] # None

=============================================================================
