----------------------------- MODULE EventCache -----------------------------
(***************************************************************************)
(* The weather and crypto families' event cache: one pickle per settled    *)
(* event, filled by builders that run as separate processes, rewritten in  *)
(* place by the refetch, locked into splits once, and read by the lab.     *)
(* Beside it the feature store, one file per field, joined as of the       *)
(* minute.  Events are numbered in the order of their dates.  A market's   *)
(* candles are 0 (none), 1 (closes only) or 2 (with the traded range).     *)
(***************************************************************************)
EXTENDS Integers, Sequences, FiniteSets, FiniteSetsExt

CONSTANTS
    Event,          \* 1..n, by date
    Contract,       \* the markets of an event
    Worker,         \* the builders, numbered 0..nshards - 1
    MinEvents,      \* events a split needs; twenty in the code
    TrainOf(_),     \* how many of n events train, and how many validate
    ValOf(_),
    MaxCacheFaults, \* bound on failed requests and deaths
    MaxReadings,    \* bound on loads
    Moment, FieldValue, MaxWrites

\* int(n * 0.6) and the like; values and moments as the store keeps them.
ASSUME CacheAssumption ==
    /\ Event \subseteq Nat /\ IsFiniteSet(Event)
    /\ \A n \in 0..Cardinality(Event) : TrainOf(n) \in Nat /\ ValOf(n) \in Nat
    /\ \E last \in Moment : last \in Nat /\ Moment \subseteq 0..last
    /\ "none" \notin FieldValue

VARIABLES
    family,         \* "weather" or "crypto"
    venue,          \* Contract -> the candles the venue holds for an event, 0 or 2
    finished,       \* how many events have settled
    file,           \* Event -> [state, candles]
    builder,        \* Worker -> [at, todo, event, candles]
    refetch,        \* the refetch pass: [at, todo, event, candles]
    lockedSplits,   \* splits.json, NotLocked before the lock
    reading,        \* a load in progress: [at, split, todo, got, lock]
    cacheFaults, readings,
    rows, stamp,    \* a field's rows and its file's mtime
    memo,           \* the reader process's cached copy: [stamp, rows]
    joined          \* the last panel joined: its values, and the rows stored at the time
buildVars == <<family, venue, finished, file, builder, refetch, lockedSplits, reading, cacheFaults, readings>>
featureVars == <<rows, stamp, memo, joined>>

Nothing == [c \in Contract |-> 0]
Absent == [state |-> "absent", candles |-> Nothing]
Torn == [state |-> "torn", candles |-> Nothing]
Whole(candles) == [state |-> "whole", candles |-> candles]
IdleWorker == [at |-> "idle", todo |-> {}, event |-> 0, candles |-> Nothing]
NextEvent(pass) == [pass EXCEPT !.at = "visit", !.event = 0, !.candles = Nothing]
IdleReading == [at |-> "idle", split |-> "none", todo |-> {}, got |-> {}, lock |-> {}]
NotLocked == [train |-> {}, val |-> {}, test |-> {}, locked |-> FALSE]
Exists(e) == file[e].state # "absent"

(***************************************************************************)
(* The fetcher.                                                            *)
(***************************************************************************)
\* settled_events: the settled ones, newest first; position 0 is the newest.
SettledEvents == {e \in Event : e <= finished}
Position(e) == finished - e

\* fetch_candles: the live endpoint, then the historical one, with the traded range.  A
\* settled market's history does not change, and a market may have none.
FetchCandles == venue

(***************************************************************************)
(* build_cache.                                                            *)
(***************************************************************************)
\* A crypto shard takes every nshards-th of its own listing; weather takes it all.
Share(w) ==
    IF family = "weather" THEN SettledEvents
    ELSE {e \in SettledEvents : Position(e) % Cardinality(Worker) = w}
BuildStart(w) ==
    /\ builder[w].at = "idle" /\ (family = "weather" => w = 0)
    /\ Share(w) # {}
    /\ builder' = [builder EXCEPT ![w] = [@ EXCEPT !.at = "visit", !.todo = Share(w)]]
    /\ UNCHANGED <<family, venue, finished, file, refetch, lockedSplits, reading, cacheFaults, readings>>

BuildDone(w) ==
    /\ builder[w].at = "visit" /\ builder[w].todo = {}
    /\ builder' = [builder EXCEPT ![w] = IdleWorker]
    /\ UNCHANGED <<family, venue, finished, file, refetch, lockedSplits, reading, cacheFaults, readings>>

\* Newest first; a file that exists is skipped whatever it holds.
BuildVisit(w) ==
    /\ builder[w].at = "visit" /\ builder[w].todo # {}
    /\ LET e == Max(builder[w].todo) IN
       builder' = [builder EXCEPT ![w] =
           [@ EXCEPT !.todo = @ \ {e}, !.event = IF Exists(e) THEN 0 ELSE e,
                     !.at = IF Exists(e) THEN "visit" ELSE "fetch"]]
    /\ UNCHANGED <<family, venue, finished, file, refetch, lockedSplits, reading, cacheFaults, readings>>

\* Every market's candles; an event without any is not written.
Fetched(pass) == IF FetchCandles = Nothing THEN NextEvent(pass) ELSE [pass EXCEPT !.candles = FetchCandles, !.at = "write"]
BuildFetch(w) ==
    /\ family = "weather" /\ builder[w].at = "fetch"
    /\ builder' = [builder EXCEPT ![w] = Fetched(@)]
    /\ UNCHANGED <<family, venue, finished, file, refetch, lockedSplits, reading, cacheFaults, readings>>

\* Six tries failed.  Weather lets the error end the run.
BuildFetchFails(w) ==
    /\ family = "weather" /\ builder[w].at = "fetch" /\ cacheFaults < MaxCacheFaults
    /\ cacheFaults' = cacheFaults + 1
    /\ builder' = [builder EXCEPT ![w] = IdleWorker]
    /\ UNCHANGED <<family, venue, finished, file, refetch, lockedSplits, reading, readings>>

\* Crypto leaves the event uncached and goes on to the next one.
CryptoFetch(w) ==
    /\ family = "crypto" /\ builder[w].at = "fetch"
    /\ \/ builder' = [builder EXCEPT ![w] = Fetched(@)] /\ UNCHANGED cacheFaults
       \/ /\ cacheFaults < MaxCacheFaults /\ cacheFaults' = cacheFaults + 1
          /\ builder' = [builder EXCEPT ![w] = NextEvent(@)]
    /\ UNCHANGED <<family, venue, finished, file, refetch, lockedSplits, reading, readings>>

\* Crypto replaces the file with a finished one.
CryptoWrite(w) ==
    /\ family = "crypto" /\ builder[w].at = "write"
    /\ file' = [file EXCEPT ![builder[w].event] = Whole(builder[w].candles)]
    /\ builder' = [builder EXCEPT ![w] = NextEvent(@)]
    /\ UNCHANGED <<family, venue, finished, refetch, lockedSplits, reading, cacheFaults, readings>>

\* Weather opens the file itself and dumps into it.
BuildWrite(w) ==
    /\ family = "weather" /\ builder[w].at = "write"
    /\ file' = [file EXCEPT ![builder[w].event] = Torn]
    /\ builder' = [builder EXCEPT ![w] = [@ EXCEPT !.at = "dump"]]
    /\ UNCHANGED <<family, venue, finished, refetch, lockedSplits, reading, cacheFaults, readings>>
BuildDump(w) ==
    /\ builder[w].at = "dump"
    /\ file' = [file EXCEPT ![builder[w].event] = Whole(builder[w].candles)]
    /\ builder' = [builder EXCEPT ![w] = NextEvent(@)]
    /\ UNCHANGED <<family, venue, finished, refetch, lockedSplits, reading, cacheFaults, readings>>

BuildDies(w) ==
    /\ builder[w].at # "idle" /\ cacheFaults < MaxCacheFaults
    /\ cacheFaults' = cacheFaults + 1
    /\ builder' = [builder EXCEPT ![w] = IdleWorker]
    /\ UNCHANGED <<family, venue, finished, file, refetch, lockedSplits, reading, readings>>

(***************************************************************************)
(* refetch_candles, weather only.                                          *)
(***************************************************************************)
RefetchStart ==
    /\ family = "weather" /\ refetch.at = "idle" /\ \E e \in Event : Exists(e)
    /\ refetch' = [IdleWorker EXCEPT !.at = "visit", !.todo = {e \in Event : Exists(e)}]
    /\ UNCHANGED <<family, venue, finished, file, builder, lockedSplits, reading, cacheFaults, readings>>

\* An unreadable file, or one whose first market already carries the range, is passed over.
RefetchVisit ==
    /\ refetch.at = "visit" /\ refetch.todo # {}
    /\ LET e == Min(refetch.todo)
           skip == \/ file[e].state # "whole"
                   \/ file[e].candles[CHOOSE c \in Contract : TRUE] = 2
       IN refetch' = IF skip THEN [refetch EXCEPT !.todo = @ \ {e}]
                     ELSE [at |-> "fetch", todo |-> refetch.todo \ {e}, event |-> e, candles |-> file[e].candles]
    /\ UNCHANGED <<family, venue, finished, file, builder, lockedSplits, reading, cacheFaults, readings>>
RefetchDone ==
    /\ refetch.at = "visit" /\ refetch.todo = {}
    /\ refetch' = IdleWorker
    /\ UNCHANGED <<family, venue, finished, file, builder, lockedSplits, reading, cacheFaults, readings>>

\* A market whose fetch failed or came back empty keeps what the file had.
Keep(old, new) == IF new = 0 THEN old ELSE new
RefetchFetch ==
    /\ refetch.at = "fetch"
    /\ \E lost \in SUBSET Contract :
        LET got == [c \in Contract |-> IF c \in lost THEN 0 ELSE FetchCandles[c]] IN
        /\ lost # {} => cacheFaults < MaxCacheFaults
        /\ cacheFaults' = cacheFaults + (IF lost = {} THEN 0 ELSE 1)
        /\ refetch' = IF got = Nothing THEN NextEvent(refetch)
                      ELSE [refetch EXCEPT !.candles = [c \in Contract |-> Keep(@[c], got[c])], !.at = "replace"]
    /\ UNCHANGED <<family, venue, finished, file, builder, lockedSplits, reading, readings>>
RefetchReplace ==
    /\ refetch.at = "replace"
    /\ file' = [file EXCEPT ![refetch.event] = Whole(refetch.candles)]
    /\ refetch' = NextEvent(refetch)
    /\ UNCHANGED <<family, venue, finished, builder, lockedSplits, reading, cacheFaults, readings>>
RefetchDies ==
    /\ refetch.at # "idle" /\ cacheFaults < MaxCacheFaults
    /\ cacheFaults' = cacheFaults + 1 /\ refetch' = IdleWorker
    /\ UNCHANGED <<family, venue, finished, file, builder, lockedSplits, reading, readings>>

(***************************************************************************)
(* make_splits and the loads.                                              *)
(***************************************************************************)
\* Chronological over the files there are.
Chronological(ids) ==
    LET n == Cardinality(ids)
        rank(e) == Cardinality({d \in ids : d <= e})
    IN [train |-> {e \in ids : rank(e) <= TrainOf(n)},
        val |-> {e \in ids : rank(e) > TrainOf(n) /\ rank(e) <= TrainOf(n) + ValOf(n)},
        test |-> {e \in ids : rank(e) > TrainOf(n) + ValOf(n)},
        locked |-> TRUE]

\* Refused once locked, and on too few events.
MakeSplits ==
    LET ids == {e \in Event : Exists(e)} IN
    /\ ~lockedSplits.locked /\ Cardinality(ids) >= MinEvents
    /\ lockedSplits' = Chronological(ids)
    /\ UNCHANGED <<family, venue, finished, file, builder, refetch, reading, cacheFaults, readings>>

\* _split_filter: without a name, everything but the test set.
InSplit_NoneMeansAll(split, e) ==
    CASE split = "train" -> e \in lockedSplits.train
      [] split = "val" -> e \in lockedSplits.val
      [] split = "test" -> e \in lockedSplits.test
      [] split = "nontest" -> e \notin lockedSplits.test
      [] split = "default" -> TRUE
InSplit(split, e) ==
    CASE split = "train" -> e \in lockedSplits.train
      [] split = "val" -> e \in lockedSplits.val
      [] split = "test" -> e \in lockedSplits.test
      [] split \in {"nontest", "default"} -> e \notin lockedSplits.test

\* split_of: the label a panel carries.
SplitOf(e) == CASE e \in lockedSplits.train -> "train" [] e \in lockedSplits.val -> "val"
                [] e \in lockedSplits.test -> "test" [] OTHER -> "unknown"

\* enumerate_events
EventsOf(split) == {e \in Event : Exists(e) /\ InSplit(split, e)}
EnumerateEvents ==
    /\ reading.at = "idle" /\ readings < MaxReadings
    /\ \E split \in {"train", "val", "test", "nontest", "default"} :
        reading' = [at |-> "load", split |-> split, got |-> {}, lock |-> lockedSplits.test, todo |-> EventsOf(split)]
    /\ readings' = readings + 1
    /\ UNCHANGED <<family, venue, finished, file, builder, refetch, lockedSplits, cacheFaults>>

\* load_panel: an event whose file cannot be read is dropped; its panel carries the label of now.
LoadCachedPanel(e) == IF file[e].state = "whole" THEN {[event |-> e, label |-> SplitOf(e)]} ELSE {}
LoadEvent ==
    /\ reading.at = "load" /\ reading.todo # {}
    /\ LET e == Min(reading.todo) IN
       reading' = [reading EXCEPT !.todo = @ \ {e}, !.got = @ \cup LoadCachedPanel(e)]
    /\ UNCHANGED <<family, venue, finished, file, builder, refetch, lockedSplits, cacheFaults, readings>>
LoadDone ==
    /\ reading.at = "load" /\ reading.todo = {}
    /\ reading' = IdleReading
    /\ UNCHANGED <<family, venue, finished, file, builder, refetch, lockedSplits, cacheFaults, readings>>

EventSettles ==
    /\ finished < Cardinality(Event) /\ finished' = finished + 1
    /\ UNCHANGED <<family, venue, file, builder, refetch, lockedSplits, reading, cacheFaults, readings>>

(***************************************************************************)
(* The feature store.                                                      *)
(***************************************************************************)
\* write_field: append keeps the last value written for a moment, replace keeps nothing.
WriteField ==
    /\ stamp < MaxWrites
    /\ \E t \in Moment, v \in FieldValue, mode \in {"append", "replace"} :
        rows' = (IF mode = "append" THEN {r \in rows : r.from # t} ELSE {}) \cup {[from |-> t, value |-> v]}
    /\ stamp' = stamp + 1
    /\ UNCHANGED <<memo, joined>>

\* _load_field: the cached copy while the file's mtime is the one it was read at.
LoadField_IgnoresMtime == IF memo.stamp > 0 THEN memo.rows ELSE rows
LoadField == IF memo.stamp = stamp THEN memo.rows ELSE rows
\* _asof_series: the last value known at the minute.
AsOfField(rs, t) ==
    LET known == {r \in rs : r.from <= t}
    IN IF known = {} THEN "none" ELSE (CHOOSE r \in known : \A s \in known : s.from <= r.from).value
JoinPanel ==
    /\ stamp > 0
    /\ memo' = [stamp |-> stamp, rows |-> LoadField]
    /\ joined' = [stored |-> rows, values |-> [t \in Moment |-> AsOfField(LoadField, t)]]
    /\ UNCHANGED <<rows, stamp>>

(***************************************************************************)
(* The composition.                                                        *)
(***************************************************************************)
\* A file of before the traded range was kept.
OldFile == Whole([c \in Contract |-> IF venue[c] = 0 THEN 0 ELSE 1])

CacheInit ==
    /\ family \in {"weather", "crypto"}
    /\ finished = 1
    /\ venue \in [Contract -> {0, 2}] \ {Nothing}
    /\ file \in {[e \in Event |-> Absent], [e \in Event |-> IF e = 1 THEN OldFile ELSE Absent]}
    /\ builder = [w \in Worker |-> IdleWorker] /\ refetch = IdleWorker
    /\ lockedSplits = NotLocked /\ reading = IdleReading
    /\ cacheFaults = 0 /\ readings = 0
    /\ rows = {} /\ stamp = 0 /\ memo = [stamp |-> 0, rows |-> {}]
    /\ joined = [stored |-> {}, values |-> [t \in Moment |-> "none"]]

CacheStep ==
    \/ \E w \in Worker : \/ BuildStart(w) \/ BuildDone(w) \/ BuildVisit(w) \/ BuildFetch(w)
                         \/ BuildFetchFails(w) \/ CryptoFetch(w) \/ CryptoWrite(w) \/ BuildWrite(w) \/ BuildDump(w) \/ BuildDies(w)
    \/ RefetchStart \/ RefetchVisit \/ RefetchDone \/ RefetchFetch \/ RefetchReplace \/ RefetchDies
    \/ MakeSplits \/ EnumerateEvents \/ LoadEvent \/ LoadDone \/ EventSettles
FeatureStep == WriteField \/ JoinPanel

\* Builders, refetch, lock and loads, beside the feature store.
CacheNext == (CacheStep /\ UNCHANGED featureVars) \/ (FeatureStep /\ UNCHANGED buildVars)
CacheSpec == CacheInit /\ [][CacheNext]_<<buildVars, featureVars>>

(***************************************************************************)
(* Properties.                                                             *)
(***************************************************************************)

\* A load that does not name the test split, begun once the splits are locked, returns no
\* event of the test set, and the label on each panel it returns is the one it asked for.
HeldOutStaysOut ==
    /\ reading.split # "test" => \A p \in reading.got : p.event \notin reading.lock
    /\ reading.split \in {"train", "val"} => \A p \in reading.got : p.label = reading.split

\* A joined panel shows, at each minute, the newest value stored for a moment that had come
\* by then and none stored for a later one, however the field was rewritten in between.
FeaturesAsOf ==
    \A t \in Moment :
        LET v == joined.values[t] IN
        IF v = "none" THEN \A r \in joined.stored : r.from > t
        ELSE \E r \in joined.stored : /\ r.value = v /\ r.from <= t
                                      /\ \A q \in joined.stored : q.from <= t => q.from <= r.from
=============================================================================
