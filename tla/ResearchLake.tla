---------------------------- MODULE ResearchLake ----------------------------
(***************************************************************************)
(* The lake the backtests replay from: one parquet shard per game and      *)
(* table, written by the importer game by game, and the reader whose       *)
(* default is to refuse games of the test split.  A shard's content is     *)
(* abstracted to whether it can be read and holds rows.                    *)
(***************************************************************************)
EXTENDS Integers, Sequences, FiniteSets

CONSTANTS
    Game,           \* the games of the cache
    MaxImports,     \* bound on runs of the importer
    MaxLakeFaults   \* bound on failed fetches and deaths

VARIABLES
    shard,          \* Game -> table -> "absent", "torn", "empty" or "rows"
    games_split,    \* Game -> the split column of its games row, "null" before anyone labels it
    locked,         \* the test games splits.json names, {} before the lock
    importer,       \* [at, todo, game, rebuild, refetch, data]
    lakeRead,       \* the last read: its games, whether it was allowed the test set, the lock then
    imports, lakeFaults
lakeVars == <<shard, games_split, locked, importer, lakeRead, imports, lakeFaults>>

Tables == <<"pbp", "games", "subs", "kalshi_ticks", "polymarket_ticks">>
Ticks == {"kalshi_ticks", "polymarket_ticks"}
IdleImporter == [at |-> "idle", todo |-> {}, game |-> "none", table |-> 1, rebuild |-> FALSE,
                 refetch |-> FALSE, data |-> "none"]
NoRead == [games |-> {}, allow |-> FALSE, lock |-> {}]
HasShard(g, t) == shard[g][t] # "absent"

(***************************************************************************)
(* The importer.                                                           *)
(***************************************************************************)
ImportStart ==
    /\ importer.at = "idle" /\ imports < MaxImports
    /\ \E rebuild, refetch \in BOOLEAN :
        importer' = [IdleImporter EXCEPT !.at = "game", !.todo = Game, !.rebuild = rebuild, !.refetch = refetch]
    /\ imports' = imports + 1
    /\ UNCHANGED <<shard, games_split, locked, lakeRead, lakeFaults>>

ImportGame ==
    /\ importer.at = "game" /\ importer.todo # {}
    /\ \E g \in importer.todo :
        importer' = [importer EXCEPT !.todo = @ \ {g}, !.game = g, !.table = 1, !.at = "table"]
    /\ UNCHANGED <<shard, games_split, locked, lakeRead, imports, lakeFaults>>
ImportDone ==
    /\ importer.at = "game" /\ importer.todo = {}
    /\ importer' = IdleImporter
    /\ UNCHANGED <<shard, games_split, locked, lakeRead, imports, lakeFaults>>

Here == Tables[importer.table]
\* import_one: an existing shard is left alone; an empty Kalshi one, or one it cannot
\* read, is fetched again when that was asked for.
Skip(g, t) ==
    /\ HasShard(g, t) /\ ~importer.rebuild
    /\ t # "kalshi_ticks" \/ shard[g][t] = "rows" \/ ~importer.refetch
After(i) == IF i.table = Len(Tables) THEN [i EXCEPT !.at = "game", !.game = "none", !.table = 1, !.data = "none"]
            ELSE [i EXCEPT !.at = "table", !.table = @ + 1, !.data = "none"]
ImportSkip ==
    /\ importer.at = "table" /\ Skip(importer.game, Here)
    /\ importer' = After(importer)
    /\ UNCHANGED <<shard, games_split, locked, lakeRead, imports, lakeFaults>>

\* The play-by-play, games and substitution tables come from the local parquets.
BuildShard ==
    /\ importer.at = "table" /\ ~Skip(importer.game, Here) /\ Here \notin Ticks
    /\ importer' = [importer EXCEPT !.at = "write", !.data = "rows"]
    /\ UNCHANGED <<shard, games_split, locked, lakeRead, imports, lakeFaults>>
\* fetch_kalshi_ticks, fetch_polymarket_ticks: a failed request is logged and yields no rows.
FetchTicks(table) ==
    /\ importer.at = "table" /\ ~Skip(importer.game, Here) /\ Here = table
    /\ \E failed \in BOOLEAN :
        /\ failed => lakeFaults < MaxLakeFaults
        /\ lakeFaults' = lakeFaults + (IF failed THEN 1 ELSE 0)
        /\ importer' = [importer EXCEPT !.at = "write", !.data = IF failed THEN "empty" ELSE "rows"]
    /\ UNCHANGED <<shard, games_split, locked, lakeRead, imports>>
FetchKalshiTicks == FetchTicks("kalshi_ticks")
FetchPolymarketTicks == FetchTicks("polymarket_ticks")

\* _write_shard writes in place; the games row is written with its split column empty.
WriteShard ==
    /\ importer.at = "write"
    /\ shard' = [shard EXCEPT ![importer.game][Here] = importer.data]
    /\ games_split' = IF Here = "games" THEN [games_split EXCEPT ![importer.game] = "null"] ELSE games_split
    /\ importer' = After(importer)
    /\ UNCHANGED <<locked, lakeRead, imports, lakeFaults>>

ImportDies ==
    /\ importer.at # "idle" /\ lakeFaults < MaxLakeFaults
    /\ lakeFaults' = lakeFaults + 1
    /\ importer' = IdleImporter
    /\ \/ UNCHANGED shard
       \/ /\ importer.at = "write"
          /\ shard' = [shard EXCEPT ![importer.game][Here] = "torn"]
    /\ UNCHANGED <<games_split, locked, lakeRead, imports>>

\* A shard that cannot be built or written is logged and the next one is tried.
ShardFails ==
    /\ importer.at = "write" /\ lakeFaults < MaxLakeFaults
    /\ lakeFaults' = lakeFaults + 1
    /\ shard' \in {shard, [shard EXCEPT ![importer.game][Here] = "torn"]}
    /\ importer' = After(importer)
    /\ UNCHANGED <<games_split, locked, lakeRead, imports>>

(***************************************************************************)
(* The lock and the reader.                                                *)
(***************************************************************************)
\* splits/lock.py writes splits.json and nothing in the lake.
LockSplits ==
    /\ locked = {}
    /\ \E test \in SUBSET Game : test # {} /\ locked' = test
    /\ UNCHANGED <<shard, games_split, importer, lakeRead, imports, lakeFaults>>

\* reader._split_of: a missing row or a null label is the training split.
SplitLabel(g) == IF games_split[g] = "null" THEN "train" ELSE games_split[g]
Refused(g, allow) == SplitLabel(g) = "test" /\ ~allow

LoadGame(g, allow) ==
    /\ shard[g]["games"] = "rows" /\ ~Refused(g, allow)
    /\ \A t \in {"pbp", "subs"} \cup Ticks : shard[g][t] # "torn"
    /\ lakeRead' = [games |-> {g}, allow |-> allow, lock |-> locked]
    /\ UNCHANGED <<shard, games_split, locked, importer, imports, lakeFaults>>

\* list_games and the _safe views of connect: one unreadable games shard fails the whole read.
ListGames(allow) ==
    /\ \A g \in Game : shard[g]["games"] # "torn"
    /\ lakeRead' = [games |-> {g \in Game : shard[g]["games"] = "rows" /\ ~Refused(g, allow)},
                   allow |-> allow, lock |-> locked]
    /\ UNCHANGED <<shard, games_split, locked, importer, imports, lakeFaults>>

LakeInit ==
    /\ shard = [g \in Game |-> [t \in {Tables[i] : i \in 1..5} |-> "absent"]]
    /\ games_split = [g \in Game |-> "null"] /\ locked = {}
    /\ importer = IdleImporter /\ lakeRead = NoRead /\ imports = 0 /\ lakeFaults = 0

LakeNext ==
    \/ ImportStart \/ ImportGame \/ ImportDone \/ ImportSkip \/ BuildShard \/ FetchKalshiTicks \/ FetchPolymarketTicks \/ WriteShard
    \/ ImportDies \/ ShardFails \/ LockSplits
    \/ \E allow \in BOOLEAN : ListGames(allow) \/ \E g \in Game : LoadGame(g, allow)

LakeSpec == LakeInit /\ [][LakeNext]_lakeVars

(***************************************************************************)
(* Properties.                                                             *)
(***************************************************************************)

\* reader.py: with allow_test left False, no read returns a game the splits had locked away
\* in the test set when it was made.
LakeKeepsTestOut == ~lakeRead.allow => lakeRead.games \cap lakeRead.lock = {}
=============================================================================
