----------------------------- MODULE Controller -----------------------------
(***************************************************************************)
(* ops/controller.py: a scheduler thread that reaps children, feeds codex  *)
(* agents and launches lanes, top-ups and recurring paper jobs while the   *)
(* mode is running, against HTTP threads that run, pause and enqueue.      *)
(* Every section under _lock is one step; the mode is read in one section  *)
(* and acted on in later ones.  The mode, the children, the job times and  *)
(* the queue are files: the process may die anywhere and starts again from *)
(* them.                                                                   *)
(*                                                                         *)
(* A child that was sent SIGTERM is taken to end at once.                  *)
(***************************************************************************)
EXTENDS Integers, Sequences, FiniteSets, FiniteSetsExt, SequencesExt

CONSTANTS
    Lane,           \* lane ids
    Paper,          \* recurring jobs: PAPER_JOBS and APEX_BEAT
    Task,           \* codex backlog items
    VendorOf,       \* [Lane -> {"none", "codex", "claude"}]
    MaxLanes,       \* MAX_CONCURRENT_LANES
    Meters,         \* the readings the meters may give
    Options,        \* which kinds of work there are: subsets of {"lanes", "jobs", "feed"}
    MaxQueue,       \* bound: items of the queue
    MaxSpawns,      \* bound: processes of one id that run at once
    MaxToggles,     \* bound: presses of RUN and PAUSE
    MaxCrashes      \* bound: deaths of the controller

Id == Lane \cup Paper \cup {"topup"}

\* No lane is given the id of a recurring job.
ASSUME IdsDistinct == Lane \cap (Paper \cup {"topup"}) = {}

VARIABLES
    work,       \* which of the kinds of work this run has
    up,         \* the controller's process runs
    mode,       \* STATE["mode"]
    caffeine,   \* caffeinate runs
    tracked,    \* STATE["children"]: per id "none", "live" or "dead"
    stray,      \* per id, the live processes that are in no entry of STATE
    due,        \* the recurring jobs, and "topup", whose time has come
    queue,      \* queue.json: a sequence of [id, status, enabled]
    meter,      \* usage_cache.json and the running averages
    backlog,    \* codex_backlog.jsonl: per task [status, tries, old]
    agents,     \* per task, the live codex agents
    memo,       \* the tasks whose analyst_memo.md exists
    sched,      \* where the scheduler's pass is
    http,       \* where the pause is: "idle", "marked", "terminated"
    toggles, crashes,
    orphaned,   \* history: the controller died between a Popen and its record
    sincePause  \* history: lanes started since the last pause

files == <<mode, tracked, queue, due>>
controllerVars == <<work, up, caffeine, stray, files, meter, backlog, agents, memo, sched, http, toggles, crashes, orphaned, sincePause>>

(***************************************************************************)
(* ops/governor.py and ops/usage_profile.py: how many agents the desk may  *)
(* run on the codex budget and whether it may spend on the claude budget,  *)
(* from one reading of the meters, a record of                             *)
(*   codexWk, codex5h, claudeWk, claude5h   percentages used; a meter that *)
(*                          could not be read is absent and counts as 0    *)
(*   codexHours, claudeHours                hours to the weekly resets     *)
(*   agentCents, weekUsd    the running averages: an agent-hour in cents,  *)
(*                          the claude week in dollars                     *)
(*   seed, hits, samples    the demand profile of the hour: the stated     *)
(*                          score, the learned one's counts                *)
(*   rising                 the operator is active right now               *)
(* Percentages and dollars are integers.                                   *)
(***************************************************************************)
CodexWeekUsd == 1500            \* never measured: only claude's week is
OperatorUsdHr == 60
ApexReserve == 6 * 90           \* APEX_RESERVE_HR hours of the opus apex
LocalMaxCodex == 12
CodexCaps == [fiveHour |-> 85, weekly |-> 90]    \* DEFER_PCT

Read(m, name) == IF name \in DOMAIN m THEN m[name] ELSE 0
Clamp(lo, hi, x) == Max({lo, Min({hi, x})})

\* usage_profile.demand_now, in percent: the stated profile gives way to the
\* learned one as samples come in; an active operator counts 90 at least.
Demand(m) ==
    LET w == Min({m.samples, 12})
        learned == IF m.samples = 0 THEN 0 ELSE (100 * m.hits) \div m.samples
        blended == ((12 - w) * m.seed + w * learned) \div 12
    IN IF m.rising THEN Max({blended, 90}) ELSE blended

\* policy, codex: spend the week evenly until its reset, with a tenth in reserve;
\* half the agents when the five-hour window runs hot.
CodexFleet(m) ==
    LET remaining == ((100 - Read(m, "codexWk")) * CodexWeekUsd * 9) \div 10
        perHour == Max({m.codexHours, 1}) * m.agentCents
        paced == Clamp(1, LocalMaxCodex, (2 * remaining + perHour) \div (2 * perHour))
    IN IF Read(m, "codex5h") >= 70 THEN Max({1, paced \div 2}) ELSE paced
CodexLanes(m) == Max({2, Min({CodexFleet(m), 6})})

\* _operator_forecast_usd: the expected demand up to the reset, every hour of it
\* taken to be like this one.
OperatorForecast(m) ==
    LET hours == Min({m.claudeHours, 168})
        expected == (hours * Demand(m) * OperatorUsdHr) \div 100
    IN IF m.rising THEN Max({expected, (35 * m.weekUsd * Min({m.claudeHours, 24})) \div 2400}) ELSE expected

\* policy, claude: what the operator and the apex will not need.
Surplus(m) == ((100 - Read(m, "claudeWk")) * m.weekUsd) \div 100 - OperatorForecast(m) - ApexReserve
DeskMaySpend(m) == Surplus(m) > 0 /\ Read(m, "claude5h") < 80

\* _vendor_throttled
VendorThrottled(m, vendor) ==
    CASE vendor = "claude" -> ~DeskMaySpend(m)
      [] vendor = "codex" -> Read(m, "codex5h") >= CodexCaps.fiveHour \/ Read(m, "codexWk") >= CodexCaps.weekly
      [] OTHER -> FALSE

(***************************************************************************)
(* The controller starts.                                                  *)
(***************************************************************************)
Item(l) == [id |-> l, status |-> "queued", enabled |-> TRUE]
FreshTask == [status |-> "queued", tries |-> 1, old |-> FALSE]

ControllerInit ==
    /\ work \in Options
    /\ up = TRUE /\ mode = "paused" /\ caffeine = FALSE
    /\ tracked = [i \in Id |-> "none"] /\ stray = [i \in Id |-> 0]
    /\ due = IF "jobs" \in work THEN Paper \cup {"topup"} ELSE {}
    /\ queue = <<>> /\ meter \in Meters
    /\ backlog = [t \in Task |-> FreshTask] /\ agents = [t \in Task |-> 0] /\ memo = {}
    /\ sched = "sleep" /\ http = "idle"
    /\ toggles = 0 /\ crashes = 0 /\ orphaned = FALSE /\ sincePause = 0

(***************************************************************************)
(* Processes.                                                              *)
(***************************************************************************)
\* spawn: a new entry takes the place of an old one under the same id; if that
\* one's process lives on, no entry names it any more.
Spawn(i) ==
    /\ stray[i] + 1 < MaxSpawns
    /\ tracked' = [tracked EXCEPT ![i] = "live"]
    /\ stray' = [stray EXCEPT ![i] = IF tracked[i] = "live" THEN @ + 1 ELSE @]

\* A process ends by itself.
ChildEnds(i) ==
    /\ \/ tracked[i] = "live" /\ tracked' = [tracked EXCEPT ![i] = "dead"] /\ UNCHANGED stray
       \/ stray[i] > 0 /\ stray' = [stray EXCEPT ![i] = @ - 1] /\ UNCHANGED tracked
    /\ UNCHANGED <<work, up, mode, caffeine, due, queue, meter, backlog, agents, memo, sched, http, toggles, crashes, orphaned, sincePause>>

AgentEnds(t) ==
    /\ agents[t] > 0
    /\ agents' = [agents EXCEPT ![t] = @ - 1]
    /\ memo' \in {memo, memo \cup {t}}
    /\ UNCHANGED <<work, up, mode, caffeine, files, stray, meter, backlog, sched, http, toggles, crashes, orphaned, sincePause>>

(***************************************************************************)
(* The scheduler's pass.                                                   *)
(***************************************************************************)
At(here, there) == up /\ sched = here /\ sched' = there
restOf == <<work, up, caffeine, toggles, crashes, orphaned, http>>

\* reap: an entry whose process is gone goes; its item is done.
Reap ==
    /\ At("sleep", "track")
    /\ LET gone == {i \in Id : tracked[i] = "dead"}
       IN /\ tracked' = [i \in Id |-> IF i \in gone THEN "none" ELSE tracked[i]]
          /\ queue' = [k \in DOMAIN queue |->
                         IF queue[k].id \in gone /\ queue[k].status = "running"
                         THEN [queue[k] EXCEPT !.status = "done"] ELSE queue[k]]
    /\ UNCHANGED <<restOf, mode, due, stray, meter, backlog, agents, memo, sincePause>>

\* The rest of the pass's first half: the meters may be read anew, and an agent
\* that has run for two hours is killed; then the mode is read.
TrackAndSweep ==
    /\ At("track", IF mode = "running" THEN "feed" ELSE "mode")
    /\ meter' \in IF "lanes" \in work THEN Meters ELSE {meter}
    /\ agents' \in {agents} \cup {[agents EXCEPT ![t] = 0] : t \in {u \in Task : backlog[u].old}}
    /\ UNCHANGED <<restOf, files, stray, backlog, memo, sincePause>>

\* _feed_codex: an agent that is no longer listed is done if it left its memo and,
\* after ten minutes, queued again once, then failed; free places go to the queued.
\* The list is what ps and lsof tell; when they fail it is empty.
Settled(t, listed) ==
    LET it == backlog[t]
    IN IF it.status # "launched" \/ t \in listed THEN it
       ELSE IF t \in memo THEN [it EXCEPT !.status = "done"]
       ELSE IF ~it.old THEN it
       ELSE [it EXCEPT !.status = IF it.tries < 2 THEN "queued" ELSE "failed", !.tries = @ + 1]

FeedCodex ==
    /\ At("feed", "mode")
    /\ \E listed \in {{t \in Task : agents[t] > 0}, {}} :
          LET settled == [t \in Task |-> Settled(t, listed)]
              queued == {t \in Task : settled[t].status = "queued"}
              free == CodexFleet(meter) - Cardinality(listed)
          IN IF free <= 0 \/ "feed" \notin work THEN UNCHANGED <<backlog, agents>>
             ELSE \E launch \in {s \in SUBSET queued : Cardinality(s) = Min({free, Cardinality(queued)})} :
                    /\ \A t \in launch : agents[t] < MaxSpawns
                    /\ backlog' = [t \in Task |-> IF t \in launch THEN [settled[t] EXCEPT !.status = "launched", !.old = FALSE]
                                                  ELSE settled[t]]
                    /\ agents' = [t \in Task |-> IF t \in launch THEN agents[t] + 1 ELSE agents[t]]
    /\ UNCHANGED <<restOf, files, stray, meter, memo, sincePause>>

ReadMode ==
    /\ At("mode", IF mode = "running" THEN "lanes" ELSE "sleep")
    /\ UNCHANGED <<restOf, files, stray, meter, backlog, agents, memo, sincePause>>

\* _maybe_launch_lanes: the first item that is queued, enabled and neither over its
\* vendor's cap nor throttled.  No entry of STATE names a vendor, so every live lane
\* counts as one of "none".
ActiveLanes == Cardinality({l \in Lane : tracked[l] = "live"})
OverCap(l) == VendorOf[l] = "none" /\ ActiveLanes >= MaxLanes

Launchable ==
    IF ActiveLanes >= MaxLanes + CodexLanes(meter) THEN {}
    ELSE LET may == {k \in DOMAIN queue : /\ queue[k].status = "queued" /\ queue[k].enabled
                                          /\ ~OverCap(queue[k].id)
                                          /\ ~VendorThrottled(meter, VendorOf[queue[k].id])}
         IN {k \in may : \A j \in may : k <= j}

\* A bug the launch could have: the pass launches until nothing may start.
LaunchLane_UntilFull ==
    /\ IF Launchable = {} THEN At("lanes", "topup") /\ UNCHANGED <<queue, tracked, stray, sincePause>>
       ELSE \E k \in Launchable :
              /\ At("lanes", "lanes")
              /\ queue' = [queue EXCEPT ![k].status = "running"]
              /\ Spawn(queue[k].id)
              /\ sincePause' = IF mode = "paused" THEN sincePause + 1 ELSE sincePause
    /\ UNCHANGED <<restOf, mode, due, meter, backlog, agents, memo>>

LaunchLane ==
    /\ At("lanes", "topup")
    /\ IF Launchable = {} THEN UNCHANGED <<queue, tracked, stray, sincePause>>
       ELSE \E k \in Launchable :
              /\ queue' = [queue EXCEPT ![k].status = "running"]
              /\ Spawn(queue[k].id)
              /\ sincePause' = IF mode = "paused" THEN sincePause + 1 ELSE sincePause
    /\ UNCHANGED <<restOf, mode, due, meter, backlog, agents, memo>>

\* _maybe_topup: the night's top-up, unless one runs; its time is noted first.
TopUp ==
    /\ At("topup", "paper")
    /\ IF "topup" \in due /\ tracked["topup"] # "live"
       THEN due' = due \ {"topup"} /\ Spawn("topup")
       ELSE UNCHANGED <<due, tracked, stray>>
    /\ UNCHANGED <<restOf, mode, queue, meter, backlog, agents, memo, sincePause>>

\* A bug the cadence could have: a job whose time has come starts although the
\* last one of its kind still runs.
Startable_Any == due \cap Paper

Startable == {j \in due \cap Paper : tracked[j] # "live"}

\* _maybe_paper: every recurring job whose time has come and that does not run.
PaperJobs ==
    /\ At("paper", "sleep")
    /\ due' = due \ Startable
    /\ tracked' = [i \in Id |-> IF i \in Startable THEN "live" ELSE tracked[i]]
    /\ stray' = [i \in Id |-> IF i \in Startable /\ tracked[i] = "live" THEN stray[i] + 1 ELSE stray[i]]
    /\ UNCHANGED <<restOf, mode, queue, meter, backlog, agents, memo, sincePause>>

Pass == Reap \/ TrackAndSweep \/ FeedCodex \/ ReadMode \/ LaunchLane \/ TopUp \/ PaperJobs

(***************************************************************************)
(* The HTTP threads.                                                       *)
(***************************************************************************)
\* set_running
Run ==
    /\ up /\ mode = "paused" /\ toggles < MaxToggles
    /\ toggles' = toggles + 1 /\ mode' = "running" /\ caffeine' = TRUE
    /\ UNCHANGED <<work, up, tracked, stray, due, queue, meter, backlog, agents, memo, sched, http, crashes, orphaned, sincePause>>

\* set_paused, first section: the mode, caffeinate, and the running items queued again.
Pause ==
    /\ up /\ http = "idle" /\ toggles < MaxToggles
    /\ toggles' = toggles + 1 /\ mode' = "paused" /\ caffeine' = FALSE /\ sincePause' = 0
    /\ queue' = [k \in DOMAIN queue |-> IF queue[k].status = "running" THEN [queue[k] EXCEPT !.status = "queued"] ELSE queue[k]]
    /\ http' = "marked"
    /\ UNCHANGED <<work, up, tracked, stray, due, meter, backlog, agents, memo, sched, crashes, orphaned>>

\* terminate_children
TerminateChildren ==
    /\ up /\ http = "marked"
    /\ http' = "terminated"
    /\ tracked' = [i \in Id |-> "none"]
    /\ UNCHANGED <<work, up, mode, caffeine, stray, due, queue, meter, backlog, agents, memo, sched, toggles, crashes, orphaned, sincePause>>

\* The agents that are listed and work under /tmp are killed too.
KillAgents ==
    /\ up /\ http = "terminated"
    /\ http' = "idle"
    /\ agents' \in {agents, [t \in Task |-> 0]}
    /\ UNCHANGED <<work, up, mode, caffeine, files, stray, meter, backlog, memo, sched, toggles, crashes, orphaned, sincePause>>

Enqueue(l) ==
    /\ up /\ "lanes" \in work /\ Len(queue) < MaxQueue
    /\ queue' = Append(queue, Item(l))
    /\ UNCHANGED <<work, up, mode, caffeine, tracked, stray, due, meter, backlog, agents, memo, sched, http, toggles, crashes, orphaned, sincePause>>

LaneToggle(l) ==
    /\ up /\ \E k \in DOMAIN queue : queue[k].id = l
    /\ toggles < MaxToggles /\ toggles' = toggles + 1
    /\ queue' = [k \in DOMAIN queue |-> IF queue[k].id = l THEN [queue[k] EXCEPT !.enabled = ~@] ELSE queue[k]]
    /\ UNCHANGED <<work, up, mode, caffeine, tracked, stray, due, meter, backlog, agents, memo, sched, http, crashes, orphaned, sincePause>>

(***************************************************************************)
(* Time, death and restart.                                                *)
(***************************************************************************)
TimePasses ==
    \/ /\ \E j \in Paper \cup {"topup"} : "jobs" \in work /\ j \notin due /\ due' = due \cup {j}
       /\ UNCHANGED backlog
    \/ /\ \E t \in Task : backlog[t].status = "launched" /\ ~backlog[t].old /\ backlog' = [backlog EXCEPT ![t].old = TRUE]
       /\ UNCHANGED due

Clock == TimePasses /\ UNCHANGED <<work, up, mode, caffeine, tracked, stray, queue, meter, agents, memo, sched, http, toggles, crashes, orphaned, sincePause>>

Dies == /\ up /\ crashes < MaxCrashes
        /\ up' = FALSE /\ crashes' = crashes + 1 /\ sched' = "sleep" /\ http' = "idle"

\* The process dies; children and caffeinate live on.
Crash ==
    /\ Dies
    /\ \/ UNCHANGED <<mode, caffeine>>
       \/ http = "idle" /\ mode' = "paused" /\ caffeine' = FALSE   \* in a pause, with the queue not yet written
    /\ UNCHANGED <<work, tracked, queue, due, stray, meter, backlog, agents, memo, toggles, orphaned, sincePause>>

\* Death inside a launch: the queue or the job's time is on disk, the process runs
\* or does not, and no entry names it.
CrashInSpawn ==
    /\ Dies
    /\ \E i \in Id :
          /\ \/ sched = "lanes" /\ \E k \in Launchable : queue[k].id = i /\ queue' = [queue EXCEPT ![k].status = "running"] /\ UNCHANGED due
             \/ sched = "paper" /\ i \in Startable /\ due' = due \ {i} /\ UNCHANGED queue
             \/ sched = "topup" /\ i = "topup" /\ i \in due /\ due' = due \ {i} /\ UNCHANGED queue
          /\ stray[i] + 1 < MaxSpawns
          /\ \/ UNCHANGED stray
             \/ stray' = [stray EXCEPT ![i] = @ + 1]
    /\ orphaned' = TRUE
    /\ UNCHANGED <<work, mode, caffeine, tracked, meter, backlog, agents, memo, toggles, sincePause>>

\* main: entries of dead children are forgotten, the mode stays.
Restart ==
    /\ ~up /\ up' = TRUE
    /\ tracked' = [i \in Id |-> IF tracked[i] = "dead" THEN "none" ELSE tracked[i]]
    /\ caffeine' = (caffeine \/ mode = "running")
    /\ UNCHANGED <<work, mode, stray, due, queue, meter, backlog, agents, memo, sched, http, toggles, crashes, orphaned, sincePause>>

Http == Run \/ Pause \/ TerminateChildren \/ KillAgents \/ \E l \in Lane : Enqueue(l) \/ LaneToggle(l)
Ends == (\E i \in Id : ChildEnds(i)) \/ (\E t \in Task : AgentEnds(t))

ControllerNext == Pass \/ Http \/ Ends \/ Clock \/ Crash \/ CrashInSpawn \/ Restart

ControllerSpec == ControllerInit /\ [][ControllerNext]_controllerVars

-----------------------------------------------------------------------------
\* A pause is obeyed up to the pass that read the mode before it: however the
\* threads interleave, at most one lane starts after it.
PauseTakesHold == mode = "paused" => sincePause <= 1

\* Two processes of one recurring job, which would write one paper book, run
\* only if the controller died in the middle of a launch.
OneInstance ==
    \A j \in Paper \cup {"topup"} :
        ~orphaned => stray[j] = 0

=============================================================================
