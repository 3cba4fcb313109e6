---------------------------- MODULE TrialLedger ----------------------------
(***************************************************************************)
(* The trial registry and the test-set budget.  Every backtest is one      *)
(* process of research/agents/tools/run_backtest.py: it refuses bad specs, *)
(* pays for a reading of the test split in the unlock log, replays the     *)
(* split, scores the result and appends a row to trials.db.  The promotion *)
(* CLI starts such a process for a spec it finds there; reviewers build a  *)
(* packet from the latest row of a spec and write their verdict back.      *)
(* Processes overlap, and any of them may die between two writes.          *)
(***************************************************************************)
EXTENDS Integers, Sequences, FiniteSets, SequencesExt

CONSTANTS
    Feature, LiveSafe,  \* the registered features, and those marked is_live_safe
    Builtin,            \* the names every condition may use
    MaxStop,            \* _MAX_TIME_STOP_SEC, scaled
    CommandLine,        \* the command lines typed: [read, spec, split, token, profile, seed, dry, writeup]
    Proc,               \* run_backtest processes
    Reviewer,
    TestBudget,         \* TEST_UNLOCK_BUDGET
    SeedDigits,         \* bound: the decimal digits of a seed
    MaxLaunches,        \* bound: backtests launched
    MaxReviews          \* bound: review packets built

VARIABLES
    trials,     \* trials.db: the rows in the order of their ids
    burns,      \* test_unlocks.log: the [BURN] rows, in order
    attempts,   \* test_unlocks.log: the specs of its other rows, which nothing reads back
    audited,    \* audit.log: the kinds of rows it holds
    job,        \* what each process is doing
    launches,
    cli,        \* the promotion CLI: the spec it is asked to unlock, and how far it is
    desk,       \* what each reviewer is doing
    packets,
    testReads   \* history: the configurations whose test result was computed

trialVars == <<trials, burns, attempts, audited, job, launches, cli, desk, packets, testReads>>

Idle == [stage |-> "idle"]
RowsOf(s) == {i \in DOMAIN trials : trials[i].spec = s}
Latest(s) == CHOOSE i \in RowsOf(s) : \A j \in RowsOf(s) : j <= i

TrialInit ==
    /\ trials = <<>> /\ burns = <<>> /\ attempts = {} /\ audited = {}
    /\ job = [p \in Proc |-> Idle] /\ launches = 0
    /\ cli = Idle /\ desk = [v \in Reviewer |-> Idle] /\ packets = 0
    /\ testReads = {}

(***************************************************************************)
(* StrategySpec.validate: a spec is [words, sizing, cap, stop, bps,        *)
(* features, entry, exits], words saying whether its side, venue and       *)
(* sizing mode are known ones; a condition is [ast, names], ast saying     *)
(* whether every node of its syntax tree is allowed.                       *)
(***************************************************************************)
ValidateStrategyFeatures(features) == features \subseteq Feature /\ features \subseteq LiveSafe

ValidCondition(c, declared) == c.ast /\ c.names \subseteq (declared \cup Builtin)

Validate(s) ==
    /\ s.words
    /\ s.sizing > 0 /\ s.cap >= 1
    /\ s.stop \in 0..MaxStop
    /\ s.bps >= 0
    /\ ValidateStrategyFeatures(s.features)
    /\ s.exits # {}
    /\ \A c \in {s.entry} \cup s.exits : ValidCondition(c, s.features)

(***************************************************************************)
(* test_unlocks.log.  A burn carries what its text says: the spec and the  *)
(* run's cost profile and seed.                                            *)
(***************************************************************************)
\* The digits of m begin those of n.
Begins(m, n) == m = n \/ (m > 0 /\ \E k \in 1..SeedDigits - 1 : n \div 10^k = m)

\* `fingerprint in reason`: a substring test on "profile=<p> seed=<n>", so the
\* profile must be the same and the seed's digits begin the recorded seed's.
Matches(row, profile, seed) == row.profile = profile /\ Begins(seed, row.seed)

\* A bug the dedup once had: a burnt spec is free under any profile and seed.
HasBurn_SpecOnly(spec, profile, seed) ==
    \E i \in DOMAIN burns : burns[i].spec = spec

\* _spec_hash_has_burn
HasBurn(spec, profile, seed) ==
    \E i \in DOMAIN burns : burns[i].spec = spec /\ Matches(burns[i], profile, seed)

\* _count_burns_in_unlock_log
CountBurns == Len(burns)

\* _remaining_unlocks of the promotion CLI, which counts the same rows.
Remaining == TestBudget - CountBurns

Configuration(c) == [spec |-> c.spec, profile |-> c.profile, seed |-> c.seed]
LogAttempt(spec) == attempts' = attempts \cup {spec} /\ UNCHANGED burns
LogBurn(c) == burns' = Append(burns, Configuration(c)) /\ UNCHANGED attempts

(***************************************************************************)
(* run_backtest.                                                           *)
(***************************************************************************)
\* The process exits: the promotion CLI, if it waits for this one, sees the code.
Exit(p, code) ==
    /\ job' = [job EXCEPT ![p] = Idle]
    /\ cli' = IF cli.stage = "waiting" /\ cli.proc = p THEN [stage |-> "exited", spec |-> cli.spec, code |-> code] ELSE cli

\* _append_audit_log
AppendAuditLog(kind) == audited' = audited \cup {kind}

\* _refuse: exit code 1, audited unless the audit log cannot be written.
AuditRefusal == AppendAuditLog("refused") \/ UNCHANGED audited
Refuse(p) == Exit(p, 1) /\ AuditRefusal

Goto(p, stage) == job' = [job EXCEPT ![p].stage = stage] /\ UNCHANGED cli

\* The spec file is there and parses and the cost profile is known; the spec is
\* valid; a test run carries the spec's token.
Acceptable(c) == c.read /\ Validate(c.spec) /\ (c.split = "test" => c.token = "sha256 of the spec")

\* run, up to the test guard: the refusals that write nothing but the audit row.
Start(p, c) ==
    /\ launches < MaxLaunches /\ launches' = launches + 1
    /\ \/ /\ Acceptable(c)
          /\ job' = [job EXCEPT ![p] = [stage |-> IF c.split = "test" THEN "dedup" ELSE "writeup", cl |-> c, gate |-> FALSE]]
          /\ UNCHANGED audited
       \/ /\ ~Acceptable(c)
          /\ AuditRefusal /\ UNCHANGED job
    /\ UNCHANGED <<trials, burns, attempts, desk, packets, testReads>>

Launch(p) == job[p] = Idle /\ (\E c \in CommandLine : Start(p, c)) /\ UNCHANGED cli

\* An exact repeat of a burnt configuration is free.
Dedup(p) ==
    LET c == job[p].cl IN
    /\ job[p].stage = "dedup"
    /\ IF HasBurn(c.spec, c.profile, c.seed)
       THEN LogAttempt(c.spec) /\ Goto(p, "writeup")
       ELSE Goto(p, "count") /\ UNCHANGED <<burns, attempts>>
    /\ UNCHANGED <<trials, audited, launches, desk, packets, testReads>>

\* The lifetime budget is read from the log, without a lock.
CheckBudget(p) ==
    /\ job[p].stage = "count"
    /\ \/ CountBurns >= TestBudget /\ Refuse(p)
       \/ CountBurns < TestBudget /\ Goto(p, "burn") /\ UNCHANGED audited
    /\ UNCHANGED <<trials, burns, attempts, launches, desk, packets, testReads>>

\* The burn is written before the backtest runs, whatever becomes of it.
Burn(p) ==
    /\ job[p].stage = "burn" /\ LogBurn(job[p].cl) /\ Goto(p, "writeup")
    /\ UNCHANGED <<trials, audited, launches, desk, packets, testReads>>

\* The write-up is read after the burn; a dry run ends here.
ReadWriteup(p) ==
    LET c == job[p].cl IN
    /\ job[p].stage = "writeup"
    /\ \/ c.writeup = "unreadable" /\ Refuse(p)
       \/ c.writeup # "unreadable" /\ c.dry /\ Exit(p, 0) /\ AppendAuditLog("dry")
       \/ c.writeup # "unreadable" /\ ~c.dry /\ Goto(p, "batch") /\ UNCHANGED audited
    /\ UNCHANGED <<trials, burns, attempts, launches, desk, packets, testReads>>

\* run_batch: on the test split the token is checked once more and the attempt
\* logged; then every game is replayed, or something raises before that.
CheckTestGuard(c) == c.token = "sha256 of the spec"
RecordTestAttempt(spec) == LogAttempt(spec)

RunBatch(p) ==
    LET c == job[p].cl
        allowed == c.split = "test" => CheckTestGuard(c)
    IN
    /\ job[p].stage = "batch"
    /\ IF c.split = "test" /\ allowed THEN RecordTestAttempt(c.spec) ELSE UNCHANGED <<burns, attempts>>
    /\ \/ /\ allowed /\ Goto(p, "score") /\ UNCHANGED audited
          /\ testReads' = testReads \cup {Configuration(d) : d \in {d \in {c} : d.split = "test"}}
       \/ Refuse(p) /\ UNCHANGED testReads
    /\ UNCHANGED <<trials, launches, desk, packets>>

\* evaluate_trial, against the number of trials in the registry: the gate is
\* open or closed, or the scorer raises.
Score(p) ==
    /\ job[p].stage = "score"
    /\ \/ \E g \in BOOLEAN : job' = [job EXCEPT ![p].stage = "record", ![p].gate = g] /\ UNCHANGED <<cli, audited>>
       \/ Refuse(p)
    /\ UNCHANGED <<trials, burns, attempts, launches, desk, packets, testReads>>

\* record_trial: one INSERT.
RecordTrial(p) ==
    LET c == job[p].cl IN
    /\ job[p].stage = "record"
    /\ \/ /\ trials' = Append(trials, [spec |-> c.spec, split |-> c.split, gate |-> job[p].gate, review |-> "none"])
          /\ Goto(p, "audit") /\ UNCHANGED audited
       \/ Refuse(p) /\ UNCHANGED trials
    /\ UNCHANGED <<burns, attempts, launches, desk, packets, testReads>>

AuditRun(p) ==
    /\ job[p].stage = "audit"
    /\ \/ Exit(p, 0) /\ AppendAuditLog("ran")
       \/ Exit(p, 1) /\ UNCHANGED audited
    /\ UNCHANGED <<trials, burns, attempts, launches, desk, packets, testReads>>

\* The process dies.
Die(p) ==
    /\ job[p] # Idle /\ Exit(p, 1)
    /\ UNCHANGED <<trials, burns, attempts, audited, launches, desk, packets, testReads>>

(***************************************************************************)
(* The promotion CLI: review_cli --burn-unlock.                            *)
(***************************************************************************)
\* Budget left, a row of the spec, and the operator types BURN.
BurnUnlock ==
    /\ cli = Idle /\ Remaining > 0
    /\ \E i \in DOMAIN trials : cli' = [stage |-> "confirmed", spec |-> trials[i].spec]
    /\ UNCHANGED <<trials, burns, attempts, audited, job, launches, desk, packets, testReads>>

\* It starts run_backtest on the stored spec, with its token and the official profile.
RunSanctioned(p) ==
    /\ cli.stage = "confirmed" /\ job[p] = Idle
    /\ Start(p, [read |-> TRUE, spec |-> cli.spec, split |-> "test", token |-> "sha256 of the spec",
                 profile |-> "official_2026", seed |-> 0, dry |-> FALSE, writeup |-> "none"])
    /\ cli' = [stage |-> "waiting", spec |-> cli.spec, proc |-> p]

\* A successful run is logged as one more attempt.
Sanctioned ==
    /\ cli.stage = "exited" /\ cli' = Idle
    /\ IF cli.code = 0 THEN LogAttempt(cli.spec) ELSE UNCHANGED <<burns, attempts>>
    /\ UNCHANGED <<trials, audited, job, launches, desk, packets, testReads>>

(***************************************************************************)
(* Reviews.  A packet is built from the latest row of a spec; the verdict  *)
(* goes to the row that is the latest when it is written, if that row has  *)
(* none: a SELECT, then an UPDATE.                                         *)
(***************************************************************************)
ReviewTrial(v) ==
    /\ desk[v] = Idle /\ packets < MaxReviews /\ packets' = packets + 1
    /\ \E i \in DOMAIN trials :
         desk' = [desk EXCEPT ![v] = [stage |-> "reading", spec |-> trials[i].spec, row |-> Latest(trials[i].spec)]]
    /\ UNCHANGED <<trials, burns, attempts, audited, job, launches, cli, testReads>>

SelectReviewed(v) ==
    LET i == Latest(desk[v].spec) IN
    /\ desk[v].stage = "reading"
    /\ desk' = [desk EXCEPT ![v] = IF trials[i].review # "none" THEN Idle ELSE [@ EXCEPT !.stage = "writing", !.row = i]]
    /\ UNCHANGED <<trials, burns, attempts, audited, job, launches, cli, packets, testReads>>

RecordReview(v) ==
    /\ desk[v].stage = "writing"
    /\ trials' = [trials EXCEPT ![desk[v].row].review = v]
    /\ desk' = [desk EXCEPT ![v] = Idle]
    /\ UNCHANGED <<burns, attempts, audited, job, launches, cli, packets, testReads>>

TrialNext ==
    \/ \E p \in Proc : \/ Launch(p) \/ Dedup(p) \/ CheckBudget(p) \/ Burn(p) \/ ReadWriteup(p)
                       \/ RunBatch(p) \/ Score(p) \/ RecordTrial(p) \/ AuditRun(p) \/ Die(p)
                       \/ RunSanctioned(p)
    \/ BurnUnlock \/ Sanctioned
    \/ \E v \in Reviewer : ReviewTrial(v) \/ SelectReviewed(v) \/ RecordReview(v)

\* The processes, the CLI and the reviewers on the shared files.
LedgerSpec == TrialInit /\ [][TrialNext]_trialVars

(***************************************************************************)
(* Properties.                                                             *)
(***************************************************************************)
\* Whatever was computed on the test split, by however many processes and
\* whichever of them died, was paid for first: the log holds a burn of that
\* spec under that cost profile whose seed begins with the run's.
TestReadsArePaid ==
    \A r \in testReads : \E i \in DOMAIN burns : burns[i].spec = r.spec /\ Matches(burns[i], r.profile, r.seed)
=============================================================================
