---------------------------- MODULE HypothesisLab ----------------------------
(***************************************************************************)
(* The research lab's own bookkeeping: a registry of ideas and a ledger of *)
(* settled trials, both append-only files that several processes read,     *)
(* fold (the last row of an id wins) and append to with no lock; the       *)
(* analyst, which claims ideas, has them run and writes the verdict to     *)
(* both files; the director, which chooses ideas and folds the ledger back *)
(* into the registry; the heartbeat, which fires passes until the pool is  *)
(* dry; and the requests for data that a NEEDS_DATA verdict files.         *)
(***************************************************************************)
EXTENDS Naturals, Sequences, SequencesExt, FiniteSets

CONSTANTS
    Idea,            \* ids: the hash of market, mechanism and direction
    Age,             \* when each idea was created
    FamilyOf,        \* the event family of each idea's market; NoFamily if no provider owns it
    Analyst,         \* processes running passes; Resident is the one the heartbeat drives
    Resident,
    NoFamily,
    MaxIdeas,        \* ideas worked in a pass
    StopAfterIdle,
    Executors,       \* the executors that may be injected: "agent", "noop"
    Outcome,         \* what the agent may return: verdicts, or none
    MaxPasses,       \* bound on the passes of the other analysts and of the director
    MaxLabFaults     \* bound on lost rows, deaths and stray writers together

ASSUME LabAssumption ==
    /\ IsFiniteSet(Idea) /\ Resident \in Analyst
    /\ MaxIdeas \in Nat \ {0} /\ StopAfterIdle \in Nat \ {0}

VARIABLES
    registry,    \* each idea's folded record
    halfLine,    \* the registry file ends in half a line
    trialLog,    \* the ledger: a sequence of [id, verdict]
    task,        \* what each analyst is at
    fold,        \* the director's feedback pass: the rows to go
    beat,        \* the heartbeat: its persisted state, and whether it runs
    asked,       \* the data requests: the status of each idea's
    ran,         \* ghost: ideas whose verdict was written to the registry
    passes, executor, labFaults

labVars == <<registry, halfLine, trialLog, task, fold, beat, asked, ran, passes, executor, labFaults>>

Verdicts == {"PROMOTE", "PROMISING", "NEEDS_DATA", "DEAD"}
Unsettled == "none"
Unregistered == [status |-> "absent", verdict |-> Unsettled]
IdleTask == [stage |-> "idle", chosen |-> <<>>, seen |-> Unregistered, verdict |-> Unsettled, worked |-> 0]

(***************************************************************************)
(* The files.                                                              *)
(***************************************************************************)
\* query: the ideas of a status.
Having(status) == {i \in Idea : registry[i].status = status}

\* _append: a row written behind half a line is skipped with it by every reader.
AppendRecord(i, rec) ==
    /\ registry' = IF halfLine THEN registry ELSE [registry EXCEPT ![i] = rec]
    /\ halfLine' = FALSE

\* trial_count: the ids of a family with a ledger row or a verdict, at least 1.  A record of
\* no known family counts towards all.
FamilyMatch(recordFamily, family) == family = NoFamily \/ recordFamily \in {NoFamily, family}
CountedIds_LedgerOnly(family) ==
    {i \in Idea : FamilyMatch(FamilyOf[i], family) /\ \E n \in DOMAIN trialLog : trialLog[n].id = i}
CountedIds(family) ==
    {i \in Idea :
        /\ FamilyMatch(FamilyOf[i], family)
        /\ (\E n \in DOMAIN trialLog : trialLog[n].id = i) \/ registry[i].verdict /= Unsettled}

(***************************************************************************)
(* A pass.                                                                 *)
(***************************************************************************)
\* director.select with its default ranker: the newest open ideas first, MaxIdeas of
\* them; ideas of one age in any order.
Newest(order, open) ==
    /\ IsInjective(order)
    /\ \A m, n \in DOMAIN order : m < n => Age[order[m]] >= Age[order[n]]
    /\ \A i \in open \ Range(order), n \in DOMAIN order : Age[order[n]] >= Age[i]
Select(open) ==
    LET some == Cardinality(open)
    IN {order \in [1..(IF some < MaxIdeas THEN some ELSE MaxIdeas) -> open] : Newest(order, open)}

\* A pass with nothing open asks the scout, whose proposals are registered if they are new.
\* register reads the registry and then appends; here the proposer is one process at a time.
BeginPass(a, proposed) ==
    /\ task[a].stage = "idle"
    /\ IF a = Resident THEN beat.running ELSE passes > 0
    /\ passes' = IF a = Resident THEN passes ELSE passes - 1
    /\ LET new == IF Having("open") = {} THEN {i \in proposed : registry[i].status = "absent"} ELSE {}
           reg == [i \in Idea |-> IF i \in new /\ ~halfLine THEN [status |-> "open", verdict |-> Unsettled] ELSE registry[i]]
       IN /\ registry' = reg
          /\ halfLine' = (halfLine /\ new = {})
          /\ \E chosen \in Select({i \in Idea : reg[i].status = "open"}) :
                task' = [task EXCEPT ![a] = [IdleTask EXCEPT !.stage = "next", !.chosen = chosen]]
    /\ UNCHANGED <<trialLog, fold, beat, asked, ran, executor, labFaults>>

At(a, stage) == task[a].stage = stage
Current(a) == Head(task[a].chosen)

\* claim and update read the registry and append later what they made of it.
Load(a, from, to) ==
    /\ At(a, from) /\ task[a].chosen /= <<>>
    /\ task' = [task EXCEPT ![a].stage = to, ![a].seen = registry[Current(a)]]
    /\ UNCHANGED <<registry, halfLine, trialLog, fold, beat, asked, ran, passes, executor, labFaults>>
ClaimReads(a) == Load(a, "next", "claim")
Claim(a) ==
    /\ At(a, "claim")
    /\ AppendRecord(Current(a), [task[a].seen EXCEPT !.status = "running"])
    /\ task' = [task EXCEPT ![a].stage = "execute"]
    /\ UNCHANGED <<trialLog, fold, beat, asked, ran, passes, executor, labFaults>>

\* What the injected executor comes back with; the default one runs nothing.
Results == IF executor = "noop" THEN {Unsettled} ELSE Outcome

\* The injected agent returns a verdict, or none; the default executor returns none.
Execute(a) ==
    /\ At(a, "execute")
    /\ \E v \in Results :
         /\ task' = [task EXCEPT ![a].stage = "settle", ![a].verdict = v]
    /\ UNCHANGED <<registry, halfLine, trialLog, fold, beat, asked, ran, passes, executor, labFaults>>

\* The status of a result: the no-op executor's own, else done if there is a verdict.
StatusOf(v) == IF executor = "noop" THEN "open" ELSE IF v \in Verdicts THEN "done" ELSE "running"
UpdateReads(a) == Load(a, "settle", "update")
Update(a) ==
    /\ At(a, "update")
    /\ LET v == task[a].verdict IN
         AppendRecord(Current(a), [status |-> StatusOf(v), verdict |-> IF v = Unsettled THEN task[a].seen.verdict ELSE v])
    /\ ran' = IF task[a].verdict = Unsettled THEN ran ELSE ran \cup {Current(a)}
    /\ task' = [task EXCEPT ![a].stage = "ledger"]
    /\ UNCHANGED <<trialLog, fold, beat, asked, passes, executor, labFaults>>

\* _append_ledger swallows every error: the row is written or it is not.  A second row
\* of an idea without a verdict is not kept apart: no reader tells it from the first.
Logged(row) == IF row.verdict = Unsettled /\ row \in Range(trialLog) THEN trialLog ELSE Append(trialLog, row)
AppendLedger(a, written) ==
    /\ At(a, "ledger")
    /\ written \/ labFaults > 0
    /\ labFaults' = IF written THEN labFaults ELSE labFaults - 1
    /\ trialLog' = IF written THEN Logged([id |-> Current(a), verdict |-> task[a].verdict]) ELSE trialLog
    /\ task' = [task EXCEPT ![a] = [IdleTask EXCEPT !.stage = "next", !.chosen = Tail(task[a].chosen), !.worked = task[a].worked + 1]]
    /\ UNCHANGED <<registry, halfLine, fold, beat, asked, ran, passes, executor>>

\* The end of a pass.  The heartbeat counts it, and stands down after enough idle ones.
Beat_ForgetsStreak(b, worked) ==
    LET idle == IF worked > 0 THEN 0 ELSE 1
    IN [running |-> idle < StopAfterIdle, idle |-> idle]
Beat(b, worked) ==
    LET idle == IF worked > 0 THEN 0 ELSE b.idle + 1
    IN [running |-> idle < StopAfterIdle, idle |-> idle]
EndPass(a) ==
    /\ At(a, "next") /\ task[a].chosen = <<>>
    /\ task' = [task EXCEPT ![a] = IdleTask]
    /\ beat' = IF a = Resident THEN Beat(beat, task[a].worked) ELSE beat
    /\ UNCHANGED <<registry, halfLine, trialLog, fold, asked, ran, passes, executor, labFaults>>

\* The executor raises, or the process dies: its claim stays.  Dying in an append leaves half
\* a line.  A pass that dies under the heartbeat ends it; it is started again by hand.
Abort(a, inAppend) ==
    /\ ~At(a, "idle") /\ labFaults > 0
    /\ inAppend => task[a].stage \in {"claim", "update"}
    /\ labFaults' = labFaults - 1
    /\ halfLine' = (halfLine \/ inAppend)
    /\ task' = [task EXCEPT ![a] = IdleTask]
    /\ UNCHANGED <<registry, trialLog, fold, beat, asked, ran, passes, executor>>

(***************************************************************************)
(* incorporate_results: every row of the ledger, as read at the start, in  *)
(* order; a PROMISING one opens its idea again.                            *)
(***************************************************************************)
StartFold ==
    /\ fold = <<>> /\ passes > 0 /\ trialLog /= <<>>
    /\ passes' = passes - 1
    /\ fold' = SelectSeq(trialLog, LAMBDA r : r.verdict /= Unsettled)
    /\ UNCHANGED <<registry, halfLine, trialLog, task, beat, asked, ran, executor, labFaults>>
FoldRow ==
    /\ fold /= <<>>
    /\ LET row == Head(fold) IN
         IF registry[row.id].status = "absent" THEN UNCHANGED <<registry, halfLine>>   \* KeyError: no-op
         ELSE AppendRecord(row.id, [status |-> IF row.verdict = "PROMISING" THEN "open" ELSE "done", verdict |-> row.verdict])
    /\ fold' = Tail(fold)
    /\ UNCHANGED <<trialLog, task, beat, asked, ran, passes, executor, labFaults>>

(***************************************************************************)
(* The data requests: filed for an idea with NEEDS_DATA (once), then       *)
(* fulfilled, or not, by a provider's array of the panel's length.         *)
(***************************************************************************)
Summon(i) ==
    /\ registry[i].verdict = "NEEDS_DATA" /\ asked[i] = "absent"
    /\ asked' = [asked EXCEPT ![i] = "open"]
    /\ UNCHANGED <<registry, halfLine, trialLog, task, fold, beat, ran, passes, executor, labFaults>>
Fulfill(i, array) ==
    /\ asked[i] = "open"
    /\ asked' = [asked EXCEPT ![i] = IF array = "of the panel's length" THEN "fulfilled" ELSE "NEEDS_DATA"]
    /\ UNCHANGED <<registry, halfLine, trialLog, task, fold, beat, ran, passes, executor, labFaults>>

LabInit ==
    /\ registry \in [Idea -> {Unregistered, [status |-> "open", verdict |-> Unsettled]}]
    /\ halfLine = FALSE /\ trialLog = <<>>
    /\ task = [a \in Analyst |-> IdleTask]
    /\ fold = <<>>
    /\ beat = [running |-> TRUE, idle |-> 0]
    /\ asked = [i \in Idea |-> "absent"] /\ ran = {}
    /\ executor \in Executors
    /\ \E stray \in {0, MaxPasses} : passes = stray /\ labFaults = (IF stray = 0 THEN MaxLabFaults ELSE 0)

PassStep(a) ==
    \/ \E proposed \in {{}, Idea} : BeginPass(a, proposed)
    \/ ClaimReads(a) \/ Claim(a) \/ Execute(a) \/ UpdateReads(a) \/ Update(a)
    \/ AppendLedger(a, TRUE) \/ EndPass(a)
Director == StartFold \/ FoldRow
LabNext ==
    \/ \E a \in Analyst : PassStep(a) \/ AppendLedger(a, FALSE) \/ \E inAppend \in BOOLEAN : Abort(a, inAppend)
    \/ Director
    \/ \E i \in Idea : Summon(i) \/ \E array \in {"none", "short", "of the panel's length"} : Fulfill(i, array)
LabSpec == LabInit /\ [][LabNext]_labVars

(***************************************************************************)
(* Properties                                                              *)
(***************************************************************************)
\* N, the trials the deflated Sharpe ratio is deflated by, misses none (governance.py
\* "Number of DISTINCT trials the org has ever EVALUATED"): an idea with a verdict is counted
\* for good once its pass has moved on, although the ledger row may be lost, a process may
\* die, also inside an append, or another writer may put an older record over the verdict -
\* any one of these.
TrialsAreCounted ==
    \A i \in ran :
        (\A f \in {NoFamily, FamilyOf[i]} : i \in CountedIds(f)) \/ \E a \in Analyst : task[a].chosen /= <<>> /\ Current(a) = i

\* The heartbeat stands down when there is nothing left to do (heartbeat.py: "the open pool is
\* exhausted, or no executor is injected - so we stand down rather than burn ticks").
StandsDown == <>(~beat.running)
=============================================================================
