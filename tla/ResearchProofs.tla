--------------------------- MODULE ResearchProofs ---------------------------
(***************************************************************************)
(* Proofs about the research side: no result of the test split is computed *)
(* before it is paid for, no load returns what is held out, a joined panel *)
(* knows no value before its time, no day is on both sides of a split, the *)
(* paper book tells one story of each signal and the true fill rate, the   *)
(* two sides of a lab strategy are complements and its trades know no      *)
(* future, the lab's count of trials misses none, a sample the gate passes *)
(* has breadth, a replay's trades know nothing of what comes after them,   *)
(* and a panel settles as the venue did;                                   *)
(* for any processes, command lines, events, fields, budgets, calendars,   *)
(* signals, passes, panels, ideas, samples of trades and recorded games.   *)
(***************************************************************************)
EXTENDS TrialLedger, EventCache, PromotionGate, PaperBook, HypothesisLab, LabStrategies, BacktestReplay, EventPanels,
        Sums, SequenceTheorems

USE CacheAssumption DEF CacheAssumption

-----------------------------------------------------------------------------
(***************************************************************************)
(* The trial ledger.                                                       *)
(***************************************************************************)
\* A burn in the log pays for the configuration.
Paid(spec, profile, seed) ==
    \E i \in DOMAIN burns : burns[i].spec = spec /\ Matches(burns[i], profile, seed)

PaidStage == {"writeup", "batch", "score", "record", "audit"}

JobShape(j) == j = Idle \/ \E s, c, g : j = [stage |-> s, cl |-> c, gate |-> g]

\* Past the burn, a process whose split is the test split has been paid for.
JobPaid(p) ==
    LET j == job[p]
    IN j.stage \in PaidStage /\ j.cl.split = "test" => Paid(j.cl.spec, j.cl.profile, j.cl.seed)

LedgerInv ==
    /\ \E S : burns \in Seq(S)
    /\ job = [p \in Proc |-> job[p]]
    /\ \A p \in Proc : JobShape(job[p]) /\ JobPaid(p)
    /\ TestReadsArePaid

\* A configuration matches its own burn.
LEMMA MatchesItself == \A c : Matches(Configuration(c), c.profile, c.seed)
  BY DEF Matches, Begins, Configuration

\* The log only grows: what is paid for stays paid for.
LEMMA BurnsGrow ==
    ASSUME NEW S, burns \in Seq(S), NEW c, burns' = Append(burns, Configuration(c))
    PROVE  /\ burns' \in Seq(S \cup {Configuration(c)})
           /\ \A spec, profile, seed : Paid(spec, profile, seed) => Paid(spec, profile, seed)'
           /\ Paid(c.spec, c.profile, c.seed)'
  <1> DEFINE n == Len(burns)   r == Configuration(c)
  <1>0. burns \in Seq(S \cup {r}) /\ r \in S \cup {r}
    OBVIOUS
  <1>1. /\ n \in Nat /\ DOMAIN burns = 1..n /\ DOMAIN burns' = 1..n + 1
        /\ \A i \in 1..n : burns'[i] = burns[i]
        /\ burns'[n + 1] = r /\ burns' \in Seq(S \cup {r})
    BY <1>0
  <1>2. ASSUME NEW spec, NEW profile, NEW seed, Paid(spec, profile, seed) PROVE Paid(spec, profile, seed)'
    <2>1. PICK i \in DOMAIN burns : burns[i].spec = spec /\ Matches(burns[i], profile, seed)
      BY <1>2 DEF Paid
    <2>2. i \in DOMAIN burns' /\ burns'[i] = burns[i]
      BY <1>1, <2>1
    <2> QED BY <2>1, <2>2 DEF Paid, Matches
  <1>3. Paid(c.spec, c.profile, c.seed)'
    <2>1. n + 1 \in DOMAIN burns' /\ r.spec = c.spec
      BY <1>1 DEF Configuration
    <2>2. burns'[n + 1].spec = c.spec /\ Matches(burns'[n + 1], c.profile, c.seed)
      BY <1>1, <2>1, MatchesItself
    <2> QED BY <2>1, <2>2 DEF Paid, Matches
  <1> QED BY <1>1, <1>2, <1>3

\* Nothing is unpaid while the log stays as it is.
LEMMA BurnsStay ==
    ASSUME UNCHANGED burns
    PROVE  \A spec, profile, seed : Paid(spec, profile, seed) => Paid(spec, profile, seed)'
  BY DEF Paid, Matches

\* A step that loses no payment, moves one process to a shape that is paid for and
\* adds no unpaid reading keeps the invariant.
LEMMA OneJobMoves ==
    ASSUME LedgerInv, NEW p \in Proc, NEW j, job' = [job EXCEPT ![p] = j], JobShape(j),
           \E S : burns' \in Seq(S),
           \A spec, profile, seed : Paid(spec, profile, seed) => Paid(spec, profile, seed)',
           j.stage \in PaidStage /\ j.cl.split = "test" => Paid(j.cl.spec, j.cl.profile, j.cl.seed)',
           \A r \in testReads' : r \in testReads \/ Paid(r.spec, r.profile, r.seed)
    PROVE  LedgerInv'
  <1>1. /\ job' = [q \in Proc |-> job'[q]] /\ job'[p] = j
        /\ \A q \in Proc : q # p => job'[q] = job[q]
    BY DEF LedgerInv
  <1>2. \A q \in Proc : JobShape(job'[q])
    BY <1>1 DEF LedgerInv
  <1>3. JobPaid(p)'
    BY <1>1 DEF JobPaid
  <1>4. \A q \in Proc : q # p => JobPaid(q)'
    BY <1>1 DEF LedgerInv, JobPaid
  <1>5. TestReadsArePaid'
    <2>1. \A r \in testReads : Paid(r.spec, r.profile, r.seed)
      BY DEF LedgerInv, TestReadsArePaid, Paid
    <2>2. \A r \in testReads' : Paid(r.spec, r.profile, r.seed)'
      BY <2>1
    <2> QED BY <2>2 DEF TestReadsArePaid, Paid
  <1> QED BY <1>1, <1>2, <1>3, <1>4, <1>5 DEF LedgerInv

\* A step no process takes part in.
LEMMA NoJobMoves ==
    ASSUME LedgerInv, UNCHANGED <<job, burns, testReads>>
    PROVE  LedgerInv'
  <1>1. \A q \in Proc : JobPaid(q)'
    BY BurnsStay DEF LedgerInv, JobPaid
  <1>2. TestReadsArePaid'
    BY DEF LedgerInv, TestReadsArePaid, Matches
  <1> QED BY <1>1, <1>2 DEF LedgerInv

\* A process that goes back to idle, by an exit or a death.
LEMMA ExitKeeps ==
    ASSUME LedgerInv, NEW p \in Proc, job' = [job EXCEPT ![p] = Idle], UNCHANGED <<burns, testReads>>
    PROVE  LedgerInv'
  <1>1. JobShape(Idle) /\ Idle.stage \notin PaidStage
    BY DEF JobShape, Idle, PaidStage
  <1>2. \E S : burns' \in Seq(S)
    BY DEF LedgerInv
  <1> QED BY <1>1, <1>2, OneJobMoves, BurnsStay

\* A process that moves on with its command line, its log unchanged.
LEMMA GotoKeeps ==
    ASSUME LedgerInv, NEW p \in Proc, NEW j, JobShape(j), j.cl = job[p].cl, job' = [job EXCEPT ![p] = j], burns' = burns,
           j.stage \in PaidStage /\ job[p].cl.split = "test" => Paid(job[p].cl.spec, job[p].cl.profile, job[p].cl.seed),
           \A r \in testReads' : r \in testReads \/ Paid(r.spec, r.profile, r.seed)
    PROVE  LedgerInv'
  <1>1. \E S : burns' \in Seq(S)
    BY DEF LedgerInv
  <1>2. j.stage \in PaidStage /\ j.cl.split = "test" => Paid(j.cl.spec, j.cl.profile, j.cl.seed)'
    BY BurnsStay
  <1> QED BY <1>1, <1>2, OneJobMoves, BurnsStay

\* Goto keeps the command line.
LEMMA GotoMoves ==
    ASSUME LedgerInv, NEW p \in Proc, NEW s, job[p] # Idle, job' = [job EXCEPT ![p].stage = s]
    PROVE  job' = [job EXCEPT ![p] = [stage |-> s, cl |-> job[p].cl, gate |-> job[p].gate]]
  <1>1. PICK s0, c, g : job[p] = [stage |-> s0, cl |-> c, gate |-> g]
    BY DEF LedgerInv, JobShape
  <1>2. [job[p] EXCEPT !.stage = s] = [stage |-> s, cl |-> job[p].cl, gate |-> job[p].gate]
    BY <1>1
  <1>3. job' = [job EXCEPT ![p] = [job[p] EXCEPT !.stage = s]]
    BY Zenon
  <1> QED BY <1>2, <1>3

\* A process moves on to a stage it may be in.
LEMMA GotoStep ==
    ASSUME LedgerInv, NEW p \in Proc, NEW s, job[p] # Idle, job' = [job EXCEPT ![p].stage = s], UNCHANGED burns,
           s \in PaidStage /\ job[p].cl.split = "test" => Paid(job[p].cl.spec, job[p].cl.profile, job[p].cl.seed),
           \A r \in testReads' : r \in testReads \/ Paid(r.spec, r.profile, r.seed)
    PROVE  LedgerInv'
  <1>1. PICK j : j = [stage |-> s, cl |-> job[p].cl, gate |-> job[p].gate]
    OBVIOUS
  <1>2. job' = [job EXCEPT ![p] = j]
    BY <1>1, GotoMoves, Zenon
  <1>3. JobShape(j) /\ j.cl = job[p].cl /\ j.stage = s
    BY <1>1 DEF JobShape
  <1> QED BY <1>2, <1>3, GotoKeeps

\* Every step of a process, of the CLI and of a reviewer.
LEMMA LedgerStep == LedgerInv /\ [TrialNext]_trialVars => LedgerInv'
  <1> SUFFICES ASSUME LedgerInv, [TrialNext]_trialVars PROVE LedgerInv'
    OBVIOUS
  <1>s. \E S : burns \in Seq(S)
    BY DEF LedgerInv
  <1>p. \A p \in Proc : job[p].stage \in PaidStage /\ job[p].cl.split = "test"
                           => Paid(job[p].cl.spec, job[p].cl.profile, job[p].cl.seed)
    BY DEF LedgerInv, JobPaid
  <1>1. ASSUME NEW p \in Proc, NEW c, Start(p, c) PROVE LedgerInv'
    <2>0. UNCHANGED <<burns, testReads>>
      BY <1>1 DEF Start
    <2>1. CASE UNCHANGED job
      BY <2>0, <2>1, NoJobMoves
    <2>2. CASE job' = [job EXCEPT ![p] = [stage |-> IF c.split = "test" THEN "dedup" ELSE "writeup", cl |-> c, gate |-> FALSE]]
      <3> DEFINE j == [stage |-> IF c.split = "test" THEN "dedup" ELSE "writeup", cl |-> c, gate |-> FALSE]
      <3>1. JobShape(j)
        BY DEF JobShape
      <3>2. j.cl = c /\ j.stage = IF c.split = "test" THEN "dedup" ELSE "writeup"
        OBVIOUS
      <3>3. ~(j.stage \in PaidStage /\ j.cl.split = "test")
        BY <3>2 DEF PaidStage
      <3> HIDE DEF j
      <3>4. job' = [job EXCEPT ![p] = j]
        BY <2>2 DEF j
      <3> QED BY <1>s, <2>0, <3>1, <3>3, <3>4, OneJobMoves, BurnsStay
    <2> QED BY <1>1, <2>1, <2>2 DEF Start
  <1>i. Idle.stage = "idle"
    BY DEF Idle
  <1>2. ASSUME NEW p \in Proc, Dedup(p) PROVE LedgerInv'
    <2>0. job[p] # Idle /\ UNCHANGED <<burns, testReads>>
      BY <1>2, <1>i DEF Dedup, LogAttempt
    <2>1. CASE HasBurn(job[p].cl.spec, job[p].cl.profile, job[p].cl.seed)
      <3>1. job' = [job EXCEPT ![p].stage = "writeup"]
        BY <1>2, <2>1 DEF Dedup, Goto
      <3>2. Paid(job[p].cl.spec, job[p].cl.profile, job[p].cl.seed)
        BY <2>1 DEF HasBurn, Paid
      <3> QED BY <2>0, <3>1, <3>2, GotoStep
    <2>2. CASE ~HasBurn(job[p].cl.spec, job[p].cl.profile, job[p].cl.seed)
      <3>1. job' = [job EXCEPT ![p].stage = "count"] /\ "count" \notin PaidStage
        BY <1>2, <2>2 DEF Dedup, Goto, PaidStage
      <3> QED BY <2>0, <3>1, GotoStep
    <2> QED BY <2>1, <2>2
  <1>3. ASSUME NEW p \in Proc, CheckBudget(p) PROVE LedgerInv'
    <2>0. job[p] # Idle /\ UNCHANGED <<burns, testReads>>
      BY <1>3, <1>i DEF CheckBudget
    <2>1. CASE Refuse(p)
      BY <2>0, <2>1, ExitKeeps DEF Refuse, Exit
    <2>2. CASE Goto(p, "burn")
      <3>1. job' = [job EXCEPT ![p].stage = "burn"] /\ "burn" \notin PaidStage
        BY <2>2 DEF Goto, PaidStage
      <3> QED BY <2>0, <3>1, GotoStep
    <2> QED BY <1>3, <2>1, <2>2 DEF CheckBudget
  <1>4. ASSUME NEW p \in Proc, Burn(p) PROVE LedgerInv'
    <2>c. PICK c : c = job[p].cl
      OBVIOUS
    <2>j. PICK j : j = [stage |-> "writeup", cl |-> c, gate |-> job[p].gate]
      OBVIOUS
    <2>0. /\ job[p] # Idle /\ UNCHANGED testReads
          /\ burns' = Append(burns, Configuration(c)) /\ job' = [job EXCEPT ![p].stage = "writeup"]
      BY <1>4, <1>i, <2>c DEF Burn, LogBurn, Goto
    <2>1. PICK S : burns \in Seq(S)
      BY <1>s
    <2>2. /\ burns' \in Seq(S \cup {Configuration(c)})
          /\ \A spec, profile, seed : Paid(spec, profile, seed) => Paid(spec, profile, seed)'
          /\ Paid(c.spec, c.profile, c.seed)'
      BY <2>0, <2>1, BurnsGrow, Zenon
    <2>3. job' = [job EXCEPT ![p] = j]
      BY <2>0, <2>c, <2>j, GotoMoves, Zenon
    <2>4. JobShape(j) /\ j.cl = c
      BY <2>j DEF JobShape
    <2>5. \E T : burns' \in Seq(T)
      BY <2>2
    <2>6. j.stage \in PaidStage /\ j.cl.split = "test" => Paid(j.cl.spec, j.cl.profile, j.cl.seed)'
      BY <2>2, <2>4
    <2>7. \A r \in testReads' : r \in testReads \/ Paid(r.spec, r.profile, r.seed)
      BY <2>0
    <2> QED BY <2>2, <2>3, <2>4, <2>5, <2>6, <2>7, OneJobMoves, Zenon
  <1>5. ASSUME NEW p \in Proc, ReadWriteup(p) PROVE LedgerInv'
    <2>0. job[p] # Idle /\ UNCHANGED <<burns, testReads>> /\ job[p].stage \in PaidStage
      BY <1>5, <1>i DEF ReadWriteup, PaidStage
    <2>1. CASE job' = [job EXCEPT ![p] = Idle]
      BY <2>0, <2>1, ExitKeeps
    <2>2. CASE job' = [job EXCEPT ![p].stage = "batch"]
      BY <1>p, <2>0, <2>2, GotoStep
    <2> QED BY <1>5, <2>1, <2>2 DEF ReadWriteup, Refuse, Exit, Goto
  <1>6. ASSUME NEW p \in Proc, RunBatch(p) PROVE LedgerInv'
    <2> DEFINE c == job[p].cl
    <2>0. job[p] # Idle /\ UNCHANGED burns /\ job[p].stage \in PaidStage
      BY <1>6, <1>i DEF RunBatch, RecordTestAttempt, LogAttempt, PaidStage
    <2>1. CASE job' = [job EXCEPT ![p] = Idle] /\ UNCHANGED testReads
      BY <2>0, <2>1, ExitKeeps
    <2>2. CASE /\ job' = [job EXCEPT ![p].stage = "score"]
               /\ testReads' = testReads \cup {Configuration(d) : d \in {d \in {c} : d.split = "test"}}
      <3>1. \A r \in testReads' : r \in testReads \/ (c.split = "test" /\ r = Configuration(c))
        BY <2>2
      <3>2. LET r == Configuration(c) IN r.spec = c.spec /\ r.profile = c.profile /\ r.seed = c.seed
        BY DEF Configuration
      <3>3. \A r \in testReads' : r \in testReads \/ Paid(r.spec, r.profile, r.seed)
        BY <1>p, <2>0, <3>1, <3>2
      <3> QED BY <1>p, <2>0, <2>2, <3>3, GotoStep
    <2> QED BY <1>6, <2>1, <2>2 DEF RunBatch, Refuse, Exit, Goto
  <1>7. ASSUME NEW p \in Proc, Score(p) PROVE LedgerInv'
    <2>0. job[p] # Idle /\ UNCHANGED <<burns, testReads>> /\ job[p].stage \in PaidStage
      BY <1>7, <1>i DEF Score, PaidStage
    <2>1. CASE Refuse(p)
      BY <2>0, <2>1, ExitKeeps DEF Refuse, Exit
    <2>2. ASSUME NEW g \in BOOLEAN, job' = [job EXCEPT ![p].stage = "record", ![p].gate = g] PROVE LedgerInv'
      <3>1. PICK s0, c, g0 : job[p] = [stage |-> s0, cl |-> c, gate |-> g0]
        BY <2>0 DEF LedgerInv, JobShape
      <3>2. job' = [job EXCEPT ![p] = [[job[p] EXCEPT !.stage = "record"] EXCEPT !.gate = g]]
        BY <2>2, Zenon DEF LedgerInv
      <3>3. [[job[p] EXCEPT !.stage = "record"] EXCEPT !.gate = g] = [stage |-> "record", cl |-> job[p].cl, gate |-> g]
        <4> DEFINE r == job[p]   q == [r EXCEPT !.stage = "record"]
        <4>1. q = [stage |-> "record", cl |-> c, gate |-> g0] /\ r.cl = c
          BY <3>1
        <4> HIDE DEF q
        <4>2. [q EXCEPT !.gate = g] = [stage |-> "record", cl |-> c, gate |-> g]
          BY <4>1
        <4> QED BY <4>1, <4>2 DEF q
      <3>4. PICK j : j = [stage |-> "record", cl |-> job[p].cl, gate |-> g]
        OBVIOUS
      <3>5. job' = [job EXCEPT ![p] = j]
        BY <3>2, <3>3, <3>4, Zenon
      <3>6. JobShape(j) /\ j.cl = job[p].cl
        BY <3>4 DEF JobShape
      <3> QED BY <1>p, <2>0, <3>5, <3>6, GotoKeeps
    <2> QED BY <1>7, <2>1, <2>2 DEF Score
  <1>8. ASSUME NEW p \in Proc, RecordTrial(p) PROVE LedgerInv'
    <2>0. job[p] # Idle /\ UNCHANGED <<burns, testReads>> /\ job[p].stage \in PaidStage
      BY <1>8, <1>i DEF RecordTrial, PaidStage
    <2>1. CASE job' = [job EXCEPT ![p] = Idle]
      BY <2>0, <2>1, ExitKeeps
    <2>2. CASE job' = [job EXCEPT ![p].stage = "audit"]
      BY <1>p, <2>0, <2>2, GotoStep
    <2> QED BY <1>8, <2>1, <2>2 DEF RecordTrial, Refuse, Exit, Goto
  <1>9. ASSUME NEW p \in Proc, AuditRun(p) \/ Die(p) PROVE LedgerInv'
    BY <1>9, ExitKeeps DEF AuditRun, Die, Exit
  <1>10. ASSUME NEW p \in Proc, Launch(p) \/ RunSanctioned(p) PROVE LedgerInv'
    BY <1>1, <1>10 DEF Launch, RunSanctioned
  <1>11. ASSUME BurnUnlock \/ Sanctioned \/ \E v \in Reviewer : ReviewTrial(v) \/ SelectReviewed(v) \/ RecordReview(v)
         PROVE  LedgerInv'
    <2>1. UNCHANGED <<job, burns, testReads>>
      BY <1>11 DEF BurnUnlock, Sanctioned, LogAttempt, ReviewTrial, SelectReviewed, RecordReview
    <2> QED BY <2>1, NoJobMoves
  <1>12. CASE UNCHANGED trialVars
    BY <1>12, NoJobMoves DEF trialVars
  <1> QED BY <1>2, <1>3, <1>4, <1>5, <1>6, <1>7, <1>8, <1>9, <1>10, <1>11, <1>12 DEF TrialNext

\* Before the first launch nothing is read.
LEMMA LedgerInit == TrialInit => LedgerInv
  <1> SUFFICES ASSUME TrialInit PROVE LedgerInv
    OBVIOUS
  <1>1. burns = <<>> /\ job = [p \in Proc |-> Idle] /\ testReads = {}
    BY DEF TrialInit
  <1>2. \E S : burns \in Seq(S)
    <2>1. burns \in Seq({})
      BY <1>1
    <2> QED BY <2>1
  <1>3. \A p \in Proc : job[p] = Idle
    BY <1>1
  <1>4. job = [p \in Proc |-> job[p]]
    BY <1>1, <1>3
  <1>5. \A p \in Proc : JobShape(job[p]) /\ JobPaid(p)
    BY <1>3 DEF JobShape, JobPaid, Idle, PaidStage
  <1>6. TestReadsArePaid
    BY <1>1 DEF TestReadsArePaid
  <1> QED BY <1>2, <1>4, <1>5, <1>6 DEF LedgerInv

\* run_backtest: however many processes overlap, die or are started by the
\* promotion CLI, no result of the test split exists without a burn for it.
THEOREM NoFreeTestReads == LedgerSpec => []TestReadsArePaid
  <1>1. LedgerInv => TestReadsArePaid
    BY DEF LedgerInv
  <1> QED BY <1>1, LedgerInit, LedgerStep, PTL DEF LedgerSpec

-----------------------------------------------------------------------------
(***************************************************************************)
(* The event cache.                                                        *)
(***************************************************************************)
\* The locked splits share no event, and before the lock they are empty.
SplitsInv ==
    /\ ~lockedSplits.locked => lockedSplits = NotLocked
    /\ lockedSplits.train \cap lockedSplits.val = {}
    /\ lockedSplits.train \cap lockedSplits.test = {}
    /\ lockedSplits.val \cap lockedSplits.test = {}

\* What a load has yet to read is of the split it asked for.
ReadingInv ==
    /\ \E a, s, t, g, l : reading = [at |-> a, split |-> s, todo |-> t, got |-> g, lock |-> l]
    /\ reading.todo \subseteq Event
    /\ reading.split # "test" => reading.todo \cap reading.lock = {}
    /\ reading.split = "train" => reading.todo \subseteq lockedSplits.train
    /\ reading.split = "val" => reading.todo \subseteq lockedSplits.val
    /\ HeldOutStaysOut

\* The cached copy of a field is never of a later write than the file, and of the
\* same write only if it is the same.
FieldInv ==
    /\ stamp \in Nat /\ memo.stamp \in Nat /\ memo.stamp <= stamp
    /\ memo.stamp = stamp => memo.rows = rows
    /\ \A r \in rows : r.from \in Moment /\ r.value \in FieldValue
    /\ FeaturesAsOf

CacheInv == SplitsInv /\ ReadingInv /\ FieldInv

\* The chronological splits share no event.
LEMMA SplitsAreDisjoint ==
    ASSUME NEW ids \in SUBSET Event
    PROVE  LET s == Chronological(ids)
           IN /\ s.locked
              /\ s.train \cap s.val = {} /\ s.train \cap s.test = {} /\ s.val \cap s.test = {}
  <1> DEFINE n == Cardinality(ids)
             rank(e) == Cardinality({d \in ids : d <= e})
             s == Chronological(ids)
  <1>1. IsFiniteSet(ids) /\ n \in 0..Cardinality(Event)
    <2>1. IsFiniteSet(ids) /\ n <= Cardinality(Event)
      BY FS_Subset
    <2>2. n \in Nat /\ Cardinality(Event) \in Nat
      BY <2>1, FS_CardinalityType
    <2> QED BY <2>1, <2>2
  <1>2. TrainOf(n) \in Nat /\ ValOf(n) \in Nat
    BY <1>1
  <1>3. ASSUME NEW e \in ids PROVE rank(e) \in Nat
    <2>1. {d \in ids : d <= e} \subseteq ids
      OBVIOUS
    <2>2. IsFiniteSet({d \in ids : d <= e})
      BY <1>1, <2>1, FS_Subset
    <2> QED BY <2>2, FS_CardinalityType
  <1>4. /\ s.locked
        /\ s.train = {e \in ids : rank(e) <= TrainOf(n)}
        /\ s.val = {e \in ids : rank(e) > TrainOf(n) /\ rank(e) <= TrainOf(n) + ValOf(n)}
        /\ s.test = {e \in ids : rank(e) > TrainOf(n) + ValOf(n)}
    BY DEF Chronological
  <1> HIDE DEF n, rank, s
  <1>5. ASSUME NEW e \in ids
        PROVE  /\ ~(rank(e) <= TrainOf(n) /\ rank(e) > TrainOf(n))
               /\ ~(rank(e) <= TrainOf(n) /\ rank(e) > TrainOf(n) + ValOf(n))
               /\ ~(rank(e) <= TrainOf(n) + ValOf(n) /\ rank(e) > TrainOf(n) + ValOf(n))
    <2>1. rank(e) \in Nat
      BY <1>3
    <2> QED BY <1>2, <2>1
  <1>6. s.train \cap s.val = {} /\ s.train \cap s.test = {} /\ s.val \cap s.test = {}
    BY <1>4, <1>5, Zenon
  <1> QED BY <1>4, <1>6 DEF s

\* Which events a split lets through.
LEMMA InSplitIsTheSplit ==
    ASSUME SplitsInv, NEW e
    PROVE  /\ InSplit("train", e) => e \in lockedSplits.train
           /\ InSplit("val", e) => e \in lockedSplits.val
           /\ \A s \in {"train", "val", "nontest", "default"} : InSplit(s, e) => e \notin lockedSplits.test
  <1>1. /\ InSplit("train", e) <=> e \in lockedSplits.train
        /\ InSplit("val", e) <=> e \in lockedSplits.val
        /\ InSplit("nontest", e) <=> e \notin lockedSplits.test
        /\ InSplit("default", e) <=> e \notin lockedSplits.test
    BY DEF InSplit
  <1> QED BY <1>1 DEF SplitsInv

\* The label of an event is the split it is in.
LEMMA SplitOfIsTheSplit ==
    ASSUME SplitsInv, NEW e
    PROVE  /\ e \in lockedSplits.train => SplitOf(e) = "train"
           /\ e \in lockedSplits.val => SplitOf(e) = "val"
  BY DEF SplitsInv, SplitOf

\* A step the loads and the lock take no part in.
LEMMA LoadsRest ==
    ASSUME SplitsInv /\ ReadingInv, UNCHANGED <<lockedSplits, reading>>
    PROVE  SplitsInv' /\ ReadingInv'
  BY DEF SplitsInv, ReadingInv, HeldOutStaysOut

\* The lock, taken while a load may be under way.
LEMMA LockKeeps ==
    ASSUME SplitsInv, ReadingInv, MakeSplits
    PROVE  SplitsInv' /\ ReadingInv'
  <1>1. PICK ids \in SUBSET Event : lockedSplits' = Chronological(ids)
    BY DEF MakeSplits
  <1>2. ~lockedSplits.locked /\ reading' = reading
    BY DEF MakeSplits
  <1>3. SplitsInv'
    BY <1>1, SplitsAreDisjoint DEF SplitsInv
  <1>4. lockedSplits.train = {} /\ lockedSplits.val = {}
    BY <1>2 DEF SplitsInv, NotLocked
  <1>5. ReadingInv'
    BY <1>2, <1>4 DEF ReadingInv, HeldOutStaysOut
  <1> QED BY <1>3, <1>5

\* A load begins with the events of its split.
LEMMA EnumerateKeeps ==
    ASSUME SplitsInv, ReadingInv, EnumerateEvents
    PROVE  SplitsInv' /\ ReadingInv'
  <1>1. PICK s \in {"train", "val", "test", "nontest", "default"} :
          reading' = [at |-> "load", split |-> s, got |-> {}, lock |-> lockedSplits.test, todo |-> EventsOf(s)]
    BY DEF EnumerateEvents
  <1>2. lockedSplits' = lockedSplits
    BY DEF EnumerateEvents
  <1>3. /\ reading'.split = s /\ reading'.got = {} /\ reading'.lock = lockedSplits.test /\ reading'.todo = EventsOf(s)
        /\ reading' = [at |-> "load", split |-> s, todo |-> EventsOf(s), got |-> {}, lock |-> lockedSplits.test]
    BY <1>1
  <1>4. \E a, t, u, g, l : reading' = [at |-> a, split |-> t, todo |-> u, got |-> g, lock |-> l]
    BY <1>3
  <1>5. EventsOf(s) \subseteq Event /\ \A e \in EventsOf(s) : InSplit(s, e)
    BY DEF EventsOf
  <1>6. /\ s # "test" => EventsOf(s) \cap lockedSplits.test = {}
        /\ s = "train" => EventsOf(s) \subseteq lockedSplits.train
        /\ s = "val" => EventsOf(s) \subseteq lockedSplits.val
    BY <1>5, InSplitIsTheSplit
  <1>7. HeldOutStaysOut'
    BY <1>3 DEF HeldOutStaysOut
  <1>8. SplitsInv'
    BY <1>2 DEF SplitsInv
  <1>9. ReadingInv'
    BY <1>2, <1>3, <1>4, <1>5, <1>6, <1>7 DEF ReadingInv
  <1> QED BY <1>8, <1>9

\* One event more is read, and labelled.
LEMMA LoadEventKeeps ==
    ASSUME SplitsInv, ReadingInv, LoadEvent
    PROVE  SplitsInv' /\ ReadingInv'
  <1>1. PICK a, s, t, g, l : reading = [at |-> a, split |-> s, todo |-> t, got |-> g, lock |-> l]
    BY DEF ReadingInv
  <1>2. reading.split = s /\ reading.todo = t /\ reading.got = g /\ reading.lock = l
    BY <1>1
  <1>3. PICK e : e = Min(t)
    OBVIOUS
  <1>4. e \in t
    <2>1. t \in SUBSET Nat /\ t # {}
      BY <1>2 DEF ReadingInv, LoadEvent
    <2>2. \E x \in t : \A y \in t : x <= y
      BY <2>1, LeastNumber
    <2> QED BY <1>3, <2>2 DEF Min
  <1>5. PICK p : p = LoadCachedPanel(e)
    OBVIOUS
  <1>6. reading' = [[reading EXCEPT !.todo = t \ {e}] EXCEPT !.got = g \cup p]
    BY <1>2, <1>3, <1>5, Zenon DEF LoadEvent
  <1>7. reading' = [at |-> a, split |-> s, todo |-> t \ {e}, got |-> g \cup p, lock |-> l]
    <2> DEFINE q == [reading EXCEPT !.todo = t \ {e}]
    <2>1. q = [at |-> a, split |-> s, todo |-> t \ {e}, got |-> g, lock |-> l]
      BY <1>1
    <2> HIDE DEF q
    <2>2. [q EXCEPT !.got = g \cup p] = [at |-> a, split |-> s, todo |-> t \ {e}, got |-> g \cup p, lock |-> l]
      BY <2>1
    <2> QED BY <1>6, <2>2 DEF q
  <1>8. reading'.split = s /\ reading'.todo = t \ {e} /\ reading'.got = g \cup p /\ reading'.lock = l
    BY <1>7
  <1>9. lockedSplits' = lockedSplits
    BY DEF LoadEvent
  <1>10. \A x \in p : x.event = e /\ x.label = SplitOf(e)
    BY <1>5 DEF LoadCachedPanel
  <1>11. HeldOutStaysOut'
    <2>1. s # "test" => \A x \in g \cup p : x.event \notin l
      BY <1>2, <1>4, <1>10 DEF ReadingInv, HeldOutStaysOut
    <2>2. s = "train" => \A x \in g \cup p : x.label = s
      BY <1>2, <1>4, <1>10, SplitOfIsTheSplit DEF ReadingInv, HeldOutStaysOut
    <2>3. s = "val" => \A x \in g \cup p : x.label = s
      BY <1>2, <1>4, <1>10, SplitOfIsTheSplit DEF ReadingInv, HeldOutStaysOut
    <2> QED BY <1>8, <2>1, <2>2, <2>3 DEF HeldOutStaysOut
  <1>12. \E b, c, d, f, h : reading' = [at |-> b, split |-> c, todo |-> d, got |-> f, lock |-> h]
    BY <1>7
  <1>13. SplitsInv'
    BY <1>9 DEF SplitsInv
  <1>14. ReadingInv'
    BY <1>2, <1>8, <1>9, <1>11, <1>12 DEF ReadingInv
  <1> QED BY <1>13, <1>14

\* No load is under way.
LEMMA IdleReadingIsFine ==
    ASSUME SplitsInv, reading = IdleReading
    PROVE  ReadingInv
  <1>1. reading.split = "none" /\ reading.todo = {} /\ reading.got = {}
    BY DEF IdleReading
  <1>2. \E a, s, t, g, l : reading = [at |-> a, split |-> s, todo |-> t, got |-> g, lock |-> l]
    BY DEF IdleReading
  <1> QED BY <1>1, <1>2 DEF ReadingInv, HeldOutStaysOut

\* The steps of builders, refetch, lock and loads.
LEMMA CacheStepKeeps ==
    ASSUME SplitsInv, ReadingInv, CacheStep
    PROVE  SplitsInv' /\ ReadingInv'
  <1>1. CASE MakeSplits
    BY <1>1, LockKeeps
  <1>2. CASE EnumerateEvents
    BY <1>2, EnumerateKeeps
  <1>3. CASE LoadEvent
    BY <1>3, LoadEventKeeps
  <1>4. CASE LoadDone
    <2>1. reading' = IdleReading /\ lockedSplits' = lockedSplits
      BY <1>4 DEF LoadDone
    <2>2. SplitsInv'
      BY <2>1 DEF SplitsInv
    <2>3. ReadingInv'
      <3>1. reading'.split = "none" /\ reading'.todo = {} /\ reading'.got = {}
        BY <2>1 DEF IdleReading
      <3>2. \E a, s, t, g, l : reading' = [at |-> a, split |-> s, todo |-> t, got |-> g, lock |-> l]
        BY <2>1 DEF IdleReading
      <3> QED BY <3>1, <3>2 DEF ReadingInv, HeldOutStaysOut
    <2> QED BY <2>2, <2>3
  <1>5. CASE UNCHANGED <<lockedSplits, reading>>
    BY <1>5, LoadsRest
  <1>6. \/ MakeSplits \/ EnumerateEvents \/ LoadEvent \/ LoadDone
        \/ UNCHANGED <<lockedSplits, reading>>
    BY DEF CacheStep, BuildStart, BuildDone, BuildVisit, BuildFetch, BuildFetchFails, CryptoFetch, CryptoWrite,
           BuildWrite, BuildDump, BuildDies, RefetchStart, RefetchVisit, RefetchDone, RefetchFetch, RefetchReplace,
           RefetchDies, EventSettles
  <1> QED BY <1>1, <1>2, <1>3, <1>4, <1>5, <1>6

\* The value of a minute is the newest known by then.
LEMMA AsOfIsTheNewest ==
    ASSUME NEW rs, \A r \in rs : r.from \in Moment /\ r.value \in FieldValue, NEW t \in Moment
    PROVE  LET v == AsOfField(rs, t)
           IN IF v = "none" THEN \A r \in rs : r.from > t
              ELSE \E r \in rs : /\ r.value = v /\ r.from <= t
                                 /\ \A q \in rs : q.from <= t => q.from <= r.from
  <1> DEFINE known == {r \in rs : r.from <= t}
             v == AsOfField(rs, t)
             best == CHOOSE r \in known : \A s \in known : s.from <= r.from
  <1>1. PICK last \in Nat : Moment \subseteq 0..last
    OBVIOUS
  <1>2. t \in Nat /\ \A r \in rs : r.from \in Nat /\ r.from <= last
    <2>1. \A m \in Moment : m \in Nat /\ m <= last
      BY <1>1
    <2> QED BY <2>1
  <1>3. ASSUME known = {} PROVE v = "none" /\ \A r \in rs : r.from > t
    <2>1. v = "none"
      BY <1>3 DEF AsOfField
    <2>2. ASSUME NEW r \in rs PROVE r.from > t
      <3>1. ~(r.from <= t) /\ r.from \in Nat
        BY <1>2, <1>3
      <3> QED BY <1>2, <3>1
    <2> QED BY <2>1, <2>2
  <1>4. ASSUME known # {}
        PROVE  v # "none" /\ \E r \in rs : /\ r.value = v /\ r.from <= t
                                           /\ \A q \in rs : q.from <= t => q.from <= r.from
    <2> DEFINE T == {last - r.from : r \in known}
    <2>1. T \in SUBSET Nat /\ T # {}
      <3>1. ASSUME NEW r \in known PROVE last - r.from \in Nat
        BY <1>1, <1>2
      <3> QED BY <1>4, <3>1
    <2>2. PICK x \in T : \A y \in T : x <= y
      BY <2>1, LeastNumber
    <2>3. PICK r0 \in known : x = last - r0.from
      BY <2>2
    <2>4. ASSUME NEW s \in known PROVE s.from <= r0.from
      <3>1. last - r0.from <= last - s.from
        BY <2>2, <2>3
      <3> QED BY <1>1, <1>2, <2>3, <3>1
    <2>5. best \in known /\ \A s \in known : s.from <= best.from
      BY <2>3, <2>4
    <2>6. v = best.value
      BY <1>4 DEF AsOfField
    <2> HIDE DEF best, v
    <2>7. best \in rs /\ best.from <= t /\ best.value \in FieldValue
      BY <2>5
    <2>8. \A q \in rs : q.from <= t => q.from <= best.from
      BY <2>5
    <2> QED BY <2>6, <2>7, <2>8
  <1> HIDE DEF known, v
  <1>5. IF v = "none" THEN \A r \in rs : r.from > t
        ELSE \E r \in rs : /\ r.value = v /\ r.from <= t
                           /\ \A q \in rs : q.from <= t => q.from <= r.from
    BY <1>3, <1>4
  <1> QED BY <1>5 DEF v

\* A write and a join keep the copy honest.
LEMMA FeatureStepKeeps ==
    ASSUME FieldInv, FeatureStep
    PROVE  FieldInv'
  <1>1. CASE WriteField
    <2>1. PICK t \in Moment, v \in FieldValue, mode \in {"append", "replace"} :
            rows' = (IF mode = "append" THEN {r \in rows : r.from # t} ELSE {}) \cup {[from |-> t, value |-> v]}
      BY <1>1 DEF WriteField
    <2>2. stamp' = stamp + 1 /\ memo' = memo /\ joined' = joined
      BY <1>1 DEF WriteField
    <2>3. \A r \in rows' : r.from \in Moment /\ r.value \in FieldValue
      BY <2>1 DEF FieldInv
    <2>4. stamp' \in Nat /\ memo'.stamp \in Nat /\ memo'.stamp <= stamp' /\ memo'.stamp # stamp'
      BY <2>2 DEF FieldInv
    <2>5. FeaturesAsOf'
      BY <2>2 DEF FieldInv, FeaturesAsOf
    <2> QED BY <2>3, <2>4, <2>5 DEF FieldInv
  <1>2. CASE JoinPanel
    <2>1. LoadField = rows
      BY DEF LoadField, FieldInv
    <2>2. /\ memo' = [stamp |-> stamp, rows |-> rows] /\ rows' = rows /\ stamp' = stamp
          /\ joined' = [stored |-> rows, values |-> [t \in Moment |-> AsOfField(rows, t)]]
      BY <1>2, <2>1 DEF JoinPanel
    <2>3. memo'.stamp = stamp /\ memo'.rows = rows
      BY <2>2
    <2>4. joined'.stored = rows /\ \A t \in Moment : joined'.values[t] = AsOfField(rows, t)
      BY <2>2
    <2>5. PICK rs : rs = rows
      OBVIOUS
    <2>6. \A r \in rs : r.from \in Moment /\ r.value \in FieldValue
      BY <2>5 DEF FieldInv
    <2>7. \A t \in Moment :
            LET v == AsOfField(rs, t)
            IN IF v = "none" THEN \A r \in rs : r.from > t
               ELSE \E r \in rs : /\ r.value = v /\ r.from <= t
                                  /\ \A q \in rs : q.from <= t => q.from <= r.from
      BY <2>6, AsOfIsTheNewest
    <2>8. joined'.stored = rs /\ \A t \in Moment : joined'.values[t] = AsOfField(rs, t)
      BY <2>4, <2>5
    <2>9. FeaturesAsOf'
      BY <2>7, <2>8 DEF FeaturesAsOf
    <2> QED BY <2>2, <2>3, <2>9 DEF FieldInv
  <1> QED BY <1>1, <1>2 DEF FeatureStep

\* An empty cache, or one with a file of an older build.
LEMMA CacheInitInv == CacheInit => CacheInv
  <1> SUFFICES ASSUME CacheInit PROVE CacheInv
    OBVIOUS
  <1>1. SplitsInv
    BY DEF CacheInit, SplitsInv, NotLocked
  <1>2. ReadingInv
    BY <1>1, IdleReadingIsFine DEF CacheInit
  <1>3. FieldInv
    <2>1. /\ rows = {} /\ stamp = 0 /\ memo.stamp = 0 /\ memo.rows = {}
          /\ joined.stored = {} /\ \A t \in Moment : joined.values[t] = "none"
      BY DEF CacheInit
    <2>2. FeaturesAsOf
      BY <2>1 DEF FeaturesAsOf
    <2> QED BY <2>1, <2>2 DEF FieldInv
  <1> QED BY <1>1, <1>2, <1>3 DEF CacheInv

\* The invariant of cache and store.
THEOREM CacheInvHolds == CacheSpec => []CacheInv
  <1>1. CacheInv /\ [CacheNext]_<<buildVars, featureVars>> => CacheInv'
    <2> SUFFICES ASSUME CacheInv, [CacheNext]_<<buildVars, featureVars>> PROVE CacheInv'
      OBVIOUS
    <2>i. SplitsInv /\ ReadingInv /\ FieldInv
      BY DEF CacheInv
    <2>1. ASSUME UNCHANGED featureVars PROVE FieldInv'
      BY <2>1, <2>i DEF featureVars, FieldInv, FeaturesAsOf
    <2>2. ASSUME UNCHANGED buildVars PROVE SplitsInv' /\ ReadingInv'
      BY <2>2, <2>i, LoadsRest DEF buildVars
    <2>3. CASE CacheStep /\ UNCHANGED featureVars
      BY <2>1, <2>3, <2>i, CacheStepKeeps DEF CacheInv
    <2>4. CASE FeatureStep /\ UNCHANGED buildVars
      BY <2>2, <2>4, <2>i, FeatureStepKeeps DEF CacheInv
    <2>5. CASE UNCHANGED <<buildVars, featureVars>>
      BY <2>1, <2>2, <2>5 DEF CacheInv
    <2> QED BY <2>3, <2>4, <2>5 DEF CacheNext
  <1> QED BY <1>1, CacheInitInv, PTL DEF CacheSpec

\* enumerate_events, load_panel and the lock: a load that does not name the test
\* split returns nothing of it, and what it returns carries its split's label,
\* whatever is built, refetched, torn or locked meanwhile.
THEOREM HeldOutIsHeldOut == CacheSpec => []HeldOutStaysOut
  <1>1. CacheInv => HeldOutStaysOut
    BY DEF CacheInv, ReadingInv
  <1> QED BY <1>1, CacheInvHolds, PTL

\* _load_field and _asof_series: a panel joined from a cached copy shows what the
\* store held for each minute, and nothing of a later one.
THEOREM JoinsKnowNoFuture == CacheSpec => []FeaturesAsOf
  <1>1. CacheInv => FeaturesAsOf
    BY DEF CacheInv, FieldInv
  <1> QED BY <1>1, CacheInvHolds, PTL

-----------------------------------------------------------------------------
(***************************************************************************)
(* The chronological split.                                                *)
(***************************************************************************)
HIDE CacheAssumption DEF CacheAssumption

InOrder(days) ==
    days \in Seq(Nat) /\ Len(days) >= 2 /\ \A j, k \in DOMAIN days : j <= k => days[j] <= days[k]

\* A cut is clean if no day is on both sides of it.
CleanCut(days, n) == n = Len(days) \/ (n \in DOMAIN days /\ n + 1 \in DOMAIN days /\ days[n] < days[n + 1])

\* A cut that is moved to the day's end is clean, and only moves forward.
LEMMA DayCleanIsClean ==
    ASSUME NEW days, InOrder(days), NEW n \in Nat, 1 <= n, n < Len(days)
    PROVE  /\ DayClean(days, n) \in n..Len(days)
           /\ CleanCut(days, DayClean(days, n))
  <1>0. /\ DOMAIN days = 1..Len(days) /\ Len(days) \in Nat /\ \A k \in DOMAIN days : days[k] \in Nat
        /\ \A j, k \in DOMAIN days : j <= k => days[j] <= days[k]
    BY DEF InOrder
  <1>1. CASE days[n] # days[n + 1]
    <2>1. DayClean(days, n) = n
      BY <1>1 DEF DayClean
    <2>2. days[n] < days[n + 1]
      BY <1>0, <1>1
    <2>3. n \in n..Len(days)
      BY <1>0
    <2>4. n \in DOMAIN days /\ n + 1 \in DOMAIN days
      BY <1>0
    <2>5. CleanCut(days, n)
      BY <2>2, <2>4 DEF CleanCut
    <2> QED BY <2>1, <2>3, <2>5, Zenon
  <1>2. CASE days[n] = days[n + 1]
    <2> DEFINE L == {k \in DOMAIN days : days[k] <= days[n]}
               C == {k \in 1..Len(days) + 1 : k = Len(days) + 1 \/ days[k] > days[n]}
    <2>1. DayClean(days, n) = Cardinality(L)
      BY <1>2 DEF DayClean
    <2>2. C \in SUBSET Nat /\ Len(days) + 1 \in C
      BY <1>0
    <2>3. PICK c \in C : \A y \in C : c <= y
      BY <2>2, LeastNumber
    <2>4. c \in 1..Len(days) + 1 /\ (c = Len(days) + 1 \/ days[c] > days[n])
      BY <2>3
    <2>5. \A k \in 1..Len(days) : k < c => days[k] <= days[n]
      <3> SUFFICES ASSUME NEW k \in 1..Len(days), k < c PROVE days[k] <= days[n]
        OBVIOUS
      <3>1. k \in C => c <= k
        BY <2>3
      <3>2. k \notin C
        BY <1>0, <2>4, <3>1
      <3> QED BY <1>0, <3>2
    <2>6. c > n
      BY <1>0, <2>4
    <2>7. L = 1..c - 1
      <3>1. ASSUME NEW k \in L PROVE k \in 1..c - 1
        BY <1>0, <2>4, <3>1
      <3>2. ASSUME NEW k \in 1..c - 1 PROVE k \in L
        BY <1>0, <2>4, <2>5, <3>2
      <3> QED BY <3>1, <3>2
    <2>8. Cardinality(1..c - 1) = c - 1
      <3>1. c - 1 \in Int /\ 1 <= c - 1
        BY <2>4, <2>6
      <3>2. Cardinality(1..c - 1) = (c - 1) - 1 + 1
        BY <3>1, FS_Interval
      <3> QED BY <2>4, <3>2
    <2>9. DayClean(days, n) = c - 1
      BY <2>1, <2>7, <2>8, Zenon
    <2>10. c - 1 \in n..Len(days)
      BY <2>4, <2>6
    <2>11. CleanCut(days, c - 1)
      <3>1. CASE c = Len(days) + 1
        BY <1>0, <3>1 DEF CleanCut
      <3>2. CASE c # Len(days) + 1
        <4>1. c - 1 \in DOMAIN days /\ c \in DOMAIN days /\ (c - 1) + 1 = c
          BY <1>0, <2>4, <2>6, <3>2
        <4>2. days[c - 1] <= days[n] /\ days[n] < days[c]
          BY <1>0, <2>4, <2>5, <3>2, <4>1
        <4> QED BY <1>0, <4>1, <4>2 DEF CleanCut
      <3> QED BY <3>1, <3>2
    <2> QED BY <2>9, <2>10, <2>11, Zenon
  <1> QED BY <1>1, <1>2

\* No day is on both sides of a clean cut.
LEMMA CleanCutSeparates ==
    ASSUME NEW days, InOrder(days), NEW n \in Nat, n <= Len(days), CleanCut(days, n),
           NEW j \in DOMAIN days, NEW k \in DOMAIN days, days[j] = days[k]
    PROVE  j <= n <=> k <= n
  <1>0. /\ DOMAIN days = 1..Len(days) /\ Len(days) \in Nat /\ \A m \in DOMAIN days : days[m] \in Nat
        /\ \A m, p \in DOMAIN days : m <= p => days[m] <= days[p]
    BY DEF InOrder
  <1>1. CASE n = Len(days)
    BY <1>0, <1>1
  <1>2. CASE n \in DOMAIN days /\ n + 1 \in DOMAIN days /\ days[n] < days[n + 1]
    <2>1. \A m, p \in DOMAIN days : m <= n /\ ~(p <= n) => days[m] < days[p]
      <3> SUFFICES ASSUME NEW m \in DOMAIN days, NEW p \in DOMAIN days, m <= n, ~(p <= n) PROVE days[m] < days[p]
        OBVIOUS
      <3>1. days[m] <= days[n] /\ days[n + 1] <= days[p]
        BY <1>0, <1>2
      <3> QED BY <1>0, <1>2, <3>1
    <2> QED BY <1>0, <2>1
  <1> QED BY <1>1, <1>2 DEF CleanCut

GateInv ==
    /\ calendar = <<>> \/ calendar \in Calendars
    /\ splits = NoSplits \/ (calendar \in Calendars /\ splits = ComputeSplits(calendar))

\* compute_splits separates the days of any season.
LEMMA SplitsAreClean ==
    ASSUME NEW days, InOrder(days), ~Clamped(days)
    PROVE  LET s == ComputeSplits(days) IN
           /\ \A j, k \in DOMAIN days :
                days[j] = days[k] => \A x \in {s.train, s.val, s.test} : j \in x <=> k \in x
           /\ \A j \in s.train, k \in s.val, l \in s.test : j < k /\ k < l
           /\ s.train \cup s.val \cup s.test = DOMAIN days
  <1> DEFINE n == Len(days)   t == TrainEnd(days)   v == ValEnd(days)   s == ComputeSplits(days)
  <1>0. n \in Nat /\ n >= 2 /\ DOMAIN days = 1..n
    BY DEF InOrder
  <1>1. TrainRaw(n) \in Nat /\ 1 <= TrainRaw(n) /\ TrainRaw(n) < n
    <2>1. (70 * n) \div 100 \in Nat /\ 1 <= (70 * n) \div 100 /\ (70 * n) \div 100 < n
      BY <1>0
    <2>2. n \in FloatShort => (70 * n) \div 100 >= 2
      BY <1>0, GateAssumption DEF GateAssumption
    <2> QED BY <2>1, <2>2 DEF TrainRaw
  <1>2. t \in TrainRaw(n)..n /\ CleanCut(days, t)
    BY <1>0, <1>1, DayCleanIsClean DEF TrainEnd
  <1>3. (15 * n) \div 100 \in Nat
    BY <1>0
  <1> DEFINE w == t + (15 * n) \div 100
  <1>4. w \in Nat /\ 1 <= w /\ w < n /\ t <= w /\ v = DayClean(days, w)
    BY <1>0, <1>1, <1>2, <1>3 DEF Clamped, ValEnd
  <1> HIDE DEF w
  <1>5. v \in w..n /\ CleanCut(days, v)
    BY <1>0, <1>4, DayCleanIsClean
  <1>6. t \in Nat /\ v \in Nat /\ 1 <= t /\ t <= v /\ v <= n
    BY <1>0, <1>1, <1>2, <1>4, <1>5
  <1>7. s.train = 1..t /\ s.val = t + 1..v /\ s.test = v + 1..n
    BY DEF ComputeSplits
  <1> HIDE DEF t, v, s
  <1>8. ASSUME NEW j \in DOMAIN days, NEW k \in DOMAIN days, days[j] = days[k],
               NEW x \in {s.train, s.val, s.test}
        PROVE  j \in x <=> k \in x
    <2>1. j <= t <=> k <= t
      BY <1>2, <1>6, <1>8, CleanCutSeparates
    <2>2. j <= v <=> k <= v
      BY <1>5, <1>6, <1>8, CleanCutSeparates
    <2>3. j \in 1..n /\ k \in 1..n
      BY <1>0
    <2> QED BY <1>0, <1>6, <1>7, <1>8, <2>1, <2>2, <2>3
  <1>9. \A j \in s.train, k \in s.val, l \in s.test : j < k /\ k < l
    BY <1>6, <1>7
  <1>10. s.train \cup s.val \cup s.test = DOMAIN days
    BY <1>0, <1>6, <1>7
  <1> QED BY <1>8, <1>9, <1>10 DEF s

\* The season and its split.
LEMMA GateInvHolds == GateSpec => []GateInv
  <1>1. GateInit => GateInv
    BY DEF GateInit, GateInv
  <1>2. GateInv /\ [GateNext]_gateVars => GateInv'
    <2> SUFFICES ASSUME GateInv, [GateNext]_gateVars PROVE GateInv'
      OBVIOUS
    <2>1. CASE Evaluate \/ UNCHANGED gateVars
      BY <2>1 DEF Evaluate, gateVars, GateInv
    <2>2. ASSUME NEW force \in BOOLEAN, Lock(force) PROVE GateInv'
      BY <2>2 DEF Lock, GateInv
    <2> QED BY <2>1, <2>2 DEF GateNext
  <1> QED BY <1>1, <1>2, PTL DEF GateSpec

\* compute_splits: whatever the season and however often it is locked anew, no day
\* is in two splits, the splits follow one another and every game is in one.
THEOREM DaysAreSeparated == GateSpec => []SplitsSeparateDays
  <1>1. ASSUME GateInv PROVE SplitsSeparateDays
    <2> SUFFICES ASSUME splits /= NoSplits, ~Clamped(calendar)
                 PROVE  /\ \A j, k \in DOMAIN calendar :
                             calendar[j] = calendar[k] => \A s \in {splits.train, splits.val, splits.test} : j \in s <=> k \in s
                        /\ \A j \in splits.train, k \in splits.val, l \in splits.test : j < k /\ k < l
                        /\ splits.train \cup splits.val \cup splits.test = DOMAIN calendar
      BY DEF SplitsSeparateDays
    <2>1. calendar \in Calendars /\ splits = ComputeSplits(calendar)
      BY <1>1 DEF GateInv
    <2>2. InOrder(calendar)
      BY <2>1, GateAssumption DEF GateAssumption, InOrder
    <2> QED BY <2>1, <2>2, SplitsAreClean
  <1> QED BY <1>1, GateInvHolds, PTL

-----------------------------------------------------------------------------
(***************************************************************************)
(* The lab's strategies.                                                   *)
(***************************************************************************)
\* Some bars of a panel have a first and a last.
LEMMA LeastAndGreatestBar ==
    ASSUME NEW n \in Nat, NEW T \in SUBSET (1..n), T # {}
    PROVE  Min(T) \in T /\ Max(T) \in T
  <1>1. \E x \in T : \A y \in T : x <= y
    BY LeastNumber
  <1> DEFINE U == {n - x : x \in T}
  <1>2. PICK u \in U : \A v \in U : u <= v
    <2>0. \A x \in T : n - x \in Nat
      OBVIOUS
    <2>1. U \in SUBSET Nat /\ U # {}
      BY <2>0
    <2> HIDE DEF U
    <2> QED BY <2>1, LeastNumber
  <1>3. PICK x \in T : u = n - x
    OBVIOUS
  <1>4. ASSUME NEW y \in T PROVE x >= y
    <2>1. n - x <= n - y
      BY <1>2, <1>3
    <2> QED BY <2>1
  <1> QED BY <1>1, <1>4 DEF Min, Max
\* Min and Max of two numbers.
LEMMA Pairs ==
    ASSUME NEW a \in Int, NEW b \in Int
    PROVE  /\ Min({a, b}) = IF a <= b THEN a ELSE b
           /\ Max({a, b}) = IF a >= b THEN a ELSE b
  <1>1. ASSUME a <= b PROVE Min({a, b}) = a
    BY <1>1 DEF Min
  <1>2. ASSUME ~(a <= b) PROVE Min({a, b}) = b
    BY <1>2 DEF Min
  <1>3. ASSUME a >= b PROVE Max({a, b}) = a
    BY <1>3 DEF Max
  <1>4. ASSUME ~(a >= b) PROVE Max({a, b}) = b
    BY <1>4 DEF Max
  <1> QED BY <1>1, <1>2, <1>3, <1>4

\* A clipped number lies between the bounds.
LEMMA Clipped ==
    ASSUME NEW x \in Int, NEW lo \in Int, NEW hi \in Int, lo <= hi
    PROVE  Clip(x, lo, hi) \in lo..hi
  <1>1. Min({x, hi}) \in Int /\ Min({x, hi}) <= hi
    BY Pairs
  <1>2. PICK y \in Int : y = Min({x, hi})
    BY <1>1
  <1>3. Max({lo, y}) \in lo..hi
    BY <1>1, <1>2, Pairs
  <1> QED BY <1>2, <1>3 DEF Clip

\* A fee is a whole number, never negative.
LEMMA FeeIsNatural ==
    ASSUME NEW price \in Int
    PROVE  LabFee(price) \in Nat
  <1>1. Curve(price) \in Int
    BY DEF Curve
  <1>2. PICK raw \in Int : raw = 1 * (SportsBps \div 100) * Curve(price)
    BY <1>1 DEF SportsBps
  <1>3. ASSUME raw > 0 PROVE Max({1, (raw + 50000) \div 100000}) \in Nat
    <2>1. PICK q \in Int : q = (raw + 50000) \div 100000
      OBVIOUS
    <2>2. Max({1, q}) = IF 1 >= q THEN 1 ELSE q
      BY Pairs
    <2> QED BY <2>1, <2>2
  <1> QED BY <1>2, <1>3 DEF LabFee, PmTakerFee

OverLabels == {"over", "long_home", "cover_home"}
UnderLabels == {"under", "short_home", "long_away", "cover_away"}

\* Every label has one orientation.
LEMMA Oriented ==
    /\ \A s \in OverLabels : IsShortSide(s) = FALSE
    /\ \A s \in UnderLabels : IsShortSide(s) = TRUE
  <1>1. ASSUME NEW s \in OverLabels PROVE IsShortSide(s) = FALSE
    BY <1>1 DEF OverLabels, IsShortSide, SHORT_SIDES, OVER_SIDES
  <1>2. ASSUME NEW s \in UnderLabels PROVE IsShortSide(s) = TRUE
    BY <1>2 DEF UnderLabels, IsShortSide, SHORT_SIDES, OVER_SIDES
  <1> QED BY <1>1, <1>2

\* Enters on bars of the panel, and has one of the labels on every bar.
Sided(s, p) == s.entry \subseteq BarsOf(p) /\ \A i \in BarsOf(p) : s.side[i] \in OverLabels \cup UnderLabels

\* So does every strategy of the catalogue, whatever the panel.
LEMMA SidesAreLabels ==
    ASSUME NEW p, p.mid \in Seq(Reading), NEW market \in {"winner", "total", "spread"}, NEW name \in Catalogue(market)
    PROVE  Sided(Applied(name, p), p)
  <1> USE DEF Composed, Sided, OverLabels, UnderLabels
  <1>0. ASSUME NEW mask \in SUBSET BarsOf(p) PROVE FirstOnly(mask) \subseteq BarsOf(p)
    <2>1. mask \in SUBSET (1..Len(p.mid)) /\ Len(p.mid) \in Nat
      BY DEF BarsOf
    <2>2. mask # {} => Min(mask) \in mask
      BY <2>1, LeastAndGreatestBar
    <2> QED BY <2>2 DEF FirstOnly
  <1>1. Sided(FairValueGap(p), p)
    BY DEF FairValueGap
  <1>2. Sided(TermStructureRv(p), p)
    BY DEF TermStructureRv
  <1>3. Sided(ClosingLineValue(p), p)
    BY DEF ClosingLineValue
  <1>4. Sided(SubstitutionLatency(p), p)
    BY DEF SubstitutionLatency
  <1>5. Sided(FavoriteLongshot(p), p)
    BY <1>0 DEF FavoriteLongshot, TimeMask, Back, Fade
  <1>6. Sided(CalibrationBucket(p), p)
    BY <1>0 DEF CalibrationBucket, TimeMask, Back, Fade
  <1>7. Sided(TotalsAnchoring(p), p) /\ Sided(SpreadAnchoring(p), p)
    BY DEF TotalsAnchoring, SpreadAnchoring, BuildAnchoring, EntryMask, MakeSide
  <1>8. Sided(XmarketConsistency(p), p)
    BY DEF XmarketConsistency
  <1> HIDE DEF Sided
  <1> QED BY <1>1, <1>2, <1>3, <1>4, <1>5, <1>6, <1>7, <1>8 DEF Catalogue, Applied

\* There is a nearest strike.
LEMMA NearestIsAStrike ==
    ASSUME NEW p, Strikes(p) \subseteq Int, Strikes(p) # {}, NEW level \in Int
    PROVE  NearestStrike(p, level) \in Strikes(p)
  <1> DEFINE far(s) == Magnitude(s - level)
             T == {far(s) : s \in Strikes(p)}
  <1>1. \A s \in Strikes(p) : far(s) \in Nat /\ s \in Int /\ (s = level - far(s) \/ s = level + far(s))
    BY DEF Magnitude
  <1> HIDE DEF far
  <1>2. PICK d \in T : \A y \in T : d <= y
    <2>1. T \in SUBSET Nat /\ T # {}
      BY <1>1
    <2> HIDE DEF T
    <2> QED BY <2>1, LeastNumber
  <1>3. d \in Nat /\ \A s \in Strikes(p) : d <= far(s)
    BY <1>1, <1>2
  <1>4. \E s \in Strikes(p) : far(s) = d /\ \A t \in Strikes(p) : far(t) = d => s <= t
    <2>1. PICK s \in Strikes(p) : far(s) = d
      BY <1>2
    <2>2. CASE \E t \in Strikes(p) : far(t) = d /\ t = level - d
      BY <1>1, <1>3, <2>2
    <2>3. CASE ~\E t \in Strikes(p) : far(t) = d /\ t = level - d
      BY <1>1, <1>3, <2>1, <2>3
    <2> QED BY <2>2, <2>3
  <1>5. \E s \in Strikes(p) : \A t \in Strikes(p) : far(s) < far(t) \/ (far(s) = far(t) /\ s <= t)
    BY <1>1, <1>3, <1>4
  <1> QED BY <1>5 DEF NearestStrike, far

\* A fill that is made is one at a quote the panel shows, whatever the side.
LEMMA FilledAtAQuote ==
    ASSUME NEW p, ArraysOfPanel(p), NEW ts, NEW side, Fill(p, ts, side) # NoFill
    PROVE  \E strike : \E quote \in Int : \A other : Fill(p, ts, other) = FillResult(strike, quote, other)
  <1>0. Len(p.mid) \in Nat /\ BarsOf(p) = 1..Len(p.mid)
    BY DEF ArraysOfPanel, BarsOf
  <1>1. ASSUME NEW seq \in Seq(Reading), Len(seq) = Len(p.mid)
        PROVE  InterpAt(ts, p, seq) \in Reading
    <2> DEFINE js == {j \in BarsOf(p) : Known(seq[j]) /\ p.ts[j] <= ts}
    <2>1. js # {} => Max(js) \in js
      BY <1>0, LeastAndGreatestBar
    <2>2. js # {} => seq[Max(js)] \in Reading
      BY <1>0, <1>1, <2>1
    <2> QED BY <2>2 DEF InterpAt, Reading
  <1> DEFINE level == InterpAt(ts, p, p.mid)
             ladderless == p.market = "winner" \/ Strikes(p) = {}
             strike == IF ladderless THEN 0 ELSE NearestStrike(p, level)
             quote == IF ladderless THEN level ELSE InterpAt(ts, p, p.ladder[strike])
  <1>2. Known(level) /\ Known(quote)
    BY Zenon DEF Fill
  <1>3. \A other : Fill(p, ts, other) = FillResult(strike, quote, other)
    BY <1>2, Zenon DEF Fill
  <1>4. quote \in Reading
    <2>1. CASE ladderless
      BY <1>1, <2>1 DEF ArraysOfPanel
    <2>2. CASE ~ladderless
      <3>1. strike \in Strikes(p)
        <4>1. level \in Int /\ Strikes(p) \subseteq Int /\ Strikes(p) # {}
          BY <1>1, <1>2, <2>2 DEF ArraysOfPanel, Strikes, Known, Reading
        <4> HIDE DEF level
        <4>2. NearestStrike(p, level) \in Strikes(p)
          BY <4>1, NearestIsAStrike
        <4> QED BY <2>2, <4>2
      <3>2. p.ladder[strike] \in Seq(Reading) /\ Len(p.ladder[strike]) = Len(p.mid)
        BY <3>1 DEF ArraysOfPanel, Strikes
      <3> QED BY <1>1, <2>2, <3>2
    <2> QED BY <2>1, <2>2
  <1>5. quote \in Int
    BY <1>2, <1>4 DEF Known, Reading
  <1> QED BY <1>3, <1>5

\* The two sides of a quote.
LEMMA TwoSides ==
    ASSUME NEW strike, NEW quote \in Int
    PROVE  \E yes, no \in [strike : {strike}, mid : Int, allIn : Int] :
             /\ yes.allIn + no.allIn >= Dollar + 2 * HalfSpread
             /\ \A s \in OverLabels : FillResult(strike, quote, s) = yes
             /\ \A s \in UnderLabels : FillResult(strike, quote, s) = no
  <1>0. Dollar = 100000 /\ Cent = 1000 /\ HalfSpread = 1500 /\ Cent \div 10 = 100
    BY DEF Dollar, Cent, HalfSpread
  <1>1a. Cent \in Int /\ 99 * Cent \in Int /\ Cent <= 99 * Cent
    BY <1>0
  <1>1b. Clip(quote, Cent, 99 * Cent) \in Int
    BY <1>1a, Clipped
  <1>1. PICK q \in Int : q = Clip(quote, Cent, 99 * Cent)
    BY <1>1b
  <1> DEFINE Side(mid) == [strike |-> strike, mid |-> mid,
                           allIn |-> mid + HalfSpread + LabFee(Min({mid + HalfSpread, Dollar - Cent \div 10}))]
  <1>2. ASSUME NEW mid \in Int
        PROVE  Side(mid) \in [strike : {strike}, mid : Int, allIn : Int] /\ Side(mid).allIn >= mid + HalfSpread
    <2>1. PICK crossed \in Int : crossed = Min({mid + HalfSpread, Dollar - Cent \div 10})
      BY <1>0, Pairs
    <2>2. PICK fee \in Nat : fee = LabFee(crossed)
      BY FeeIsNatural
    <2> QED BY <1>0, <2>1, <2>2
  <1>3. \A s \in OverLabels : FillResult(strike, quote, s) = Side(q)
    BY <1>1, Oriented DEF FillResult
  <1>4. \A s \in UnderLabels : FillResult(strike, quote, s) = Side(Dollar - q)
    BY <1>1, Oriented DEF FillResult
  <1>5. Dollar - q \in Int
    BY <1>0
  <1> HIDE DEF Side
  <1>6. Side(q).allIn \in Int /\ Side(Dollar - q).allIn \in Int
    BY <1>2, <1>5
  <1>7. Side(q).allIn + Side(Dollar - q).allIn >= Dollar + 2 * HalfSpread
    BY <1>0, <1>2, <1>5, <1>6
  <1> QED BY <1>2, <1>3, <1>4, <1>5, <1>7

\* One of two opposite sides pays, whatever the outcome.
LEMMA OnePays ==
    ASSUME NEW p, p.market \in {"winner", "total", "spread"}, OutcomeOfPanel(p), NoNumber \notin Int \cup BOOLEAN,
           NEW strike, NEW home \in OverLabels, NEW away \in UnderLabels
    PROVE  SettlementPayoff(p, home, strike) + SettlementPayoff(p, away, strike) = Dollar
  <1> DEFINE outcome == CASE p.market = "winner" -> p.won [] p.market = "total" -> p.finalTotal [] OTHER -> p.finalMargin
             above == IF p.market = "winner" THEN outcome ELSE outcome > strike
  <1>1. Known(outcome)
    BY DEF OutcomeOfPanel, Known
  <1>2. above \in BOOLEAN
    <2>1. CASE p.market = "winner"
      <3>1. p.won \in BOOLEAN
        BY <2>1 DEF OutcomeOfPanel
      <3>2. above = p.won
        BY <2>1, Zenon
      <3> QED BY <3>1, <3>2
    <2>2. CASE p.market # "winner"
      <3>1. above = (outcome > strike)
        BY <2>2, Zenon
      <3> HIDE DEF outcome, above
      <3> QED BY <3>1
    <2> QED BY <2>1, <2>2
  <1>3. IsOverSide(home) = TRUE /\ IsOverSide(away) = FALSE
    BY Oriented DEF IsOverSide
  <1>4. /\ SettlementPayoff(p, home, strike) = IF above = TRUE THEN Dollar ELSE 0
        /\ SettlementPayoff(p, away, strike) = IF above = FALSE THEN Dollar ELSE 0
    BY <1>1, <1>3, Zenon DEF SettlementPayoff
  <1> HIDE DEF above
  <1> QED BY <1>2, <1>4 DEF Dollar, Cent

\* Whether the panel is joined with the winner's or not, its quotes are the same.
LEMMA JoinKeepsQuotes ==
    ASSUME NEW g \in Panels, NEW name, NEW ts, NEW side
    PROVE  LET p == Loaded(name, g)
           IN /\ p.mid = g.panel.mid
              /\ Fill(p, ts, side) = Fill(g.panel, ts, side)
  <1> DEFINE p == Loaded(name, g)
  <1>1. p.mid = g.panel.mid /\ p.ts = g.panel.ts /\ p.ladder = g.panel.ladder /\ p.market = g.panel.market
    BY PanelAssumption DEF PanelAssumption, Loaded, AttachWinnerMid
  <1>2. BarsOf(p) = BarsOf(g.panel) /\ Strikes(p) = Strikes(g.panel)
    BY <1>1 DEF BarsOf, Strikes
  <1> HIDE DEF p
  <1>3. ASSUME NEW seq PROVE InterpAt(ts, p, seq) = InterpAt(ts, g.panel, seq)
    BY <1>1, <1>2, Zenon DEF InterpAt
  <1>4. ASSUME NEW level PROVE NearestStrike(p, level) = NearestStrike(g.panel, level)
    BY <1>2, Zenon DEF NearestStrike
  <1> QED BY <1>1, <1>2, <1>3, <1>4, Zenon DEF Fill, p

\* What is booked is what the composed strategy's run returned.
StrategyInv ==
    /\ game \in Panels /\ composed \in Catalogue(game.panel.market)
    /\ booked = NoTrade \/ booked = RunOne(Loaded(composed, game), Applied(composed, Loaded(composed, game)))

\* A booked trade was filled on the panel, at one of the labels.
LEMMA BookedIsAFill ==
    ASSUME StrategyInv, booked # NoTrade
    PROVE  /\ booked.side \in OverLabels \cup UnderLabels
           /\ Fill(game.panel, booked.ts, booked.side) # NoFill
           /\ booked.strike = Fill(game.panel, booked.ts, booked.side).strike
           /\ booked.allIn = Fill(game.panel, booked.ts, booked.side).allIn
           /\ booked.team = PrimaryTeam(booked.side)
  <1>0. \E q, t : q = Loaded(composed, game) /\ t = Applied(composed, q)
    OBVIOUS
  <1>1. PICK p, s : p = Loaded(composed, game) /\ s = Applied(composed, p)
    BY <1>0
  <1>2. p.mid = game.panel.mid /\ \A ts, side : Fill(p, ts, side) = Fill(game.panel, ts, side)
    BY <1>1, JoinKeepsQuotes DEF StrategyInv
  <1>3. game.panel.market \in {"winner", "total", "spread"} /\ ArraysOfPanel(game.panel)
    BY PanelAssumption DEF PanelAssumption, StrategyInv
  <1>4. Sided(s, p)
    BY <1>1, <1>2, <1>3, SidesAreLabels DEF StrategyInv, ArraysOfPanel
  <1>5. booked = RunOne(p, s)
    BY <1>1 DEF StrategyInv
  <1> DEFINE first == FirstQualifyingBar(p, s)
             side == s.side[first]
             ts == p.ts[first] + EntryLatency
             fill == Fill(p, ts, side)
  <1>6. /\ first # 0 /\ fill # NoFill
        /\ booked = [bar |-> first, side |-> side, ts |-> ts, strike |-> fill.strike, allIn |-> fill.allIn,
                     payoff |-> SettlementPayoff(p, side, fill.strike), team |-> PrimaryTeam(side)]
    BY <1>5, Zenon DEF RunOne
  <1>7. first \in BarsOf(p)
    <2> DEFINE bars == {i \in s.entry : /\ p.elapsed[i] >= s.lo /\ p.elapsed[i] <= s.hi
                                        /\ StalenessMin(p, i) <= s.stale}
    <2>1. first = (IF bars = {} THEN 0 ELSE Min(bars))
      BY Zenon DEF FirstQualifyingBar
    <2>2. bars \subseteq BarsOf(p) /\ BarsOf(p) = 1..Len(p.mid) /\ Len(p.mid) \in Nat
      BY <1>2, <1>3, <1>4 DEF Sided, BarsOf, ArraysOfPanel
    <2> HIDE DEF bars, first
    <2>3. bars # {} => Min(bars) \in bars
      BY <2>2, LeastAndGreatestBar
    <2> QED BY <1>6, <2>1, <2>2, <2>3
  <1>8. side \in OverLabels \cup UnderLabels
    BY <1>4, <1>7 DEF Sided
  <1> HIDE DEF first, side, ts
  <1> QED BY <1>2, <1>6, <1>8

\* A backtest and an audit keep it.
LEMMA StrategyStep ==
    ASSUME StrategyInv, [StrategyNext]_strategyVars
    PROVE  StrategyInv'
  BY DEF StrategyInv, StrategyNext, Backtest, AuditReport, strategyVars

\* The labels of one orientation are filled alike and settled alike, so a label of each
\* is a full hedge.
LEMMA FilledSidesHedge ==
    ASSUME StrategyInv
    PROVE  SidesAreComplements
  <1> SUFFICES ASSUME booked # NoTrade
               PROVE  /\ \A home \in OverLabels, away \in UnderLabels :
                            LET p == game.panel
                                back == Fill(p, booked.ts, home)
                                fade == Fill(p, booked.ts, away)
                            IN /\ back.strike = fade.strike /\ back.strike = booked.strike
                               /\ SettlementPayoff(p, home, back.strike) + SettlementPayoff(p, away, fade.strike) = Dollar
                               /\ back.allIn + fade.allIn >= Dollar + 2 * HalfSpread
                               /\ booked.allIn \in {back.allIn, fade.allIn}
                      /\ (booked.team = "home") = (booked.side \in OverLabels)
    BY DEF SidesAreComplements, OverLabels, UnderLabels
  <1>1. /\ booked.side \in OverLabels \cup UnderLabels
        /\ Fill(game.panel, booked.ts, booked.side) # NoFill
        /\ booked.strike = Fill(game.panel, booked.ts, booked.side).strike
        /\ booked.allIn = Fill(game.panel, booked.ts, booked.side).allIn
        /\ booked.team = PrimaryTeam(booked.side)
    BY BookedIsAFill
  <1>2. /\ game.panel.market \in {"winner", "total", "spread"} /\ ArraysOfPanel(game.panel)
        /\ OutcomeOfPanel(game.panel) /\ NoNumber \notin Int \cup BOOLEAN
    BY PanelAssumption DEF PanelAssumption, StrategyInv
  <1>3a. PICK strike : \E quote \in Int : \A other : Fill(game.panel, booked.ts, other) = FillResult(strike, quote, other)
    BY <1>1, <1>2, FilledAtAQuote
  <1>3. PICK quote \in Int : \A other : Fill(game.panel, booked.ts, other) = FillResult(strike, quote, other)
    BY <1>3a
  <1>4. PICK yes, no \in [strike : {strike}, mid : Int, allIn : Int] :
             /\ yes.allIn + no.allIn >= Dollar + 2 * HalfSpread
             /\ \A s \in OverLabels : FillResult(strike, quote, s) = yes
             /\ \A s \in UnderLabels : FillResult(strike, quote, s) = no
    BY TwoSides
  <1>5. booked.strike = strike /\ booked.allIn \in {yes.allIn, no.allIn}
    BY <1>1, <1>3, <1>4
  <1>6. ASSUME NEW home \in OverLabels, NEW away \in UnderLabels
        PROVE  SettlementPayoff(game.panel, home, strike) + SettlementPayoff(game.panel, away, strike) = Dollar
    BY <1>2, OnePays
  <1>7. (booked.team = "home") = (booked.side \in OverLabels)
    <2>1. CASE booked.side \in OverLabels
      BY <1>1, <2>1, Oriented DEF PrimaryTeam, IsOverSide
    <2>2. CASE booked.side \in UnderLabels
      BY <1>1, <2>2, Oriented DEF PrimaryTeam, IsOverSide, OverLabels, UnderLabels
    <2> QED BY <1>1, <2>1, <2>2
  <1> QED BY <1>3, <1>4, <1>5, <1>6, <1>7

\* fill, _settlement_payoff and _primary_team orient a label the same way: in the minute
\* of a booked trade one bet on each side is a full hedge that costs a dollar and both half
\* spreads or more, for any panels, quotes, strikes and outcomes.
THEOREM SidesHedge == StrategySpec => []SidesAreComplements
  <1>1. StrategyInit => StrategyInv
    BY DEF StrategyInit, StrategyInv
  <1>2. StrategyInv /\ [StrategyNext]_strategyVars => StrategyInv'
    BY StrategyStep
  <1>3. StrategyInv => SidesAreComplements
    BY FilledSidesHedge
  <1> QED BY <1>1, <1>2, <1>3, PTL DEF StrategySpec

-----------------------------------------------------------------------------
(***************************************************************************)
(* The lab's trades know no future.  What a strategy sees of a panel cut   *)
(* at a bar is what it saw of the whole panel up to that bar (SameUpTo),   *)
(* so every signal, mask, side and fill is the same there, also of the     *)
(* cross-market join if both panels have a bar in the same minutes.        *)
(***************************************************************************)
\* The least and the greatest bar of some.
LEMMA LeastBar ==
    ASSUME NEW n \in Nat, NEW T \in SUBSET (1..n), T # {}
    PROVE  Min(T) \in T /\ \A y \in T : Min(T) <= y
  <1>1. \E x \in T : \A y \in T : x <= y
    BY LeastNumber
  <1> QED BY <1>1 DEF Min

LEMMA GreatestBar ==
    ASSUME NEW n \in Nat, NEW T \in SUBSET (1..n), T # {}
    PROVE  Max(T) \in T /\ \A y \in T : y <= Max(T)
  <1>1. Max(T) \in T
    BY LeastAndGreatestBar
  <1>2. \E x \in T : \A y \in T : x >= y
    <2> DEFINE U == {n - x : x \in T}
    <2>1. PICK u \in U : \A v \in U : u <= v
      <3>1. \A x \in T : n - x \in Nat
        OBVIOUS
      <3>2. U \in SUBSET Nat /\ U # {}
        BY <3>1
      <3> HIDE DEF U
      <3> QED BY <3>2, LeastNumber
    <2>2. PICK x \in T : u = n - x
      OBVIOUS
    <2>3. ASSUME NEW y \in T PROVE x >= y
      <3>1. n - x <= n - y
        BY <2>1, <2>2
      <3> QED BY <3>1
    <2> QED BY <2>3
  <1> QED BY <1>1, <1>2 DEF Max

\* A sequence cut is its first elements.
LEMMA CutIsPrefix ==
    ASSUME NEW S, NEW seq \in Seq(S), NEW t \in Nat
    PROVE  /\ CutSeq(seq, t) \in Seq(S)
           /\ Len(CutSeq(seq, t)) = IF t <= Len(seq) THEN t ELSE Len(seq)
           /\ \A i \in 1..Len(CutSeq(seq, t)) : CutSeq(seq, t)[i] = seq[i]
  <1>1. PICK m \in Nat : m = Len(seq)
    OBVIOUS
  <1>2. PICK k \in 0..m : k = IF t <= m THEN t ELSE m
    OBVIOUS
  <1>3. Min({t, m}) = k
    BY <1>2, Pairs
  <1>4. CutSeq(seq, t) = SubSeq(seq, 1, k)
    BY <1>1, <1>3 DEF CutSeq
  <1>5. \A i \in 1..k : seq[i] \in S
    BY <1>1
  <1>6. /\ SubSeq(seq, 1, k) \in Seq(S)
        /\ Len(SubSeq(seq, 1, k)) = IF 1 <= k THEN k - 1 + 1 ELSE 0
        /\ \A i \in 1..(k - 1 + 1) : SubSeq(seq, 1, k)[i] = seq[1 + i - 1]
    BY <1>5, SubSeqProperties
  <1>7. Len(SubSeq(seq, 1, k)) = k
    BY <1>6
  <1>8. ASSUME NEW i \in 1..k PROVE SubSeq(seq, 1, k)[i] = seq[i]
    <2>1. i \in 1..(k - 1 + 1) /\ 1 + i - 1 = i
      OBVIOUS
    <2> QED BY <1>6, <2>1
  <1> QED BY <1>1, <1>2, <1>4, <1>6, <1>7, <1>8

\* What a loaded panel is made of.
WholePanel(p) ==
    /\ {"mid", "ts", "ladder", "market", "won", "finalTotal", "finalMargin",
        "elapsed", "margin", "total", "rem", "subs", "div", "duration"} \subseteq DOMAIN p
    /\ ArraysOfPanel(p)
    /\ \A i, j \in DOMAIN p.ts : i < j => p.ts[i] < p.ts[j]
    /\ \A a \in {p.elapsed, p.margin, p.total} : a \in Seq(Int) /\ Len(a) = Len(p.mid)
    /\ \A a \in {p.rem, p.subs} : a \in Seq(Reading) /\ (a = <<>> \/ Len(a) = Len(p.mid))
    /\ \E S : p.div \in Seq(S) /\ (p.div = <<>> \/ Len(p.div) = Len(p.mid))

\* A bar's quotes, a function of the strike.
QuotesAt(p, i) == [s \in Strikes(p) |-> p.ladder[s][i]]

\* Bar i of q is bar i of p, the join aside; and so is every bar up to m.
SameMinute(q, p, i) ==
    /\ q.ts[i] = p.ts[i] /\ q.elapsed[i] = p.elapsed[i] /\ q.margin[i] = p.margin[i]
    /\ q.total[i] = p.total[i] /\ q.mid[i] = p.mid[i] /\ q.rem[i] = p.rem[i] /\ q.subs[i] = p.subs[i]
    /\ QuotesAt(q, i) = QuotesAt(p, i)
SameUpTo(q, p, m) ==
    /\ m \in 0..Len(p.mid) /\ Len(p.mid) \in Nat /\ Len(q.mid) = m
    /\ q.market = p.market /\ q.duration = p.duration /\ Strikes(q) = Strikes(p)
    /\ m > 0 => (q.rem = <<>>) = (p.rem = <<>>) /\ (q.subs = <<>>) = (p.subs = <<>>)
    /\ \A i \in 1..m : SameMinute(q, p, i)
SameJoin(q, p, m) == \A i \in 1..m : q.div[i] = p.div[i]

\* The arrays of a cut panel are its arrays cut.
LEMMA TruncatedArrays ==
    ASSUME NEW p, WholePanel(p), NEW t
    PROVE  LET q == TruncatePanel(p, t)
           IN /\ q.ts = CutSeq(p.ts, t) /\ q.elapsed = CutSeq(p.elapsed, t) /\ q.margin = CutSeq(p.margin, t)
              /\ q.total = CutSeq(p.total, t) /\ q.mid = CutSeq(p.mid, t) /\ q.rem = CutSeq(p.rem, t)
              /\ q.subs = CutSeq(p.subs, t) /\ q.div = CutSeq(p.div, t)
              /\ q.ladder = [s \in Strikes(p) |-> CutSeq(p.ladder[s], t)]
              /\ q.market = p.market /\ q.duration = p.duration
  BY DEF TruncatePanel, WholePanel

\* A panel cut after bar t is the panel up to t, or all of it.
LEMMA TruncatedIsUpTo ==
    ASSUME NEW p, WholePanel(p), NEW t \in Nat \ {0}
    PROVE  \E m \in 0..Len(p.mid) :
               /\ m = IF t <= Len(p.mid) THEN t ELSE Len(p.mid)
               /\ SameUpTo(TruncatePanel(p, t), p, m) /\ SameJoin(TruncatePanel(p, t), p, m)
  <1>1. PICK n \in Nat : n = Len(p.mid)
    BY DEF WholePanel, ArraysOfPanel
  <1>2. PICK m \in 0..n : m = IF t <= n THEN t ELSE n
    OBVIOUS
  <1>3. PICK q : q = TruncatePanel(p, t)
    OBVIOUS
  <1>4. /\ q.ts = CutSeq(p.ts, t) /\ q.elapsed = CutSeq(p.elapsed, t) /\ q.margin = CutSeq(p.margin, t)
        /\ q.total = CutSeq(p.total, t) /\ q.mid = CutSeq(p.mid, t) /\ q.rem = CutSeq(p.rem, t)
        /\ q.subs = CutSeq(p.subs, t) /\ q.div = CutSeq(p.div, t)
        /\ q.ladder = [s \in Strikes(p) |-> CutSeq(p.ladder[s], t)]
        /\ q.market = p.market /\ q.duration = p.duration
    BY <1>3, TruncatedArrays
  <1>5. ASSUME NEW S, NEW seq \in Seq(S), Len(seq) = n
        PROVE  Len(CutSeq(seq, t)) = m /\ \A i \in 1..m : CutSeq(seq, t)[i] = seq[i]
    BY <1>2, <1>5, CutIsPrefix
  <1>6. CutSeq(<<>>, t) = <<>>
    <2>1. PICK e \in Seq(Int) : e = <<>> /\ Len(e) = 0
      BY EmptySeq
    <2>2. CutSeq(e, t) \in Seq(Int) /\ Len(CutSeq(e, t)) = IF t <= Len(e) THEN t ELSE Len(e)
      BY CutIsPrefix
    <2>3. CutSeq(e, t) \in Seq(Int) /\ Len(CutSeq(e, t)) = 0
      BY <2>1, <2>2
    <2> QED BY <2>1, <2>3
  <1>7. /\ p.ts \in Seq(Int) /\ p.mid \in Seq(Reading) /\ Len(p.ts) = n
        /\ p.elapsed \in Seq(Int) /\ p.margin \in Seq(Int) /\ p.total \in Seq(Int)
        /\ Len(p.elapsed) = n /\ Len(p.margin) = n /\ Len(p.total) = n
        /\ p.rem \in Seq(Reading) /\ p.subs \in Seq(Reading)
        /\ (p.rem = <<>> \/ Len(p.rem) = n) /\ (p.subs = <<>> \/ Len(p.subs) = n)
    BY <1>1 DEF WholePanel, ArraysOfPanel
  <1>8. Len(q.mid) = m /\ \A i \in 1..m : /\ q.ts[i] = p.ts[i] /\ q.elapsed[i] = p.elapsed[i] /\ q.margin[i] = p.margin[i]
                                          /\ q.total[i] = p.total[i] /\ q.mid[i] = p.mid[i]
    <2>1. \A i \in 1..m : CutSeq(p.ts, t)[i] = p.ts[i]
      BY <1>5, <1>7
    <2>2. \A i \in 1..m : CutSeq(p.elapsed, t)[i] = p.elapsed[i]
      BY <1>5, <1>7
    <2>3. \A i \in 1..m : CutSeq(p.margin, t)[i] = p.margin[i]
      BY <1>5, <1>7
    <2>4. \A i \in 1..m : CutSeq(p.total, t)[i] = p.total[i]
      BY <1>5, <1>7
    <2>5. Len(CutSeq(p.mid, t)) = m /\ \A i \in 1..m : CutSeq(p.mid, t)[i] = p.mid[i]
      BY <1>1, <1>5, <1>7
    <2> QED BY <1>4, <2>1, <2>2, <2>3, <2>4, <2>5
  <1>9. ASSUME NEW S, NEW seq \in Seq(S), seq = <<>> \/ Len(seq) = n
        PROVE  (\A i \in 1..m : CutSeq(seq, t)[i] = seq[i]) /\ (m > 0 => (CutSeq(seq, t) = <<>>) = (seq = <<>>))
    <2>1. CASE seq = <<>>
      BY <1>6, <2>1
    <2>2. CASE Len(seq) = n
      <3>1. Len(CutSeq(seq, t)) = m /\ \A i \in 1..m : CutSeq(seq, t)[i] = seq[i]
        BY <1>5, <1>9, <2>2
      <3>2. m > 0 => CutSeq(seq, t) # <<>> /\ seq # <<>>
        BY <3>1, <2>2, <1>2
      <3> QED BY <3>1, <3>2
    <2> QED BY <1>9, <2>1, <2>2
  <1>10. /\ \A i \in 1..m : q.rem[i] = p.rem[i] /\ q.subs[i] = p.subs[i]
         /\ m > 0 => (q.rem = <<>>) = (p.rem = <<>>) /\ (q.subs = <<>>) = (p.subs = <<>>)
    <2>1. (\A i \in 1..m : CutSeq(p.rem, t)[i] = p.rem[i]) /\ (m > 0 => (CutSeq(p.rem, t) = <<>>) = (p.rem = <<>>))
      BY <1>7, <1>9
    <2>2. (\A i \in 1..m : CutSeq(p.subs, t)[i] = p.subs[i]) /\ (m > 0 => (CutSeq(p.subs, t) = <<>>) = (p.subs = <<>>))
      BY <1>7, <1>9
    <2> QED BY <1>4, <2>1, <2>2
  <1>11. SameJoin(q, p, m)
    <2>1. PICK S : p.div \in Seq(S) /\ (p.div = <<>> \/ Len(p.div) = n)
      BY <1>1 DEF WholePanel
    <2> QED BY <1>4, <1>9, <2>1 DEF SameJoin
  <1>12. Strikes(q) = Strikes(p)
    BY <1>4 DEF Strikes
  <1>13. ASSUME NEW i \in 1..m PROVE QuotesAt(q, i) = QuotesAt(p, i)
    <2>1. ASSUME NEW s \in Strikes(p) PROVE q.ladder[s][i] = p.ladder[s][i]
      <3>1. p.ladder[s] \in Seq(Reading) /\ Len(p.ladder[s]) = n
        BY <1>1 DEF WholePanel, ArraysOfPanel, Strikes
      <3>2. q.ladder[s] = CutSeq(p.ladder[s], t)
        BY <1>4
      <3> QED BY <1>5, <3>1, <3>2
    <2> QED BY <1>12, <2>1 DEF QuotesAt
  <1>14. SameUpTo(q, p, m)
    BY <1>1, <1>4, <1>8, <1>10, <1>12, <1>13 DEF SameUpTo, SameMinute
  <1> QED BY <1>1, <1>2, <1>3, <1>11, <1>14

\* So every signal at a bar up to m is the same.
LEMMA SameProjections ==
    ASSUME NEW q, NEW p, NEW m, SameUpTo(q, p, m), NEW i \in 1..m
    PROVE  /\ PaceProjection(q, i) = PaceProjection(p, i) /\ AnchoringGap(q, i) = AnchoringGap(p, i)
           /\ FairWp(q, i) = FairWp(p, i) /\ FamilyGap(q, i) = FamilyGap(p, i)
           /\ PriceLevel(q, i) = PriceLevel(p, i) /\ SpreadImpliedPwin(q, i) = SpreadImpliedPwin(p, i)
  <1>0. SameMinute(q, p, i) /\ q.market = p.market /\ q.duration = p.duration /\ Strikes(q) = Strikes(p)
    BY DEF SameUpTo
  <1>1. PaceProjection(q, i) = PaceProjection(p, i)
    BY <1>0 DEF SameMinute, PaceProjection
  <1>2. AnchoringGap(q, i) = AnchoringGap(p, i)
    BY <1>0, <1>1 DEF SameMinute, AnchoringGap
  <1>3. FairWp(q, i) = FairWp(p, i)
    <2> DEFINE Fair(x) == LET mi == Clip(Cardinality({b \in 1..16 : MARGIN_BINS[b] <= x}) - 1, 0, 14)
                          IN Clip(2 * Cent + (96 * Cent * mi) \div 14, 2 * Cent, 98 * Cent)
    <2>1. FairWp(q, i) = Fair(q.margin[i]) /\ FairWp(p, i) = Fair(p.margin[i])
      BY Zenon DEF FairWp
    <2> HIDE DEF Fair
    <2> QED BY <1>0, <2>1 DEF SameMinute
  <1>4. FamilyGap(q, i) = FamilyGap(p, i)
    BY <1>0, <1>2 DEF SameMinute, FamilyGap, GapNumpy
  <1>5. PriceLevel(q, i) = PriceLevel(p, i)
    <2>1. \A level : NearestStrike(q, level) = NearestStrike(p, level)
      BY <1>0, Zenon DEF NearestStrike
    <2> DEFINE StrikeAt(r) == IF Known(r.mid[i]) THEN NearestStrike(r, r.mid[i]) ELSE Min(Strikes(r))
    <2>2. /\ PriceLevel(q, i) = IF q.market = "winner" \/ Strikes(q) = {} THEN q.mid[i] ELSE QuotesAt(q, i)[StrikeAt(q)]
          /\ PriceLevel(p, i) = IF p.market = "winner" \/ Strikes(p) = {} THEN p.mid[i] ELSE QuotesAt(p, i)[StrikeAt(p)]
      BY Zenon DEF PriceLevel, ImpliedLevel, QuotesAt
    <2>3. StrikeAt(q) = StrikeAt(p)
      BY <1>0, <2>1, Zenon DEF SameMinute
    <2> HIDE DEF StrikeAt
    <2> QED BY <1>0, <2>2, <2>3 DEF SameMinute
  <1>6. SpreadImpliedPwin(q, i) = SpreadImpliedPwin(p, i)
    <2> DEFINE Finites(S, y) == {s \in S : Known(y[s])}
               Left(S, y) == {s \in Finites(S, y) : s <= 0}
               Right(S, y) == {s \in Finites(S, y) : s > 0}
               Pwin(S, y) ==
                   IF Cardinality(Finites(S, y)) < 2 THEN NoNumber
                   ELSE IF Left(S, y) = {} THEN y[Min(Finites(S, y))]
                   ELSE IF Right(S, y) = {} THEN y[Max(Finites(S, y))]
                   ELSE Clip(Interp(Max(Left(S, y)), y[Max(Left(S, y))], Min(Right(S, y)), y[Min(Right(S, y))]), 0, Dollar)
    <2>1. SpreadImpliedPwin(q, i) = Pwin(Strikes(q), QuotesAt(q, i)) /\ SpreadImpliedPwin(p, i) = Pwin(Strikes(p), QuotesAt(p, i))
      BY Zenon DEF SpreadImpliedPwin, QuotesAt
    <2> HIDE DEF Pwin
    <2> QED BY <1>0, <2>1 DEF SameMinute
  <1> QED BY <1>1, <1>2, <1>3, <1>4, <1>5, <1>6

\* A quote is stale for less than its bar's number of minutes, and as stale.
LEMMA SameStaleness ==
    ASSUME NEW q, NEW p, NEW m, SameUpTo(q, p, m), NEW i \in 1..m
    PROVE  StalenessMin(q, i) = StalenessMin(p, i) /\ StalenessMin(p, i) \in 0..(i - 1)
  <1>1. i \in Nat /\ m \in Nat /\ \A j \in 1..i : j \in 1..m
    BY DEF SameUpTo
  <1>2. ASSUME NEW j \in 1..i PROVE Changed(q, j) <=> Changed(p, j)
    <2>1. q.mid[j] = p.mid[j]
      BY <1>1 DEF SameUpTo, SameMinute
    <2>2. j # 1 => q.mid[j - 1] = p.mid[j - 1]
      <3>1. j # 1 => j - 1 \in 1..m
        BY <1>1
      <3> QED BY <3>1 DEF SameUpTo, SameMinute
    <2> QED BY <2>1, <2>2 DEF Changed
  <1> DEFINE J(r) == {j \in 1..i : Changed(r, j)}
  <1>3. J(q) = J(p)
    BY <1>2
  <1>4. J(p) \in SUBSET (1..i) /\ J(p) # {}
    <2>1. 1 \in J(p)
      BY <1>1 DEF Changed
    <2> QED BY <2>1
  <1>5. StalenessMin(q, i) = i - Max(J(q)) /\ StalenessMin(p, i) = i - Max(J(p))
    BY DEF StalenessMin
  <1> HIDE DEF J
  <1>6. Max(J(p)) \in 1..i
    BY <1>1, <1>4, LeastAndGreatestBar
  <1> QED BY <1>1, <1>3, <1>5, <1>6

\* The bars of a mask cut, and the first of them.
MaskUpTo(A, m) == A \cap (1..m)
LEMMA FirstOfCut ==
    ASSUME NEW n \in Nat, NEW A \in SUBSET (1..n), NEW m \in 0..n
    PROVE  /\ MaskUpTo(A, m) # {} => A # {} /\ Min(MaskUpTo(A, m)) = Min(A) /\ Min(A) \in 1..m
           /\ MaskUpTo(A, m) = {} => A = {} \/ Min(A) \in (m + 1)..n
  <1> DEFINE B == MaskUpTo(A, m)
  <1>0. B = A \cap (1..m) /\ B = MaskUpTo(A, m)
    BY DEF MaskUpTo
  <1> HIDE DEF B
  <1>1. CASE B # {}
    <2>1. A # {} /\ B \in SUBSET (1..n)
      BY <1>0, <1>1
    <2>2. Min(A) \in A /\ \A y \in A : Min(A) <= y
      BY <2>1, LeastBar
    <2>3. Min(B) \in B /\ \A y \in B : Min(B) <= y
      BY <1>1, <2>1, LeastBar
    <2>4. Min(A) \in 1..m
      <3>1. Min(A) \in 1..n /\ Min(B) \in 1..m /\ Min(B) \in A
        BY <1>0, <2>2, <2>3
      <3>2. Min(A) <= Min(B)
        BY <2>2, <3>1
      <3>3. PICK x \in 1..n, y \in 1..m : x = Min(A) /\ y = Min(B) /\ x <= y
        BY <3>1, <3>2
      <3> QED BY <3>3
    <2>5. Min(A) = Min(B)
      <3>1. Min(A) \in 1..n /\ Min(B) \in 1..n /\ Min(A) \in B /\ Min(B) \in A
        BY <1>0, <2>2, <2>3, <2>4
      <3>2. Min(A) <= Min(B) /\ Min(B) <= Min(A)
        BY <2>2, <2>3, <3>1
      <3>3. PICK x \in 1..n, y \in 1..n : x = Min(A) /\ y = Min(B) /\ x <= y /\ y <= x
        BY <3>1, <3>2
      <3> QED BY <3>3
    <2> QED BY <1>0, <1>1, <2>1, <2>4, <2>5
  <1>2. CASE B = {} /\ A # {}
    <2>1. Min(A) \in A
      BY <1>2, LeastBar
    <2>2. Min(A) \in (m + 1)..n
      <3>1. PICK x \in 1..n : x = Min(A) /\ x \notin 1..m
        BY <1>0, <1>2, <2>1
      <3> QED BY <3>1
    <2> QED BY <1>0, <1>2, <2>2
  <1>3. CASE A = {}
    BY <1>0, <1>3
  <1> QED BY <1>1, <1>2, <1>3

\* Cutting a mask and keeping its first bar only commute.
LEMMA FirstOnlyOfCut ==
    ASSUME NEW n \in Nat, NEW A \in SUBSET (1..n), NEW m \in 0..n
    PROVE  FirstOnly(MaskUpTo(A, m)) = MaskUpTo(FirstOnly(A), m)
  <1>1. /\ MaskUpTo(A, m) # {} => A # {} /\ Min(MaskUpTo(A, m)) = Min(A) /\ Min(A) \in 1..m
        /\ MaskUpTo(A, m) = {} => A = {} \/ Min(A) \in (m + 1)..n
    BY FirstOfCut
  <1> QED BY <1>1 DEF FirstOnly, MaskUpTo

\* s on the bars up to m is z there: what a strategy decides on a cut panel.
SameStrategy(s, z, q, p, m) ==
    /\ z.entry \subseteq BarsOf(p) /\ s.entry = z.entry \cap (1..m)
    /\ \A i \in 1..m : s.side[i] = z.side[i]
    /\ s.lo = z.lo /\ s.hi = z.hi
    /\ \A i \in 1..m : (StalenessMin(q, i) <= s.stale) <=> (StalenessMin(p, i) <= z.stale)

LEMMA SameBars ==
    ASSUME NEW q, NEW p, NEW m, SameUpTo(q, p, m), ArraysOfPanel(q), ArraysOfPanel(p)
    PROVE  /\ BarsOf(q) = 1..m /\ BarsOf(p) = 1..Len(p.mid) /\ m \in Nat /\ Len(p.mid) \in Nat
           /\ 1..m \subseteq BarsOf(p)
  BY DEF SameUpTo, ArraysOfPanel, BarsOf

\* A strategy whose mask and sides are the same bar by bar is the same up to m.
LEMMA SameByBar ==
    ASSUME NEW q, NEW p, NEW m, SameUpTo(q, p, m), ArraysOfPanel(q), ArraysOfPanel(p),
           NEW A, NEW B, B \subseteq BarsOf(p), A = B \cap (1..m),
           NEW f, NEW g, \A i \in 1..m : f[i] = g[i], NEW lo, NEW hi, NEW stale
    PROVE  SameStrategy(Composed(A, f, lo, hi, stale), Composed(B, g, lo, hi, stale), q, p, m)
  <1>1. /\ Composed(A, f, lo, hi, stale).entry = A /\ Composed(B, g, lo, hi, stale).entry = B
        /\ Composed(A, f, lo, hi, stale).side = f /\ Composed(B, g, lo, hi, stale).side = g
        /\ Composed(A, f, lo, hi, stale).lo = lo /\ Composed(B, g, lo, hi, stale).lo = lo
        /\ Composed(A, f, lo, hi, stale).hi = hi /\ Composed(B, g, lo, hi, stale).hi = hi
        /\ Composed(A, f, lo, hi, stale).stale = stale /\ Composed(B, g, lo, hi, stale).stale = stale
    BY DEF Composed
  <1>2. \A i \in 1..m : StalenessMin(q, i) = StalenessMin(p, i)
    BY SameStaleness
  <1> HIDE DEF Composed
  <1> QED BY <1>1, <1>2 DEF SameStrategy

LEMMA SameFairValueGap ==
    ASSUME NEW q, NEW p, NEW m, SameUpTo(q, p, m), ArraysOfPanel(q), ArraysOfPanel(p)
    PROVE  SameStrategy(FairValueGap(q), FairValueGap(p), q, p, m)
  <1> DEFINE Gap(r, i) == Minus(r.mid[i], FairWp(r, i))
             On(r, i) == Known(Gap(r, i)) /\ Magnitude(Gap(r, i)) >= 6 * Cent
             To(r, i) == IF Known(Gap(r, i)) /\ Gap(r, i) >= 6 * Cent THEN "short_home" ELSE "long_home"
             Mask(r) == {i \in BarsOf(r) : On(r, i)}
             LabTake(r) == [i \in BarsOf(r) |-> To(r, i)]
  <1>1. FairValueGap(q) = Composed(Mask(q), LabTake(q), 6, 42, 2) /\ FairValueGap(p) = Composed(Mask(p), LabTake(p), 6, 42, 2)
    BY Zenon DEF FairValueGap
  <1>2. ASSUME NEW i \in 1..m PROVE Gap(q, i) = Gap(p, i)
    <2>1. FairWp(q, i) = FairWp(p, i)
      BY SameProjections
    <2>2. q.mid[i] = p.mid[i]
      BY DEF SameUpTo, SameMinute
    <2> QED BY <2>1, <2>2
  <1> HIDE DEF Gap
  <1>3. \A i \in 1..m : On(q, i) = On(p, i) /\ To(q, i) = To(p, i)
    BY <1>2, Zenon
  <1> HIDE DEF On, To
  <1>4. Mask(p) \subseteq BarsOf(p) /\ Mask(q) = Mask(p) \cap (1..m) /\ \A i \in 1..m : LabTake(q)[i] = LabTake(p)[i]
    BY <1>3, SameBars
  <1> HIDE DEF Mask, LabTake
  <1> QED BY <1>1, <1>4, SameByBar

LEMMA SameTermStructureRv ==
    ASSUME NEW q, NEW p, NEW m, SameUpTo(q, p, m), ArraysOfPanel(q), ArraysOfPanel(p)
    PROVE  SameStrategy(TermStructureRv(q), TermStructureRv(p), q, p, m)
  <1> DEFINE Rem(r, i) == IF r.rem = <<>> THEN 80 ELSE Max({1, r.rem[i]})
             Gap(r, i) == Minus(NormCdf(r.margin[i], Rem(r, i)), r.mid[i])
             On(r, i) == Known(Gap(r, i)) /\ Magnitude(Gap(r, i)) >= 5 * Cent
             To(r, i) == IF Known(Gap(r, i)) /\ Gap(r, i) > 0 THEN "long_home" ELSE "short_home"
             Mask(r) == {i \in BarsOf(r) : On(r, i)}
             LabTake(r) == [i \in BarsOf(r) |-> To(r, i)]
  <1>1. TermStructureRv(q) = Composed(Mask(q), LabTake(q), 10, 42, 2) /\ TermStructureRv(p) = Composed(Mask(p), LabTake(p), 10, 42, 2)
    BY Zenon DEF TermStructureRv
  <1>2. ASSUME NEW i \in 1..m PROVE Gap(q, i) = Gap(p, i)
    <2>1. q.mid[i] = p.mid[i] /\ q.margin[i] = p.margin[i] /\ q.rem[i] = p.rem[i]
      BY DEF SameUpTo, SameMinute
    <2>2. (q.rem = <<>>) = (p.rem = <<>>)
      BY DEF SameUpTo
    <2>3. Rem(q, i) = Rem(p, i)
      BY <2>1, <2>2
    <2> HIDE DEF Rem
    <2> QED BY <2>1, <2>3
  <1> HIDE DEF Gap
  <1>3. \A i \in 1..m : On(q, i) = On(p, i) /\ To(q, i) = To(p, i)
    BY <1>2, Zenon
  <1> HIDE DEF On, To
  <1>4. Mask(p) \subseteq BarsOf(p) /\ Mask(q) = Mask(p) \cap (1..m) /\ \A i \in 1..m : LabTake(q)[i] = LabTake(p)[i]
    BY <1>3, SameBars
  <1> HIDE DEF Mask, LabTake
  <1> QED BY <1>1, <1>4, SameByBar

\* The first finite quote of a cut panel is that of the panel, once there is one.
LEMMA SameFirstQuote ==
    ASSUME NEW q, NEW p, NEW m, SameUpTo(q, p, m), ArraysOfPanel(q), ArraysOfPanel(p),
           NEW i \in 1..m, Known(p.mid[i])
    PROVE  /\ {j \in BarsOf(q) : Known(q.mid[j])} # {} /\ {j \in BarsOf(p) : Known(p.mid[j])} # {}
           /\ q.mid[Min({j \in BarsOf(q) : Known(q.mid[j])})] = p.mid[Min({j \in BarsOf(p) : Known(p.mid[j])})]
  <1> DEFINE LabQuoted(r) == {j \in BarsOf(r) : Known(r.mid[j])}
  <1>0. \A j \in 1..m : q.mid[j] = p.mid[j]
    BY DEF SameUpTo, SameMinute
  <1>1. PICK n \in Nat : n = Len(p.mid) /\ m \in 0..n /\ BarsOf(p) = 1..n /\ BarsOf(q) = 1..m
    BY SameBars DEF SameUpTo
  <1>2. LabQuoted(q) = LabQuoted(p) \cap (1..m) /\ LabQuoted(p) \in SUBSET (1..n) /\ i \in LabQuoted(q)
    BY <1>0, <1>1
  <1> HIDE DEF LabQuoted
  <1>3. LabQuoted(q) # {} /\ LabQuoted(p) # {} /\ Min(LabQuoted(q)) = Min(LabQuoted(p)) /\ Min(LabQuoted(p)) \in 1..m
    <2>1. LabQuoted(q) # {}
      BY <1>2
    <2>2. LabQuoted(q) = MaskUpTo(LabQuoted(p), m)
      BY <1>2 DEF MaskUpTo
    <2>3. n \in Nat /\ m \in 0..n /\ LabQuoted(p) \in SUBSET (1..n)
      BY <1>1, <1>2
    <2>4. MaskUpTo(LabQuoted(p), m) # {} => /\ LabQuoted(p) # {} /\ Min(MaskUpTo(LabQuoted(p), m)) = Min(LabQuoted(p))
                                         /\ Min(LabQuoted(p)) \in 1..m
      BY ONLY <2>3, FirstOfCut
    <2> QED BY <2>1, <2>2, <2>4
  <1>4. q.mid[Min(LabQuoted(q))] = p.mid[Min(LabQuoted(p))]
    BY <1>0, <1>3
  <1> USE DEF LabQuoted
  <1> QED BY <1>3, <1>4

LEMMA SameClosingLineValue ==
    ASSUME NEW q, NEW p, NEW m, SameUpTo(q, p, m), ArraysOfPanel(q), ArraysOfPanel(p)
    PROVE  SameStrategy(ClosingLineValue(q), ClosingLineValue(p), q, p, m)
  <1> DEFINE LabQuoted(r) == {j \in BarsOf(r) : Known(r.mid[j])}
             Drift(r, i) == IF LabQuoted(r) = {} THEN NoNumber ELSE Minus(r.mid[i], r.mid[Min(LabQuoted(r))])
             On(r, i) == Known(Drift(r, i)) /\ Magnitude(Drift(r, i)) >= 2 * Cent
             To(r, i) == IF Known(Drift(r, i)) /\ Drift(r, i) > 0 THEN "long_home" ELSE "short_home"
             Mask(r) == {i \in BarsOf(r) : On(r, i)}
             LabTake(r) == [i \in BarsOf(r) |-> To(r, i)]
  <1>1. /\ ClosingLineValue(q) = Composed(Mask(q), LabTake(q), 0, 48, Len(q.mid))
        /\ ClosingLineValue(p) = Composed(Mask(p), LabTake(p), 0, 48, Len(p.mid))
    BY Zenon DEF ClosingLineValue
  <1>2. ASSUME NEW i \in 1..m PROVE Drift(q, i) = Drift(p, i)
    <2>0. q.mid[i] = p.mid[i]
      BY DEF SameUpTo, SameMinute
    <2>1. CASE Known(p.mid[i])
      <3>1. LabQuoted(q) # {} /\ LabQuoted(p) # {} /\ q.mid[Min(LabQuoted(q))] = p.mid[Min(LabQuoted(p))]
        BY <2>1, SameFirstQuote
      <3> HIDE DEF LabQuoted
      <3> QED BY <2>0, <3>1
    <2>2. CASE ~Known(p.mid[i])
      <3> HIDE DEF LabQuoted
      <3> QED BY <2>0, <2>2 DEF Minus
    <2> QED BY <2>1, <2>2
  <1> HIDE DEF Drift, LabQuoted
  <1>3. \A i \in 1..m : On(q, i) = On(p, i) /\ To(q, i) = To(p, i)
    BY <1>2, Zenon
  <1> HIDE DEF On, To
  <1>4. Mask(p) \subseteq BarsOf(p) /\ Mask(q) = Mask(p) \cap (1..m) /\ \A i \in 1..m : LabTake(q)[i] = LabTake(p)[i]
    BY <1>3, SameBars
  <1> HIDE DEF Mask, LabTake
  <1>5. SameStrategy(Composed(Mask(q), LabTake(q), 0, 48, Len(q.mid)), Composed(Mask(p), LabTake(p), 0, 48, Len(q.mid)), q, p, m)
    BY <1>4, SameByBar
  \* every quote is fresh enough: none is older than the panel
  <1>6. \A i \in 1..m : (StalenessMin(q, i) <= Len(q.mid)) <=> (StalenessMin(p, i) <= Len(p.mid))
    <2>1. m \in 0..Len(p.mid) /\ Len(p.mid) \in Nat /\ Len(q.mid) = m
      BY DEF SameUpTo
    <2>2. \A i \in 1..m : StalenessMin(q, i) = StalenessMin(p, i) /\ StalenessMin(p, i) \in 0..(i - 1)
      BY SameStaleness
    <2> QED BY <2>1, <2>2
  <1> QED BY <1>1, <1>5, <1>6 DEF SameStrategy, Composed

LEMMA SameSubstitutionLatency ==
    ASSUME NEW q, NEW p, NEW m, SameUpTo(q, p, m), ArraysOfPanel(q), ArraysOfPanel(p)
    PROVE  SameStrategy(SubstitutionLatency(q), SubstitutionLatency(p), q, p, m)
  <1> DEFINE Sub(r, i) == IF r.subs = <<>> THEN 0 ELSE r.subs[i]
             On(r, i) == Known(Sub(r, i)) /\ Sub(r, i) # 0
             To(r, i) == IF Known(Sub(r, i)) /\ Sub(r, i) > 0 THEN "long_home" ELSE "short_home"
             Mask(r) == {i \in BarsOf(r) : On(r, i)}
             LabTake(r) == [i \in BarsOf(r) |-> To(r, i)]
  <1>1. /\ SubstitutionLatency(q) = Composed(Mask(q), LabTake(q), 0, 46, 2)
        /\ SubstitutionLatency(p) = Composed(Mask(p), LabTake(p), 0, 46, 2)
    BY Zenon DEF SubstitutionLatency
  <1>2. ASSUME NEW i \in 1..m PROVE Sub(q, i) = Sub(p, i)
    <2>1. q.subs[i] = p.subs[i]
      BY DEF SameUpTo, SameMinute
    <2>2. (q.subs = <<>>) = (p.subs = <<>>)
      BY DEF SameUpTo
    <2> QED BY <2>1, <2>2
  <1> HIDE DEF Sub
  <1>3. \A i \in 1..m : On(q, i) = On(p, i) /\ To(q, i) = To(p, i)
    BY <1>2, Zenon
  <1> HIDE DEF On, To
  <1>4. Mask(p) \subseteq BarsOf(p) /\ Mask(q) = Mask(p) \cap (1..m) /\ \A i \in 1..m : LabTake(q)[i] = LabTake(p)[i]
    BY <1>3, SameBars
  <1> HIDE DEF Mask, LabTake
  <1> QED BY <1>1, <1>4, SameByBar

LEMMA SameAnchoring ==
    ASSUME NEW q, NEW p, NEW m, SameUpTo(q, p, m), ArraysOfPanel(q), ArraysOfPanel(p), NEW over, NEW under
    PROVE  SameStrategy(BuildAnchoring(q, over, under), BuildAnchoring(p, over, under), q, p, m)
  <1> DEFINE On(r, i) == /\ r.elapsed[i] >= 12 /\ r.elapsed[i] <= 42 /\ StalenessMin(r, i) <= 2
                         /\ Known(FamilyGap(r, i)) /\ Magnitude(FamilyGap(r, i)) >= 6
             To(r, i) == IF Known(FamilyGap(r, i)) /\ FamilyGap(r, i) > 0 THEN over ELSE under
             Mask(r) == {i \in BarsOf(r) : On(r, i)}
             LabTake(r) == [i \in BarsOf(r) |-> To(r, i)]
  <1>1. /\ BuildAnchoring(q, over, under) = Composed(Mask(q), LabTake(q), 12, 42, 2)
        /\ BuildAnchoring(p, over, under) = Composed(Mask(p), LabTake(p), 12, 42, 2)
    BY Zenon DEF BuildAnchoring, EntryMask, MakeSide
  <1>2. \A i \in 1..m : /\ FamilyGap(q, i) = FamilyGap(p, i) /\ StalenessMin(q, i) = StalenessMin(p, i)
                        /\ q.elapsed[i] = p.elapsed[i]
    <2> TAKE i \in 1..m
    <2>1. FamilyGap(q, i) = FamilyGap(p, i)
      BY SameProjections
    <2>2. StalenessMin(q, i) = StalenessMin(p, i)
      BY SameStaleness
    <2>3. q.elapsed[i] = p.elapsed[i]
      BY DEF SameUpTo, SameMinute
    <2> QED BY <2>1, <2>2, <2>3
  <1>3. \A i \in 1..m : On(q, i) = On(p, i) /\ To(q, i) = To(p, i)
    BY <1>2, Zenon
  <1> HIDE DEF On, To
  <1>4. Mask(p) \subseteq BarsOf(p) /\ Mask(q) = Mask(p) \cap (1..m) /\ \A i \in 1..m : LabTake(q)[i] = LabTake(p)[i]
    BY <1>3, SameBars
  <1> HIDE DEF Mask, LabTake
  <1> QED BY <1>1, <1>4, SameByBar

\* The bars of a time window where a mask is on, the first only, and the sides by the price.
LEMMA SameTimeMask ==
    ASSUME NEW q, NEW p, NEW m, SameUpTo(q, p, m), ArraysOfPanel(q), ArraysOfPanel(p),
           NEW on, NEW off, \A i \in 1..m : on[i] = off[i]
    PROVE  LET A == {i \in TimeMask(q, 10, 42) : on[i]}
               B == {i \in TimeMask(p, 10, 42) : off[i]}
           IN FirstOnly(B) \subseteq BarsOf(p) /\ FirstOnly(A) = FirstOnly(B) \cap (1..m)
  <1> DEFINE A == {i \in TimeMask(q, 10, 42) : on[i]}
             B == {i \in TimeMask(p, 10, 42) : off[i]}
  <1>1. \A j \in 1..m : q.elapsed[j] = p.elapsed[j]
    BY DEF SameUpTo, SameMinute
  <1>2. PICK n \in Nat : n = Len(p.mid) /\ m \in 0..n /\ BarsOf(p) = 1..n /\ BarsOf(q) = 1..m
    BY SameBars DEF SameUpTo
  <1>3. B \in SUBSET (1..n) /\ A = B \cap (1..m)
    BY <1>1, <1>2 DEF TimeMask
  <1> HIDE DEF A, B
  <1>4. FirstOnly(A) = FirstOnly(B) \cap (1..m)
    <2>1. A = MaskUpTo(B, m)
      BY <1>3 DEF MaskUpTo
    <2>2. n \in Nat /\ m \in 0..n /\ B \in SUBSET (1..n)
      BY <1>2, <1>3
    <2>3. FirstOnly(MaskUpTo(B, m)) = MaskUpTo(FirstOnly(B), m)
      BY <2>2, FirstOnlyOfCut, Zenon
    <2> QED BY ONLY <2>1, <2>3 DEF MaskUpTo
  <1>5. FirstOnly(B) \subseteq 1..n
    <2>1. B # {} => Min(B) \in B
      BY <1>2, <1>3, LeastBar
    <2> QED BY <1>3, <2>1 DEF FirstOnly
  <1> USE DEF A, B
  <1> QED BY <1>2, <1>4, <1>5

LEMMA SamePrices ==
    ASSUME NEW q, NEW p, NEW m, SameUpTo(q, p, m)
    PROVE  q.market = p.market /\ \A i \in 1..m : PriceLevel(q, i) = PriceLevel(p, i)
  <1>1. q.market = p.market
    BY DEF SameUpTo
  <1>2. ASSUME NEW i \in 1..m PROVE PriceLevel(q, i) = PriceLevel(p, i)
    BY SameProjections
  <1> QED BY <1>1, <1>2

LEMMA SameFavoriteLongshot ==
    ASSUME NEW q, NEW p, NEW m, SameUpTo(q, p, m), ArraysOfPanel(q), ArraysOfPanel(p)
    PROVE  SameStrategy(FavoriteLongshot(q), FavoriteLongshot(p), q, p, m)
  <1> DEFINE On(r, i) == Known(PriceLevel(r, i)) /\ (PriceLevel(r, i) < 10 * Cent \/ PriceLevel(r, i) > 90 * Cent)
             To(r, i) == IF Known(PriceLevel(r, i)) /\ PriceLevel(r, i) > 90 * Cent THEN Back(r) ELSE Fade(r)
             Mask(r) == FirstOnly({i \in TimeMask(r, 10, 42) : On(r, i)})
             LabTake(r) == [i \in BarsOf(r) |-> To(r, i)]
  <1>1. /\ FavoriteLongshot(q) = Composed(Mask(q), LabTake(q), 10, 42, 2)
        /\ FavoriteLongshot(p) = Composed(Mask(p), LabTake(p), 10, 42, 2)
    BY Zenon DEF FavoriteLongshot
  <1>2. q.market = p.market /\ \A i \in 1..m : PriceLevel(q, i) = PriceLevel(p, i)
    BY SamePrices
  <1>3. Back(q) = Back(p) /\ Fade(q) = Fade(p)
    BY <1>2 DEF Back, Fade
  <1>4. \A i \in 1..m : On(q, i) = On(p, i) /\ To(q, i) = To(p, i)
    BY <1>2, <1>3, Zenon
  <1> HIDE DEF On, To
  <1>5. Mask(p) \subseteq BarsOf(p) /\ Mask(q) = Mask(p) \cap (1..m)
    <2> DEFINE on == [i \in BarsOf(q) |-> On(q, i)]
               off == [i \in BarsOf(p) |-> On(p, i)]
    <2>1. \A i \in 1..m : on[i] = off[i]
      BY <1>4, SameBars
    <2>2. /\ {i \in TimeMask(q, 10, 42) : on[i]} = {i \in TimeMask(q, 10, 42) : On(q, i)}
          /\ {i \in TimeMask(p, 10, 42) : off[i]} = {i \in TimeMask(p, 10, 42) : On(p, i)}
      BY Zenon DEF TimeMask
    <2> HIDE DEF on, off
    <2>3. FirstOnly({i \in TimeMask(p, 10, 42) : off[i]}) \subseteq BarsOf(p)
          /\ FirstOnly({i \in TimeMask(q, 10, 42) : on[i]}) = FirstOnly({i \in TimeMask(p, 10, 42) : off[i]}) \cap (1..m)
      BY <2>1, SameTimeMask
    <2> QED BY <2>2, <2>3
  <1>6. \A i \in 1..m : LabTake(q)[i] = LabTake(p)[i]
    BY <1>4, SameBars
  <1> HIDE DEF Mask, LabTake
  <1> QED BY <1>1, <1>5, <1>6, SameByBar

LEMMA SameCalibrationBucket ==
    ASSUME NEW q, NEW p, NEW m, SameUpTo(q, p, m), ArraysOfPanel(q), ArraysOfPanel(p)
    PROVE  SameStrategy(CalibrationBucket(q), CalibrationBucket(p), q, p, m)
  <1> DEFINE On(r, i) == Known(PriceLevel(r, i)) /\ (PriceLevel(r, i) < 5 * Cent \/ PriceLevel(r, i) >= 95 * Cent)
             To(r, i) == IF Known(PriceLevel(r, i)) /\ PriceLevel(r, i) >= 95 * Cent THEN Back(r) ELSE Fade(r)
             Mask(r) == FirstOnly({i \in TimeMask(r, 10, 42) : On(r, i)})
             LabTake(r) == [i \in BarsOf(r) |-> To(r, i)]
  <1>1. /\ CalibrationBucket(q) = Composed(Mask(q), LabTake(q), 10, 42, 2)
        /\ CalibrationBucket(p) = Composed(Mask(p), LabTake(p), 10, 42, 2)
    BY Zenon DEF CalibrationBucket
  <1>2. q.market = p.market /\ \A i \in 1..m : PriceLevel(q, i) = PriceLevel(p, i)
    BY SamePrices
  <1>3. Back(q) = Back(p) /\ Fade(q) = Fade(p)
    BY <1>2 DEF Back, Fade
  <1>4. \A i \in 1..m : On(q, i) = On(p, i) /\ To(q, i) = To(p, i)
    BY <1>2, <1>3, Zenon
  <1> HIDE DEF On, To
  <1>5. Mask(p) \subseteq BarsOf(p) /\ Mask(q) = Mask(p) \cap (1..m)
    <2> DEFINE on == [i \in BarsOf(q) |-> On(q, i)]
               off == [i \in BarsOf(p) |-> On(p, i)]
    <2>1. \A i \in 1..m : on[i] = off[i]
      BY <1>4, SameBars
    <2>2. /\ {i \in TimeMask(q, 10, 42) : on[i]} = {i \in TimeMask(q, 10, 42) : On(q, i)}
          /\ {i \in TimeMask(p, 10, 42) : off[i]} = {i \in TimeMask(p, 10, 42) : On(p, i)}
      BY Zenon DEF TimeMask
    <2> HIDE DEF on, off
    <2>3. FirstOnly({i \in TimeMask(p, 10, 42) : off[i]}) \subseteq BarsOf(p)
          /\ FirstOnly({i \in TimeMask(q, 10, 42) : on[i]}) = FirstOnly({i \in TimeMask(p, 10, 42) : off[i]}) \cap (1..m)
      BY <2>1, SameTimeMask
    <2> QED BY <2>2, <2>3
  <1>6. \A i \in 1..m : LabTake(q)[i] = LabTake(p)[i]
    BY <1>4, SameBars
  <1> HIDE DEF Mask, LabTake
  <1> QED BY <1>1, <1>5, <1>6, SameByBar

LEMMA SameXmarket ==
    ASSUME NEW q, NEW p, NEW m, SameUpTo(q, p, m), SameJoin(q, p, m), ArraysOfPanel(q), ArraysOfPanel(p)
    PROVE  SameStrategy(XmarketConsistency(q), XmarketConsistency(p), q, p, m)
  <1> DEFINE On(r, i) == Known(r.div[i]) /\ Magnitude(r.div[i]) >= 8 * Cent
             To(r, i) == IF Known(r.div[i]) /\ r.div[i] < 0 THEN "cover_home" ELSE "cover_away"
             Mask(r) == {i \in BarsOf(r) : On(r, i)}
             LabTake(r) == [i \in BarsOf(r) |-> To(r, i)]
  <1>1. /\ XmarketConsistency(q) = Composed(Mask(q), LabTake(q), 10, 42, 2)
        /\ XmarketConsistency(p) = Composed(Mask(p), LabTake(p), 10, 42, 2)
    BY Zenon DEF XmarketConsistency
  <1>2. \A i \in 1..m : q.div[i] = p.div[i]
    BY DEF SameJoin
  <1>3. \A i \in 1..m : On(q, i) = On(p, i) /\ To(q, i) = To(p, i)
    BY <1>2, Zenon
  <1> HIDE DEF On, To
  <1>4. Mask(p) \subseteq BarsOf(p) /\ Mask(q) = Mask(p) \cap (1..m) /\ \A i \in 1..m : LabTake(q)[i] = LabTake(p)[i]
    BY <1>3, SameBars
  <1> HIDE DEF Mask, LabTake
  <1> QED BY <1>1, <1>4, SameByBar

Names == {"fair_value_gap", "term_structure_rv", "closing_line_value", "substitution_latency", "favorite_longshot",
          "calibration_bucket", "totals_anchoring", "spread_anchoring", "xmarket_consistency"}
\* Every shipped strategy decides on the panel up to a bar what it decides on the panel there.
LEMMA SameApplied ==
    ASSUME NEW name \in Names, NEW q, NEW p, NEW m, SameUpTo(q, p, m), ArraysOfPanel(q), ArraysOfPanel(p),
           name = "xmarket_consistency" => SameJoin(q, p, m)
    PROVE  SameStrategy(Applied(name, q), Applied(name, p), q, p, m)
  <1>1. CASE name = "fair_value_gap"
    BY <1>1, SameFairValueGap DEF Applied
  <1>2. CASE name = "term_structure_rv"
    BY <1>2, SameTermStructureRv DEF Applied
  <1>3. CASE name = "closing_line_value"
    BY <1>3, SameClosingLineValue DEF Applied
  <1>4. CASE name = "substitution_latency"
    BY <1>4, SameSubstitutionLatency DEF Applied
  <1>5. CASE name = "favorite_longshot"
    BY <1>5, SameFavoriteLongshot DEF Applied
  <1>6. CASE name = "calibration_bucket"
    BY <1>6, SameCalibrationBucket DEF Applied
  <1>7. CASE name = "totals_anchoring"
    BY <1>7, SameAnchoring DEF Applied, TotalsAnchoring
  <1>8. CASE name = "spread_anchoring"
    BY <1>8, SameAnchoring DEF Applied, SpreadAnchoring
  <1>9. CASE name = "xmarket_consistency"
    BY <1>9, SameXmarket DEF Applied
  <1> QED BY <1>1, <1>2, <1>3, <1>4, <1>5, <1>6, <1>7, <1>8, <1>9 DEF Names

\* So the first bar that qualifies is the same, if it is a bar up to m, and none does otherwise.
LEMMA SameFirstBar ==
    ASSUME NEW q, NEW p, NEW m, SameUpTo(q, p, m), ArraysOfPanel(q), ArraysOfPanel(p),
           NEW s, NEW z, SameStrategy(s, z, q, p, m)
    PROVE  \E f \in 0..Len(p.mid) : /\ FirstQualifyingBar(p, z) = f
                                    /\ FirstQualifyingBar(q, s) = IF f \in 1..m THEN f ELSE 0
  <1> DEFINE A == {i \in s.entry : q.elapsed[i] >= s.lo /\ q.elapsed[i] <= s.hi /\ StalenessMin(q, i) <= s.stale}
             B == {i \in z.entry : p.elapsed[i] >= z.lo /\ p.elapsed[i] <= z.hi /\ StalenessMin(p, i) <= z.stale}
  <1>1. /\ FirstQualifyingBar(q, s) = IF A = {} THEN 0 ELSE Min(A)
        /\ FirstQualifyingBar(p, z) = IF B = {} THEN 0 ELSE Min(B)
    BY Zenon DEF FirstQualifyingBar
  <1>2. PICK n \in Nat : n = Len(p.mid) /\ m \in 0..n /\ BarsOf(p) = 1..n /\ BarsOf(q) = 1..m
    BY SameBars DEF SameUpTo
  <1>3. \A i \in 1..m : q.elapsed[i] = p.elapsed[i]
    BY DEF SameUpTo, SameMinute
  <1>4. /\ z.entry \subseteq 1..n /\ s.entry = z.entry \cap (1..m) /\ s.lo = z.lo /\ s.hi = z.hi
        /\ \A i \in 1..m : (StalenessMin(q, i) <= s.stale) <=> (StalenessMin(p, i) <= z.stale)
    BY <1>2 DEF SameStrategy
  <1>5. B \in SUBSET (1..n) /\ A = B \cap (1..m)
    BY <1>3, <1>4
  <1> HIDE DEF A, B
  <1>6. /\ A # {} => B # {} /\ Min(A) = Min(B) /\ Min(B) \in 1..m
        /\ A = {} => B = {} \/ Min(B) \in (m + 1)..n
    <2>1. A = MaskUpTo(B, m)
      BY <1>5 DEF MaskUpTo
    <2>2. n \in Nat /\ m \in 0..n /\ B \in SUBSET (1..n)
      BY <1>2, <1>5
    <2>3. /\ MaskUpTo(B, m) # {} => B # {} /\ Min(MaskUpTo(B, m)) = Min(B) /\ Min(B) \in 1..m
          /\ MaskUpTo(B, m) = {} => B = {} \/ Min(B) \in (m + 1)..n
      BY ONLY <2>2, FirstOfCut
    <2> QED BY <2>1, <2>3
  <1>7. B # {} => Min(B) \in 1..n
    BY <1>2, <1>5, LeastBar
  <1>8. PICK f \in 0..n : f = IF B = {} THEN 0 ELSE Min(B)
    BY <1>7
  <1>9. (IF A = {} THEN 0 ELSE Min(A)) = IF f \in 1..m THEN f ELSE 0
    BY <1>2, <1>6, <1>8
  <1> QED BY <1>1, <1>2, <1>8, <1>9

\* A sample taken no later than bar m is taken from the bars up to m.
LEMMA SameSample ==
    ASSUME NEW q, NEW p, NEW m, SameUpTo(q, p, m), m > 0, ArraysOfPanel(q), ArraysOfPanel(p),
           \A i, j \in DOMAIN p.ts : i < j => p.ts[i] < p.ts[j],
           NEW ts \in Int, ts <= p.ts[m], NEW a, NEW b, \A j \in 1..m : a[j] = b[j]
    PROVE  InterpAt(ts, q, a) = InterpAt(ts, p, b)
  <1> DEFINE J(r, x) == {j \in BarsOf(r) : Known(x[j]) /\ r.ts[j] <= ts}
  <1>1. PICK n \in Nat : n = Len(p.mid) /\ m \in 1..n /\ BarsOf(p) = 1..n /\ BarsOf(q) = 1..m
    <2>1. PICK n \in Nat : n = Len(p.mid) /\ BarsOf(p) = 1..n /\ BarsOf(q) = 1..m
      BY SameBars
    <2>2. m \in 0..n
      BY <2>1 DEF SameUpTo
    <2> QED BY <2>1, <2>2
  <1>2. /\ InterpAt(ts, q, a) = IF J(q, a) = {} THEN NoNumber ELSE a[Max(J(q, a))]
        /\ InterpAt(ts, p, b) = IF J(p, b) = {} THEN NoNumber ELSE b[Max(J(p, b))]
    BY Zenon DEF InterpAt
  <1>3. \A j \in 1..m : q.ts[j] = p.ts[j]
    BY DEF SameUpTo, SameMinute
  <1>4. ASSUME NEW j \in 1..n, p.ts[j] <= ts PROVE j \in 1..m
    <2>1. p.ts \in Seq(Int) /\ DOMAIN p.ts = 1..n
      BY <1>1 DEF ArraysOfPanel
    <2>2. p.ts[j] \in Int /\ p.ts[m] \in Int
      BY <1>1, <2>1
    <2>3. ~(m < j)
      <3>1. m \in DOMAIN p.ts /\ j \in DOMAIN p.ts
        BY <1>1, <2>1, Zenon
      <3>2. m < j => p.ts[m] < p.ts[j]
        BY <3>1, Zenon
      <3>3. p.ts[j] <= ts /\ ts <= p.ts[m] /\ ts \in Int
        BY <1>4, Zenon
      <3> QED BY ONLY <2>2, <3>2, <3>3
    <2> QED BY <1>1, <2>3
  <1>5. J(q, a) = J(p, b) /\ J(p, b) \in SUBSET (1..m)
    BY <1>1, <1>3, <1>4
  <1> HIDE DEF J
  <1>6. J(p, b) # {} => Max(J(p, b)) \in 1..m
    <2>1. m \in Nat
      BY <1>1
    <2> QED BY <2>1, <1>5, LeastAndGreatestBar
  <1> QED BY <1>2, <1>5, <1>6

\* So the fill at a time no later than bar m is the same.
LEMMA SameFill ==
    ASSUME NEW q, NEW p, NEW m, SameUpTo(q, p, m), m > 0, ArraysOfPanel(q), ArraysOfPanel(p),
           \A i, j \in DOMAIN p.ts : i < j => p.ts[i] < p.ts[j],
           NEW ts \in Int, ts <= p.ts[m], NEW side, NoNumber \notin Int
    PROVE  Fill(q, ts, side) = Fill(p, ts, side)
  <1>1. PICK level : level = InterpAt(ts, p, p.mid)
    OBVIOUS
  <1>2. InterpAt(ts, q, q.mid) = level
    <2>1. \A j \in 1..m : q.mid[j] = p.mid[j]
      BY DEF SameUpTo, SameMinute
    <2> QED BY <1>1, <2>1, SameSample
  <1>3. q.market = p.market /\ Strikes(q) = Strikes(p)
    BY DEF SameUpTo
  <1>4. CASE ~Known(level)
    BY <1>1, <1>2, <1>4 DEF Fill
  <1>5. CASE Known(level) /\ (p.market = "winner" \/ Strikes(p) = {})
    BY <1>1, <1>2, <1>3, <1>5 DEF Fill
  <1>6. CASE Known(level) /\ p.market # "winner" /\ Strikes(p) # {}
    <2>1. level \in Int
      <3> DEFINE J == {j \in BarsOf(p) : Known(p.mid[j]) /\ p.ts[j] <= ts}
      <3>1. level = IF J = {} THEN NoNumber ELSE p.mid[Max(J)]
        BY <1>1 DEF InterpAt
      <3>2. J # {}
        BY <1>6, <3>1 DEF Known
      <3>3. PICK n \in Nat : n = Len(p.mid) /\ BarsOf(p) = 1..n
        BY SameBars
      <3>4. J \in SUBSET (1..n)
        BY <3>3
      <3> HIDE DEF J
      <3>5. Max(J) \in 1..n
        BY <3>2, <3>3, <3>4, LeastAndGreatestBar
      <3>6. p.mid[Max(J)] \in Reading
        BY <3>3, <3>5 DEF ArraysOfPanel
      <3> QED BY <1>6, <3>1, <3>2, <3>6 DEF Reading, Known
    <2>2. PICK strike : strike = NearestStrike(p, level)
      OBVIOUS
    <2>3. NearestStrike(q, level) = strike
      BY <1>3, <2>2, Zenon DEF NearestStrike
    <2>4. strike \in Strikes(p)
      BY <1>6, <2>1, <2>2, NearestIsAStrike DEF ArraysOfPanel, Strikes
    <2>5. \A j \in 1..m : q.ladder[strike][j] = p.ladder[strike][j]
      <3> TAKE j \in 1..m
      <3>1. QuotesAt(q, j) = QuotesAt(p, j)
        BY DEF SameUpTo, SameMinute
      <3>2. QuotesAt(q, j)[strike] = q.ladder[strike][j] /\ QuotesAt(p, j)[strike] = p.ladder[strike][j]
        BY <1>3, <2>4 DEF QuotesAt
      <3> QED BY <3>1, <3>2
    <2>6. InterpAt(ts, q, q.ladder[strike]) = InterpAt(ts, p, p.ladder[strike])
      BY <2>5, SameSample
    <2> QED BY <1>1, <1>2, <1>3, <1>6, <2>2, <2>3, <2>6, Zenon DEF Fill
  <1> QED BY <1>4, <1>5, <1>6

\* What Strategy.run books, in terms of its first bar and its fill.
LEMMA TradeOfBar ==
    ASSUME NEW p, NEW s, NEW f, f = FirstQualifyingBar(p, s), NEW fill, fill = Fill(p, p.ts[f] + EntryLatency, s.side[f])
    PROVE  /\ f = 0 => RunOne(p, s) = NoTrade
           /\ f # 0 /\ fill = NoFill => RunOne(p, s) = NoTrade
           /\ f # 0 /\ fill # NoFill =>
                /\ RunOne(p, s) # NoTrade /\ RunOne(p, s).ts = p.ts[f] + EntryLatency
                /\ Decision(RunOne(p, s)) = <<f, s.side[f], p.ts[f] + EntryLatency, fill.strike, fill.allIn>>
  <1>1. RunOne(p, s) = IF f = 0 THEN NoTrade ELSE IF fill = NoFill THEN NoTrade
                       ELSE [bar |-> f, side |-> s.side[f], ts |-> p.ts[f] + EntryLatency, strike |-> fill.strike,
                             allIn |-> fill.allIn, payoff |-> SettlementPayoff(p, s.side[f], fill.strike),
                             team |-> PrimaryTeam(s.side[f])]
    BY Zenon DEF RunOne
  <1>2. ASSUME f # 0, fill # NoFill PROVE RunOne(p, s).bar = f /\ NoTrade.bar = 0
    BY <1>1, <1>2 DEF NoTrade
  <1> QED BY <1>1, <1>2 DEF Decision

\* The trade on the panel up to m is the trade, once it is due; and no other is.
SameTrade(live, full, upTo) ==
    LET due == full # NoTrade /\ full.ts <= upTo
    IN /\ due => Decision(live) = Decision(full)
       /\ live # NoTrade /\ live.ts <= upTo => due
LEMMA TradeIsKnown ==
    ASSUME NEW q, NEW p, NEW m, SameUpTo(q, p, m), m > 0, ArraysOfPanel(q), ArraysOfPanel(p),
           \A i, j \in DOMAIN p.ts : i < j => p.ts[i] < p.ts[j],
           NEW s, NEW z, SameStrategy(s, z, q, p, m), NoNumber \notin Int
    PROVE  SameTrade(RunOne(q, s), RunOne(p, z), p.ts[m])
  <1>1. PICK n \in Nat : n = Len(p.mid) /\ m \in 1..n /\ BarsOf(p) = 1..n /\ BarsOf(q) = 1..m
    <2>1. PICK n \in Nat : n = Len(p.mid) /\ BarsOf(p) = 1..n /\ BarsOf(q) = 1..m
      BY SameBars
    <2>2. m \in 0..n
      BY <2>1 DEF SameUpTo
    <2> QED BY <2>1, <2>2
  <1>2. PICK f \in 0..n : FirstQualifyingBar(p, z) = f /\ FirstQualifyingBar(q, s) = IF f \in 1..m THEN f ELSE 0
    BY <1>1, SameFirstBar
  <1>3. p.ts \in Seq(Int) /\ DOMAIN p.ts = 1..n /\ \A i \in 1..n : p.ts[i] \in Int
    BY <1>1 DEF ArraysOfPanel
  <1>4. CASE f = 0
    <2>1. RunOne(p, z) = NoTrade /\ RunOne(q, s) = NoTrade
      BY <1>2, <1>4, TradeOfBar
    <2> QED BY <2>1 DEF SameTrade
  <1>5. CASE f \in 1..m
    <2>1. PICK ts \in Int : ts = p.ts[f] + EntryLatency
      BY <1>1, <1>3, <1>5 DEF EntryLatency
    <2>2. q.ts[f] = p.ts[f] /\ s.side[f] = z.side[f] /\ f # 0
      BY <1>5 DEF SameUpTo, SameMinute, SameStrategy
    <2>3. PICK full : full = Fill(p, p.ts[f] + EntryLatency, z.side[f])
      OBVIOUS
    <2>4. PICK live : live = Fill(q, q.ts[f] + EntryLatency, s.side[f])
      OBVIOUS
    <2>5. ts <= p.ts[m] => live = full
      BY <2>1, <2>2, <2>3, <2>4, SameFill
    <2>6. /\ full = NoFill => RunOne(p, z) = NoTrade
          /\ full # NoFill => /\ RunOne(p, z) # NoTrade /\ RunOne(p, z).ts = ts
                              /\ Decision(RunOne(p, z)) = <<f, z.side[f], ts, full.strike, full.allIn>>
      BY <1>2, <2>1, <2>2, <2>3, TradeOfBar
    <2>7. /\ live = NoFill => RunOne(q, s) = NoTrade
          /\ live # NoFill => /\ RunOne(q, s) # NoTrade /\ RunOne(q, s).ts = ts
                              /\ Decision(RunOne(q, s)) = <<f, z.side[f], ts, live.strike, live.allIn>>
      BY <1>2, <1>5, <2>1, <2>2, <2>4, TradeOfBar
    <2> HIDE DEF Decision
    <2> QED BY <2>5, <2>6, <2>7 DEF SameTrade
  <1>6. CASE f \in 1..n /\ f \notin 1..m
    <2>1. RunOne(q, s) = NoTrade
      BY <1>2, <1>6, TradeOfBar
    <2>2. p.ts[m] < p.ts[f]
      BY <1>1, <1>3, <1>6
    <2>3. PICK full : full = Fill(p, p.ts[f] + EntryLatency, z.side[f])
      OBVIOUS
    <2>4. RunOne(p, z) = NoTrade \/ RunOne(p, z).ts = p.ts[f] + EntryLatency
      BY <1>2, <1>6, <2>3, TradeOfBar
    <2>5. ~(p.ts[f] + EntryLatency <= p.ts[m])
      BY <1>1, <1>3, <1>6, <2>2 DEF EntryLatency
    <2> QED BY <2>1, <2>4, <2>5 DEF SameTrade
  <1> QED BY <1>1, <1>4, <1>5, <1>6

\* A cut panel's arrays are of one length.
LEMMA TruncatedIsWhole ==
    ASSUME NEW p, WholePanel(p), NEW t \in Nat \ {0}
    PROVE  ArraysOfPanel(TruncatePanel(p, t))
  <1>1. PICK q : q = TruncatePanel(p, t)
    OBVIOUS
  <1>2. /\ q.ts = CutSeq(p.ts, t) /\ q.mid = CutSeq(p.mid, t)
        /\ q.ladder = [s \in Strikes(p) |-> CutSeq(p.ladder[s], t)]
    BY <1>1, TruncatedArrays
  <1>3. p.ts \in Seq(Int) /\ p.mid \in Seq(Reading) /\ Len(p.ts) = Len(p.mid)
    BY DEF WholePanel, ArraysOfPanel
  <1>4. PICK k : k = IF t <= Len(p.mid) THEN t ELSE Len(p.mid)
    OBVIOUS
  <1>5. q.ts \in Seq(Int) /\ Len(q.ts) = k
    BY <1>2, <1>3, <1>4, CutIsPrefix
  <1>6. q.mid \in Seq(Reading) /\ Len(q.mid) = k
    BY <1>2, <1>3, <1>4, CutIsPrefix
  <1>7. DOMAIN q.ladder = Strikes(p)
    BY <1>2
  <1>8. ASSUME NEW s \in Strikes(p) PROVE s \in Int /\ q.ladder[s] \in Seq(Reading) /\ Len(q.ladder[s]) = k
    <2>1. s \in Int /\ p.ladder[s] \in Seq(Reading) /\ Len(p.ladder[s]) = Len(p.mid)
      BY DEF WholePanel, ArraysOfPanel, Strikes
    <2>2. q.ladder[s] = CutSeq(p.ladder[s], t)
      BY <1>2
    <2> QED BY <1>4, <2>1, <2>2, CutIsPrefix
  <1> QED BY <1>1, <1>5, <1>6, <1>7, <1>8 DEF ArraysOfPanel

(***************************************************************************)
(* The join with the winner's panel.                                       *)
(***************************************************************************)
\* JoinedFields and cut, or cut and joined.
LEMMA JoinedFields ==
    ASSUME NEW g, {"mid", "ts", "ladder", "market", "elapsed", "margin", "total", "rem", "subs", "div", "duration"} \subseteq DOMAIN g.panel
    PROVE  LET p == g.panel  a == AttachWinnerMid(g)
           IN /\ a.ts = p.ts /\ a.elapsed = p.elapsed /\ a.margin = p.margin /\ a.total = p.total /\ a.mid = p.mid
              /\ a.rem = p.rem /\ a.subs = p.subs /\ a.ladder = p.ladder /\ a.market = p.market /\ a.duration = p.duration
              /\ a.div = [i \in BarsOf(p) |-> Minus(SpreadImpliedPwin(p, i), WinnerPwin(p, g.winner, i))]
              /\ DOMAIN a = DOMAIN p
  BY DEF AttachWinnerMid

LEMMA JoinedIsWhole ==
    ASSUME NEW g, WholePanel(g.panel)
    PROVE  WholePanel(AttachWinnerMid(g)) /\ Len(AttachWinnerMid(g).mid) = Len(g.panel.mid) /\ AttachWinnerMid(g).ts = g.panel.ts
  <1>1. PICK p : p = g.panel
    OBVIOUS
  <1>2. PICK a : a = AttachWinnerMid(g)
    OBVIOUS
  <1>3. {"mid", "ts", "ladder", "market", "elapsed", "margin", "total", "rem", "subs", "div", "duration"} \subseteq DOMAIN g.panel
    BY DEF WholePanel
  <1>4. /\ a.ts = p.ts /\ a.elapsed = p.elapsed /\ a.margin = p.margin /\ a.total = p.total /\ a.mid = p.mid
        /\ a.rem = p.rem /\ a.subs = p.subs /\ a.ladder = p.ladder /\ a.market = p.market /\ a.duration = p.duration
        /\ DOMAIN a = DOMAIN p
    BY <1>1, <1>2, <1>3, JoinedFields
  <1>5. a.div = [i \in BarsOf(p) |-> Minus(SpreadImpliedPwin(p, i), WinnerPwin(p, g.winner, i))]
    BY <1>1, <1>2, <1>3, JoinedFields
  <1>6. PICK n \in Nat : n = Len(p.mid) /\ BarsOf(p) = 1..n
    <2>1. p.mid \in Seq(Reading)
      BY <1>1 DEF WholePanel, ArraysOfPanel
    <2> QED BY <2>1 DEF BarsOf
  <1>7. \E S : a.div \in Seq(S) /\ Len(a.div) = n
    <2> DEFINE Div(i) == Minus(SpreadImpliedPwin(p, i), WinnerPwin(p, g.winner, i))
               S == {Div(i) : i \in 1..n}
    <2>1. a.div = [i \in 1..n |-> Div(i)]
      BY <1>5, <1>6
    <2>2. \A i \in 1..n : Div(i) \in S
      OBVIOUS
    <2> HIDE DEF Div, S
    <2>3. a.div \in [1..n -> S]
      BY <2>1, <2>2
    <2>4. a.div \in Seq(S) /\ Len(a.div) = n
      BY <2>3, <1>6
    <2> QED BY <2>4
  <1>8. ArraysOfPanel(a)
    BY <1>1, <1>4 DEF WholePanel, ArraysOfPanel
  <1> HIDE DEF ArraysOfPanel
  <1>9. /\ \A i, j \in DOMAIN p.ts : i < j => p.ts[i] < p.ts[j]
        /\ \A x \in {p.elapsed, p.margin, p.total} : x \in Seq(Int) /\ Len(x) = Len(p.mid)
        /\ \A x \in {p.rem, p.subs} : x \in Seq(Reading) /\ (x = <<>> \/ Len(x) = Len(p.mid))
    BY <1>1 DEF WholePanel
  <1>10. {"mid", "ts", "ladder", "market", "won", "finalTotal", "finalMargin",
        "elapsed", "margin", "total", "rem", "subs", "div", "duration"} \subseteq DOMAIN a
    BY <1>1, <1>4 DEF WholePanel
  <1>11. WholePanel(a)
    BY <1>4, <1>6, <1>7, <1>8, <1>9, <1>10 DEF WholePanel
  <1> QED BY <1>1, <1>2, <1>4, <1>11

\* A downward closed set of bars has as many bars as its last one says.
LEMMA BarsBefore ==
    ASSUME NEW n \in Nat, NEW J \in SUBSET (1..n), NEW c, c = Cardinality(J)
    PROVE  c \in 0..n /\ \A j \in 1..n : 1..j \subseteq J => j <= c
  <1>1. IsFiniteSet(1..n) /\ Cardinality(1..n) = n
    BY FS_Interval
  <1>2. IsFiniteSet(J) /\ Cardinality(J) <= n /\ Cardinality(J) \in Nat
    BY <1>1, FS_Subset, FS_CardinalityType
  <1>3. ASSUME NEW j \in 1..n, 1..j \subseteq J PROVE j <= c
    <2>1. Cardinality(1..j) = j
      BY FS_Interval
    <2> QED BY <1>2, <1>3, <2>1, FS_Subset
  <1> QED BY <1>2, <1>3

\* The winner's price a spread bar is joined with is one the winner's book showed by then.
LEMMA SameWinnerPwin ==
    ASSUME NEW g, WholePanel(g.panel), InStep(g), NEW t \in BarsOf(g.panel), NEW i \in 1..t,
           NEW q, q.elapsed[i] = g.panel.elapsed[i]
    PROVE  WinnerPwin(q, KnownBy(g, t).winner, i) = WinnerPwin(g.panel, g.winner, i)
  <1>1. PICK p, w : p = g.panel /\ w = g.winner
    OBVIOUS
  <1>2. PICK np \in Nat : np = Len(p.mid) /\ BarsOf(p) = 1..np /\ i \in 1..np /\ t \in 1..np
    <2>1. p.mid \in Seq(Reading)
      BY <1>1 DEF WholePanel, ArraysOfPanel
    <2>2. PICK np \in Nat : np = Len(p.mid) /\ BarsOf(p) = 1..np
      BY <2>1 DEF BarsOf
    <2>3. t \in 1..np
      BY <1>1, <2>2
    <2> QED BY <2>2, <2>3
  <1>3. PICK n \in Nat : n = Len(w.mid) /\ BarsOf(w) = 1..n /\ DOMAIN w.ts = 1..n /\ DOMAIN w.elapsed = 1..n
    <2>1. /\ w.mid \in Seq(Reading) /\ w.elapsed \in Seq(Int) /\ w.ts \in Seq(Int)
          /\ Len(w.elapsed) = Len(w.mid) /\ Len(w.ts) = Len(w.mid)
      BY <1>1 DEF InStep, ArraysOfPanel, MinutesOfPanel
    <2> QED BY <2>1 DEF BarsOf
  <1>4. /\ w.mid \in Seq(Reading) /\ w.elapsed \in Seq(Int) /\ w.ts \in Seq(Int)
        /\ Len(w.elapsed) = n /\ Len(w.ts) = n
    BY <1>1, <1>3 DEF InStep, ArraysOfPanel, MinutesOfPanel
  <1>5. \A j, k \in 1..n : j < k => w.ts[j] < w.ts[k]
    BY <1>1, <1>3 DEF InStep, MinutesOfPanel
  <1>6. PICK e \in 1..n : w.ts[e] = p.ts[i] /\ w.elapsed[e] = p.elapsed[i]
    BY <1>1, <1>2, <1>3 DEF InStep
  <1>7. p.ts \in Seq(Int) /\ DOMAIN p.ts = 1..np /\ p.ts[i] \in Int /\ p.ts[t] \in Int /\ p.elapsed[i] \in Int
    <2>1. /\ p.ts \in Seq(Int) /\ Len(p.ts) = Len(p.mid) /\ p.elapsed \in Seq(Int) /\ Len(p.elapsed) = Len(p.mid)
      BY <1>1 DEF WholePanel, ArraysOfPanel
    <2>2. np \in Nat /\ Len(p.mid) = np /\ i \in 1..np /\ t \in 1..np
      BY <1>2, Zenon
    <2> QED BY ONLY <2>1, <2>2
  <1>8. p.ts[i] <= p.ts[t]
    <2>1. i < t => p.ts[i] < p.ts[t]
      BY <1>1, <1>2, <1>7 DEF WholePanel
    <2> QED BY <1>2, <1>7, <2>1
  <1> DEFINE J == {j \in BarsOf(w) : w.ts[j] <= p.ts[t]}
  <1>9. PICK c \in 0..n : c = Cardinality(J) /\ e <= c
    <2>1. J \in SUBSET (1..n)
      BY <1>3
    <2>2. 1..e \subseteq J
      <3>1. \A j \in 1..e : j \in 1..n /\ (j < e => w.ts[j] < w.ts[e]) /\ w.ts[j] \in Int
        BY <1>3, <1>4, <1>5
      <3>2. w.ts[e] \in Int
        BY <1>3, <1>4
      <3>3. w.ts[e] <= p.ts[t]
        BY <1>6, <1>8
      <3>4. ASSUME NEW j \in 1..e PROVE j \in 1..n /\ w.ts[j] <= p.ts[t]
        <4>1. j < e \/ j = e
          OBVIOUS
        <4> QED BY <1>7, <3>1, <3>2, <3>3, <4>1
      <3> QED BY <1>3, <3>4
    <2> HIDE DEF J
    <2> QED BY <2>1, <2>2, BarsBefore
  <1>10. PICK v : v = KnownBy(g, t).winner
    OBVIOUS
  <1>11. v = TruncatePanel(w, c)
    BY <1>1, <1>9, <1>10 DEF KnownBy
  <1> HIDE DEF J
  <1>12. v.mid = CutSeq(w.mid, c) /\ v.elapsed = CutSeq(w.elapsed, c)
    BY <1>1, <1>11 DEF TruncatePanel, InStep
  <1>13. BarsOf(v) = 1..c /\ \A j \in 1..c : v.mid[j] = w.mid[j] /\ v.elapsed[j] = w.elapsed[j]
    <2>0. c \in Nat /\ c <= n /\ Len(w.mid) = n /\ Len(w.elapsed) = n
      BY <1>3, <1>4
    <2>1. CutSeq(w.mid, c) \in Seq(Reading) /\ Len(CutSeq(w.mid, c)) = c /\ \A j \in 1..c : CutSeq(w.mid, c)[j] = w.mid[j]
      <3>1. /\ CutSeq(w.mid, c) \in Seq(Reading)
            /\ Len(CutSeq(w.mid, c)) = IF c <= Len(w.mid) THEN c ELSE Len(w.mid)
            /\ \A j \in 1..Len(CutSeq(w.mid, c)) : CutSeq(w.mid, c)[j] = w.mid[j]
        BY <2>0, <1>4, CutIsPrefix, Zenon
      <3> QED BY ONLY <2>0, <3>1
    <2>2. Len(CutSeq(w.elapsed, c)) = c /\ \A j \in 1..c : CutSeq(w.elapsed, c)[j] = w.elapsed[j]
      <3>1. /\ Len(CutSeq(w.elapsed, c)) = IF c <= Len(w.elapsed) THEN c ELSE Len(w.elapsed)
            /\ \A j \in 1..Len(CutSeq(w.elapsed, c)) : CutSeq(w.elapsed, c)[j] = w.elapsed[j]
        BY <2>0, <1>4, CutIsPrefix, Zenon
      <3> QED BY ONLY <2>0, <3>1
    <2> QED BY <1>12, <2>1, <2>2 DEF BarsOf
  <1> DEFINE D(x, r, j) == Magnitude(x.elapsed[j] - r.elapsed[i])
             Near(x, r) == {j \in BarsOf(x) : \A k \in BarsOf(x) : D(x, r, j) <= D(x, r, k)}
  <1>14. /\ WinnerPwin(q, v, i) = IF D(v, q, Min(Near(v, q))) > ElapsedTol THEN NoNumber ELSE v.mid[Min(Near(v, q))]
         /\ WinnerPwin(p, w, i) = IF D(w, p, Min(Near(w, p))) > ElapsedTol THEN NoNumber ELSE w.mid[Min(Near(w, p))]
    BY Zenon DEF WinnerPwin
  <1>15. \A j \in 1..n : D(w, p, j) \in Nat /\ (D(w, p, j) = 0 <=> w.elapsed[j] = p.elapsed[i])
    <2> TAKE j \in 1..n
    <2>1. w.elapsed[j] \in Int
      <3>1. j \in 1..n
        OBVIOUS
      <3> QED BY ONLY <1>4, <3>1
    <2>2. p.elapsed[i] \in Int
      BY <1>7, Zenon
    <2> QED BY ONLY <2>1, <2>2 DEF Magnitude
  <1>16. \A j \in 1..c : D(v, q, j) = D(w, p, j)
    BY <1>1, <1>13
  <1> HIDE DEF D
  <1> DEFINE Z == {j \in 1..n : D(w, p, j) = 0}
  <1>17. e \in Z /\ e \in 1..c /\ Z \in SUBSET (1..n)
    BY <1>6, <1>9, <1>15
  <1>18. Near(w, p) = Z
    BY <1>3, <1>15, <1>17
  <1>19. Near(v, q) = Z \cap (1..c)
    BY <1>13, <1>15, <1>16, <1>17
  <1> HIDE DEF Z, Near
  <1>20. Min(Near(v, q)) = Min(Near(w, p)) /\ Min(Near(w, p)) \in 1..c
    <2>1. Z \cap (1..c) # {}
      BY <1>17
    <2>2. Min(Z \cap (1..c)) = Min(Z) /\ Min(Z) \in 1..c
      <3>1. n \in Nat /\ c \in 0..n /\ Z \in SUBSET (1..n)
        BY <1>17
      <3>2. MaskUpTo(Z, c) # {} => Z # {} /\ Min(MaskUpTo(Z, c)) = Min(Z) /\ Min(Z) \in 1..c
        BY ONLY <3>1, FirstOfCut
      <3> QED BY <2>1, <3>2 DEF MaskUpTo
    <2> QED BY <1>18, <1>19, <2>1, <2>2
  <1> QED BY <1>1, <1>10, <1>13, <1>14, <1>16, <1>20

\* What the lab would have loaded at bar t is what it loaded, up to t.
LEMMA LoadedIsUpTo ==
    ASSUME NEW g, WholePanel(g.panel), NEW t \in BarsOf(g.panel), NEW name,
           name = "xmarket_consistency" => InStep(g)
    PROVE  LET q == Loaded(name, KnownBy(g, t))
               p == Loaded(name, g)
           IN /\ SameUpTo(q, p, t) /\ t > 0 /\ ArraysOfPanel(q) /\ WholePanel(p) /\ p.ts = g.panel.ts
              /\ name = "xmarket_consistency" => SameJoin(q, p, t)
  <1>1. PICK p : p = g.panel
    OBVIOUS
  <1>2. PICK c : c = TruncatePanel(p, t)
    OBVIOUS
  <1>3. PICK n \in Nat : n = Len(p.mid) /\ BarsOf(p) = 1..n
    <2>1. p.mid \in Seq(Reading)
      BY <1>1 DEF WholePanel, ArraysOfPanel
    <2> QED BY <2>1 DEF BarsOf
  <1>4. t \in Nat \ {0} /\ t \in 1..n /\ t > 0
    BY <1>1, <1>3
  <1>5. SameUpTo(c, p, t) /\ ArraysOfPanel(c)
    <2>1. PICK m \in 0..Len(p.mid) : m = (IF t <= Len(p.mid) THEN t ELSE Len(p.mid)) /\ SameUpTo(TruncatePanel(p, t), p, m)
      BY <1>1, <1>4, TruncatedIsUpTo
    <2>2. m = t
      BY <1>3, <1>4, <2>1
    <2> QED BY <1>1, <1>2, <1>4, <2>1, <2>2, TruncatedIsWhole
  <1>6. PICK raw : raw = KnownBy(g, t) /\ raw.panel = c
    <2>1. KnownBy(g, t).panel = TruncatePanel(g.panel, t)
      BY DEF KnownBy
    <2> QED BY <1>1, <1>2, <2>1
  <1>7. CASE name # "xmarket_consistency"
    <2>1. Loaded(name, KnownBy(g, t)) = c /\ Loaded(name, g) = p
      BY <1>1, <1>6, <1>7 DEF Loaded
    <2> QED BY <1>1, <1>4, <1>5, <1>7, <2>1
  <1>8. CASE name = "xmarket_consistency"
    <2>1. PICK a, b : a = AttachWinnerMid(raw) /\ b = AttachWinnerMid(g)
      OBVIOUS
    <2>2. Loaded(name, KnownBy(g, t)) = a /\ Loaded(name, g) = b
      BY <1>6, <1>8, <2>1 DEF Loaded
    <2>3. WholePanel(b) /\ b.ts = g.panel.ts
      BY <2>1, JoinedIsWhole
    <2>4. {"mid", "ts", "ladder", "market", "elapsed", "margin", "total", "rem", "subs", "div", "duration"} \subseteq DOMAIN p
      BY <1>1 DEF WholePanel
    <2>5. {"mid", "ts", "ladder", "market", "elapsed", "margin", "total", "rem", "subs", "div", "duration"} \subseteq DOMAIN raw.panel
      BY <1>2, <1>6, <2>4 DEF TruncatePanel
    <2>6. /\ a.ts = c.ts /\ a.elapsed = c.elapsed /\ a.margin = c.margin /\ a.total = c.total /\ a.mid = c.mid
          /\ a.rem = c.rem /\ a.subs = c.subs /\ a.ladder = c.ladder /\ a.market = c.market /\ a.duration = c.duration
      BY <1>6, <2>1, <2>5, JoinedFields
    <2>7. /\ b.ts = p.ts /\ b.elapsed = p.elapsed /\ b.margin = p.margin /\ b.total = p.total /\ b.mid = p.mid
          /\ b.rem = p.rem /\ b.subs = p.subs /\ b.ladder = p.ladder /\ b.market = p.market /\ b.duration = p.duration
      BY <1>1, <2>1, <2>4, JoinedFields
    <2>8. ArraysOfPanel(a)
      BY <1>5, <2>6 DEF ArraysOfPanel
    <2>9. Strikes(a) = Strikes(c) /\ Strikes(b) = Strikes(p) /\ \A i : QuotesAt(a, i) = QuotesAt(c, i) /\ QuotesAt(b, i) = QuotesAt(p, i)
      BY <2>6, <2>7 DEF QuotesAt, Strikes
    <2>10. SameUpTo(a, b, t)
      <3>1. \A i \in 1..t : SameMinute(a, b, i)
        BY <1>5, <2>6, <2>7, <2>9 DEF SameUpTo, SameMinute
      <3> QED BY <1>5, <2>6, <2>7, <2>9, <3>1 DEF SameUpTo
    <2>11. SameJoin(a, b, t)
      <3>1. ASSUME NEW i \in 1..t PROVE a.div[i] = b.div[i]
        <4>1. SpreadImpliedPwin(c, i) = SpreadImpliedPwin(p, i)
          BY <1>5, SameProjections
        <4>2. c.elapsed[i] = p.elapsed[i]
          BY <1>5 DEF SameUpTo, SameMinute
        <4>3. WinnerPwin(c, raw.winner, i) = WinnerPwin(p, g.winner, i)
          BY <1>1, <1>6, <1>8, <4>2, SameWinnerPwin
        <4>4. a.div = [j \in BarsOf(c) |-> Minus(SpreadImpliedPwin(c, j), WinnerPwin(c, raw.winner, j))]
          BY <1>6, <2>1, <2>5, JoinedFields
        <4>5. b.div = [j \in BarsOf(p) |-> Minus(SpreadImpliedPwin(p, j), WinnerPwin(p, g.winner, j))]
          BY <1>1, <2>1, <2>4, JoinedFields
        <4>6. i \in BarsOf(c) /\ i \in BarsOf(p)
          <5>1. BarsOf(c) = 1..t /\ 1..t \subseteq BarsOf(p)
            BY <1>1, <1>5, SameBars DEF WholePanel
          <5> QED BY <5>1
        <4> QED BY <4>1, <4>3, <4>4, <4>5, <4>6
      <3> QED BY <3>1 DEF SameJoin
    <2> QED BY <1>4, <2>2, <2>3, <2>8, <2>10, <2>11
  <1> QED BY <1>7, <1>8

(***************************************************************************)
(* The auditor's signals.                                                  *)
(***************************************************************************)
\* A window ends at its bar, so its mean and its score are known there.
LEMMA SameWindow ==
    ASSUME NoNumber \notin Int, NEW i \in Nat \ {0}, NEW a, NEW b, \A j \in 1..i : a[j] = b[j] /\ b[j] \in Reading,
           NEW window \in Nat
    PROVE  RollingMean(a, window, i) = RollingMean(b, window, i) /\ ZScore(a, window, i) = ZScore(b, window, i)
  <1>1. PICK lo \in Nat : lo = Max({1, i - window + 1}) /\ lo >= 1
    <2>1. PICK x \in Int : x = i - window + 1
      OBVIOUS
    <2>2. PICK y \in Int : y = 1
      OBVIOUS
    <2>3. Max({y, x}) = IF y >= x THEN y ELSE x
      BY Pairs
    <2> QED BY <2>1, <2>2, <2>3
  <1> DEFINE J(x) == Finite(x, i - window + 1, i)
  <1>2. J(a) = J(b) /\ J(b) \in SUBSET (1..i) /\ \A j \in J(b) : Known(b[j])
    <2>1. J(a) = {j \in lo..i : Known(a[j])} /\ J(b) = {j \in lo..i : Known(b[j])}
      BY <1>1 DEF Finite
    <2>2. \A j \in lo..i : j \in 1..i /\ a[j] = b[j]
      BY <1>1
    <2> HIDE DEF J
    <2> QED BY <2>1, <2>2
  <1>3. IsFiniteSet(J(b))
    BY <1>2, FS_Interval, FS_Subset
  <1>4. \A j \in J(b) : b[j] \in Int /\ a[j] = b[j]
    BY <1>2 DEF Known, Reading
  <1>5. /\ RollingMean(a, window, i) = IF J(a) = {} THEN NoNumber ELSE SumFunctionOnSet(a, J(a)) \div Cardinality(J(a))
        /\ RollingMean(b, window, i) = IF J(b) = {} THEN NoNumber ELSE SumFunctionOnSet(b, J(b)) \div Cardinality(J(b))
    BY Zenon DEF RollingMean, Mean
  <1> DEFINE LabFlat(x) == \A j, k \in J(x) : x[j] = x[k]
  <1>6. /\ ZScore(a, window, i) = IF Cardinality(J(a)) < 2 \/ LabFlat(a) \/ ~Known(a[i]) THEN NoNumber
                                  ELSE Cardinality(J(a)) * a[i] - SumFunctionOnSet(a, J(a))
        /\ ZScore(b, window, i) = IF Cardinality(J(b)) < 2 \/ LabFlat(b) \/ ~Known(b[i]) THEN NoNumber
                                  ELSE Cardinality(J(b)) * b[i] - SumFunctionOnSet(b, J(b))
    BY Zenon DEF ZScore
  <1>7. a[i] = b[i]
    OBVIOUS
  <1>8. LabFlat(a) <=> LabFlat(b)
    BY <1>2, <1>4
  <1> HIDE DEF J, LabFlat
  <1>9. SumFunctionOnSet(a, J(b)) = SumFunctionOnSet(b, J(b))
    BY <1>3, <1>4, SumSame
  <1> QED BY <1>2, <1>5, <1>6, <1>7, <1>8, <1>9

\* Bar i of a signal on a cut panel is bar i of the signal.
SignalAt(sig, p, name, i) ==
    CASE sig = "implied_level" -> ImpliedLevel(p, i)
      [] sig = "anchoring_gap" -> AnchoringGap(p, i)
      [] sig = "staleness_min" -> StalenessMin(p, i)
      [] sig = "rolling" -> RollingMean(p.mid, 2, i)
      [] sig = "zscore" -> ZScore(p.mid, 3, i)
      [] sig = "entry" -> IF i \in Applied(name, p).entry THEN 1 ELSE 0
LEMMA SameSignal ==
    ASSUME NoNumber \notin Int, NEW q, NEW p, NEW m, SameUpTo(q, p, m), SameJoin(q, p, m), ArraysOfPanel(q), ArraysOfPanel(p),
           NEW name \in Names, NEW sig \in Signals, NEW i \in 1..m
    PROVE  SignalAt(sig, q, name, i) = SignalAt(sig, p, name, i)
  <1>1. CASE sig = "implied_level"
    <2>1. q.mid[i] = p.mid[i]
      BY DEF SameUpTo, SameMinute
    <2> QED BY <1>1, <2>1 DEF SignalAt, ImpliedLevel
  <1>2. CASE sig = "anchoring_gap"
    <2>1. AnchoringGap(q, i) = AnchoringGap(p, i)
      BY SameProjections
    <2> QED BY <1>2, <2>1 DEF SignalAt
  <1>3. CASE sig = "staleness_min"
    <2>1. StalenessMin(q, i) = StalenessMin(p, i)
      BY SameStaleness
    <2> QED BY <1>3, <2>1 DEF SignalAt
  <1>4. ASSUME NEW window \in Nat
        PROVE  RollingMean(q.mid, window, i) = RollingMean(p.mid, window, i) /\ ZScore(q.mid, window, i) = ZScore(p.mid, window, i)
    <2>1. m \in Nat /\ Len(p.mid) \in Nat /\ 1..m \subseteq 1..Len(p.mid)
      BY SameBars
    <2>2. \A j \in 1..i : j \in 1..m
      BY <2>1
    <2>3. \A j \in 1..i : q.mid[j] = p.mid[j]
      BY <2>2 DEF SameUpTo, SameMinute
    <2>4. \A j \in 1..i : p.mid[j] \in Reading
      BY <2>1, <2>2 DEF ArraysOfPanel
    <2>5. i \in Nat \ {0}
      BY <2>1
    <2> QED BY <2>3, <2>4, <2>5, SameWindow
  <1>5. CASE sig = "rolling"
    BY <1>4, <1>5 DEF SignalAt
  <1>6. CASE sig = "zscore"
    BY <1>4, <1>6 DEF SignalAt
  <1>7. CASE sig = "entry"
    <2>1. SameStrategy(Applied(name, q), Applied(name, p), q, p, m)
      BY SameApplied
    <2>2. i \in Applied(name, q).entry <=> i \in Applied(name, p).entry
      BY <2>1 DEF SameStrategy
    <2> QED BY <1>7, <2>2 DEF SignalAt
  <1> QED BY <1>1, <1>2, <1>3, <1>5, <1>6, <1>7 DEF Signals

\* A sequence that agrees with a cut of another is that cut.
ListOfLength(f, n) == f = [i \in 1..n |-> f[i]]
LEMMA CutIsEqual ==
    ASSUME NEW n \in Nat, NEW f, ListOfLength(f, n), NEW t \in Nat, NEW m, m = IF t <= n THEN t ELSE n,
           NEW e, ListOfLength(e, m), \A i \in 1..m : e[i] = f[i]
    PROVE  e = CutSeq(f, t)
  <1> DEFINE S == {f[i] : i \in 1..n}
  <1>1. m \in 0..n /\ \A i \in 1..m : i \in 1..n
    OBVIOUS
  <1>2. (\A i \in 1..n : f[i] \in S) /\ \A i \in 1..m : e[i] \in S
    BY <1>1
  <1> HIDE DEF S
  <1>3. f \in [1..n -> S] /\ e \in [1..m -> S]
    BY <1>2 DEF ListOfLength
  <1>4. f \in Seq(S) /\ Len(f) = n /\ e \in Seq(S) /\ Len(e) = m
    BY <1>1, <1>3
  <1>5. CutSeq(f, t) \in Seq(S) /\ Len(CutSeq(f, t)) = m /\ \A i \in 1..m : CutSeq(f, t)[i] = f[i]
    <2>1. /\ CutSeq(f, t) \in Seq(S) /\ Len(CutSeq(f, t)) = IF t <= Len(f) THEN t ELSE Len(f)
          /\ \A i \in 1..Len(CutSeq(f, t)) : CutSeq(f, t)[i] = f[i]
      BY <1>4, CutIsPrefix
    <2> QED BY <1>4, <2>1
  <1> QED BY <1>4, <1>5, SeqEqual

\* The auditor cuts after some bar, not before the first.
LEMMA CutsAreBars == ASSUME NEW n \in Nat, NEW t \in Cuts(n) PROVE t \in Nat \ {0}
  <1> DEFINE Fractions == {1 + (f * (n - 1)) \div 100 : f \in {25, 50, 75, 90}}
             Inner == {x \in Fractions : x >= 2 /\ x < n}
  <1>1. t \in IF Inner = {} THEN {Max({2, 1 + n \div 2})} ELSE Inner
    BY Zenon DEF Cuts
  <1>2. ASSUME NEW x \in Inner PROVE x \in Nat \ {0}
    <2>1. PICK f \in {25, 50, 75, 90} : x = 1 + (f * (n - 1)) \div 100
      OBVIOUS
    <2>2. (f * (n - 1)) \in Int
      OBVIOUS
    <2>3. (f * (n - 1)) \div 100 \in Int
      BY <2>2
    <2>4. x \in Int /\ x >= 2
      BY <2>1, <2>3
    <2> QED BY <2>4
  <1>3. Max({2, 1 + n \div 2}) \in Nat \ {0}
    <2>1. PICK x \in Int : x = 1 + n \div 2
      OBVIOUS
    <2>2. Max({2, x}) = IF 2 >= x THEN 2 ELSE x
      BY Pairs
    <2> QED BY <2>1, <2>2
  <1> HIDE DEF Inner
  <1> QED BY <1>1, <1>2, <1>3

\* So the auditor passes every signal of a shipped strategy.
LEMMA AuditsPass ==
    ASSUME NoNumber \notin Int, NEW p, WholePanel(p), NEW name \in Names, NEW sig \in Signals
    PROVE  AuditSignal(sig, p, name)
  <1>1. PICK n \in Nat : n = Len(p.mid) /\ BarsOf(p) = 1..n
    <2>1. p.mid \in Seq(Reading)
      BY DEF WholePanel, ArraysOfPanel
    <2> QED BY <2>1 DEF BarsOf
  <1>2. SUFFICES ASSUME NEW t \in Cuts(n)
                 PROVE  Signal(sig, TruncatePanel(p, t), name) = CutSeq(Signal(sig, p, name), t)
    BY <1>1 DEF AuditSignal
  <1>3. t \in Nat \ {0}
    BY CutsAreBars
  <1>4. PICK m \in 0..n : /\ m = IF t <= n THEN t ELSE n
                          /\ SameUpTo(TruncatePanel(p, t), p, m) /\ SameJoin(TruncatePanel(p, t), p, m)
    BY <1>1, <1>3, TruncatedIsUpTo
  <1>5. PICK q : q = TruncatePanel(p, t)
    OBVIOUS
  <1>6. ArraysOfPanel(q) /\ ArraysOfPanel(p)
    BY <1>3, <1>5, TruncatedIsWhole DEF WholePanel
  <1>7. BarsOf(q) = 1..m
    BY <1>4, <1>5, <1>6, SameBars
  <1>8. /\ Signal(sig, q, name) = [i \in 1..m |-> SignalAt(sig, q, name, i)]
        /\ Signal(sig, p, name) = [i \in 1..n |-> SignalAt(sig, p, name, i)]
    BY <1>1, <1>7, Zenon DEF Signal, SignalAt
  <1>9. \A i \in 1..m : SignalAt(sig, q, name, i) = SignalAt(sig, p, name, i)
    BY <1>4, <1>5, <1>6, SameSignal
  <1>10. PICK e, f : e = Signal(sig, q, name) /\ f = Signal(sig, p, name)
    OBVIOUS
  <1>11. ListOfLength(e, m) /\ ListOfLength(f, n) /\ \A i \in 1..m : e[i] = f[i]
    BY <1>4, <1>8, <1>9, <1>10 DEF ListOfLength
  <1>12. e = CutSeq(f, t)
    <2>1. n \in Nat /\ t \in Nat /\ m = IF t <= n THEN t ELSE n
      BY <1>3, <1>4
    <2> QED BY ONLY <1>11, <2>1, CutIsEqual
  <1> QED BY <1>5, <1>10, <1>12

LEMMA LoadedPanelIsWhole == ASSUME PanelAssumption, NEW g \in Panels PROVE WholePanel(g.panel) /\ NoNumber \notin Int
  BY DEF PanelAssumption, WholePanel, MinutesOfPanel

LEMMA CatalogueNames ==
    ASSUME NEW market \in {"winner", "total", "spread"}, NEW name \in Catalogue(market)
    PROVE  name \in Names /\ (name = "xmarket_consistency" => market = "spread")
  BY DEF Catalogue, Names

(***************************************************************************)
(* The invariant: the booked trade is the strategy's, and no audit fails.  *)
(***************************************************************************)
CausalInv ==
    /\ game \in Panels /\ composed \in Catalogue(game.panel.market)
    /\ auditVerdict \in {"no", "ran", "passed"}
    /\ auditVerdict # "no" => booked = RunOne(Loaded(composed, game), Applied(composed, Loaded(composed, game)))

LEMMA CausalStep == ASSUME PanelAssumption, CausalInv, [StrategyNext]_strategyVars PROVE CausalInv'
  <1>1. CASE Backtest
    BY <1>1 DEF CausalInv, Backtest
  <1>2. CASE AuditReport
    <2>1. WholePanel(game.panel) /\ NoNumber \notin Int /\ composed \in Names
      <3>1. game.panel.market \in {"winner", "total", "spread"}
        BY DEF PanelAssumption, CausalInv
      <3> QED BY <3>1, LoadedPanelIsWhole, CatalogueNames DEF CausalInv
    <2>2. WholePanel(Loaded(composed, game))
      BY <2>1, JoinedIsWhole DEF Loaded
    <2>3. \A name \in Signals : AuditSignal(name, Loaded(composed, game), composed)
      BY <2>1, <2>2, AuditsPass
    <2> QED BY <1>2, <2>3 DEF CausalInv, AuditReport
  <1>3. CASE UNCHANGED strategyVars
    BY <1>3 DEF CausalInv, strategyVars
  <1> QED BY <1>1, <1>2, <1>3 DEF StrategyNext

\* JoinedFields with a panel in step, what is known at a bar decides what is traded by then.
LEMMA KnownTrades ==
    ASSUME PanelAssumption, CausalInv, game.panel.market = "spread" => InStep(game)
    PROVE  LabTradesAreCausal
  <1>1. WholePanel(game.panel) /\ NoNumber \notin Int /\ composed \in Names /\ (composed = "xmarket_consistency" => InStep(game))
    <2>1. game.panel.market \in {"winner", "total", "spread"}
      BY DEF PanelAssumption, CausalInv
    <2> QED BY <2>1, LoadedPanelIsWhole, CatalogueNames DEF CausalInv
  <1>2. ASSUME auditVerdict # "no", NEW t \in BarsOf(game.panel)
        PROVE  LET raw == KnownBy(game, t)
                   live == RunOne(Loaded(composed, raw), Applied(composed, Loaded(composed, raw)))
                   due == booked # NoTrade /\ booked.ts <= game.panel.ts[t]
               IN /\ due => Decision(live) = Decision(booked)
                  /\ live # NoTrade /\ live.ts <= game.panel.ts[t] => due
    <2>1. PICK q, p : q = Loaded(composed, KnownBy(game, t)) /\ p = Loaded(composed, game)
      OBVIOUS
    <2>2. /\ SameUpTo(q, p, t) /\ t > 0 /\ ArraysOfPanel(q) /\ WholePanel(p) /\ p.ts = game.panel.ts
          /\ composed = "xmarket_consistency" => SameJoin(q, p, t)
      BY <1>1, <2>1, LoadedIsUpTo
    <2>3. ArraysOfPanel(p) /\ \A i, j \in DOMAIN p.ts : i < j => p.ts[i] < p.ts[j]
      BY <2>2 DEF WholePanel
    <2>4. SameStrategy(Applied(composed, q), Applied(composed, p), q, p, t)
      BY <1>1, <2>2, <2>3, SameApplied
    <2>5. SameTrade(RunOne(q, Applied(composed, q)), RunOne(p, Applied(composed, p)), p.ts[t])
      BY <1>1, <2>2, <2>3, <2>4, TradeIsKnown
    <2>6. booked = RunOne(p, Applied(composed, p))
      BY <1>2, <2>1 DEF CausalInv
    <2> QED BY <2>1, <2>2, <2>5, <2>6 DEF SameTrade
  <1>3. auditVerdict # "failed"
    BY DEF CausalInv
  <1> QED BY <1>2, <1>3, Zenon DEF LabTradesAreCausal

\* The backtester shows no trade that could not have been made live: for every shipped
\* strategy and every panel, at every bar the trade made on what is known by then is the
\* booked one once it is due, and the auditor passes every signal.  The cross-market join
\* takes the winner's bar nearest in game time, so there it needs both panels of the game
\* to have a bar for the same minutes.
THEOREM LabKnowsNoFuture ==
    StrategySpec => []((game.panel.market = "spread" => InStep(game)) => LabTradesAreCausal)
  <1>1. StrategyInit => CausalInv
    BY DEF StrategyInit, CausalInv
  <1>2. CausalInv /\ [StrategyNext]_strategyVars => CausalInv'
    BY CausalStep, PanelAssumption
  <1>3. CausalInv => ((game.panel.market = "spread" => InStep(game)) => LabTradesAreCausal)
    BY KnownTrades, PanelAssumption
  <1> QED BY <1>1, <1>2, <1>3, PTL DEF StrategySpec

-----------------------------------------------------------------------------
(***************************************************************************)
(* The paper book.  A signal is in one of seven stages, read off its rows. *)
(***************************************************************************)
\* Two are two.
LEMMA CountTwo == ASSUME NEW a, NEW b, a # b PROVE IsFiniteSet({a, b}) /\ Cardinality({a, b}) = 2
  <1> DEFINE T == {a} \cup {b}   U == {a}
  <1>1. IsFiniteSet(U) /\ Cardinality(U) = 1
    BY FS_Singleton
  <1>2. b \notin U
    OBVIOUS
  <1>3. T = U \cup {b} /\ T = {a, b}
    OBVIOUS
  <1> HIDE DEF T, U
  <1>4. IsFiniteSet(T) /\ Cardinality(T) = Cardinality(U) + 1
    BY <1>1, <1>2, <1>3, FS_AddElement
  <1>5. Cardinality(T) = 2
    BY <1>1, <1>4
  <1> QED BY <1>3, <1>4, <1>5, Zenon

\* Three are three.
LEMMA CountThree == ASSUME NEW a, NEW b, NEW c, a # b, a # c, b # c PROVE Cardinality({a, b, c}) = 3
  <1> DEFINE T == {a, b} \cup {c}   U == {a, b}
  <1>1. IsFiniteSet(U) /\ Cardinality(U) = 2
    BY CountTwo
  <1>2. c \notin U
    OBVIOUS
  <1>3. T = U \cup {c} /\ T = {a, b, c}
    OBVIOUS
  <1> HIDE DEF T, U
  <1>4. Cardinality(T) = Cardinality(U) + 1
    BY <1>1, <1>2, <1>3, FS_AddElement
  <1>5. Cardinality(T) = 3
    BY <1>1, <1>4
  <1> QED BY <1>3, <1>5, Zenon

USE PaperAssumption DEF PaperAssumption

\* What the rows of an id may be.
RowOk(i, n) ==
    /\ "status" \in DOMAIN log[n]
    /\ "rest_price" \in DOMAIN log[n] <=> log[n].status = "resting"
    /\ log[n].status = "resting" => log[n] = RestRow(i)

Alone(i, x) == \E a \in DOMAIN log : RowsFor(i) = {a} /\ log[a].status = x
Two(i, x, y) ==
    \E a, b \in DOMAIN log : a < b /\ RowsFor(i) = {a, b} /\ log[a].status = x /\ log[b].status = y
Three(i, x, y, z) ==
    \E a, b, c \in DOMAIN log :
        /\ a < b /\ b < c /\ RowsFor(i) = {a, b, c}
        /\ log[a].status = x /\ log[b].status = y /\ log[c].status = z

New(i) == RowsFor(i) = {}
Held(i) == Alone(i, "open") \/ Two(i, "resting", "filled")
Made(i) == Two(i, "resting", "filled") \/ Three(i, "resting", "filled", "settled")
Dropped(i) == Two(i, "resting", "cancelled")
Life(i) ==
    \/ New(i) \/ Alone(i, "open") \/ Two(i, "open", "settled") \/ Alone(i, "resting")
    \/ Made(i) \/ Dropped(i)

\* The price traded within the horizon, and it traded there not before the entry.
Traded(i) == \E t \in world[i].prints : t <= EntryTs(i) + Horizon
TradedLater(i) == \E t \in world[i].prints : t >= EntryTs(i) /\ t <= EntryTs(i) + Horizon

\* What the rows say of the world; a cancellation may be wrong once a fetch has failed.
Tales ==
    \A i \in Id :
        /\ Life(i) /\ \A n \in RowsFor(i) : RowOk(i, n)
        /\ Made(i) => Traded(i)
        /\ faults = 0 /\ Dropped(i) => ~TradedLater(i)

\* The fold a pass works from is still true of the ids it has to go.
PassInv ==
    /\ pass = [p \in Pass |-> [todo |-> pass[p].todo, seen |-> pass[p].seen]]
    /\ \A i \in pass["scan"].todo : New(i)
    /\ \A i \in pass["mark"].todo :
         /\ Alone(i, "resting")
         /\ pass["mark"].seen[i].entry_ts = EntryTs(i)
         /\ pass["mark"].seen[i].horizon_end_ts = EntryTs(i) + Horizon
    /\ \A i \in pass["settle"].todo : Held(i)
    /\ \A p \in Pass : pass[p].todo \subseteq Id

PaperInv ==
    /\ world \in Worlds /\ now \in Nat /\ faults \in Nat
    /\ (faults = 0 => torn = FALSE) /\ torn \in BOOLEAN
    /\ \E S : log \in Seq(S)
    /\ \A n \in DOMAIN log : "id" \in DOMAIN log[n] /\ log[n].id \in Id
    /\ Tales /\ PassInv

\* Max is the number that no other exceeds.
LEMMA Greatest ==
    ASSUME NEW S \in SUBSET Nat, NEW x \in S, \A y \in S : y <= x
    PROVE  Max(S) = x
  <1>1. \A y \in S : x >= y
    OBVIOUS
  <1>2. \A z \in S : (\A y \in S : z >= y) => z = x
    OBVIOUS
  <1> QED BY <1>1, <1>2 DEF Max

\* An appended row is the last one of its id, and no other id sees it.
LEMMA Appended ==
    ASSUME NEW S, log \in Seq(S), NEW row, NEW i, row.id = i, log' = Append(log, row)
    PROVE  /\ Len(log) + 1 \in DOMAIN log' /\ log'[Len(log) + 1] = row
           /\ RowsFor(i)' = RowsFor(i) \cup {Len(log) + 1}
           /\ \A n \in DOMAIN log : n \in DOMAIN log' /\ log'[n] = log[n] /\ n < Len(log) + 1
           /\ \A j : j # i => RowsFor(j)' = RowsFor(j)
           /\ log' \in Seq(S \cup {row})
           /\ DOMAIN log' = DOMAIN log \cup {Len(log) + 1}
  <1> DEFINE n == Len(log)   T == S \cup {row}
  <1>1. log \in Seq(T) /\ row \in T
    OBVIOUS
  <1>2. /\ n \in Nat /\ DOMAIN log = 1..n /\ DOMAIN log' = 1..n + 1
        /\ \A k \in 1..n : log'[k] = log[k]
        /\ log'[n + 1] = row /\ log' \in Seq(T)
    BY <1>1
  <1>3. DOMAIN log' = DOMAIN log \cup {n + 1} /\ n + 1 \notin DOMAIN log /\ \A k \in DOMAIN log : k < n + 1
    BY <1>2
  <1>4. \A j : RowsFor(j)' = {k \in DOMAIN log' : log'[k].id = j}
    BY DEF RowsFor
  <1>5. RowsFor(i)' = RowsFor(i) \cup {n + 1}
    BY <1>2, <1>3, <1>4 DEF RowsFor
  <1>6. \A j : j # i => RowsFor(j)' = RowsFor(j)
    BY <1>2, <1>3, <1>4 DEF RowsFor
  <1> QED BY <1>2, <1>3, <1>5, <1>6

\* Ids of which no row is appended stay as they are.
LEMMA Untouched ==
    ASSUME NEW i, RowsFor(i)' = RowsFor(i), \A n \in DOMAIN log : n \in DOMAIN log' /\ log'[n] = log[n],
           world' = world
    PROVE  /\ New(i)' <=> New(i)
           /\ Held(i)' <=> Held(i)
           /\ Made(i)' <=> Made(i)
           /\ Dropped(i)' <=> Dropped(i)
           /\ Alone(i, "resting")' <=> Alone(i, "resting")
           /\ Life(i)' <=> Life(i)
           /\ \A n \in RowsFor(i) : RowOk(i, n) => RowOk(i, n)'
  <1>1. \A n \in RowsFor(i) : n \in DOMAIN log /\ n \in DOMAIN log' /\ log'[n] = log[n]
    BY DEF RowsFor
  <1>2. \A x : Alone(i, x)' <=> Alone(i, x)
    BY <1>1 DEF Alone
  <1>3. \A x, y : Two(i, x, y)' <=> Two(i, x, y)
    BY <1>1 DEF Two
  <1>4. \A x, y, z : Three(i, x, y, z)' <=> Three(i, x, y, z)
    BY <1>1 DEF Three
  <1>5. New(i)' <=> New(i)
    BY DEF New
  <1>6. \A n \in RowsFor(i) : RowOk(i, n) => RowOk(i, n)'
    BY <1>1 DEF RowOk, RestRow, EntryTs
  <1> QED BY <1>2, <1>3, <1>4, <1>5, <1>6 DEF Held, Made, Dropped, Life

\* A step that leaves world and file leaves every stage.
LEMMA StillTrue ==
    ASSUME UNCHANGED <<world, log>>, NEW i
    PROVE  /\ New(i)' <=> New(i)
           /\ Held(i)' <=> Held(i)
           /\ Alone(i, "resting")' <=> Alone(i, "resting")
           /\ EntryTs(i)' = EntryTs(i)
  <1>1. \A n \in DOMAIN log : n \in DOMAIN log' /\ log'[n] = log[n]
    OBVIOUS
  <1>2. RowsFor(i)' = RowsFor(i)
    BY DEF RowsFor
  <1> QED BY <1>1, <1>2, Untouched DEF EntryTs

\* No two stages at once.
Disjoint(i) ==
    /\ \A x : Alone(i, x) => ~New(i)
    /\ \A x, y : Two(i, x, y) => ~New(i)
    /\ \A x, y, z : Three(i, x, y, z) => ~New(i)
    /\ \A x, u : Alone(i, x) /\ Alone(i, u) => x = u
    /\ \A x, u, v : Alone(i, x) /\ Two(i, u, v) => FALSE
    /\ \A x, u, v, w : Alone(i, x) /\ Three(i, u, v, w) => FALSE
    /\ \A x, y, u, v : Two(i, x, y) /\ Two(i, u, v) => x = u /\ y = v
    /\ \A x, y, u, v, w : Two(i, x, y) /\ Three(i, u, v, w) => FALSE

\* The rows of an id are of one number and one order.
LEMMA OneStage == \A S, i : log \in Seq(S) => Disjoint(i)
  <1> SUFFICES ASSUME NEW S, log \in Seq(S), NEW i PROVE Disjoint(i)
    OBVIOUS
  <1>1. DOMAIN log \subseteq Int
    OBVIOUS
  <1>2. \A a, b, c \in DOMAIN log : a < b => {c} # {a, b}
    BY <1>1
  <1>3. \A a, b, c, d \in DOMAIN log : a < b /\ c < d /\ {a, b} = {c, d} => a = c /\ b = d
    BY <1>1
  <1>4. \A a, b, c, d \in DOMAIN log : a < b /\ b < c => {d} # {a, b, c}
    BY <1>1
  <1>5. ASSUME NEW a \in DOMAIN log, NEW b \in DOMAIN log, NEW c \in DOMAIN log,
               NEW d \in DOMAIN log, NEW e \in DOMAIN log, a < b, b < c, {d, e} = {a, b, c}
        PROVE  FALSE
    <2>1. a \in {d, e} /\ b \in {d, e} /\ c \in {d, e}
      BY <1>5
    <2> QED BY <1>1, <1>5, <2>1
  <1>6. \A a, b \in DOMAIN log : {a} = {b} => a = b
    OBVIOUS
  <1>7. /\ \A x : Alone(i, x) => ~New(i)
        /\ \A x, y : Two(i, x, y) => ~New(i)
        /\ \A x, y, z : Three(i, x, y, z) => ~New(i)
    BY DEF New, Alone, Two, Three
  <1>8. \A x, u : Alone(i, x) /\ Alone(i, u) => x = u
    BY <1>6 DEF Alone
  <1>9. \A x, u, v : Alone(i, x) /\ Two(i, u, v) => FALSE
    BY <1>2 DEF Alone, Two
  <1>10. \A x, u, v, w : Alone(i, x) /\ Three(i, u, v, w) => FALSE
    BY <1>4 DEF Alone, Three
  <1>11. \A x, y, u, v : Two(i, x, y) /\ Two(i, u, v) => x = u /\ y = v
    BY <1>3 DEF Two
  <1>12. \A x, y, u, v, w : Two(i, x, y) /\ Three(i, u, v, w) => FALSE
    BY <1>5 DEF Two, Three
  <1> QED BY <1>7, <1>8, <1>9, <1>10, <1>11, <1>12 DEF Disjoint

\* The same of the next state.
LEMMA OneStageNext == \A S, i : log' \in Seq(S) => Disjoint(i)'
  <1>1. (\A S, i : log \in Seq(S) => Disjoint(i))'
    BY OneStage, PTL
  <1> QED BY <1>1

\* A row more is a chapter more.
LEMMA Chapters ==
    ASSUME NEW S, log \in Seq(S), NEW row, NEW i, row.id = i, log' = Append(log, row)
    PROVE  /\ New(i) => Alone(i, row.status)'
           /\ \A x : Alone(i, x) => Two(i, x, row.status)'
           /\ \A x, y : Two(i, x, y) => Three(i, x, y, row.status)'
  <1> DEFINE n == Len(log) + 1
  <1>0. /\ n \in DOMAIN log' /\ log'[n] = row
        /\ RowsFor(i)' = RowsFor(i) \cup {n}
        /\ \A k \in DOMAIN log : k \in DOMAIN log' /\ log'[k] = log[k] /\ k < n
    BY Appended
  <1> HIDE DEF n
  <1>1. New(i) => Alone(i, row.status)'
    BY <1>0 DEF New, Alone
  <1>2. ASSUME NEW x, Alone(i, x) PROVE Two(i, x, row.status)'
    <2>1. PICK a \in DOMAIN log : RowsFor(i) = {a} /\ log[a].status = x
      BY <1>2 DEF Alone
    <2>2. RowsFor(i)' = {a, n}
      BY <1>0, <2>1
    <2>3. a \in DOMAIN log' /\ a < n /\ log'[a].status = x
      BY <1>0, <2>1
    <2> QED BY <1>0, <2>2, <2>3 DEF Two
  <1>3. ASSUME NEW x, NEW y, Two(i, x, y) PROVE Three(i, x, y, row.status)'
    <2>1. PICK a \in DOMAIN log, b \in DOMAIN log :
            a < b /\ RowsFor(i) = {a, b} /\ log[a].status = x /\ log[b].status = y
      BY <1>3 DEF Two
    <2>2. RowsFor(i)' = {a, b, n}
      BY <1>0, <2>1
    <2>3. a \in DOMAIN log' /\ b \in DOMAIN log' /\ b < n /\ log'[a].status = x /\ log'[b].status = y
      BY <1>0, <2>1
    <2> QED BY <1>0, <2>1, <2>2, <2>3 DEF Three
  <1> QED BY <1>1, <1>2, <1>3

\* The fold of an id's rows has the status of the last one, and a resting price
\* if one of them has it.
LEMMA Folds ==
    ASSUME NEW S, log \in Seq(S), NEW i, \A n \in RowsFor(i) : RowOk(i, n),
           NEW b \in RowsFor(i), \A n \in RowsFor(i) : n <= b
    PROVE  /\ i \in DOMAIN Positions
           /\ Positions[i].status = log[b].status
           /\ "rest_price" \in DOMAIN Positions[i] <=> \E n \in RowsFor(i) : log[n].status = "resting"
           /\ RowsFor(i) = {b} /\ log[b].status = "resting" =>
                /\ Positions[i].entry_ts = EntryTs(i)
                /\ Positions[i].horizon_end_ts = EntryTs(i) + Horizon
  <1> DEFINE F == UNION {DOMAIN log[n] : n \in RowsFor(i)}
  <1>1. i \in {log[n].id : n \in DOMAIN log} /\ b \in DOMAIN log
    BY DEF RowsFor
  <1>2. i \in DOMAIN Positions /\ Positions[i] = [field \in F |-> log[LastWith(i, field)][field]]
    BY <1>1 DEF Positions
  <1> HIDE DEF F
  <1>3. DOMAIN Positions[i] = F /\ \A f \in F : Positions[i][f] = log[LastWith(i, f)][f]
    BY <1>2
  <1>4. \A f : f \in F <=> \E n \in RowsFor(i) : f \in DOMAIN log[n]
    BY DEF F
  <1>5. RowsFor(i) \subseteq Nat
    BY DEF RowsFor
  <1>6. ASSUME NEW f, f \in DOMAIN log[b] PROVE f \in F /\ LastWith(i, f) = b
    <2> DEFINE T == {n \in RowsFor(i) : f \in DOMAIN log[n]}
    <2>1. T \in SUBSET Nat /\ b \in T /\ \A y \in T : y <= b
      BY <1>5, <1>6
    <2>2. Max(T) = b
      BY <2>1, Greatest
    <2> QED BY <2>2, <1>4, <1>6 DEF LastWith
  <1>7. "status" \in DOMAIN log[b]
    BY DEF RowOk
  <1>8. Positions[i].status = log[b].status
    BY <1>3, <1>6, <1>7
  <1>9. "rest_price" \in DOMAIN Positions[i] <=> \E n \in RowsFor(i) : log[n].status = "resting"
    BY <1>3, <1>4 DEF RowOk
  <1>10. ASSUME log[b].status = "resting"
         PROVE  /\ Positions[i].entry_ts = EntryTs(i)
                /\ Positions[i].horizon_end_ts = EntryTs(i) + Horizon
    <2>1. log[b] = RestRow(i)
      BY <1>10 DEF RowOk
    <2>2. /\ "entry_ts" \in DOMAIN log[b] /\ "horizon_end_ts" \in DOMAIN log[b]
          /\ log[b].entry_ts = EntryTs(i) /\ log[b].horizon_end_ts = EntryTs(i) + Horizon
      BY <2>1 DEF RestRow
    <2> QED BY <1>3, <1>6, <2>2
  <1> QED BY <1>2, <1>8, <1>9, <1>10

\* What the fold says of an id in each stage.
LEMMA FoldOfStage ==
    ASSUME NEW S, log \in Seq(S), NEW i, \A n \in RowsFor(i) : RowOk(i, n)
    PROVE  /\ New(i) => i \notin DOMAIN Positions
           /\ \A x : Alone(i, x) => i \in DOMAIN Positions /\ Positions[i].status = x
           /\ \A x, y : Two(i, x, y) =>
                /\ i \in DOMAIN Positions /\ Positions[i].status = y
                /\ "rest_price" \in DOMAIN Positions[i] <=> "resting" \in {x, y}
           /\ \A x, y, z : Three(i, x, y, z) =>
                /\ i \in DOMAIN Positions /\ Positions[i].status = z
                /\ "rest_price" \in DOMAIN Positions[i] <=> "resting" \in {x, y, z}
           /\ \A x : Alone(i, x) => ("rest_price" \in DOMAIN Positions[i] <=> x = "resting")
           /\ Alone(i, "resting") =>
                /\ Positions[i].entry_ts = EntryTs(i)
                /\ Positions[i].horizon_end_ts = EntryTs(i) + Horizon
  <1>0. DOMAIN log \subseteq Nat
    OBVIOUS
  <1>1. New(i) => i \notin DOMAIN Positions
    BY DEF New, RowsFor, Positions
  <1>2. ASSUME NEW x, Alone(i, x)
        PROVE  /\ i \in DOMAIN Positions /\ Positions[i].status = x
               /\ "rest_price" \in DOMAIN Positions[i] <=> x = "resting"
               /\ x = "resting" => /\ Positions[i].entry_ts = EntryTs(i)
                                   /\ Positions[i].horizon_end_ts = EntryTs(i) + Horizon
    <2>1. PICK a \in DOMAIN log : RowsFor(i) = {a} /\ log[a].status = x
      BY <1>2 DEF Alone
    <2>2. a \in RowsFor(i) /\ \A n \in RowsFor(i) : n <= a
      BY <1>0, <2>1
    <2> QED BY <2>1, <2>2, Folds
  <1>3. ASSUME NEW x, NEW y, Two(i, x, y)
        PROVE  /\ i \in DOMAIN Positions /\ Positions[i].status = y
               /\ "rest_price" \in DOMAIN Positions[i] <=> "resting" \in {x, y}
    <2>1. PICK a \in DOMAIN log, b \in DOMAIN log :
            a < b /\ RowsFor(i) = {a, b} /\ log[a].status = x /\ log[b].status = y
      BY <1>3 DEF Two
    <2>2. b \in RowsFor(i) /\ \A n \in RowsFor(i) : n <= b
      BY <1>0, <2>1
    <2> QED BY <2>1, <2>2, Folds
  <1>4. ASSUME NEW x, NEW y, NEW z, Three(i, x, y, z)
        PROVE  /\ i \in DOMAIN Positions /\ Positions[i].status = z
               /\ "rest_price" \in DOMAIN Positions[i] <=> "resting" \in {x, y, z}
    <2>1. PICK a \in DOMAIN log, b \in DOMAIN log, c \in DOMAIN log :
            /\ a < b /\ b < c /\ RowsFor(i) = {a, b, c}
            /\ log[a].status = x /\ log[b].status = y /\ log[c].status = z
      BY <1>4 DEF Three
    <2>2. c \in RowsFor(i) /\ \A n \in RowsFor(i) : n <= c
      BY <1>0, <2>1
    <2> QED BY <2>1, <2>2, Folds
  <1> QED BY <1>1, <1>2, <1>3, <1>4

\* The fold holds nothing but ids.
LEMMA FoldsIds == PaperInv => DOMAIN Positions \subseteq Id
  BY DEF PaperInv, Positions

\* A step that writes no row.
LEMMA NothingWritten ==
    ASSUME PaperInv, UNCHANGED <<world, log>>, now' \in Nat, faults' \in Nat, faults' >= faults,
           torn' \in BOOLEAN, faults' = 0 => torn' = FALSE, PassInv'
    PROVE  PaperInv'
  <1>1. \A n \in DOMAIN log : n \in DOMAIN log' /\ log'[n] = log[n]
    BY DEF PaperInv
  <1>2. \A i : RowsFor(i)' = RowsFor(i)
    BY DEF RowsFor
  <1>3. ASSUME NEW i \in Id
        PROVE  /\ Life(i)' /\ \A n \in RowsFor(i)' : RowOk(i, n)'
               /\ Made(i)' => Traded(i)'
               /\ faults' = 0 /\ Dropped(i)' => ~TradedLater(i)'
    <2>1. /\ Life(i) /\ \A n \in RowsFor(i) : RowOk(i, n)
          /\ Made(i) => Traded(i)
          /\ faults = 0 /\ Dropped(i) => ~TradedLater(i)
      BY DEF PaperInv, Tales
    <2>2. Traded(i)' <=> Traded(i)
      BY DEF Traded, EntryTs
    <2>3. TradedLater(i)' <=> TradedLater(i)
      BY DEF TradedLater, EntryTs
    <2>4. faults' = 0 => faults = 0
      BY DEF PaperInv
    <2>5. /\ Made(i)' <=> Made(i)
          /\ Dropped(i)' <=> Dropped(i)
          /\ Life(i)' <=> Life(i)
          /\ \A n \in RowsFor(i) : RowOk(i, n) => RowOk(i, n)'
      BY <1>1, <1>2, Untouched
    <2> QED BY <1>2, <2>1, <2>2, <2>3, <2>4, <2>5
  <1>4. Tales'
    BY <1>3 DEF Tales
  <1> QED BY <1>4 DEF PaperInv

\* An id a pass is through with.
LEMMA HandledPass ==
    ASSUME PaperInv, NEW p \in Pass, NEW i, Handled(p, i)
    PROVE  /\ pass' = [q \in Pass |-> [todo |-> pass'[q].todo, seen |-> pass'[q].seen]]
           /\ \A q \in Pass : pass'[q].todo = IF q = p THEN pass[q].todo \ {i} ELSE pass[q].todo
           /\ \A q \in Pass : pass'[q].todo # {} => pass'[q].seen = pass[q].seen
  <1>1. pass = [q \in Pass |-> [todo |-> pass[q].todo, seen |-> pass[q].seen]]
    BY DEF PaperInv, PassInv
  <1> DEFINE left == pass[p].todo \ {i}
             new == IF left = {} THEN IdlePass ELSE [todo |-> left, seen |-> pass[p].seen]
  <1>2. pass' = [pass EXCEPT ![p] = new]
    BY DEF Handled
  <1>4. /\ new = [todo |-> new.todo, seen |-> new.seen]
        /\ new.todo = left
        /\ new.todo # {} => new.seen = pass[p].seen
    BY DEF IdlePass
  <1> HIDE DEF new
  <1>5. pass'[p] = new /\ \A q \in Pass : q # p => pass'[q] = pass[q]
    BY <1>1, <1>2
  <1>6. pass' = [q \in Pass |-> pass'[q]]
    BY <1>1, <1>2
  <1>7. \A q \in Pass : pass'[q] = [todo |-> pass'[q].todo, seen |-> pass'[q].seen]
    BY <1>1, <1>4, <1>5
  <1> QED BY <1>4, <1>5, <1>6, <1>7

\* An id is with one pass at most: they look at different stages.
LEMMA OnePassEach ==
    ASSUME PaperInv, NEW p \in Pass, NEW q \in Pass, NEW i, i \in pass[p].todo, i \in pass[q].todo
    PROVE  p = q
  <1>1. PICK S : log \in Seq(S)
    BY DEF PaperInv
  <1>2. /\ i \in pass["scan"].todo => New(i)
        /\ i \in pass["mark"].todo => Alone(i, "resting")
        /\ i \in pass["settle"].todo => Held(i)
    BY DEF PaperInv, PassInv
  <1>3. ~(New(i) /\ Alone(i, "resting")) /\ ~(New(i) /\ Held(i)) /\ ~(Alone(i, "resting") /\ Held(i))
    BY <1>1, OneStage DEF Held, Disjoint
  <1> QED BY <1>2, <1>3 DEF Pass

\* What the other passes and the other ids know stays true.
LEMMA PassesKept ==
    ASSUME PaperInv, NEW p \in Pass, NEW i, i \in pass[p].todo, Handled(p, i), world' = world,
           \A j : j # i => RowsFor(j)' = RowsFor(j), \A n \in DOMAIN log : n \in DOMAIN log' /\ log'[n] = log[n]
    PROVE  PassInv'
  <1>1. /\ pass' = [q \in Pass |-> [todo |-> pass'[q].todo, seen |-> pass'[q].seen]]
        /\ \A q \in Pass : pass'[q].todo = IF q = p THEN pass[q].todo \ {i} ELSE pass[q].todo
        /\ \A q \in Pass : pass'[q].todo # {} => pass'[q].seen = pass[q].seen
    BY HandledPass
  <1>2. ASSUME NEW q \in Pass, NEW j \in pass'[q].todo
        PROVE  j # i /\ j \in pass[q].todo /\ pass'[q].seen = pass[q].seen
    <2>1. j \in pass[q].todo /\ (q = p => j # i)
      BY <1>1, <1>2
    <2>2. q # p => j # i
      BY <2>1, OnePassEach
    <2> QED BY <1>1, <2>1, <2>2
  <1>3. ASSUME NEW j, j # i
        PROVE  /\ New(j)' <=> New(j)
               /\ Held(j)' <=> Held(j)
               /\ Alone(j, "resting")' <=> Alone(j, "resting")
               /\ EntryTs(j)' = EntryTs(j)
    BY <1>3, Untouched DEF EntryTs
  <1>4. /\ \A j \in pass["scan"].todo : New(j)
        /\ \A j \in pass["mark"].todo :
             /\ Alone(j, "resting")
             /\ pass["mark"].seen[j].entry_ts = EntryTs(j)
             /\ pass["mark"].seen[j].horizon_end_ts = EntryTs(j) + Horizon
        /\ \A j \in pass["settle"].todo : Held(j)
        /\ \A q \in Pass : pass[q].todo \subseteq Id
    BY DEF PaperInv, PassInv
  <1>5. "scan" \in Pass /\ "mark" \in Pass /\ "settle" \in Pass
    BY DEF Pass
  <1>6. \A j \in pass'["scan"].todo : New(j)'
    BY <1>2, <1>3, <1>4, <1>5
  <1>7. \A j \in pass'["settle"].todo : Held(j)'
    BY <1>2, <1>3, <1>4, <1>5
  <1>8. ASSUME NEW j \in pass'["mark"].todo
        PROVE  /\ Alone(j, "resting")'
               /\ pass'["mark"].seen[j].entry_ts = EntryTs(j)'
               /\ pass'["mark"].seen[j].horizon_end_ts = EntryTs(j)' + Horizon
    BY <1>2, <1>3, <1>4, <1>5
  <1>9. \A q \in Pass : pass'[q].todo \subseteq Id
    BY <1>2, <1>4
  <1> QED BY <1>1, <1>6, <1>7, <1>8, <1>9 DEF PassInv

\* A pass leaves an id without a word.
LEMMA LeavesId ==
    ASSUME PaperInv, NEW p \in Pass, NEW i, i \in pass[p].todo, Handled(p, i), Leave, UNCHANGED <<world, now>>,
           faults' \in Nat, faults' >= faults
    PROVE  PaperInv'
  <1>1. \A n \in DOMAIN log : n \in DOMAIN log' /\ log'[n] = log[n]
    BY DEF Leave
  <1>2. \A j : RowsFor(j)' = RowsFor(j)
    BY DEF Leave, RowsFor
  <1>3. PassInv'
    BY <1>1, <1>2, PassesKept
  <1>4. now' \in Nat /\ torn' \in BOOLEAN /\ (faults' = 0 => torn' = FALSE)
    BY DEF PaperInv, Leave
  <1>5. UNCHANGED <<world, log>>
    BY DEF Leave
  <1> QED BY <1>3, <1>4, <1>5, NothingWritten

\* A pass writes a row: what remains to be shown is about the row and its id.
LEMMA WritesRow ==
    ASSUME PaperInv, NEW p \in Pass, NEW i, i \in pass[p].todo, Handled(p, i), UNCHANGED <<world, now>>,
           faults' \in Nat, faults' >= faults, NEW row, AppendRow(row),
           row.id = i, "id" \in DOMAIN row, "status" \in DOMAIN row,
           "rest_price" \in DOMAIN row <=> row.status = "resting",
           row.status = "resting" => row = RestRow(i),
           log' = Append(log, row) =>
              /\ Life(i)'
              /\ Made(i)' => Traded(i)
              /\ faults' = 0 /\ Dropped(i)' => ~TradedLater(i)
    PROVE  PaperInv'
  <1>1. torn' = FALSE /\ torn \in BOOLEAN
    BY DEF AppendRow, PaperInv
  <1>2. CASE torn
    <2>1. log' = log
      BY <1>2 DEF AppendRow
    <2>2. \A n \in DOMAIN log : n \in DOMAIN log' /\ log'[n] = log[n]
      BY <2>1
    <2>3. \A j : RowsFor(j)' = RowsFor(j)
      BY <2>1 DEF RowsFor
    <2>4. PassInv'
      BY <2>2, <2>3, PassesKept
    <2>5. now' \in Nat
      BY DEF PaperInv
    <2> QED BY <1>1, <2>1, <2>4, <2>5, NothingWritten
  <1>3. CASE ~torn
    <2>1. log' = Append(log, row)
      BY <1>3 DEF AppendRow
    <2>2. PICK S : log \in Seq(S)
      BY DEF PaperInv
    <2>0. PICK n : n = Len(log) + 1
      OBVIOUS
    <2>3. /\ n \in DOMAIN log' /\ log'[n] = row
          /\ RowsFor(i)' = RowsFor(i) \cup {n}
          /\ \A k \in DOMAIN log : k \in DOMAIN log' /\ log'[k] = log[k]
          /\ \A j : j # i => RowsFor(j)' = RowsFor(j)
          /\ log' \in Seq(S \cup {row})
          /\ DOMAIN log' = DOMAIN log \cup {n}
      BY <2>0, <2>1, <2>2, Appended
    <2>4. PassInv'
      BY <2>3, PassesKept
    <2>5. i \in Id
      BY DEF PaperInv, PassInv
    <2>6. \A j : EntryTs(j)' = EntryTs(j) /\ RestRow(j)' = RestRow(j)
      BY DEF EntryTs, RestRow
    <2>7. \A j \in Id : Life(j) /\ (\A k \in RowsFor(j) : RowOk(j, k)) /\ (Made(j) => Traded(j)) /\ (faults = 0 /\ Dropped(j) => ~TradedLater(j))
      BY DEF PaperInv, Tales
    <2>8. \A j : (Traded(j)' <=> Traded(j)) /\ (TradedLater(j)' <=> TradedLater(j))
      BY <2>6 DEF Traded, TradedLater
    <2>9. \A k \in RowsFor(i)' : RowOk(i, k)'
      <3>1. RowOk(i, n)'
        BY <2>3, <2>6 DEF RowOk
      <3>2. ASSUME NEW k \in RowsFor(i) PROVE RowOk(i, k)'
        <4>1. k \in DOMAIN log /\ RowOk(i, k)
          BY <2>5, <2>7 DEF RowsFor
        <4>2. log'[k] = log[k]
          BY <4>1, <2>3
        <4> QED BY <4>1, <4>2, <2>6 DEF RowOk
      <3> QED BY <3>1, <3>2, <2>3
    <2>10. ASSUME NEW j \in Id, j # i
           PROVE  /\ Life(j)' /\ \A k \in RowsFor(j)' : RowOk(j, k)'
                  /\ Made(j)' => Traded(j)'
                  /\ faults' = 0 /\ Dropped(j)' => ~TradedLater(j)'
      <3>1. RowsFor(j)' = RowsFor(j)
        BY <2>3, <2>10
      <3>2. /\ Made(j)' <=> Made(j)
            /\ Dropped(j)' <=> Dropped(j)
            /\ Life(j)' <=> Life(j)
            /\ \A k \in RowsFor(j) : RowOk(j, k) => RowOk(j, k)'
        BY <2>3, <3>1, Untouched
      <3>3. faults' = 0 => faults = 0
        BY DEF PaperInv
      <3> QED BY <2>7, <2>8, <3>1, <3>2, <3>3
    <2>11. Tales'
      BY <2>1, <2>8, <2>9, <2>10 DEF Tales
    <2>12. \A k \in DOMAIN log' : "id" \in DOMAIN log'[k] /\ log'[k].id \in Id
      BY <2>3, <2>5 DEF PaperInv
    <2>13. \E T : log' \in Seq(T)
      BY <2>3
    <2>14. world' \in Worlds /\ now' \in Nat
      BY DEF PaperInv
    <2> QED BY <1>1, <2>4, <2>11, <2>12, <2>13, <2>14 DEF PaperInv
  <1> QED BY <1>1, <1>2, <1>3

\* A fetch that is not answered is a fault.
LEMMA FaultsCounted ==
    ASSUME faults \in Nat, NEW answer, Fetches(answer)
    PROVE  faults' \in Nat /\ faults' >= faults /\ (faults' = 0 => answer = "ok")
  BY DEF Fetches

\* The scan pass opens a position or rests an order where there is nothing yet.
LEMMA ScanKeeps == ASSUME PaperInv, NEW i \in Id, Scan(i) PROVE PaperInv'
  <1>1. PICK answer \in {"ok", "none"} :
          /\ Fetches(answer)
          /\ IF world[i].kind = "maker" THEN ScanAndRest(i, answer) ELSE ScanAndOpen(i, answer)
    BY DEF Scan
  <1>2. /\ i \in pass["scan"].todo /\ Handled("scan", i) /\ UNCHANGED <<world, now>> /\ "scan" \in Pass
        /\ faults' \in Nat /\ faults' >= faults
    BY <1>1, FaultsCounted DEF Scan, PaperInv, Pass
  <1>3. New(i)
    BY <1>2 DEF PaperInv, PassInv
  <1>4. PICK S : log \in Seq(S)
    BY DEF PaperInv
  <1>5. ASSUME NEW row, row.id = i, log' = Append(log, row), row.status \in {"open", "resting"}
        PROVE  /\ Life(i)'
               /\ Made(i)' => Traded(i)
               /\ faults' = 0 /\ Dropped(i)' => ~TradedLater(i)
    <2>1. Alone(i, row.status)'
      BY <1>3, <1>4, <1>5, Chapters
    <2>2. log' \in Seq(S \cup {row})
      BY <1>4, <1>5, Appended
    <2>3. Disjoint(i)'
      BY <2>2, OneStageNext
    <2>4. ~Made(i)' /\ ~Dropped(i)'
      BY <2>1, <2>3 DEF Made, Dropped, Disjoint
    <2> QED BY <1>5, <2>1, <2>4 DEF Life
  <1>6. CASE Leave
    BY <1>2, <1>6, LeavesId
  <1>7. ASSUME AppendRow(RestRow(i)) PROVE PaperInv'
    <2> DEFINE row == RestRow(i)
    <2>1. /\ row.id = i /\ "id" \in DOMAIN row /\ "status" \in DOMAIN row
          /\ "rest_price" \in DOMAIN row /\ row.status = "resting"
      BY DEF RestRow, Resting
    <2> HIDE DEF row
    <2> QED BY <1>2, <1>5, <1>7, <2>1, WritesRow DEF row
  <1>8. ASSUME NEW all, AppendRow(OpenRow(i, all)) PROVE PaperInv'
    <2> DEFINE row == OpenRow(i, all)
    <2>1. /\ row.id = i /\ "id" \in DOMAIN row /\ "status" \in DOMAIN row
          /\ "rest_price" \notin DOMAIN row /\ row.status = "open"
      BY DEF OpenRow
    <2> HIDE DEF row
    <2> QED BY <1>2, <1>5, <1>8, <2>1, WritesRow DEF row
  <1> QED BY <1>1, <1>6, <1>7, <1>8 DEF ScanAndRest, ScanAndOpen

\* The mark pass fills an order whose price traded, and drops one whose horizon
\* is over.
LEMMA MarkKeeps == ASSUME PaperInv, NEW i \in Id, Mark(i) PROVE PaperInv'
  <1> DEFINE pos == pass["mark"].seen[i]
  <1>1. PICK answer \in {"ok", "none", "partial"} : Fetches(answer) /\ MarkBook(i, pos, answer)
    BY DEF Mark
  <1>2. /\ i \in pass["mark"].todo /\ Handled("mark", i) /\ UNCHANGED <<world, now>> /\ "mark" \in Pass
        /\ faults' \in Nat /\ faults' >= faults /\ (faults' = 0 => answer = "ok")
    BY <1>1, FaultsCounted DEF Mark, PaperInv, Pass
  <1>3. Alone(i, "resting") /\ pos.entry_ts = EntryTs(i) /\ pos.horizon_end_ts = EntryTs(i) + Horizon
    BY <1>2 DEF PaperInv, PassInv
  <1>4. PICK S : log \in Seq(S)
    BY DEF PaperInv
  <1>5. now \in Nat /\ EntryTs(i) \in Nat /\ EntryTs(i) + Horizon \in Nat /\ world[i].prints \subseteq Nat
    BY DEF PaperInv, EntryTs
  <1> HIDE DEF pos
  <1>6. /\ DetectFill(i, pos) # {} => Traded(i)
        /\ DetectFill(i, pos) = {} /\ now > pos.horizon_end_ts => ~TradedLater(i)
    <2> DEFINE first == Min({pos.entry_ts, now})
    <2>1. first \in {pos.entry_ts, now} /\ first <= pos.entry_ts
      <3>1. \E x \in {pos.entry_ts, now} : \A y \in {pos.entry_ts, now} : x <= y
        BY <1>3, <1>5
      <3> QED BY <1>3, <1>5, <3>1 DEF Min
    <2> HIDE DEF first
    <2>2. DetectFill(i, pos) = {t \in world[i].prints : t >= first /\ t <= pos.horizon_end_ts /\ t <= now}
      BY DEF DetectFill, first
    <2> QED BY <1>3, <1>5, <2>1, <2>2 DEF Traded, TradedLater
  <1>7. ASSUME NEW row, row.id = i, log' = Append(log, row), row.status \in {"filled", "cancelled"}
        PROVE  /\ Life(i)'
               /\ Made(i)' => row.status = "filled"
               /\ Dropped(i)' => row.status = "cancelled"
    <2>1. Two(i, "resting", row.status)'
      BY <1>3, <1>4, <1>7, Chapters
    <2>2. log' \in Seq(S \cup {row})
      BY <1>4, <1>7, Appended
    <2>3. Disjoint(i)'
      BY <2>2, OneStageNext
    <2> QED BY <1>7, <2>1, <2>3 DEF Made, Dropped, Disjoint, Life
  <1>8. CASE answer = "ok" /\ DetectFill(i, pos) # {}
    <2> DEFINE row == [id |-> i, kind |-> "fill", status |-> "filled",
                       filled_ts |-> Min(DetectFill(i, pos)), all_in |-> pos.rest_price]
    <2>1. AppendRow(row)
      BY <1>1, <1>8 DEF MarkBook
    <2>2. /\ row.id = i /\ "id" \in DOMAIN row /\ "status" \in DOMAIN row
          /\ "rest_price" \notin DOMAIN row /\ row.status = "filled"
      OBVIOUS
    <2> HIDE DEF row
    <2> QED BY <1>2, <1>6, <1>7, <1>8, <2>1, <2>2, WritesRow
  <1>9. CASE ~(answer = "ok" /\ DetectFill(i, pos) # {}) /\ now > pos.horizon_end_ts
    <2> DEFINE row == [id |-> i, kind |-> "cancel", status |-> "cancelled",
                       reason |-> IF answer = "none" THEN "book_unavailable" ELSE "horizon_expired_unfilled"]
    <2>1. AppendRow(row)
      BY <1>1, <1>9 DEF MarkBook
    <2>2. /\ row.id = i /\ "id" \in DOMAIN row /\ "status" \in DOMAIN row
          /\ "rest_price" \notin DOMAIN row /\ row.status = "cancelled"
      OBVIOUS
    <2> HIDE DEF row
    <2> QED BY <1>2, <1>6, <1>7, <1>9, <2>1, <2>2, WritesRow
  <1>10. CASE ~(answer = "ok" /\ DetectFill(i, pos) # {}) /\ ~(now > pos.horizon_end_ts)
    <2>1. Leave
      BY <1>1, <1>10 DEF MarkBook
    <2> QED BY <1>2, <2>1, LeavesId
  <1> QED BY <1>8, <1>9, <1>10

\* The settle pass closes what is held.
LEMMA SettleKeeps == ASSUME PaperInv, NEW i \in Id, Settle(i) PROVE PaperInv'
  <1> DEFINE pos == pass["settle"].seen[i]
  <1>1. PICK answer \in {"ok", "none"} : Fetches(answer) /\ SettleBook(i, pos, answer)
    BY DEF Settle
  <1>2. /\ i \in pass["settle"].todo /\ Handled("settle", i) /\ UNCHANGED <<world, now>> /\ "settle" \in Pass
        /\ faults' \in Nat /\ faults' >= faults
    BY <1>1, FaultsCounted DEF Settle, PaperInv, Pass
  <1>3. Held(i) /\ (Made(i) => Traded(i))
    BY <1>2 DEF PaperInv, PassInv, Tales
  <1>4. PICK S : log \in Seq(S)
    BY DEF PaperInv
  <1> HIDE DEF pos
  <1>5. ASSUME NEW row, row.id = i, log' = Append(log, row), row.status = "settled"
        PROVE  Life(i)' /\ (Made(i)' => Traded(i)) /\ ~Dropped(i)'
    <2>1. \/ Two(i, "open", "settled")'
          \/ Three(i, "resting", "filled", "settled")' /\ Made(i)
      BY <1>3, <1>4, <1>5, Chapters DEF Held, Made
    <2>2. log' \in Seq(S \cup {row})
      BY <1>4, <1>5, Appended
    <2>3. Disjoint(i)'
      BY <2>2, OneStageNext
    <2> QED BY <1>3, <2>1, <2>3 DEF Made, Dropped, Disjoint, Life
  <1>6. CASE answer # "ok" \/ now < world[i].resolves
    <2>1. Leave
      BY <1>1, <1>6 DEF SettleBook
    <2> QED BY <1>2, <2>1, LeavesId
  <1>7. CASE ~(answer # "ok" \/ now < world[i].resolves)
    <2> DEFINE payoff == IF world[i].win THEN Dollar ELSE 0
               row == [id |-> i, kind |-> "settle", status |-> "settled", payoff |-> payoff, pnl |-> payoff - pos.all_in]
    <2>1. AppendRow(row)
      BY <1>1, <1>7 DEF SettleBook
    <2>2. /\ row.id = i /\ "id" \in DOMAIN row /\ "status" \in DOMAIN row
          /\ "rest_price" \notin DOMAIN row /\ row.status = "settled"
      OBVIOUS
    <2> HIDE DEF row
    <2> QED BY <1>2, <1>5, <2>1, <2>2, WritesRow
  <1> QED BY <1>6, <1>7

\* A pass starts from the fold of the file.
LEMMA StartKeeps == ASSUME PaperInv, NEW p \in Pass, StartPass(p) PROVE PaperInv'
  <1> DEFINE pos == Positions
             todo == CASE p = "scan" -> {i \in Id : ~InHeld(i, pos)}
                       [] p = "mark" -> {i \in DOMAIN pos : pos[i].status = Resting}
                       [] p = "settle" -> {i \in DOMAIN pos : pos[i].status \in {"open", "filled"}}
             seen == [i \in todo \cap DOMAIN pos |-> pos[i]]
  <1>1. pass' = [pass EXCEPT ![p] = [todo |-> todo, seen |-> seen]] /\ UNCHANGED <<world, now, log, torn, faults>>
    BY DEF StartPass
  <1>2. PICK S : log \in Seq(S)
    BY DEF PaperInv
  <1>3. DOMAIN pos \subseteq Id
    BY FoldsIds
  <1>4. \A i \in Id : Life(i) /\ \A n \in RowsFor(i) : RowOk(i, n)
    BY DEF PaperInv, Tales
  <1> HIDE DEF pos
  <1>5. ASSUME NEW i \in Id
        PROVE  /\ i \notin DOMAIN pos => New(i)
               /\ i \in DOMAIN pos /\ pos[i].status = "resting" =>
                    /\ Alone(i, "resting") /\ pos[i].entry_ts = EntryTs(i)
                    /\ pos[i].horizon_end_ts = EntryTs(i) + Horizon
               /\ i \in DOMAIN pos /\ pos[i].status \in {"open", "filled"} => Held(i)
    BY <1>2, <1>4, FoldOfStage DEF Life, Held, Made, Dropped, pos
  <1>6. /\ p = "scan" => todo = {i \in Id : i \notin DOMAIN pos}
        /\ p = "mark" => todo = {i \in DOMAIN pos : pos[i].status = "resting"}
        /\ p = "settle" => todo = {i \in DOMAIN pos : pos[i].status \in {"open", "filled"}}
    BY DEF InHeld, Resting
  <1>7. \A i \in todo \cap DOMAIN pos : seen[i] = pos[i]
    OBVIOUS
  <1> HIDE DEF todo, seen
  <1>8. todo \subseteq Id
    BY <1>3, <1>6 DEF Pass
  <1>9. /\ pass = [q \in Pass |-> [todo |-> pass[q].todo, seen |-> pass[q].seen]]
        /\ \A i \in pass["scan"].todo : New(i)
        /\ \A i \in pass["mark"].todo :
             /\ Alone(i, "resting")
             /\ pass["mark"].seen[i].entry_ts = EntryTs(i)
             /\ pass["mark"].seen[i].horizon_end_ts = EntryTs(i) + Horizon
        /\ \A i \in pass["settle"].todo : Held(i)
        /\ \A q \in Pass : pass[q].todo \subseteq Id
    BY DEF PaperInv, PassInv
  <1>10. /\ pass'[p] = [todo |-> todo, seen |-> seen]
         /\ \A q \in Pass : q # p => pass'[q] = pass[q]
         /\ pass' = [q \in Pass |-> pass'[q]]
    BY <1>1, <1>9
  <1>11. \A q \in Pass : pass'[q] = [todo |-> pass'[q].todo, seen |-> pass'[q].seen]
    BY <1>9, <1>10
  <1>12. ASSUME NEW i
         PROVE  /\ New(i)' <=> New(i)
                /\ Held(i)' <=> Held(i)
                /\ Alone(i, "resting")' <=> Alone(i, "resting")
                /\ EntryTs(i)' = EntryTs(i)
    BY <1>1, StillTrue
  <1>13. "scan" \in Pass /\ "mark" \in Pass /\ "settle" \in Pass
    BY DEF Pass
  <1>14. \A i \in pass'["scan"].todo : New(i)
    BY <1>5, <1>6, <1>9, <1>10, <1>13
  <1>15. \A i \in pass'["settle"].todo : Held(i)
    BY <1>3, <1>5, <1>6, <1>9, <1>10, <1>13
  <1>16. ASSUME NEW i \in pass'["mark"].todo
         PROVE  /\ Alone(i, "resting")
                /\ pass'["mark"].seen[i].entry_ts = EntryTs(i)
                /\ pass'["mark"].seen[i].horizon_end_ts = EntryTs(i) + Horizon
    <2>1. CASE p = "mark"
      <3>1. i \in todo /\ i \in DOMAIN pos /\ pos[i].status = "resting" /\ i \in Id
        BY <1>3, <1>6, <1>10, <2>1
      <3>2. pass'["mark"].seen[i] = pos[i]
        BY <1>7, <1>10, <2>1, <3>1
      <3> QED BY <1>5, <3>1, <3>2
    <2>2. CASE p # "mark"
      BY <1>9, <1>10, <1>13, <2>2
    <2> QED BY <2>1, <2>2
  <1>17. \A q \in Pass : pass'[q].todo \subseteq Id
    BY <1>8, <1>9, <1>10
  <1>18. PassInv'
    <2>1. pass' = [q \in Pass |-> [todo |-> pass'[q].todo, seen |-> pass'[q].seen]]
      BY <1>10, <1>11
    <2>2. \A i \in pass'["scan"].todo : New(i)'
      BY <1>12, <1>14
    <2>3. \A i \in pass'["settle"].todo : Held(i)'
      BY <1>12, <1>15
    <2>4. \A i \in pass'["mark"].todo :
            /\ Alone(i, "resting")'
            /\ pass'["mark"].seen[i].entry_ts = EntryTs(i)'
            /\ pass'["mark"].seen[i].horizon_end_ts = EntryTs(i)' + Horizon
      BY <1>12, <1>16
    <2> QED BY <1>17, <2>1, <2>2, <2>3, <2>4 DEF PassInv
  <1>19. /\ UNCHANGED <<world, log>> /\ now' \in Nat /\ faults' \in Nat /\ faults' >= faults
         /\ torn' \in BOOLEAN /\ (faults' = 0 => torn' = FALSE)
    BY <1>1 DEF PaperInv
  <1> QED BY <1>18, <1>19, NothingWritten

\* A pass that dies forgets what it had to go.
LEMMA DieKeeps == ASSUME PaperInv, NEW p \in Pass, DiePass(p) PROVE PaperInv'
  <1>1. /\ pass' = [pass EXCEPT ![p] = IdlePass] /\ UNCHANGED <<world, now, log>>
        /\ torn' \in {torn, TRUE} /\ faults' = faults + 1
    BY DEF DiePass
  <1>2. ASSUME NEW i
        PROVE  /\ New(i)' <=> New(i)
               /\ Held(i)' <=> Held(i)
               /\ Alone(i, "resting")' <=> Alone(i, "resting")
               /\ EntryTs(i)' = EntryTs(i)
    BY <1>1, StillTrue
  <1>3. /\ pass = [q \in Pass |-> [todo |-> pass[q].todo, seen |-> pass[q].seen]]
        /\ \A i \in pass["scan"].todo : New(i)
        /\ \A i \in pass["mark"].todo :
             /\ Alone(i, "resting")
             /\ pass["mark"].seen[i].entry_ts = EntryTs(i)
             /\ pass["mark"].seen[i].horizon_end_ts = EntryTs(i) + Horizon
        /\ \A i \in pass["settle"].todo : Held(i)
        /\ \A q \in Pass : pass[q].todo \subseteq Id
    BY DEF PaperInv, PassInv
  <1>4. /\ pass'[p] = IdlePass
        /\ \A q \in Pass : q # p => pass'[q] = pass[q]
        /\ pass' = [q \in Pass |-> pass'[q]]
    BY <1>1, <1>3
  <1>5. IdlePass = [todo |-> IdlePass.todo, seen |-> IdlePass.seen] /\ IdlePass.todo = {}
    BY DEF IdlePass
  <1>6. \A q \in Pass : pass'[q] = [todo |-> pass'[q].todo, seen |-> pass'[q].seen]
    BY <1>3, <1>4, <1>5
  <1>7. \A q \in Pass : \A i \in pass'[q].todo : pass'[q] = pass[q] /\ i \in pass[q].todo
    BY <1>4, <1>5
  <1>8. "scan" \in Pass /\ "mark" \in Pass /\ "settle" \in Pass
    BY DEF Pass
  <1>9. PassInv'
    <2>1. pass' = [q \in Pass |-> [todo |-> pass'[q].todo, seen |-> pass'[q].seen]]
      BY <1>4, <1>6
    <2>2. \A i \in pass'["scan"].todo : New(i)'
      BY <1>2, <1>3, <1>7, <1>8
    <2>3. \A i \in pass'["settle"].todo : Held(i)'
      BY <1>2, <1>3, <1>7, <1>8
    <2>4. \A i \in pass'["mark"].todo :
            /\ Alone(i, "resting")'
            /\ pass'["mark"].seen[i].entry_ts = EntryTs(i)'
            /\ pass'["mark"].seen[i].horizon_end_ts = EntryTs(i)' + Horizon
      BY <1>2, <1>3, <1>7, <1>8
    <2>5. \A q \in Pass : pass'[q].todo \subseteq Id
      BY <1>3, <1>7
    <2> QED BY <2>1, <2>2, <2>3, <2>4, <2>5 DEF PassInv
  <1>10. now' \in Nat /\ faults' \in Nat /\ faults' >= faults /\ faults' # 0
    BY <1>1 DEF PaperInv
  <1>11. torn' \in BOOLEAN
    BY <1>1, Zenon DEF PaperInv
  <1> QED BY <1>1, <1>9, <1>10, <1>11, NothingWritten

\* Time passes, or nothing happens.
LEMMA IdleKeeps == ASSUME PaperInv, Minute \/ UNCHANGED paperVars PROVE PaperInv'
  <1>1. UNCHANGED <<world, log, torn, pass, faults>> /\ now' \in Nat
    BY DEF Minute, paperVars, PaperInv
  <1>2. PassInv'
    <2>1. ASSUME NEW i
          PROVE  /\ New(i)' <=> New(i)
                 /\ Held(i)' <=> Held(i)
                 /\ Alone(i, "resting")' <=> Alone(i, "resting")
                 /\ EntryTs(i)' = EntryTs(i)
      BY <1>1, StillTrue
    <2> QED BY <1>1, <2>1 DEF PassInv, PaperInv
  <1>3. /\ faults' \in Nat /\ faults' >= faults /\ torn' \in BOOLEAN /\ (faults' = 0 => torn' = FALSE)
    BY <1>1 DEF PaperInv
  <1> QED BY <1>1, <1>2, <1>3, NothingWritten

\* An empty book tells nothing.
LEMMA PaperInitInv == PaperInit => PaperInv
  <1> SUFFICES ASSUME PaperInit PROVE PaperInv
    OBVIOUS
  <1>1. /\ world \in Worlds /\ now = 0 /\ log = <<>> /\ torn = FALSE /\ faults = 0
        /\ pass = [p \in Pass |-> IdlePass]
    BY DEF PaperInit
  <1>2. DOMAIN log = {} /\ log \in Seq({})
    BY <1>1
  <1>3. \A i : RowsFor(i) = {}
    BY <1>2 DEF RowsFor
  <1>4. \A i : New(i) /\ ~Made(i) /\ ~Dropped(i)
    BY <1>3 DEF New, Made, Dropped, Two, Three
  <1>5. Tales
    BY <1>3, <1>4 DEF Tales, Life
  <1>6. PassInv
    <2>1. \A p \in Pass : pass[p] = [todo |-> pass[p].todo, seen |-> pass[p].seen] /\ pass[p].todo = {}
      BY <1>1 DEF IdlePass
    <2>2. pass = [p \in Pass |-> pass[p]]
      BY <1>1
    <2>3. "scan" \in Pass /\ "mark" \in Pass /\ "settle" \in Pass
      BY DEF Pass
    <2>4. pass = [p \in Pass |-> [todo |-> pass[p].todo, seen |-> pass[p].seen]]
      BY <2>1, <2>2
    <2> QED BY <2>1, <2>3, <2>4 DEF PassInv
  <1> QED BY <1>1, <1>2, <1>5, <1>6 DEF PaperInv

\* The rows of every id tell one story.
LEMMA TalesAreStories == PaperInv => OneStoryPerSignal
  <1> SUFFICES ASSUME PaperInv, NEW i \in Id
               PROVE  \E story \in {<<"open", "settled">>, <<"resting", "filled", "settled">>, <<"resting", "cancelled">>} :
                        Tells(i, story)
    BY DEF OneStoryPerSignal
  <1>0. PICK S : log \in Seq(S)
    BY DEF PaperInv
  <1>1. DOMAIN log \subseteq Nat
    BY <1>0
  <1>2. Cardinality({}) = 0 /\ \A a : IsFiniteSet({a}) /\ Cardinality({a}) = 1
    BY FS_EmptySet, FS_Singleton
  <1>3. ASSUME NEW a \in DOMAIN log, NEW b \in DOMAIN log, a < b
        PROVE  Cardinality({a, b}) = 2
    <2>1. a # b
      BY <1>1, <1>3
    <2> QED BY <2>1, CountTwo
  <1>4. ASSUME NEW a \in DOMAIN log, NEW b \in DOMAIN log, NEW c \in DOMAIN log, a < b, b < c
        PROVE  Cardinality({a, b, c}) = 3
    <2>1. a # b /\ a # c /\ b # c
      BY <1>1, <1>4
    <2> QED BY <2>1, CountThree
  <1>5. New(i) => Tells(i, <<"open", "settled">>)
    BY <1>2 DEF New, Tells
  <1>6. ASSUME NEW x, NEW story \in {<<"open", "settled">>, <<"resting", "filled", "settled">>}, Alone(i, x), x = story[1]
        PROVE  Tells(i, story)
    <2>1. PICK a \in DOMAIN log : RowsFor(i) = {a} /\ log[a].status = x
      BY <1>6 DEF Alone
    <2>2. {m \in {a} : m <= a} = {a}
      BY <1>1
    <2>3. 1 <= Len(story)
      OBVIOUS
    <2> QED BY <1>2, <1>6, <2>1, <2>2, <2>3 DEF Tells
  <1>7. ASSUME NEW x, NEW y, NEW story \in {<<"open", "settled">>, <<"resting", "filled", "settled">>, <<"resting", "cancelled">>},
               Two(i, x, y), x = story[1], y = story[2]
        PROVE  Tells(i, story)
    <2>1. PICK a \in DOMAIN log, b \in DOMAIN log :
            a < b /\ RowsFor(i) = {a, b} /\ log[a].status = x /\ log[b].status = y
      BY <1>7 DEF Two
    <2>2. {m \in {a, b} : m <= a} = {a} /\ {m \in {a, b} : m <= b} = {a, b}
      BY <1>1, <2>1
    <2>3. 2 <= Len(story)
      OBVIOUS
    <2>4. Cardinality({a}) = 1 /\ Cardinality({a, b}) = 2
      BY <1>2, <1>3, <2>1
    <2> QED BY <1>7, <2>1, <2>2, <2>3, <2>4 DEF Tells
  <1>8. ASSUME Three(i, "resting", "filled", "settled") PROVE Tells(i, <<"resting", "filled", "settled">>)
    <2>1. PICK a \in DOMAIN log, b \in DOMAIN log, c \in DOMAIN log :
            /\ a < b /\ b < c /\ RowsFor(i) = {a, b, c}
            /\ log[a].status = "resting" /\ log[b].status = "filled" /\ log[c].status = "settled"
      BY <1>8 DEF Three
    <2>2. /\ {m \in {a, b, c} : m <= a} = {a} /\ {m \in {a, b, c} : m <= b} = {a, b}
          /\ {m \in {a, b, c} : m <= c} = {a, b, c}
      BY <1>1, <2>1
    <2>3. Cardinality({a}) = 1 /\ Cardinality({a, b}) = 2 /\ Cardinality({a, b, c}) = 3
      BY <1>2, <1>3, <1>4, <2>1
    <2> QED BY ONLY <2>1, <2>2, <2>3 DEF Tells
  <1>9. Life(i)
    BY DEF PaperInv, Tales
  <1>10. CASE New(i)
    BY <1>5, <1>10
  <1>11. CASE Alone(i, "open")
    BY <1>6, <1>11
  <1>12. CASE Alone(i, "resting")
    BY <1>6, <1>12
  <1>13. CASE Two(i, "open", "settled")
    BY <1>7, <1>13
  <1>14. CASE Two(i, "resting", "filled")
    BY <1>7, <1>14
  <1>15. CASE Two(i, "resting", "cancelled")
    BY <1>7, <1>15
  <1> QED BY <1>8, <1>9, <1>10, <1>11, <1>12, <1>13, <1>14, <1>15 DEF Life, Made, Dropped

\* What is counted as filled did trade, and what is counted as dropped did not.
LEMMA TalesAreTrue == PaperInv => FillRateIsTrue
  <1> SUFFICES ASSUME PaperInv, faults = 0, NEW i \in Id, i \in DecidedSignals, \A t \in world[i].prints : t >= EntryTs(i)
               PROVE  i \in FilledSignals <=> \E t \in world[i].prints : t <= EntryTs(i) + Horizon
    BY DEF FillRateIsTrue
  <1>0. PICK S : log \in Seq(S)
    BY DEF PaperInv
  <1>1. /\ Life(i) /\ \A n \in RowsFor(i) : RowOk(i, n)
        /\ Made(i) => Traded(i)
        /\ Dropped(i) => ~TradedLater(i)
    BY DEF PaperInv, Tales
  <1>2. /\ i \in DOMAIN Positions /\ "rest_price" \in DOMAIN Positions[i]
        /\ Positions[i].status \in {"filled", "settled", "cancelled"}
    BY DEF DecidedSignals, Count
  <1>3. i \in FilledSignals <=> Positions[i].status \in {"filled", "settled"}
    BY <1>2 DEF FilledSignals, Count
  <1>4. \/ Made(i) /\ Positions[i].status \in {"filled", "settled"}
        \/ Dropped(i) /\ Positions[i].status = "cancelled"
    <2>1. New(i) => FALSE
      BY <1>0, <1>1, <1>2, FoldOfStage
    <2>2. Alone(i, "open") => FALSE
      BY <1>0, <1>1, <1>2, FoldOfStage
    <2>3. Alone(i, "resting") => FALSE
      BY <1>0, <1>1, <1>2, FoldOfStage
    <2>4. Two(i, "open", "settled") => FALSE
      BY <1>0, <1>1, <1>2, FoldOfStage
    <2>5. Two(i, "resting", "filled") => Positions[i].status = "filled"
      BY <1>0, <1>1, FoldOfStage
    <2>6. Three(i, "resting", "filled", "settled") => Positions[i].status = "settled"
      BY <1>0, <1>1, FoldOfStage
    <2>7. Two(i, "resting", "cancelled") => Positions[i].status = "cancelled"
      BY <1>0, <1>1, FoldOfStage
    <2> QED BY <1>1, <2>1, <2>2, <2>3, <2>4, <2>5, <2>6, <2>7 DEF Life, Made, Dropped
  <1> QED BY <1>1, <1>3, <1>4 DEF Traded, TradedLater

\* The invariant of the paper book.
THEOREM PaperInvHolds == PaperSpec => []PaperInv
  <1>1. PaperInv /\ [PaperNext]_paperVars => PaperInv'
    BY ScanKeeps, MarkKeeps, SettleKeeps, StartKeeps, DieKeeps, IdleKeeps DEF PaperNext
  <1> QED BY <1>1, PaperInitInv, PTL DEF PaperSpec

\* scan_and_open, mark_book and settle_book: however the passes overlap, die or lose
\* a line, the rows of a signal tell one position's life, each chapter once.
THEOREM BookTellsOneStory == PaperSpec => []OneStoryPerSignal
  BY PaperInvHolds, TalesAreStories, PTL

\* status: while every fetch is answered, the signals counted as filled are the
\* decided ones whose price traded within the horizon, for any world and any delay.
THEOREM FillRateIsRight == PaperSpec => []FillRateIsTrue
  BY PaperInvHolds, TalesAreTrue, PTL

-----------------------------------------------------------------------------
(***************************************************************************)
(* The lab's trials.                                                       *)
(***************************************************************************)
USE LabAssumption DEF LabAssumption

\* An idea whose trial the ledger has, whose registry record has a verdict, and
\* whose verdict is on its way from the one file to the other.
InLedger(i) == \E n \in DOMAIN trialLog : trialLog[n].id = i
Verdicted(i) == registry[i].verdict # Unsettled
Settling(i) == \E a \in Analyst : At(a, "ledger") /\ Current(a) = i

RecordShape(r) == r = [status |-> r.status, verdict |-> r.verdict]
TaskShape(t) ==
    /\ t = [stage |-> t.stage, chosen |-> t.chosen, seen |-> t.seen, verdict |-> t.verdict, worked |-> t.worked]
    /\ t.chosen \in Seq(Idea) /\ RecordShape(t.seen)
    /\ t.stage \notin {"idle", "next"} => t.chosen # <<>>

LabTypes ==
    /\ registry = [i \in Idea |-> registry[i]] /\ \A i \in Idea : RecordShape(registry[i])
    /\ \E S : trialLog \in Seq(S)
    /\ task = [a \in Analyst |-> task[a]] /\ \A a \in Analyst : TaskShape(task[a])
    /\ ran \subseteq Idea

\* Nothing can fail: whatever is settled reaches the ledger.
Faultless ==
    /\ labFaults = 0
    /\ \A i \in ran : InLedger(i) \/ Settling(i)

\* One analyst alone: no record it has read is older than the file's, so a verdict in
\* the registry stays, and before the first fault every verdict is there.
Lone ==
    /\ labFaults \in 0..1 /\ passes = 0 /\ fold = <<>>
    /\ \A a \in Analyst \ {Resident} : At(a, "idle")
    /\ \A i \in Idea : registry[i].status = "absent" => ~Verdicted(i)
    /\ At(Resident, "claim") \/ At(Resident, "update") => task[Resident].seen = registry[Current(Resident)]
    /\ labFaults = 1 => ~halfLine /\ \A i \in ran : Verdicted(i)
    /\ \A i \in ran : InLedger(i) \/ Settling(i) \/ Verdicted(i)

LabInv == LabTypes /\ (Faultless \/ Lone)

\* Only a pass's analyst changes its task, and what it works on is an idea.
LEMMA Working ==
    ASSUME LabTypes, NEW a \in Analyst, task[a].chosen # <<>>
    PROVE  Current(a) \in Idea /\ Tail(task[a].chosen) \in Seq(Idea)
  BY DEF LabTypes, TaskShape, Current

\* An appended record is there, or the file is as it was.
LEMMA RecordAppended ==
    ASSUME LabTypes, NEW i \in Idea, NEW rec, AppendRecord(i, rec), RecordShape(rec)
    PROVE  /\ registry' = [j \in Idea |-> registry'[j]]
           /\ \A j \in Idea : RecordShape(registry'[j])
           /\ \A j \in Idea : registry'[j] = registry[j] \/ (j = i /\ registry'[j] = rec)
           /\ halfLine => registry' = registry
           /\ ~halfLine => registry'[i] = rec
           /\ halfLine' = FALSE
  <1>1. CASE halfLine = TRUE
    BY <1>1 DEF AppendRecord, LabTypes
  <1>2. CASE halfLine # TRUE
    BY <1>2 DEF AppendRecord, LabTypes
  <1> QED BY <1>1, <1>2

\* A log only grows.
LEMMA Grows ==
    ASSUME NEW S, trialLog \in Seq(S), NEW row, trialLog' = Append(trialLog, row)
    PROVE  /\ \E T : trialLog' \in Seq(T)
           /\ \A i : InLedger(i) \/ i = row.id => InLedger(i)'
  <1>1. trialLog \in Seq(S \cup {row}) /\ row \in S \cup {row}
    OBVIOUS
  <1>2. /\ trialLog' \in Seq(S \cup {row})
        /\ Len(trialLog) \in Nat /\ DOMAIN trialLog = 1..Len(trialLog)
        /\ DOMAIN trialLog' = 1..Len(trialLog) + 1
        /\ \A n \in DOMAIN trialLog : trialLog'[n] = trialLog[n]
        /\ trialLog'[Len(trialLog) + 1] = row
    BY <1>1
  <1>3. \A i : InLedger(i) => InLedger(i)'
    BY <1>2 DEF InLedger
  <1>4. ASSUME NEW i, i = row.id PROVE InLedger(i)'
    BY <1>2, <1>4 DEF InLedger
  <1> QED BY <1>2, <1>3, <1>4

\* The row of a trial is in the ledger once it is written.
LEMMA Written ==
    ASSUME LabTypes, NEW a \in Analyst, AppendLedger(a, TRUE)
    PROVE  /\ \E T : trialLog' \in Seq(T)
           /\ \A i : InLedger(i) \/ i = Current(a) => InLedger(i)'
  <1>0. \E i, row : i = Current(a) /\ row = [id |-> i, verdict |-> task[a].verdict]
    OBVIOUS
  <1>1. PICK id, row : id = Current(a) /\ row = [id |-> id, verdict |-> task[a].verdict]
    BY <1>0
  <1>2. trialLog' = Logged(row) /\ row.id = id
    BY <1>1 DEF AppendLedger
  <1>3. PICK S : trialLog \in Seq(S)
    BY DEF LabTypes
  <1>4. CASE trialLog' = Append(trialLog, row)
    BY <1>1, <1>2, <1>3, <1>4, Grows
  <1>5. CASE trialLog' = trialLog /\ row \in Range(trialLog)
    <2>1. \A i : InLedger(i) => InLedger(i)'
      BY <1>5 DEF InLedger
    <2>2. PICK n \in DOMAIN trialLog : trialLog[n] = row
      BY <1>5 DEF Range
    <2>3. ASSUME NEW i, i = Current(a) PROVE InLedger(i)'
      BY <1>1, <1>2, <1>5, <2>2, <2>3 DEF InLedger
    <2> QED BY <1>3, <1>5, <2>1, <2>3
  <1> QED BY <1>2, <1>4, <1>5 DEF Logged

\* What a pass begins with.
LEMMA Selected ==
    ASSUME NEW open \in SUBSET Idea, NEW order \in Select(open)
    PROVE  order \in Seq(Idea)
  <1>1. IsFiniteSet(open) /\ Cardinality(open) \in Nat
    BY FS_Subset, FS_CardinalityType
  <1> DEFINE n == IF Cardinality(open) < MaxIdeas THEN Cardinality(open) ELSE MaxIdeas
  <1>2. n \in Nat
    BY <1>1
  <1>3. order \in [1..n -> open]
    BY DEF Select
  <1> HIDE DEF n
  <1> QED BY <1>2, <1>3

\* An action of an analyst changes its own task, to one of the right shape.
Retasks(a) ==
    /\ task' = [b \in Analyst |-> task'[b]]
    /\ \A b \in Analyst : b # a => task'[b] = task[b]
    /\ TaskShape(task'[a])

\* The registry and the tasks after a pass has begun.
LEMMA Begun ==
    ASSUME LabTypes, NEW a \in Analyst, NEW proposed \in SUBSET Idea, BeginPass(a, proposed)
    PROVE  /\ At(a, "idle") /\ (halfLine' => halfLine)
           /\ registry' = [i \in Idea |-> registry'[i]]
           /\ \A i \in Idea :
                \/ registry'[i] = registry[i]
                \/ registry[i].status = "absent" /\ registry'[i] = [status |-> "open", verdict |-> Unsettled]
           /\ Retasks(a) /\ task'[a].stage = "next"
  <1>a. \E n : n = (IF Having("open") = {} THEN {i \in proposed : registry[i].status = "absent"} ELSE {})
    OBVIOUS
  <1>b. PICK new : new = (IF Having("open") = {} THEN {i \in proposed : registry[i].status = "absent"} ELSE {})
    BY <1>a
  <1>c. \E r : r = [i \in Idea |-> IF i \in new /\ ~halfLine THEN [status |-> "open", verdict |-> Unsettled] ELSE registry[i]]
    OBVIOUS
  <1>d. PICK reg : reg = [i \in Idea |-> IF i \in new /\ ~halfLine THEN [status |-> "open", verdict |-> Unsettled] ELSE registry[i]]
    BY <1>c
  <1>1. /\ registry' = reg
        /\ halfLine' = (halfLine /\ new = {})
        /\ \E chosen \in Select({i \in Idea : reg[i].status = "open"}) :
              task' = [task EXCEPT ![a] = [IdleTask EXCEPT !.stage = "next", !.chosen = chosen]]
    BY <1>b, <1>d, Zenon DEF BeginPass
  <1>2. Retasks(a) /\ task'[a].stage = "next"
    <2>1. PICK chosen \in Seq(Idea) :
                task' = [task EXCEPT ![a] = [IdleTask EXCEPT !.stage = "next", !.chosen = chosen]]
      BY <1>1, Selected
    <2>2. task' = [b \in Analyst |-> task'[b]] /\ \A b \in Analyst : b # a => task'[b] = task[b]
      BY <2>1 DEF LabTypes
    <2>3. task'[a] = [stage |-> "next", chosen |-> chosen, seen |-> Unregistered, verdict |-> Unsettled, worked |-> 0]
      BY <2>1 DEF LabTypes, IdleTask
    <2> QED BY <2>2, <2>3 DEF TaskShape, Retasks, RecordShape, Unregistered
  <1>3. \A i \in new : registry[i].status = "absent"
    BY <1>b
  <1>4. At(a, "idle")
    BY DEF BeginPass, At
  <1>5. halfLine' => halfLine
    BY <1>1
  <1>6. registry' = [i \in Idea |-> registry'[i]]
    BY <1>1, <1>d
  <1>7. ASSUME NEW i \in Idea
        PROVE  \/ registry'[i] = registry[i]
               \/ registry[i].status = "absent" /\ registry'[i] = [status |-> "open", verdict |-> Unsettled]
    BY <1>1, <1>d, <1>3
  <1> QED BY <1>2, <1>4, <1>5, <1>6, <1>7

\* What each step of a pass makes of its analyst's task.
LEMMA Retasked ==
    ASSUME LabTypes, NEW a \in Analyst
    PROVE  /\ \A from, to : from # "idle" /\ Load(a, from, to) =>
                 /\ Retasks(a) /\ task'[a].stage = to /\ task'[a].chosen = task[a].chosen
                 /\ task'[a].seen = registry[Current(a)] /\ Current(a) \in Idea
           /\ Claim(a) => Retasks(a) /\ task'[a].stage = "execute" /\ task'[a].chosen = task[a].chosen
           /\ Execute(a) => Retasks(a) /\ task'[a].stage = "settle" /\ task'[a].chosen = task[a].chosen
           /\ Update(a) => Retasks(a) /\ task'[a].stage = "ledger" /\ task'[a].chosen = task[a].chosen
           /\ \A written : AppendLedger(a, written) => Retasks(a) /\ task'[a].stage = "next"
           /\ EndPass(a) => Retasks(a) /\ task'[a].stage = "idle"
           /\ \A inAppend : Abort(a, inAppend) => Retasks(a) /\ task'[a].stage = "idle"
  <1>0. /\ TaskShape(task[a]) /\ task = [b \in Analyst |-> task[b]] /\ Current(a) = Head(task[a].chosen)
        /\ TaskShape(IdleTask)
    BY DEF LabTypes, Current, TaskShape, IdleTask, RecordShape, Unregistered
  <1>1. ASSUME NEW from, NEW to, from # "idle", Load(a, from, to)
        PROVE  /\ Retasks(a) /\ task'[a].stage = to /\ task'[a].chosen = task[a].chosen
               /\ task'[a].seen = registry[Current(a)] /\ Current(a) \in Idea
    <2>1. Current(a) \in Idea /\ RecordShape(registry[Current(a)])
      BY <1>1, Working DEF Load, LabTypes
    <2>2. task' = [b \in Analyst |-> task'[b]] /\ \A b \in Analyst : b # a => task'[b] = task[b]
      BY <1>0, <1>1 DEF Load
    <2>3. task'[a] = [stage |-> to, chosen |-> task[a].chosen, seen |-> registry[Current(a)], verdict |-> task[a].verdict, worked |-> task[a].worked]
      BY <1>0, <1>1 DEF Load, TaskShape
    <2> QED BY <1>0, <1>1, <2>1, <2>2, <2>3 DEF TaskShape, Load, Retasks
  <1>2. ASSUME Claim(a)
        PROVE  Retasks(a) /\ task'[a].stage = "execute" /\ task'[a].chosen = task[a].chosen
    <2>2. task' = [b \in Analyst |-> task'[b]] /\ \A b \in Analyst : b # a => task'[b] = task[b]
      BY <1>0, <1>2 DEF Claim
    <2>3. task'[a] = [stage |-> "execute", chosen |-> task[a].chosen, seen |-> task[a].seen, verdict |-> task[a].verdict, worked |-> task[a].worked]
      BY <1>0, <1>2 DEF Claim, TaskShape
    <2> QED BY <1>0, <1>2, <2>2, <2>3 DEF TaskShape, Claim, At, Retasks
  <1>3. ASSUME Execute(a)
        PROVE  Retasks(a) /\ task'[a].stage = "settle" /\ task'[a].chosen = task[a].chosen
    <2>1. PICK v \in Results : task' = [task EXCEPT ![a].stage = "settle", ![a].verdict = v]
      BY <1>3 DEF Execute
    <2>2. task' = [b \in Analyst |-> task'[b]] /\ \A b \in Analyst : b # a => task'[b] = task[b]
      BY <1>0, <2>1
    <2>3. task'[a] = [stage |-> "settle", chosen |-> task[a].chosen, seen |-> task[a].seen, verdict |-> v, worked |-> task[a].worked]
      BY <1>0, <2>1 DEF TaskShape
    <2> QED BY <1>0, <1>3, <2>2, <2>3 DEF TaskShape, Execute, At, Retasks
  <1>4. ASSUME Update(a)
        PROVE  Retasks(a) /\ task'[a].stage = "ledger" /\ task'[a].chosen = task[a].chosen
    <2>2. task' = [b \in Analyst |-> task'[b]] /\ \A b \in Analyst : b # a => task'[b] = task[b]
      BY <1>0, <1>4 DEF Update
    <2>3. task'[a] = [stage |-> "ledger", chosen |-> task[a].chosen, seen |-> task[a].seen, verdict |-> task[a].verdict, worked |-> task[a].worked]
      BY <1>0, <1>4 DEF Update, TaskShape
    <2> QED BY <1>0, <1>4, <2>2, <2>3 DEF TaskShape, Update, At, Retasks
  <1>5. ASSUME NEW written, AppendLedger(a, written)
        PROVE  Retasks(a) /\ task'[a].stage = "next"
    <2>1. Tail(task[a].chosen) \in Seq(Idea)
      BY <1>0, <1>5, Working DEF AppendLedger, At, TaskShape
    <2>2. task' = [b \in Analyst |-> task'[b]] /\ \A b \in Analyst : b # a => task'[b] = task[b]
      BY <1>0, <1>5 DEF AppendLedger
    <2>3. task'[a] = [stage |-> "next", chosen |-> Tail(task[a].chosen), seen |-> Unregistered, verdict |-> Unsettled, worked |-> task[a].worked + 1]
      BY <1>0, <1>5 DEF AppendLedger, IdleTask
    <2> QED BY <2>1, <2>2, <2>3 DEF TaskShape, Retasks, RecordShape, Unregistered
  <1>6. ASSUME task' = [task EXCEPT ![a] = IdleTask]
        PROVE  Retasks(a) /\ task'[a].stage = "idle"
    <2>2. task' = [b \in Analyst |-> task'[b]] /\ \A b \in Analyst : b # a => task'[b] = task[b]
      BY <1>0, <1>6
    <2>3. task'[a] = IdleTask
      BY <1>0, <1>6
    <2> QED BY <1>0, <2>2, <2>3 DEF IdleTask, Retasks
  <1>7. EndPass(a) => Retasks(a) /\ task'[a].stage = "idle"
    BY <1>6 DEF EndPass
  <1>8. \A inAppend : Abort(a, inAppend) => Retasks(a) /\ task'[a].stage = "idle"
    BY <1>6 DEF Abort
  <1> QED BY <1>1, <1>2, <1>3, <1>4, <1>5, <1>7, <1>8

\* The folded records keep their shape, the log stays a log, and so on.
LEMMA LabTypesStep ==
    ASSUME LabTypes, [LabNext]_labVars
    PROVE  LabTypes'
  <1>1. ASSUME UNCHANGED <<registry, trialLog, task, ran>> PROVE LabTypes'
    BY <1>1 DEF LabTypes
  <1>2. ASSUME NEW a \in Analyst, Retasks(a), UNCHANGED <<registry, trialLog, ran>> PROVE LabTypes'
    <2>1. \A b \in Analyst : TaskShape(task'[b])
      BY <1>2 DEF Retasks, LabTypes
    <2> QED BY <1>2, <2>1 DEF Retasks, LabTypes
  <1>3. ASSUME NEW a \in Analyst, Retasks(a), UNCHANGED trialLog, ran' \subseteq Idea,
               registry' = [i \in Idea |-> registry'[i]], \A i \in Idea : RecordShape(registry'[i])
        PROVE  LabTypes'
    <2>1. \A b \in Analyst : TaskShape(task'[b])
      BY <1>3 DEF Retasks, LabTypes
    <2> QED BY <1>3, <2>1 DEF Retasks, LabTypes
  <1>4. ASSUME NEW a \in Analyst, NEW proposed \in SUBSET Idea, BeginPass(a, proposed) PROVE LabTypes'
    <2>1. \A i \in Idea : RecordShape(registry'[i])
      BY <1>4, Begun DEF LabTypes, RecordShape
    <2>2. ran' \subseteq Idea /\ UNCHANGED trialLog
      BY <1>4 DEF BeginPass, LabTypes
    <2>3. Retasks(a) /\ registry' = [i \in Idea |-> registry'[i]]
      BY <1>4, Begun
    <2> QED BY <1>3, <2>1, <2>2, <2>3
  <1>5. ASSUME NEW a \in Analyst, ClaimReads(a) PROVE LabTypes'
    <2>1. Retasks(a)
      BY <1>5, Retasked DEF ClaimReads
    <2> QED BY <1>2, <1>5, <2>1 DEF ClaimReads, Load
  <1>6. ASSUME NEW a \in Analyst, Claim(a) PROVE LabTypes'
    <2>1. Current(a) \in Idea /\ RecordShape(task[a].seen)
      BY <1>6, Working DEF LabTypes, TaskShape, Claim, At
    <2>2. RecordShape([task[a].seen EXCEPT !.status = "running"])
      BY <2>1 DEF RecordShape
    <2>3. registry' = [i \in Idea |-> registry'[i]] /\ \A i \in Idea : RecordShape(registry'[i])
      BY <1>6, <2>1, <2>2, RecordAppended DEF Claim
    <2>4. ran' \subseteq Idea /\ UNCHANGED trialLog
      BY <1>6 DEF Claim, LabTypes
    <2>5. Retasks(a)
      BY <1>6, Retasked
    <2> QED BY <1>3, <2>3, <2>4, <2>5
  <1>7. ASSUME NEW a \in Analyst, Execute(a) PROVE LabTypes'
    <2>1. Retasks(a)
      BY <1>7, Retasked
    <2> QED BY <1>2, <1>7, <2>1 DEF Execute
  <1>8. ASSUME NEW a \in Analyst, UpdateReads(a) PROVE LabTypes'
    <2>1. Retasks(a)
      BY <1>8, Retasked DEF UpdateReads
    <2> QED BY <1>2, <1>8, <2>1 DEF UpdateReads, Load
  <1>9. ASSUME NEW a \in Analyst, Update(a) PROVE LabTypes'
    <2>1. Current(a) \in Idea
      BY <1>9, Working DEF LabTypes, TaskShape, Update, At
    <2> DEFINE v == task[a].verdict
               rec == [status |-> StatusOf(v), verdict |-> IF v = Unsettled THEN task[a].seen.verdict ELSE v]
    <2>2. AppendRecord(Current(a), rec) /\ RecordShape(rec)
      BY <1>9 DEF RecordShape, Update
    <2>3. registry' = [i \in Idea |-> registry'[i]] /\ \A i \in Idea : RecordShape(registry'[i])
      BY <2>1, <2>2, RecordAppended
    <2>4. ran' \subseteq Idea /\ UNCHANGED trialLog
      BY <1>9, <2>1 DEF Update, LabTypes
    <2>5. Retasks(a)
      BY <1>9, Retasked
    <2> QED BY <1>3, <2>3, <2>4, <2>5
  <1>10. ASSUME NEW a \in Analyst, AppendLedger(a, TRUE) PROVE LabTypes'
    <2>1. \E T : trialLog' \in Seq(T)
      BY <1>10, Written
    <2>2. Retasks(a)
      BY <1>10, Retasked
    <2>3. \A b \in Analyst : TaskShape(task'[b])
      BY <2>2 DEF Retasks, LabTypes
    <2> QED BY <1>10, <2>1, <2>2, <2>3 DEF Retasks, LabTypes, AppendLedger
  <1>11. ASSUME NEW a \in Analyst, AppendLedger(a, FALSE) PROVE LabTypes'
    <2>1. Retasks(a)
      BY <1>11, Retasked
    <2> QED BY <1>2, <1>11, <2>1 DEF AppendLedger
  <1>12. ASSUME NEW a \in Analyst, EndPass(a) PROVE LabTypes'
    <2>1. Retasks(a)
      BY <1>12, Retasked
    <2> QED BY <1>2, <1>12, <2>1 DEF EndPass
  <1>13. ASSUME NEW a \in Analyst, NEW inAppend \in BOOLEAN, Abort(a, inAppend) PROVE LabTypes'
    <2>1. Retasks(a)
      BY <1>13, Retasked
    <2> QED BY <1>2, <1>13, <2>1 DEF Abort
  <1>14. CASE StartFold
    BY <1>1, <1>14 DEF StartFold
  <1>15. CASE FoldRow
    <2>1. UNCHANGED registry \/ \E i, rec : RecordShape(rec) /\ AppendRecord(i, rec)
      <3>1. \E i, rec : /\ i = Head(fold).id
                        /\ rec = [status |-> IF Head(fold).verdict = "PROMISING" THEN "open" ELSE "done", verdict |-> Head(fold).verdict]
        OBVIOUS
      <3>2. PICK i, rec : /\ i = Head(fold).id
                          /\ rec = [status |-> IF Head(fold).verdict = "PROMISING" THEN "open" ELSE "done", verdict |-> Head(fold).verdict]
        BY <3>1
      <3>3. UNCHANGED registry \/ AppendRecord(i, rec)
        BY <1>15, <3>2, Zenon DEF FoldRow
      <3> QED BY <3>2, <3>3 DEF RecordShape
    <2>2. registry' = [i \in Idea |-> registry'[i]] /\ \A i \in Idea : RecordShape(registry'[i])
      <3>1. CASE UNCHANGED registry
        BY <3>1 DEF LabTypes
      <3>2. ASSUME NEW i, NEW rec, RecordShape(rec), AppendRecord(i, rec)
            PROVE  registry' = [j \in Idea |-> registry'[j]] /\ \A j \in Idea : RecordShape(registry'[j])
        <4>1. registry' = registry \/ registry' = [j \in Idea |-> IF j = i THEN rec ELSE registry[j]]
          BY <3>2 DEF AppendRecord, LabTypes
        <4> QED BY <3>2, <4>1 DEF LabTypes
      <3> QED BY <2>1, <3>1, <3>2
    <2> QED BY <1>15, <2>2 DEF FoldRow, LabTypes
  <1>16. ASSUME NEW i \in Idea, Summon(i) \/ \E array : Fulfill(i, array) PROVE LabTypes'
    BY <1>1, <1>16 DEF Summon, Fulfill
  <1>17. CASE UNCHANGED labVars
    BY <1>1, <1>17 DEF labVars
  <1> QED
    BY <1>4, <1>5, <1>6, <1>7, <1>8, <1>9, <1>10, <1>11, <1>12, <1>13, <1>14, <1>15, <1>16, <1>17
    DEF LabNext, PassStep, Director

\* A verdict on its way stays on its way while its analyst rests.
LEMMA StillSettling ==
    ASSUME LabTypes, NEW a \in Analyst, Retasks(a), ~At(a, "ledger")
    PROVE  \A i : Settling(i) => Settling(i)'
  <1>1. ASSUME NEW i, Settling(i) PROVE Settling(i)'
    <2>1. PICK b \in Analyst : At(b, "ledger") /\ Current(b) = i
      BY <1>1 DEF Settling
    <2>2. task'[b] = task[b]
      BY <2>1 DEF Retasks
    <2> QED BY <2>1, <2>2 DEF Settling, At, Current
  <1> QED BY <1>1

\* Writing the ledger row of one analyst leaves the others on their way.
LEMMA RowWritten ==
    ASSUME LabTypes, NEW a \in Analyst, AppendLedger(a, TRUE)
    PROVE  \A i : InLedger(i) \/ Settling(i) => InLedger(i)' \/ Settling(i)'
  <1>1. Retasks(a)
    BY Retasked
  <1>2. ASSUME NEW i, Settling(i), i # Current(a) PROVE Settling(i)'
    <2>1. PICK b \in Analyst : At(b, "ledger") /\ Current(b) = i
      BY <1>2 DEF Settling
    <2>2. task'[b] = task[b]
      BY <1>1, <1>2, <2>1 DEF Retasks
    <2> QED BY <2>1, <2>2 DEF Settling, At, Current
  <1>3. ASSUME NEW i, InLedger(i) \/ i = Current(a) PROVE InLedger(i)'
    BY <1>3, Written
  <1> QED BY <1>2, <1>3

\* An idea whose verdict has just been written to the registry is on its way.
LEMMA JustRan ==
    ASSUME LabTypes, NEW a \in Analyst, Update(a)
    PROVE  \A i \in ran' : i \in ran \/ Settling(i)'
  <1>1. task'[a].stage = "ledger" /\ task'[a].chosen = task[a].chosen
    BY Retasked
  <1>2. ASSUME NEW i, i = Current(a) PROVE Settling(i)'
    BY <1>1, <1>2 DEF Settling, At, Current
  <1> QED BY <1>2 DEF Update

\* Without faults no verdict misses the ledger, whoever else works.
LEMMA FaultlessStep ==
    ASSUME LabTypes, Faultless, [LabNext]_labVars
    PROVE  Faultless'
  <1>1. ASSUME NEW a \in Analyst, Retasks(a), ~At(a, "ledger"), UNCHANGED <<trialLog, ran, labFaults>>
        PROVE  Faultless'
    <2>1. \A i : InLedger(i) => InLedger(i)'
      BY <1>1 DEF InLedger
    <2>2. \A i : Settling(i) => Settling(i)'
      BY <1>1, StillSettling
    <2> QED BY <1>1, <2>1, <2>2 DEF Faultless
  <1>2. ASSUME UNCHANGED <<trialLog, task, ran, labFaults>> PROVE Faultless'
    BY <1>2 DEF Faultless, InLedger, Settling, At, Current
  <1>3. ASSUME NEW a \in Analyst, NEW proposed \in SUBSET Idea, BeginPass(a, proposed) PROVE Faultless'
    <2>1. Retasks(a) /\ At(a, "idle")
      BY <1>3, Begun
    <2> QED BY <1>1, <1>3, <2>1 DEF BeginPass, At
  <1>4. ASSUME NEW a \in Analyst, ClaimReads(a) \/ Claim(a) \/ Execute(a) \/ UpdateReads(a) \/ EndPass(a) PROVE Faultless'
    <2>1. Retasks(a)
      BY <1>4, Retasked DEF ClaimReads, UpdateReads
    <2> QED BY <1>1, <1>4, <2>1 DEF ClaimReads, Claim, Execute, UpdateReads, EndPass, Load, At
  <1>5. ASSUME NEW a \in Analyst, Update(a) PROVE Faultless'
    <2>1. Retasks(a) /\ ~At(a, "ledger")
      BY <1>5, Retasked DEF Update, At
    <2>2. \A i : InLedger(i) => InLedger(i)'
      BY <1>5 DEF InLedger, Update
    <2>3. \A i : Settling(i) => Settling(i)'
      BY <2>1, StillSettling
    <2> QED BY <1>5, <2>2, <2>3, JustRan DEF Faultless, Update
  <1>6. ASSUME NEW a \in Analyst, AppendLedger(a, TRUE) PROVE Faultless'
    BY <1>6, RowWritten DEF Faultless, AppendLedger
  <1>7. ASSUME NEW a \in Analyst, NEW inAppend, AppendLedger(a, FALSE) \/ Abort(a, inAppend) PROVE FALSE
    BY <1>7 DEF Faultless, AppendLedger, Abort
  <1>8. ASSUME Director \/ \E i \in Idea : Summon(i) \/ \E array : Fulfill(i, array) PROVE Faultless'
    BY <1>2, <1>8 DEF Director, StartFold, FoldRow, Summon, Fulfill
  <1>9. CASE UNCHANGED labVars
    BY <1>2, <1>9 DEF labVars
  <1> QED BY <1>3, <1>4, <1>5, <1>6, <1>7, <1>8, <1>9 DEF LabNext, PassStep

\* The resident analyst alone, and one fault at most.
LEMMA LoneStep ==
    ASSUME LabTypes, Lone, [LabNext]_labVars
    PROVE  Lone'
  <1> DEFINE r == Resident
  <1>0. r \in Analyst /\ TaskShape(task[r])
    BY DEF LabTypes
  <1>1. ASSUME NEW a \in Analyst, a # r, PassStep(a) \/ (\E w : AppendLedger(a, w)) \/ \E x : Abort(a, x) PROVE FALSE
    BY <1>1 DEF Lone, PassStep, BeginPass, ClaimReads, Claim, Execute, UpdateReads, Update, AppendLedger, EndPass, Abort, Load, At
  <1>2. ASSUME Retasks(r) PROVE \A a \in Analyst \ {r} : At(a, "idle")'
    BY <1>2 DEF Retasks, Lone, At
  <1>3. ASSUME UNCHANGED trialLog PROVE \A i : InLedger(i) => InLedger(i)'
    BY <1>3 DEF InLedger
  \* steps that leave both files alone
  <1>4. ASSUME Retasks(r), ~At(r, "ledger"), UNCHANGED <<trialLog, ran, registry, halfLine, labFaults, passes, fold>>,
               ~At(r, "claim")' /\ ~At(r, "update")'
        PROVE  Lone'
    <2>1. \A i : Settling(i) => Settling(i)'
      BY <1>0, <1>4, StillSettling
    <2> QED BY <1>2, <1>3, <1>4, <2>1 DEF Lone, Verdicted
  <1>5. ASSUME UNCHANGED <<trialLog, ran, registry, halfLine, labFaults, passes, fold, task>> PROVE Lone'
    BY <1>5 DEF Lone, Verdicted, InLedger, Settling, At, Current
  <1>6. ASSUME NEW proposed \in SUBSET Idea, BeginPass(r, proposed) PROVE Lone'
    <2>1. /\ Retasks(r) /\ At(r, "idle") /\ task'[r].stage = "next" /\ (halfLine' => halfLine)
          /\ \A i \in Idea :
                \/ registry'[i] = registry[i]
                \/ registry[i].status = "absent" /\ registry'[i] = [status |-> "open", verdict |-> Unsettled]
      BY <1>0, <1>6, Begun
    <2>2. UNCHANGED <<trialLog, ran, labFaults, passes, fold>>
      BY <1>6 DEF BeginPass
    <2>3. \A i : Settling(i) => Settling(i)'
      BY <1>0, <2>1, StillSettling DEF At
    <2>4. \A i \in Idea : Verdicted(i) => Verdicted(i)'
      BY <2>1 DEF Verdicted, Lone
    <2>5. \A i \in Idea : registry'[i].status = "absent" => registry'[i] = registry[i]
      BY <2>1
    <2>6. \A i \in Idea : registry'[i].status = "absent" => ~Verdicted(i)'
      BY <2>5 DEF Lone, Verdicted
    <2>7. ran \subseteq Idea
      BY DEF LabTypes
    <2>8. ~At(r, "claim")' /\ ~At(r, "update")'
      BY <2>1 DEF At
    <2>9. halfLine' = TRUE => halfLine = TRUE
      BY <2>1
    <2> QED BY <1>2, <1>3, <2>1, <2>2, <2>3, <2>4, <2>6, <2>7, <2>8 DEF Lone
  <1>7. ASSUME NEW from, NEW to, Load(r, from, to), from \in {"next", "settle"}, to \in {"claim", "update"} PROVE Lone'
    <2>1. /\ Retasks(r) /\ task'[r].chosen = task[r].chosen /\ task'[r].seen = registry[Current(r)]
          /\ ~At(r, "ledger")
      BY <1>0, <1>7, Retasked DEF Load, At
    <2>2. \A i : Settling(i) => Settling(i)'
      BY <1>0, <2>1, StillSettling
    <2>3. UNCHANGED <<trialLog, ran, registry, halfLine, labFaults, passes, fold>>
      BY <1>7 DEF Load
    <2>4. task'[r].seen = registry'[Current(r)']
      BY <2>1, <2>3 DEF Current
    <2> QED BY <1>2, <1>3, <2>1, <2>2, <2>3, <2>4 DEF Lone, Verdicted
  \* an append to the registry
  <1>8. ASSUME NEW rec, AppendRecord(Current(r), rec), RecordShape(rec), Current(r) \in Idea, rec.status # "absent",
               Verdicted(Current(r)) => rec.verdict # Unsettled
        PROVE  /\ \A i \in Idea : Verdicted(i) => Verdicted(i)'
               /\ \A i \in Idea : registry'[i].status = "absent" => ~Verdicted(i)'
               /\ halfLine' = FALSE
    <2>1. PICK id : id = Current(r)
      OBVIOUS
    <2>2. /\ \A j \in Idea : registry'[j] = registry[j] \/ (j = id /\ registry'[j] = rec)
          /\ halfLine' = FALSE
      BY <1>8, <2>1, RecordAppended
    <2> QED BY <1>8, <2>1, <2>2 DEF Verdicted, Lone
  <1>9. ASSUME Claim(r) PROVE Lone'
    <2>1. Retasks(r) /\ task'[r].stage = "execute" /\ ~At(r, "ledger")
      BY <1>0, <1>9, Retasked DEF Claim, At
    <2>2. Current(r) \in Idea /\ RecordShape(task[r].seen) /\ task[r].seen = registry[Current(r)]
      BY <1>0, <1>9, Working DEF TaskShape, Claim, At, Lone
    <2> DEFINE rec == [task[r].seen EXCEPT !.status = "running"]
    <2>3. /\ RecordShape(rec) /\ rec.status # "absent" /\ AppendRecord(Current(r), rec)
          /\ Verdicted(Current(r)) => rec.verdict # Unsettled
      BY <1>9, <2>2 DEF RecordShape, Claim, Verdicted
    <2>4. /\ \A i \in Idea : Verdicted(i) => Verdicted(i)'
          /\ \A i \in Idea : registry'[i].status = "absent" => ~Verdicted(i)'
          /\ halfLine' = FALSE
      <3> HIDE DEF rec
      <3> QED BY <1>8, <2>2, <2>3
    <2>5. \A i : Settling(i) => Settling(i)'
      BY <1>0, <2>1, StillSettling
    <2>6. UNCHANGED <<trialLog, ran, labFaults, passes, fold>> /\ ran \subseteq Idea
      BY <1>9 DEF Claim, LabTypes
    <2>7. ~At(r, "claim")' /\ ~At(r, "update")'
      BY <2>1 DEF At
    <2> QED BY <1>2, <1>3, <2>1, <2>4, <2>5, <2>6, <2>7 DEF Lone
  <1>10. ASSUME Update(r) PROVE Lone'
    <2>1. Retasks(r) /\ task'[r].stage = "ledger" /\ ~At(r, "ledger")
      BY <1>0, <1>10, Retasked DEF Update, At
    <2>2. Current(r) \in Idea /\ RecordShape(task[r].seen) /\ task[r].seen = registry[Current(r)]
      BY <1>0, <1>10, Working DEF TaskShape, Update, At, Lone
    <2> DEFINE v == task[r].verdict
               rec == [status |-> StatusOf(v), verdict |-> IF v = Unsettled THEN task[r].seen.verdict ELSE v]
    <2>3. /\ RecordShape(rec) /\ rec.status # "absent" /\ AppendRecord(Current(r), rec)
          /\ Verdicted(Current(r)) => rec.verdict # Unsettled
      BY <1>10, <2>2 DEF RecordShape, Update, Verdicted, StatusOf
    <2>4. /\ \A i \in Idea : Verdicted(i) => Verdicted(i)'
          /\ \A i \in Idea : registry'[i].status = "absent" => ~Verdicted(i)'
          /\ halfLine' = FALSE
      <3> HIDE DEF rec
      <3> QED BY <1>8, <2>2, <2>3
    <2>5. \A i : Settling(i) => Settling(i)'
      BY <1>0, <2>1, StillSettling
    <2>6. UNCHANGED <<trialLog, labFaults, passes, fold>> /\ ran \subseteq Idea
      BY <1>10 DEF Update, LabTypes
    <2>7. ~At(r, "claim")' /\ ~At(r, "update")'
      BY <2>1 DEF At
    <2>8. \A i \in ran' : i \in ran \/ Settling(i)'
      BY <1>0, <1>10, JustRan
    \* before the first fault the verdict is in the file
    <2>9. ASSUME labFaults = 1, NEW i \in ran', i \notin ran PROVE Verdicted(i)'
      <3>1. i = Current(r) /\ v # Unsettled
        BY <1>10, <2>9 DEF Update
      <3>2. rec.verdict # Unsettled
        BY <3>1
      <3>3. ~halfLine
        BY <2>9 DEF Lone
      <3>4. registry'[i] = rec
        <4> HIDE DEF rec
        <4> QED BY <2>2, <2>3, <3>1, <3>3, RecordAppended
      <3> QED BY <3>2, <3>4 DEF Verdicted
    <2>10. labFaults' = 1 => \A i \in ran' : Verdicted(i)'
      BY <2>4, <2>6, <2>9 DEF Lone
    <2>11. \A i \in ran' : InLedger(i)' \/ Settling(i)' \/ Verdicted(i)'
      BY <1>3, <2>4, <2>5, <2>6, <2>8 DEF Lone
    <2> QED BY <1>2, <2>1, <2>4, <2>6, <2>7, <2>10, <2>11 DEF Lone
  <1>11. ASSUME Execute(r) \/ EndPass(r) PROVE Lone'
    <2>1. Retasks(r) /\ task'[r].stage \in {"settle", "idle"} /\ ~At(r, "ledger")
      BY <1>0, <1>11, Retasked DEF Execute, EndPass, At
    <2> QED BY <1>4, <1>11, <2>1 DEF Execute, EndPass, At
  <1>12. ASSUME AppendLedger(r, TRUE) PROVE Lone'
    <2>1. Retasks(r) /\ task'[r].stage = "next"
      BY <1>0, <1>12, Retasked
    <2>2. \A i : InLedger(i) \/ Settling(i) => InLedger(i)' \/ Settling(i)'
      BY <1>0, <1>12, RowWritten
    <2>3. UNCHANGED <<registry, halfLine, ran, labFaults, passes, fold>>
      BY <1>12 DEF AppendLedger
    <2> QED BY <1>2, <2>1, <2>2, <2>3 DEF Lone, Verdicted, At
  \* the fault: every verdict is in the registry
  <1>13. ASSUME Retasks(r), ~At(r, "claim")' /\ ~At(r, "update")', labFaults > 0, labFaults' = labFaults - 1,
                UNCHANGED <<registry, ran, passes, fold>>
         PROVE  Lone'
    <2>1. labFaults = 1 /\ labFaults' = 0 /\ \A i \in ran : Verdicted(i)
      BY <1>13 DEF Lone
    <2> QED BY <1>2, <1>13, <2>1 DEF Lone, Verdicted
  <1>14. ASSUME NEW x, AppendLedger(r, FALSE) \/ Abort(r, x) PROVE Lone'
    <2>1. Retasks(r) /\ task'[r].stage \in {"next", "idle"}
      BY <1>0, <1>14, Retasked
    <2> QED BY <1>13, <1>14, <2>1 DEF AppendLedger, Abort, At
  <1>15. ASSUME Director \/ \E i \in Idea : Summon(i) \/ \E array : Fulfill(i, array) PROVE Lone'
    <2>1. ~Director
      BY DEF Director, StartFold, FoldRow, Lone
    <2> QED BY <1>5, <1>15, <2>1 DEF Summon, Fulfill
  <1>16. CASE UNCHANGED labVars
    BY <1>5, <1>16 DEF labVars
  <1>17. ASSUME NEW a \in Analyst, PassStep(a) \/ AppendLedger(a, FALSE) \/ \E x \in BOOLEAN : Abort(a, x) PROVE Lone'
    <2>1. a = r
      BY <1>1, <1>17
    <2> QED
      BY <1>6, <1>7, <1>9, <1>10, <1>11, <1>12, <1>14, <1>17, <2>1 DEF PassStep, ClaimReads, UpdateReads
  <1> QED BY <1>15, <1>16, <1>17 DEF LabNext

\* The invariant is one, and says what the property does.
LEMMA LabInvInit ==
    ASSUME MaxLabFaults \in 0..1, LabInit
    PROVE  LabInv
  <1>1. LabTypes
    <2>1. TaskShape(IdleTask)
      BY DEF TaskShape, IdleTask, RecordShape, Unregistered
    <2>2. \A a \in Analyst : TaskShape(task[a])
      BY <2>1 DEF LabInit
    <2>3. \A i \in Idea : RecordShape(registry[i])
      BY DEF LabInit, RecordShape, Unregistered
    <2> QED BY <2>2, <2>3 DEF LabInit, LabTypes
  <1>2. PICK stray \in {0, MaxPasses} : passes = stray /\ labFaults = (IF stray = 0 THEN MaxLabFaults ELSE 0)
    BY DEF LabInit
  <1>3. CASE stray = 0
    <2>1. \A a \in Analyst : At(a, "idle")
      BY DEF LabInit, At, IdleTask
    <2>2. \A i \in Idea : ~Verdicted(i)
      BY DEF LabInit, Verdicted, Unregistered
    <2> QED BY <1>1, <1>2, <1>3, <2>1, <2>2 DEF LabInit, LabInv, Lone, At
  <1>4. CASE stray # 0
    BY <1>1, <1>2, <1>4 DEF LabInit, LabInv, Faultless
  <1> QED BY <1>3, <1>4

\* Faultless, what ran has its row or is being settled; with a lone analyst it has its row or
\* its verdict.  Either is a trial that is counted.
LEMMA LabInvCounts ==
    ASSUME LabInv
    PROVE  TrialsAreCounted
  <1>1. ASSUME NEW i \in ran, NEW f \in {NoFamily, FamilyOf[i]}, InLedger(i) \/ Verdicted(i) PROVE i \in CountedIds(f)
    BY <1>1 DEF LabInv, LabTypes, CountedIds, FamilyMatch, InLedger, Verdicted
  <1>2. ASSUME NEW i \in ran, Settling(i) PROVE \E a \in Analyst : task[a].chosen /= <<>> /\ Current(a) = i
    BY <1>2 DEF Settling, At, LabInv, LabTypes, TaskShape
  <1> QED BY <1>1, <1>2 DEF TrialsAreCounted, LabInv, Faultless, Lone

\* With at most one row lost, process dead, append torn or record written over, no idea that
\* was evaluated is missing from N, the trials the deflated Sharpe ratio is deflated by.
THEOREM TrialsCounted ==
    ASSUME MaxLabFaults \in 0..1
    PROVE  LabSpec => []TrialsAreCounted
  <1>1. LabInit => LabInv
    BY LabInvInit
  <1>2. LabInv /\ [LabNext]_labVars => LabInv'
    BY LabTypesStep, FaultlessStep, LoneStep DEF LabInv
  <1>3. LabInv => TrialsAreCounted
    BY LabInvCounts
  <1> QED BY <1>1, <1>2, <1>3, PTL DEF LabSpec

-----------------------------------------------------------------------------
(***************************************************************************)
(* The promotion gate: shares of sums.                                     *)
(***************************************************************************)
\* A positive factor keeps an order.
LEMMA Times == ASSUME NEW a \in Int, NEW b \in Int, NEW k \in Int, k > 0 PROVE a <= b <=> a * k <= b * k
  OBVIOUS

\* A positive factor keeps the sign.
LEMMA TimesSign == ASSUME NEW a \in Int, NEW k \in Int, k > 0 PROVE a > 0 <=> a * k > 0
  OBVIOUS

\* The elements of D whose key is in G, and the keys.
Keyed(c, D, G) == {i \in D : c[i] \in G}
Keys(c, D) == {c[i] : i \in D}

\* Finitely many elements have finitely many keys.
LEMMA KeysFinite == ASSUME NEW D, IsFiniteSet(D), NEW c PROVE IsFiniteSet(Keys(c, D))
  <1> DEFINE f == [i \in D |-> c[i]]
  <1>1. f \in Surjection(D, Keys(c, D))
    BY DEF Keys, Surjection
  <1> QED BY <1>1, FS_Surjection

\* The trades of one key more are those and the key's own.
LEMMA KeyMore ==
    ASSUME NEW D, IsFiniteSet(D), NEW c, NEW w, \A i \in D : w[i] \in Int, NEW G, NEW x, x \notin G
    PROVE  /\ SumFunctionOnSet(w, Keyed(c, D, G)) \in Int /\ SumFunctionOnSet(w, Keyed(c, D, {x})) \in Int
           /\ SumFunctionOnSet(w, Keyed(c, D, G \cup {x}))
                = SumFunctionOnSet(w, Keyed(c, D, G)) + SumFunctionOnSet(w, Keyed(c, D, {x}))
  <1>1. PICK A, B : A = Keyed(c, D, G) /\ B = Keyed(c, D, {x})
    OBVIOUS
  <1>2. A \subseteq D /\ B \subseteq D /\ A \cap B = {} /\ Keyed(c, D, G \cup {x}) = A \cup B
    BY <1>1 DEF Keyed
  <1>3. IsFiniteSet(A) /\ IsFiniteSet(B) /\ \A i \in A \cup B : w[i] \in Int
    BY <1>2, FS_Subset
  <1>4. SumFunctionOnSet(w, A \cup B) = SumFunctionOnSet(w, A) + SumFunctionOnSet(w, B)
    BY <1>2, <1>3, SumOfBoth
  <1>5. SumFunctionOnSet(w, A) \in Int
    BY <1>3, SumIsNumber
  <1>6. SumFunctionOnSet(w, B) \in Int
    BY <1>3, SumIsNumber
  <1> QED BY <1>1, <1>2, <1>4, <1>5, <1>6

\* If no key has more than a k-th of the whole, there are k keys.
LEMMA ManyKeys ==
    ASSUME NEW D, IsFiniteSet(D), NEW c, NEW w, \A i \in D : w[i] \in Int, NEW k \in Nat,
           SumFunctionOnSet(w, D) > 0,
           \A x \in Keys(c, D) : k * SumFunctionOnSet(w, Keyed(c, D, {x})) <= SumFunctionOnSet(w, D)
    PROVE  IsFiniteSet(Keys(c, D)) /\ Cardinality(Keys(c, D)) >= k
  <1>1. PICK all \in Int : all = SumFunctionOnSet(w, D) /\ all > 0
    BY SumIsNumber
  <1>2. IsFiniteSet(Keys(c, D))
    BY KeysFinite
  <1> DEFINE S == Keys(c, D)
             C == {G \in SUBSET S : k * SumFunctionOnSet(w, Keyed(c, D, G)) <= Cardinality(G) * all}
  <1>3. {} \in C
    <2>1. Keyed(c, D, {}) = {}
      BY DEF Keyed
    <2>2. k * SumFunctionOnSet(w, Keyed(c, D, {})) = 0
      BY <2>1, SumOfNone
    <2>3. Cardinality({}) * all = 0
      BY FS_EmptySet
    <2> QED BY <2>2, <2>3
  <1>4. ASSUME NEW G \in SUBSET S, G \in C, NEW x \in S \ G PROVE G \cup {x} \in C
    <2>3. SumFunctionOnSet(w, Keyed(c, D, G \cup {x})) = SumFunctionOnSet(w, Keyed(c, D, G)) + SumFunctionOnSet(w, Keyed(c, D, {x}))
      BY KeyMore
    <2>4. PICK a \in Int : a = SumFunctionOnSet(w, Keyed(c, D, G))
      BY KeyMore
    <2>5. PICK b \in Int : b = SumFunctionOnSet(w, Keyed(c, D, {x}))
      BY KeyMore
    <2>6. PICK n \in Nat : n = Cardinality(G) /\ Cardinality(G \cup {x}) = n + 1
      BY <1>2, FS_Subset, FS_AddElement, FS_CardinalityType
    <2>7. k * a <= n * all
      BY <1>4, <2>4, <2>6
    <2>8. k * b <= all
      BY <1>1, <2>5
    <2>9. k * (a + b) <= (n + 1) * all
      <3>1. k * (a + b) = k * a + k * b /\ (n + 1) * all = n * all + all
        OBVIOUS
      <3>2. PICK ka, kb, na \in Int : ka = k * a /\ kb = k * b /\ na = n * all
        OBVIOUS
      <3> QED BY <2>7, <2>8, <3>1, <3>2
    <2> QED BY <2>3, <2>4, <2>5, <2>6, <2>9
  <1>5. S \in C
    <2> HIDE DEF C, S
    <2> QED BY <1>2, <1>3, <1>4, FiniteInduction DEF S
  <1>6. Keyed(c, D, S) = D
    BY DEF Keyed, Keys
  <1>7. k * all <= Cardinality(S) * all
    BY <1>1, <1>5, <1>6
  <1>8. Cardinality(S) \in Nat
    BY <1>2, FS_CardinalityType
  <1> QED BY <1>1, <1>2, <1>7, <1>8, Times

\* If every key has more than nothing, so has the whole.
LEMMA AllPositive ==
    ASSUME NEW D, IsFiniteSet(D), D # {}, NEW c, NEW w, \A i \in D : w[i] \in Int,
           \A x \in Keys(c, D) : SumFunctionOnSet(w, Keyed(c, D, {x})) > 0
    PROVE  SumFunctionOnSet(w, D) > 0
  <1>2. IsFiniteSet(Keys(c, D))
    BY KeysFinite
  <1> DEFINE S == Keys(c, D)
             C == {G \in SUBSET S : G = {} \/ SumFunctionOnSet(w, Keyed(c, D, G)) > 0}
  <1>3. {} \in C
    OBVIOUS
  <1>4. ASSUME NEW G \in SUBSET S, G \in C, NEW x \in S \ G PROVE G \cup {x} \in C
    <2>3. SumFunctionOnSet(w, Keyed(c, D, G \cup {x})) = SumFunctionOnSet(w, Keyed(c, D, G)) + SumFunctionOnSet(w, Keyed(c, D, {x}))
      BY KeyMore
    <2>4. PICK a \in Int : a = SumFunctionOnSet(w, Keyed(c, D, G))
      BY KeyMore
    <2>5. PICK b \in Int : b = SumFunctionOnSet(w, Keyed(c, D, {x}))
      BY KeyMore
    <2>6. b > 0
      BY <2>5
    <2>7. a >= 0
      <3>1. CASE G = {}
        <4>1. Keyed(c, D, G) = {}
          BY <3>1 DEF Keyed
        <4> QED BY <2>4, <4>1, SumOfNone
      <3>2. CASE G # {}
        BY <1>4, <2>4, <3>2
      <3> QED BY <3>1, <3>2
    <2>8. SumFunctionOnSet(w, Keyed(c, D, G \cup {x})) > 0
      BY <2>3, <2>4, <2>5, <2>6, <2>7
    <2> QED BY <2>8
  <1>5. S \in C
    <2> HIDE DEF C, S
    <2> QED BY <1>2, <1>3, <1>4, FiniteInduction DEF S
  <1>6. Keyed(c, D, S) = D /\ S # {}
    BY DEF Keyed, Keys
  <1> QED BY <1>5, <1>6

\* A mean: a total and a count.
IsMean(m) == m[1] \in Int /\ m[2] \in Int /\ m[2] > 0

\* Means compare like the numbers they are.
LEMMA LeqOrders ==
    ASSUME NEW p, NEW q, NEW r, IsMean(p), IsMean(q), IsMean(r)
    PROVE  /\ Leq(p, q) \/ Leq(q, p)
           /\ Leq(p, q) /\ Leq(q, r) => Leq(p, r)
           /\ Leq(p, q) /\ Positive(p) => Positive(q)
  <1>1. PICK a, c, e, b, d, f \in Int : a = p[1] /\ c = q[1] /\ e = r[1] /\ b = p[2] /\ d = q[2] /\ f = r[2]
    BY DEF IsMean
  <1>2. b > 0 /\ d > 0 /\ f > 0
    BY <1>1 DEF IsMean
  <1>3. a * d <= c * b \/ c * b <= a * d
    OBVIOUS
  <1>4. ASSUME a * d <= c * b, c * f <= e * d PROVE a * f <= e * b
    <2>1. (a * d) * f <= (c * b) * f
      BY <1>2, <1>4, Times
    <2>2. (c * f) * b <= (e * d) * b
      BY <1>2, <1>4, Times
    <2>3. (a * d) * f = (a * f) * d /\ (c * b) * f = (c * f) * b /\ (e * d) * b = (e * b) * d
      OBVIOUS
    <2>4. (a * f) * d <= (e * b) * d
      <3>1. PICK x, y, z \in Int : x = (a * d) * f /\ y = (c * f) * b /\ z = (e * d) * b
        OBVIOUS
      <3> QED BY <2>1, <2>2, <2>3, <3>1
    <2>5. a * f \in Int /\ e * b \in Int
      OBVIOUS
    <2> QED BY <1>2, <2>4, <2>5, Times
  <1>5. ASSUME a * d <= c * b, a > 0 PROVE c > 0
    <2>1. a * d > 0
      BY <1>2, <1>5, TimesSign
    <2>2. c * b > 0
      <3>1. PICK x, y \in Int : x = a * d /\ y = c * b
        OBVIOUS
      <3> QED BY <1>5, <2>1, <3>1
    <2> QED BY <1>2, <2>2, TimesSign
  <1> QED BY <1>1, <1>3, <1>4, <1>5 DEF Leq, Positive

\* Some means have a least.
LEMMA LeastMean ==
    ASSUME NEW M, IsFiniteSet(M), M # {}, \A m \in M : IsMean(m)
    PROVE  \E m \in M : \A n \in M : Leq(m, n)
  <1> DEFINE C == {A \in SUBSET M : A = {} \/ \E m \in A : \A n \in A : Leq(m, n)}
  <1>1. {} \in C
    OBVIOUS
  <1>2. ASSUME NEW A \in SUBSET M, A \in C, NEW x \in M \ A PROVE A \cup {x} \in C
    <2>0. Leq(x, x)
      BY LeqOrders
    <2>1. CASE A = {}
      BY <2>0, <2>1
    <2>2. CASE A # {}
      <3>1. PICK m \in A : \A n \in A : Leq(m, n)
        BY <1>2, <2>2
      <3>2. CASE Leq(m, x)
        <4>1. m \in A \cup {x} /\ \A n \in A \cup {x} : Leq(m, n)
          BY <3>1, <3>2
        <4> QED BY <4>1
      <3>3. CASE ~Leq(m, x)
        <4>1. Leq(x, m)
          BY <3>3, LeqOrders
        <4>2. ASSUME NEW n \in A PROVE Leq(x, n)
          <5>1. Leq(m, n)
            BY <3>1
          <5> QED BY <4>1, <5>1, LeqOrders
        <4>3. x \in A \cup {x} /\ \A n \in A \cup {x} : Leq(x, n)
          BY <2>0, <4>2
        <4> QED BY <4>3
      <3> QED BY <3>2, <3>3
    <2> QED BY <2>1, <2>2
  <1>3. M \in C
    <2> HIDE DEF C
    <2> QED BY <1>1, <1>2, FiniteInduction
  <1> QED BY <1>3

\* The trades of a sample and their keys.
PnlOf(T) == [i \in DOMAIN T |-> T[i].pnl]
WeightOf(T) == [i \in DOMAIN T |-> Abs(T[i].pnl)]
GameOf(T) == [i \in DOMAIN T |-> T[i].game]
TeamOf(T) == [i \in DOMAIN T |-> T[i].team]

\* What the gate counts of a sample, in terms of sums and keys.
LEMMA SampleFacts ==
    ASSUME NEW T \in Seq(TradeRecord)
    PROVE  /\ IsFiniteSet(DOMAIN T)
           /\ \A i \in DOMAIN T : PnlOf(T)[i] \in Int /\ WeightOf(T)[i] \in Int /\ PnlOf(T)[i] <= WeightOf(T)[i] /\ -WeightOf(T)[i] <= PnlOf(T)[i]
           /\ \A X : SumPnl(T, X) = SumFunctionOnSet(PnlOf(T), X) /\ AbsTotal(T, X) = SumFunctionOnSet(WeightOf(T), X)
           /\ Games(T, DOMAIN T) = Keys(GameOf(T), DOMAIN T) /\ Teams(T, DOMAIN T) = Keys(TeamOf(T), DOMAIN T)
           /\ \A g : OfGame(T, DOMAIN T, g) = Keyed(GameOf(T), DOMAIN T, {g})
           /\ \A t : OfTeam(T, DOMAIN T, t) = Keyed(TeamOf(T), DOMAIN T, {t})
  <1>1. Len(T) \in Nat /\ DOMAIN T = 1..Len(T) /\ \A i \in DOMAIN T : T[i] \in TradeRecord
    BY LenProperties, ElementOfSeq
  <1>2. IsFiniteSet(DOMAIN T)
    BY <1>1, FS_Interval
  <1>3. ASSUME NEW i \in DOMAIN T
        PROVE  PnlOf(T)[i] \in Int /\ WeightOf(T)[i] \in Int /\ PnlOf(T)[i] <= WeightOf(T)[i] /\ -WeightOf(T)[i] <= PnlOf(T)[i]
    <2>0. T[i] \in TradeRecord
      BY <1>1
    <2>1. PICK n \in Int : n = T[i].pnl
      <3>1. T[i].pnl \in Int
        BY <2>0 DEF TradeRecord
      <3> QED BY <3>1
    <2>2. PnlOf(T)[i] = n /\ WeightOf(T)[i] = IF n < 0 THEN -n ELSE n
      BY <2>1 DEF PnlOf, WeightOf, Abs
    <2> QED BY <2>2
  <1>4. \A X : SumPnl(T, X) = SumFunctionOnSet(PnlOf(T), X) /\ AbsTotal(T, X) = SumFunctionOnSet(WeightOf(T), X)
    BY DEF SumPnl, AbsTotal, PnlOf, WeightOf
  <1>5. Games(T, DOMAIN T) = Keys(GameOf(T), DOMAIN T) /\ Teams(T, DOMAIN T) = Keys(TeamOf(T), DOMAIN T)
    BY DEF Games, Teams, Keys, GameOf, TeamOf
  <1>6. \A g : OfGame(T, DOMAIN T, g) = Keyed(GameOf(T), DOMAIN T, {g})
    BY DEF OfGame, Keyed, GameOf
  <1>7. \A t : OfTeam(T, DOMAIN T, t) = Keyed(TeamOf(T), DOMAIN T, {t})
    BY DEF OfTeam, Keyed, TeamOf
  <1> QED BY <1>2, <1>3, <1>4, <1>5, <1>6, <1>7

\* A bootstrap interval above zero: the trades made a profit.
LEMMA IntervalMeansProfit ==
    ASSUME NEW T \in Seq(TradeRecord), LowerPositive(T, DOMAIN T)
    PROVE  SumPnl(T, DOMAIN T) > 0
  <1> DEFINE D == DOMAIN T
             PerGame(g) == MeanOf(T, OfGame(T, D, g))
             means == {PerGame(g) : g \in Games(T, D)}
             least == CHOOSE m \in means : \A n \in means : Leq(m, n)
  <1>1. D # {} /\ (Positive(least) \/ Positive(MeanOf(T, D)))
    <2>1. D # {} /\ \E i \in Intervals(T, D) : Positive(i.lo)
      BY DEF LowerPositive
    <2>2. PICK i \in Intervals(T, D) : Positive(i.lo)
      BY <2>1
    <2>3. \E l \in {least, MeanOf(T, D)} : \E h : i = [lo |-> l, hi |-> h]
      BY DEF Intervals
    <2>4. i.lo \in {least, MeanOf(T, D)}
      <3> HIDE DEF least
      <3> QED BY <2>3
    <2> HIDE DEF least
    <2> QED BY <2>1, <2>2, <2>4
  <1>2. ASSUME Positive(MeanOf(T, D)) PROVE SumPnl(T, D) > 0
    BY <1>2 DEF Positive, MeanOf
  <1>3. ASSUME NEW g \in Games(T, D) PROVE IsMean(PerGame(g)) /\ PerGame(g)[1] = SumFunctionOnSet(PnlOf(T), Keyed(GameOf(T), D, {g}))
    <2>1. PICK X : X = OfGame(T, D, g)
      OBVIOUS
    <2>2. X \subseteq D /\ X # {} /\ X = Keyed(GameOf(T), D, {g})
      <3>1. X = Keyed(GameOf(T), D, {g})
        BY <2>1, SampleFacts
      <3>2. X \subseteq D /\ X # {}
        BY <2>1 DEF OfGame, Games
      <3> QED BY <3>1, <3>2
    <2>3. IsFiniteSet(X)
      BY <2>2, SampleFacts, FS_Subset
    <2>4. Cardinality(X) \in Int /\ Cardinality(X) > 0
      <3>1. Cardinality(X) \in Nat /\ Cardinality(X) # 0
        BY <2>2, <2>3, FS_CardinalityType, FS_EmptySet
      <3> QED BY <3>1
    <2>5. SumFunctionOnSet(PnlOf(T), X) \in Int
      BY <2>2, <2>3, SampleFacts, SumIsNumber
    <2>6. PerGame(g)[1] = SumFunctionOnSet(PnlOf(T), X) /\ PerGame(g)[2] = Cardinality(X)
      BY <2>1, SampleFacts DEF MeanOf
    <2> QED BY <2>2, <2>4, <2>5, <2>6 DEF IsMean
  <1>4. ASSUME Positive(least) PROVE SumPnl(T, D) > 0
    <2> HIDE DEF PerGame
    <2>1. IsFiniteSet(means) /\ means # {}
      <3>1. IsFiniteSet(Games(T, D)) /\ Games(T, D) # {}
        <4>1. Games(T, D) = Keys(GameOf(T), D) /\ IsFiniteSet(D)
          BY SampleFacts
        <4>2. Games(T, D) # {}
          BY <1>1 DEF Games
        <4> QED BY <4>1, <4>2, KeysFinite
      <3> DEFINE f == [g \in Games(T, D) |-> PerGame(g)]
      <3>2. f \in Surjection(Games(T, D), means)
        BY DEF Surjection
      <3>3. means # {}
        BY <3>1
      <3> HIDE DEF f, means
      <3> QED BY <3>1, <3>2, <3>3, FS_Surjection
    <2>2. \A m \in means : IsMean(m)
      BY <1>3
    <2>3. \E m \in means : \A n \in means : Leq(m, n)
      <3> HIDE DEF means
      <3> QED BY <2>1, <2>2, LeastMean
    <2>4. least \in means /\ \A n \in means : Leq(least, n)
      <3> HIDE DEF means
      <3> QED BY <2>3
    <2> HIDE DEF least
    <2>5. ASSUME NEW g \in Games(T, D) PROVE PerGame(g)[1] > 0
      <3>1. Leq(least, PerGame(g)) /\ IsMean(least) /\ IsMean(PerGame(g))
        BY <2>2, <2>4
      <3>2. Positive(PerGame(g))
        BY <1>4, <3>1, LeqOrders
      <3> QED BY <3>2 DEF Positive
    <2>6. \A x \in Keys(GameOf(T), D) : SumFunctionOnSet(PnlOf(T), Keyed(GameOf(T), D, {x})) > 0
      BY <1>3, <2>5, SampleFacts
    <2>7. IsFiniteSet(D) /\ \A i \in D : PnlOf(T)[i] \in Int
      BY SampleFacts
    <2>8. SumFunctionOnSet(PnlOf(T), D) > 0
      <3> HIDE DEF D
      <3> QED BY <1>1, <2>6, <2>7, AllPositive
    <2> QED BY <2>8, SampleFacts
  <1> QED BY <1>1, <1>2, <1>4

\* What a pass stands for (PassNeedsBreadth, of a sample).
Breadth(T) ==
    /\ Cardinality(Games(T, DOMAIN T)) >= 5 /\ Cardinality(Teams(T, DOMAIN T)) >= 4
    /\ Cardinality({T[i].day : i \in DOMAIN T}) >= 2
    /\ {T[i].home : i \in DOMAIN T} \cap EvenHome \notin {{}, {T[i].home : i \in DOMAIN T}}
    /\ SumPnl(T, DOMAIN T) > 0
    /\ \A g \in Games(T, DOMAIN T) : 5 * Abs(SumPnl(T, OfGame(T, DOMAIN T, g))) <= AbsTotal(T, DOMAIN T)

\* A sample that may pass has that breadth.
LEMMA PassHasBreadth ==
    ASSUME NEW T \in Seq(TradeRecord), MayPass(T)
    PROVE  Breadth(T)
  <1> DEFINE D == DOMAIN T
             all == AbsTotal(T, D)
  <1>1. /\ LowerPositive(T, D) /\ Stable(T, Early(T), D \ Early(T)) /\ Stable(T, EvenTrades(T), D \ EvenTrades(T))
        /\ ~Concentrated(T, ByGame(T), 20) /\ ~Concentrated(T, ByTeam(T), 25)
    BY DEF MayPass
  <1>2. SumPnl(T, D) > 0
    BY <1>1, IntervalMeansProfit
  <1>f. IsFiniteSet(D) /\ \A i \in D : WeightOf(T)[i] \in Int
    BY SampleFacts
  <1>3. all \in Int /\ all > 0 /\ all = SumFunctionOnSet(WeightOf(T), D)
    <2>1. PICK p : p = SumFunctionOnSet(PnlOf(T), D)
      OBVIOUS
    <2>2. PICK a : a = SumFunctionOnSet(WeightOf(T), D)
      OBVIOUS
    <2>3. p \in Int /\ a \in Int /\ p <= a
      BY <2>1, <2>2, SampleFacts, SumWithin
    <2>4. p > 0 /\ all = a
      BY <1>2, <2>1, <2>2, SampleFacts
    <2> QED BY <2>2, <2>3, <2>4
  <1>4. ASSUME NEW X, X \in ByGame(T) PROVE 100 * AbsTotal(T, X) <= 20 * all \/ AbsTotal(T, X) \notin Int
    BY <1>1, <1>3, <1>4 DEF Concentrated
  <1>5. ASSUME NEW X, X \in ByTeam(T) PROVE 100 * AbsTotal(T, X) <= 25 * all \/ AbsTotal(T, X) \notin Int
    BY <1>1, <1>3, <1>5 DEF Concentrated
  <1> HIDE DEF all
  <1>6. ASSUME NEW g \in Games(T, D)
        PROVE  /\ AbsTotal(T, OfGame(T, D, g)) \in Int
               /\ 5 * AbsTotal(T, OfGame(T, D, g)) <= all
               /\ 5 * Abs(SumPnl(T, OfGame(T, D, g))) <= all
    <2>1. PICK X : X = OfGame(T, D, g)
      OBVIOUS
    <2>2. X \subseteq D /\ X \in ByGame(T)
      BY <2>1 DEF OfGame, ByGame
    <2>3. IsFiniteSet(X)
      BY <1>f, <2>2, FS_Subset
    <2>4. PICK p, a : p = SumPnl(T, X) /\ a = AbsTotal(T, X)
      OBVIOUS
    <2>5. p \in Int /\ a \in Int /\ p <= a /\ -a <= p
      BY <2>2, <2>3, <2>4, SampleFacts, SumWithin
    <2>6. 100 * a <= 20 * all
      BY <1>4, <2>2, <2>4, <2>5
    <2>7. 5 * a <= all /\ 5 * Abs(p) <= all
      BY <1>3, <2>5, <2>6 DEF Abs
    <2> QED BY <2>1, <2>4, <2>5, <2>7
  <1>7. ASSUME NEW t \in Teams(T, D)
        PROVE  4 * AbsTotal(T, OfTeam(T, D, t)) <= all
    <2>1. PICK X : X = OfTeam(T, D, t)
      OBVIOUS
    <2>2. X \subseteq D /\ X \in ByTeam(T)
      BY <2>1 DEF OfTeam, ByTeam
    <2>3. IsFiniteSet(X)
      BY <1>f, <2>2, FS_Subset
    <2>4. PICK a : a = AbsTotal(T, X)
      OBVIOUS
    <2>5. a \in Int
      BY <2>2, <2>3, <2>4, SampleFacts, SumWithin
    <2>6. 100 * a <= 25 * all
      BY <1>5, <2>2, <2>4, <2>5
    <2> QED BY <1>3, <2>1, <2>4, <2>5, <2>6
  <1>8. Cardinality(Games(T, D)) >= 5
    <2>1. Games(T, D) = Keys(GameOf(T), D)
      BY SampleFacts
    <2>2. \A x \in Keys(GameOf(T), D) : 5 * SumFunctionOnSet(WeightOf(T), Keyed(GameOf(T), D, {x})) <= SumFunctionOnSet(WeightOf(T), D)
      BY <1>3, <1>6, <2>1, SampleFacts
    <2> HIDE DEF D
    <2> QED BY <1>f, <1>3, <2>1, <2>2, ManyKeys
  <1>9. Cardinality(Teams(T, D)) >= 4
    <2>1. Teams(T, D) = Keys(TeamOf(T), D)
      BY SampleFacts
    <2>2. \A x \in Keys(TeamOf(T), D) : 4 * SumFunctionOnSet(WeightOf(T), Keyed(TeamOf(T), D, {x})) <= SumFunctionOnSet(WeightOf(T), D)
      BY <1>3, <1>7, <2>1, SampleFacts
    <2> HIDE DEF D
    <2> QED BY <1>f, <1>3, <2>1, <2>2, ManyKeys
  <1>10. Cardinality({T[i].day : i \in D}) >= 2
    <2>1. PICK i, j \in D : i \in Early(T) /\ j \notin Early(T)
      <3>1. Early(T) # {} /\ D \ Early(T) # {} /\ Early(T) \subseteq D
        BY <1>1 DEF Stable, Early
      <3> QED BY <3>1
    <2>2. T[i].day # T[j].day
      BY <2>1 DEF Early
    <2> DEFINE c == [k \in D |-> T[k].day]
    <2>3. {T[k].day : k \in D} = Keys(c, D)
      BY DEF Keys
    <2>4. PICK S : S = Keys(c, D) /\ IsFiniteSet(S)
      BY <1>f, KeysFinite
    <2>5. {T[i].day, T[j].day} \subseteq S
      BY <2>4 DEF Keys
    <2>6. Cardinality({T[i].day, T[j].day}) = 2
      <3>1. IsFiniteSet({T[i].day}) /\ Cardinality({T[i].day}) = 1
        BY FS_Singleton
      <3>2. T[j].day \notin {T[i].day} /\ {T[i].day} \cup {T[j].day} = {T[i].day, T[j].day}
        BY <2>2
      <3>3. T[j].day \notin {T[i].day} => Cardinality({T[i].day} \cup {T[j].day}) = Cardinality({T[i].day}) + 1
        BY <3>1, FS_AddElement
      <3> QED BY <3>1, <3>2, <3>3
    <2>7. Cardinality({T[i].day, T[j].day}) <= Cardinality(S) /\ Cardinality(S) \in Nat
      BY <2>4, <2>5, FS_Subset, FS_CardinalityType
    <2> QED BY <2>3, <2>4, <2>6, <2>7
  <1>11. {T[i].home : i \in D} \cap EvenHome \notin {{}, {T[i].home : i \in D}}
    <2>1. PICK i, j \in D : T[i].home \in EvenHome /\ T[j].home \notin EvenHome
      <3>1. EvenTrades(T) # {} /\ D \ EvenTrades(T) # {}
        BY <1>1 DEF Stable
      <3> QED BY <3>1 DEF EvenTrades
    <2> QED BY <2>1
  <1> QED BY <1>2, <1>6, <1>8, <1>9, <1>10, <1>11 DEF Breadth, all

\* The gate's invariant: a report passes only a sample that may pass.
PassingInv ==
    /\ sample \in Samples \cup {<<>>}
    /\ report.passed => Len(sample) >= 2 /\ MayPass(sample)

\* It holds at the start, where there is no report that passes.
LEMMA PassingInvInit == GateInit => PassingInv
  <1> SUFFICES ASSUME GateInit PROVE PassingInv
    OBVIOUS
  <1>1. sample \in Samples \cup {<<>>}
    BY DEF GateInit
  <1>2. report.passed = FALSE
    BY DEF GateInit, NoReport
  <1> QED BY <1>1, <1>2 DEF PassingInv

\* Evaluate is the only step that reports.
LEMMA PassingInvNext == PassingInv /\ [GateNext]_gateVars => PassingInv'
  <1> SUFFICES ASSUME PassingInv, [GateNext]_gateVars PROVE PassingInv'
    OBVIOUS
  <1>1. CASE Evaluate
    <2>1. PICK passed \in {FALSE, Len(sample) >= 2 /\ MayPass(sample)} :
            report' = IF Len(sample) < 2 THEN [passed |-> FALSE, reasons |-> "few"] ELSE Evaluation(sample, passed)
      BY <1>1 DEF Evaluate
    <2>2. sample' = sample
      BY <1>1 DEF Evaluate
    <2>3. report'.passed => passed
      <3>1. Evaluation(sample, passed).passed = passed
        BY DEF Evaluation
      <3>2. CASE Len(sample) < 2
        <4>1. report' = [passed |-> FALSE, reasons |-> "few"]
          BY <2>1, <3>2
        <4>2. report'.passed = FALSE
          BY <4>1
        <4> QED BY <4>2
      <3>3. CASE ~(Len(sample) < 2)
        <4>1. report' = Evaluation(sample, passed)
          BY <2>1, <3>3
        <4> QED BY Zenon, <3>1, <4>1
      <3> QED BY <3>2, <3>3
    <2>4. passed => Len(sample) >= 2 /\ MayPass(sample)
      BY <2>1, Zenon
    <2> QED BY Zenon, <2>2, <2>3, <2>4 DEF PassingInv
  <1>2. ASSUME NEW force \in BOOLEAN, Lock(force) PROVE PassingInv'
    <2>1. sample' = sample /\ report' = report
      BY <1>2 DEF Lock
    <2> QED BY Zenon, <2>1 DEF PassingInv, MayPass
  <1>3. CASE UNCHANGED gateVars
    BY Zenon, <1>3 DEF PassingInv, gateVars
  <1> QED BY <1>1, <1>2, <1>3 DEF GateNext

\* What the gate passes has breadth: five games, four teams, two days, home teams of both
\* parities, and a profit of which no game makes more than a fifth (promotion_gate.py).
THEOREM PassesHaveBreadth == GateSpec => []PassNeedsBreadth
  <1>1. PassingInv => PassNeedsBreadth
    <2> SUFFICES ASSUME PassingInv, report.passed PROVE Breadth(sample)
      BY DEF PassNeedsBreadth, Breadth
    <2>1. sample \in Samples \cup {<<>>} /\ Len(sample) >= 2 /\ MayPass(sample)
      BY Zenon DEF PassingInv
    <2>2. sample # <<>>
      <3>1. Len(<<>>) = 0
        OBVIOUS
      <3> QED BY <2>1, <3>1
    <2>3. sample \in Seq(TradeRecord)
      BY <2>1, <2>2, GateAssumption DEF GateAssumption
    <2> QED BY <2>1, <2>3, PassHasBreadth
  <1> QED BY <1>1, PassingInvInit, PassingInvNext, PTL DEF GateSpec

-----------------------------------------------------------------------------
(***************************************************************************)
(* The replay.                                                             *)
(***************************************************************************)
\* Some natural numbers up to a bound have a greatest.
LEMMA HasGreatest ==
    ASSUME NEW n \in Nat, NEW T \in SUBSET (0..n), T # {}
    PROVE  \E x \in T : \A y \in T : x >= y
  <1> DEFINE U == {n - x : x \in T}
  <1>1. U \in SUBSET Nat /\ U # {}
    <2>1. \A x \in T : n - x \in Nat
      OBVIOUS
    <2> QED BY <2>1
  <1>2. PICK u \in U : \A v \in U : u <= v
    <2> HIDE DEF U
    <2> QED BY <1>1, LeastNumber
  <1>3. PICK x \in T : u = n - x
    OBVIOUS
  <1>4. ASSUME NEW y \in T PROVE x >= y
    <2>1. n - y \in U
      OBVIOUS
    <2>2. n - x <= n - y
      BY <1>2, <1>3, <2>1
    <2> QED BY <2>2
  <1> QED BY <1>4

\* The greatest of a set that has one.
LEMMA MaxIsGreatest ==
    ASSUME NEW T, \E x \in T : \A y \in T : x >= y
    PROVE  Max(T) \in T /\ \A y \in T : Max(T) >= y
  BY DEF Max

\* The row a bisection stops at.
Kept(list, ts) == Max({0} \cup {i \in DOMAIN list : list[i].ts <= ts})

\* It is the last row that is not later.
LEMMA KeptIsLast ==
    ASSUME NEW S, NEW list \in Seq(S), NEW ts
    PROVE  /\ Kept(list, ts) \in 0..Len(list)
           /\ \A i \in DOMAIN list : list[i].ts <= ts => i <= Kept(list, ts)
  <1> DEFINE T == {i \in DOMAIN list : list[i].ts <= ts}
  <1>1. Len(list) \in Nat /\ DOMAIN list = 1..Len(list)
    BY LenProperties
  <1> DEFINE U == {0} \cup T
  <1>2. U \in SUBSET (0..Len(list)) /\ U # {}
    BY <1>1
  <1>3. Max(U) \in U /\ \A y \in U : Max(U) >= y
    <2> HIDE DEF U
    <2> QED BY <1>1, <1>2, HasGreatest, MaxIsGreatest
  <1>4. Kept(list, ts) = Max(U)
    BY DEF Kept
  <1>5. ASSUME NEW i \in DOMAIN list, list[i].ts <= ts PROVE i <= Max(U)
    <2>1. i \in U
      BY <1>5
    <2> HIDE DEF U
    <2> QED BY <1>1, <1>2, <1>3, <2>1
  <1> QED BY <1>2, <1>3, <1>4, <1>5

\* What a bisection keeps of rows.
LEMMA UptoKeeps ==
    ASSUME NEW S, NEW list \in Seq(S), NEW ts
    PROVE  /\ Upto(list, ts) \in Seq(S) /\ Len(Upto(list, ts)) = Kept(list, ts)
           /\ \A i \in 1..Kept(list, ts) : Upto(list, ts)[i] = list[i]
  <1>1. Kept(list, ts) \in 0..Len(list) /\ Len(list) \in Nat
    BY KeptIsLast, LenProperties
  <1>2. Upto(list, ts) = SubSeq(list, 1, Kept(list, ts))
    BY DEF Upto, Kept
  <1> HIDE DEF Kept, Upto
  <1>3. PICK k \in 0..Len(list) : k = Kept(list, ts)
    BY <1>1
  <1>4. SubSeq(list, 1, k) \in Seq(S) /\ Len(SubSeq(list, 1, k)) = k /\ \A i \in 1..k : SubSeq(list, 1, k)[i] = list[i]
    BY <1>1
  <1> QED BY <1>2, <1>3, <1>4

\* Rows that agree up to a time are kept alike at any earlier time.
LEMMA UptoEarlier ==
    ASSUME NEW S, NEW a \in Seq(S), NEW b \in Seq(S), \A s \in S : s.ts \in Int,
           NEW late \in Int, NEW ts \in Int, ts <= late, Upto(a, late) = Upto(b, late)
    PROVE  Upto(a, ts) = Upto(b, ts)
  <1> DEFINE K == Kept(a, late)
  <1>1. K = Kept(b, late) /\ \A i \in 1..K : a[i] = b[i]
    BY UptoKeeps
  <1>2. K \in 0..Len(a) /\ K \in 0..Len(b) /\ Len(a) \in Nat /\ Len(b) \in Nat /\ DOMAIN a = 1..Len(a) /\ DOMAIN b = 1..Len(b)
    BY <1>1, KeptIsLast, LenProperties
  <1>3. /\ \A i \in DOMAIN a : a[i].ts <= late => i <= K
        /\ \A i \in DOMAIN b : b[i].ts <= late => i <= K
    BY <1>1, KeptIsLast
  <1>4. (\A i \in DOMAIN a : a[i].ts \in Int) /\ (\A i \in DOMAIN b : b[i].ts \in Int)
    BY ElementOfSeq, <1>2
  <1> HIDE DEF K
  <1>5. {i \in DOMAIN a : a[i].ts <= ts} = {i \in DOMAIN b : b[i].ts <= ts}
    <2>1. ASSUME NEW i \in DOMAIN a, a[i].ts <= ts PROVE i \in DOMAIN b /\ b[i].ts <= ts
      <3>1. i <= K
        BY <1>3, <1>4, <2>1
      <3> QED BY <1>1, <1>2, <2>1, <3>1
    <2>2. ASSUME NEW i \in DOMAIN b, b[i].ts <= ts PROVE i \in DOMAIN a /\ a[i].ts <= ts
      <3>1. i <= K
        BY <1>3, <1>4, <2>2
      <3> QED BY <1>1, <1>2, <2>2, <3>1
    <2> QED BY <2>1, <2>2
  <1>6. Kept(a, ts) = Kept(b, ts)
    BY <1>5 DEF Kept
  <1>7. \A i \in 1..Kept(a, ts) : a[i] = b[i]
    <2>1. CASE Kept(a, ts) = 0
      BY <2>1
    <2>2. CASE Kept(a, ts) # 0
      <3> DEFINE U == {0} \cup {i \in DOMAIN a : a[i].ts <= ts}
      <3>1. U \in SUBSET (0..Len(a)) /\ U # {}
        BY <1>2
      <3>2. Max(U) \in U
        <4> HIDE DEF U
        <4> QED BY <1>2, <3>1, HasGreatest, MaxIsGreatest
      <3>3. Kept(a, ts) \in DOMAIN a /\ a[Kept(a, ts)].ts <= ts
        BY <2>2, <3>2 DEF Kept
      <3>4. Kept(a, ts) <= K
        BY <1>3, <1>4, <3>3
      <3> QED BY <1>1, <1>2, <3>3, <3>4
    <2> QED BY <2>1, <2>2
  <1> QED
    <2>1. Upto(a, ts) \in Seq(S) /\ Upto(b, ts) \in Seq(S) /\ Len(Upto(a, ts)) = Len(Upto(b, ts))
      BY <1>6, UptoKeeps
    <2>2. \A i \in 1..Len(Upto(a, ts)) : Upto(a, ts)[i] = Upto(b, ts)[i]
      BY <1>6, <1>7, UptoKeeps
    <2> QED BY <2>1, <2>2, SeqEqual

\* Ticks that agree up to a time are joined alike at any earlier time.
LEMMA SameTick ==
    ASSUME NEW a, NEW b, \A t \in a \cup b : t.ts \in Int, NEW late \in Int, NEW ts \in Int, ts <= late,
           {t \in a : t.ts <= late} = {t \in b : t.ts <= late}, NEW none
    PROVE  Joined(a, ts, none) = Joined(b, ts, none)
  <1>1. \A t : t \in a /\ t.ts <= ts <=> t \in b /\ t.ts <= ts
    OBVIOUS
  <1>2. {t \in a : t.ts <= ts /\ ts - t.ts <= Staleness} = {t \in b : t.ts <= ts /\ ts - t.ts <= Staleness}
    BY <1>1
  <1>3. AsOf(a, ts) = AsOf(b, ts)
    BY <1>2 DEF AsOf
  <1> HIDE DEF AsOf
  <1> QED BY <1>3 DEF Joined

\* Two recorded games of which the same is known at a time.
Alike(g, h, late) == Recorded(g) /\ Recorded(h) /\ late \in Int /\ KnownAt(g, late) = KnownAt(h, late)

\* What they have in common.
LEMMA AlikeIn ==
    ASSUME NEW g, NEW h, NEW late, Alike(g, h, late)
    PROVE  /\ g.home = h.home /\ g.away = h.away /\ g.starters = h.starters
           /\ Upto(Clocked(g), late) = Upto(Clocked(h), late) /\ Upto(g.subs, late) = Upto(h.subs, late)
           /\ {t \in g.pm : t.ts <= late} = {t \in h.pm : t.ts <= late}
           /\ {t \in g.kalshi : t.ts <= late} = {t \in h.kalshi : t.ts <= late}
  <1>1. KnownAt(g, late) = KnownAt(h, late)
    BY DEF Alike
  <1>2. KnownAt(g, late).fixture = KnownAt(h, late).fixture /\ KnownAt(g, late).pbp = KnownAt(h, late).pbp
    BY <1>1
  <1>3. KnownAt(g, late).subs = KnownAt(h, late).subs /\ KnownAt(g, late).pm = KnownAt(h, late).pm
        /\ KnownAt(g, late).kalshi = KnownAt(h, late).kalshi
    BY <1>1
  <1> QED BY <1>2, <1>3 DEF KnownAt

\* A row of a game.
ARow == [ts : Int, clock : Int, margin : Int \cup {None, NaN}, lead : Int]

\* A recorded game's rows with a clock are such rows, in the order of their times.
LEMMA RowsOfGame ==
    ASSUME NEW g, Recorded(g)
    PROVE  /\ Clocked(g) \in Seq(ARow) /\ Len(Clocked(g)) \in Nat /\ DOMAIN Clocked(g) = 1..Len(Clocked(g))
           /\ \A i \in DOMAIN Clocked(g) : Clocked(g)[i].ts \in Int /\ Clocked(g)[i].clock \in Int
           /\ \A i, j \in DOMAIN Clocked(g) : i <= j => Clocked(g)[i].ts <= Clocked(g)[j].ts /\ Clocked(g)[i].clock <= Clocked(g)[j].clock
  <1>1. Clocked(g) \in Seq(ARow)
    BY DEF Recorded, ARow
  <1>2. Len(Clocked(g)) \in Nat /\ DOMAIN Clocked(g) = 1..Len(Clocked(g))
    BY <1>1, LenProperties
  <1>3. \A i \in DOMAIN Clocked(g) : Clocked(g)[i] \in ARow
    BY <1>1, <1>2, ElementOfSeq
  <1>4. \A r \in ARow : r.ts \in Int /\ r.clock \in Int
    BY DEF ARow
  <1> QED BY <1>1, <1>2, <1>3, <1>4 DEF Recorded, InTime

\* Their rows up to that time are the same.
LEMMA SameRows ==
    ASSUME NEW g, NEW h, NEW late, Alike(g, h, late), NEW n \in DOMAIN Clocked(g), Clocked(g)[n].ts <= late
    PROVE  n \in DOMAIN Clocked(h) /\ \A i \in 1..n : Clocked(h)[i] = Clocked(g)[i]
  <1>1. Recorded(g) /\ Recorded(h)
    BY DEF Alike
  <1>2. n <= Kept(Clocked(g), late) /\ Kept(Clocked(g), late) \in Nat
    BY <1>1, RowsOfGame, KeptIsLast
  <1>3. Kept(Clocked(g), late) = Kept(Clocked(h), late) /\ \A i \in 1..Kept(Clocked(g), late) : Clocked(g)[i] = Clocked(h)[i]
    BY <1>1, RowsOfGame, UptoKeeps, AlikeIn
  <1>4. Kept(Clocked(h), late) \in 0..Len(Clocked(h))
    BY <1>1, RowsOfGame, KeptIsLast
  <1> QED BY <1>1, <1>2, <1>3, <1>4, RowsOfGame

\* The margin a window ago is looked up among the rows before.
LEMMA SameRun ==
    ASSUME NEW g, NEW h, NEW late, Alike(g, h, late), NEW n \in DOMAIN Clocked(g), Clocked(g)[n].ts <= late,
           ReplayAssumption
    PROVE  RecentRun(Clocked(g), n) = RecentRun(Clocked(h), n)
  <1> DEFINE a == Clocked(g)
             b == Clocked(h)
             A == {j \in DOMAIN a : a[j].clock <= a[n].clock - Lookback}
             B == {j \in DOMAIN b : b[j].clock <= b[n].clock - Lookback}
  <1>1. Recorded(g) /\ Recorded(h) /\ Lookback \in Nat \ {0}
    BY DEF Alike, ReplayAssumption
  <1>2. n \in DOMAIN b /\ \A i \in 1..n : b[i] = a[i]
    BY SameRows
  <1>3. /\ Len(a) \in Nat /\ DOMAIN a = 1..Len(a) /\ Len(b) \in Nat /\ DOMAIN b = 1..Len(b)
        /\ \A i \in DOMAIN a : a[i].clock \in Int
        /\ \A i \in DOMAIN b : b[i].clock \in Int
        /\ \A i, j \in DOMAIN a : i <= j => a[i].clock <= a[j].clock
        /\ \A i, j \in DOMAIN b : i <= j => b[i].clock <= b[j].clock
    BY <1>1, RowsOfGame
  <1>n. n \in DOMAIN a
    OBVIOUS
  <1> HIDE DEF a, b
  <1>4. A \in SUBSET (1..n)
    <2> SUFFICES ASSUME NEW j \in DOMAIN a, a[j].clock <= a[n].clock - Lookback PROVE j \in 1..n
      OBVIOUS
    <2>1. ~(a[n].clock <= a[j].clock)
      BY <1>1, <1>3, <1>n
    <2> QED BY <1>3, <1>n, <2>1
  <1>5. B \in SUBSET (1..n)
    <2> SUFFICES ASSUME NEW j \in DOMAIN b, b[j].clock <= b[n].clock - Lookback PROVE j \in 1..n
      OBVIOUS
    <2>1. ~(b[n].clock <= b[j].clock)
      BY <1>1, <1>2, <1>3
    <2> QED BY <1>2, <1>3, <2>1
  <1>6. A = B
    <2>1. ASSUME NEW j \in 1..n PROVE j \in A <=> j \in B
      <3>1. a[j] = b[j] /\ a[n] = b[n] /\ j \in DOMAIN a /\ j \in DOMAIN b
        BY <1>2, <1>3, <1>n
      <3> QED BY <3>1
    <2> QED BY <1>4, <1>5, <2>1
  <1>7. b[n] = a[n]
    BY <1>2, <1>3
  <1>8. A # {} => b[Max(A)] = a[Max(A)]
    <2> SUFFICES ASSUME A # {} PROVE b[Max(A)] = a[Max(A)]
      OBVIOUS
    <2>1. Max(A) \in A
      <3>1. A \in SUBSET (0..n) /\ n \in Nat
        BY <1>3, <1>4, <1>n
      <3> HIDE DEF A
      <3> QED BY <3>1, HasGreatest, MaxIsGreatest
    <2> HIDE DEF A
    <2> QED BY <1>2, <1>4, <2>1
  <1>9. RecentRun(a, n) = IF a[n].clock < Lookback \/ A = {} THEN NaN
                          ELSE IF Missing(a[Max(A)].margin) \/ Missing(a[n].margin) THEN NaN ELSE a[n].margin - a[Max(A)].margin
    BY DEF RecentRun
  <1>10. RecentRun(b, n) = IF b[n].clock < Lookback \/ B = {} THEN NaN
                           ELSE IF Missing(b[Max(B)].margin) \/ Missing(b[n].margin) THEN NaN ELSE b[n].margin - b[Max(B)].margin
    BY DEF RecentRun
  <1> HIDE DEF A, B
  <1>11. RecentRun(a, n) = RecentRun(b, n)
    BY <1>6, <1>7, <1>8, <1>9, <1>10
  <1> QED BY <1>11 DEF a, b

\* The bars up to that time are the same.
LEMMA SameBar ==
    ASSUME NEW g, NEW h, NEW late, Alike(g, h, late), NEW n \in DOMAIN Clocked(g), Clocked(g)[n].ts <= late,
           ReplayAssumption
    PROVE  BuildBars(g)[n] = BuildBars(h)[n]
  <1>1. Recorded(g) /\ Recorded(h) /\ late \in Int
    BY DEF Alike
  <1>2. n \in DOMAIN Clocked(h) /\ \A i \in 1..n : Clocked(h)[i] = Clocked(g)[i]
    BY SameRows
  <1>3. Clocked(g)[n] = Clocked(h)[n] /\ n \in Nat
    BY <1>1, <1>2, RowsOfGame
  <1> DEFINE ts == Clocked(g)[n].ts
  <1>4. ts \in Int /\ ts <= late
    BY <1>1, RowsOfGame
  <1> HIDE DEF ts
  <1>5. RecentRun(Clocked(g), n) = RecentRun(Clocked(h), n)
    BY SameRun
  <1>6. [j \in 1..n |-> Clocked(g)[j].lead] = [j \in 1..n |-> Clocked(h)[j].lead]
    BY <1>2
  <1>7. Joined(g.kalshi, ts, NoKalshiTick) = Joined(h.kalshi, ts, NoKalshiTick)
    <2>1. \A t \in g.kalshi \cup h.kalshi : t.ts \in Int
      BY <1>1 DEF Recorded
    <2> QED BY <1>1, <1>4, <2>1, SameTick, AlikeIn
  <1>8. Joined(g.pm, ts, NoPmTick) = Joined(h.pm, ts, NoPmTick)
    <2>1. \A t \in g.pm \cup h.pm : t.ts \in Int
      BY <1>1 DEF Recorded
    <2> QED BY <1>1, <1>4, <2>1, SameTick, AlikeIn
  <1>9. LineupSigAt(g, ts) = LineupSigAt(h, ts)
    <2> DEFINE Subs == [ts : Int, team : STRING, in : STRING, out : STRING]
    <2>1. g.subs \in Seq(Subs) /\ h.subs \in Seq(Subs) /\ \A x \in Subs : x.ts \in Int
      BY <1>1 DEF Recorded
    <2>2. Upto(g.subs, late) = Upto(h.subs, late)
      BY AlikeIn
    <2> HIDE DEF Subs
    <2>3. Upto(g.subs, ts) = Upto(h.subs, ts)
      BY <1>1, <1>4, <2>1, <2>2, UptoEarlier
    <2> QED BY <2>3, AlikeIn DEF LineupSigAt
  <1>10. BarAt(g, Clocked(g), n) = BarAt(h, Clocked(h), n)
    BY <1>3, <1>5, <1>6, <1>7, <1>8, <1>9, AlikeIn DEF BarAt, ts
  <1> QED BY <1>2, <1>10 DEF BuildBars

-----------------------------------------------------------------------------
\* A trade closed on bar i: only what it made depends on the outcome.
LEMMA ClosedOn ==
    ASSUME NEW spec, NEW profile, NEW g, NEW pos, NEW bars, NEW i, NEW reason
    PROVE  LET x == ClosePosition(spec, profile, g, pos, bars, i, reason)
           IN x.side = pos.side /\ x.entry = pos.entry /\ x.exit = i
  <1> DEFINE Of(x) == x.side = pos.side /\ x.entry = pos.entry /\ x.exit = i
  <1>1. \A contracts, price, exitFees, why : Of(MakeTrade(pos, i, contracts, price, exitFees, why))
    BY DEF MakeTrade
  <1> HIDE DEF Of
  <1>2. Of(SettlePosition(g, pos, bars, i, reason))
    BY <1>1 DEF SettlePosition
  <1>3. Of(ClosePosition(spec, profile, g, pos, bars, i, reason))
    BY <1>1, <1>2 DEF ClosePosition
  <1> QED BY <1>3 DEF Of

\* Lists of trades decided alike, with one more decided alike.
LEMMA DecidedMore ==
    ASSUME NEW S, NEW a \in Seq(S), NEW b \in Seq(S), Decided(a) = Decided(b),
           NEW x, NEW y, x.side = y.side, x.entry = y.entry, x.exit = y.exit
    PROVE  Decided(Append(a, x)) = Decided(Append(b, y))
  <1> DEFINE n == Len(a)
             P == S \cup {x, y}
  <1>1. n \in Nat /\ DOMAIN a = 1..n /\ DOMAIN b = 1..Len(b) /\ Len(b) \in Nat
    BY LenProperties
  <1>2. DOMAIN a = DOMAIN b
    <2>1. DOMAIN Decided(a) = DOMAIN a /\ DOMAIN Decided(b) = DOMAIN b
      BY DEF Decided
    <2> QED BY <2>1
  <1>3. Len(b) = n
    <2>1. n \in Nat /\ Len(b) \in Nat /\ 1..n = 1..Len(b)
      BY <1>1, <1>2
    <2> HIDE DEF n
    <2>2. PICK m \in Nat : m = Len(b)
      BY <2>1
    <2>3. n <= m
      <3>1. CASE n = 0
        BY <3>1
      <3>2. CASE n # 0
        <4>1. n \in 1..m
          BY <2>1, <2>2, <3>2
        <4> QED BY <4>1
      <3> QED BY <3>1, <3>2
    <2>4. m <= n
      <3>1. CASE m = 0
        BY <2>1, <3>1
      <3>2. CASE m # 0
        <4>1. m \in 1..n
          BY <2>1, <2>2, <3>2
        <4> QED BY <4>1
      <3> QED BY <3>1, <3>2
    <2> QED BY <2>1, <2>2, <2>3, <2>4
  <1>4. a \in Seq(P) /\ b \in Seq(P) /\ x \in P /\ y \in P
    BY SeqMonotonic
  <1> HIDE DEF P, n
  <1>5. Append(a, x) \in Seq(P) /\ Len(Append(a, x)) = Len(a) + 1 /\ (\A k \in 1..Len(a) : Append(a, x)[k] = a[k]) /\ Append(a, x)[Len(a) + 1] = x
    BY <1>4, AppendProperties
  <1>6. Append(b, y) \in Seq(P) /\ Len(Append(b, y)) = Len(b) + 1 /\ (\A k \in 1..Len(b) : Append(b, y)[k] = b[k]) /\ Append(b, y)[Len(b) + 1] = y
    BY <1>4, AppendProperties
  <1>7. PICK c : c = Append(a, x)
    OBVIOUS
  <1>8. PICK d : d = Append(b, y)
    OBVIOUS
  <1>9. DOMAIN c = 1..(n + 1) /\ DOMAIN d = 1..(n + 1)
    <2>1. DOMAIN c = 1..Len(c) /\ DOMAIN d = 1..Len(d)
      BY <1>5, <1>6, <1>7, <1>8, LenProperties
    <2> QED BY <1>3, <1>5, <1>6, <1>7, <1>8, <2>1 DEF n
  <1>10. ASSUME NEW k \in 1..(n + 1)
         PROVE  c[k].side = d[k].side /\ c[k].entry = d[k].entry /\ c[k].exit = d[k].exit
    <2>1. CASE k = n + 1
      BY <1>3, <1>5, <1>6, <1>7, <1>8, <2>1 DEF n
    <2>2. CASE k \in 1..n
      <3>1. c[k] = a[k] /\ d[k] = b[k]
        BY <1>3, <1>5, <1>6, <1>7, <1>8, <2>2 DEF n
      <3>2. Decided(a)[k] = [side |-> a[k].side, entry |-> a[k].entry, exit |-> a[k].exit]
        BY <1>1, <2>2 DEF Decided
      <3>3. Decided(b)[k] = [side |-> b[k].side, entry |-> b[k].entry, exit |-> b[k].exit]
        BY <1>1, <1>2, <2>2 DEF Decided
      <3>4. Decided(a)[k].side = a[k].side /\ Decided(a)[k].entry = a[k].entry /\ Decided(a)[k].exit = a[k].exit
        BY <3>2
      <3>5. Decided(b)[k].side = b[k].side /\ Decided(b)[k].entry = b[k].entry /\ Decided(b)[k].exit = b[k].exit
        BY <3>3
      <3> QED BY <3>1, <3>4, <3>5
    <2> QED BY <1>1, <2>1, <2>2
  <1> QED BY <1>7, <1>8, <1>9, <1>10 DEF Decided

\* What one bar does to two replays in the same position, when it and the next
\* bar are the same for both: they stay in the same position and have decided alike.
LEMMA BarAlike ==
    ASSUME NEW spec, NEW profile, NEW g, NEW h, NEW a, NEW b, NEW i \in Nat,
           i < Len(a), i < Len(b), Len(a) \in Nat, Len(b) \in Nat, a[i] = b[i], a[i + 1] = b[i + 1],
           NEW S, NEW c \in Seq(S), NEW d \in Seq(S), Decided(c) = Decided(d), NEW pos
    PROVE  /\ ReplayBar(spec, profile, g, a, i, pos, c)[1] = ReplayBar(spec, profile, h, b, i, pos, d)[1]
           /\ Decided(ReplayBar(spec, profile, g, a, i, pos, c)[2]) = Decided(ReplayBar(spec, profile, h, b, i, pos, d)[2])
  <1> DEFINE exit == ExitSignal(spec, pos, a[i])
             x == ClosePosition(spec, profile, g, pos, a, i + 1, exit)
             y == ClosePosition(spec, profile, h, pos, b, i + 1, exit)
             side == EntrySignal(spec, a[i])
             ok == FeaturesAvailable(spec.features, a[i].clock)
  <1>1. Decided(Append(c, x)) = Decided(Append(d, y))
    <2>1. x.side = y.side /\ x.entry = y.entry /\ x.exit = y.exit
      BY ClosedOn
    <2> HIDE DEF x, y
    <2> QED BY <2>1, DecidedMore
  <1>2. Enter(spec, profile, a, i + 1, side) = Enter(spec, profile, b, i + 1, side)
    BY DEF Enter
  <1>3. i # Len(a) /\ i # Len(b)
    OBVIOUS
  <1>4. ReplayBar(spec, profile, g, a, i, pos, c) =
          IF ~ok THEN <<pos, c>>
          ELSE IF pos # Flat THEN IF exit = "hold" THEN <<pos, c>> ELSE <<Flat, Append(c, x)>>
          ELSE IF side = None THEN <<pos, c>> ELSE <<Enter(spec, profile, a, i + 1, side), c>>
    BY <1>3 DEF ReplayBar, AfterExit
  <1>5. ReplayBar(spec, profile, h, b, i, pos, d) =
          IF ~ok THEN <<pos, d>>
          ELSE IF pos # Flat THEN IF exit = "hold" THEN <<pos, d>> ELSE <<Flat, Append(d, y)>>
          ELSE IF side = None THEN <<pos, d>> ELSE <<Enter(spec, profile, b, i + 1, side), d>>
    BY <1>3 DEF ReplayBar, AfterExit
  <1> HIDE DEF exit, x, y, side, ok
  <1> QED BY <1>1, <1>2, <1>4, <1>5

\* A bar leaves a list of trades.
LEMMA BarLists ==
    ASSUME NEW spec, NEW profile, NEW g, NEW a, NEW i, NEW pos, NEW S, NEW c \in Seq(S)
    PROVE  \E P : ReplayBar(spec, profile, g, a, i, pos, c)[2] \in Seq(P)
  <1>1. ASSUME NEW x PROVE \E P : Append(c, x) \in Seq(P)
    <2>1. c \in Seq(S \cup {x}) /\ x \in S \cup {x}
      BY SeqMonotonic
    <2>2. Append(c, x) \in Seq(S \cup {x})
      BY <2>1, AppendProperties
    <2> QED BY <2>2
  <1> QED BY <1>1 DEF ReplayBar

ReplayInv ==
    /\ twin \in Twins /\ bar \in Nat
    /\ position = <<position[1], position[2]>> /\ ledger = <<ledger[1], ledger[2]>>
    /\ \E S : ledger[1] \in Seq(S) /\ ledger[2] \in Seq(S)
    /\ bar = 0 => position = <<Flat, Flat>> /\ ledger = <<<<>>, <<>>>>
    /\ NoLookahead

\* What is known alike at a time was known alike before.
LEMMA AlikeEarlier ==
    ASSUME NEW g, NEW h, NEW late, Alike(g, h, late), NEW ts \in Int, ts <= late
    PROVE  KnownAt(g, ts) = KnownAt(h, ts)
  <1>1. Recorded(g) /\ Recorded(h) /\ late \in Int
    BY DEF Alike
  <1>2. Upto(Clocked(g), ts) = Upto(Clocked(h), ts)
    <2>1. Upto(Clocked(g), late) = Upto(Clocked(h), late) /\ \A r \in ARow : r.ts \in Int
      BY AlikeIn DEF ARow
    <2>2. Clocked(g) \in Seq(ARow) /\ Clocked(h) \in Seq(ARow)
      BY <1>1, RowsOfGame
    <2> QED BY <1>1, <2>1, <2>2, UptoEarlier
  <1>3. Upto(g.subs, ts) = Upto(h.subs, ts)
    <2> DEFINE Subs == [ts : Int, team : STRING, in : STRING, out : STRING]
    <2>1. g.subs \in Seq(Subs) /\ h.subs \in Seq(Subs) /\ \A x \in Subs : x.ts \in Int
      BY <1>1 DEF Recorded
    <2>2. Upto(g.subs, late) = Upto(h.subs, late)
      BY AlikeIn
    <2> HIDE DEF Subs
    <2> QED BY <1>1, <2>1, <2>2, UptoEarlier
  <1>4. {t \in g.pm : t.ts <= ts} = {t \in h.pm : t.ts <= ts}
    <2>1. {t \in g.pm : t.ts <= late} = {t \in h.pm : t.ts <= late} /\ \A t \in g.pm \cup h.pm : t.ts \in Int
      BY <1>1, AlikeIn DEF Recorded
    <2>2. \A t : t \in g.pm /\ t.ts <= ts <=> t \in h.pm /\ t.ts <= ts
      BY <1>1, <2>1
    <2> QED BY <2>2
  <1>5. {t \in g.kalshi : t.ts <= ts} = {t \in h.kalshi : t.ts <= ts}
    <2>1. {t \in g.kalshi : t.ts <= late} = {t \in h.kalshi : t.ts <= late} /\ \A t \in g.kalshi \cup h.kalshi : t.ts \in Int
      BY <1>1, AlikeIn DEF Recorded
    <2>2. \A t : t \in g.kalshi /\ t.ts <= ts <=> t \in h.kalshi /\ t.ts <= ts
      BY <1>1, <2>1
    <2> QED BY <2>2
  <1> QED BY <1>2, <1>3, <1>4, <1>5, AlikeIn DEF KnownAt

\* There is a bar for each row, at its time.
LEMMA BarsOfRows ==
    ASSUME NEW g, Recorded(g)
    PROVE  /\ Len(BuildBars(g)) = Len(Clocked(g)) /\ Len(Clocked(g)) \in Nat
           /\ \A n \in DOMAIN Clocked(g) : BuildBars(g)[n].ts = Clocked(g)[n].ts
  <1>1. Len(Clocked(g)) \in Nat /\ DOMAIN Clocked(g) = 1..Len(Clocked(g))
    BY RowsOfGame
  <1>2. PICK n \in Nat : n = Len(Clocked(g))
    BY <1>1
  <1>3. DOMAIN BuildBars(g) = 1..n
    BY <1>1, <1>2 DEF BuildBars
  <1>4. Len(BuildBars(g)) = n
    <2>1. BuildBars(g) = [k \in 1..n |-> BarAt(g, Clocked(g), k)]
      BY <1>1, <1>2 DEF BuildBars
    <2> QED BY <2>1
  <1>5. ASSUME NEW k \in DOMAIN Clocked(g) PROVE BuildBars(g)[k].ts = Clocked(g)[k].ts
    <2>1. BuildBars(g)[k] = BarAt(g, Clocked(g), k)
      BY DEF BuildBars
    <2>2. BarAt(g, Clocked(g), k).ts = Clocked(g)[k].ts
      BY DEF BarAt
    <2> QED BY <2>1, <2>2
  <1> QED BY <1>1, <1>2, <1>4, <1>5

\* Before the first bar nothing has been traded.
LEMMA ReplayInitInv == ReplayAssumption /\ ReplayInit => ReplayInv
  <1> SUFFICES ASSUME ReplayInit PROVE ReplayInv
    OBVIOUS
  <1>1. twin \in Twins /\ bar = 0 /\ position = <<Flat, Flat>> /\ ledger = <<<<>>, <<>>>>
    BY DEF ReplayInit
  <1>2. position[1] = Flat /\ position[2] = Flat /\ ledger[1] = <<>> /\ ledger[2] = <<>>
    BY <1>1
  <1>3. NoLookahead
    BY <1>1 DEF NoLookahead
  <1> QED BY <1>1, <1>2, <1>3 DEF ReplayInv

\* What NextBar leaves of one replay.
After(r) == IF bar < Len(Bars(r))
            THEN ReplayBar(plan.spec, plan.profile, twin[r], Bars(r), bar + 1, position[r], ledger[r])
            ELSE <<position[r], ledger[r]>>

\* A bar keeps the two replays alike as long as the same is known of both games.
LEMMA NextBarKeeps == ASSUME ReplayAssumption, ReplayInv, NextBar PROVE ReplayInv'
  <1>1. twin \in Twins /\ bar \in Nat /\ Recorded(twin[1]) /\ Recorded(twin[2])
    BY DEF ReplayInv, ReplayAssumption
  <1>2. bar' = bar + 1 /\ twin' = twin /\ position' = <<After(1)[1], After(2)[1]>> /\ ledger' = <<After(1)[2], After(2)[2]>>
    BY DEF NextBar, After
  <1>3. position'[1] = After(1)[1] /\ position'[2] = After(2)[1] /\ ledger'[1] = After(1)[2] /\ ledger'[2] = After(2)[2]
    BY <1>2
  <1>4. PICK S : ledger[1] \in Seq(S) /\ ledger[2] \in Seq(S)
    BY DEF ReplayInv
  <1>5. \E P : ledger'[1] \in Seq(P) /\ ledger'[2] \in Seq(P)
    <2>1. \A r \in 1..2 : \E P : After(r)[2] \in Seq(P)
      <3> SUFFICES ASSUME NEW r \in 1..2 PROVE \E P : After(r)[2] \in Seq(P)
        OBVIOUS
      <3>1. ledger[r] \in Seq(S)
        BY <1>4
      <3>2. \E P : ReplayBar(plan.spec, plan.profile, twin[r], Bars(r), bar + 1, position[r], ledger[r])[2] \in Seq(P)
        BY <3>1, BarLists
      <3> QED BY <3>1, <3>2 DEF After
    <2>2. PICK P : After(1)[2] \in Seq(P)
      BY <2>1
    <2>3. PICK Q : After(2)[2] \in Seq(Q)
      BY <2>1
    <2>4. After(1)[2] \in Seq(P \cup Q) /\ After(2)[2] \in Seq(P \cup Q)
      BY <2>2, <2>3, SeqMonotonic
    <2> QED BY <1>3, <2>4
  <1>6. Bars(1)' = Bars(1) /\ Bars(2)' = Bars(2)
    BY <1>2 DEF Bars
  <1>7. NoLookahead'
    <2> DEFINE late == Bars(1)[bar + 2].ts
    <2> SUFFICES ASSUME bar + 2 <= Len(Bars(1)), bar + 2 <= Len(Bars(2)), KnownAt(twin[1], late) = KnownAt(twin[2], late)
                 PROVE  After(1)[1] = After(2)[1] /\ Decided(After(1)[2]) = Decided(After(2)[2])
      BY <1>1, <1>2, <1>3, <1>6 DEF NoLookahead
    <2>1. /\ Len(Bars(1)) = Len(Clocked(twin[1])) /\ Len(Bars(1)) \in Nat /\ Len(Bars(2)) \in Nat
          /\ \A n \in DOMAIN Clocked(twin[1]) : Bars(1)[n].ts = Clocked(twin[1])[n].ts
      BY <1>1, BarsOfRows DEF Bars
    <2>2. bar + 1 \in DOMAIN Clocked(twin[1]) /\ bar + 2 \in DOMAIN Clocked(twin[1])
      BY <1>1, <2>1, RowsOfGame
    <2>3. late = Clocked(twin[1])[bar + 2].ts /\ late \in Int
      BY <1>1, <2>1, <2>2, RowsOfGame
    <2>4. PICK early \in Int : early = Clocked(twin[1])[bar + 1].ts
      BY <1>1, <2>2, RowsOfGame
    <2>5. early <= late
      BY <1>1, <2>2, <2>3, <2>4, RowsOfGame
    <2> HIDE DEF late
    <2>6. Alike(twin[1], twin[2], late)
      BY <1>1, <2>3 DEF Alike
    <2>7. Bars(1)[bar + 1] = Bars(2)[bar + 1] /\ Bars(1)[bar + 2] = Bars(2)[bar + 2]
      <3>1. BuildBars(twin[1])[bar + 1] = BuildBars(twin[2])[bar + 1]
        BY <2>2, <2>4, <2>5, <2>6, SameBar
      <3>2. BuildBars(twin[1])[bar + 2] = BuildBars(twin[2])[bar + 2]
        <4>1. Clocked(twin[1])[bar + 2].ts <= late
          BY <2>3
        <4> QED BY <2>2, <2>6, <4>1, SameBar
      <3> QED BY <3>1, <3>2 DEF Bars
    <2>8. position[1] = position[2] /\ Decided(ledger[1]) = Decided(ledger[2])
      <3>1. CASE bar = 0
        BY <3>1 DEF ReplayInv
      <3>2. CASE bar # 0
        <4>1. KnownAt(twin[1], Bars(1)[bar + 1].ts) = KnownAt(twin[2], Bars(1)[bar + 1].ts)
          BY <2>1, <2>2, <2>4, <2>5, <2>6, AlikeEarlier
        <4>2. bar >= 1 /\ \A r \in 1..2 : bar + 1 <= Len(Bars(r))
          BY <1>1, <2>1, <3>2
        <4> QED BY <4>1, <4>2 DEF ReplayInv, NoLookahead
      <3> QED BY <3>1, <3>2
    <2>9. After(1) = ReplayBar(plan.spec, plan.profile, twin[1], Bars(1), bar + 1, position[1], ledger[1])
      BY <1>1, <2>1 DEF After
    <2>10. After(2) = ReplayBar(plan.spec, plan.profile, twin[2], Bars(2), bar + 1, position[1], ledger[2])
      BY <1>1, <2>1, <2>8 DEF After
    <2>11. bar + 1 \in Nat /\ bar + 1 < Len(Bars(1)) /\ bar + 1 < Len(Bars(2)) /\ (bar + 1) + 1 = bar + 2
      BY <1>1, <2>1
    <2>12. PICK i \in Nat : i = bar + 1
      BY <2>11
    <2> QED BY <1>4, <2>1, <2>7, <2>8, <2>9, <2>10, <2>11, <2>12, BarAlike
  <1>8. position' = <<position'[1], position'[2]>> /\ ledger' = <<ledger'[1], ledger'[2]>>
    BY <1>2
  <1>9. bar' \in Nat /\ bar' # 0 /\ twin' \in Twins
    BY <1>1, <1>2
  <1> QED BY <1>5, <1>7, <1>8, <1>9 DEF ReplayInv

\* So does the end of the game, after the last bar of one of them.
LEMMA EndOfGameKeeps == ASSUME ReplayAssumption, ReplayInv, EndOfGame PROVE ReplayInv'
  <1> DEFINE End(r) == IF position[r] = Flat THEN ledger[r]
                       ELSE Append(ledger[r], SettlePosition(twin[r], position[r], Bars(r), Len(Bars(r)), "unknown_outcome_marked"))
  <1>1. twin \in Twins /\ bar \in Nat /\ Recorded(twin[1]) /\ Recorded(twin[2])
    BY DEF ReplayInv, ReplayAssumption
  <1>2. /\ bar' = bar /\ twin' = twin /\ position' = <<Flat, Flat>> /\ ledger' = <<End(1), End(2)>>
        /\ \A r \in 1..2 : bar >= Len(Bars(r))
    BY DEF EndOfGame
  <1>3. ledger'[1] = End(1) /\ ledger'[2] = End(2)
    BY <1>2
  <1>4. \E P : ledger'[1] \in Seq(P) /\ ledger'[2] \in Seq(P)
    <2>1. PICK S : ledger[1] \in Seq(S) /\ ledger[2] \in Seq(S)
      BY DEF ReplayInv
    <2>2. \A r \in 1..2 : \E P : End(r) \in Seq(P)
      <3> SUFFICES ASSUME NEW r \in 1..2 PROVE \E P : End(r) \in Seq(P)
        OBVIOUS
      <3>1. ledger[r] \in Seq(S)
        BY <2>1
      <3>2. ASSUME NEW x PROVE \E P : Append(ledger[r], x) \in Seq(P)
        <4>1. ledger[r] \in Seq(S \cup {x}) /\ x \in S \cup {x}
          BY <3>1, SeqMonotonic
        <4>2. Append(ledger[r], x) \in Seq(S \cup {x})
          BY <4>1, AppendProperties
        <4> QED BY <4>2
      <3> QED BY <3>1, <3>2
    <2> HIDE DEF End
    <2>3. PICK P : End(1) \in Seq(P)
      BY <2>2
    <2>4. PICK Q : End(2) \in Seq(Q)
      BY <2>2
    <2>5. End(1) \in Seq(P \cup Q) /\ End(2) \in Seq(P \cup Q)
      BY <2>3, <2>4, SeqMonotonic
    <2> QED BY <1>3, <2>5
  <1>5. bar = 0 => ledger' = <<<<>>, <<>>>>
    <2> SUFFICES ASSUME bar = 0 PROVE ledger' = <<<<>>, <<>>>>
      OBVIOUS
    <2>1. position[1] = Flat /\ position[2] = Flat /\ ledger[1] = <<>> /\ ledger[2] = <<>>
      BY DEF ReplayInv
    <2> QED BY <1>2, <2>1
  <1>6. Bars(1)' = Bars(1) /\ Bars(2)' = Bars(2)
    BY <1>2 DEF Bars
  <1>7. NoLookahead'
    <2>1. Len(Bars(1)) \in Nat
      BY <1>1, BarsOfRows DEF Bars
    <2>2. ~(bar + 1 <= Len(Bars(1)))
      BY <1>1, <1>2, <2>1
    <2> QED BY <1>2, <1>6, <2>2 DEF NoLookahead
  <1> HIDE DEF End
  <1>8. position' = <<position'[1], position'[2]>> /\ ledger' = <<ledger'[1], ledger'[2]>>
    BY <1>2
  <1> QED BY <1>1, <1>2, <1>4, <1>5, <1>7, <1>8 DEF ReplayInv

\* No look-ahead: two replays of games of which the same is known up to the next bar
\* have entered, at the same prices, and closed alike (replay_game).
THEOREM TradesKnowNoFuture == ReplaySpec => []NoLookahead
  <1>1. ReplayInit => ReplayInv
    BY ReplayAssumption, ReplayInitInv
  <1>2. ReplayInv /\ [ReplayNext]_replayVars => ReplayInv'
    <2> SUFFICES ASSUME ReplayInv, [ReplayNext]_replayVars PROVE ReplayInv'
      OBVIOUS
    <2>1. CASE NextBar
      BY <2>1, ReplayAssumption, NextBarKeeps
    <2>2. CASE EndOfGame
      BY <2>2, ReplayAssumption, EndOfGameKeeps
    <2>3. CASE UNCHANGED replayVars
      <3>1. twin' = twin /\ bar' = bar /\ position' = position /\ ledger' = ledger
        BY <2>3 DEF replayVars
      <3>2. NoLookahead'
        BY <3>1 DEF ReplayInv, NoLookahead, Bars
      <3> QED BY <3>1, <3>2 DEF ReplayInv
    <2> QED BY <2>1, <2>2, <2>3 DEF ReplayNext
  <1>3. ReplayInv => NoLookahead
    BY DEF ReplayInv
  <1> QED BY <1>1, <1>2, <1>3, PTL DEF ReplaySpec

-----------------------------------------------------------------------------
(***************************************************************************)
(* The event panels.                                                       *)
(***************************************************************************)
\* Some element of a finite set is greatest by its key.
LEMMA GreatestByKey ==
    ASSUME NEW S, IsFiniteSet(S), S # {}, NEW key \in [S -> Int]
    PROVE  \E m \in S : \A n \in S : key[n] <= key[m]
  <1> DEFINE above(m) == {n \in S : key[n] > key[m]}
             T == {Cardinality(above(m)) : m \in S}
  <1>1. \A m \in S : IsFiniteSet(above(m)) /\ Cardinality(above(m)) \in Nat
    <2>1. \A m \in S : above(m) \in SUBSET S
      OBVIOUS
    <2> HIDE DEF above
    <2> QED BY <2>1, FS_Subset, FS_CardinalityType
  <1>2. PICK x \in T : \A y \in T : x <= y
    <2>1. T \in SUBSET Nat /\ T # {}
      BY <1>1
    <2> HIDE DEF T
    <2> QED BY <2>1, LeastNumber
  <1>3. PICK m \in S : x = Cardinality(above(m))
    BY <1>2
  <1>4. ASSUME NEW n \in S, key[n] > key[m] PROVE FALSE
    <2>1. \A k \in S : key[k] \in Int
      OBVIOUS
    <2>2. above(n) \in SUBSET above(m) /\ n \in above(m) /\ n \notin above(n)
      BY <1>4, <2>1
    <2>3. above(n) # above(m)
      BY <2>2
    <2>4. Cardinality(above(m)) <= Cardinality(above(n))
      BY <1>2, <1>3
    <2> HIDE DEF above
    <2>5. Cardinality(above(n)) <= Cardinality(above(m)) /\ (Cardinality(above(m)) = Cardinality(above(n)) => above(m) = above(n))
      BY <1>1, <2>2, FS_Subset
    <2> QED BY <1>1, <2>3, <2>4, <2>5
  <1>5. \A k \in S : key[k] \in Int
    OBVIOUS
  <1> QED BY <1>4, <1>5

\* The greatest and the least of the keys.
AreKeys(T, S, key) == T = {key[m] : m \in S}
LEMMA ExtremeKeys ==
    ASSUME NEW S, IsFiniteSet(S), S # {}, NEW key \in [S -> Int], NEW T, AreKeys(T, S, key)
    PROVE  /\ Max(T) \in T /\ \A x \in T : x <= Max(T)
           /\ Min(T) \in T /\ \A x \in T : Min(T) <= x
  <1> USE DEF AreKeys
  <1>1. PICK m \in S : \A n \in S : key[n] <= key[m]
    BY GreatestByKey
  <1>2. PICK minus \in [S -> Int] : minus = [n \in S |-> -key[n]]
    <2>1. \A n \in S : -key[n] \in Int
      OBVIOUS
    <2> QED BY <2>1
  <1>3. PICK k \in S : \A n \in S : minus[n] <= minus[k]
    BY GreatestByKey
  <1>4. \A n \in S : key[n] \in Int /\ minus[n] = -key[n]
    BY <1>2
  <1>5. key[m] \in T /\ \A x \in T : key[m] >= x
    BY <1>1, <1>4
  <1>6. key[k] \in T /\ \A x \in T : key[k] <= x
    BY <1>3, <1>4
  <1>7. Max(T) \in T /\ \A x \in T : Max(T) >= x
    BY <1>5 DEF Max
  <1>8. Min(T) \in T /\ \A x \in T : Min(T) <= x
    BY <1>6 DEF Min
  <1>9. \A x \in T : x \in Int
    BY <1>4
  <1> QED BY <1>7, <1>8, <1>9

\* A panel that is one settles on what it is given.
LEMMA PanelFinal ==
    ASSUME NEW ladder, NEW grid, NEW final
    PROVE  Panel(ladder, grid, final) = NoPanel \/ Panel(ladder, grid, final).final = final
  BY DEF Panel

\* A bucket's outcome is paid by the bucket and lies inside its bounds.
LEMMA BucketPays ==
    ASSUME NEW rec \in Events, rec.kind = "temp", NEW m \in WeatherMarkets(rec), NEW b, b = BucketBounds(m)
    PROVE  /\ b.lo \in Int /\ b.hi \in Int /\ b.rep \in Int
           /\ VenuePays(m, b.rep) /\ b.lo < b.rep /\ b.rep < b.hi
  <1>1. Some(BucketBounds(m)) /\ m \in rec.markets
    BY DEF WeatherMarkets, Quoted
  <1>2. /\ m.floor \in Degree \cup {Blank} /\ m.cap \in Degree \cup {Blank}
        /\ Some(m.floor) /\ Some(m.cap) => m.floor <= m.cap
    BY <1>1, RecordAssumption DEF RecordAssumption, Listed
  <1>3. CASE ~Some(m.floor) /\ Some(m.cap)
    <2>1. PICK c \in Degree : c = m.cap
      BY <1>2, <1>3 DEF Some
    <2>2. b = [lo |-> -Far, hi |-> 2 * c - 1, rep |-> 2 * c - 2]
      BY <1>3, <2>1 DEF BucketBounds
    <2>3. c \in Int /\ -1000 <= c
      BY DEF Degree
    <2> QED BY <1>3, <2>1, <2>2, <2>3 DEF VenuePays, Far
  <1>4. CASE Some(m.floor) /\ Some(m.cap)
    <2>1. PICK f, c \in Degree : f = m.floor /\ c = m.cap
      BY <1>2, <1>4 DEF Some
    <2>2. b = [lo |-> 2 * f - 1, hi |-> 2 * c + 1, rep |-> f + c]
      BY <1>4, <2>1 DEF BucketBounds
    <2>3. f \in Int /\ c \in Int
      BY DEF Degree
    <2>4. f <= c
      BY <1>2, <1>4, <2>1
    <2> QED BY <1>4, <2>1, <2>2, <2>3, <2>4 DEF VenuePays
  <1>5. CASE Some(m.floor) /\ ~Some(m.cap)
    <2>1. PICK f \in Degree : f = m.floor
      BY <1>2, <1>5 DEF Some
    <2>2. b = [lo |-> 2 * f + 1, hi |-> Far, rep |-> 2 * f + 2]
      BY <1>5, <2>1 DEF BucketBounds
    <2>3. f \in Int /\ f <= 1000
      BY DEF Degree
    <2> QED BY <1>5, <2>1, <2>2, <2>3 DEF VenuePays, Far
  <1>6. Some(m.floor) \/ Some(m.cap)
    <2> SUFFICES ASSUME ~Some(m.floor), ~Some(m.cap) PROVE FALSE
      OBVIOUS
    <2>1. BucketBounds(m) = Blank
      BY DEF BucketBounds
    <2> QED BY <1>1, <2>1 DEF Some
  <1> QED BY <1>3, <1>4, <1>5, <1>6

\* The outcome read off the one bucket that paid lies in that bucket and in no other.
LEMMA BucketsSettle ==
    ASSUME NEW rec \in Events, rec.kind = "temp", NEW final, final = SettledTemperature(WeatherMarkets(rec)), Some(final),
           NEW m \in WeatherMarkets(rec)
    PROVE  (m.result = "yes") = (VenuePays(m, final) /\ final > BucketBounds(m).lo /\ final < BucketBounds(m).hi)
  <1> DEFINE yes == {n \in WeatherMarkets(rec) : n.result = "yes"}
  <1>1. PICK k : yes = {k} /\ final = BucketBounds(k).rep
    <2>1. Cardinality(yes) = 1 /\ final = BucketBounds(CHOOSE n \in yes : TRUE).rep
      BY DEF SettledTemperature, Some
    <2>2. IsFiniteSet(yes)
      <3>1. IsFiniteSet(rec.markets)
        BY RecordAssumption DEF RecordAssumption, Listed
      <3>2. yes \in SUBSET rec.markets
        BY DEF WeatherMarkets, Quoted
      <3> HIDE DEF yes
      <3> QED BY <3>1, <3>2, FS_Subset
    <2> HIDE DEF yes
    <2>3. PICK k : yes = {k}
      BY <2>1, <2>2, FS_Singleton
    <2>4. (CHOOSE n \in yes : TRUE) = k
      BY <2>3
    <2> QED BY <2>1, <2>3, <2>4
  <1>2. k \in WeatherMarkets(rec) /\ \A n \in WeatherMarkets(rec) : n.result = "yes" <=> n = k
    BY <1>1
  <1> HIDE DEF yes
  <1>3. PICK b, c : b = BucketBounds(k) /\ c = BucketBounds(m)
    OBVIOUS
  <1>4. /\ b.lo \in Int /\ b.hi \in Int /\ b.rep \in Int /\ VenuePays(k, b.rep) /\ b.lo < b.rep /\ b.rep < b.hi
        /\ c.lo \in Int /\ c.hi \in Int
    BY <1>2, <1>3, BucketPays
  <1>5. final = b.rep
    BY <1>1, <1>3
  <1>6. CASE m = k
    <2>1. m.result = "yes" /\ VenuePays(m, final) /\ final > c.lo /\ final < c.hi
      BY <1>2, <1>3, <1>4, <1>5, <1>6
    <2> QED BY <1>3, <2>1
  <1>7. CASE m # k
    <2>1. b.hi <= c.lo \/ c.hi <= b.lo
      <3>1. \A l \in WeatherMarkets(rec) : l \in rec.markets /\ Some(BucketBounds(l))
        BY DEF WeatherMarkets, Quoted
      <3>2. \A l, n \in rec.markets : l # n /\ Some(BucketBounds(l)) /\ Some(BucketBounds(n)) =>
                BucketBounds(l).hi <= BucketBounds(n).lo \/ BucketBounds(n).hi <= BucketBounds(l).lo
        BY RecordAssumption DEF RecordAssumption, Listed
      <3> QED BY <1>2, <1>3, <1>7, <3>1, <3>2
    <2>2. ~(final > c.lo /\ final < c.hi)
      BY <1>4, <1>5, <2>1
    <2>3. m.result # "yes"
      BY <1>2, <1>7
    <2> QED BY <1>3, <2>2, <2>3
  <1> QED BY <1>6, <1>7

\* What is known of the rungs of a price ladder: above-markets have a floor, below-markets a cap.
LEMMA RungsAre ==
    ASSUME NEW rec \in Events, rec.kind = "coin_price", NEW m \in CryptoMarkets(rec)
    PROVE  /\ m \in rec.markets /\ Some(Boundary(m))
           /\ \/ /\ m.floor \in Int /\ Some(m.floor) /\ ~Some(m.cap)
                 /\ Boundary(m).orient = 1 /\ Boundary(m).at = 2 * m.floor
                 /\ \A x \in Int : VenuePays(m, x) <=> x > 2 * m.floor
              \/ /\ m.cap \in Int /\ ~Some(m.floor) /\ Some(m.cap)
                 /\ Boundary(m).orient = -1 /\ Boundary(m).at = 2 * m.cap
                 /\ \A x \in Int : VenuePays(m, x) <=> x < 2 * m.cap
  <1>1. Some(Boundary(m)) /\ m \in rec.markets
    BY DEF CryptoMarkets, Quoted
  <1>2. m.floor \in Int \cup {Blank} /\ m.cap \in Int \cup {Blank}
    BY <1>1, RecordAssumption DEF RecordAssumption, Listed
  <1>3. CASE Some(m.floor) /\ ~Some(m.cap)
    <2>1. Boundary(m) = [at |-> 2 * m.floor, orient |-> 1]
      BY <1>3 DEF Boundary
    <2>2. m.floor \in Int
      BY <1>2, <1>3 DEF Some
    <2>3. \A x : VenuePays(m, x) <=> x > 2 * m.floor
      BY <1>3 DEF VenuePays
    <2> QED BY <1>1, <1>3, <2>1, <2>2, <2>3
  <1>4. CASE ~Some(m.floor) /\ Some(m.cap)
    <2>1. Boundary(m) = [at |-> 2 * m.cap, orient |-> -1]
      BY <1>4 DEF Boundary
    <2>2. m.cap \in Int
      BY <1>2, <1>4 DEF Some
    <2>3. \A x : VenuePays(m, x) <=> x < 2 * m.cap
      BY <1>4 DEF VenuePays
    <2> QED BY <1>1, <1>4, <2>1, <2>2, <2>3
  <1>5. CASE ~(Some(m.floor) /\ ~Some(m.cap)) /\ ~(~Some(m.floor) /\ Some(m.cap))
    <2>1. Boundary(m) = Blank
      BY <1>5 DEF Boundary
    <2> QED BY <1>1, <2>1 DEF Some
  <1> QED BY <1>3, <1>4, <1>5

AboveRungs(rec) == {m \in CryptoMarkets(rec) : Boundary(m).orient > 0}
Paying(rec, result) == {m \in AboveRungs(rec) : m.result = result}
Levels(rec, result) == {Boundary(m).at : m \in Paying(rec, result)}

\* The middle of the bracket is above every level that was passed and below every one that was not.
LEMMA MiddleOfBracket ==
    ASSUME NEW rec \in Events, rec.kind = "coin_price", NEW Y, NEW N, Y = Levels(rec, "yes"), N = Levels(rec, "no"),
           Y # {}, N # {}, Max(Y) < Min(N), NEW mid, mid = (Max(Y) + Min(N)) \div 2
    PROVE  mid \in Int /\ (\A y \in Y : y < mid) /\ (\A n \in N : mid < n)
  <1>1. ASSUME NEW result \in {"yes", "no"}, Levels(rec, result) # {}
        PROVE  LET T == Levels(rec, result) IN
               /\ Max(T) \in T /\ \A x \in T : x <= Max(T)
               /\ Min(T) \in T /\ \A x \in T : Min(T) <= x
               /\ \A x \in T : \E h \in Int : x = 2 * h
    <2>1. \A m \in Paying(rec, result) : m \in rec.markets /\ m.floor \in Int /\ Boundary(m).at = 2 * m.floor
      <3> SUFFICES ASSUME NEW m \in Paying(rec, result) PROVE m \in rec.markets /\ m.floor \in Int /\ Boundary(m).at = 2 * m.floor
        OBVIOUS
      <3>1. m \in CryptoMarkets(rec) /\ Boundary(m).orient > 0
        BY DEF Paying, AboveRungs
      <3>2. Boundary(m).orient # -1
        BY <3>1
      <3> QED BY <3>1, <3>2, RungsAre
    <2>2. IsFiniteSet(rec.markets)
      BY RecordAssumption DEF RecordAssumption, Listed
    <2>3. IsFiniteSet(Paying(rec, result)) /\ Paying(rec, result) # {}
      <3>1. Paying(rec, result) \in SUBSET rec.markets
        BY <2>1
      <3>2. Paying(rec, result) # {}
        BY <1>1 DEF Levels
      <3> QED BY <2>2, <3>1, <3>2, FS_Subset
    <2>4. PICK key \in [Paying(rec, result) -> Int] : \A m \in Paying(rec, result) : key[m] = Boundary(m).at
      <3>1. \A m \in Paying(rec, result) : Boundary(m).at \in Int
        BY <2>1
      <3>2. [m \in Paying(rec, result) |-> Boundary(m).at] \in [Paying(rec, result) -> Int]
        BY <3>1
      <3> QED BY <3>2
    <2>5. AreKeys(Levels(rec, result), Paying(rec, result), key)
      BY <2>4 DEF Levels, AreKeys
    <2>6. \A x \in Levels(rec, result) : \E h \in Int : x = 2 * h
      BY <2>1 DEF Levels
    <2>7. PICK T : T = Levels(rec, result)
      OBVIOUS
    <2>8. /\ Max(T) \in T /\ \A x \in T : x <= Max(T)
          /\ Min(T) \in T /\ \A x \in T : Min(T) <= x
      BY <2>3, <2>4, <2>5, <2>7, ExtremeKeys
    <2> QED BY <2>6, <2>7, <2>8
  <1>2. /\ Max(Y) \in Y /\ \A x \in Y : x <= Max(Y)
        /\ \A x \in Y : \E h \in Int : x = 2 * h
    BY <1>1
  <1>3. /\ Min(N) \in N /\ \A x \in N : Min(N) <= x
        /\ \A x \in N : \E h \in Int : x = 2 * h
    BY <1>1
  <1>4. PICK h \in Int : Max(Y) = 2 * h
    BY <1>2
  <1>5. PICK g \in Int : Min(N) = 2 * g
    BY <1>3
  <1>6. h < g /\ mid = h + g
    BY <1>4, <1>5
  <1>7. 2 * h < mid /\ mid < 2 * g /\ mid \in Int
    BY <1>6
  <1> QED BY <1>2, <1>3, <1>4, <1>5, <1>7

\* Where a price may have been is a number.
LEMMA PlacesAreNumbers ==
    ASSUME NEW rec \in Events, rec.kind = "coin_price" PROVE Places(rec) \subseteq Int
  <1>1. \A m \in rec.markets : m.floor \in Int \cup {Blank} /\ m.cap \in Int \cup {Blank}
    BY RecordAssumption DEF RecordAssumption, Listed
  <1> QED BY <1>1 DEF Places

\* The outcome of a price event pays exactly the markets that paid.
LEMMA LadderSettles ==
    ASSUME NEW rec \in Events, rec.kind = "coin_price", NEW final, final = SettledPrice(rec, CryptoMarkets(rec)), Some(final)
    PROVE  final \in Int /\ \A m \in CryptoMarkets(rec) : (m.result = "yes") <=> VenuePays(m, final)
  <1> DEFINE rungs(orient) == {m \in rec.markets : Some(Boundary(m)) /\ Boundary(m).orient = orient}
  <1>1. /\ rec.expiration \in Int \cup {Blank}
        /\ \A m \in rungs(-1) : (\A l \in rungs(1) : m.cap <= l.floor) \/ (\A l \in rungs(1) : l.floor < m.cap)
        /\ \E x \in (IF Some(rec.expiration) THEN {2 * rec.expiration} ELSE Places(rec)) :
              \A m \in rungs(1) \cup rungs(-1) : m.result = IF VenuePays(m, x) THEN "yes" ELSE "no"
    BY RecordAssumption DEF RecordAssumption, Listed
  <1>2. PICK x \in (IF Some(rec.expiration) THEN {2 * rec.expiration} ELSE Places(rec)) :
              \A m \in rungs(1) \cup rungs(-1) : m.result = IF VenuePays(m, x) THEN "yes" ELSE "no"
    BY <1>1
  <1>3. \A m \in CryptoMarkets(rec) : m \in rungs(1) \cup rungs(-1)
    BY RungsAre
  <1>4. \A m \in CryptoMarkets(rec) : m.result = IF VenuePays(m, x) THEN "yes" ELSE "no"
    BY <1>2, <1>3
  <1>5. CASE Some(rec.expiration)
    <2>1. x = 2 * rec.expiration /\ final = 2 * rec.expiration
      BY <1>2, <1>5 DEF SettledPrice
    <2>2. final \in Int
      BY <1>1, <1>5, <2>1 DEF Some
    <2> QED BY <1>4, <2>1, <2>2
  <1>6. CASE ~Some(rec.expiration)
    <2>1. PICK Y, N : Y = Levels(rec, "yes") /\ N = Levels(rec, "no")
      OBVIOUS
    <2>2. Y # {} /\ N # {} /\ Max(Y) < Min(N) /\ final = (Max(Y) + Min(N)) \div 2
      <3>1. Y = {Boundary(m).at : m \in {n \in CryptoMarkets(rec) : Boundary(n).orient > 0 /\ n.result = "yes"}}
        BY <2>1 DEF Levels, Paying, AboveRungs
      <3>2. N = {Boundary(m).at : m \in {n \in CryptoMarkets(rec) : Boundary(n).orient > 0 /\ n.result = "no"}}
        BY <2>1 DEF Levels, Paying, AboveRungs
      <3> QED BY <1>6, <3>1, <3>2 DEF SettledPrice, Some
    <2>3. final \in Int /\ (\A y \in Y : y < final) /\ (\A n \in N : final < n)
      BY <2>1, <2>2, MiddleOfBracket
    <2>4. x \in Int
      BY <1>2, <1>6, PlacesAreNumbers
    <2>5. ASSUME NEW m \in CryptoMarkets(rec), Boundary(m).orient = 1
          PROVE  (m.result = "yes") <=> VenuePays(m, final)
      <3>1. m.floor \in Int /\ Boundary(m).at = 2 * m.floor /\ (VenuePays(m, final) <=> final > 2 * m.floor)
        BY <2>3, <2>5, RungsAre
      <3>2. m.result \in {"yes", "no"}
        BY <1>4
      <3>3. m.result = "yes" => 2 * m.floor \in Y
        BY <2>1, <2>5, <3>1 DEF Levels, Paying, AboveRungs
      <3>4. m.result = "no" => 2 * m.floor \in N
        BY <2>1, <2>5, <3>1 DEF Levels, Paying, AboveRungs
      <3> QED BY <2>3, <3>1, <3>2, <3>3, <3>4
    <2>6. ASSUME NEW m \in CryptoMarkets(rec), Boundary(m).orient = -1
          PROVE  (m.result = "yes") <=> VenuePays(m, final)
      <3>1. m.cap \in Int /\ (VenuePays(m, final) <=> final < 2 * m.cap) /\ (VenuePays(m, x) <=> x < 2 * m.cap) /\ m \in rungs(-1)
        BY <2>3, <2>4, <2>6, RungsAre
      <3>2. PICK l \in CryptoMarkets(rec) : l.result = "yes" /\ Boundary(l).orient > 0 /\ Boundary(l).at \in Y
        BY <2>1, <2>2 DEF Levels, Paying, AboveRungs
      <3>3. PICK n \in CryptoMarkets(rec) : n.result = "no" /\ Boundary(n).orient > 0 /\ Boundary(n).at \in N
        BY <2>1, <2>2 DEF Levels, Paying, AboveRungs
      <3>4. /\ l \in rungs(1) /\ l.floor \in Int /\ Boundary(l).at = 2 * l.floor /\ (VenuePays(l, x) <=> x > 2 * l.floor)
        BY <2>4, <3>2, RungsAre
      <3>5. /\ n \in rungs(1) /\ n.floor \in Int /\ Boundary(n).at = 2 * n.floor /\ (VenuePays(n, x) <=> x > 2 * n.floor)
        BY <2>4, <3>3, RungsAre
      <3>6. x > 2 * l.floor /\ ~(x > 2 * n.floor)
        BY <1>4, <3>2, <3>3, <3>4, <3>5
      <3>7. 2 * l.floor < final /\ final < 2 * n.floor
        BY <2>3, <3>2, <3>3, <3>4, <3>5
      <3>8. m.cap <= l.floor \/ n.floor < m.cap
        BY <1>1, <3>1, <3>4, <3>5
      <3>9. VenuePays(m, x) <=> VenuePays(m, final)
        <4> HIDE DEF rungs
        <4> QED BY <2>3, <2>4, <3>1, <3>4, <3>5, <3>6, <3>7, <3>8
      <3> QED BY <1>4, <3>9
    <2> QED BY <2>3, <2>5, <2>6, RungsAre
  <1> QED BY <1>5, <1>6

\* A turned handicap pays when the home rung does not.
LEMMA RungsTurn ==
    ASSUME NEW r, r.strike \in Int, NEW final \in Int, Some(HomeRung(r))
    PROVE  LET backed == IF r.venue = "kalshi" /\ r.team = "away" THEN -final ELSE final
               line == IF r.venue = "polymarket" THEN -2 * r.strike ELSE 2 * r.strike
           IN backed # line => (final > HomeRung(r).at) = ((backed > line) = (r.venue = "polymarket" \/ r.team = "home"))
  <1>1. PICK s \in Int : s = r.strike
    OBVIOUS
  <1>2. CASE r.venue = "kalshi" /\ r.team = "home"
    <2>1. HomeRung(r).at = 2 * s
      BY <1>1, <1>2 DEF HomeRung, KalshiTeam
    <2> QED BY <1>1, <1>2, <2>1
  <1>3. CASE r.venue = "kalshi" /\ r.team = "away"
    <2>1. HomeRung(r).at = -2 * s
      BY <1>1, <1>3 DEF HomeRung, KalshiTeam
    <2>2. -final # 2 * s => (final > -2 * s) = ((-final > 2 * s) = FALSE)
      OBVIOUS
    <2>3. ~(r.venue = "polymarket" \/ r.team = "home")
      BY <1>3
    <2> QED BY <1>1, <1>3, <2>1, <2>2, <2>3
  <1>4. CASE r.venue = "polymarket"
    <2>1. HomeRung(r).at = -2 * s
      BY <1>1, <1>4 DEF HomeRung, KalshiTeam
    <2> QED BY <1>1, <1>4, <2>1
  <1>5. CASE ~(r.venue = "kalshi" /\ r.team \in {"home", "away"}) /\ r.venue # "polymarket"
    <2>1. HomeRung(r) = Blank
      BY <1>5 DEF HomeRung, KalshiTeam
    <2> QED BY <2>1 DEF Some
  <1> QED BY <1>2, <1>3, <1>4, <1>5

\* The game's outcome is a score of the frame.
LEMMA ScoreSettles ==
    ASSUME NEW rec \in Events, rec.kind = "spread", BuildPanel(rec) # NoPanel, Some(BuildPanel(rec).final)
    PROVE  BuildPanel(rec).final \in Int
  <1> DEFINE scores == {i \in 1..rec.bars : Some(rec.score[i])}
  <1>1. BuildPanel(rec).final = IF scores = {} THEN Blank ELSE 2 * rec.score[Max(scores)]
    <2>1. BuildPanel(rec) = NbaPanel(rec)
      BY DEF BuildPanel
    <2> QED BY <2>1, PanelFinal DEF NbaPanel
  <1>2. rec.bars \in Nat /\ \A i \in 1..rec.bars : rec.score[i] \in Int \cup {Blank}
    BY RecordAssumption DEF RecordAssumption, Listed
  <1>3. scores # {}
    BY <1>1 DEF Some
  <1>4. Max(scores) \in scores
    BY <1>2, <1>3, LeastAndGreatestBar
  <1>5. rec.score[Max(scores)] \in Int
    <2>1. Max(scores) \in 1..rec.bars /\ Some(rec.score[Max(scores)])
      BY <1>4
    <2> HIDE DEF scores
    <2> QED BY <1>2, <2>1 DEF Some
  <1> QED BY <1>1, <1>3, <1>5

PanelInv == cached \in Events /\ (built = Blank \/ built = BuildPanel(cached))

\* Every rung of a panel is settled the way the venue settled the contracts the panel was built
\* from, whatever buckets, thresholds, handicaps, quotes and results were recorded (build_panel
\* of the weather and crypto providers, _spread_ladder and _nba_load_panel).
THEOREM PanelsSettle == PanelSpec => []SettlesAsTheVenue
  <1>1. PanelInit => PanelInv
    BY DEF PanelInit, PanelInv
  <1>2. PanelInv /\ [PanelNext]_panelVars => PanelInv'
    BY DEF PanelInv, PanelNext, LoadPanel, panelVars
  <1>3. PanelInv => SettlesAsTheVenue
    <2> SUFFICES ASSUME PanelInv, built \notin {Blank, NoPanel}, Some(built.final) PROVE SettlesAsTheVenue
      BY DEF SettlesAsTheVenue
    <2>1. cached \in Events /\ built = BuildPanel(cached) /\ BuildPanel(cached) # NoPanel
      BY DEF PanelInv
    <2>2. PICK final : final = built.final
      OBVIOUS
    <2>3. ASSUME cached.kind = "temp", NEW m \in Quoted(cached.markets), Some(BucketBounds(m))
          PROVE  (m.result = "yes") = (VenuePays(m, final) /\ final > BucketBounds(m).lo /\ final < BucketBounds(m).hi)
      <3>1. built = WeatherPanel(cached)
        BY <2>1, <2>3 DEF BuildPanel
      <3>2. final = SettledTemperature(WeatherMarkets(cached))
        <4>1. PICK ladder, grid : built \in {NoPanel, Panel(ladder, grid, SettledTemperature(WeatherMarkets(cached)))}
          BY <3>1 DEF WeatherPanel
        <4> QED BY <2>2, <4>1, PanelFinal
      <3>3. m \in WeatherMarkets(cached)
        BY <2>3 DEF WeatherMarkets
      <3> QED BY <2>1, <2>2, <2>3, <3>2, <3>3, BucketsSettle
    <2>4. ASSUME cached.kind = "coin_price", NEW m \in CryptoMarkets(cached)
          PROVE  /\ (m.result = "yes") = VenuePays(m, final)
                 /\ final # Boundary(m).at => (final > Boundary(m).at) = ((m.result = "yes") = (Boundary(m).orient > 0))
      <3>1. built = CryptoPanel(cached)
        BY <2>1, <2>4 DEF BuildPanel
      <3>2. final = SettledPrice(cached, CryptoMarkets(cached))
        <4>1. PICK ladder, grid : built \in {NoPanel, Panel(ladder, grid, SettledPrice(cached, CryptoMarkets(cached)))}
          BY <3>1 DEF CryptoPanel
        <4> QED BY <2>2, <4>1, PanelFinal
      <3>3. final \in Int /\ ((m.result = "yes") <=> VenuePays(m, final))
        BY <2>1, <2>2, <2>4, <3>2, LadderSettles
      <3>4. VenuePays(m, final) \in BOOLEAN
        BY DEF VenuePays
      <3>5. (m.result = "yes") = VenuePays(m, final)
        BY <3>3, <3>4, Zenon
      <3>6. CASE Boundary(m).orient = 1
        <4>1. m.floor \in Int /\ Boundary(m).at = 2 * m.floor /\ (VenuePays(m, final) <=> final > 2 * m.floor)
          BY <2>1, <2>4, <3>3, <3>6, RungsAre
        <4> QED BY <3>3, <3>5, <3>6, <4>1
      <3>7. CASE Boundary(m).orient = -1
        <4>1. m.cap \in Int /\ Boundary(m).at = 2 * m.cap /\ (VenuePays(m, final) <=> final < 2 * m.cap)
          BY <2>1, <2>4, <3>3, <3>7, RungsAre
        <4> QED BY <3>3, <3>5, <3>7, <4>1
      <3> QED BY <2>1, <2>4, <3>6, <3>7, RungsAre
    <2>5. ASSUME cached.kind = "spread", NEW r \in cached.rows
          PROVE  LET backed == IF r.venue = "kalshi" /\ r.team = "away" THEN -final ELSE final
                     line == IF r.venue = "polymarket" THEN -2 * r.strike ELSE 2 * r.strike
                 IN Some(HomeRung(r)) /\ backed # line =>
                     (final > HomeRung(r).at) = ((backed > line) = (r.venue = "polymarket" \/ r.team = "home"))
      <3>1. r.strike \in Int
        BY <2>1, <2>5, RecordAssumption DEF RecordAssumption, Listed
      <3>2. final \in Int
        BY <2>1, <2>2, <2>5, ScoreSettles
      <3> QED BY <3>1, <3>2, RungsTurn
    <2> QED BY <2>2, <2>3, <2>4, <2>5 DEF SettlesAsTheVenue
  <1> QED BY <1>1, <1>2, <1>3, PTL DEF PanelSpec
=============================================================================
