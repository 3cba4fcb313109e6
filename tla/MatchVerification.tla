-------------------------- MODULE MatchVerification --------------------------
(***************************************************************************)
(* Which Kalshi market and which Polymarket market are the same event, and *)
(* whether Kalshi's YES is the Polymarket YES or NO: the filters of the    *)
(* matcher, the chain of verifiers with the operator's allow and deny list *)
(* in front, the best matches kept per Kalshi market, and the language     *)
(* model's judgement of the uncertain ones.                                *)
(*                                                                         *)
(* A market is what the text scanners find in it:                          *)
(*   negations, over, under, plus, categorical, ranks, partial             *)
(*                      the shape of the title's proposition;              *)
(*   scope, offices, years, quantities, period, months, names, tokens      *)
(*                      what the title names, tokens without boilerplate;  *)
(*   stats, threshold   of a player prop, the threshold in halves or None; *)
(*   rules              [words, scope, authorities, excludes, comparator,  *)
(*                      seats], words being {} when the venue gives none;  *)
(*   tiers              competition tiers of title and rules;              *)
(*   deadline           [form, year, month, day] of title and rules.       *)
(* Spelling variants of one name are one token.                            *)
(***************************************************************************)
EXTENDS Integers, FiniteSets, FiniteSetsExt

CONSTANTS
    Template,       \* _TEMPLATE_TOKENS: words of a contest, not of its subject
    Qualifier,      \* _PREDICATE_QUALIFIERS: words that change the proposition
    MaxDeadlineSkew \* MATCH_MAX_DEADLINE_SKEW_DAYS

Nothing == -99

Both(a, b) == a # {} /\ b # {}
Disjoint(a, b) == Both(a, b) /\ a \cap b = {}

(***************************************************************************)
(* Polarity, from the cleaned titles: cleaning has removed the "+" of      *)
(* "8+", which the direction would otherwise count as "over".              *)
(***************************************************************************)
clean_title(m) == [m EXCEPT !.plus = FALSE]

Direction(m) ==
    IF (m.over \/ m.plus) /\ ~m.under THEN "over"
    ELSE IF m.under /\ ~(m.over \/ m.plus) THEN "under" ELSE "none"

NegationParity(m) == m.negations % 2 = 1

Pass(pol, unsure) == [passed |-> TRUE, polarity |-> pol, uncertain |-> unsure]
Reject == [passed |-> FALSE, polarity |-> "unknown", uncertain |-> FALSE]

\* A bug the verifier could have: two flips count as one.
OutcomePolarity_NoCancel(k, m) ==
    LET kd == Direction(clean_title(k))   md == Direction(clean_title(m))
        negFlip == NegationParity(k) # NegationParity(m)
        dirFlip == kd # "none" /\ md # "none" /\ kd # md
    IN Pass(IF negFlip \/ dirFlip THEN "inverted" ELSE "aligned", FALSE)

OutcomePolarity(k, m) ==
    LET kd == Direction(clean_title(k))   md == Direction(clean_title(m))
        negFlip == NegationParity(k) # NegationParity(m)
        dirFlip == kd # "none" /\ md # "none" /\ kd # md
        dirSame == kd # "none" /\ kd = md
    IN Pass(IF negFlip # dirFlip THEN "inverted"
            ELSE IF negFlip \/ dirSame \/ ~NegationParity(k) THEN "aligned"
            ELSE "unknown", FALSE)

(***************************************************************************)
(* The distinguishing entity: vetoes on the titles, then on their tokens.  *)
(***************************************************************************)
CategoricalVeto(k, m) == k.categorical # m.categorical
ScopeVeto(k, m) == k.scope # m.scope
OfficeVeto(k, m) == Disjoint(k.offices, m.offices)
YearVeto(k, m) == Disjoint(k.years, m.years)
QuantityVeto(k, m) == Disjoint(k.quantities, m.quantities)
MonthVeto(k, m) == k.period # m.period
AddedName(k, m) == k.names # m.names
\* One side ranks a thing that the other only mentions.
SuperlativeVeto(k, m) ==
    \/ k.ranks # "none" /\ m.ranks = "none" /\ k.ranks \in m.tokens
    \/ m.ranks # "none" /\ k.ranks = "none" /\ m.ranks \in k.tokens
PartialScopeVeto(k, m) == k.partial # m.partial

TitleVeto(k, m) ==
    \/ CategoricalVeto(k, m) \/ ScopeVeto(k, m) \/ OfficeVeto(k, m)
    \/ YearVeto(k, m) \/ QuantityVeto(k, m) \/ MonthVeto(k, m)
    \/ AddedName(k, m) \/ SuperlativeVeto(k, m) \/ PartialScopeVeto(k, m)

\* Both sides name something the other does not.
DistinctSubjects(k, m) == Both(k.tokens \ (m.tokens \cup Template), m.tokens \ (k.tokens \cup Template))

\* Less than half of the smaller set is in the larger.
LowOverlap(k, m) ==
    2 * Cardinality(k.tokens \cap m.tokens) < Min({Cardinality(k.tokens), Cardinality(m.tokens)})

QualifierVeto(k, m) == SymDiff(k.tokens, m.tokens) \cap Qualifier # {}

TimeAnchor(m) == <<m.years, m.months>>
TimeAnchorsUncertain(k, m) == ~Disjoint(k.years, m.years) /\ TimeAnchor(k) # TimeAnchor(m)

DistinguishingEntity(k, m) ==
    IF TitleVeto(k, m) THEN Reject
    ELSE IF ~Both(k.tokens, m.tokens)
    THEN Pass("unknown", (k.tokens \cup m.tokens) \ (Template \cup Qualifier) # {})
    ELSE IF DistinctSubjects(k, m) \/ LowOverlap(k, m) \/ QualifierVeto(k, m) THEN Reject
    ELSE Pass("unknown", TimeAnchorsUncertain(k, m))

(***************************************************************************)
(* Resolution criteria and deadlines.                                      *)
(***************************************************************************)
\* An integer "8+" is over 7.5 and "Over 8.5" is itself; one apart passes.
ThresholdsCompatible(k, m) ==
    \/ k.threshold = Nothing \/ m.threshold = Nothing
    \/ k.threshold - m.threshold \in -2..2

\* Containment of the smaller rules text below 0.4.
LowContainment(k, m) ==
    5 * Cardinality(k.rules.words \cap m.rules.words)
        < 2 * Min({Cardinality(k.rules.words), Cardinality(m.rules.words)})

ResolutionCriteria(k, m, sameTitle) ==
    IF ~ThresholdsCompatible(k, m) THEN Reject
    ELSE IF ~Both(k.rules.words, m.rules.words) THEN Pass("unknown", FALSE)
    ELSE IF Disjoint(k.rules.scope, m.rules.scope) THEN Reject
    ELSE IF ~LowContainment(k, m) THEN Pass("unknown", FALSE)
    ELSE IF sameTitle THEN Pass("unknown", TRUE) ELSE Reject

\* The day of the governing deadline, in years of twelve months of thirty days:
\* "by <day>", the first of "by <month>", the first of "by <year>", and the last
\* of "in <year>".
Deadline(m) ==
    LET d == m.deadline   start == 360 * d.year
    IN IF d.form = "day" THEN start + 30 * (d.month - 1) + d.day
       ELSE IF d.form = "month" THEN start + 30 * (d.month - 1) + 1
       ELSE IF d.form = "by_year" THEN start + 1
       ELSE IF d.form = "in_year" THEN start + 360
       ELSE Nothing

DeadlineVeto(k, m) ==
    /\ Deadline(k) # Nothing /\ Deadline(m) # Nothing
    /\ Deadline(k) - Deadline(m) \notin -MaxDeadlineSkew..MaxDeadlineSkew

HasRules(m) == m.rules.words # {}
ComparatorAsymmetry(k, m) ==
    "none" \notin {k.rules.comparator, m.rules.comparator} /\ k.rules.comparator # m.rules.comparator
AuthorityAsymmetry(k, m) == HasRules(k) /\ HasRules(m) /\ k.rules.authorities # m.rules.authorities
\* One side counts the most seats and the other mentions no seat.
SeatsAsymmetry(k, m) == {k.rules.seats, m.rules.seats} = {"most", "none"}

ResolutionCongruence(k, m) ==
    IF DeadlineVeto(k, m) THEN Reject
    ELSE Pass("unknown", \/ k.rules.excludes # m.rules.excludes
                         \/ ComparatorAsymmetry(k, m) \/ AuthorityAsymmetry(k, m)
                         \/ k.tiers # m.tiers \/ SeatsAsymmetry(k, m))

(***************************************************************************)
(* The operator's list and the chain.                                      *)
(***************************************************************************)

\* A removed file clears the list, one that cannot be parsed changes nothing.
Load(file, status, held) ==
    IF status = "ok" THEN file
    ELSE IF status = "missing" THEN [p \in DOMAIN held |-> "absent"] ELSE held

Allowlist(entry) ==
    IF entry = "denied" THEN Reject
    ELSE Pass(IF entry = "absent" THEN "unknown" ELSE entry, FALSE)

\* The first failure rejects; an approval's polarity wins over the titles'; any
\* verifier's doubt makes the pair uncertain, an approved one too.
CompositeVerifier(entry, k, m, sameTitle) ==
    LET chain == {Allowlist(entry), OutcomePolarity(k, m), DistinguishingEntity(k, m),
                  ResolutionCriteria(k, m, sameTitle), ResolutionCongruence(k, m)}
    IN IF \E v \in chain : ~v.passed THEN Reject
       ELSE Pass(IF entry \in {"aligned", "inverted"} THEN entry ELSE OutcomePolarity(k, m).polarity,
                 \E v \in chain : v.uncertain)

(***************************************************************************)
(* The matcher.                                                            *)
(***************************************************************************)
\* Same player, different statistic or different line.
StatFilter(k, m) ==
    Both(k.stats, m.stats) => (k.stats \cap m.stats # {} /\ ThresholdsCompatible(k, m))

\* The heap of the best matches of a Kalshi market.
IsTopMatches(top, passed, limit, score) ==
    /\ top \subseteq passed
    /\ Cardinality(top) = Min({limit, Cardinality(passed)})
    /\ \A p \in top, q \in passed \ top : score[p] >= score[q]

\* resolve_uncertain_batch: the judge has no answer for an uncertain match (a
\* failed call, a missing record), finds it different, which drops it, or finds
\* it the same, where its polarity counts only if the rules left it open.
Resolved(v, judged) ==
    {v} \cup IF v.uncertain /\ judged
            THEN {Reject} \cup {Pass(IF v.polarity = "unknown" THEN pol ELSE v.polarity, FALSE) :
                              pol \in {"aligned", "inverted", "unknown"}}
            ELSE {}

\* Whether the title of k says the opposite of the title of m, when both or
\* neither name a direction.
Negative(m) == (m.negations % 2 = 1) # (m.under /\ ~m.over)
TitlesComparable(k, m) == (k.over \/ k.under) = (m.over \/ m.under) /\ ~(k.over /\ k.under) /\ ~(m.over /\ m.under)
TitlesOppose(k, m) == Negative(k) # Negative(m)
=============================================================================
