------------------------- MODULE MCOpportunityScan -------------------------
EXTENDS OpportunityScan, TLC
CONSTANTS p1, p2, k1

\* Two Polymarket markets matched with one Kalshi market; the second has a
\* single token with a price.
SameTicker == [p \in {p1, p2} |-> k1]
Tokens == p1 :> {"yes", "no"} @@ p2 :> {"yes"}
OneBatch == [p \in {p1, p2} |-> 1]

\* A plain market, and the markets that differ from it in one respect.
Rules == [words |-> {"w1", "w2", "w3"}, scope |-> {}, authorities |-> {}, excludes |-> FALSE,
          comparator |-> "none", seats |-> "none"]
Plain == [negations |-> 0, over |-> FALSE, under |-> FALSE, plus |-> FALSE, categorical |-> FALSE,
          ranks |-> "none", partial |-> FALSE, scope |-> {}, offices |-> {"senate"}, years |-> {26},
          quantities |-> {"5"}, period |-> "none", months |-> {}, names |-> {}, tokens |-> {"smith", "goal"},
          stats |-> {"points"}, threshold |-> 15, rules |-> Rules, tiers |-> {},
          deadline |-> [form |-> "day", year |-> 26, month |-> 12, day |-> 30]]

Titles == {[Plain EXCEPT !.negations = n, !.over = d = 1, !.under = d = 2] : n \in 0..2, d \in 0..2}

Variants ==
    {[Plain EXCEPT !.categorical = TRUE], [Plain EXCEPT !.scope = {"montana"}],
     [Plain EXCEPT !.offices = {"governor"}], [Plain EXCEPT !.years = {28}], [Plain EXCEPT !.years = {}],
     [Plain EXCEPT !.quantities = {"6"}], [Plain EXCEPT !.period = "june"],
     [Plain EXCEPT !.names = {"jones"}], [Plain EXCEPT !.ranks = "goal"], [Plain EXCEPT !.partial = TRUE],
     [Plain EXCEPT !.tokens = {}], [Plain EXCEPT !.tokens = {"jones", "goal"}],
     [Plain EXCEPT !.tokens = {"cup", "team"}], [Plain EXCEPT !.tokens = {"smith", "goal", "round"}],
     [Plain EXCEPT !.stats = {"assists"}], [Plain EXCEPT !.threshold = 17], [Plain EXCEPT !.threshold = 19],
     [Plain EXCEPT !.tiers = {"afc"}], [Plain EXCEPT !.deadline.form = "in_year"],
     [Plain EXCEPT !.deadline.form = "by_year"], [Plain EXCEPT !.deadline.form = "month"],
     [Plain EXCEPT !.deadline.form = "none"]}
    \cup {[Plain EXCEPT !.rules = r] :
            r \in {[Rules EXCEPT !.words = {}], [Rules EXCEPT !.words = {"w4", "w5"}],
                   [Rules EXCEPT !.scope = {"montana"}], [Rules EXCEPT !.authorities = {"who"}],
                   [Rules EXCEPT !.excludes = TRUE], [Rules EXCEPT !.comparator = "strict"],
                   [Rules EXCEPT !.seats = "most"]}}

\* Two negations, and a doubt that takes the pair to the judge.
Negated == [Plain EXCEPT !.negations = 1]
Doubted == [Negated EXCEPT !.tiers = {"afc"}]
Says == p1 :> ((Titles \X Titles) \cup ({Plain} \X Variants) \cup {<<Negated, Doubted>>}) @@ p2 :> {<<Plain, Plain>>}
TemplateWords == {"cup", "team"}
QualifierWords == {"round"}
=============================================================================
