------------------------------- MODULE Forecast -------------------------------
(***************************************************************************)
(* What the history of LearningStore is for: Learning::forecast of         *)
(* src/src/bidder.rs, asked before every bid.  Times are integers; ratios  *)
(* are in hundredths, rounded down, and margins in hundredths, so that     *)
(* computation times come out in units of a ten-thousandth.                *)
(***************************************************************************)
EXTENDS LearningStore, FiniteSetsExt

CONSTANTS Sample,    \* observation -> the clocks it recorded
          Tasks,     \* the [key, type] of the tasks that may be offered
          Baseline   \* the calibrated estimate of a task

\* What Observation::valid lets into a history; the bill is cost / cost_rate.
ASSUME SampleAssumption ==
  /\ Baseline \in Nat
  /\ \A o \in Obs : /\ {Sample[o].baseline, Sample[o].local} \subseteq Nat \ {0}
                    /\ {Sample[o].queue, Sample[o].manager, Sample[o].billed} \subseteq Nat
                    /\ Sample[o].manager >= Sample[o].local

\* (Fault: the rank is rounded down.)
RankDown(percent, n) == Max({1, (percent * n) \div 100})

\* div_ceil, then saturating_sub(1) for an index that starts at 0.
Rank(percent, n) == Max({1, (percent * n + 99) \div 100})

\* sort_by(total_cmp), and what is then at this rank.
Ranked(values, rank) ==
  CHOOSE q \in Range(values) : /\ Cardinality({k \in DOMAIN values : values[k] < q}) < rank
                              /\ Cardinality({k \in DOMAIN values : values[k] <= q}) >= rank

Samples(values) == Cardinality(DOMAIN values)

Quantile(values, percent) == Ranked(values, Rank(percent, Samples(values)))

\* The values of the observations that are chosen, at their places in the history.
Observed(h, Test(_), Value(_)) == [k \in {i \in DOMAIN h : Test(h[i])} |-> Value(h[k])]

Ratio(o) == (100 * Sample[o].local) \div Sample[o].baseline

\* The ratios of the very inputs, or else, except for a hash search, of the type.
Ratios(h, task) ==
  LET exact == Observed(h, LAMBDA o : Sample[o].key = task.key, Ratio)
  IN  IF DOMAIN exact = {} /\ task.type # "hash_search"
      THEN Observed(h, LAMBDA o : Sample[o].type = task.type, Ratio)
      ELSE exact

ColdFactor(task) == IF task.type = "hash_search" THEN 300 ELSE 120

\* (Fault: the reserve has no margin.)
NoMargin(samples) == 100

\* A small sample keeps a larger margin.
Margin(samples) == IF samples < 5 THEN 110 ELSE 105

Factor(ratios, percent, cold) == IF Samples(ratios) = 0 THEN cold ELSE Quantile(ratios, percent)

Reserve(h, task) ==
  LET ratios == Ratios(h, task)
  IN  Baseline * Factor(ratios, 95, ColdFactor(task)) * Margin(Samples(ratios))

Expected(h, task) == Baseline * Factor(Ratios(h, task), 50, 100) * 105

\* What the manager's clock, or its bill, has beyond computing and queueing.
Overhead(o) == Max({0, Max({Sample[o].manager, Sample[o].billed})
                         - Sample[o].local - Sample[o].queue})

Delivery(h) == LET all == Observed(h, LAMBDA o : TRUE, Overhead)
               IN  Max({5, Factor(all, 95, 50)}) + 5

-----------------------------------------------------------------------------
(* Properties.                                                             *)

\* q is a value at or above percent % of the values, and the least such one.
Covers(q, values, percent) ==
  LET AtMost(x) == 100 * Cardinality({k \in DOMAIN values : values[k] <= x})
                     >= percent * Samples(values)
  IN  q \in Range(values) /\ AtMost(q) /\ \A x \in Range(values) : x < q => ~AtMost(x)

\* Whatever was recorded, dropped, saved and reloaded, the reserve covers 95 %
\* of the observed runs of a task, and the delivery allowance 95 % of the observed
\* overheads, and no smaller observed value does (quantile: "a value at or above
\* 95 % of the observations", docs/changes/03-bidding.md:68).
ForecastCovers ==
  \A p \in Procs :
    /\ \A task \in Tasks : LET ratios == Ratios(memory[p], task)
         IN Samples(ratios) > 0 =>
              \E q \in Range(ratios) : /\ Reserve(memory[p], task) = Baseline * q * Margin(Samples(ratios))
                                       /\ Covers(q, ratios, 95)
    /\ LET all == Observed(memory[p], LAMBDA o : TRUE, Overhead)
       IN  Samples(all) > 0 => \E q \in Range(all) : Covers(q, all, 95) /\ Delivery(memory[p]) >= q + 5

\* The time quoted to the manager is never beyond the time reserved for the
\* deadline and the price, with any history, the empty one included.
QuoteWithinReserve ==
  \A p \in Procs, task \in Tasks : Expected(memory[p], task) <= Reserve(memory[p], task)
=============================================================================
