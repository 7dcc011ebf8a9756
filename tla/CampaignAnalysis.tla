-------------------------- MODULE CampaignAnalysis --------------------------
(***************************************************************************)
(* The analysis of a gate-performance campaign: harness/analysis.py, from  *)
(* the reduced trial rows of the planned blocks to the paired estimates    *)
(* and the one decision of a confirmation.                                 *)
(*                                                                         *)
(* Blocks are collected in order, each with the outcome of its two arms,   *)
(* until all are there or the campaign stops.  One primary workload, its   *)
(* duration and one resource are modelled.  A ratio is a fraction: the     *)
(* geometric mean of n ratios w/b is compared through the products of the  *)
(* w and of the b.  The bootstrap draws from a hash: any resample may be   *)
(* the one at a percentile.  Overflow and rounding are left out.           *)
(***************************************************************************)
EXTENDS Integers, Sequences, SequencesExt, FiniteSets, FiniteSetsExt

CONSTANTS
  Planned,    \* planned blocks of each date
  Threshold,  \* <<p, q>>: the ratio p/q the experiment has to reach
  Adjacent,   \* the arms must follow each other in time (E2)
  Window,     \* the longest lag between the two arms
  Outcomes,   \* the outcomes of a pair: see PairOutcome
  Nil

AnalysisAssumption ==
  /\ \A d \in DOMAIN Planned : Planned[d] \in Nat \ {0}
  /\ Threshold \in (Nat \ {0}) \X (Nat \ {0})
  /\ Adjacent \in BOOLEAN /\ Window \in Nat

VARIABLES
  pairs,      \* block -> the outcome of its two arms, Nil if not collected
  stopped,    \* the campaign ended early
  deviated,   \* a deviation was registered
  result      \* the analysis, or Nil

vars == <<pairs, stopped, deviated, result>>

Dates == DOMAIN Planned
Blocks == {b \in Dates \X (1 .. Max(ToSet(Planned))) : b[2] <= Planned[b[1]]}
Arms == {"baseline", "candidate"}
Classes == {"complete", "operational_failure", "quality_failure", "not_started"}

\* Two reduced trial rows, whether the compared facts agree, and the time from
\* the end of the first arm to the start of the second.
PairOutcome(o) ==
  /\ \A arm \in Arms : /\ o[arm].class \in Classes
                       /\ o[arm].class = "complete" => o[arm].time \in Nat \ {0}
                       /\ o[arm].cost \in Nat \cup {Nil}
  /\ o.same \in BOOLEAN

TypeOK ==
  /\ DOMAIN pairs = Blocks /\ \A b \in Blocks : pairs[b] # Nil => PairOutcome(pairs[b])
  /\ stopped \in BOOLEAN /\ deviated \in BOOLEAN
  /\ result # Nil =>
       /\ result.status \in {"improvement_demonstrated", "no_positive_claim"}
       /\ result.n \in 0 .. Cardinality(Blocks)
       /\ result.costly \in BOOLEAN

Init == /\ pairs = [b \in Blocks |-> Nil] /\ stopped = FALSE /\ result = Nil
        /\ deviated \in BOOLEAN

-----------------------------------------------------------------------------
Earlier(a, b) == a[1] < b[1] \/ (a[1] = b[1] /\ a[2] < b[2])

Collect(b, o) ==
  /\ ~stopped /\ result = Nil /\ pairs[b] = Nil
  /\ \A a \in Blocks : Earlier(a, b) => pairs[a] # Nil
  /\ pairs' = [pairs EXCEPT ![b] = o]
  /\ UNCHANGED <<stopped, deviated, result>>

Stop ==
  /\ ~stopped /\ result = Nil
  /\ stopped' = TRUE
  /\ UNCHANGED <<pairs, deviated, result>>

-----------------------------------------------------------------------------
(* Which pairs are valid, and why the others are not.                       *)

Missing == [class |-> "not_started", time |-> Nil, cost |-> Nil]
Row(b, arm) == IF pairs[b] = Nil THEN Missing ELSE pairs[b][arm]

Incomplete(b) == \E arm \in Arms : Row(b, arm).class # "complete"
Mismatch(b) == ~Incomplete(b) /\ ~pairs[b].same
WindowMissed(b) ==
  /\ Adjacent /\ ~Incomplete(b) /\ ~Mismatch(b)
  /\ pairs[b].lag = Nil \/ pairs[b].lag \notin 0 .. Window

\* Fault: only a failed arm excludes its pair.
Excluded_Failed == {b \in Blocks : Incomplete(b)}

Excluded == {b \in Blocks : Incomplete(b) \/ Mismatch(b) \/ WindowMissed(b)}
Valid == Blocks \ Excluded

\* The pairs of a metric: valid blocks in which both arms have a counter.
MetricPairs(metric) ==
  {b \in Valid : \A arm \in Arms : Row(b, arm)[metric] # Nil}

-----------------------------------------------------------------------------
(* Paired estimates.                                                        *)

Product(s) == FoldLeft(LAMBDA x, y : x * y, 1, s)
Power(x, n) == Product([i \in 1 .. n |-> x])
Values(bs, arm, metric) ==
  LET order == SetToSortSeq(bs, Earlier) IN [i \in DOMAIN order |-> Row(order[i], arm)[metric]]

\* The geometric mean ratio of a list of blocks, as a power of n.
Ratio(order, metric) ==
  [n |-> Len(order),
   top |-> Product([i \in DOMAIN order |-> Row(order[i], "candidate")[metric]]),
   bottom |-> Product([i \in DOMAIN order |-> Row(order[i], "baseline")[metric]])]
AtMost(ratio, p, q) == ratio.top * Power(q, ratio.n) <= ratio.bottom * Power(p, ratio.n)

RatioDefined(metric) ==
  LET bs == MetricPairs(metric) IN
  bs # {} /\ \A b \in bs, arm \in Arms : Row(b, arm)[metric] > 0

OfDate(bs, d) == {b \in bs : b[1] = d}

\* Whole blocks are drawn again, with replacement, inside each date.
Resamples(bs) ==
  LET order == SetToSortSeq(bs, Earlier) IN
  {f \in [DOMAIN order -> bs] : \A i \in DOMAIN order : f[i][1] = order[i][1]}

\* No interval with fewer than two valid blocks in a planned date.
IntervalDefined(metric) ==
  /\ RatioDefined(metric)
  /\ \A d \in Dates : Cardinality(OfDate(MetricPairs(metric), d)) >= 2

\* The value at index (n - 1) * num / den of the sorted values, times den.
Quantile(values, num, den) ==
  LET sorted == SortSeq(values, LAMBDA x, y : x < y)
      low == ((Len(values) - 1) * num) \div den
      weight == ((Len(values) - 1) * num) % den
      high == IF weight = 0 THEN low ELSE low + 1
  IN sorted[low + 1] * den + (sorted[high + 1] - sorted[low + 1]) * weight

\* The same in the pilot and in the control comparison, which clamp the index.
QuantileClamped(values, num, den) ==
  LET sorted == SortSeq(values, LAMBDA x, y : x < y)
      low == ((Len(values) - 1) * num) \div den
      weight == ((Len(values) - 1) * num) % den
      next == IF low + 1 < Len(values) THEN low + 1 ELSE Len(values) - 1
  IN sorted[low + 1] * den + (sorted[next + 1] - sorted[low + 1]) * weight

Summary(metric) ==
  [arm \in Arms |->
     LET values == Values(MetricPairs(metric), arm, metric) IN
     IF values = <<>> THEN <<>> ELSE [k \in 1 .. 3 |-> Quantile(values, k, 4)]]

-----------------------------------------------------------------------------
(* The decision of a confirmation.                                          *)

Reasons(upper) ==
  {r \in {"pairs", "deviation", "resources", "practical"} :
     CASE r = "pairs" -> Excluded # {}
       [] r = "deviation" -> deviated
       [] r = "resources" -> Cardinality(MetricPairs("cost")) # Cardinality(Blocks)
       [] r = "practical" ->
            \/ upper = Nil \/ upper.top >= upper.bottom
            \/ ~AtMost(Ratio(SetToSortSeq(MetricPairs("time"), Earlier), "time"),
                       Threshold[1], Threshold[2])}

\* A resource that costs more qualifies the claim; an undefined ratio does not.
Costly ==
  RatioDefined("cost") /\
    ~AtMost(Ratio(SetToSortSeq(MetricPairs("cost"), Earlier), "cost"), 11, 10)

Counts == [arm \in Arms |-> [c \in Classes |-> Cardinality({b \in Blocks : Row(b, arm).class = c})]]

Analyze ==
  /\ result = Nil
  /\ stopped \/ \A b \in Blocks : pairs[b] # Nil
  /\ \E sample \in (IF IntervalDefined("time") THEN Resamples(MetricPairs("time")) ELSE {<<>>}) :
       LET upper == IF sample = <<>> THEN Nil ELSE Ratio(sample, "time") IN
       result' = [status |-> IF Reasons(upper) = {} THEN "improvement_demonstrated"
                             ELSE "no_positive_claim",
                  n |-> Cardinality(MetricPairs("time")), upper |-> upper,
                  excluded |-> Excluded, counts |-> Counts, costly |-> Costly,
                  summary |-> Summary("time")]
  /\ UNCHANGED <<pairs, stopped, deviated>>

Next ==
  \/ Stop \/ Analyze
  \/ \E b \in Blocks, o \in Outcomes : Collect(b, o)

Spec == Init /\ [][Next]_vars

-----------------------------------------------------------------------------
\* A positive claim rests on every planned block: both arms complete, of equal
\* facts, close enough in time, with every resource measured and no deviation;
\* and there is a block in which the candidate really was faster.
ClaimIsEarned ==
  result # Nil /\ result.status = "improvement_demonstrated" =>
    /\ ~deviated
    /\ \A b \in Blocks :
         /\ pairs[b] # Nil /\ pairs[b].same
         /\ Adjacent => pairs[b].lag \in 0 .. Window
         /\ \A arm \in Arms : pairs[b][arm].class = "complete" /\ pairs[b][arm].cost # Nil
    /\ \E b \in Blocks : pairs[b].candidate.time < pairs[b].baseline.time

\* Nothing planned leaves the accounting: every block is in the counts of each
\* arm once, and is a pair of the primary estimate or excluded for a reason.
AccountingIsWhole ==
  result # Nil =>
    /\ \A arm \in Arms : MapThenSumSet(LAMBDA c : result.counts[arm][c], Classes)
                           = Cardinality(Blocks)
    /\ result.n + Cardinality(result.excluded) = Cardinality(Blocks)

\* An interval needs two valid blocks on every planned date, and its bounds lie
\* between the extreme ratios that were observed.
IntervalIsObserved ==
  result # Nil /\ result.upper # Nil =>
    /\ \A d \in Dates : Cardinality(OfDate(Blocks \ result.excluded, d)) >= 2
    /\ \E b \in Blocks \ result.excluded :
         AtMost(result.upper, pairs[b].candidate.time, pairs[b].baseline.time)
    /\ \E b \in Blocks \ result.excluded :
         ~AtMost(result.upper, pairs[b].candidate.time, pairs[b].baseline.time)
           \/ result.upper.top * Power(pairs[b].baseline.time, result.upper.n)
                = result.upper.bottom * Power(pairs[b].candidate.time, result.upper.n)

\* The three quantile implementations agree, and the quartiles are ordered and
\* inside the observed range, the median being the middle value or the mean of
\* the two.
QuartilesAreRight ==
  result # Nil => \A arm \in Arms :
    LET values == Values(Blocks \ result.excluded, arm, "time")
        sorted == SortSeq(values, LAMBDA x, y : x < y)
        n == Len(values)
        q == result.summary[arm] IN
    n > 0 =>
      /\ \A k \in 1 .. 3 : q[k] = QuantileClamped(values, k, 4)
      /\ 4 * sorted[1] <= q[1] /\ q[1] <= q[2] /\ q[2] <= q[3] /\ q[3] <= 4 * sorted[n]
      /\ q[2] = 2 * (sorted[(n + 1) \div 2] + sorted[(n + 2) \div 2])

\* The analysis of a campaign claims what its pairs show, and accounts for all.
AnalysisIsSound ==
  ClaimIsEarned /\ AccountingIsWhole /\ IntervalIsObserved /\ QuartilesAreRight
=============================================================================
