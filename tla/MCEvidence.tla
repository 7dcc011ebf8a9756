----------------------------- MODULE MCEvidence -----------------------------
(***************************************************************************)
(* The reductions of finished measurements, side by side: the row of a     *)
(* baseline slot, the row of a product slot and the analysis of a          *)
(* campaign.  A behaviour belongs to one of them, which who names, with    *)
(* one choice of its constants; the variables of the others stay unused.   *)
(* The reductions do not interact: the run explores the sum of their state *)
(* spaces.  BaselineSlot is extended, so its variables keep their first    *)
(* values when another reduction runs.                                     *)
(***************************************************************************)
EXTENDS BaselineSlot, TLC

CONSTANTS
    Parts,           \* the reductions and instances explored
    Unused           \* the value of a variable of another reduction

VARIABLES
    who,             \* the reduction this behaviour belongs to
    \* of the product slot
    slot, clock, began, phase, pass, runs, saved, expired, published, receipt,
    line,
    \* of the analysis
    pairs, stopped, deviated, result

search == <<slot, clock, began, phase, pass, runs, saved, expired, published,
            receipt, line>>
estimate == <<pairs, stopped, deviated, result>>

-----------------------------------------------------------------------------
(* The instances.                                                          *)

\* Without failures of the environment, and not fixed.
Clean == INSTANCE BaselineSlot WITH Fixed <- FALSE, Faults <- {}

\* Two candidates, two passes and two repetitions, searched as registered or with
\* departures from the registered search.
Schedules == <<"s1", "s2">>
Product == INSTANCE ProductSlot WITH
             Candidates <- Schedules, Passes <- 2, Repeat <- 2, Cap <- 1, MaxTime <- 2,
             Outcomes <- {"clean", "domain", "domain'", "rows", "receipt"}, Deviant <- {},
             now <- clock, origin <- began, timeout <- expired, command <- receipt,
             row <- line
Departs == INSTANCE ProductSlot WITH
             Candidates <- Schedules, Passes <- 2, Repeat <- 2, Cap <- 1, MaxTime <- 1,
             Outcomes <- {"clean", "domain", "rows"},
             Deviant <- {"order", "short", "other", "fewer"},
             now <- clock, origin <- began, timeout <- expired, command <- receipt,
             row <- line

\* A pair of arms takes 5 against 2, 4 or 5, with a resource counter that may be
\* missing or zero; the faulty pairs have one fault each.
Result(class, time, cost) == [class |-> class, time |-> time, cost |-> cost]
Of(b, w, same, lag) == [baseline |-> b, candidate |-> w, same |-> same, lag |-> lag]
Good == Result("complete", 5, 1)
Fast == Result("complete", 2, 1)
PairOutcomes ==
    {Of(Good, Result("complete", t, 1), TRUE, 0) : t \in {2, 5}}
        \cup {Of(Good, Result("complete", 4, c), TRUE, 3) : c \in {0, 2, Unknown}}
        \cup {Of(Good, w, TRUE, 0) : w \in {Result("operational_failure", 1, Unknown),
                                           Result("quality_failure", 2, 1)}}
        \cup {Of(Result("not_started", Unknown, Unknown), Good, TRUE, Unknown)}
        \cup {Of(Good, Fast, FALSE, 0)}
        \cup {Of(Good, Fast, TRUE, lag) : lag \in {-1, 4, Unknown}}

\* Two dates of two blocks.
Analysis == INSTANCE CampaignAnalysis WITH
              Planned <- <<2, 2>>, Threshold <- <<4, 5>>, Adjacent <- TRUE, Window <- 3,
              Outcomes <- PairOutcomes, Nil <- Unknown

ASSUME InstancesAssumption ==
    /\ Product!ProductAssumption /\ Departs!ProductAssumption
    /\ Analysis!AnalysisAssumption

-----------------------------------------------------------------------------
(* The sum.                                                                *)

NoSearch ==
    /\ slot = Unused /\ clock = Unused /\ began = Unused /\ phase = Unused
    /\ pass = Unused /\ runs = Unused /\ saved = Unused /\ expired = Unused
    /\ published = Unused /\ receipt = Unused /\ line = Unused
NoPairs ==
    /\ pairs = Unused /\ stopped = Unused /\ deviated = Unused
    /\ result = Unused

MCInit ==
    /\ who \in Parts
    /\ Init
    /\ \/ who \in {"baseline", "clean"} /\ NoSearch /\ NoPairs
       \/ who = "product" /\ Product!Init /\ NoPairs
       \/ who = "departs" /\ Departs!Init /\ NoPairs
       \/ who = "analysis" /\ Analysis!Init /\ NoSearch

BaselineNext ==
    /\ \/ who = "baseline" /\ Next
       \/ who = "clean" /\ Clean!Next
    /\ UNCHANGED <<who, search, estimate>>
ProductNext ==
    /\ \/ who = "product" /\ Product!Next
       \/ who = "departs" /\ Departs!Next
    /\ UNCHANGED <<who, vars, estimate>>
AnalysisNext ==
    /\ who = "analysis" /\ Analysis!Next
    /\ UNCHANGED <<who, vars, search>>

MCNext == BaselineNext \/ ProductNext \/ AnalysisNext

all == <<who, vars, search, estimate>>

MCSpec == MCInit /\ [][MCNext]_all

-----------------------------------------------------------------------------
(* Properties.                                                             *)

\* The row of a product slot claims what its search showed: the discovery lies within
\* its bound, a detection is in time, an unchanged search is never called invalid,
\* and a stable or a missing result means what it says even of a search that departs
\* from the registered one (analyze.py, run.go, verdict.go).
ProductRowIsTrue ==
    /\ who = "product" => Product!TypeOK /\ Product!RowIsTrue
    /\ who = "departs" => Departs!TypeOK /\ Departs!RowIsTrue

\* The analysis of a campaign claims an improvement only when every planned block is
\* complete and comparable, loses no block from its accounting, and reports intervals
\* and quartiles the observations support (analysis.py).
ClaimsAreSupported == who = "analysis" => Analysis!TypeOK /\ Analysis!AnalysisIsSound

\* The protocol's rule for the cap (control-comparison/README.md:357-359): a clean
\* cancellation caused only by the collection cap is budget-exhausted, not an
\* operational failure.  The code breaks it for a cap that lands in a reset.
CancellationIsExhaustion == who = "clean" => Clean!CleanCancellationIsExhausted
=============================================================================
