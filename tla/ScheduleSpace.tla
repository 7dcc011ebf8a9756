---------------------------- MODULE ScheduleSpace ----------------------------
(***************************************************************************)
(* The candidates of an exploration: CandidateCount, which counts them and *)
(* refuses a space that is too large without counting it to the end, and   *)
(* exhaustiveSequence, which walks the space depth first.  The walk is     *)
(* repeatable: exploration passes over it again, also after it stopped in  *)
(* the middle.  A worker is its index; a step is a worker and the number   *)
(* of one of its points.                                                   *)
(***************************************************************************)
EXTENDS Integers, Sequences, SequencesExt, Functions

CONSTANTS
    Shapes,          \* the spaces: <<number of workers, number of points>>
    Limits,          \* the values of MaxCandidates
    Passes           \* how often the sequence is consumed

SpaceAssumption ==
    /\ Shapes \subseteq (Nat \ {0}) \X (Nat \ {0})
    /\ Limits \subseteq Nat \ {0}
    /\ Passes \in Nat \ {0}

VARIABLES
    shape, limit,    \* the scenario and MaxCandidates
    pc,              \* "count", "refused", "walk", "stopped", "done"
    at,              \* <<workerIndex, pointIndex>> of the count
    count,           \* its partial product
    nextPoint,       \* points of each worker on the current path
    steps,           \* the current path
    try,             \* the worker the loop of the deepest call comes to next
    yielded,         \* what this pass handed out
    pass

vars == <<shape, limit, pc, at, count, nextPoint, steps, try, yielded, pass>>

Workers == 1..shape[1]
PointCount == shape[2]
ExpectedSteps == shape[1] * PointCount

Init ==
    /\ shape \in Shapes
    /\ limit \in Limits
    /\ pc = "count"
    /\ at = <<1, 1>>
    /\ count = 1
    /\ nextPoint = [w \in Workers |-> 0]
    /\ steps = <<>>
    /\ try = 1
    /\ yielded = <<>>
    /\ pass = 1

-----------------------------------------------------------------------------
(* CandidateCount: the worker with index at[1] (from 0) is added, its      *)
(* points one by one.                                                      *)

\* The quotient rounds towards zero, as big.Int.Quo does.
Counted == (count * (at[1] * PointCount + at[2])) \div at[2]

CountStep ==
    /\ pc = "count"
    /\ at[1] < shape[1]
    /\ count' = Counted
    /\ pc' = IF count' > limit THEN "refused" ELSE "count"
    /\ at' = IF at[2] = PointCount THEN <<at[1] + 1, 1>> ELSE <<at[1], at[2] + 1>>
    /\ UNCHANGED <<shape, limit, nextPoint, steps, try, yielded, pass>>

CountDone ==
    /\ pc = "count"
    /\ at[1] = shape[1]
    /\ pc' = "walk"
    /\ UNCHANGED <<shape, limit, at, count, nextPoint, steps, try, yielded, pass>>

-----------------------------------------------------------------------------
(* exhaustiveSequence.                                                     *)

Whole == Len(steps) = ExpectedSteps
Open == {w \in Workers : w >= try /\ nextPoint[w] < PointCount}
Least(W) == CHOOSE w \in W : \A v \in W : w <= v

\* The loop comes to the next worker that has a point left, and goes down.
Descend ==
    /\ pc = "walk"
    /\ ~ Whole
    /\ Open # {}
    /\ LET w == Least(Open) IN
         /\ steps' = Append(steps, <<w, nextPoint[w] + 1>>)
         /\ nextPoint' = [nextPoint EXCEPT ![w] = @ + 1]
    /\ try' = 1
    /\ UNCHANGED <<shape, limit, pc, at, count, yielded, pass>>

\* A call returns true: its caller takes the step back and goes on with its loop.
Back ==
    LET w == Last(steps)[1] IN
      /\ nextPoint' = [nextPoint EXCEPT ![w] = @ - 1]
      /\ steps' = Front(steps)
      /\ try' = w + 1

Ascend ==
    /\ pc = "walk"
    /\ ~ Whole
    /\ Open = {}
    /\ steps # <<>>
    /\ Back
    /\ UNCHANGED <<shape, limit, pc, at, count, yielded, pass>>

Exhausted ==
    /\ pc = "walk"
    /\ Open = {}
    /\ steps = <<>>
    /\ pc' = "done"
    /\ UNCHANGED <<shape, limit, at, count, nextPoint, steps, try, yielded, pass>>

\* The consumer takes a schedule and asks for the next one.
Yield ==
    /\ pc = "walk"
    /\ Whole
    /\ yielded' = Append(yielded, steps)
    /\ Back
    /\ UNCHANGED <<shape, limit, pc, at, count, pass>>

\* The consumer has seen enough: every call returns false and nothing is taken back.
YieldStops ==
    /\ pc = "walk"
    /\ Whole
    /\ yielded' = Append(yielded, steps)
    /\ pc' = "stopped"
    /\ UNCHANGED <<shape, limit, at, count, nextPoint, steps, try, pass>>

\* The sequence is consumed again: the walk begins with a path of its own.
Again_KeepsPath ==
    /\ pc \in {"stopped", "done"}
    /\ pass < Passes
    /\ pass' = pass + 1
    /\ pc' = "walk"
    /\ yielded' = <<>>
    /\ try' = 1
    /\ steps' = <<>>
    /\ UNCHANGED <<shape, limit, at, count, nextPoint>>
Again ==
    /\ pc \in {"stopped", "done"}
    /\ pass < Passes
    /\ pass' = pass + 1
    /\ pc' = "walk"
    /\ yielded' = <<>>
    /\ try' = 1
    /\ steps' = <<>>
    /\ nextPoint' = [w \in Workers |-> 0]
    /\ UNCHANGED <<shape, limit, at, count>>

Next ==
    \/ CountStep \/ CountDone
    \/ Descend \/ Ascend \/ Exhausted \/ Yield \/ YieldStops
    \/ Again

Spec == Init /\ [][Next]_vars

-----------------------------------------------------------------------------
(* What the candidates are, without the product and without the walk.      *)

\* The number of orders in which workers with r[w] points left can take them: the
\* first step is one of theirs.
Orders[r \in [Workers -> 0..PointCount]] ==
    IF \A w \in Workers : r[w] = 0 THEN 1
    ELSE FoldFunction(+, 0, [w \in {v \in Workers : r[v] > 0} |->
                                 Orders[[r EXCEPT ![w] = @ - 1]]])

\* How many points each worker has when the count stands at at, the first one all.
Added(w) == IF w < at[1] THEN PointCount ELSE IF w = at[1] THEN at[2] - 1 ELSE 0
Inserted == [w \in Workers |-> IF w = 1 THEN PointCount ELSE Added(w - 1)]
Total == Orders[[w \in Workers |-> PointCount]]

\* A schedule has every point of every worker, those of one worker in their order.
IsSchedule(s) ==
    /\ Len(s) = ExpectedSteps
    /\ \A w \in Workers :
         SelectSeq(s, LAMBDA step : step[1] = w) = [p \in 1..PointCount |-> <<w, p>>]

\* s comes before t in the order of the worker indexes.
Before(s, t) ==
    \E i \in 1..Len(s) :
        /\ s[i][1] < t[i][1]
        /\ \A j \in 1..(i - 1) : s[j] = t[j]

-----------------------------------------------------------------------------
(* The partial product is the number of orders of the points added so far, *)
(* so every division is exact; a space is refused if and only if it has    *)
(* more candidates than the limit, although the count stopped before its   *)
(* end; what is handed out are schedules of the scenario, in the order of  *)
(* the worker indexes and each once; and a pass that was not stopped hands *)
(* out as many as were counted, also when an earlier pass was stopped.     *)
(* Exploration calls a space exhausted on these grounds.                   *)
SpaceIsExact ==
    /\ pc # "refused" => count = Orders[Inserted]
    /\ pc = "refused" => Total > limit
    /\ pc \in {"walk", "stopped", "done"} => count = Total /\ count <= limit
    /\ yielded # <<>> => IsSchedule(Last(yielded))
    /\ Len(yielded) > 1 => Before(yielded[Len(yielded) - 1], Last(yielded))
    /\ pc = "done" => Len(yielded) = count
=============================================================================
