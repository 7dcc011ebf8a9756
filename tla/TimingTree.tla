----------------------------- MODULE TimingTree -----------------------------
(***************************************************************************)
(* The timing spans of one measured command: internal/timing records them  *)
(* while the goroutines of the command open and close nested intervals,    *)
(* and two reducers read the retained list: decomposition of the local     *)
(* pilot (local-pilot/pilot.py) and stages of the control comparison       *)
(* (runner/analyze.py).                                                    *)
(*                                                                         *)
(* Main runs the command; at any time it may start Aside, which inherits   *)
(* the scope of its context, and joins it before it closes that scope.     *)
(* Time is discrete: the recorder's clock starts with the process.         *)
(***************************************************************************)
EXTENDS Integers, Sequences, SequencesExt, FiniteSets, FiniteSetsExt

CONSTANTS
  Stages,     \* names of the spans the pilot reports as stages
  Details,    \* names of the spans it counts for the stage around them
  Containers, \* names of the spans that only hold others
  MaxSpans, MaxTime,
  Nil

TimingAssumption ==
  /\ MaxSpans \in Nat \ {0} /\ MaxTime \in Nat
  /\ Stages \cap Containers = {} /\ Details \cap (Stages \cup Containers) = {}
  /\ "command" \notin Stages \cup Details \cup Containers

VARIABLES
  now,
  spans,      \* Recorder.spans: [parent, name, start, duration], by ID
  main, aside, \* the open spans of each goroutine, innermost last
  base,       \* the scope Aside inherited, or Nil when it is not running
  wall,       \* the duration of the whole process, Nil while it runs
  history     \* instant -> IDs of the spans that were open in it

vars == <<now, spans, main, aside, base, wall, history>>

Names == Stages \cup Details \cup Containers
Times == 0 .. MaxTime
Ids == DOMAIN spans

TypeOK ==
  /\ now \in Times
  /\ spans \in Seq([parent : 0 .. MaxSpans, name : Names \cup {"command"},
                    start : Times, duration : Times])
  /\ Len(spans) <= MaxSpans
  /\ \A i \in Ids : spans[i].parent < i /\ spans[i].start + spans[i].duration <= now
  /\ ToSet(main) \cap ToSet(aside) = {} /\ ToSet(main) \cup ToSet(aside) \subseteq Ids
  /\ base \in Ids \cup {Nil} /\ (base = Nil => aside = <<>>)
  /\ wall \in Times \cup {Nil}
  /\ history \in Seq(SUBSET Ids) /\ Len(history) = now

Init ==
  /\ now = 0 /\ spans = <<>> /\ main = <<>> /\ aside = <<>> /\ base = Nil
  /\ wall = Nil /\ history = <<>>

-----------------------------------------------------------------------------
(* The recorder.                                                            *)

Opened(parent, name) ==
  Append(spans, [parent |-> parent, name |-> name, start |-> now, duration |-> 0])

Closed(i) == [spans EXCEPT ![i].duration = now - spans[i].start]

Scope(stack, outer) == IF stack = <<>> THEN outer ELSE Last(stack)

\* The command opens its root span once.
Begin ==
  /\ spans = <<>> /\ wall = Nil
  /\ spans' = Opened(0, "command") /\ main' = <<1>>
  /\ UNCHANGED <<now, aside, base, wall, history>>

MainOpens(name) ==
  /\ main # <<>> /\ Len(spans) < MaxSpans
  /\ spans' = Opened(Last(main), name)
  /\ main' = Append(main, Len(spans) + 1)
  /\ UNCHANGED <<now, aside, base, wall, history>>

AsideOpens(name) ==
  /\ base # Nil /\ Len(spans) < MaxSpans
  /\ spans' = Opened(Scope(aside, base), name)
  /\ aside' = Append(aside, Len(spans) + 1)
  /\ UNCHANGED <<now, main, base, wall, history>>

\* A span is closed by the goroutine that opened it, once.
MainCloses ==
  /\ main # <<>> /\ Last(main) # base
  /\ spans' = Closed(Last(main))
  /\ main' = Front(main)
  /\ UNCHANGED <<now, aside, base, wall, history>>

AsideCloses ==
  /\ aside # <<>>
  /\ spans' = Closed(Last(aside))
  /\ aside' = Front(aside)
  /\ UNCHANGED <<now, main, base, wall, history>>

Starts ==
  /\ main # <<>> /\ base = Nil
  /\ base' = Last(main)
  /\ UNCHANGED <<now, spans, main, aside, wall, history>>

Joins ==
  /\ base # Nil /\ aside = <<>>
  /\ base' = Nil
  /\ UNCHANGED <<now, spans, main, aside, wall, history>>

Tick ==
  /\ wall = Nil /\ now < MaxTime
  /\ now' = now + 1
  /\ history' = Append(history, ToSet(main) \cup ToSet(aside))
  /\ UNCHANGED <<spans, main, aside, base, wall>>

\* The snapshot is taken when all measured work has joined; the process ends.
Exit ==
  /\ wall = Nil /\ spans # <<>> /\ main = <<>>
  /\ wall' = now
  /\ UNCHANGED <<now, spans, main, aside, base, history>>

Next ==
  \/ Begin \/ MainCloses \/ AsideCloses \/ Starts \/ Joins \/ Tick \/ Exit
  \/ \E name \in Names : MainOpens(name) \/ AsideOpens(name)

Spec == Init /\ [][Next]_vars

-----------------------------------------------------------------------------
(* decomposition: a partition of the wall time.                             *)

End(i) == spans[i].start + spans[i].duration
Inside(i, p) == spans[p].start <= spans[i].start /\ End(i) <= End(p)

ValidTree ==
  /\ {i \in Ids : spans[i].parent = 0} = {1} /\ spans[1].name = "command"
  /\ spans[1].duration <= wall
  /\ \A i \in Ids \ {1} : Inside(i, spans[i].parent)

Depth ==
  LET depth[i \in Ids] == IF spans[i].parent = 0 THEN 1 ELSE 1 + depth[spans[i].parent]
  IN depth

\* The innermost stage a span belongs to.
Category ==
  LET category[i \in Ids] ==
        IF spans[i].name \in Stages THEN spans[i].name
        ELSE IF spans[i].parent = 0 THEN "bookkeeping" ELSE category[spans[i].parent]
  IN category

Edges == {spans[i].start : i \in Ids} \cup {End(i) : i \in Ids}

\* The pieces between consecutive edges, each of the deepest spans over it.
Pieces ==
  {<<a, b>> \in Edges \X Edges : a < b /\ \A e \in Edges : e <= a \/ b <= e}
\* Fault: a span is over every piece it begins before.
Over_Begun(piece) == {i \in Ids : spans[i].start <= piece[1] /\ piece[1] <= End(i)}

Over(piece) == {i \in Ids : spans[i].start <= piece[1] /\ piece[2] <= End(i)}
Deepest(ids) == {i \in ids : \A j \in ids : Depth[j] <= Depth[i]}
Attributed(piece) == {Category[i] : i \in Deepest(Over(piece))}

\* The wall time of a set of categories: two are an overlap of parallel spans.
Exclusive(categories) ==
  MapThenSumSet(LAMBDA piece : piece[2] - piece[1],
                {piece \in Pieces : Over(piece) # {} /\ Attributed(piece) = categories})
OutsideTiming == wall - spans[1].duration

CategorySets == {c \in SUBSET (Stages \cup {"bookkeeping"}) : c # {}}
Reconciles ==
  OutsideTiming + MapThenSumSet(LAMBDA c : Exclusive(c), CategorySets) = wall

-----------------------------------------------------------------------------
(* stages: the union of the intervals of actual work.                       *)

Work == Stages \cup Details

ValidSpans ==
  /\ {i \in Ids : spans[i].name = "command"} = {1}
  /\ spans[1].parent = 0 /\ spans[1].duration <= wall
  /\ \A i \in Ids : /\ spans[i].parent < i /\ (i > 1 => spans[i].parent > 0)
                    /\ Inside(i, 1)
                    /\ i > 1 => Inside(i, spans[i].parent)

\* The intervals in sorted order, as the code visits them.
WorkSpans ==
  SetToSortSeq({i \in Ids : spans[i].name \in Work},
    LAMBDA i, j : \/ spans[i].start < spans[j].start
                  \/ spans[i].start = spans[j].start /\ End(i) < End(j)
                  \/ spans[i].start = spans[j].start /\ End(i) = End(j) /\ i < j)

\* The part of each interval that reaches beyond all earlier ones.
Covered ==
  LET add(i, acc) ==
        LET from == IF acc.previous > spans[i].start THEN acc.previous ELSE spans[i].start
        IN [union |-> acc.union + (IF End(i) > from THEN End(i) - from ELSE 0),
            previous |-> IF End(i) > acc.previous THEN End(i) ELSE acc.previous]
  IN FoldRight(add, Reverse(WorkSpans), [union |-> 0, previous |-> spans[1].start]).union

-----------------------------------------------------------------------------
\* What the command records is accepted by both reducers, however its two
\* goroutines interleave: spans nest, and the wall time is accounted for.
RecordedIsAccepted == wall # Nil => ValidTree /\ Reconciles /\ ValidSpans

\* The instants in which the open spans are attributed to these categories.
Instants(categories) ==
  Cardinality({t \in 1 .. Len(history) :
    history[t] # {} /\ {Category[i] : i \in Deepest(history[t])} = categories})

\* The exclusive time of every category, and of every overlap of parallel
\* stages, is the number of instants in which they were the innermost work.
ExclusiveIsExact == wall # Nil => \A c \in CategorySets : Exclusive(c) = Instants(c)

\* The coverage counts every instant in which some work ran, and none twice.
UnionIsCoverage ==
  wall # Nil =>
    Covered = Cardinality({t \in 1 .. Len(history) :
                             \E i \in history[t] : spans[i].name \in Work})

\* What was recorded is accepted, and every reduction of it is the time that passed.
TimesAddUp == RecordedIsAccepted /\ ExclusiveIsExact /\ UnionIsCoverage
=============================================================================
