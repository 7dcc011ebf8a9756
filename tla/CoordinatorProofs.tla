------------------------- MODULE CoordinatorProofs -------------------------
(* Theorems about one execution of a saved schedule, for every list of       *)
(* workers and points, every schedule and every set of deviant workers: it   *)
(* uses the runtime as the runtime is specified, and it accounts for every   *)
(* step.                                                                     *)
EXTENDS Coordinator, SequenceTheorems, FiniteSetTheorems, TLAPS

-----------------------------------------------------------------------------
(* The schedule.                                                             *)

(* The place of a point in the declared order.                               *)
Position(p) == CHOOSE m \in DOMAIN PointList : PointList[m] = p

(* The lists of the scenario, by index.                                      *)
LEMMA ListFacts ==
  /\ Len(WorkerList) \in Nat \ {0} /\ DOMAIN WorkerList = 1 .. Len(WorkerList)
  /\ Len(PointList) \in Nat \ {0} /\ DOMAIN PointList = 1 .. Len(PointList)
  /\ \A k \in 1 .. Len(WorkerList) : WorkerList[k] \in Worker
  /\ \A w \in Worker : \E k \in 1 .. Len(WorkerList) : WorkerList[k] = w
  /\ \A m \in 1 .. Len(PointList) : PointList[m] \in Point
<1>1. Len(WorkerList) \in Nat /\ DOMAIN WorkerList = 1 .. Len(WorkerList)
  BY ListAssumption
<1>2. Len(PointList) \in Nat /\ DOMAIN PointList = 1 .. Len(PointList)
  BY ListAssumption
<1>3. QED
  BY <1>1, <1>2, ListAssumption DEF Worker, Point, Elems

(* Points are distinct, so each one has its place.                           *)
LEMMA PositionOf ==
  /\ \A p \in Point : Position(p) \in 1 .. Len(PointList) /\ PointList[Position(p)] = p
  /\ \A m \in 1 .. Len(PointList) : Position(PointList[m]) = m
<1>1. \A p \in Point : \E m \in DOMAIN PointList : PointList[m] = p
  BY DEF Point, Elems
<1>2. \A p \in Point : Position(p) \in DOMAIN PointList /\ PointList[Position(p)] = p
  BY <1>1 DEF Position
<1>3. QED
  BY <1>2, ListFacts, ListAssumption, SMTT(30) DEF Distinct

(* An interval from one names its end.                                       *)
LEMMA SameInterval ==
  ASSUME NEW a \in Nat, NEW b \in Nat, 1 .. a = 1 .. b
  PROVE  a = b
<1>1. \A x, y \in Nat : 1 .. x = 1 .. y => x <= y
  <2> SUFFICES ASSUME NEW x \in Nat, NEW y \in Nat, 1 .. x = 1 .. y, x # 0
               PROVE  x <= y
    OBVIOUS
  <2>1. x \in 1 .. x
    OBVIOUS
  <2>2. x \in 1 .. y
    BY <2>1
  <2>3. QED
    BY <2>2
<1>2. a <= b /\ b <= a
  BY <1>1
<1>3. QED
  BY <1>2

(* A saved schedule has one step for every worker and point, and the steps   *)
(* of a worker are in the declared order of their points.                    *)
LEMMA ScheduleFacts ==
  ASSUME schedule \in Schedules
  PROVE  /\ Len(schedule) \in Nat \ {0} /\ DOMAIN schedule = Steps
         /\ \A i \in Steps : i \in Nat /\ 1 <= i /\ i <= Len(schedule)
         /\ \A i \in Steps : StepWorker(i) \in Worker /\ StepPoint(i) \in Point
         /\ \A w \in Worker, p \in Point :
              \E i \in Steps : StepWorker(i) = w /\ StepPoint(i) = p
         /\ \A i, j \in Steps : i < j /\ StepWorker(i) = StepWorker(j) =>
              Position(StepPoint(i)) < Position(StepPoint(j))
<1> DEFINE n == Len(WorkerList) * Len(PointList)
<1>1. n \in Nat
  BY ListFacts
<1>2. schedule \in [1 .. n -> [worker : Worker, point : Point]] /\ ValidSchedule(schedule)
  BY DEF Schedules
<1> HIDE DEF n
<1>3. Len(schedule) = n /\ DOMAIN schedule = 1 .. n
  <2>1. schedule \in Seq([worker : Worker, point : Point])
    BY <1>1, <1>2, SeqDef, ZenonT(60)
  <2>2. Len(schedule) \in Nat
    BY <2>1, LenProperties
  <2>3. DOMAIN schedule = 1 .. Len(schedule)
    BY <2>1, LenProperties
  <2>4. DOMAIN schedule = 1 .. n
    BY <1>2
  <2>5. 1 .. Len(schedule) = 1 .. n
    BY <2>3, <2>4
  <2>6. QED
    BY <1>1, <2>2, <2>4, <2>5, SameInterval
<1>4. DOMAIN schedule = Steps /\ Steps = 1 .. n
  BY <1>3 DEF Steps
<1>5. \A i \in Steps : StepWorker(i) \in Worker /\ StepPoint(i) \in Point
  BY <1>2, <1>4 DEF StepWorker, StepPoint
<1>6. \A w \in Worker, p \in Point :
        \E i \in Steps : StepWorker(i) = w /\ StepPoint(i) = p
  <2> SUFFICES ASSUME NEW w \in Worker, NEW p \in Point
               PROVE  \E i \in Steps : StepWorker(i) = w /\ StepPoint(i) = p
    OBVIOUS
  <2>1. PICK i \in Steps : schedule[i] = [worker |-> w, point |-> p]
    BY <1>2, <1>4 DEF ValidSchedule
  <2>2. QED
    BY <2>1 DEF StepWorker, StepPoint
<1>7. Steps # {}
  BY <1>6, ListFacts
<1>8. \A i, j \in Steps : i < j /\ StepWorker(i) = StepWorker(j) =>
              Position(StepPoint(i)) < Position(StepPoint(j))
  <2> SUFFICES ASSUME NEW i \in Steps, NEW j \in Steps, i < j, StepWorker(i) = StepWorker(j)
               PROVE  Position(StepPoint(i)) < Position(StepPoint(j))
    OBVIOUS
  <2>1. PICK a \in DOMAIN PointList, b \in DOMAIN PointList :
           a < b /\ PointList[a] = StepPoint(i) /\ PointList[b] = StepPoint(j)
    BY <1>2, <1>4 DEF ValidSchedule, StepWorker, StepPoint
  <2>2. Position(StepPoint(i)) = a /\ Position(StepPoint(j)) = b
    BY <2>1, PositionOf, ListFacts
  <2>3. QED
    BY <2>1, <2>2
<1>9. Len(schedule) \in Nat \ {0}
  BY <1>1, <1>3, <1>4, <1>7
<1>10. \A i \in Steps : i \in Nat /\ 1 <= i /\ i <= Len(schedule)
  BY <1>9 DEF Steps
<1>11. QED
  BY <1>4, <1>3, <1>5, <1>6, <1>8, <1>9, <1>10

(* The indexes of a pass, and where it stands after its last step.           *)
LEMMA StepRange ==
  ASSUME schedule \in Schedules
  PROVE  /\ Len(schedule) \in Nat
         /\ 1 \in Steps /\ 1 \in 1 .. Len(schedule) + 1
         /\ \A i \in Steps : i \in 1 .. Len(schedule) + 1 /\ i + 1 \in 1 .. Len(schedule) + 1
         /\ \A j \in Steps : \A i \in 1 .. j - 1 : i \in Steps /\ i < j
<1>1. Len(schedule) \in Nat \ {0}
  BY ScheduleFacts
<1> DEFINE n == Len(schedule)
<1>2. n \in Nat /\ n >= 1 /\ Steps = 1 .. n
  BY <1>1 DEF Steps
<1> HIDE DEF n
<1>3. 1 \in Steps /\ 1 \in 1 .. n + 1
  BY <1>2
<1>4. \A i \in Steps : i \in 1 .. n + 1 /\ i + 1 \in 1 .. n + 1
  BY <1>2
<1>5. \A j \in Steps : \A i \in 1 .. j - 1 : i \in Steps /\ i < j
  BY <1>2
<1>6. QED
  BY <1>2, <1>3, <1>4, <1>5 DEF n

(* No pair of a worker and a point has two steps.                            *)
LEMMA OneStepEach ==
  ASSUME schedule \in Schedules, NEW i \in Steps, NEW j \in Steps,
         StepWorker(i) = StepWorker(j), StepPoint(i) = StepPoint(j)
  PROVE  i = j
<1>1. i \in Int /\ j \in Int
  BY DEF Steps
<1>2. Position(StepPoint(i)) \in Int
  BY ScheduleFacts, PositionOf, ListFacts
<1>3. ~ i < j /\ ~ j < i
  BY <1>2, ScheduleFacts
<1>4. QED
  BY <1>1, <1>3

(* The first step of a worker is the one of the first declared point.        *)
LEMMA FirstStepIs ==
  ASSUME schedule \in Schedules, NEW w \in Worker
  PROVE  /\ FirstStep(w) \in Steps /\ StepWorker(FirstStep(w)) = w
         /\ \A j \in 1 .. FirstStep(w) - 1 : StepWorker(j) # w
<1>1. PICK i \in Steps : StepWorker(i) = w /\ StepPoint(i) = PointList[1]
  BY ScheduleFacts, ListFacts
<1>2. Position(StepPoint(i)) = 1
  BY <1>1, PositionOf, ListFacts
<1>3. \A j \in 1 .. i - 1 : StepWorker(j) # w
  <2> SUFFICES ASSUME NEW j \in 1 .. i - 1, StepWorker(j) = w PROVE FALSE
    OBVIOUS
  <2>1. j \in Steps /\ j < i
    BY ScheduleFacts DEF Steps
  <2>2. Position(StepPoint(j)) < 1 /\ Position(StepPoint(j)) \in 1 .. Len(PointList)
    BY <1>1, <1>2, <2>1, ScheduleFacts, PositionOf
  <2>3. QED
    BY <2>2, ListFacts
<1>4. \E k \in Steps : /\ StepWorker(k) = w
                      /\ \A j \in 1 .. k - 1 : StepWorker(j) # w
  BY <1>1, <1>3
<1>5. QED
  BY <1>4 DEF FirstStep

(* The trace has an entry for every step.                                    *)
LEMMA StepCount ==
  ASSUME schedule \in Schedules
  PROVE  Steps = 1 .. Len(WorkerList) * Len(PointList)
<1> DEFINE n == Len(WorkerList) * Len(PointList)
<1>1. DOMAIN schedule = 1 .. n
  BY DEF Schedules
<1>2. QED
  BY <1>1, ScheduleFacts

-----------------------------------------------------------------------------
(* Types.  The coordinator is at a step whenever it waits for one or         *)
(* releases one, and a parked worker has a point to pass.                    *)
CoType ==
  /\ schedule \in Schedules
  /\ pc \in {"register", "invoke", "step", "enter", "waiting", "observed", "settle",
             "release", "releasing", "final", "closing",
             "complete", "failed"}
  /\ mode \in {"boot", "traverse", "drain", "final"}
  /\ turn \in 1 .. Len(WorkerList)
  /\ cur \in 1 .. Len(schedule) + 1 /\ (mode \in {"boot", "traverse"} => cur \in Steps)
  /\ preObserved \subseteq Steps /\ pending \subseteq Steps /\ progressed \in BOOLEAN
  /\ exec \in [Worker -> [collected : BOOLEAN, terminal : BOOLEAN]]
  /\ failure \in {"none", "ctx", "protocol", "collector", "no progress", "observer",
                  "invoke"}
  /\ ctxDone \in BOOLEAN
  /\ fate \in [Steps -> {"open", "released", "skipped"}]
  /\ app \in [Worker -> {"off", "code", "parked", "failing", "ended"}]
  /\ visits \in [Worker -> 0 .. Len(PointList)]
  /\ outcome \in [Worker -> {"none", "ok", "err", "unstarted", "lost"}]
  /\ coll \in [Worker -> {"none", "reading", "probing", "faulty", "ready", "spoiled"}]

Waiting == pc \in {"enter", "waiting", "observed", "settle"}
Releasing == pc \in {"release", "releasing"}

CoInv ==
  /\ CoType
  /\ Waiting \/ Releasing => cur \in Steps
  /\ \A w \in Worker : app[w] = "parked" => visits[w] < Len(PointList)

(* It holds when an execution starts.                                        *)
LEMMA CoInvInit == Init => CoInv
<1> SUFFICES ASSUME Init PROVE CoInv
  OBVIOUS
<1>1. schedule \in Schedules
  BY DEF Init
<1>2. fate \in [Steps -> {"open", "released", "skipped"}]
  BY <1>1, StepCount DEF Init
<1>3. 1 \in Steps /\ 1 \in 1 .. Len(schedule) + 1 /\ 1 \in 1 .. Len(WorkerList)
  BY <1>1, ScheduleFacts, ListFacts DEF Steps
<1>4. visits \in [Worker -> 0 .. Len(PointList)]
  BY ListFacts DEF Init
<1>5. QED
  BY <1>1, <1>2, <1>3, <1>4 DEF Init, CoInv, CoType, Waiting, Releasing

(* The next iteration stays within the lists.                                *)
LEMMA NextStepType ==
  ASSUME CoInv, UNCHANGED schedule, NEW emits \in BOOLEAN, NextStep(emits),
         cur \in Steps
  PROVE  /\ pc' \in {"invoke", "step", "failed"} /\ mode' \in {"boot", "traverse", "drain"}
         /\ turn' \in 1 .. Len(WorkerList)
         /\ cur' \in 1 .. Len(schedule) + 1
         /\ mode' \in {"boot", "traverse"} => cur' \in Steps
         /\ failure' \in {failure, "observer"}
<1>1. \A to : Pass(emits, to) => pc' \in {to, "failed"} /\ failure' \in {failure, "observer"}
  BY DEF Pass, Emit, Go, Fail
<1>2. /\ Len(schedule) \in Nat \ {0} /\ cur \in 1 .. Len(schedule) /\ schedule' = schedule
      /\ Len(WorkerList) \in Nat \ {0} /\ turn \in 1 .. Len(WorkerList)
  BY ScheduleFacts, ListFacts DEF CoInv, CoType, Steps
<1>3. QED
  BY <1>1, <1>2 DEF NextStep, LastTurn, Steps

(* Collecting a result moves on or ends execute.                             *)
LEMMA CollectType ==
  ASSUME CoInv, NEW w \in Worker, NEW to, Collect(w, to) \/ Accept(w, to)
  PROVE  /\ exec' \in [Worker -> [collected : BOOLEAN, terminal : BOOLEAN]]
         /\ pc' \in {to, "failed"}
         /\ failure' \in {failure, "observer", "collector", "ctx"}
<1>1. exec' \in [Worker -> [collected : BOOLEAN, terminal : BOOLEAN]]
  <2> DEFINE e == [collected |-> TRUE, terminal |-> outcome[w] \in {"ok", "err"}]
  <2>1. e \in [collected : BOOLEAN, terminal : BOOLEAN]
    OBVIOUS
  <2>2. exec' = exec \/ exec' = [exec EXCEPT ![w] = e]
    BY DEF Collect, Accept
  <2> HIDE DEF e
  <2>3. QED
    BY <2>1, <2>2 DEF CoInv, CoType
<1>2. QED
  BY <1>1 DEF Collect, Accept, Emit, Go, Fail

(* The coordinator's choice of a step, and what it does with a wait.         *)
LEMMA BeginWaitType ==
  ASSUME CoInv, UNCHANGED schedule, NEW i \in Steps, BeginWait(i)
  PROVE  /\ pc' \in {"enter", "failed"} /\ failure' \in {failure, "ctx"}
         /\ cur' \in Steps /\ cur' \in 1 .. Len(schedule) + 1
         /\ UNCHANGED <<mode, turn, preObserved, pending, progressed, fate>>
<1>1. i \in 1 .. Len(schedule) + 1
  BY StepRange DEF CoInv, CoType
<1>2. QED
  BY <1>1 DEF BeginWait, Go, Fail

(* The choice of the next step keeps the types.                              *)
LEMMA ChooseType == CoInv /\ ChooseStep => CoInv'
<1> SUFFICES ASSUME CoInv, ChooseStep PROVE CoInv'
  OBVIOUS
<1>1. UNCHANGED <<schedule, exec, ctxDone, app, visits, outcome, coll>> /\ pc = "step"
  BY DEF ChooseStep, appVars
<1>2. schedule' = schedule /\ Steps' = Steps
  BY <1>1 DEF Steps
<1>3. ASSUME NEW i \in Steps, BeginWait(i) PROVE CoInv'
  BY <1>1, <1>2, <1>3, BeginWaitType DEF CoInv, CoType, Waiting, Releasing
<1>4. CASE BootstrapStep
  BY <1>3, <1>4 DEF BootstrapStep, CoInv, CoType
<1>5. CASE TraverseStep
  <2>1. cur \in Steps
    BY <1>5 DEF TraverseStep, CoInv, CoType
  <2>2. ASSUME NEW e \in BOOLEAN, NextStep(e), preObserved' = preObserved,
               progressed' = progressed,
               pending' \in {pending, pending \cup {cur}},
               fate' \in {fate, [fate EXCEPT ![cur] = "skipped"]}
        PROVE  CoInv'
    <3>1. pending' \subseteq Steps /\ fate' \in [Steps -> {"open", "released", "skipped"}]
      BY <2>1, <2>2 DEF CoInv, CoType
    <3>2. QED
      BY <1>1, <1>2, <2>1, <2>2, <3>1, NextStepType, ZenonT(60) DEF CoInv, CoType, Waiting, Releasing
  <2>3. CASE /\ preObserved' = preObserved \ {cur} /\ Go("release")
             /\ UNCHANGED <<mode, turn, cur, pending, progressed, fate>>
    BY <1>1, <1>2, <2>1, <2>3 DEF Go, CoInv, CoType, Waiting, Releasing
  <2>4. QED
    BY <1>3, <1>5, <2>1, <2>2, <2>3 DEF TraverseStep
<1>6. CASE DrainStep
  <2>1. ASSUME NEW i \in pending, fate' = [fate EXCEPT ![i] = "skipped"],
               pending' = pending \ {i}, progressed' = TRUE, cur' = i + 1, Emit("step"),
               UNCHANGED <<mode, turn, preObserved>>, mode = "drain"
        PROVE  CoInv'
    <3>0. i \in Steps /\ i + 1 \in 1 .. Len(schedule) + 1
      BY StepRange DEF CoInv, CoType
    <3>1. /\ pending' \subseteq Steps /\ fate' \in [Steps -> {"open", "released", "skipped"}]
          /\ cur' \in 1 .. Len(schedule) + 1
      BY <2>1, <3>0 DEF CoInv, CoType
    <3>2. pc' \in {"step", "failed"} /\ failure' \in {failure, "observer"}
      BY <2>1 DEF Emit, Go, Fail
    <3>3. QED
      BY <1>1, <1>2, <2>1, <3>1, <3>2 DEF CoInv, CoType, Waiting, Releasing
  <2>2. CASE /\ mode' = "final" /\ turn' = 1 /\ Go("final")
             /\ UNCHANGED <<cur, preObserved, pending, progressed, fate>>
    <3>1. turn' \in 1 .. Len(WorkerList)
      BY <2>2, ListFacts
    <3>2. QED
      BY <1>1, <1>2, <2>2, <3>1 DEF Go, CoInv, CoType, Waiting, Releasing
  <2>3. CASE /\ cur' = 1 /\ progressed' = FALSE /\ Go("step")
             /\ UNCHANGED <<mode, turn, preObserved, pending, fate>>
    <3>1. cur' \in 1 .. Len(schedule) + 1 /\ cur' \in Steps
      BY <2>3, StepRange DEF CoInv, CoType
    <3>2. QED
      BY <1>1, <1>2, <2>3, <3>1 DEF Go, CoInv, CoType, Waiting, Releasing
  <2>4. CASE /\ Fail("no progress")
             /\ UNCHANGED <<mode, turn, cur, preObserved, pending, progressed, fate>>
    BY <1>1, <1>2, <2>4 DEF Fail, CoInv, CoType, Waiting, Releasing
  <2>5. ASSUME NEW i \in pending, BeginWait(i) PROVE CoInv'
    BY <1>3, <2>5 DEF CoInv, CoType
  <2>6. QED
    BY <1>6, <2>1, <2>2, <2>3, <2>4, <2>5 DEF DrainStep
<1>7. QED
  BY <1>4, <1>5, <1>6 DEF ChooseStep

(* So do the cases of an observation.                                        *)
LEMMA ObserveType ==
  ASSUME CoInv, ObserveArrived \/ ObserveError \/ ObserveTimeout \/ ObserveEnd \/ Settle
  PROVE  CoInv'
<1>1. UNCHANGED <<schedule, ctxDone, app, visits, outcome, coll>>
  BY DEF ObserveArrived, ObserveError, ObserveTimeout, ObserveEnd, Settle, appVars
<1>2. schedule' = schedule /\ Steps' = Steps
  BY <1>1 DEF Steps
<1>3. cur \in Steps /\ StepWorker(cur) \in Worker
  <2>1. pc \in {"observed", "settle"}
    BY DEF ObserveArrived, ObserveError, ObserveTimeout, ObserveEnd, Settle
  <2>2. QED
    BY <2>1, ScheduleFacts DEF CoInv, CoType, Waiting
<1>4. ASSUME NEW e \in BOOLEAN, NextStep(e), exec' = exec,
             progressed' \in BOOLEAN, preObserved' \subseteq Steps, pending' \subseteq Steps,
             fate' \in [Steps -> {"open", "released", "skipped"}]
      PROVE  CoInv'
  BY <1>1, <1>2, <1>3, <1>4, NextStepType, ZenonT(60) DEF CoInv, CoType, Waiting, Releasing
<1>5. ASSUME pc' \in {"settle", "release", "failed"},
             failure' \in {failure, "observer", "collector", "ctx", "protocol"},
             exec' \in [Worker -> [collected : BOOLEAN, terminal : BOOLEAN]],
             pending' \subseteq Steps,
             UNCHANGED <<mode, turn, cur, preObserved, progressed, fate>>
      PROVE  CoInv'
  BY <1>1, <1>2, <1>3, <1>5, ZenonT(60) DEF CoInv, CoType, Waiting, Releasing
<1>6. CASE ObserveArrived
  <2>1. CASE mode = "boot"
    BY <1>3, <1>4, <1>6, <2>1 DEF ObserveArrived, CoInv, CoType
  <2>2. CASE mode # "boot"
    BY <1>5, <1>6, <2>2 DEF ObserveArrived, Emit, Go, Fail, CoInv, CoType
  <2>3. QED
    BY <2>1, <2>2
<1>7. CASE ObserveError
  BY <1>5, <1>7 DEF ObserveError, Fail, CoInv, CoType
<1>8. CASE ObserveTimeout
  <2>1. /\ exec' \in [Worker -> [collected : BOOLEAN, terminal : BOOLEAN]]
        /\ pc' \in {"settle", "failed"} /\ failure' \in {failure, "observer", "collector", "ctx"}
    BY <1>3, <1>8, CollectType DEF ObserveTimeout, Go, CoInv, CoType
  <2>2. QED
    BY <1>5, <1>8, <2>1 DEF ObserveTimeout, CoInv, CoType
<1>9. CASE ObserveEnd
  <2>1. /\ exec' \in [Worker -> [collected : BOOLEAN, terminal : BOOLEAN]]
        /\ pc' \in {"settle", "failed"} /\ failure' \in {failure, "observer", "collector", "ctx"}
    BY <1>3, <1>9, CollectType DEF ObserveEnd
  <2>2. QED
    BY <1>5, <1>9, <2>1 DEF ObserveEnd, CoInv, CoType
<1>10. CASE Settle
  <2>1. /\ progressed' \in BOOLEAN /\ pending' \subseteq Steps
        /\ fate' \in [Steps -> {"open", "released", "skipped"}]
        /\ preObserved' = preObserved /\ exec' = exec
    BY <1>3, <1>10 DEF Settle, CoInv, CoType
  <2>2. NextStep(~(mode = "boot" /\ Ended(StepWorker(cur))))
    BY <1>10 DEF Settle
  <2>3. QED
    BY <1>4, <2>1, <2>2 DEF CoInv, CoType
<1>11. QED
  BY <1>6, <1>7, <1>8, <1>9, <1>10

(* What the collectors, the applications and the context do is not the       *)
(* coordinator's.                                                            *)
LEMMA OthersType ==
  ASSUME CoInv, Cancel \/ \E w \in Worker : CollectorStep(w) \/ AppStep(w)
  PROVE  CoInv' /\ UNCHANGED coVars
<1>1. CASE Cancel
  BY <1>1, ZenonT(60) DEF Cancel, coVars, appVars, CoInv, CoType, Waiting, Releasing, Steps
<1>2. ASSUME NEW w \in Worker, CollectorStep(w) PROVE CoInv' /\ UNCHANGED coVars
  <2>1. UNCHANGED <<coVars, app, visits, outcome>>
    BY <1>2 DEF CollectorStep, CollectResult, CollectFault, CollectClosed, CollectorCancels,
         appVars
  <2>2. /\ ctxDone' \in BOOLEAN
        /\ coll' \in [Worker -> {"none", "reading", "probing", "faulty", "ready", "spoiled"}]
    BY <1>2 DEF CollectorStep, CollectResult, CollectFault, CollectClosed, CollectorCancels,
         CoInv, CoType
  <2>3. QED
    BY <2>1, <2>2, ZenonT(60) DEF coVars, CoInv, CoType, Waiting, Releasing, Steps
<1>3. ASSUME NEW w \in Worker, AppStep(w) PROVE CoInv' /\ UNCHANGED coVars
  <2>1. UNCHANGED <<coVars, ctxDone, coll>>
    BY <1>3 DEF AppStep, AppArrives, AppCanceled, AppPasses, AppRefused, AppEnds
  <2>2. /\ app' \in [Worker -> {"off", "code", "parked", "failing", "ended"}]
        /\ outcome' \in [Worker -> {"none", "ok", "err", "unstarted", "lost"}]
    <3>1. CASE AppArrives(w)
      BY <3>1 DEF AppArrives, CoInv, CoType
    <3>2. CASE AppCanceled(w)
      BY <3>2 DEF AppCanceled, appVars, CoInv, CoType
    <3>3. CASE AppPasses(w)
      BY <3>3 DEF AppPasses, CoInv, CoType
    <3>4. CASE AppRefused(w)
      BY <3>4 DEF AppRefused, CoInv, CoType
    <3>5. CASE AppEnds(w)
      <4>1. PICK o \in {"ok", "err", "unstarted", "lost"} :
               outcome' = [outcome EXCEPT ![w] = o]
        BY <3>5 DEF AppEnds
      <4>2. outcome \in [Worker -> {"none", "ok", "err", "unstarted", "lost"}]
            /\ app \in [Worker -> {"off", "code", "parked", "failing", "ended"}]
        BY DEF CoInv, CoType
      <4>3. app' = [app EXCEPT ![w] = "ended"]
        BY <3>5 DEF AppEnds
      <4>4. QED
        BY <4>1, <4>2, <4>3
    <3>6. QED
      BY <1>3, <3>1, <3>2, <3>3, <3>4, <3>5 DEF AppStep
  <2>3. /\ visits' \in [Worker -> 0 .. Len(PointList)]
        /\ \A x \in Worker : app'[x] = "parked" => visits'[x] < Len(PointList)
    <3>1. CASE AppPasses(w)
      <4>1. visits[w] \in 0 .. Len(PointList) /\ visits[w] < Len(PointList)
        BY <3>1 DEF AppPasses, CoInv, CoType
      <4>2. visits[w] + 1 \in 0 .. Len(PointList)
        BY <4>1, ListFacts
      <4>3. QED
        BY <3>1, <4>2 DEF AppPasses, CoInv, CoType
    <3>2. CASE ~AppPasses(w)
      <4>1. visits' = visits
        BY <1>3, <3>2 DEF AppStep, AppArrives, AppCanceled, AppRefused, AppEnds, appVars
      <4>2. \A x \in Worker : app'[x] = "parked" => visits[x] < Len(PointList)
        BY <1>3, <3>2, ZenonT(60) DEF AppStep, AppArrives, AppCanceled, AppRefused, AppEnds, appVars,
             CoInv, CoType
      <4>3. QED
        BY <4>1, <4>2 DEF CoInv, CoType
    <3>3. QED
      BY <3>1, <3>2
  <2>4. QED
    BY <2>1, <2>2, <2>3, ZenonT(60) DEF coVars, CoInv, CoType, Waiting, Releasing, Steps
<1>4. QED
  BY <1>1, <1>2, <1>3

(* The index of a loop over the workers stays within their list.             *)
LEMMA TurnRange ==
  ASSUME CoInv
  PROVE  /\ 1 \in 1 .. Len(WorkerList)
         /\ ~LastTurn => turn + 1 \in 1 .. Len(WorkerList)
<1> DEFINE n == Len(WorkerList)
<1>1. n \in Nat \ {0} /\ turn \in 1 .. n
  BY ListFacts DEF CoInv, CoType
<1> HIDE DEF n
<1>2. 1 \in 1 .. n /\ (turn # n => turn + 1 \in 1 .. n)
  BY <1>1
<1>3. QED
  BY <1>2 DEF n, LastTurn

(* Every step of an execution keeps them.                                    *)
LEMMA CoInvStep == CoInv /\ [Next]_vars => CoInv'
<1> SUFFICES ASSUME CoInv, [Next]_vars PROVE CoInv'
  OBVIOUS
<1>1. ASSUME schedule' = schedule PROVE Steps' = Steps
  BY <1>1 DEF Steps
<1>2. CASE UNCHANGED vars
  BY <1>1, <1>2, ZenonT(60) DEF vars, coVars, appVars, CoInv, CoType, Waiting, Releasing
<1>3. CASE RegisterWorker
  <2>1. /\ turn' \in 1 .. Len(WorkerList) /\ pc' \in {"register", "invoke", "failed"}
        /\ failure' \in {failure, "observer"}
    BY <1>3, TurnRange DEF RegisterWorker, Emit, Go, Fail
  <2>2. QED
    BY <1>1, <1>3, <2>1, ZenonT(60) DEF RegisterWorker, appVars, CoInv, CoType, Waiting, Releasing
<1>4. CASE InvokeWorker
  <2> DEFINE w == WorkerList[turn]
  <2>1. w \in Worker
    BY ListFacts DEF CoInv, CoType
  <2>2. cur' \in Steps /\ cur' \in 1 .. Len(schedule) + 1
    BY <1>4, <2>1, FirstStepIs, StepRange DEF InvokeWorker, CoInv, CoType
  <2>3. pc' \in {"step", "failed"} /\ failure' \in {failure, "observer"}
    BY <1>4 DEF InvokeWorker, Emit, Go, Fail
  <2>4. app' = [app EXCEPT ![w] = "code"] /\ coll' = [coll EXCEPT ![w] = "reading"]
    BY <1>4 DEF InvokeWorker
  <2> HIDE DEF w
  <2>5. QED
    BY <1>1, <1>4, <2>2, <2>3, <2>4, ZenonT(60) DEF InvokeWorker, CoInv, CoType, Waiting, Releasing
<1>5. CASE InvokeRefused
  BY <1>1, <1>5 DEF InvokeRefused, Fail, appVars, CoInv, CoType, Waiting, Releasing
<1>6. CASE ChooseStep
  BY <1>6, ChooseType
<1>7. CASE EnterWait \/ WaitSeesCancel \/ WaitGoesOn \/ WaitAwakes \/ WaitExpires
  <2>1. /\ UNCHANGED <<schedule, mode, turn, cur, preObserved, pending, progressed, exec,
                       fate, ctxDone, appVars, coll, failure>>
        /\ pc \in {"enter", "waiting"} /\ pc' \in {"waiting", "observed"}
    BY <1>7 DEF EnterWait, WaitSeesCancel, WaitGoesOn, WaitAwakes, WaitExpires, UpToDate,
         Go, coVars
  <2>2. QED
    BY <1>1, <2>1 DEF appVars, CoInv, CoType, Waiting, Releasing
<1>8. CASE ObserveArrived \/ ObserveError \/ ObserveTimeout \/ ObserveEnd \/ Settle
  BY <1>8, ObserveType
<1>9. CASE BeginRelease \/ ReleaseRefused
  BY <1>1, <1>9 DEF BeginRelease, ReleaseRefused, Go, Fail, appVars, CoInv, CoType, Waiting,
       Releasing
<1>10. CASE ReleaseStep
  <2>1. cur \in Steps /\ NextStep(TRUE)
    BY <1>10 DEF ReleaseStep, CoInv, Releasing
  <2>2. /\ fate' \in [Steps -> {"open", "released", "skipped"}] /\ progressed' \in BOOLEAN
        /\ UNCHANGED <<schedule, preObserved, pending, exec, ctxDone, app, visits, outcome,
                       coll>>
    BY <1>10, <2>1 DEF ReleaseStep, appVars, CoInv, CoType
  <2>3. QED
    BY <1>1, <2>1, <2>2, NextStepType DEF CoInv, CoType, Waiting, Releasing
<1>11. CASE FinalCollect
  <2>1. /\ exec' \in [Worker -> [collected : BOOLEAN, terminal : BOOLEAN]]
        /\ pc' \in {"closing", "final", "failed"}
        /\ failure' \in {failure, "observer", "collector", "ctx"}
    BY <1>11, CollectType, ListFacts DEF FinalCollect, CoInv, CoType
  <2>2. turn' \in 1 .. Len(WorkerList)
    BY <1>11, TurnRange DEF FinalCollect, CoInv, CoType
  <2>3. QED
    BY <1>1, <1>11, <2>1, <2>2, ZenonT(60) DEF FinalCollect, appVars, CoInv, CoType, Waiting, Releasing
<1>12. CASE Complete
  BY <1>1, <1>12 DEF Complete, Emit, Go, Fail, appVars, CoInv, CoType, Waiting, Releasing
<1>13. QED
  BY <1>2, <1>3, <1>4, <1>5, <1>6, <1>7, <1>8, <1>9, <1>10, <1>11, <1>12, OthersType
     DEF Next, CoordinatorStep

-----------------------------------------------------------------------------
(* The runtime below.  The theorems about it hold here, with one Arrive call *)
(* per worker and the coordinator as the only caller of WaitArrive.          *)
RTP == INSTANCE SyncPointProofs WITH Call <- Worker, Waiter <- {Coord}

(* No worker and no point is the runtime's nil.                              *)
LEMMA RuntimeNil == Nil \notin Worker \cup Point \cup Worker
BY ListAssumption

(* The two instances of the runtime are one.                                 *)
LEMMA SameRuntime ==
  /\ RT!Init <=> RTP!Init
  /\ RT!TypeOK <=> RTP!TypeOK
  /\ RT!Next <=> RTP!Next
<1>1. RT!Init <=> RTP!Init
  BY DEF RT!Init, RTP!Init, RT!NoArrive, RTP!NoArrive, RT!NoWait, RTP!NoWait
<1>2. RT!TypeOK <=> RTP!TypeOK
  BY DEF RTP!TypeOK, RT!TypeOK, RTP!WorkerState, RT!WorkerState, RTP!ArriveCall,
         RT!ArriveCall, RTP!WaitCall, RT!WaitCall
<1>3. \A w \in Worker :
        /\ RT!Register(w) <=> RTP!Register(w)
        /\ \A p \in Point : RT!Release(w, p) <=> RTP!Release(w, p)
        /\ \A o \in {"done", "failed"} : RT!Finish(w, o) <=> RTP!Finish(w, o)
  BY DEF RT!Register, RTP!Register, RT!Release, RTP!Release, RT!CanRelease, RTP!CanRelease,
         RT!Finish, RTP!Finish, RT!CanFinish, RTP!CanFinish, RT!Signaled, RTP!Signaled
<1>4. RT!Close <=> RTP!Close
  BY DEF RT!Close, RTP!Close, RT!Stopped, RTP!Stopped, RT!Signaled, RTP!Signaled
<1>5. \A c \in Worker :
        /\ \A w \in Worker, p \in Point : RT!ArriveBlocks(c, w, p) <=> RTP!ArriveBlocks(c, w, p)
        /\ RT!CancelArrive(c) <=> RTP!CancelArrive(c)
        /\ RT!ArriveReleased(c) <=> RTP!ArriveReleased(c)
        /\ RT!ArriveClosed(c) <=> RTP!ArriveClosed(c)
        /\ RT!ArriveCanceled(c) <=> RTP!ArriveCanceled(c)
  BY DEF RT!ArriveBlocks, RTP!ArriveBlocks, RT!CanArrive, RTP!CanArrive, RT!NoArrive,
         RTP!NoArrive, RT!CancelArrive, RTP!CancelArrive, RT!ArriveReleased,
         RTP!ArriveReleased, RT!ArriveAwake, RTP!ArriveAwake, RT!ArriveClosed,
         RTP!ArriveClosed, RT!ArriveCanceled, RTP!ArriveCanceled, RT!Signaled, RTP!Signaled
<1>6. \A v \in {Coord} :
        /\ \A w \in Worker, p \in Point :
             /\ RT!WaitAnswered(v, w, p) <=> RTP!WaitAnswered(v, w, p)
             /\ RT!WaitBlocks(v, w, p) <=> RTP!WaitBlocks(v, w, p)
        /\ RT!CancelWait(v) <=> RTP!CancelWait(v)
        /\ RT!WaitAwake(v) <=> RTP!WaitAwake(v)
        /\ RT!WaitAgain(v) <=> RTP!WaitAgain(v)
        /\ RT!WaitTimerAnswered(v) <=> RTP!WaitTimerAnswered(v)
        /\ RT!WaitTimeout(v) <=> RTP!WaitTimeout(v)
  BY DEF RT!WaitAnswered, RTP!WaitAnswered, RT!WaitBlocks, RTP!WaitBlocks, RT!CancelWait,
         RTP!CancelWait, RT!WaitAwake, RTP!WaitAwake, RT!WaitAgain, RTP!WaitAgain,
         RT!WaitTimerAnswered, RTP!WaitTimerAnswered, RT!WaitTimeout, RTP!WaitTimeout,
         RT!WaitEntry, RTP!WaitEntry, RT!WaitStatus, RTP!WaitStatus, RT!WakeAnswer,
         RTP!WakeAnswer, RT!WaitReturns, RTP!WaitReturns, RT!NoWait, RTP!NoWait,
         RT!Terminal, RTP!Terminal, RT!Signaled, RTP!Signaled
<1>7. QED
  BY <1>1, <1>2, <1>3, <1>4, <1>5, <1>6
     DEF RT!Next, RTP!Next, RT!CoordinatorNext, RTP!CoordinatorNext, RT!ArriveNext,
         RTP!ArriveNext, RT!WaitNext, RTP!WaitNext, RT!Terminal, RTP!Terminal

(* Every step of an execution is one step of the runtime, or none.           *)
LEMMA RuntimeStep == CoInv /\ [Next]_vars => [RT!Next]_(RT!vars)
<1> SUFFICES ASSUME CoInv, [Next]_vars PROVE RT!Next \/ UNCHANGED RT!vars
  OBVIOUS
<1>1. \A i \in Steps : StepWorker(i) \in Worker /\ StepPoint(i) \in Point
  BY ScheduleFacts DEF CoInv, CoType
<1>2. ASSUME UNCHANGED rtVars PROVE UNCHANGED RT!vars
  BY <1>2 DEF rtVars, RT!vars
<1>3. CASE UNCHANGED vars \/ InvokeWorker \/ InvokeRefused \/ ChooseStep
  BY <1>2, <1>3 DEF vars, InvokeWorker, InvokeRefused, ChooseStep
<1>4. CASE RegisterWorker
  BY <1>4, ListFacts DEF RegisterWorker, CoInv, CoType, RT!Next, RT!CoordinatorNext
<1>5. CASE EnterWait
  BY <1>1, <1>5 DEF EnterWait, CoInv, Waiting, RT!Next, RT!WaitNext
<1>6. CASE WaitSeesCancel \/ WaitGoesOn \/ WaitAwakes \/ WaitExpires
  BY <1>6 DEF WaitSeesCancel, WaitGoesOn, WaitAwakes, WaitExpires, RT!Next, RT!WaitNext
<1>7. CASE ObserveArrived \/ ObserveError \/ ObserveTimeout \/ ObserveEnd \/ Settle
  BY <1>2, <1>7 DEF ObserveArrived, ObserveError, ObserveTimeout, ObserveEnd, Settle
<1>8. CASE BeginRelease \/ ReleaseRefused \/ FinalCollect \/ Complete \/ Cancel
  BY <1>2, <1>8 DEF BeginRelease, ReleaseRefused, FinalCollect, Complete, Cancel
<1>9. CASE ReleaseStep
  BY <1>1, <1>9 DEF ReleaseStep, CoInv, Releasing, RT!Next, RT!CoordinatorNext
<1>10. ASSUME NEW w \in Worker, CollectorStep(w) PROVE RT!Next \/ UNCHANGED RT!vars
  <2>1. CASE CollectResult(w)
    BY <2>1 DEF CollectResult, RT!Next, RT!CoordinatorNext, RT!Terminal
  <2>2. CASE CollectFault(w) \/ CollectClosed(w) \/ CollectorCancels(w)
    BY <1>2, <2>2 DEF CollectFault, CollectClosed, CollectorCancels
  <2>3. QED
    BY <1>10, <2>1, <2>2 DEF CollectorStep
<1>11. ASSUME NEW w \in Worker, AppStep(w) PROVE RT!Next \/ UNCHANGED RT!vars
  <2>1. CASE AppArrives(w)
    <3>1. PICK p \in Reach(w) : RT!ArriveBlocks(w, w, p) \/ UNCHANGED rtVars
      BY <2>1 DEF AppArrives
    <3>2. p \in Point
      BY ListFacts DEF Reach
    <3>3. QED
      BY <1>2, <3>1, <3>2 DEF RT!Next, RT!ArriveNext
  <2>2. CASE AppCanceled(w) \/ AppPasses(w) \/ AppRefused(w)
    BY <2>2 DEF AppCanceled, AppPasses, AppRefused, RT!Next, RT!ArriveNext
  <2>3. CASE AppEnds(w)
    BY <1>2, <2>3 DEF AppEnds
  <2>4. QED
    BY <1>11, <2>1, <2>2, <2>3 DEF AppStep
<1>12. QED
  BY <1>3, <1>4, <1>5, <1>6, <1>7, <1>8, <1>9, <1>10, <1>11 DEF Next, CoordinatorStep

(* Whatever the coordinator, the collectors and the applications do, they    *)
(* call the runtime the way its specification allows.                        *)
THEOREM RuntimeCalled == Spec => RT!Spec
<1>1. Init => RT!Init
  BY DEF Init
<1>2. QED
  BY <1>1, CoInvInit, CoInvStep, RuntimeStep, PTL DEF Spec, RT!Spec

(* So each worker has one wait, each recorded arrival is the one parked call *)
(* and no wakeup of the coordinator is lost, in every execution.             *)
THEOREM RuntimeKept == Spec => [](RTP!TypeOK /\ RTP!ArrivalsKept /\ RTP!WaitsKept)
<1>1. Init => RTP!Init
  BY SameRuntime DEF Init
<1>2. CoInv /\ [Next]_vars => [RTP!Next]_(RTP!vars)
  BY SameRuntime, RuntimeStep DEF RT!vars, RTP!vars
<1>3. Spec => RTP!Spec
  BY <1>1, <1>2, CoInvInit, CoInvStep, PTL DEF Spec, RTP!Spec
<1>4. QED
  BY <1>3, RuntimeNil, RTP!TypeCorrect, RTP!ArrivalsCorrect, RTP!WaitsCorrect, PTL

(* Every variable of an execution and of its runtime keeps its type.         *)
THEOREM CoordinatorTypeCorrect == Spec => []TypeOK
<1>1. CoInv /\ RTP!TypeOK => TypeOK
  <2> SUFFICES ASSUME CoInv, RTP!TypeOK PROVE TypeOK
    OBVIOUS
  <2>1. RT!TypeOK
    BY SameRuntime
  <2>2. cur \in IF mode \in {"drain", "final"} THEN 1 .. Len(schedule) + 1 ELSE Steps
    BY DEF CoInv, CoType
  <2>3. QED
    BY <2>1, <2>2 DEF CoInv, CoType, TypeOK
<1>2. QED
  BY <1>1, CoInvInit, CoInvStep, RuntimeKept, PTL DEF Spec

-----------------------------------------------------------------------------
(* Where execute is.  It releases only in its two loops over the steps, its  *)
(* last loop comes after every pending step, and a drain pass waits for the  *)
(* pending steps.                                                            *)
ControlInv ==
  /\ pc \in {"register", "invoke"} => mode = "boot"
  /\ Releasing => mode \in {"traverse", "drain"}
  /\ pc \in {"final", "closing", "complete"} => mode = "final"
  /\ mode = "final" => pc \in {"final", "closing", "complete", "failed"} /\ pending = {}
  /\ mode = "drain" /\ Waiting => cur \in pending
  /\ mode = "drain" /\ Releasing => cur \notin pending

(* The ways on of NextStep, the observer's refusal included.                 *)
LEMMA NextStepIs ==
  ASSUME NEW emits \in BOOLEAN, NextStep(emits)
  PROVE  \/ /\ mode = "boot" /\ mode' = "boot" /\ ~LastTurn /\ turn' = turn + 1 /\ cur' = cur
            /\ pc' \in {"invoke", "failed"}
         \/ /\ mode = "boot" /\ mode' = "traverse" /\ LastTurn /\ cur' = 1
            /\ pc' \in {"step", "failed"}
         \/ /\ mode = "traverse" /\ mode' = "traverse" /\ cur < Len(schedule)
            /\ cur' = cur + 1 /\ pc' \in {"step", "failed"}
         \/ /\ mode = "traverse" /\ mode' = "drain" /\ cur = Len(schedule) /\ cur' = 1
            /\ pc' \in {"step", "failed"}
         \/ /\ mode = "drain" /\ mode' = "drain" /\ cur' = cur + 1
            /\ pc' \in {"step", "failed"}
BY DEF NextStep, Pass, Emit, Go, Fail

(* Every step of an execution keeps it.                                      *)
LEMMA ControlInvStep == CoInv /\ ControlInv /\ [Next]_vars => ControlInv'
<1> SUFFICES ASSUME CoInv, ControlInv, [Next]_vars PROVE ControlInv'
  OBVIOUS
<1> USE DEF ControlInv, Waiting, Releasing
<1>1. CASE UNCHANGED coVars
  BY <1>1 DEF coVars
<1>2. CASE RegisterWorker \/ InvokeWorker \/ InvokeRefused
  BY <1>2 DEF RegisterWorker, InvokeWorker, InvokeRefused, Emit, Go, Fail
<1>3. ASSUME NEW e \in BOOLEAN, NextStep(e), mode # "final" PROVE ControlInv'
  BY <1>3, NextStepIs
<1>4. CASE ChooseStep
  <2>1. CASE BootstrapStep \/ TraverseStep
    BY <1>3, <1>4, <2>1 DEF ChooseStep, BootstrapStep, TraverseStep, BeginWait, Go, Fail
  <2>2. CASE DrainStep
    BY <1>4, <2>2 DEF ChooseStep, DrainStep, BeginWait, Emit, Go, Fail
  <2>3. QED
    BY <1>4, <2>1, <2>2 DEF ChooseStep
<1>5. CASE EnterWait \/ WaitSeesCancel \/ WaitGoesOn \/ WaitAwakes \/ WaitExpires
  <2>1. pc \in {"enter", "waiting"} /\ pc' \in {"waiting", "observed"}
    BY <1>5 DEF EnterWait, WaitSeesCancel, WaitGoesOn, WaitAwakes, WaitExpires, UpToDate,
         Go, coVars
  <2>2. UNCHANGED <<mode, cur, pending>>
    BY <1>5 DEF EnterWait, WaitSeesCancel, WaitGoesOn, WaitAwakes, WaitExpires, coVars
  <2>3. QED
    BY <2>1, <2>2
<1>6. CASE ObserveArrived
  <2>1. CASE mode = "boot"
    BY <1>3, <1>6, <2>1 DEF ObserveArrived
  <2>2. CASE mode # "boot"
    BY <1>6, <2>2 DEF ObserveArrived, Emit, Go, Fail, CoInv, CoType
  <2>3. QED
    BY <2>1, <2>2
<1>7. CASE ObserveError \/ ObserveTimeout \/ ObserveEnd
  <2>1. pc = "observed" /\ pc' \in {"settle", "failed"} /\ UNCHANGED <<mode, cur, pending>>
    BY <1>7 DEF ObserveError, ObserveTimeout, ObserveEnd, Collect, Accept, Emit, Go, Fail
  <2>2. QED
    BY <2>1
<1>8. CASE Settle \/ ReleaseStep
  BY <1>3, <1>8 DEF Settle, ReleaseStep
<1>9. CASE BeginRelease \/ ReleaseRefused
  BY <1>9 DEF BeginRelease, ReleaseRefused, Go, Fail
<1>10. CASE FinalCollect \/ Complete
  BY <1>10 DEF FinalCollect, Complete, Collect, Accept, Emit, Go, Fail
<1>11. QED
  BY <1>1, <1>2, <1>4, <1>5, <1>6, <1>7, <1>8, <1>9, <1>10, OthersType
     DEF Next, CoordinatorStep, vars

-----------------------------------------------------------------------------
(* No step is forgotten: behind the current one each step has been settled   *)
(* or is pending; when the drain passes are over none is pending.            *)
Kept(i) == fate[i] # "open" \/ i \in pending

CoverInv ==
  /\ mode = "traverse" => \A i \in Steps : i < cur => Kept(i)
  /\ mode \in {"drain", "final"} =>
       \A i \in Steps : \/ Kept(i)
                        \/ mode = "drain" /\ i = cur /\ (Releasing \/ pc = "failed")

(* Every step of an execution keeps it.                                      *)
LEMMA CoverInvStep == CoInv /\ ControlInv /\ CoverInv /\ [Next]_vars => CoverInv'
<1> SUFFICES ASSUME CoInv, ControlInv, CoverInv, [Next]_vars PROVE CoverInv'
  OBVIOUS
<1>1. ASSUME UNCHANGED schedule
      PROVE  Steps' = Steps /\ \A i \in Steps : i \in Nat /\ 1 <= i /\ i <= Len(schedule)
  BY <1>1, ScheduleFacts DEF Steps, CoInv, CoType
<1>2. CASE UNCHANGED coVars
  BY <1>2 DEF coVars, CoverInv, Kept, Steps, Releasing
<1>3. ASSUME UNCHANGED <<schedule, mode, cur, pending, fate>>, ~ Releasing,
             mode # "drain" \/ pc # "failed"
      PROVE  CoverInv'
  BY <1>1, <1>3 DEF CoverInv, Kept
<1>4. ASSUME NEW e \in BOOLEAN, NextStep(e), UNCHANGED schedule, cur \in Steps,
             \A i \in Steps : (IF i = cur THEN mode # "boot" ELSE Kept(i)) => Kept(i)'
      PROVE  CoverInv'
  <2>1. \/ mode' = "boot"
        \/ mode' = "traverse" /\ cur' = 1
        \/ mode' = "traverse" /\ mode = "traverse" /\ cur' = cur + 1
        \/ mode' = "drain" /\ mode = "traverse" /\ cur = Len(schedule)
        \/ mode' = "drain" /\ mode = "drain"
    BY <1>4, NextStepIs
  <2>2. CASE mode' = "boot" \/ (mode' = "traverse" /\ cur' = 1)
    BY <1>1, <1>4, <2>2 DEF CoverInv, Kept
  <2>3. CASE mode' = "traverse" /\ mode = "traverse" /\ cur' = cur + 1
    <3>1. \A i \in Steps : i < cur' => i < cur \/ i = cur
      BY <1>1, <1>4, <2>3
    <3>2. \A i \in Steps : i < cur' => Kept(i)'
      BY <1>4, <2>3, <3>1 DEF CoverInv, Kept
    <3>3. QED
      BY <1>1, <1>4, <2>3, <3>2 DEF CoverInv, Kept
  <2>4. CASE mode' = "drain" /\ mode = "traverse" /\ cur = Len(schedule)
    <3>1. \A i \in Steps : i < cur \/ i = cur
      BY <1>1, <1>4, <2>4
    <3>2. \A i \in Steps : Kept(i)'
      BY <1>4, <2>4, <3>1 DEF CoverInv, Kept
    <3>3. QED
      BY <1>1, <1>4, <2>4, <3>2 DEF CoverInv, Kept
  <2>5. CASE mode' = "drain" /\ mode = "drain"
    <3>1. \A i \in Steps : Kept(i)'
      BY <1>4, <2>5 DEF CoverInv, Kept
    <3>2. QED
      BY <1>1, <1>4, <2>5, <3>1 DEF CoverInv, Kept
  <2>6. QED
    BY <2>1, <2>2, <2>3, <2>4, <2>5
<1>5. CASE RegisterWorker \/ InvokeWorker \/ InvokeRefused
  BY <1>5 DEF RegisterWorker, InvokeWorker, InvokeRefused, ControlInv, CoverInv
<1>6. CASE ChooseStep
  <2>1. UNCHANGED schedule /\ pc = "step"
    BY <1>6 DEF ChooseStep
  <2>2. ASSUME NEW i \in Steps, BeginWait(i), mode # "traverse" \/ i = cur PROVE CoverInv'
    <3>1. UNCHANGED <<mode, pending, fate>> /\ pc' \in {"enter", "failed"} /\ cur' = i
      BY <2>2 DEF BeginWait, Go, Fail
    <3>2. QED
      BY <1>1, <2>1, <2>2, <3>1 DEF CoverInv, Kept, Releasing
  <2>3. CASE BootstrapStep
    BY <2>2, <2>3 DEF BootstrapStep, CoInv, CoType
  <2>4. CASE TraverseStep
    <3>1. cur \in Steps
      BY <2>4 DEF TraverseStep, CoInv, CoType
    <3>2. ASSUME NEW e \in BOOLEAN, NextStep(e),
                 \/ fate' = [fate EXCEPT ![cur] = "skipped"] /\ pending' = pending
                 \/ pending' = pending \cup {cur} /\ fate' = fate
          PROVE  CoverInv'
      <4>1. \A i \in Steps : i = cur \/ Kept(i) => Kept(i)'
        BY <3>1, <3>2 DEF Kept, CoInv, CoType
      <4>2. QED
        BY <1>4, <2>1, <3>1, <3>2, <4>1 DEF Kept
    <3>3. CASE Go("release") /\ UNCHANGED <<mode, cur, pending, fate>>
      BY <1>1, <2>1, <2>4, <3>3 DEF TraverseStep, CoverInv, Kept
    <3>4. QED
      BY <2>2, <2>4, <3>1, <3>2, <3>3 DEF TraverseStep
  <2>5. CASE DrainStep
    <3>1. mode = "drain" /\ \A i \in Steps : Kept(i)
      BY <2>1, <2>5 DEF DrainStep, CoverInv, Releasing
    <3>2. ASSUME NEW i \in pending, fate' = [fate EXCEPT ![i] = "skipped"],
                 pending' = pending \ {i}
          PROVE  CoverInv'
      <4>1. \A k \in Steps : Kept(k)'
        BY <3>1, <3>2 DEF Kept, CoInv, CoType
      <4>2. QED
        BY <1>1, <2>1, <4>1 DEF CoverInv, Kept
    <3>3. ASSUME UNCHANGED <<pending, fate>> PROVE CoverInv'
      BY <1>1, <2>1, <3>1, <3>3 DEF CoverInv, Kept
    <3>4. \A i : BeginWait(i) => UNCHANGED <<pending, fate>>
      BY DEF BeginWait
    <3>5. QED
      BY <2>5, <3>2, <3>3, <3>4 DEF DrainStep
  <2>6. QED
    BY <1>6, <2>3, <2>4, <2>5 DEF ChooseStep
<1>7. CASE EnterWait \/ WaitSeesCancel \/ WaitGoesOn \/ WaitAwakes \/ WaitExpires
  BY <1>3, <1>7 DEF EnterWait, WaitSeesCancel, WaitGoesOn, WaitAwakes, WaitExpires, UpToDate,
       coVars, Releasing
<1>8. CASE ObserveError \/ ObserveTimeout \/ ObserveEnd
  BY <1>3, <1>8 DEF ObserveError, ObserveTimeout, ObserveEnd, Releasing
<1>9. CASE ObserveArrived
  <2>1. UNCHANGED <<schedule, fate>> /\ pc = "observed" /\ cur \in Steps
    BY <1>9 DEF ObserveArrived, CoInv, Waiting
  <2>2. CASE mode = "boot"
    BY <1>4, <1>9, <2>1, <2>2 DEF ObserveArrived, Kept
  <2>3. CASE mode # "boot"
    <3>1. /\ pending' = pending \ {cur} /\ pc' \in {"release", "failed"}
          /\ UNCHANGED <<mode, cur>>
      BY <1>9, <2>3 DEF ObserveArrived, Emit, Go, Fail
    <3>2. \A i \in Steps \ {cur} : Kept(i) => Kept(i)'
      BY <2>1, <3>1 DEF Kept
    <3>3. mode # "final"
      BY <2>1 DEF ControlInv
    <3>4. QED
      BY <1>1, <2>1, <3>1, <3>2, <3>3 DEF CoverInv, Releasing
  <2>4. QED
    BY <2>2, <2>3
<1>10. CASE Settle
  <2>1. UNCHANGED schedule /\ cur \in Steps
    BY <1>10 DEF Settle, CoInv, Waiting
  <2>2. \A i \in Steps : (IF i = cur THEN mode # "boot" ELSE Kept(i)) => Kept(i)'
    BY <1>10, <2>1 DEF Settle, Kept, CoInv, CoType
  <2>3. QED
    BY <1>4, <1>10, <2>1, <2>2 DEF Settle, Kept
<1>11. CASE ReleaseStep
  <2>1. UNCHANGED schedule /\ cur \in Steps
    BY <1>11 DEF ReleaseStep, CoInv, Releasing
  <2>2. \A i \in Steps : i = cur \/ Kept(i) => Kept(i)'
    BY <1>11, <2>1 DEF ReleaseStep, Kept, CoInv, CoType
  <2>3. QED
    BY <1>4, <1>11, <2>1, <2>2 DEF ReleaseStep, Kept
<1>12. CASE BeginRelease \/ ReleaseRefused
  <2>1. /\ UNCHANGED <<schedule, mode, cur, pending, fate>>
        /\ pc \in {"release", "releasing"} /\ pc' \in {"releasing", "failed"}
    BY <1>12 DEF BeginRelease, ReleaseRefused, Go, Fail
  <2>2. QED
    BY <1>1, <2>1 DEF CoverInv, Kept, Releasing
<1>13. CASE FinalCollect \/ Complete
  BY <1>3, <1>13 DEF FinalCollect, Complete, ControlInv, Releasing
<1>14. QED
  BY <1>2, <1>5, <1>6, <1>7, <1>8, <1>9, <1>10, <1>11, <1>12, <1>13, OthersType
     DEF Next, CoordinatorStep, vars

(* Only the release of the current step marks a step as released.            *)
LEMMA ReleasedByStep ==
  ASSUME CoInv, [Next]_vars, NEW j \in Steps, fate[j] # "released", fate'[j] = "released"
  PROVE  ReleaseStep /\ j = cur
<1>1. CASE UNCHANGED fate
  BY <1>1
<1>2. CASE ChooseStep \/ Settle
  BY <1>2 DEF ChooseStep, BootstrapStep, TraverseStep, DrainStep, BeginWait, Settle, CoInv,
       CoType
<1>3. CASE ReleaseStep
  BY <1>3 DEF ReleaseStep, CoInv, CoType
<1>4. CASE UNCHANGED vars \/ Cancel \/ \E w \in Worker : CollectorStep(w) \/ AppStep(w)
  <2>1. UNCHANGED coVars
    BY <1>4, OthersType DEF vars
  <2>2. QED
    BY <1>1, <2>1 DEF coVars
<1>5. CASE \/ RegisterWorker \/ InvokeWorker \/ InvokeRefused
           \/ EnterWait \/ WaitSeesCancel \/ WaitGoesOn \/ WaitAwakes \/ WaitExpires
           \/ ObserveArrived \/ ObserveError \/ ObserveTimeout \/ ObserveEnd
           \/ BeginRelease \/ ReleaseRefused \/ FinalCollect \/ Complete
  BY <1>1, <1>5 DEF RegisterWorker, InvokeWorker, InvokeRefused, EnterWait, WaitSeesCancel,
       WaitGoesOn, WaitAwakes, WaitExpires, ObserveArrived, ObserveError, ObserveTimeout,
       ObserveEnd, BeginRelease, ReleaseRefused, FinalCollect, Complete, coVars
<1>6. QED
  BY <1>2, <1>3, <1>4, <1>5 DEF Next, CoordinatorStep

(* Both hold when an execution starts.                                       *)
LEMMA ControlInvInit == Init => ControlInv /\ CoverInv
BY DEF Init, ControlInv, CoverInv, Waiting, Releasing

(* The saved order is a barrier: until every step was looked at, no step is  *)
(* released before each earlier one is settled or was left pending.          *)
THEOREM BarrierCorrect == Spec => BarrierKept
<1> DEFINE Barred ==
      \A j \in Steps : fate[j] = "open" /\ fate'[j] = "released" /\ mode # "drain" =>
        \A i \in 1 .. j - 1 : fate[i] # "open" \/ i \in pending
<1>1. CoInv /\ ControlInv /\ CoverInv /\ [Next]_vars => [Barred]_<<fate, mode>>
  <2> SUFFICES ASSUME CoInv, ControlInv, CoverInv, [Next]_vars,
                      NEW j \in Steps, fate[j] = "open", fate'[j] = "released",
                      mode # "drain", NEW i \in 1 .. j - 1
               PROVE  fate[i] # "open" \/ i \in pending
    OBVIOUS
  <2>1. ReleaseStep /\ j = cur
    BY ReleasedByStep
  <2>2. mode = "traverse"
    BY <2>1 DEF ReleaseStep, ControlInv, Releasing
  <2>3. i \in Steps /\ i < cur
    BY <2>1, StepRange DEF CoInv, CoType
  <2>4. QED
    BY <2>2, <2>3 DEF CoverInv, Kept
<1>2. QED
  BY <1>1, CoInvInit, ControlInvInit, CoInvStep, ControlInvStep, CoverInvStep, PTL
     DEF Spec, BarrierKept

-----------------------------------------------------------------------------
(* The schedule is what was saved, and an execution that failed is over.     *)
LEMMA ScheduleStays ==
  ASSUME CoInv, [Next]_vars
  PROVE  UNCHANGED schedule /\ (pc = "failed" => UNCHANGED coVars)
<1>1. CASE UNCHANGED vars \/ Cancel \/ \E w \in Worker : CollectorStep(w) \/ AppStep(w)
  <2>1. UNCHANGED coVars
    BY <1>1, OthersType DEF vars
  <2>2. QED
    BY <2>1 DEF coVars
<1>2. CASE CoordinatorStep \/ WaitExpires
  BY <1>2 DEF CoordinatorStep, RegisterWorker, InvokeWorker, InvokeRefused,
       ChooseStep, EnterWait, WaitSeesCancel, WaitGoesOn, WaitAwakes, WaitExpires, UpToDate,
       ObserveArrived, ObserveError, ObserveTimeout, ObserveEnd, Settle, BeginRelease,
       ReleaseStep, ReleaseRefused, FinalCollect, Complete, coVars
<1>3. QED
  BY <1>1, <1>2 DEF Next

(* Each worker is invoked once, after every worker was registered, and its   *)
(* collector with it.                                                        *)
NotYet(k) == pc = "register" \/ k > turn \/ (k = turn /\ pc = "invoke")

InvokeInv ==
  /\ \A w \in Worker : app[w] = "off" <=> coll[w] = "none"
  /\ \A w \in Worker : outcome[w] # "none" => app[w] = "ended"
  /\ mode = "boot" => \A k \in 1 .. Len(WorkerList) : NotYet(k) => app[WorkerList[k]] = "off"

(* It holds when an execution starts.                                        *)
LEMMA InvokeInvInit == Init => InvokeInv
BY ListFacts DEF Init, InvokeInv

(* The applications and the collectors start with their invocation.          *)
LEMMA StartedOnlyBy ==
  ASSUME CoInv, ControlInv, InvokeInv, [Next]_vars, ~ InvokeWorker
  PROVE  /\ \A w \in Worker : (app[w] = "off" <=> app'[w] = "off")
         /\ \A w \in Worker : (coll[w] = "none" <=> coll'[w] = "none")
         /\ \A w \in Worker : outcome'[w] # "none" => app'[w] = "ended"
<1>1. CASE UNCHANGED <<app, coll, outcome>>
  BY <1>1 DEF InvokeInv
<1>2. ASSUME NEW x \in Worker, CollectorStep(x) PROVE UNCHANGED <<app, outcome>>
  BY <1>2 DEF CollectorStep, CollectResult, CollectFault, CollectClosed, CollectorCancels,
       appVars
<1>3. ASSUME NEW x \in Worker, CollectorStep(x), NEW w \in Worker
      PROVE  coll[w] = "none" <=> coll'[w] = "none"
  BY <1>3, ZenonT(60) DEF CollectorStep, CollectResult, CollectFault, CollectClosed, CollectorCancels,
       CoInv, CoType
<1>4. ASSUME NEW x \in Worker, AppStep(x), NEW w \in Worker
      PROVE  /\ app[w] = "off" <=> app'[w] = "off"
             /\ outcome'[w] # "none" => app'[w] = "ended"
             /\ coll' = coll
  <2>1. CASE AppArrives(x)
    BY <2>1, ZenonT(60) DEF AppArrives, InvokeInv, CoInv, CoType
  <2>2. CASE AppCanceled(x)
    BY <2>2 DEF AppCanceled, appVars, InvokeInv
  <2>3. CASE AppPasses(x) \/ AppRefused(x)
    BY <2>3, ZenonT(60) DEF AppPasses, AppRefused, InvokeInv, CoInv, CoType
  <2>4. CASE AppEnds(x)
    BY <2>4, ZenonT(60) DEF AppEnds, InvokeInv, CoInv, CoType
  <2>5. QED
    BY <1>4, <2>1, <2>2, <2>3, <2>4 DEF AppStep
<1>5. CASE \/ UNCHANGED vars \/ Cancel \/ RegisterWorker \/ InvokeRefused \/ ChooseStep
           \/ EnterWait \/ WaitSeesCancel \/ WaitGoesOn \/ WaitAwakes \/ WaitExpires
           \/ ObserveArrived \/ ObserveError \/ ObserveTimeout \/ ObserveEnd \/ Settle
           \/ BeginRelease \/ ReleaseStep \/ ReleaseRefused \/ FinalCollect \/ Complete
  BY <1>1, <1>5 DEF vars, Cancel, RegisterWorker, InvokeRefused, ChooseStep, EnterWait,
       WaitSeesCancel, WaitGoesOn, WaitAwakes, WaitExpires, ObserveArrived, ObserveError,
       ObserveTimeout, ObserveEnd, Settle, BeginRelease, ReleaseStep, ReleaseRefused,
       FinalCollect, Complete, appVars
<1>6. QED
  BY <1>1, <1>2, <1>3, <1>4, <1>5 DEF Next, CoordinatorStep, InvokeInv

(* A loop index never returns to a worker, and boot is never returned to.    *)
LEMMA NotYetStep ==
  ASSUME CoInv, ControlInv, [Next]_vars, NEW k \in 1 .. Len(WorkerList),
         mode' = "boot", NotYet(k)'
  PROVE  mode = "boot" /\ NotYet(k) /\ (InvokeWorker => k # turn)
<1> USE DEF NotYet
<1>1. CASE UNCHANGED coVars
  BY <1>1 DEF coVars, InvokeWorker, Emit, Go, Fail
<1>2. k \in Nat /\ turn \in Nat
  <2>1. turn \in 1 .. Len(WorkerList)
    BY DEF CoInv, CoType
  <2>2. QED
    BY <2>1
<1>3. CASE RegisterWorker \/ InvokeRefused
  BY <1>2, <1>3 DEF RegisterWorker, InvokeRefused, InvokeWorker, Emit, Go, Fail, ControlInv
<1>4. CASE InvokeWorker
  BY <1>2, <1>4 DEF InvokeWorker, Emit, Go, Fail, ControlInv
<1>5. ASSUME NEW e \in BOOLEAN, NextStep(e), pc # "invoke"
      PROVE  mode = "boot" /\ NotYet(k) /\ (InvokeWorker => k # turn)
  BY <1>2, <1>5, NextStepIs DEF InvokeWorker
<1>6. ASSUME UNCHANGED <<mode, turn>>, pc \notin {"register", "invoke"},
             pc' \notin {"register", "invoke"}
      PROVE  mode = "boot" /\ NotYet(k) /\ (InvokeWorker => k # turn)
  BY <1>6 DEF InvokeWorker
<1>7. CASE ChooseStep
  BY <1>5, <1>6, <1>7 DEF ChooseStep, BootstrapStep, TraverseStep, DrainStep, BeginWait, Emit,
       Go, Fail
<1>8. CASE EnterWait \/ WaitSeesCancel \/ WaitGoesOn \/ WaitAwakes \/ WaitExpires
  BY <1>6, <1>8 DEF EnterWait, WaitSeesCancel, WaitGoesOn, WaitAwakes, WaitExpires, UpToDate,
       Go, coVars
<1>9. CASE ObserveArrived \/ ObserveError
  BY <1>5, <1>6, <1>9 DEF ObserveArrived, ObserveError, Emit, Go, Fail
<1>10. CASE ObserveTimeout \/ ObserveEnd
  BY <1>6, <1>10 DEF ObserveTimeout, ObserveEnd, Collect, Accept, Emit, Go, Fail
<1>11. CASE Settle \/ ReleaseStep
  BY <1>5, <1>11 DEF Settle, ReleaseStep
<1>12. CASE BeginRelease \/ ReleaseRefused
  BY <1>6, <1>12 DEF BeginRelease, ReleaseRefused, Go, Fail
<1>13. CASE FinalCollect \/ Complete
  BY <1>13 DEF FinalCollect, Complete, ControlInv
<1>14. QED
  BY <1>1, <1>3, <1>4, <1>7, <1>8, <1>9, <1>10, <1>11, <1>12, <1>13, OthersType
     DEF Next, CoordinatorStep, vars

(* Every step of an execution keeps it.                                      *)
LEMMA InvokeInvStep == CoInv /\ ControlInv /\ InvokeInv /\ [Next]_vars => InvokeInv'
<1> SUFFICES ASSUME CoInv, ControlInv, InvokeInv, [Next]_vars PROVE InvokeInv'
  OBVIOUS
<1>1. CASE ~ InvokeWorker
  BY <1>1, StartedOnlyBy, NotYetStep, ListFacts DEF InvokeInv
<1>2. CASE InvokeWorker
  <2> DEFINE x == WorkerList[turn]
  <2>1. /\ x \in Worker /\ app' = [app EXCEPT ![x] = "code"]
        /\ coll' = [coll EXCEPT ![x] = "reading"] /\ outcome' = outcome
        /\ mode = "boot" /\ pc = "invoke" /\ turn \in 1 .. Len(WorkerList)
    BY <1>2, ListFacts DEF InvokeWorker, ControlInv, CoInv, CoType
  <2>2. app[x] = "off"
    BY <2>1 DEF InvokeInv, NotYet
  <2>3. \A k \in 1 .. Len(WorkerList) : k # turn => WorkerList[k] # x
    BY <2>1, ListFacts, ListAssumption DEF Distinct
  <2> HIDE DEF x
  <2>4. /\ \A w \in Worker : app'[w] = "off" <=> coll'[w] = "none"
        /\ \A w \in Worker : outcome'[w] # "none" => app'[w] = "ended"
    BY <2>1, <2>2 DEF InvokeInv, CoInv, CoType
  <2>5. ASSUME NEW k \in 1 .. Len(WorkerList), mode' = "boot", NotYet(k)'
        PROVE  app'[WorkerList[k]] = "off"
    <3>1. mode = "boot" /\ NotYet(k) /\ k # turn
      BY <1>2, <2>5, NotYetStep
    <3>2. app[WorkerList[k]] = "off" /\ WorkerList[k] \in Worker /\ WorkerList[k] # x
      BY <2>3, <3>1, ListFacts DEF InvokeInv
    <3>3. QED
      BY <2>1, <3>2 DEF CoInv, CoType
  <2>6. QED
    BY <2>4, <2>5 DEF InvokeInv
<1>3. QED
  BY <1>1, <1>2

-----------------------------------------------------------------------------
(* Results.  What a collector vouches for is in the state of its worker; as  *)
(* long as execute goes on, what it collected is such a result; a step is    *)
(* skipped behind one, and the last loop has them all.                       *)
CollectedFrom(w) == coll[w] = "ready" /\ exec[w].terminal

ResultInv ==
  /\ \A w \in Worker : coll[w] \in {"probing", "ready"} =>
       outcome[w] \in {"ok", "err"} /\ state[w] = IF outcome[w] = "ok" THEN "done" ELSE "failed"
  /\ \A w \in Worker : exec[w].terminal => exec[w].collected
  /\ pc # "failed" => \A w \in Worker : exec[w].collected => CollectedFrom(w)
  /\ \A i \in Steps : fate[i] = "skipped" => CollectedFrom(StepWorker(i))
  /\ pc = "final" => \A k \in 1 .. Len(WorkerList) : k < turn => exec[WorkerList[k]].collected
  /\ pc \in {"closing", "complete"} => \A w \in Worker : exec[w].collected

(* It holds when an execution starts.                                        *)
LEMMA ResultInvInit == Init => ResultInv
<1> SUFFICES ASSUME Init PROVE ResultInv
  OBVIOUS
<1>1. Steps = 1 .. Len(WorkerList) * Len(PointList)
  BY StepCount DEF Init
<1>2. QED
  BY <1>1, ListFacts DEF Init, ResultInv

(* The state of a worker that has ended is final.                            *)
LEMMA TerminalStays ==
  ASSUME CoInv, RTP!SlotInv, [Next]_vars, NEW w \in Worker, state[w] \in {"done", "failed"}
  PROVE  state'[w] = state[w]
<1>1. [RTP!Next]_(RTP!vars)
  BY SameRuntime, RuntimeStep DEF RT!vars, RTP!vars
<1>2. RTP!FactsStay(w)
  BY <1>1, RuntimeNil, RTP!FactsStep
<1>3. QED
  BY <1>2 DEF RTP!FactsStay, RTP!Terminal

(* How a collector gets anywhere.                                            *)
LEMMA CollectorMoves ==
  ASSUME CoInv, ControlInv, InvokeInv, [Next]_vars, NEW w \in Worker
  PROVE  \/ coll'[w] = coll[w]
         \/ coll[w] = "none" /\ coll'[w] = "reading"
         \/ coll[w] = "reading" /\ coll'[w] \in {"faulty", "spoiled"}
         \/ coll[w] = "faulty" /\ coll'[w] = "spoiled"
         \/ coll[w] = "reading" /\ coll'[w] = "probing" /\ CollectResult(w)
         \/ coll[w] = "probing" /\ coll'[w] = "ready"
<1>1. CASE InvokeWorker
  <2> DEFINE x == WorkerList[turn]
  <2>1. /\ x \in Worker /\ coll' = [coll EXCEPT ![x] = "reading"]
        /\ mode = "boot" /\ pc = "invoke" /\ turn \in 1 .. Len(WorkerList)
    BY <1>1, ListFacts DEF InvokeWorker, ControlInv, CoInv, CoType
  <2>2. app[x] = "off"
    BY <2>1 DEF InvokeInv, NotYet
  <2> HIDE DEF x
  <2>3. QED
    BY <2>1, <2>2 DEF InvokeInv, CoInv, CoType
<1>2. ASSUME NEW x \in Worker, CollectorStep(x), x # w PROVE coll'[w] = coll[w]
  BY <1>2 DEF CollectorStep, CollectResult, CollectFault, CollectClosed, CollectorCancels,
       CoInv, CoType
<1>3. CASE CollectorStep(w)
  <2>1. CASE CollectResult(w)
    BY <2>1 DEF CollectResult, CoInv, CoType
  <2>2. CASE CollectFault(w) \/ CollectClosed(w) \/ CollectorCancels(w)
    BY <2>2 DEF CollectFault, CollectClosed, CollectorCancels, CoInv, CoType
  <2>3. QED
    BY <1>3, <2>1, <2>2 DEF CollectorStep
<1>4. ASSUME NEW x \in Worker, AppStep(x) PROVE coll' = coll
  BY <1>4 DEF AppStep, AppArrives, AppCanceled, AppPasses, AppRefused, AppEnds
<1>5. CASE \/ UNCHANGED vars \/ Cancel \/ RegisterWorker \/ InvokeRefused \/ ChooseStep
           \/ EnterWait \/ WaitSeesCancel \/ WaitGoesOn \/ WaitAwakes \/ WaitExpires
           \/ ObserveArrived \/ ObserveError \/ ObserveTimeout \/ ObserveEnd \/ Settle
           \/ BeginRelease \/ ReleaseStep \/ ReleaseRefused \/ FinalCollect \/ Complete
  BY <1>5 DEF vars, Cancel, RegisterWorker, InvokeRefused, ChooseStep, EnterWait,
       WaitSeesCancel, WaitGoesOn, WaitAwakes, WaitExpires, ObserveArrived, ObserveError,
       ObserveTimeout, ObserveEnd, Settle, BeginRelease, ReleaseStep, ReleaseRefused,
       FinalCollect, Complete
<1>6. QED
  BY <1>1, <1>2, <1>3, <1>4, <1>5 DEF Next, CoordinatorStep

(* An outcome is written once, when the application ends.                    *)
LEMMA OutcomeStays ==
  ASSUME CoInv, InvokeInv, [Next]_vars, NEW w \in Worker, outcome[w] # "none"
  PROVE  outcome'[w] = outcome[w]
<1>1. app[w] = "ended"
  BY DEF InvokeInv
<1>2. ASSUME NEW x \in Worker, AppEnds(x) PROVE outcome'[w] = outcome[w]
  BY <1>1, <1>2 DEF AppEnds, CoInv, CoType
<1>3. ASSUME NEW x \in Worker, AppStep(x), ~ AppEnds(x) PROVE outcome' = outcome
  BY <1>3 DEF AppStep, AppArrives, AppCanceled, AppPasses, AppRefused, appVars
<1>4. ASSUME NEW x \in Worker, CollectorStep(x) PROVE outcome' = outcome
  BY <1>4 DEF CollectorStep, CollectResult, CollectFault, CollectClosed, CollectorCancels,
       appVars
<1>5. CASE UNCHANGED vars \/ Cancel \/ CoordinatorStep \/ WaitExpires
  BY <1>5 DEF vars, Cancel, CoordinatorStep, RegisterWorker, InvokeWorker, InvokeRefused,
       ChooseStep, EnterWait, WaitSeesCancel, WaitGoesOn, WaitAwakes, WaitExpires,
       ObserveArrived, ObserveError, ObserveTimeout, ObserveEnd, Settle, BeginRelease,
       ReleaseStep, ReleaseRefused, FinalCollect, Complete, appVars
<1>6. QED
  BY <1>2, <1>3, <1>4, <1>5 DEF Next

(* What execute notes of a worker it notes once, from the sent result.       *)
Accepted(w) ==
  /\ Sent(w) /\ exec'[w].collected = TRUE
  /\ exec'[w].terminal = (outcome[w] \in {"ok", "err"})
  /\ coll[w] = "spoiled" => pc' = "failed"

(* An entry of execute's notes changes by an acceptance only.                *)
LEMMA AcceptedOnce ==
  ASSUME CoInv, [Next]_vars, NEW w \in Worker
  PROVE  exec'[w] = exec[w] \/ Accepted(w)
<1>1. ASSUME NEW x \in Worker, NEW to, Collect(x, to) \/ Accept(x, to)
      PROVE  exec'[w] = exec[w] \/ Accepted(w)
  <2> DEFINE e == [collected |-> TRUE, terminal |-> outcome[x] \in {"ok", "err"}]
  <2>1. CASE exec' = exec
    BY <2>1
  <2>2. CASE Accept(x, to)
    <3>1. /\ Sent(x) /\ exec' = [exec EXCEPT ![x] = e]
          /\ coll[x] = "spoiled" => pc' = "failed"
      BY <2>2 DEF Accept, Fail
    <3>2. e.collected = TRUE /\ e.terminal = (outcome[x] \in {"ok", "err"})
      OBVIOUS
    <3> HIDE DEF e
    <3>3. CASE w = x
      <4>1. exec'[w] = e
        BY <3>1, <3>3 DEF CoInv, CoType
      <4>2. QED
        BY <3>1, <3>2, <3>3, <4>1 DEF Accepted
    <3>4. CASE w # x
      BY <3>1, <3>4 DEF CoInv, CoType
    <3>5. QED
      BY <3>3, <3>4
  <2>3. QED
    BY <1>1, <2>1, <2>2 DEF Collect
<1>2. CASE ObserveTimeout \/ ObserveEnd
  <2>1. StepWorker(cur) \in Worker
    BY <1>2, ScheduleFacts DEF ObserveTimeout, ObserveEnd, CoInv, CoType, Waiting
  <2>2. QED
    BY <1>1, <1>2, <2>1 DEF ObserveTimeout, ObserveEnd
<1>3. CASE FinalCollect
  BY <1>1, <1>3, ListFacts DEF FinalCollect, CoInv, CoType
<1>4. CASE UNCHANGED vars \/ Cancel \/ \E x \in Worker : CollectorStep(x) \/ AppStep(x)
  <2>1. UNCHANGED coVars
    BY <1>4, OthersType DEF vars
  <2>2. QED
    BY <2>1 DEF coVars
<1>5. CASE \/ RegisterWorker \/ InvokeWorker \/ InvokeRefused \/ ChooseStep
           \/ EnterWait \/ WaitSeesCancel \/ WaitGoesOn \/ WaitAwakes \/ WaitExpires
           \/ ObserveArrived \/ ObserveError \/ Settle
           \/ BeginRelease \/ ReleaseStep \/ ReleaseRefused \/ Complete
  BY <1>5 DEF RegisterWorker, InvokeWorker, InvokeRefused, ChooseStep, EnterWait,
       WaitSeesCancel, WaitGoesOn, WaitAwakes, WaitExpires, ObserveArrived, ObserveError,
       Settle, BeginRelease, ReleaseStep, ReleaseRefused, Complete, coVars
<1>6. QED
  BY <1>2, <1>3, <1>4, <1>5 DEF Next, CoordinatorStep

(* A step is skipped only when execute knows that its worker has ended.      *)
LEMMA SkippedByEnd ==
  ASSUME CoInv, [Next]_vars, NEW i \in Steps, fate[i] # "skipped", fate'[i] = "skipped"
  PROVE  pc # "failed" /\ Ended(StepWorker(i)) /\ UNCHANGED <<exec, coll>>
<1>1. CASE ChooseStep
  BY <1>1 DEF ChooseStep, BootstrapStep, TraverseStep, DrainStep, BeginWait, CoInv, CoType
<1>2. CASE Settle
  BY <1>2 DEF Settle, CoInv, CoType
<1>3. CASE ReleaseStep
  BY <1>3 DEF ReleaseStep, CoInv, CoType
<1>4. CASE UNCHANGED vars \/ Cancel \/ \E w \in Worker : CollectorStep(w) \/ AppStep(w)
  <2>1. UNCHANGED coVars
    BY <1>4, OthersType DEF vars
  <2>2. QED
    BY <2>1 DEF coVars
<1>5. CASE \/ RegisterWorker \/ InvokeWorker \/ InvokeRefused
           \/ EnterWait \/ WaitSeesCancel \/ WaitGoesOn \/ WaitAwakes \/ WaitExpires
           \/ ObserveArrived \/ ObserveError \/ ObserveTimeout \/ ObserveEnd
           \/ BeginRelease \/ ReleaseRefused \/ FinalCollect \/ Complete
  BY <1>5 DEF RegisterWorker, InvokeWorker, InvokeRefused, EnterWait, WaitSeesCancel,
       WaitGoesOn, WaitAwakes, WaitExpires, ObserveArrived, ObserveError, ObserveTimeout,
       ObserveEnd, BeginRelease, ReleaseRefused, FinalCollect, Complete, coVars
<1>6. QED
  BY <1>1, <1>2, <1>3, <1>4, <1>5 DEF Next, CoordinatorStep

(* The last loop asks every worker in turn.                                  *)
LEMMA FinalMoves ==
  ASSUME CoInv, ControlInv, [Next]_vars, pc' \in {"final", "closing", "complete"}
  PROVE  \/ pc' = pc /\ turn' = turn
         \/ pc' = "final" /\ turn' = 1
         \/ /\ pc = "final" /\ pc' = "final" /\ turn' = turn + 1
            /\ exec'[WorkerList[turn]].collected
         \/ pc = "final" /\ pc' = "closing" /\ LastTurn /\ exec'[WorkerList[turn]].collected
         \/ pc = "closing" /\ pc' = "complete"
<1>1. CASE UNCHANGED vars \/ Cancel \/ \E w \in Worker : CollectorStep(w) \/ AppStep(w)
  <2>1. UNCHANGED coVars
    BY <1>1, OthersType DEF vars
  <2>2. QED
    BY <2>1 DEF coVars
<1>2. ASSUME NEW w \in Worker, NEW to, Collect(w, to), pc' # "failed"
      PROVE  exec'[w].collected /\ pc' = to
  <2> DEFINE e == [collected |-> TRUE, terminal |-> outcome[w] \in {"ok", "err"}]
  <2>1. (exec' = exec /\ exec[w].collected) \/ exec' = [exec EXCEPT ![w] = e]
    BY <1>2 DEF Collect, Accept, Fail
  <2>2. e.collected
    OBVIOUS
  <2> HIDE DEF e
  <2>3. exec'[w].collected
    BY <2>1, <2>2 DEF CoInv, CoType
  <2>4. pc' = to
    BY <1>2 DEF Collect, Accept, Emit, Go, Fail
  <2>5. QED
    BY <2>3, <2>4
<1>3. CASE FinalCollect
  <2>1. WorkerList[turn] \in Worker
    BY ListFacts DEF CoInv, CoType
  <2>2. CASE LastTurn
    BY <1>2, <1>3, <2>1, <2>2 DEF FinalCollect
  <2>3. CASE ~ LastTurn
    BY <1>2, <1>3, <2>1, <2>3 DEF FinalCollect
  <2>4. QED
    BY <2>2, <2>3
<1>4. CASE Complete
  BY <1>4 DEF Complete, Emit, Go, Fail
<1>5. CASE ChooseStep
  <2>1. CASE BootstrapStep \/ TraverseStep
    BY <1>5, <2>1, NextStepIs DEF ChooseStep, BootstrapStep, TraverseStep, BeginWait, Go, Fail
  <2>2. CASE DrainStep
    BY <1>5, <2>2 DEF ChooseStep, DrainStep, BeginWait, Emit, Go, Fail
  <2>3. QED
    BY <1>5, <2>1, <2>2 DEF ChooseStep
<1>6. CASE \/ EnterWait \/ WaitSeesCancel \/ WaitGoesOn \/ WaitAwakes \/ WaitExpires
           \/ RegisterWorker \/ InvokeWorker \/ InvokeRefused
           \/ BeginRelease \/ ReleaseRefused \/ ObserveTimeout \/ ObserveEnd \/ ObserveError
  BY <1>6 DEF EnterWait, WaitSeesCancel, WaitGoesOn, WaitAwakes, WaitExpires, UpToDate, coVars,
       RegisterWorker, InvokeWorker, InvokeRefused, BeginRelease, ReleaseRefused,
       ObserveTimeout, ObserveEnd, ObserveError, Collect, Accept, Emit, Go, Fail
<1>7. CASE ObserveArrived \/ Settle \/ ReleaseStep
  BY <1>7, NextStepIs DEF ObserveArrived, Settle, ReleaseStep, Emit, Go, Fail
<1>8. QED
  BY <1>1, <1>3, <1>4, <1>5, <1>6, <1>7 DEF Next, CoordinatorStep

(* Every step of an execution keeps it.                                      *)
LEMMA ResultInvStep ==
  ASSUME CoInv, ControlInv, InvokeInv, ResultInv, RTP!SlotInv, [Next]_vars
  PROVE  ResultInv'
<1>1. ASSUME NEW w \in Worker, coll'[w] \in {"probing", "ready"}
      PROVE  /\ outcome'[w] \in {"ok", "err"}
             /\ state'[w] = IF outcome'[w] = "ok" THEN "done" ELSE "failed"
  <2>1. CASE CollectResult(w)
    <3>1. /\ outcome[w] \in {"ok", "err"} /\ outcome' = outcome
          /\ state' = [state EXCEPT ![w] = IF outcome[w] = "ok" THEN "done" ELSE "failed"]
      BY <2>1 DEF CollectResult, RT!Finish, appVars
    <3>2. QED
      BY <3>1 DEF RTP!SlotInv, RTP!TypeOK
  <2>2. CASE coll[w] \in {"probing", "ready"}
    <3>1. /\ outcome[w] \in {"ok", "err"}
          /\ state[w] = IF outcome[w] = "ok" THEN "done" ELSE "failed"
      BY <2>2 DEF ResultInv
    <3>2. outcome'[w] = outcome[w] /\ state'[w] = state[w]
      BY <3>1, OutcomeStays, TerminalStays
    <3>3. QED
      BY <3>1, <3>2
  <2>3. QED
    BY <1>1, <2>1, <2>2, CollectorMoves
<1>2. ASSUME NEW w \in Worker, CollectedFrom(w) PROVE CollectedFrom(w)'
  <2>1. coll'[w] = "ready"
    BY <1>2, CollectorMoves DEF CollectedFrom
  <2>2. exec'[w] = exec[w]
    BY <1>2, AcceptedOnce DEF CollectedFrom, Accepted, Sent, ResultInv
  <2>3. QED
    BY <1>2, <2>1, <2>2 DEF CollectedFrom
<1>3. ASSUME NEW w \in Worker, exec'[w].terminal PROVE exec'[w].collected
  BY <1>3, AcceptedOnce DEF Accepted, ResultInv
<1>4. ASSUME NEW w \in Worker, exec'[w].collected, pc' # "failed" PROVE CollectedFrom(w)'
  <2>1. CASE Accepted(w)
    <3>1. coll[w] = "ready"
      BY <1>4, <2>1 DEF Accepted, Sent
    <3>2. outcome[w] \in {"ok", "err"} /\ coll'[w] = "ready"
      BY <3>1, CollectorMoves DEF ResultInv
    <3>3. QED
      BY <2>1, <3>2 DEF Accepted, CollectedFrom
  <2>2. CASE exec'[w] = exec[w]
    <3>1. pc # "failed"
      BY <1>4, ScheduleStays DEF coVars
    <3>2. QED
      BY <1>2, <1>4, <2>2, <3>1 DEF ResultInv
  <2>3. QED
    BY <2>1, <2>2, AcceptedOnce
<1>5. UNCHANGED schedule /\ Steps' = Steps /\ \A i \in Steps : StepWorker(i) \in Worker
  <2>1. UNCHANGED schedule
    BY ScheduleStays
  <2>2. QED
    BY <2>1, ScheduleFacts DEF Steps, CoInv, CoType
<1>6. ASSUME NEW i \in Steps, fate'[i] = "skipped" PROVE CollectedFrom(StepWorker(i))'
  <2>1. CASE fate[i] = "skipped"
    <3>1. CollectedFrom(StepWorker(i))
      BY <2>1 DEF ResultInv
    <3>2. QED
      BY <1>2, <1>5, <3>1 DEF CollectedFrom, StepWorker
  <2>2. CASE fate[i] # "skipped"
    <3>1. pc # "failed" /\ exec[StepWorker(i)].terminal
      BY <1>6, <2>2, SkippedByEnd DEF Ended
    <3>2. CollectedFrom(StepWorker(i))
      BY <1>5, <3>1 DEF ResultInv
    <3>3. QED
      BY <1>2, <1>5, <3>2 DEF CollectedFrom, StepWorker
  <2>3. QED
    BY <2>1, <2>2
<1>7. ASSUME NEW w \in Worker, exec[w].collected PROVE exec'[w].collected
  BY <1>7, AcceptedOnce DEF Accepted
<1>8. ASSUME pc' = "final", NEW k \in 1 .. Len(WorkerList), k < turn'
      PROVE  exec'[WorkerList[k]].collected
  <2>1. WorkerList[k] \in Worker
    BY ListFacts
  <2>2. CASE pc = "final" /\ turn' = turn
    BY <1>7, <1>8, <2>1, <2>2 DEF ResultInv
  <2>3. CASE turn' = 1
    BY <1>8, <2>3
  <2>4. CASE pc = "final" /\ turn' = turn + 1 /\ exec'[WorkerList[turn]].collected
    <3>1. turn \in 1 .. Len(WorkerList)
      BY DEF CoInv, CoType
    <3>2. k < turn \/ k = turn
      BY <1>8, <2>4, <3>1
    <3>3. QED
      BY <1>7, <2>1, <2>4, <3>2 DEF ResultInv
  <2>5. QED
    BY <1>8, <2>2, <2>3, <2>4, FinalMoves
<1>9. ASSUME pc' \in {"closing", "complete"}, NEW w \in Worker
      PROVE  exec'[w].collected
  <2>1. CASE pc \in {"closing", "complete"}
    BY <1>7, <2>1 DEF ResultInv
  <2>2. CASE pc = "final" /\ LastTurn /\ exec'[WorkerList[turn]].collected
    <3>1. PICK k \in 1 .. Len(WorkerList) : WorkerList[k] = w
      BY ListFacts
    <3>2. k < turn \/ k = turn
      BY <2>2, <3>1, ListFacts DEF LastTurn
    <3>3. QED
      BY <1>7, <2>2, <3>1, <3>2 DEF ResultInv
  <2>3. QED
    BY <1>9, <2>1, <2>2, FinalMoves
<1>10. QED
  BY <1>1, <1>3, <1>4, <1>5, <1>6, <1>8, <1>9 DEF ResultInv

(* What is skipped has ended with an accepted result, and a schedule that    *)
(* completes left no step and no worker open, whatever timed out, was        *)
(* canceled or arrived late on the way.                                      *)
THEOREM AccountsCorrect == Spec => []StepsAccounted
<1>1. CoInv /\ ControlInv /\ CoverInv /\ InvokeInv /\ ResultInv => StepsAccounted
  <2> SUFFICES ASSUME CoInv, ControlInv, CoverInv, InvokeInv, ResultInv
               PROVE  StepsAccounted
    OBVIOUS
  <2>1. ASSUME NEW w \in Worker, CollectedFrom(w)
        PROVE  /\ app[w] = "ended" /\ exec[w].terminal
               /\ state[w] = IF outcome[w] = "ok" THEN "done" ELSE "failed"
    BY <2>1 DEF CollectedFrom, ResultInv, InvokeInv
  <2>2. SkippedHasEnded
    <3> SUFFICES ASSUME NEW i \in Steps, fate[i] = "skipped"
                 PROVE  /\ app[StepWorker(i)] = "ended" /\ exec[StepWorker(i)].terminal
                        /\ state[StepWorker(i)] \in RT!Terminal
      BY DEF SkippedHasEnded
    <3>1. StepWorker(i) \in Worker /\ CollectedFrom(StepWorker(i))
      BY ScheduleFacts DEF ResultInv, CoInv, CoType
    <3>2. QED
      BY <2>1, <3>1 DEF RT!Terminal
  <2>3. CompleteIsSettled
    <3> SUFFICES ASSUME pc = "complete" PROVE CompleteIsSettled
      BY DEF CompleteIsSettled
    <3>1. mode = "final" /\ pending = {}
      BY DEF ControlInv
    <3>2. \A i \in Steps : fate[i] # "open"
      BY <3>1 DEF CoverInv, Kept
    <3>3. \A w \in Worker : CollectedFrom(w)
      BY DEF ResultInv
    <3>4. QED
      BY <2>1, <3>1, <3>2, <3>3 DEF CompleteIsSettled
  <2>4. QED
    BY <2>2, <2>3 DEF StepsAccounted
<1>2. RTP!TypeOK /\ RTP!ArrivalsKept => RTP!SlotInv
  BY DEF RTP!ArrivalsKept, RTP!SlotInv
<1>3. QED
  BY <1>1, <1>2, CoInvInit, ControlInvInit, InvokeInvInit, ResultInvInit, CoInvStep,
     ControlInvStep, CoverInvStep, InvokeInvStep, ResultInvStep, RuntimeKept, PTL DEF Spec

-----------------------------------------------------------------------------
(* What one execution says of its workers: the trace tells what the workers  *)
(* did, and the runtime refuses no call of the coordinator while the workers *)
(* keep to the declared order.                                               *)

(* Where the loops are.  A bootstrap wait is for the first step of its       *)
(* worker, traverse waits for no step behind a pending one of its worker,    *)
(* and no step is waited for, pending or reached after its release.          *)
PlanInv ==
  /\ mode = "boot" => \A i \in Steps : fate[i] = "open"
  /\ mode = "boot" /\ (Waiting \/ pc = "step") =>
       \A j \in Steps : j < cur => StepWorker(j) # StepWorker(cur)
  /\ mode = "traverse" => \A i \in Steps : i >= cur => fate[i] = "open"
  /\ mode = "traverse" /\ (Waiting \/ Releasing) =>
       cur \notin pending \cup preObserved /\ ~ HasPendingPredecessor(cur)
  /\ \A i \in pending : fate[i] # "released"
  /\ Releasing => fate[cur] # "released"

(* It holds when an execution starts.                                        *)
LEMMA PlanInvInit == Init => PlanInv
<1> SUFFICES ASSUME Init PROVE PlanInv
  OBVIOUS
<1>1. Steps = 1 .. Len(WorkerList) * Len(PointList)
  BY StepCount DEF Init
<1>2. QED
  BY <1>1 DEF Init, PlanInv, Waiting, Releasing

(* The current step has not been released yet.                               *)
LEMMA CurrentUnreleased ==
  ASSUME CoInv, ControlInv, PlanInv, Waiting \/ Releasing
  PROVE  cur \in Steps /\ mode # "final" /\ fate[cur] # "released"
<1>1. cur \in Steps /\ mode \in {"boot", "traverse", "drain"}
  BY DEF CoInv, CoType, ControlInv, Waiting, Releasing
<1>2. cur \in Nat
  BY <1>1, ScheduleFacts DEF CoInv, CoType
<1>3. cur >= cur
  BY <1>2
<1>4. CASE mode \in {"boot", "traverse"}
  BY <1>1, <1>3, <1>4 DEF PlanInv
<1>5. CASE mode = "drain"
  BY <1>1, <1>5 DEF PlanInv, ControlInv
<1>6. QED
  BY <1>1, <1>4, <1>5

(* Every step of an execution keeps it.                                      *)
LEMMA PlanInvStep == CoInv /\ ControlInv /\ PlanInv /\ [Next]_vars => PlanInv'
<1> SUFFICES ASSUME CoInv, ControlInv, PlanInv, [Next]_vars PROVE PlanInv'
  OBVIOUS
<1>1. UNCHANGED schedule /\ Steps' = Steps
      /\ \A i \in Steps : i \in Nat /\ 1 <= i /\ i <= Len(schedule)
  BY ScheduleStays, ScheduleFacts DEF Steps, CoInv, CoType
<1>2. \A i : StepWorker(i)' = StepWorker(i)
  BY <1>1 DEF StepWorker
<1>3. CASE UNCHANGED coVars
  BY <1>1, <1>2, <1>3 DEF coVars, PlanInv, Waiting, Releasing, HasPendingPredecessor
(* a step that stays where it is and releases nothing *)
<1>4. ASSUME UNCHANGED <<mode, cur, preObserved, pending, fate>>,
             pc' \in {"invoke", "register"} => mode = "boot",
             pc' = "step" => mode # "boot",
             Waiting' => Waiting, Releasing' => Releasing
      PROVE  PlanInv'
  BY <1>1, <1>2, <1>4 DEF PlanInv, HasPendingPredecessor
<1>5. ASSUME NEW e \in BOOLEAN, NextStep(e), mode # "final", cur \in Steps,
             mode = "boot" => fate' = fate,
             \A i \in Steps : i # cur => fate'[i] = fate[i],
             \A i \in pending' : fate'[i] # "released"
      PROVE  PlanInv'
  <2>1. ~ Waiting' /\ ~ Releasing'
    BY <1>5, NextStepIs DEF Waiting, Releasing
  <2>2. mode' = "boot" => pc' # "step" /\ mode = "boot"
    BY <1>5, NextStepIs
  <2>3. mode' = "traverse" => \A i \in Steps : i >= cur' => fate'[i] = "open"
    <3>1. CASE mode = "boot"
      BY <1>5, <3>1 DEF PlanInv
    <3>2. CASE mode = "traverse" /\ cur' = cur + 1
      <4>1. \A i \in Steps : i >= cur' => i >= cur /\ i # cur
        BY <1>1, <1>5, <3>2
      <4>2. QED
        BY <1>5, <3>2, <4>1 DEF PlanInv
    <3>3. QED
      BY <1>5, <3>1, <3>2, NextStepIs
  <2>4. QED
    BY <1>1, <1>5, <2>1, <2>2, <2>3 DEF PlanInv
<1>6. CASE RegisterWorker \/ InvokeRefused
  <2>1. /\ UNCHANGED <<mode, cur, preObserved, pending, fate>>
        /\ pc \in {"register", "invoke"} /\ pc' \in {"register", "invoke", "failed"}
    BY <1>6 DEF RegisterWorker, InvokeRefused, Emit, Go, Fail
  <2>2. QED
    BY <1>4, <2>1 DEF ControlInv, Waiting, Releasing
<1>7. CASE InvokeWorker
  <2> DEFINE w == WorkerList[turn]
  <2>1. /\ w \in Worker /\ cur' = FirstStep(w) /\ mode = "boot"
        /\ UNCHANGED <<mode, preObserved, pending, fate>> /\ pc' \in {"step", "failed"}
    BY <1>7, ListFacts DEF InvokeWorker, ControlInv, CoInv, CoType, Emit, Go, Fail
  <2>2. /\ FirstStep(w) \in Steps /\ StepWorker(FirstStep(w)) = w
        /\ \A j \in 1 .. FirstStep(w) - 1 : StepWorker(j) # w
    BY <2>1, FirstStepIs DEF CoInv, CoType
  <2> HIDE DEF w
  <2>3. \A j \in Steps : j < cur' => StepWorker(j) # StepWorker(cur')
    <3> DEFINE f == FirstStep(w)
    <3>1. f \in Nat
      BY <1>1, <2>2
    <3> HIDE DEF f
    <3>2. \A j \in Steps : j < f => j \in 1 .. f - 1
      BY <1>1, <3>1
    <3>3. QED
      BY <2>1, <2>2, <3>2 DEF f
  <2>4. QED
    BY <1>1, <1>2, <2>1, <2>3 DEF PlanInv, Waiting, Releasing
<1>8. CASE ChooseStep
  <2>1. pc = "step" /\ mode # "final"
    BY <1>8 DEF ChooseStep, ControlInv
  <2>2. CASE BootstrapStep
    <3>1. /\ mode = "boot" /\ UNCHANGED <<mode, cur, preObserved, pending, fate>>
          /\ pc' \in {"enter", "failed"}
      BY <2>2 DEF BootstrapStep, BeginWait, Go, Fail
    <3>2. QED
      BY <1>1, <1>2, <2>1, <3>1 DEF PlanInv, Waiting, Releasing
  <2>3. CASE TraverseStep
    <3>0. cur \in Steps /\ mode = "traverse"
      BY <2>3 DEF TraverseStep, CoInv, CoType
    <3>1. ASSUME NEW e \in BOOLEAN, NextStep(e),
                 \/ fate' = [fate EXCEPT ![cur] = "skipped"] /\ pending' = pending
                 \/ pending' = pending \cup {cur} /\ fate' = fate
          PROVE  PlanInv'
      <4>1. fate[cur] = "open"
        BY <1>1, <3>0 DEF PlanInv
      <4>2. /\ \A i \in Steps : i # cur => fate'[i] = fate[i]
            /\ \A i \in pending' : fate'[i] # "released"
        BY <3>0, <3>1, <4>1, ZenonT(60) DEF PlanInv, CoInv, CoType
      <4>3. QED
        BY <1>5, <2>1, <3>0, <3>1, <4>2
    <3>2. CASE /\ ~ (cur \in pending \/ HasPendingPredecessor(cur))
               /\ preObserved' = preObserved \ {cur} /\ Go("release")
               /\ UNCHANGED <<mode, turn, cur, pending, progressed, fate>>
      BY <1>1, <1>2, <3>0, <3>2 DEF Go, PlanInv, Waiting, Releasing, HasPendingPredecessor
    <3>3. CASE /\ ~ (cur \in pending \/ HasPendingPredecessor(cur))
               /\ cur \notin preObserved /\ BeginWait(cur)
      <4>1. UNCHANGED <<mode, cur, preObserved, pending, fate>> /\ pc' \in {"enter", "failed"}
        BY <3>3 DEF BeginWait, Go, Fail
      <4>2. QED
        BY <1>1, <1>2, <3>0, <3>3, <4>1 DEF PlanInv, Waiting, Releasing, HasPendingPredecessor
    <3>4. QED
      BY <2>3, <3>1, <3>2, <3>3 DEF TraverseStep
  <2>4. CASE DrainStep
    <3>1. mode = "drain" /\ mode' \in {"drain", "final"} /\ ~ Releasing'
      BY <2>4 DEF DrainStep, BeginWait, Emit, Go, Fail, Releasing
    <3>2. \A i \in pending' : i \in pending /\ fate'[i] # "released"
      BY <2>4, ZenonT(60) DEF DrainStep, BeginWait, PlanInv, CoInv, CoType
    <3>3. QED
      BY <3>1, <3>2 DEF PlanInv
  <2>5. QED
    BY <1>8, <2>2, <2>3, <2>4 DEF ChooseStep
<1>9. CASE EnterWait \/ WaitSeesCancel \/ WaitGoesOn \/ WaitAwakes \/ WaitExpires
  <2>1. /\ UNCHANGED <<mode, cur, preObserved, pending, fate>>
        /\ pc \in {"enter", "waiting"} /\ pc' \in {"waiting", "observed"}
    BY <1>9 DEF EnterWait, WaitSeesCancel, WaitGoesOn, WaitAwakes, WaitExpires, UpToDate,
         Go, coVars
  <2>2. QED
    BY <1>4, <2>1 DEF Waiting, Releasing
<1>10. CASE ObserveError \/ ObserveTimeout \/ ObserveEnd
  <2>1. /\ UNCHANGED <<mode, cur, preObserved, pending, fate>>
        /\ pc = "observed" /\ pc' \in {"settle", "failed"}
    BY <1>10 DEF ObserveError, ObserveTimeout, ObserveEnd, Collect, Accept, Emit, Go, Fail
  <2>2. QED
    BY <1>4, <2>1 DEF Waiting, Releasing
<1>11. CASE ObserveArrived
  <2>1. pc = "observed" /\ cur \in Steps /\ mode # "final" /\ fate' = fate
    BY <1>11 DEF ObserveArrived, CoInv, ControlInv, Waiting
  <2>2. CASE mode = "boot"
    BY <1>5, <1>11, <2>1, <2>2 DEF ObserveArrived, PlanInv
  <2>3. CASE mode # "boot"
    <3>1. /\ pending' = pending \ {cur} /\ UNCHANGED <<mode, cur, preObserved>>
          /\ pc' \in {"release", "failed"}
      BY <1>11, <2>3 DEF ObserveArrived, Emit, Go, Fail
    <3>2. fate[cur] # "released"
      BY <2>1, CurrentUnreleased DEF Waiting
    <3>3. QED
      BY <1>1, <1>2, <2>1, <2>3, <3>1, <3>2
         DEF PlanInv, Waiting, Releasing, HasPendingPredecessor
  <2>4. QED
    BY <2>2, <2>3
<1>12. CASE Settle
  <2>1. pc = "settle" /\ cur \in Steps /\ mode # "final"
    BY <1>12 DEF Settle, CoInv, ControlInv, Waiting
  <2>2. fate[cur] # "released"
    BY <2>1, CurrentUnreleased DEF Waiting
  <2>3. /\ mode = "boot" => fate' = fate
        /\ \A i \in Steps : i # cur => fate'[i] = fate[i]
        /\ \A i \in pending' : fate'[i] # "released"
    BY <1>12, <2>1, <2>2, ZenonT(60) DEF Settle, PlanInv, CoInv, CoType
  <2>4. QED
    BY <1>5, <1>12, <2>1, <2>3 DEF Settle
<1>13. CASE ReleaseStep
  <2>1. /\ pc = "releasing" /\ cur \in Steps /\ mode \in {"traverse", "drain"}
        /\ pending' = pending /\ fate' = [fate EXCEPT ![cur] = "released"]
    BY <1>13 DEF ReleaseStep, CoInv, ControlInv, Releasing
  <2>2. cur \notin pending
    BY <2>1 DEF PlanInv, ControlInv, Releasing
  <2>3. /\ \A i \in Steps : i # cur => fate'[i] = fate[i]
        /\ \A i \in pending' : fate'[i] # "released"
    BY <2>1, <2>2 DEF PlanInv, CoInv, CoType
  <2>4. QED
    BY <1>5, <1>13, <2>1, <2>3 DEF ReleaseStep
<1>14. CASE BeginRelease \/ ReleaseRefused
  <2>1. /\ UNCHANGED <<mode, cur, preObserved, pending, fate>>
        /\ pc \in {"release", "releasing"} /\ pc' \in {"releasing", "failed"}
    BY <1>14 DEF BeginRelease, ReleaseRefused, Go, Fail
  <2>2. QED
    BY <1>4, <2>1 DEF Waiting, Releasing
<1>15. CASE FinalCollect \/ Complete
  <2>1. /\ UNCHANGED <<mode, cur, preObserved, pending, fate>>
        /\ pc' \in {"final", "closing", "complete", "failed"}
    BY <1>15 DEF FinalCollect, Complete, Collect, Accept, Emit, Go, Fail
  <2>2. QED
    BY <1>4, <2>1 DEF Waiting, Releasing
<1>16. QED
  BY <1>3, <1>6, <1>7, <1>8, <1>9, <1>10, <1>11, <1>12, <1>13, <1>14, <1>15, OthersType
     DEF Next, CoordinatorStep, vars

-----------------------------------------------------------------------------
(* The workers.  A worker is inside Arrive exactly while its application is  *)
(* parked, in a call of its own, and leaves it early only after the end of   *)
(* the context; nobody closes the runtime while execute runs.                *)
PlaceOf(w) ==
  /\ app[w] = "parked" <=> arrive[w].pc = "blocked"
  /\ arrive[w].pc = "blocked" => arrive[w].worker = w
  /\ ~ arrive[w].shut
  /\ arrive[w].canceled => ctxDone

PlaceInv == ~ closed /\ \A w \in Worker : PlaceOf(w)

(* What the runtime keeps whoever calls it.                                  *)
RtInv == RTP!TypeOK /\ RTP!ArrivalsKept /\ RTP!WaitsKept

Granted(w) == arrive[w].pc = "blocked" /\ arrive[w].released

(* The points w has passed, the release it has not woken up to included.     *)
Passed(w) == visits[w] + IF Granted(w) THEN 1 ELSE 0

(* It holds when an execution starts.                                        *)
LEMMA PlaceInvInit == Init => PlaceInv
BY DEF Init, PlaceInv, PlaceOf, RT!Init, RT!NoArrive

(* The runtime knows the arrival of a worker as the one it is parked in.     *)
LEMMA OwnArrival ==
  ASSUME RtInv, PlaceInv, NEW w \in Worker
  PROVE  /\ state[w] = "arrived" <=> app[w] = "parked" /\ ~ arrive[w].released
         /\ state[w] = "arrived" => arrival[w] = w
<1>1. ASSUME state[w] = "arrived"
      PROVE  app[w] = "parked" /\ ~ arrive[w].released /\ arrival[w] = w
  <2>1. arrival[w] \in Worker
    BY <1>1 DEF RtInv, RTP!ArrivalsKept, RTP!ParkedExactly, RTP!TypeOK
  <2>2. RTP!Parked(arrival[w]) /\ arrive[arrival[w]].worker = w
    BY <1>1, <2>1 DEF RtInv, RTP!ArrivalsKept, RTP!ParkedExactly
  <2>3. arrival[w] = w
    BY <2>1, <2>2 DEF RTP!Parked, PlaceInv, PlaceOf
  <2>4. QED
    BY <2>2, <2>3 DEF RTP!Parked, PlaceInv, PlaceOf
<1>2. ASSUME app[w] = "parked", ~ arrive[w].released PROVE state[w] = "arrived"
  <2>1. RTP!Parked(w) /\ arrive[w].worker = w
    BY <1>2 DEF RTP!Parked, PlaceInv, PlaceOf
  <2>2. QED
    BY <2>1 DEF RtInv, RTP!ArrivalsKept, RTP!ParkedExactly
<1>3. QED
  BY <1>1, <1>2

(* The types the moves of a worker are about.                                *)
LEMMA MoveTypes ==
  ASSUME CoInv, RtInv
  PROVE  /\ state \in [Worker -> RTP!WorkerState] /\ point \in [Worker -> Point \cup {Nil}]
         /\ arrival \in [Worker -> Worker \cup {Nil}]
         /\ arrive \in [Worker -> RTP!ArriveCall]
         /\ app \in [Worker -> {"off", "code", "parked", "failing", "ended"}]
         /\ visits \in [Worker -> 0 .. Len(PointList)]
BY DEF RtInv, RTP!TypeOK, CoInv, CoType

(* How one step moves a worker.                                              *)
Stays(w) ==
  /\ state'[w] = state[w] /\ point'[w] = point[w]
  /\ app[w] \in {"failing", "ended"} => app'[w] \in {"failing", "ended"}
  /\ Passed(w)' = Passed(w)

Registers(w) == /\ state[w] = "unknown" /\ state'[w] = "running"
                /\ app'[w] = app[w] /\ Passed(w)' = Passed(w)

TimesOut(w) ==
  /\ pc = "waiting" /\ ~ ctxDone /\ w = StepWorker(cur)
  /\ RT!WaitStatus(w, StepPoint(cur)) = "none"
  /\ state'[w] = "db_blocked" /\ point'[w] = StepPoint(cur)
  /\ app'[w] = app[w] /\ Passed(w)' = Passed(w)

Releases(w) ==
  /\ ReleaseStep /\ w = StepWorker(cur)
  /\ state[w] = "arrived" /\ point[w] = StepPoint(cur)
  /\ state'[w] = "released" /\ point'[w] = point[w]
  /\ app'[w] = app[w] /\ Passed(w)' = Passed(w) + 1

Arrives(w) ==
  /\ app[w] = "code" /\ app'[w] = "parked"
  /\ point'[w] \in Reach(w) /\ RT!CanArrive(w, point'[w])
  /\ state'[w] = "arrived" /\ Passed(w) = visits[w] /\ Passed(w)' = Passed(w)

Withdraws(w) ==
  /\ state[w] = "arrived" /\ ctxDone
  /\ app'[w] = "failing" /\ state'[w] = "running" /\ Passed(w)' = Passed(w)

Finishes(w) ==
  /\ CollectResult(w)
  /\ state'[w] \in {"done", "failed"} /\ app'[w] = app[w] /\ Passed(w)' = Passed(w)

Moves(w) == \/ Stays(w) \/ Registers(w) \/ TimesOut(w) \/ Releases(w)
            \/ Arrives(w) \/ Withdraws(w) \/ Finishes(w)

(* A step that leaves the call and the place of w alone.                     *)
LEMMA SamePlace ==
  ASSUME PlaceInv, NEW w \in Worker, arrive'[w] = arrive[w], app'[w] = app[w],
         visits'[w] = visits[w], ctxDone => ctxDone'
  PROVE  PlaceOf(w)' /\ Passed(w)' = Passed(w)
BY DEF PlaceInv, PlaceOf, Passed, Granted

(* The application of w moves, and the runtime does what it is asked.        *)
LEMMA AppMoves ==
  ASSUME CoInv, RtInv, PlaceInv, NEW x \in Worker, AppStep(x), NEW w \in Worker
  PROVE  PlaceOf(w)' /\ Moves(w)
<1> USE MoveTypes
<1>0. UNCHANGED ctxDone
  BY DEF AppStep, AppArrives, AppCanceled, AppPasses, AppRefused, AppEnds
<1>1. arrive[w].pc \in {"idle", "blocked"} /\ arrive[w] \in RTP!ArriveCall
  BY DEF RTP!ArriveCall
<1>2. CASE AppEnds(x)
  <2>1. UNCHANGED <<state, point, arrive, visits>>
        /\ app[x] \in {"code", "failing"} /\ app' = [app EXCEPT ![x] = "ended"]
    BY <1>2 DEF AppEnds, rtVars
  <2>2. QED
    BY <1>0, <2>1 DEF PlaceInv, PlaceOf, Passed, Granted, Moves, Stays
<1>3. CASE AppArrives(x)
  <2>1. PICK p \in Reach(x) :
          \/ RT!ArriveBlocks(x, x, p) /\ app' = [app EXCEPT ![x] = "parked"]
          \/ app' = [app EXCEPT ![x] = "failing"] /\ UNCHANGED rtVars
    BY <1>3 DEF AppArrives
  <2>2. app[x] = "code" /\ visits' = visits
    BY <1>3 DEF AppArrives
  <2>3. CASE app' = [app EXCEPT ![x] = "failing"] /\ UNCHANGED rtVars
    BY <1>0, <2>2, <2>3 DEF rtVars, PlaceInv, PlaceOf, Passed, Granted, Moves, Stays
  <2>4. CASE RT!ArriveBlocks(x, x, p) /\ app' = [app EXCEPT ![x] = "parked"]
    <3> DEFINE new == [RT!NoArrive("none") EXCEPT !.pc = "blocked", !.worker = x]
    <3>1. /\ new.pc = "blocked" /\ new.worker = x /\ ~ new.released /\ ~ new.shut
          /\ ~ new.canceled
      BY DEF RT!NoArrive
    <3>2. arrive' = [arrive EXCEPT ![x] = new] /\ arrive[x].pc = "idle" /\ RT!CanArrive(x, p)
          /\ state' = [state EXCEPT ![x] = "arrived"] /\ point' = [point EXCEPT ![x] = p]
      BY <2>4 DEF RT!ArriveBlocks
    <3> HIDE DEF new
    <3>3. CASE w = x
      BY <1>0, <2>2, <2>4, <3>1, <3>2, <3>3
         DEF PlaceInv, PlaceOf, Passed, Granted, Moves, Arrives
    <3>4. CASE w # x
      BY <1>0, <2>2, <2>4, <3>2, <3>4, SamePlace DEF Moves, Stays
    <3>5. QED
      BY <3>3, <3>4
  <2>5. QED
    BY <2>1, <2>3, <2>4
<1>4. CASE AppCanceled(x)
  <2>1. /\ ctxDone /\ UNCHANGED <<state, point, app, visits>>
        /\ arrive' = [arrive EXCEPT ![x].canceled = TRUE]
    BY <1>4 DEF AppCanceled, RT!CancelArrive, appVars
  <2>2. /\ arrive'[w].pc = arrive[w].pc /\ arrive'[w].released = arrive[w].released
        /\ arrive'[w].shut = arrive[w].shut /\ arrive'[w].worker = arrive[w].worker
    BY <1>1, <2>1 DEF RTP!ArriveCall
  <2>3. QED
    BY <1>0, <2>1, <2>2 DEF PlaceInv, PlaceOf, Passed, Granted, Moves, Stays
<1>5. CASE AppPasses(x)
  <2>1. /\ app[x] = "parked" /\ arrive[x].released /\ app' = [app EXCEPT ![x] = "code"]
        /\ visits' = [visits EXCEPT ![x] = @ + 1] /\ UNCHANGED <<state, point>>
        /\ arrive' = [arrive EXCEPT ![x] = RT!NoArrive("nil")] /\ arrive[x].pc = "blocked"
    BY <1>5 DEF AppPasses, RT!ArriveReleased, RT!ArriveAwake
  <2>2. CASE w = x
    <3>1. /\ arrive'[w].pc = "idle" /\ ~ arrive'[w].shut /\ ~ arrive'[w].canceled
          /\ app'[w] = "code" /\ visits'[w] = visits[w] + 1 /\ Granted(w)
      BY <2>1, <2>2 DEF RT!NoArrive, Granted
    <3>2. visits[w] \in Nat
      BY ListFacts
    <3>3. QED
      BY <1>0, <2>1, <2>2, <3>1, <3>2 DEF PlaceOf, Passed, Granted, Moves, Stays
  <2>3. CASE w # x
    BY <1>0, <2>1, <2>3, SamePlace DEF Moves, Stays
  <2>4. QED
    BY <2>2, <2>3
<1>6. CASE AppRefused(x)
  <2>1. /\ app[x] = "parked" /\ ~ arrive[x].released /\ arrive[x].canceled
        /\ arrive[x].pc = "blocked" /\ arrive[x].worker = x
    BY <1>6 DEF AppRefused, RT!ArriveCanceled, RT!ArriveAwake, PlaceInv, PlaceOf
  <2>2. state[x] = "arrived" /\ arrival[x] = x /\ ctxDone
    BY <2>1, OwnArrival DEF PlaceInv, PlaceOf
  <2>3. /\ app' = [app EXCEPT ![x] = "failing"] /\ visits' = visits
        /\ arrive' = [arrive EXCEPT ![x] = RT!NoArrive("ctx")]
        /\ state' = [state EXCEPT ![x] = "running"] /\ point' = [point EXCEPT ![x] = Nil]
    BY <1>6, <2>1, <2>2 DEF AppRefused, RT!ArriveCanceled
  <2>4. CASE w = x
    <3>1. /\ arrive'[w].pc = "idle" /\ ~ arrive'[w].shut /\ ~ arrive'[w].canceled
          /\ app'[w] = "failing"
      BY <2>3, <2>4 DEF RT!NoArrive
    <3>2. QED
      BY <1>0, <2>1, <2>2, <2>3, <2>4, <3>1 DEF PlaceOf, Passed, Granted, Moves, Withdraws
  <2>5. CASE w # x
    BY <1>0, <2>3, <2>5, SamePlace DEF Moves, Stays
  <2>6. QED
    BY <2>4, <2>5
<1>7. QED
  BY <1>2, <1>3, <1>4, <1>5, <1>6 DEF AppStep

(* The coordinator is inside WaitArrive exactly while it waits, for the      *)
(* current step.                                                             *)
CallInv ==
  /\ pc = "waiting" <=> wait[Coord].pc = "waiting"
  /\ pc = "waiting" => /\ wait[Coord].worker = StepWorker(cur)
                       /\ wait[Coord].point = StepPoint(cur)
  /\ wait[Coord].canceled => ctxDone

(* A worker is only moved by its own application, its collector, and what    *)
(* the coordinator does with the current step.                               *)
LEMMA WorkerMoves ==
  ASSUME CoInv, ControlInv, InvokeInv, RtInv, PlaceInv, CallInv, [Next]_vars
  PROVE  PlaceInv' /\ \A w \in Worker : Moves(w)
<1> USE MoveTypes
<1> SUFFICES ~ closed' /\ \A w \in Worker : PlaceOf(w)' /\ Moves(w)
  BY DEF PlaceInv
<1>1. ASSUME UNCHANGED rtVars, ctxDone => ctxDone', UNCHANGED <<app, visits>>
      PROVE  ~ closed' /\ \A w \in Worker : PlaceOf(w)' /\ Moves(w)
  BY <1>1, SamePlace DEF rtVars, PlaceInv, Moves, Stays
<1>2. ASSUME UNCHANGED <<closed, arrive, ctxDone, app, visits>>,
             NEW w \in Worker, \A x \in Worker \ {w} : state'[x] = state[x] /\ point'[x] = point[x],
             Moves(w)
      PROVE  ~ closed' /\ \A x \in Worker : PlaceOf(x)' /\ Moves(x)
  <2>1. \A x \in Worker : PlaceOf(x)' /\ Passed(x)' = Passed(x)
    BY <1>2, SamePlace
  <2>2. \A x \in Worker : x # w => Moves(x)
    BY <1>2, <2>1 DEF Moves, Stays
  <2>3. QED
    BY <1>2, <2>1, <2>2 DEF PlaceInv
<1>3. CASE UNCHANGED vars \/ Cancel
  BY <1>1, <1>3 DEF vars, appVars, Cancel
<1>4. CASE RegisterWorker
  <2>1. PICK x \in Worker : x = WorkerList[turn]
    BY ListFacts DEF CoInv, CoType
  <2>2. /\ state[x] = "unknown" /\ state' = [state EXCEPT ![x] = "running"]
        /\ UNCHANGED <<closed, point, arrive, ctxDone, app, visits>>
    BY <1>4, <2>1 DEF RegisterWorker, RT!Register, appVars
  <2>3. Passed(x)' = Passed(x)
    BY <2>2 DEF Passed, Granted
  <2>4. QED
    BY <1>2, <2>1, <2>2, <2>3 DEF Moves, Registers
<1>5. CASE InvokeWorker
  <2> DEFINE x == WorkerList[turn]
  <2>1. /\ UNCHANGED <<closed, arrive, state, point, ctxDone, visits>>
        /\ app' = [app EXCEPT ![x] = "code"] /\ x \in Worker
    BY <1>5, ListFacts DEF InvokeWorker, rtVars, CoInv, CoType
  <2>2. app[x] = "off"
    <3>1. mode = "boot" /\ turn \in 1 .. Len(WorkerList) /\ NotYet(turn)
      BY <1>5 DEF InvokeWorker, NotYet, ControlInv, CoInv, CoType
    <3>2. QED
      BY <3>1 DEF InvokeInv
  <2> HIDE DEF x
  <2>3. QED
    BY <2>1, <2>2 DEF PlaceInv, PlaceOf, Passed, Granted, Moves, Stays
<1>6. CASE InvokeRefused \/ ChooseStep \/ ObserveArrived \/ ObserveError \/ ObserveTimeout
           \/ ObserveEnd \/ Settle
  BY <1>1, <1>6 DEF InvokeRefused, ChooseStep, ObserveArrived, ObserveError, ObserveTimeout,
       ObserveEnd, Settle, appVars
<1>7. CASE BeginRelease \/ ReleaseRefused \/ FinalCollect \/ Complete
  BY <1>1, <1>7 DEF BeginRelease, ReleaseRefused, FinalCollect, Complete, appVars
<1>8. ASSUME UNCHANGED <<closed, state, point, arrive, ctxDone, app, visits>>
      PROVE  ~ closed' /\ \A w \in Worker : PlaceOf(w)' /\ Moves(w)
  BY <1>8, SamePlace DEF PlaceInv, Moves, Stays
<1>9. CASE EnterWait \/ WaitSeesCancel \/ WaitGoesOn \/ WaitAwakes
  BY <1>8, <1>9 DEF EnterWait, WaitSeesCancel, WaitGoesOn, WaitAwakes, RT!WaitAnswered,
       RT!WaitBlocks, RT!CancelWait, RT!WaitAgain, RT!WaitAwake, appVars
<1>10. CASE WaitExpires
  <2>1. CASE RT!WaitTimerAnswered(Coord)
    BY <1>8, <1>10, <2>1 DEF WaitExpires, RT!WaitTimerAnswered, appVars
  <2>2. CASE RT!WaitTimeout(Coord)
    <3>0. PICK x \in Worker : x = StepWorker(cur)
      BY <1>10, ScheduleFacts DEF WaitExpires, UpToDate, Waiting, CoInv, CoType
    <3>1. wait[Coord].worker = x /\ wait[Coord].point = StepPoint(cur) /\ pc = "waiting"
      BY <1>10, <3>0 DEF WaitExpires, UpToDate, CallInv
    <3>2. RT!WaitStatus(x, StepPoint(cur)) = "none" /\ ~ wait[Coord].canceled
      BY <2>2, <3>1 DEF RT!WaitTimeout, RT!WakeAnswer
    <3>3. /\ UNCHANGED <<closed, arrive, ctxDone, app, visits>> /\ ~ ctxDone
          /\ state' = [state EXCEPT ![x] = "db_blocked"]
          /\ point' = [point EXCEPT ![x] = StepPoint(cur)]
      BY <1>10, <2>2, <3>1, <3>2 DEF WaitExpires, UpToDate, RT!WaitTimeout, appVars
    <3>4. Passed(x)' = Passed(x)
      BY <3>3 DEF Passed, Granted
    <3>5. TimesOut(x)
      BY <3>0, <3>1, <3>2, <3>3, <3>4 DEF TimesOut
    <3>6. QED
      BY <1>2, <3>1, <3>3, <3>5 DEF Moves
  <2>3. QED
    BY <1>10, <2>1, <2>2 DEF WaitExpires
<1>11. CASE ReleaseStep
  <2>0. PICK x \in Worker : x = StepWorker(cur)
    BY <1>11, ScheduleFacts DEF ReleaseStep, Releasing, CoInv, CoType
  <2>1. /\ state[x] = "arrived" /\ point[x] = StepPoint(cur)
        /\ state' = [state EXCEPT ![x] = "released"]
        /\ arrive' = [arrive EXCEPT ![arrival[x]].released = TRUE]
        /\ UNCHANGED <<closed, point, ctxDone, app, visits>>
    BY <1>11, <2>0 DEF ReleaseStep, RT!Release, RT!CanRelease, appVars
  <2>2. arrival[x] = x /\ app[x] = "parked" /\ ~ arrive[x].released
    BY <2>1, OwnArrival
  <2>3. arrive[x] \in RTP!ArriveCall /\ arrive[x].pc = "blocked"
    BY <2>1, <2>2 DEF PlaceInv, PlaceOf
  <2>4. /\ arrive'[x].pc = arrive[x].pc /\ arrive'[x].shut = arrive[x].shut
        /\ arrive'[x].worker = arrive[x].worker /\ arrive'[x].canceled = arrive[x].canceled
        /\ arrive'[x].released
    BY <2>1, <2>2, <2>3 DEF RTP!ArriveCall
  <2>5. visits[x] \in Nat
    BY <2>1, ListFacts
  <2>6. PlaceOf(x)' /\ Passed(x)' = Passed(x) + 1
    BY <2>1, <2>2, <2>3, <2>4, <2>5 DEF PlaceInv, PlaceOf, Passed, Granted
  <2>7. Releases(x)
    BY <1>11, <2>0, <2>1, <2>6 DEF Releases
  <2>8. ASSUME NEW w \in Worker, w # x PROVE PlaceOf(w)' /\ Moves(w)
    <3>1. arrive'[w] = arrive[w] /\ state'[w] = state[w] /\ app'[w] = app[w]
          /\ visits'[w] = visits[w]
      BY <2>1, <2>2, <2>8
    <3>2. QED
      BY <2>1, <2>8, <3>1, SamePlace DEF Moves, Stays
  <2>9. QED
    BY <2>1, <2>6, <2>7, <2>8 DEF PlaceInv, Moves
<1>12. ASSUME NEW x \in Worker, CollectorStep(x)
       PROVE  ~ closed' /\ \A w \in Worker : PlaceOf(w)' /\ Moves(w)
  <2>1. CASE CollectResult(x)
    <3>1. /\ UNCHANGED <<closed, point, arrive, ctxDone, app, visits>>
          /\ state' = [state EXCEPT ![x] = IF outcome[x] = "ok" THEN "done" ELSE "failed"]
      BY <2>1 DEF CollectResult, RT!Finish, appVars
    <3>2. Passed(x)' = Passed(x)
      BY <3>1 DEF Passed, Granted
    <3>3. Finishes(x)
      BY <2>1, <3>1, <3>2 DEF Finishes
    <3>4. QED
      BY <1>2, <3>1, <3>3 DEF Moves
  <2>2. CASE CollectFault(x) \/ CollectClosed(x) \/ CollectorCancels(x)
    BY <1>1, <2>2 DEF CollectFault, CollectClosed, CollectorCancels, appVars
  <2>3. QED
    BY <1>12, <2>1, <2>2 DEF CollectorStep
<1>13. ASSUME NEW x \in Worker, AppStep(x)
       PROVE  ~ closed' /\ \A w \in Worker : PlaceOf(w)' /\ Moves(w)
  <2>1. closed' = closed
    BY <1>13 DEF AppStep, AppArrives, AppCanceled, AppPasses, AppRefused, AppEnds, rtVars,
         RT!ArriveBlocks, RT!CancelArrive, RT!ArriveReleased, RT!ArriveCanceled
  <2>2. QED
    BY <1>13, <2>1, AppMoves DEF PlaceInv
<1>14. QED
  BY <1>3, <1>4, <1>5, <1>6, <1>7, <1>9, <1>10, <1>11, <1>12, <1>13
     DEF Next, CoordinatorStep

-----------------------------------------------------------------------------
(* The waits of the coordinator.  They hold when an execution starts.        *)
LEMMA CallInvInit == Init => CallInv
BY DEF Init, CallInv, RT!Init, RT!NoWait

(* How a wait is answered: by what the runtime has recorded, by the end of   *)
(* the context, or by the timer when nothing is recorded.                    *)
Answered ==
  /\ pc \in {"enter", "waiting"}
  /\ UNCHANGED <<closed, state, point, app, ctxDone>>
  /\ \/ Status' = RT!WaitStatus(StepWorker(cur), StepPoint(cur))
     \/ Status' = "ctx"

Expired ==
  /\ pc = "waiting" /\ Status' = "timeout"
  /\ state'[StepWorker(cur)] = "db_blocked"
  /\ point'[StepWorker(cur)] = StepPoint(cur)

WaitEnds == /\ UNCHANGED <<mode, turn, cur, preObserved, pending, fate, failure>>
            /\ Answered \/ Expired

(* A signal leaves all but the notification of a call as it is.              *)
LEMMA SignalKeeps ==
  ASSUME NEW calls \in [{Coord} -> RTP!WaitCall]
  PROVE  /\ RT!Signaled(calls)[Coord].pc = calls[Coord].pc
         /\ RT!Signaled(calls)[Coord].worker = calls[Coord].worker
         /\ RT!Signaled(calls)[Coord].point = calls[Coord].point
         /\ RT!Signaled(calls)[Coord].canceled = calls[Coord].canceled
         /\ RT!Signaled(calls)[Coord].result = calls[Coord].result
BY DEF RT!Signaled, RTP!WaitCall

(* The call of the coordinator, after one step.                              *)
SameCall == /\ wait'[Coord].pc = wait[Coord].pc
            /\ wait'[Coord].worker = wait[Coord].worker
            /\ wait'[Coord].point = wait[Coord].point
            /\ wait'[Coord].canceled = wait[Coord].canceled
            /\ wait'[Coord].result = wait[Coord].result

(* A wait that returns leaves its answer and nothing else.                   *)
LEMMA WaitReturned ==
  ASSUME RtInv, NEW r \in {"arrived", "done", "failed", "timeout", "closed", "ctx",
                           "mismatch", "invalid"},
         RT!WaitReturns(Coord, r)
  PROVE  /\ wait'[Coord].pc = "idle" /\ ~ wait'[Coord].canceled /\ wait'[Coord].result = r
<1> DEFINE call == RT!NoWait(r)
<1>1. /\ call.pc = "idle" /\ ~ call.canceled /\ call.result = r /\ call \in RTP!WaitCall
  BY DEF RT!NoWait, RTP!WaitCall
<1>2. wait' = RT!Signaled([wait EXCEPT ![Coord] = call]) /\ wait \in [{Coord} -> RTP!WaitCall]
  BY DEF RT!WaitReturns, RtInv, RTP!TypeOK
<1> HIDE DEF call
<1>3. /\ [wait EXCEPT ![Coord] = call] \in [{Coord} -> RTP!WaitCall]
      /\ [wait EXCEPT ![Coord] = call][Coord] = call
  BY <1>1, <1>2
<1>4. QED
  BY <1>1, <1>2, <1>3, SignalKeeps

(* Nothing else reaches into the call of the coordinator.                    *)
LEMMA OthersKeepCall ==
  ASSUME RtInv, Cancel \/ \E w \in Worker : CollectorStep(w) \/ AppStep(w)
  PROVE  SameCall
<1>1. wait \in [{Coord} -> RTP!WaitCall]
  BY DEF RtInv, RTP!TypeOK
<1>2. wait' = wait \/ wait' = RT!Signaled(wait)
  BY ZenonT(60) DEF Cancel, CollectorStep, CollectResult, CollectFault, CollectClosed, CollectorCancels,
     AppStep, AppArrives, AppCanceled, AppPasses, AppRefused, AppEnds, rtVars, RT!Finish,
     RT!ArriveBlocks, RT!CancelArrive, RT!ArriveReleased, RT!ArriveCanceled
<1>3. QED
  BY <1>1, <1>2, SignalKeeps, SMTT(30) DEF SameCall

(* What is recorded is an answer of WaitArrive, and it is no timeout.        *)
LEMMA StatusType ==
  ASSUME RtInv, NEW w \in Worker, NEW p
  PROVE  RT!WaitStatus(w, p) \in {"none", "arrived", "done", "failed", "closed",
                                  "mismatch", "invalid"}
<1>1. state[w] \in RTP!WorkerState
  BY DEF RtInv, RTP!TypeOK
<1>2. QED
  BY <1>1 DEF RT!WaitStatus, RTP!WorkerState, RT!Terminal

(* The end of the context is final.                                          *)
LEMMA ContextStays ==
  ASSUME [Next]_vars, ctxDone
  PROVE  ctxDone'
<1>1. CASE UNCHANGED vars \/ Cancel \/ CoordinatorStep \/ WaitExpires
  BY <1>1 DEF vars, Cancel, CoordinatorStep, RegisterWorker, InvokeWorker, InvokeRefused,
       ChooseStep, EnterWait, WaitSeesCancel, WaitGoesOn, WaitAwakes, WaitExpires,
       ObserveArrived, ObserveError, ObserveTimeout, ObserveEnd, Settle, BeginRelease,
       ReleaseStep, ReleaseRefused, FinalCollect, Complete
<1>2. ASSUME NEW w \in Worker, CollectorStep(w) \/ AppStep(w) PROVE ctxDone'
  BY <1>2 DEF CollectorStep, CollectResult, CollectFault, CollectClosed, CollectorCancels,
     AppStep, AppArrives, AppCanceled, AppPasses, AppRefused, AppEnds
<1>3. QED
  BY <1>1, <1>2 DEF Next

(* The coordinator's call is for the current step while it waits; when the   *)
(* call returns, it is one of the answers above.                             *)
LEMMA CallInvStep ==
  ASSUME CoInv, ControlInv, RtInv, PlaceInv, CallInv, [Next]_vars
  PROVE  /\ CallInv'
         /\ pc' = "observed" =>
              \/ WaitEnds
              \/ pc = "observed" /\ Status' = Status /\ UNCHANGED coVars
<1> DEFINE Goal == /\ CallInv'
                   /\ pc' = "observed" =>
                        \/ WaitEnds
                        \/ pc = "observed" /\ Status' = Status /\ UNCHANGED coVars
<1>1. UNCHANGED schedule /\ wait \in [{Coord} -> RTP!WaitCall] /\ (ctxDone => ctxDone')
  BY ScheduleStays, ContextStays DEF RtInv, RTP!TypeOK
<1>2. \A i : StepWorker(i)' = StepWorker(i) /\ StepPoint(i)' = StepPoint(i)
  BY <1>1 DEF StepWorker, StepPoint
<1>3. CASE UNCHANGED vars \/ Cancel \/ \E w \in Worker : CollectorStep(w) \/ AppStep(w)
  <2>1. UNCHANGED coVars /\ SameCall
    BY <1>3, OthersType, OthersKeepCall DEF vars, rtVars, SameCall
  <2>2. QED
    BY <1>1, <1>2, <2>1 DEF SameCall, CallInv, Status, coVars
<1>4. ASSUME SameCall, pc # "waiting", pc' \notin {"waiting", "observed"} PROVE Goal
  BY <1>1, <1>2, <1>4 DEF SameCall, CallInv
<1>5. CASE RegisterWorker \/ InvokeWorker \/ InvokeRefused
  <2>1. /\ pc \in {"register", "invoke"}
        /\ pc' \in {"register", "invoke", "step", "failed"}
        /\ wait' = wait \/ wait' = RT!Signaled(wait)
    BY <1>5 DEF RegisterWorker, InvokeWorker, InvokeRefused, Emit, Go, Fail, RT!Register, rtVars
  <2>2. QED
    BY <1>1, <1>4, <2>1, SignalKeeps DEF SameCall
<1>6. CASE ChooseStep
  <2>1. wait' = wait /\ pc = "step" /\ mode # "final"
    BY <1>6 DEF ChooseStep, rtVars, ControlInv
  <2>2. pc' \in {"invoke", "step", "enter", "release", "final", "failed"}
    <3>1. CASE BootstrapStep \/ TraverseStep
      BY <3>1, NextStepIs DEF BootstrapStep, TraverseStep, BeginWait, Go, Fail
    <3>2. CASE DrainStep
      BY <3>2 DEF DrainStep, BeginWait, Emit, Go, Fail
    <3>3. QED
      BY <1>6, <3>1, <3>2 DEF ChooseStep
  <2>3. QED
    BY <1>4, <2>1, <2>2 DEF SameCall
<1>7. CASE ObserveArrived \/ Settle
  <2>1. wait' = wait /\ pc \in {"observed", "settle"}
        /\ pc' \in {"invoke", "step", "release", "failed"}
    BY <1>7, NextStepIs DEF ObserveArrived, Settle, rtVars, Emit, Go, Fail
  <2>2. QED
    BY <1>4, <2>1 DEF SameCall
<1>8. CASE ObserveError \/ ObserveTimeout \/ ObserveEnd
  <2>1. wait' = wait /\ pc = "observed" /\ pc' \in {"settle", "failed"}
    BY <1>8 DEF ObserveError, ObserveTimeout, ObserveEnd, Collect, Accept, Emit, Go, Fail, rtVars
  <2>2. QED
    BY <1>4, <2>1 DEF SameCall
<1>9. CASE BeginRelease \/ ReleaseRefused \/ FinalCollect \/ Complete
  <2>1. /\ wait' = wait /\ pc \in {"release", "releasing", "final", "closing"}
        /\ pc' \in {"releasing", "final", "closing", "complete", "failed"}
    BY <1>9 DEF BeginRelease, ReleaseRefused, FinalCollect, Complete, Collect, Accept, Emit, Go,
         Fail, rtVars
  <2>2. QED
    BY <1>4, <2>1 DEF SameCall
<1>10. CASE ReleaseStep
  <2>1. wait' = RT!Signaled(wait) /\ pc = "releasing" /\ pc' \in {"invoke", "step", "failed"}
    BY <1>10, NextStepIs DEF ReleaseStep, RT!Release
  <2>2. QED
    BY <1>1, <1>4, <2>1, SignalKeeps DEF SameCall
(* the coordinator inside WaitArrive *)
<1>11. ASSUME UNCHANGED <<mode, turn, cur, preObserved, pending, fate, failure>>,
              pc' = "observed", Answered \/ Expired,
              wait'[Coord].pc = "idle", ~ wait'[Coord].canceled
       PROVE  Goal
  BY <1>11 DEF CallInv, WaitEnds
<1>12. StepWorker(cur) \in Worker \/ ~ Waiting
  BY ScheduleFacts DEF CoInv, CoType
<1>13. CASE EnterWait
  <2>1. /\ pc = "enter" /\ StepWorker(cur) \in Worker
        /\ UNCHANGED <<mode, turn, cur, preObserved, pending, fate, failure, ctxDone, app>>
    BY <1>12, <1>13 DEF EnterWait, Go, appVars, Waiting
  <2>2. CASE RT!WaitAnswered(Coord, StepWorker(cur), StepPoint(cur)) /\ Go("observed")
    <3> DEFINE r == RT!WaitEntry(StepWorker(cur), StepPoint(cur))
               call == RT!NoWait(r)
    <3>1. /\ wait' = [wait EXCEPT ![Coord] = call] /\ UNCHANGED <<closed, state, point>>
          /\ wait[Coord].pc = "idle" /\ pc' = "observed"
      BY <2>2 DEF RT!WaitAnswered, Go
    <3>2. call.pc = "idle" /\ ~ call.canceled /\ call.result = r
      BY DEF RT!NoWait
    <3>3. r = RT!WaitStatus(StepWorker(cur), StepPoint(cur))
      <4>1. waitPoint[StepWorker(cur)] = Nil
        BY <2>1, <3>1 DEF RtInv, RTP!WaitsKept, RTP!OneWaitPerWorker
      <4>2. QED
        BY <4>1 DEF RT!WaitEntry
    <3> HIDE DEF r, call
    <3>4. wait'[Coord] = call
      BY <1>1, <3>1
    <3>5. Answered
      BY <2>1, <3>1, <3>2, <3>3, <3>4 DEF Answered, Status
    <3>6. QED
      BY <1>11, <2>1, <3>1, <3>2, <3>4, <3>5
  <2>3. CASE RT!WaitBlocks(Coord, StepWorker(cur), StepPoint(cur)) /\ Go("waiting")
    <3> DEFINE call == [RT!NoWait("none") EXCEPT !.pc = "waiting", !.worker = StepWorker(cur),
                                                 !.point = StepPoint(cur)]
    <3>1. wait' = [RT!Signaled(wait) EXCEPT ![Coord] = call] /\ pc' = "waiting"
      BY <2>3 DEF RT!WaitBlocks, Go
    <3>2. /\ call.pc = "waiting" /\ ~ call.canceled /\ call.worker = StepWorker(cur)
          /\ call.point = StepPoint(cur)
      BY DEF RT!NoWait
    <3> HIDE DEF call
    <3>3. wait'[Coord] = call
      BY <3>1 DEF RT!Signaled
    <3>4. QED
      BY <1>1, <1>2, <2>1, <3>1, <3>2, <3>3 DEF CallInv
  <2>4. QED
    BY <1>13, <2>2, <2>3 DEF EnterWait
<1>14. CASE WaitSeesCancel
  <2>1. UNCHANGED <<coVars, ctxDone>> /\ ctxDone /\ pc = "waiting"
        /\ wait' = [wait EXCEPT ![Coord].canceled = TRUE]
    BY <1>14 DEF WaitSeesCancel, RT!CancelWait
  <2>2. /\ wait'[Coord].pc = wait[Coord].pc /\ wait'[Coord].worker = wait[Coord].worker
        /\ wait'[Coord].point = wait[Coord].point
    BY <1>1, <2>1 DEF RTP!WaitCall
  <2>3. QED
    BY <1>1, <1>2, <2>1, <2>2 DEF CallInv, coVars
<1>15. CASE WaitGoesOn
  <2>1. UNCHANGED <<coVars, ctxDone>> /\ pc = "waiting"
        /\ wait' = [wait EXCEPT ![Coord].notified = FALSE]
    BY <1>15 DEF WaitGoesOn, UpToDate, RT!WaitAgain
  <2>2. SameCall
    BY <1>1, <2>1 DEF RTP!WaitCall, SameCall
  <2>3. QED
    BY <1>1, <1>2, <2>1, <2>2 DEF CallInv, coVars, SameCall
<1>16. CASE WaitAwakes \/ WaitExpires
  <2>1. /\ pc = "waiting" /\ pc' = "observed" /\ StepWorker(cur) \in Worker
        /\ wait[Coord].worker = StepWorker(cur) /\ wait[Coord].point = StepPoint(cur)
        /\ UNCHANGED <<mode, turn, cur, preObserved, pending, fate, failure, ctxDone, app>>
    BY <1>12, <1>16 DEF WaitAwakes, WaitExpires, UpToDate, Go, appVars, Waiting, CallInv
  <2>2. CASE RT!WaitAwake(Coord) \/ RT!WaitTimerAnswered(Coord)
    <3>1. /\ UNCHANGED <<closed, state, point>> /\ RT!WaitReturns(Coord, RT!WakeAnswer(Coord))
          /\ RT!WakeAnswer(Coord) # "none"
      BY <2>2 DEF RT!WaitAwake, RT!WaitTimerAnswered
    <3>2. /\ RT!WakeAnswer(Coord) \in {RT!WaitStatus(StepWorker(cur), StepPoint(cur)), "ctx"}
      BY <2>1 DEF RT!WakeAnswer
    <3>3. RT!WakeAnswer(Coord) \in {"arrived", "done", "failed", "timeout", "closed", "ctx",
                                    "mismatch", "invalid"}
      BY <2>1, <3>1, <3>2, StatusType
    <3>4. /\ wait'[Coord].pc = "idle" /\ ~ wait'[Coord].canceled
          /\ Status' = RT!WakeAnswer(Coord)
      BY <3>1, <3>3, WaitReturned DEF Status
    <3>5. Answered
      BY <2>1, <3>1, <3>2, <3>4 DEF Answered
    <3>6. QED
      BY <1>11, <2>1, <3>4, <3>5
  <2>3. CASE RT!WaitTimeout(Coord)
    <3>1. /\ RT!WaitReturns(Coord, "timeout")
          /\ state' = [state EXCEPT ![StepWorker(cur)] = "db_blocked"]
          /\ point' = [point EXCEPT ![StepWorker(cur)] = StepPoint(cur)]
      BY <2>1, <2>3 DEF RT!WaitTimeout
    <3>2. /\ wait'[Coord].pc = "idle" /\ ~ wait'[Coord].canceled /\ Status' = "timeout"
      BY <3>1, WaitReturned DEF Status
    <3>3. Expired
      BY <2>1, <3>1, <3>2, MoveTypes DEF Expired
    <3>4. QED
      BY <1>11, <2>1, <3>2, <3>3
  <2>4. QED
    BY <1>16, <2>2, <2>3 DEF WaitAwakes, WaitExpires
<1>17. QED
  BY <1>3, <1>5, <1>6, <1>7, <1>8, <1>9, <1>10, <1>13, <1>14, <1>15, <1>16
     DEF Next, CoordinatorStep

-----------------------------------------------------------------------------
(* Registration.  Every worker is known to the runtime before the first one  *)
(* is invoked, and its state is final only once its collector has said so.   *)
KnownInv ==
  /\ \A w \in Worker : app[w] # "off" => state[w] # "unknown"
  /\ \A w \in Worker : state[w] \in {"done", "failed"} => coll[w] \in {"probing", "ready"}
  /\ pc = "register" => \A k \in 1 .. Len(WorkerList) :
                          k < turn => state[WorkerList[k]] # "unknown"
  /\ pc \notin {"register", "failed"} => \A w \in Worker : state[w] # "unknown"

(* It holds when an execution starts.                                        *)
LEMMA KnownInvInit == Init => KnownInv
BY DEF Init, KnownInv, RT!Init

(* The loop over the workers leaves none out.                                *)
LEMMA RegisterMoves ==
  ASSUME CoInv, ControlInv, [Next]_vars
  PROVE  /\ pc' = "register" => /\ pc = "register"
                                /\ turn' = turn \/ (RegisterWorker /\ turn' = turn + 1)
         /\ pc = "register" /\ pc' \notin {"register", "failed"} => RegisterWorker /\ LastTurn
<1>1. CASE UNCHANGED vars \/ Cancel \/ \E w \in Worker : CollectorStep(w) \/ AppStep(w)
  <2>1. UNCHANGED coVars
    BY <1>1, OthersType DEF vars
  <2>2. QED
    BY <2>1 DEF coVars
<1>2. CASE RegisterWorker
  BY <1>2 DEF RegisterWorker, Emit, Go, Fail
<1>3. CASE InvokeWorker \/ InvokeRefused
  BY <1>3 DEF InvokeWorker, InvokeRefused, Emit, Go, Fail
<1>4. CASE ChooseStep
  <2>1. CASE BootstrapStep \/ TraverseStep
    BY <1>4, <2>1, NextStepIs DEF ChooseStep, BootstrapStep, TraverseStep, BeginWait, Go, Fail
  <2>2. CASE DrainStep
    BY <1>4, <2>2 DEF ChooseStep, DrainStep, BeginWait, Emit, Go, Fail
  <2>3. QED
    BY <1>4, <2>1, <2>2 DEF ChooseStep
<1>5. CASE EnterWait \/ WaitSeesCancel \/ WaitGoesOn \/ WaitAwakes \/ WaitExpires
  BY <1>5 DEF EnterWait, WaitSeesCancel, WaitGoesOn, WaitAwakes, WaitExpires, UpToDate, Go,
     coVars
<1>6. CASE ObserveArrived \/ Settle \/ ReleaseStep
  BY <1>6, NextStepIs DEF ObserveArrived, Settle, ReleaseStep, Emit, Go, Fail
<1>7. CASE ObserveError \/ ObserveTimeout \/ ObserveEnd
  BY <1>7 DEF ObserveError, ObserveTimeout, ObserveEnd, Collect, Accept, Emit, Go, Fail
<1>8. CASE BeginRelease \/ ReleaseRefused \/ FinalCollect \/ Complete
  BY <1>8 DEF BeginRelease, ReleaseRefused, FinalCollect, Complete, Collect, Accept, Emit, Go,
     Fail
<1>9. QED
  BY <1>1, <1>2, <1>3, <1>4, <1>5, <1>6, <1>7, <1>8 DEF Next, CoordinatorStep

(* A worker the runtime knows stays known to it.                             *)
LEMMA KnownStays ==
  ASSUME NEW w \in Worker, Moves(w), state[w] # "unknown"
  PROVE  state'[w] # "unknown"
BY DEF Moves, Stays, Registers, TimesOut, Releases, Arrives, Withdraws, Finishes

(* Every step of an execution keeps it.                                      *)
LEMMA KnownInvStep ==
  ASSUME CoInv, ControlInv, InvokeInv, RtInv, KnownInv, [Next]_vars,
         \A w \in Worker : Moves(w)
  PROVE  KnownInv'
<1>1. \A w \in Worker : state[w] # "unknown" => state'[w] # "unknown"
  BY KnownStays
<1>2. ASSUME NEW w \in Worker, app'[w] # "off" PROVE state'[w] # "unknown"
  <2>1. CASE InvokeWorker
    BY <1>1, <2>1 DEF InvokeWorker, KnownInv
  <2>2. CASE ~ InvokeWorker
    BY <1>1, <1>2, <2>2, StartedOnlyBy DEF KnownInv
  <2>3. QED
    BY <2>1, <2>2
<1>3. ASSUME NEW w \in Worker, state'[w] \in {"done", "failed"}
      PROVE  coll'[w] \in {"probing", "ready"}
  <2>1. CASE Finishes(w)
    BY <2>1 DEF Finishes, CollectResult, CoInv, CoType
  <2>2. CASE ~ Finishes(w)
    <3>1. state[w] \in {"done", "failed"}
      BY <1>3, <2>2 DEF Moves, Stays, Registers, TimesOut, Releases, Arrives, Withdraws
    <3>2. QED
      BY <3>1, CollectorMoves DEF KnownInv
  <2>3. QED
    BY <2>1, <2>2
<1>4. ASSUME RegisterWorker PROVE state'[WorkerList[turn]] # "unknown"
  <2>1. WorkerList[turn] \in Worker
    BY ListFacts DEF CoInv, CoType
  <2>2. QED
    BY <1>4, <2>1, MoveTypes DEF RegisterWorker, RT!Register
<1>5. ASSUME pc' = "register", NEW k \in 1 .. Len(WorkerList), k < turn'
      PROVE  state'[WorkerList[k]] # "unknown"
  <2>1. WorkerList[k] \in Worker
    BY ListFacts
  <2>2. turn \in 1 .. Len(WorkerList)
    BY DEF CoInv, CoType
  <2>3. k < turn \/ (RegisterWorker /\ k = turn)
    BY <1>5, <2>2, RegisterMoves
  <2>4. QED
    BY <1>1, <1>4, <1>5, <2>1, <2>3, RegisterMoves DEF KnownInv
<1>6. ASSUME pc' \notin {"register", "failed"}, NEW w \in Worker PROVE state'[w] # "unknown"
  <2>1. pc # "failed"
    BY <1>6, ScheduleStays DEF coVars
  <2>2. CASE pc = "register"
    <3>1. PICK k \in 1 .. Len(WorkerList) : WorkerList[k] = w
      BY ListFacts
    <3>2. RegisterWorker /\ LastTurn
      BY <1>6, <2>2, RegisterMoves
    <3>3. k < turn \/ k = turn
      BY <3>1, <3>2, ListFacts DEF LastTurn
    <3>4. QED
      BY <1>1, <1>4, <2>2, <3>1, <3>2, <3>3 DEF KnownInv
  <2>3. QED
    BY <1>1, <2>1, <2>2 DEF KnownInv
<1>7. QED
  BY <1>2, <1>3, <1>5, <1>6 DEF KnownInv

-----------------------------------------------------------------------------
(* The trace.  A step is released exactly when its worker has passed its     *)
(* point.                                                                    *)
TraceInv ==
  \A i \in Steps : fate[i] = "released" <=> Position(StepPoint(i)) <= Passed(StepWorker(i))

(* It holds when an execution starts.                                        *)
LEMMA TraceInvInit == Init => TraceInv
<1> SUFFICES ASSUME Init, NEW i \in Steps
             PROVE  fate[i] = "released" <=> Position(StepPoint(i)) <= Passed(StepWorker(i))
  BY DEF TraceInv
<1>1. Steps = 1 .. Len(WorkerList) * Len(PointList) /\ schedule \in Schedules
  BY StepCount DEF Init
<1>2. StepWorker(i) \in Worker /\ StepPoint(i) \in Point
  BY <1>1, ScheduleFacts
<1>3. fate[i] = "open"
  BY <1>1 DEF Init
<1>4. Passed(StepWorker(i)) = 0
  BY <1>2 DEF Init, RT!Init, RT!NoArrive, Passed, Granted
<1>5. Position(StepPoint(i)) \in 1 .. Len(PointList)
  BY <1>2, PositionOf
<1>6. QED
  BY <1>3, <1>4, <1>5, ListFacts

(* What keeps a pending step from being passed: its worker is taken to be    *)
(* blocked before its point or is seen there, or it has ended, or it fails   *)
(* because the context has ended.                                            *)
Stuck(i) ==
  LET w == StepWorker(i) IN
  \/ state[w] \in {"db_blocked", "arrived"} /\ point[w] = StepPoint(i)
  \/ state[w] \in {"done", "failed"}
  \/ ctxDone /\ app[w] \in {"failing", "ended"}

StuckInv ==
  /\ mode = "drain" => \A i \in pending : i < cur => Stuck(i)
  /\ pc = "settle" \/ (pc = "observed" /\ Status \in {"timeout", "done", "failed"}) =>
       Stuck(cur)

(* A pending step of its worker comes before the current one.                *)
Behind == \E j \in pending : j < cur /\ StepWorker(j) = StepWorker(cur)

(* What the coordinator keeps of itself.                                     *)
OwnInv == /\ CoInv /\ ControlInv /\ CoverInv /\ InvokeInv /\ ResultInv
          /\ PlanInv /\ RtInv /\ PlaceInv /\ CallInv

(* A step with no pending step of its worker before it is for the next point *)
(* its worker can pass, unless the worker has ended.                         *)
LEMMA CurrentIsNext ==
  ASSUME OwnInv, TraceInv, Waiting \/ Releasing, ~ Behind,
         state[StepWorker(cur)] \notin {"done", "failed"}
  PROVE  Position(StepPoint(cur)) = Passed(StepWorker(cur)) + 1
<1> DEFINE w == StepWorker(cur)
<1>1. cur \in Steps /\ mode # "final" /\ fate[cur] # "released"
  BY CurrentUnreleased DEF OwnInv
<1>2. schedule \in Schedules /\ w \in Worker /\ StepPoint(cur) \in Point
  BY <1>1, ScheduleFacts DEF OwnInv, CoInv, CoType
<1>3. ASSUME NEW j \in Steps, j < cur, StepWorker(j) = w PROVE fate[j] = "released"
  <2>1. j \notin pending
    BY <1>3 DEF Behind
  <2>2. mode # "boot"
    BY <1>3 DEF OwnInv, PlanInv, Waiting, Releasing, ControlInv
  <2>3. j # cur
    BY <1>1, <1>2, <1>3, ScheduleFacts
  <2>4. fate[j] # "open"
    BY <1>1, <1>3, <2>1, <2>2, <2>3 DEF OwnInv, CoverInv, Kept, CoInv, CoType
  <2>5. fate[j] # "skipped"
    <3>1. fate[j] = "skipped" => CollectedFrom(w)
      BY <1>3 DEF OwnInv, ResultInv
    <3>2. QED
      BY <1>2, <3>1 DEF OwnInv, ResultInv, CollectedFrom
  <2>6. QED
    BY <2>4, <2>5 DEF OwnInv, CoInv, CoType
<1> DEFINE m == Position(StepPoint(cur))
<1>4. m \in 1 .. Len(PointList) /\ PointList[m] = StepPoint(cur)
  BY <1>2, PositionOf
<1>5. Passed(w) \in Nat
  BY <1>2, MoveTypes, ListFacts DEF OwnInv, Passed
<1>6. ~ m <= Passed(w)
  BY <1>1 DEF TraceInv
<1>7. m # 1 => m - 1 <= Passed(w)
  <2> SUFFICES ASSUME m # 1 PROVE m - 1 <= Passed(w)
    OBVIOUS
  <2> HIDE DEF m
  <2>1. m - 1 \in 1 .. Len(PointList)
    BY <1>4, ListFacts
  <2>2. PICK j \in Steps : StepWorker(j) = w /\ StepPoint(j) = PointList[m - 1]
    BY <1>2, <2>1, ScheduleFacts, ListFacts
  <2>3. Position(StepPoint(j)) = m - 1
    BY <2>1, <2>2, PositionOf
  <2>4. j < cur
    <3>1. j \in Nat /\ cur \in Nat
      BY <1>1, <1>2, ScheduleFacts
    <3>2. j # cur
      BY <1>4, <2>1, <2>3, ListFacts DEF m
    <3>3. ~ cur < j
      <4>1. cur < j => m < m - 1
        BY <1>1, <1>2, <2>2, <2>3, ScheduleFacts DEF m
      <4>2. QED
        BY <1>4, <4>1, ListFacts
    <3>4. QED
      BY <3>1, <3>2, <3>3
  <2>5. QED
    BY <1>3, <2>2, <2>3, <2>4 DEF TraceInv
<1> HIDE DEF m
<1>8. m = Passed(w) + 1
  BY <1>4, <1>5, <1>6, <1>7, ListFacts
<1>9. QED
  BY <1>8 DEF m

(* A worker the coordinator can still release, or finds nothing recorded of, *)
(* has no pending step that a drain pass went by.                            *)
LEMMA NoneBehind ==
  ASSUME OwnInv, StuckInv, Waiting \/ Releasing,
         \/ state[StepWorker(cur)] = "arrived" /\ point[StepWorker(cur)] = StepPoint(cur)
         \/ ~ ctxDone /\ RT!WaitStatus(StepWorker(cur), StepPoint(cur)) = "none"
  PROVE  ~ Behind
<1> SUFFICES ASSUME NEW j \in pending, j < cur, StepWorker(j) = StepWorker(cur)
             PROVE  FALSE
  BY DEF Behind
<1>1. /\ cur \in Steps /\ mode \in {"boot", "traverse", "drain"} /\ j \in Steps
      /\ schedule \in Schedules
  BY CurrentUnreleased DEF OwnInv, CoInv, CoType
<1>2. mode = "drain"
  BY <1>1 DEF OwnInv, PlanInv, ControlInv, Waiting, Releasing, HasPendingPredecessor
<1>3. Stuck(j)
  BY <1>2 DEF StuckInv
<1>4. j # cur
  BY <1>1, ScheduleFacts
<1>5. StepPoint(j) # StepPoint(cur)
  BY <1>1, <1>4, OneStepEach
<1>6. ~ closed /\ StepWorker(cur) \in Worker
  BY <1>1, ScheduleFacts DEF OwnInv, PlaceInv
<1>7. app[StepWorker(cur)] \in {"failing", "ended"} => state[StepWorker(cur)] # "arrived"
  BY <1>6, OwnArrival DEF OwnInv
<1>8. QED
  BY <1>3, <1>5, <1>6, <1>7 DEF Stuck, RT!WaitStatus, RT!Terminal

(* A released step stays released, and no other step than the current one    *)
(* becomes so.                                                               *)
LEMMA ReleasedMoves ==
  ASSUME CoInv, ControlInv, PlanInv, [Next]_vars, NEW i \in Steps
  PROVE  fate'[i] = "released" <=> fate[i] = "released" \/ (ReleaseStep /\ i = cur)
<1>1. ASSUME fate[i] # "released", fate'[i] = "released" PROVE ReleaseStep /\ i = cur
  BY <1>1, ReleasedByStep
<1>2. ASSUME ReleaseStep PROVE fate' = [fate EXCEPT ![cur] = "released"]
  BY <1>2 DEF ReleaseStep
<1>3. ASSUME fate[i] = "released" PROVE fate'[i] = "released"
  <2>1. CASE UNCHANGED fate
    BY <1>3, <2>1
  <2>2. CASE ChooseStep
    <3>1. CASE BootstrapStep
      BY <1>3, <3>1 DEF BootstrapStep, BeginWait
    <3>2. CASE TraverseStep
      <4>1. cur \in Steps /\ fate[cur] # "released"
        <5>1. cur \in Steps /\ mode = "traverse"
          BY <3>2 DEF TraverseStep, CoInv, CoType
        <5>2. cur \in Nat
          BY <5>1, ScheduleFacts DEF CoInv, CoType
        <5>3. cur >= cur
          BY <5>2
        <5>4. QED
          BY <5>1, <5>3 DEF PlanInv
      <4>2. QED
        BY <1>3, <3>2, <4>1 DEF TraverseStep, BeginWait, CoInv, CoType
    <3>3. CASE DrainStep
      BY <1>3, <3>3 DEF DrainStep, BeginWait, PlanInv, CoInv, CoType
    <3>4. QED
      BY <2>2, <3>1, <3>2, <3>3 DEF ChooseStep
  <2>3. CASE Settle
    <3>1. fate[cur] # "released"
      BY <2>3, CurrentUnreleased DEF Settle, Waiting
    <3>2. QED
      BY <1>3, <2>3, <3>1 DEF Settle, CoInv, CoType
  <2>4. CASE ReleaseStep
    BY <1>2, <1>3, <2>4 DEF CoInv, CoType
  <2>5. CASE UNCHANGED vars \/ Cancel \/ \E w \in Worker : CollectorStep(w) \/ AppStep(w)
    <3>1. UNCHANGED coVars
      BY <2>5, OthersType DEF vars
    <3>2. QED
      BY <2>1, <3>1 DEF coVars
  <2>6. CASE \/ RegisterWorker \/ InvokeWorker \/ InvokeRefused
             \/ EnterWait \/ WaitSeesCancel \/ WaitGoesOn \/ WaitAwakes \/ WaitExpires
             \/ ObserveArrived \/ ObserveError \/ ObserveTimeout \/ ObserveEnd
             \/ BeginRelease \/ ReleaseRefused \/ FinalCollect \/ Complete
    BY <2>1, <2>6 DEF RegisterWorker, InvokeWorker, InvokeRefused, EnterWait, WaitSeesCancel,
         WaitGoesOn, WaitAwakes, WaitExpires, ObserveArrived, ObserveError, ObserveTimeout,
         ObserveEnd, BeginRelease, ReleaseRefused, FinalCollect, Complete, coVars
  <2>7. QED
    BY <2>2, <2>3, <2>4, <2>5, <2>6 DEF Next, CoordinatorStep
<1>4. ASSUME ReleaseStep, i = cur PROVE fate'[i] = "released"
  BY <1>2, <1>4 DEF CoInv, CoType
<1>5. QED
  BY <1>1, <1>3, <1>4

(* The release of the current step moves its worker, to its next point.      *)
LEMMA ReleaseMoves ==
  ASSUME OwnInv, StuckInv, TraceInv, ReleaseStep, \A w \in Worker : Moves(w)
  PROVE  /\ cur \in Steps /\ StepWorker(cur) \in Worker
         /\ \A w \in Worker : w = StepWorker(cur) =>
              Releases(w) /\ Position(StepPoint(cur)) = Passed(w) + 1
<1>1. cur \in Steps /\ schedule \in Schedules /\ Releasing
  BY DEF OwnInv, CoInv, CoType, ReleaseStep, Releasing
<1>2. StepWorker(cur) \in Worker
  BY <1>1, ScheduleFacts
<1>3. /\ state[StepWorker(cur)] = "arrived" /\ point[StepWorker(cur)] = StepPoint(cur)
      /\ state'[StepWorker(cur)] = "released"
  BY <1>2, MoveTypes DEF OwnInv, ReleaseStep, RT!Release, RT!CanRelease
<1>4. ASSUME NEW w \in Worker, w = StepWorker(cur) PROVE Releases(w)
  BY <1>3, <1>4 DEF Moves, Stays, Registers, TimesOut, Arrives, Withdraws, Finishes
<1>6. ~ Behind
  BY <1>1, <1>3, NoneBehind
<1>7. Position(StepPoint(cur)) = Passed(StepWorker(cur)) + 1
  BY <1>1, <1>3, <1>6, CurrentIsNext
<1>8. QED
  BY <1>1, <1>2, <1>4, <1>7

(* A worker passes a point only by the release of its step.                  *)
LEMMA PassedMoves ==
  ASSUME NEW w \in Worker, Moves(w)
  PROVE  \/ Passed(w)' = Passed(w) /\ ~ (ReleaseStep /\ w = StepWorker(cur) /\ Releases(w))
         \/ Passed(w)' = Passed(w) + 1 /\ ReleaseStep /\ w = StepWorker(cur)
BY DEF Moves, Stays, Registers, TimesOut, Releases, Arrives, Withdraws, Finishes

(* Every step of an execution keeps the trace true.                          *)
LEMMA TraceInvStep ==
  ASSUME OwnInv, StuckInv, TraceInv, [Next]_vars, \A w \in Worker : Moves(w)
  PROVE  TraceInv'
<1>1. UNCHANGED schedule /\ Steps' = Steps /\ schedule \in Schedules
  BY ScheduleStays DEF OwnInv, Steps, CoInv, CoType
<1> SUFFICES ASSUME NEW i \in Steps
             PROVE  fate'[i] = "released" <=> Position(StepPoint(i)) <= Passed(StepWorker(i))'
  BY <1>1 DEF TraceInv, StepPoint, Position
<1>2. PICK w \in Worker : w = StepWorker(i)
  BY <1>1, ScheduleFacts
<1>3. w = StepWorker(i)'
  BY <1>1, <1>2 DEF StepWorker
<1>4. fate[i] = "released" <=> Position(StepPoint(i)) <= Passed(w)
  BY <1>2 DEF TraceInv
<1>5. fate'[i] = "released" <=> fate[i] = "released" \/ (ReleaseStep /\ i = cur)
  BY ReleasedMoves DEF OwnInv
<1> SUFFICES fate'[i] = "released" <=> Position(StepPoint(i)) <= Passed(w)'
  BY <1>3
<1>6. CASE ReleaseStep /\ w = StepWorker(cur)
  <2>1. cur \in Steps /\ Position(StepPoint(cur)) = Passed(w) + 1 /\ Passed(w)' = Passed(w) + 1
    BY <1>6, ReleaseMoves DEF Releases
  <2>2. StepPoint(i) \in Point /\ StepPoint(cur) \in Point
    BY <1>1, <2>1, ScheduleFacts
  <2>3. /\ Position(StepPoint(i)) \in 1 .. Len(PointList)
        /\ Position(StepPoint(i)) = Position(StepPoint(cur)) => StepPoint(i) = StepPoint(cur)
    BY <2>2, PositionOf
  <2>4. Position(StepPoint(i)) = Position(StepPoint(cur)) <=> i = cur
    BY <1>1, <1>2, <1>6, <2>1, <2>3, OneStepEach
  <2>5. Passed(w) \in Nat
    BY MoveTypes, ListFacts DEF OwnInv, Passed
  <2>6. Position(StepPoint(i)) <= Passed(w) + 1
          <=> Position(StepPoint(i)) <= Passed(w) \/ Position(StepPoint(i)) = Passed(w) + 1
    BY <2>3, <2>5, ListFacts
  <2>7. QED
    BY <1>4, <1>5, <1>6, <2>1, <2>4, <2>6
<1>7. CASE ~ (ReleaseStep /\ w = StepWorker(cur))
  BY <1>2, <1>4, <1>5, <1>7, PassedMoves
<1>8. QED
  BY <1>6, <1>7

-----------------------------------------------------------------------------
(* A step that a drain pass went by stays stuck: its worker cannot pass it   *)
(* before the next pass.                                                     *)
LEMMA StuckStays ==
  ASSUME OwnInv, KnownInv, StuckInv, [Next]_vars, \A w \in Worker : Moves(w),
         NEW i \in Steps, Stuck(i), ~ (ReleaseStep /\ i = cur)
  PROVE  Stuck(i)'
<1>1. UNCHANGED schedule /\ schedule \in Schedules
  BY ScheduleStays DEF OwnInv, CoInv, CoType
<1>2. StepPoint(i)' = StepPoint(i) /\ StepWorker(i)' = StepWorker(i)
  BY <1>1 DEF StepPoint, StepWorker
<1>3. PICK w \in Worker : w = StepWorker(i)
  BY <1>1, ScheduleFacts
<1>4. Moves(w) /\ ~ closed /\ (ctxDone => ctxDone')
  BY ContextStays DEF OwnInv, PlaceInv
<1> DEFINE Held(s, p, d, a) == \/ s \in {"db_blocked", "arrived"} /\ p = StepPoint(i)
                               \/ s \in {"done", "failed"}
                               \/ d /\ a \in {"failing", "ended"}
<1>5. Held(state[w], point[w], ctxDone, app[w])
  BY <1>3 DEF Stuck
<1>6. Held(state'[w], point'[w], ctxDone', app'[w])
  <2>1. CASE Stays(w)
    BY <1>4, <1>5, <2>1 DEF Stays
  <2>2. CASE Registers(w)
    BY <1>4, <1>5, <2>2 DEF Registers
  <2>3. CASE TimesOut(w)
    BY <1>4, <1>5, <2>3 DEF TimesOut, RT!WaitStatus, RT!Terminal
  <2>4. CASE Releases(w)
    <3>1. cur \in Steps
      BY <2>4 DEF Releases, ReleaseStep, OwnInv, CoInv, Releasing
    <3>2. point[w] # StepPoint(i)
      <4>1. i # cur
        BY <2>4 DEF Releases
      <4>2. StepPoint(i) # StepPoint(cur)
        BY <1>1, <1>3, <2>4, <3>1, <4>1, OneStepEach DEF Releases
      <4>3. QED
        BY <2>4, <4>2 DEF Releases
    <3>3. QED
      BY <1>4, <1>5, <2>4, <3>2 DEF Releases
  <2>5. CASE Arrives(w)
    BY <1>4, <1>5, <2>5 DEF Arrives, RT!CanArrive
  <2>6. CASE Withdraws(w)
    BY <1>4, <2>6 DEF Withdraws
  <2>7. CASE Finishes(w)
    BY <2>7 DEF Finishes
  <2>8. QED
    BY <1>4, <2>1, <2>2, <2>3, <2>4, <2>5, <2>6, <2>7 DEF Moves
<1>7. QED
  BY <1>2, <1>3, <1>6 DEF Stuck

(* A drain pass goes by a pending step only after its wait was settled.      *)
LEMMA PassedOver ==
  ASSUME CoInv, ControlInv, [Next]_vars, mode' = "drain", NEW i \in pending', i < cur'
  PROVE  mode = "drain" /\ i \in Steps
         /\ ((i \in pending /\ i < cur) \/ (pc = "settle" /\ i = cur))
         /\ ~ (ReleaseStep /\ i = cur)
<1>1. UNCHANGED schedule /\ schedule \in Schedules
  BY ScheduleStays DEF CoInv, CoType
<1>2. i \in Steps /\ i \in Nat /\ 1 <= i
  <2>1. i \in Steps
    BY <1>1, CoInvStep DEF CoInv, CoType, Steps
  <2>2. QED
    BY <1>1, <2>1, ScheduleFacts
<1>3. cur \in Nat /\ cur' # 1
  <2>1. Len(schedule) \in Nat /\ cur \in 1 .. Len(schedule) + 1
    BY <1>1, StepRange DEF CoInv, CoType
  <2>2. QED
    BY <1>2, <2>1
<1>4. CASE UNCHANGED vars \/ Cancel \/ \E w \in Worker : CollectorStep(w) \/ AppStep(w)
  <2>1. UNCHANGED coVars
    BY <1>4, OthersType DEF vars
  <2>2. QED
    BY <1>2, <1>3, <2>1 DEF coVars
<1>5. ASSUME UNCHANGED <<mode, cur>>, pending' \subseteq pending, ~ ReleaseStep
      PROVE  mode = "drain" /\ i \in pending /\ i < cur /\ ~ (ReleaseStep /\ i = cur)
  BY <1>5
<1>6. CASE RegisterWorker \/ InvokeWorker \/ InvokeRefused
  BY <1>6 DEF RegisterWorker, InvokeWorker, InvokeRefused, ControlInv
<1>7. CASE ChooseStep
  <2>1. CASE BootstrapStep
    BY <2>1 DEF BootstrapStep, BeginWait
  <2>2. CASE TraverseStep
    BY <1>3, <2>2, NextStepIs DEF TraverseStep, BeginWait
  <2>3. CASE DrainStep
    <3>1. mode = "drain" /\ pc = "step"
      BY <1>7, <2>3 DEF DrainStep, ChooseStep
    <3>2. ASSUME NEW k \in pending, k >= cur, \A j \in pending : j >= cur => k <= j,
                 \/ pending' = pending \ {k} /\ cur' = k + 1
                 \/ pending' = pending /\ cur' = k
          PROVE  i \in pending /\ i < cur
      <4>1. k \in Nat
        BY <1>1, <3>2, ScheduleFacts DEF CoInv, CoType
      <4>2. i \in pending /\ i < k
        BY <1>2, <3>2, <4>1
      <4>3. ~ i >= cur
        BY <1>2, <3>2, <4>1, <4>2
      <4>4. QED
        BY <1>2, <1>3, <4>2, <4>3
    <3>3. QED
      BY <1>2, <1>3, <2>3, <3>1, <3>2
         DEF DrainStep, BeginWait, Fail, ReleaseStep
  <2>4. QED
    BY <1>7, <2>1, <2>2, <2>3 DEF ChooseStep
<1>8. CASE EnterWait \/ WaitSeesCancel \/ WaitGoesOn \/ WaitAwakes \/ WaitExpires
  <2>1. UNCHANGED <<mode, cur, pending>> /\ ~ ReleaseStep
    BY <1>8 DEF EnterWait, WaitSeesCancel, WaitGoesOn, WaitAwakes, WaitExpires, UpToDate,
         coVars, ReleaseStep
  <2>2. QED
    BY <1>2, <1>5, <2>1
<1>9. CASE ObserveError \/ ObserveTimeout \/ ObserveEnd
  BY <1>2, <1>5, <1>9 DEF ObserveError, ObserveTimeout, ObserveEnd, ReleaseStep
<1>10. CASE ObserveArrived
  <2>1. CASE mode = "boot"
    BY <1>10, <2>1, NextStepIs DEF ObserveArrived
  <2>2. CASE mode # "boot"
    BY <1>2, <1>5, <1>10, <2>2 DEF ObserveArrived, ReleaseStep
  <2>3. QED
    BY <2>1, <2>2
<1>11. CASE Settle
  <2>1. (mode = "drain" /\ cur' = cur + 1) \/ cur' = 1
    BY <1>11, NextStepIs DEF Settle
  <2>2. pc = "settle" /\ i \in pending \cup {cur} /\ ~ ReleaseStep
    BY <1>11 DEF Settle, ReleaseStep
  <2>3. QED
    BY <1>2, <1>3, <2>1, <2>2
<1>12. CASE ReleaseStep
  <2>1. (mode = "drain" /\ cur' = cur + 1) \/ cur' = 1
    BY <1>12, NextStepIs DEF ReleaseStep
  <2>2. pending' = pending /\ Releasing
    BY <1>12 DEF ReleaseStep, Releasing
  <2>3. mode = "drain" => i # cur
    BY <2>2 DEF ControlInv
  <2>4. QED
    BY <1>2, <1>3, <2>1, <2>2, <2>3
<1>13. CASE BeginRelease \/ ReleaseRefused \/ FinalCollect \/ Complete
  <2>1. UNCHANGED <<mode, cur, pending>> /\ (ReleaseStep => pc = "releasing")
    BY <1>13 DEF BeginRelease, ReleaseRefused, FinalCollect, Complete, ReleaseStep
  <2>2. pc = "releasing" => ~ ReleaseStep
    BY <1>13 DEF BeginRelease, ReleaseRefused, FinalCollect, Complete, ReleaseStep, RT!Release
  <2>3. QED
    BY <1>2, <1>5, <2>1, <2>2
<1>14. QED
  BY <1>4, <1>6, <1>7, <1>8, <1>9, <1>10, <1>11, <1>12, <1>13 DEF Next, CoordinatorStep

(* From which observations the coordinator goes on to settle or to release a *)
(* step, or fails, and which steps it remembers as seen.                     *)
Phases ==
  /\ pc' = "settle" =>
       /\ cur' = cur /\ pc # "releasing"
       /\ pc = "settle" \/ (pc = "observed" /\ Status \in {"timeout", "done", "failed"})
  /\ Releasing' =>
       /\ cur' = cur /\ ~ ReleaseStep
       /\ \/ Releasing
          \/ pc = "observed" /\ Status = "arrived"
          \/ mode = "traverse" /\ cur \in preObserved
  /\ mode' \in {"boot", "traverse"} => \A i \in preObserved' :
       /\ mode \in {"boot", "traverse"} /\ ~ (ReleaseStep /\ i = cur)
       /\ i \in preObserved \/ (pc = "observed" /\ Status = "arrived" /\ i = cur)
  /\ failure' = "protocol" =>
       \/ failure = "protocol"
       \/ /\ UNCHANGED <<mode, cur, pending, ctxDone>> /\ pc' = "failed"
          /\ \/ pc = "observed" /\ Status \in {"closed", "mismatch", "invalid"}
             \/ ReleaseRefused

(* Every step of an execution is one of these moves.                         *)
LEMMA PhaseMoves ==
  ASSUME CoInv, ControlInv, PlanInv, [Next]_vars
  PROVE  Phases
<1> USE DEF Phases, Releasing
<1>1. CASE UNCHANGED vars \/ Cancel \/ \E w \in Worker : CollectorStep(w) \/ AppStep(w)
  <2>1. UNCHANGED coVars
    BY <1>1, OthersType DEF vars
  <2>2. ~ ReleaseStep \/ pc' # pc
    BY NextStepIs DEF ReleaseStep
  <2>3. QED
    BY <2>1, <2>2 DEF coVars
<1>2. CASE RegisterWorker \/ InvokeWorker \/ InvokeRefused
  <2>1. /\ pc' \in {"register", "invoke", "step", "failed"} /\ pc \in {"register", "invoke"}
        /\ failure' \in {failure, "observer", "invoke"} /\ UNCHANGED <<mode, preObserved>>
    BY <1>2 DEF RegisterWorker, InvokeWorker, InvokeRefused, Emit, Go, Fail
  <2>2. ~ ReleaseStep
    BY <2>1 DEF ReleaseStep
  <2>3. mode = "boot"
    BY <2>1 DEF ControlInv
  <2>4. QED
    BY <2>1, <2>2, <2>3
<1>3. ASSUME NEW e \in BOOLEAN, NextStep(e), preObserved' = preObserved,
             mode = "traverse" => ~ (ReleaseStep /\ cur \in preObserved),
             mode # "boot" \/ ~ ReleaseStep
      PROVE  Phases
  <2>1. failure' \in {failure, "observer"}
    BY <1>3 DEF NextStep, Pass, Emit, Go, Fail
  <2>2. QED
    BY <1>3, <2>1, NextStepIs
<1>4. CASE ChooseStep
  <2>1. pc = "step" /\ ~ ReleaseStep
    BY <1>4 DEF ChooseStep, ReleaseStep
  <2>2. ASSUME NEW i, BeginWait(i) PROVE Phases
    BY <2>1, <2>2 DEF BeginWait, Go, Fail
  <2>3. CASE BootstrapStep
    BY <2>2, <2>3 DEF BootstrapStep
  <2>4. CASE TraverseStep
    <3>1. CASE /\ cur \in preObserved /\ preObserved' = preObserved \ {cur} /\ Go("release")
               /\ UNCHANGED <<mode, turn, cur, pending, progressed, fate>>
      BY <2>1, <2>4, <3>1 DEF TraverseStep, Go
    <3>2. QED
      BY <1>3, <2>1, <2>2, <2>4, <3>1 DEF TraverseStep
  <2>5. CASE DrainStep
    <3>1. /\ mode = "drain" /\ mode' \in {"drain", "final"}
          /\ pc' \in {"step", "enter", "final", "failed"}
          /\ failure' \in {failure, "observer", "ctx", "no progress"}
      BY <2>5 DEF DrainStep, BeginWait, Emit, Go, Fail
    <3>2. QED
      BY <3>1
  <2>6. QED
    BY <1>4, <2>3, <2>4, <2>5 DEF ChooseStep
<1>5. CASE EnterWait \/ WaitSeesCancel \/ WaitGoesOn \/ WaitAwakes \/ WaitExpires
  <2>1. /\ UNCHANGED <<mode, preObserved, failure>>
        /\ pc \in {"enter", "waiting"} /\ pc' \in {"waiting", "observed"}
    BY <1>5 DEF EnterWait, WaitSeesCancel, WaitGoesOn, WaitAwakes, WaitExpires, UpToDate, Go,
         coVars
  <2>2. ~ ReleaseStep
    BY <2>1 DEF ReleaseStep
  <2>3. QED
    BY <2>1, <2>2
<1>6. CASE ObserveArrived
  <2>1. pc = "observed" /\ Status = "arrived" /\ ~ ReleaseStep
    BY <1>6 DEF ObserveArrived, ReleaseStep
  <2>2. CASE mode = "boot"
    <3>1. PICK e \in BOOLEAN : NextStep(e) /\ preObserved' = preObserved \cup {cur}
      BY <1>6, <2>2 DEF ObserveArrived
    <3>2. failure' \in {failure, "observer"}
      BY <3>1 DEF NextStep, Pass, Emit, Go, Fail
    <3>3. QED
      BY <2>1, <2>2, <3>1, <3>2, NextStepIs
  <2>3. CASE mode # "boot"
    BY <1>6, <2>1, <2>3 DEF ObserveArrived, Emit, Go, Fail
  <2>4. QED
    BY <2>2, <2>3
<1>7. CASE ObserveError \/ ObserveTimeout \/ ObserveEnd
  <2>1. /\ UNCHANGED <<mode, cur, pending, preObserved, ctxDone>> /\ pc = "observed"
        /\ pc' \in {"settle", "failed"} /\ ~ ReleaseStep
    BY <1>7 DEF ObserveError, ObserveTimeout, ObserveEnd, Collect, Accept, Emit, Go, Fail,
         ReleaseStep
  <2>2. /\ pc' = "settle" => Status \in {"timeout", "done", "failed"}
        /\ failure' = "protocol" =>
             failure = "protocol" \/ Status \in {"closed", "mismatch", "invalid"}
    BY <1>7 DEF ObserveError, ObserveTimeout, ObserveEnd, Collect, Accept, Emit, Go, Fail
  <2>3. failure' = "protocol" => failure = "protocol" \/ pc' = "failed"
    BY <1>7 DEF ObserveError, ObserveTimeout, ObserveEnd, Collect, Accept, Emit, Go, Fail
  <2>4. QED
    BY <2>1, <2>2, <2>3
<1>8. CASE Settle
  BY <1>3, <1>8 DEF Settle, ReleaseStep
<1>9. CASE ReleaseStep
  <2>1. mode \in {"traverse", "drain"} /\ (mode = "traverse" => cur \notin preObserved)
    BY <1>9 DEF ReleaseStep, ControlInv, PlanInv
  <2>2. QED
    BY <1>3, <1>9, <2>1 DEF ReleaseStep
<1>10. CASE BeginRelease \/ ReleaseRefused
  <2>1. /\ UNCHANGED <<mode, cur, pending, preObserved, ctxDone>>
        /\ pc \in {"release", "releasing"} /\ pc' \in {"releasing", "failed"}
        /\ failure' = "protocol" => failure = "protocol" \/ (ReleaseRefused /\ pc' = "failed")
    BY <1>10 DEF BeginRelease, ReleaseRefused, Go, Fail
  <2>2. ~ ReleaseStep
    BY <1>10 DEF BeginRelease, ReleaseRefused, ReleaseStep, RT!Release
  <2>3. QED
    BY <2>1, <2>2
<1>11. CASE FinalCollect \/ Complete
  <2>1. /\ pc \in {"final", "closing"} /\ mode' = mode
        /\ pc' \in {"final", "closing", "complete", "failed"}
        /\ failure' \in {failure, "observer", "collector", "ctx"}
    BY <1>11 DEF FinalCollect, Complete, Collect, Accept, Emit, Go, Fail
  <2>2. mode = "final"
    BY <2>1 DEF ControlInv
  <2>3. QED
    BY <2>1, <2>2
<1>12. QED
  BY <1>1, <1>2, <1>4, <1>5, <1>6, <1>7, <1>8, <1>9, <1>10, <1>11 DEF Next, CoordinatorStep

(* Every step of an execution keeps what the drain passes rely on.           *)
LEMMA StuckInvStep ==
  ASSUME OwnInv, KnownInv, StuckInv, [Next]_vars, \A w \in Worker : Moves(w)
  PROVE  StuckInv'
<1>1. UNCHANGED schedule /\ schedule \in Schedules
  BY ScheduleStays DEF OwnInv, CoInv, CoType
<1>2. ASSUME mode' = "drain", NEW i \in pending', i < cur' PROVE Stuck(i)'
  <2>1. /\ mode = "drain" /\ i \in Steps /\ ~ (ReleaseStep /\ i = cur)
        /\ (i \in pending /\ i < cur) \/ (pc = "settle" /\ i = cur)
    BY <1>2, PassedOver DEF OwnInv
  <2>2. Stuck(i)
    BY <2>1 DEF StuckInv
  <2>3. QED
    BY <2>1, <2>2, StuckStays
<1>3. StepWorker(cur) \in Worker \/ ~ Waiting
  BY <1>1, ScheduleFacts DEF OwnInv, CoInv
<1>4. ASSUME Stuck(cur), pc \in {"settle", "observed"}, cur' = cur PROVE Stuck(cur)'
  <2>1. cur \in Steps /\ ~ ReleaseStep
    BY <1>4 DEF OwnInv, CoInv, Waiting, ReleaseStep
  <2>2. PICK i \in Steps : i = cur
    BY <2>1
  <2>3. Stuck(i)'
    BY <1>4, <2>1, <2>2, StuckStays
  <2>4. QED
    BY <1>4, <2>2, <2>3
<1>5. ASSUME pc' = "settle" PROVE Stuck(cur)'
  <2>1. /\ cur' = cur
        /\ pc = "settle" \/ (pc = "observed" /\ Status \in {"timeout", "done", "failed"})
    BY <1>5, PhaseMoves DEF OwnInv, Phases
  <2>2. QED
    BY <1>4, <2>1 DEF StuckInv
<1>6. ASSUME pc' = "observed", Status' \in {"timeout", "done", "failed"} PROVE Stuck(cur)'
  <2>1. WaitEnds \/ (pc = "observed" /\ Status' = Status /\ UNCHANGED coVars)
    BY <1>6, CallInvStep DEF OwnInv
  <2>2. CASE pc = "observed" /\ Status' = Status /\ UNCHANGED coVars
    BY <1>4, <1>6, <2>2 DEF StuckInv, coVars
  <2>3. CASE WaitEnds
    <3>1. StepWorker(cur) \in Worker /\ ~ closed /\ cur' = cur
      BY <1>3, <2>3 DEF WaitEnds, Answered, Expired, OwnInv, PlaceInv, Waiting
    <3>2. CASE Answered
      <4>1. state[StepWorker(cur)] \in {"done", "failed"} /\ state' = state
        <5>1. PICK w \in Worker, p \in {StepPoint(cur)} : w = StepWorker(cur) /\ p = StepPoint(cur)
          BY <3>1
        <5>2. RT!WaitStatus(w, p) \in {"none", "arrived", "done", "failed", "closed",
                                      "mismatch", "invalid"}
          BY StatusType DEF OwnInv
        <5>3. RT!WaitStatus(w, p) \in {"done", "failed"} /\ state' = state
          BY <1>6, <3>2, <5>1, <5>2 DEF Answered
        <5>4. state[w] \in {"done", "failed"}
          <6>1. state[w] \in RTP!WorkerState
            BY MoveTypes DEF OwnInv
          <6>2. QED
            BY <3>1, <5>3, <6>1 DEF RT!WaitStatus, RT!Terminal, RTP!WorkerState
        <5>5. QED
          BY <5>1, <5>3, <5>4
      <4>2. QED
        BY <1>1, <3>1, <4>1 DEF Stuck, StepWorker
    <3>3. CASE Expired
      BY <1>1, <3>1, <3>3 DEF Expired, Stuck, StepWorker, StepPoint
    <3>4. QED
      BY <2>3, <3>2, <3>3 DEF WaitEnds
  <2>4. QED
    BY <2>1, <2>2, <2>3
<1>7. QED
  BY <1>2, <1>5, <1>6 DEF StuckInv

-----------------------------------------------------------------------------
(* The points.  A worker is released at a point it has passed, and blocked   *)
(* before the next one; one that keeps to the declared order is seen at the  *)
(* next one.                                                                 *)
PointInv ==
  \A w \in Worker :
    /\ state[w] = "released" => point[w] \in Point /\ Position(point[w]) <= Passed(w)
    /\ state[w] = "db_blocked" => point[w] \in Point /\ Position(point[w]) = Passed(w) + 1
    /\ state[w] = "arrived" /\ w \notin Deviant =>
         point[w] \in Point /\ Position(point[w]) = Passed(w) + 1

(* Every step of an execution keeps them.                                    *)
LEMMA PointInvStep ==
  ASSUME OwnInv, StuckInv, TraceInv, PointInv, [Next]_vars, \A w \in Worker : Moves(w)
  PROVE  PointInv'
<1> SUFFICES ASSUME NEW w \in Worker
             PROVE  /\ state'[w] = "released" =>
                         point'[w] \in Point /\ Position(point'[w]) <= Passed(w)'
                    /\ state'[w] = "db_blocked" =>
                         point'[w] \in Point /\ Position(point'[w]) = Passed(w)' + 1
                    /\ state'[w] = "arrived" /\ w \notin Deviant =>
                         point'[w] \in Point /\ Position(point'[w]) = Passed(w)' + 1
  BY DEF PointInv, Position
<1>1. Moves(w) /\ Passed(w) \in Nat
  BY MoveTypes, ListFacts DEF OwnInv, Passed
<1>2. CASE Stays(w)
  BY <1>2 DEF Stays, PointInv
<1>3. CASE Registers(w) \/ Withdraws(w) \/ Finishes(w)
  BY <1>3 DEF Registers, Withdraws, Finishes
<1>4. CASE TimesOut(w)
  <2>1. /\ Waiting /\ w = StepWorker(cur) /\ state'[w] = "db_blocked"
        /\ point'[w] = StepPoint(cur) /\ Passed(w)' = Passed(w) /\ ~ ctxDone
        /\ RT!WaitStatus(w, StepPoint(cur)) = "none"
    BY <1>4 DEF TimesOut, Waiting
  <2>2. ~ Behind
    BY <2>1, NoneBehind
  <2>3. state[w] \notin {"done", "failed"}
    BY <2>1 DEF RT!WaitStatus, RT!Terminal, OwnInv, PlaceInv
  <2>4. Position(StepPoint(cur)) = Passed(w) + 1
    BY <2>1, <2>2, <2>3, CurrentIsNext
  <2>5. StepPoint(cur) \in Point
    BY <2>1, ScheduleFacts DEF OwnInv, CoInv, CoType
  <2>6. QED
    BY <2>1, <2>4, <2>5
<1>5. CASE Releases(w)
  <2>1. /\ ReleaseStep /\ w = StepWorker(cur) /\ Passed(w)' = Passed(w) + 1
        /\ state'[w] = "released" /\ point'[w] = StepPoint(cur)
    BY <1>5 DEF Releases
  <2>2. cur \in Steps /\ Position(StepPoint(cur)) = Passed(w) + 1
    BY <2>1, ReleaseMoves
  <2>3. StepPoint(cur) \in Point
    BY <2>2, ScheduleFacts DEF OwnInv, CoInv, CoType
  <2>4. QED
    BY <1>1, <2>1, <2>2, <2>3
<1>6. CASE Arrives(w)
  <2>1. /\ state'[w] = "arrived" /\ Passed(w)' = Passed(w) /\ Passed(w) = visits[w]
        /\ point'[w] \in Reach(w)
    BY <1>6 DEF Arrives
  <2>2. ASSUME w \notin Deviant PROVE point'[w] \in Point /\ Position(point'[w]) = visits[w] + 1
    <3>1. PICK m \in {visits[w] + 1} \cap DOMAIN PointList : point'[w] = PointList[m]
      BY <2>1, <2>2 DEF Reach
    <3>2. QED
      BY <3>1, ListFacts, PositionOf
  <2>3. QED
    BY <2>1, <2>2
<1>7. QED
  BY <1>1, <1>2, <1>3, <1>4, <1>5, <1>6 DEF Moves

-----------------------------------------------------------------------------
(* What was seen.  A worker that was seen at a point is still there when its *)
(* step is released, unless the context has ended meanwhile.                 *)
Seen(i) == ctxDone \/ (state[StepWorker(i)] = "arrived" /\ point[StepWorker(i)] = StepPoint(i))

Excused == Overtaken \/ StepWorker(cur) \in Deviant

SeenInv ==
  /\ Releasing \/ (pc = "observed" /\ Status = "arrived") => Seen(cur)
  /\ mode \in {"boot", "traverse"} => \A i \in preObserved : Seen(i)
  /\ pc = "observed" /\ Status \in {"mismatch", "invalid", "closed"} => Excused
  /\ failure = "protocol" => pc = "failed" /\ (ctxDone \/ Excused)

(* A worker seen at a point leaves it by the release of that step only.      *)
LEMMA SeenStays ==
  ASSUME OwnInv, [Next]_vars, \A w \in Worker : Moves(w), NEW i \in Steps, Seen(i),
         ~ (ReleaseStep /\ i = cur)
  PROVE  Seen(i)'
<1>1. UNCHANGED schedule /\ schedule \in Schedules /\ (ctxDone => ctxDone')
  BY ScheduleStays, ContextStays DEF OwnInv, CoInv, CoType
<1>2. StepPoint(i)' = StepPoint(i) /\ StepWorker(i)' = StepWorker(i)
  BY <1>1 DEF StepPoint, StepWorker
<1>3. PICK w \in Worker : w = StepWorker(i)
  BY <1>1, ScheduleFacts
<1>4. CASE ctxDone
  BY <1>1, <1>4 DEF Seen
<1>5. CASE state[w] = "arrived" /\ point[w] = StepPoint(i)
  <2>1. ~ closed
    BY DEF OwnInv, PlaceInv
  <2>2. ~ Releases(w)
    <3>1. SUFFICES ASSUME Releases(w) PROVE FALSE
      OBVIOUS
    <3>2. cur \in Steps /\ StepWorker(cur) = w /\ StepPoint(cur) = StepPoint(i) /\ i # cur
      BY <1>5, <3>1 DEF Releases, ReleaseStep, OwnInv, CoInv, Releasing
    <3>3. QED
      BY <1>1, <1>3, <3>2, OneStepEach
  <2>3. ~ TimesOut(w)
    BY <1>5, <2>1 DEF TimesOut, RT!WaitStatus
  <2>4. ~ Arrives(w) /\ ~ Registers(w) /\ ~ Finishes(w)
    BY <1>5 DEF Arrives, Registers, Finishes, CollectResult, RT!Finish, RT!CanFinish,
         RT!CanArrive
  <2>5. Stays(w) \/ Withdraws(w)
    BY <2>2, <2>3, <2>4 DEF Moves
  <2>6. ctxDone \/ (state'[w] = "arrived" /\ point'[w] = StepPoint(i))
    BY <1>5, <2>5 DEF Stays, Withdraws
  <2>7. QED
    BY <1>1, <1>2, <1>3, <2>6 DEF Seen
<1>6. QED
  BY <1>3, <1>4, <1>5 DEF Seen

(* The runtime has no objection to a wait for the next point of a worker.    *)
LEMMA AnswerFits ==
  ASSUME OwnInv, KnownInv, TraceInv, PointInv, Waiting,
         RT!WaitStatus(StepWorker(cur), StepPoint(cur)) \in {"mismatch", "invalid", "closed"}
  PROVE  Excused
<1> SUFFICES ASSUME ~ Overtaken, StepWorker(cur) \notin Deviant PROVE FALSE
  BY DEF Excused
<1>1. /\ cur \in Steps /\ mode # "final" /\ fate[cur] # "released"
      /\ schedule \in Schedules
  BY CurrentUnreleased DEF OwnInv, CoInv, CoType
<1>2. PICK w \in Worker : w = StepWorker(cur)
  BY <1>1, ScheduleFacts
<1>3. StepPoint(cur) \in Point /\ ~ closed /\ state[w] # "unknown"
  BY <1>1, ScheduleFacts DEF OwnInv, PlaceInv, KnownInv, Waiting
<1>4. ~ Behind
  <2>1. mode \in {"boot", "traverse", "drain"}
    BY <1>1 DEF OwnInv, CoInv, CoType
  <2>2. CASE mode = "boot"
    BY <2>2 DEF Behind, OwnInv, PlanInv, CoInv, CoType
  <2>3. CASE mode = "traverse"
    BY <2>3 DEF Behind, OwnInv, PlanInv, HasPendingPredecessor
  <2>4. CASE mode = "drain"
    BY <2>4 DEF Behind, Overtaken
  <2>5. QED
    BY <2>1, <2>2, <2>3, <2>4
<1>5. state[w] \notin {"done", "failed"}
  BY <1>2, <1>3 DEF RT!WaitStatus, RT!Terminal
<1>6. Position(StepPoint(cur)) = Passed(w) + 1
  BY <1>2, <1>4, <1>5, CurrentIsNext
<1>7. Passed(w) \in Nat
  BY MoveTypes, ListFacts DEF OwnInv, Passed
<1>8. CASE state[w] \in {"arrived", "db_blocked"}
  <2>1. point[w] \in Point /\ Position(point[w]) = Position(StepPoint(cur))
    BY <1>2, <1>6, <1>8 DEF PointInv
  <2>2. point[w] = StepPoint(cur)
    BY <1>3, <2>1, PositionOf
  <2>3. QED
    BY <1>2, <1>3, <1>8, <2>2 DEF RT!WaitStatus
<1>9. CASE state[w] = "released"
  <2>1. point[w] # StepPoint(cur)
    BY <1>6, <1>7, <1>9 DEF PointInv
  <2>2. QED
    BY <1>2, <1>3, <1>9, <2>1 DEF RT!WaitStatus
<1>10. CASE state[w] = "running"
  BY <1>2, <1>3, <1>10 DEF RT!WaitStatus
<1>11. QED
  BY <1>3, <1>5, <1>8, <1>9, <1>10, MoveTypes DEF OwnInv, RTP!WorkerState

(* Every step of an execution keeps it.                                      *)
LEMMA SeenInvStep ==
  ASSUME OwnInv, KnownInv, TraceInv, PointInv, SeenInv, [Next]_vars,
         \A w \in Worker : Moves(w)
  PROVE  SeenInv'
<1>1. UNCHANGED schedule /\ schedule \in Schedules /\ (ctxDone => ctxDone')
  BY ScheduleStays, ContextStays DEF OwnInv, CoInv, CoType
<1>2. Phases
  BY PhaseMoves DEF OwnInv
<1>3. UNCHANGED <<mode, cur, pending>> /\ Excused => Excused'
  BY <1>1 DEF Excused, Overtaken, StepWorker
<1>4. ASSUME cur \in Steps, Seen(cur), ~ ReleaseStep, cur' = cur PROVE Seen(cur)'
  <2>1. PICK i \in Steps : i = cur
    BY <1>4
  <2>2. Seen(i)'
    BY <1>4, <2>1, SeenStays
  <2>3. QED
    BY <1>4, <2>1, <2>2
<1>5. pc' = "observed" =>
        WaitEnds \/ (pc = "observed" /\ Status' = Status /\ UNCHANGED coVars)
  BY CallInvStep DEF OwnInv
<1>6. ASSUME Releasing' PROVE Seen(cur)'
  <2>1. /\ cur' = cur /\ ~ ReleaseStep
        /\ \/ Releasing
           \/ pc = "observed" /\ Status = "arrived"
           \/ mode = "traverse" /\ cur \in preObserved
    BY <1>2, <1>6 DEF Phases
  <2>2. cur \in Steps
    BY <2>1 DEF OwnInv, CoInv, CoType, Waiting
  <2>3. Seen(cur)
    BY <2>1 DEF SeenInv
  <2>4. QED
    BY <1>4, <2>1, <2>2, <2>3
<1>7. ASSUME pc' = "observed", Status' = "arrived" PROVE Seen(cur)'
  <2>1. CASE WaitEnds
    <3>1. Answered /\ cur' = cur
      BY <1>7, <2>1 DEF WaitEnds, Expired
    <3>2. RT!WaitStatus(StepWorker(cur), StepPoint(cur)) = "arrived"
      BY <1>7, <3>1 DEF Answered
    <3>3. /\ state[StepWorker(cur)] = "arrived" /\ point[StepWorker(cur)] = StepPoint(cur)
      <4>1. cur \in Steps
        BY <3>1 DEF Answered, OwnInv, CoInv, Waiting
      <4>2. PICK w \in Worker : w = StepWorker(cur)
        BY <1>1, <4>1, ScheduleFacts
      <4>3. state[w] \in RTP!WorkerState
        BY MoveTypes DEF OwnInv
      <4>4. QED
        BY <3>2, <4>2, <4>3 DEF RT!WaitStatus, RTP!WorkerState, RT!Terminal
    <3>4. QED
      BY <1>1, <3>1, <3>3 DEF Answered, Seen, StepWorker, StepPoint
  <2>2. CASE pc = "observed" /\ Status' = Status /\ UNCHANGED coVars
    <3>1. cur \in Steps /\ Seen(cur) /\ ~ ReleaseStep /\ cur' = cur
      BY <1>7, <2>2 DEF OwnInv, CoInv, Waiting, SeenInv, ReleaseStep, coVars
    <3>2. QED
      BY <1>4, <3>1
  <2>3. QED
    BY <1>5, <1>7, <2>1, <2>2
<1>8. ASSUME mode' \in {"boot", "traverse"}, NEW i \in preObserved' PROVE Seen(i)'
  <2>1. /\ mode \in {"boot", "traverse"} /\ ~ (ReleaseStep /\ i = cur)
        /\ i \in preObserved \/ (pc = "observed" /\ Status = "arrived" /\ i = cur)
    BY <1>2, <1>8 DEF Phases
  <2>2. i \in Steps /\ Seen(i)
    BY <2>1 DEF OwnInv, CoInv, CoType, Waiting, SeenInv
  <2>3. QED
    BY <2>1, <2>2, SeenStays
<1>9. ASSUME pc' = "observed", Status' \in {"mismatch", "invalid", "closed"} PROVE Excused'
  <2>1. CASE WaitEnds
    <3>1. Answered /\ UNCHANGED <<mode, cur, pending>>
      BY <1>9, <2>1 DEF WaitEnds, Expired
    <3>2. /\ Waiting
          /\ RT!WaitStatus(StepWorker(cur), StepPoint(cur)) \in {"mismatch", "invalid", "closed"}
      BY <1>9, <3>1 DEF Answered, Waiting
    <3>3. Excused
      BY <3>2, AnswerFits
    <3>4. QED
      BY <1>3, <3>1, <3>3
  <2>2. CASE pc = "observed" /\ Status' = Status /\ UNCHANGED coVars
    BY <1>3, <1>9, <2>2 DEF SeenInv, coVars
  <2>3. QED
    BY <1>5, <1>9, <2>1, <2>2
<1>10. ASSUME failure' = "protocol" PROVE pc' = "failed" /\ (ctxDone' \/ Excused')
  <2>1. CASE failure = "protocol"
    <3>1. pc = "failed" /\ (ctxDone \/ Excused)
      BY <2>1 DEF SeenInv
    <3>2. UNCHANGED coVars
      BY <3>1, ScheduleStays DEF OwnInv
    <3>3. UNCHANGED <<mode, cur, pending>> /\ pc' = pc
      BY <3>2 DEF coVars
    <3>4. QED
      BY <1>1, <1>3, <3>1, <3>3
  <2>2. CASE /\ UNCHANGED <<mode, cur, pending, ctxDone>> /\ pc' = "failed"
             /\ pc = "observed" /\ Status \in {"closed", "mismatch", "invalid"}
    BY <1>3, <2>2 DEF SeenInv
  <2>3. CASE /\ UNCHANGED <<mode, cur, pending, ctxDone>> /\ pc' = "failed" /\ ReleaseRefused
    <3>1. pc = "releasing" /\ ~ RT!CanRelease(StepWorker(cur), StepPoint(cur))
      BY <2>3 DEF ReleaseRefused
    <3>2. cur \in Steps /\ Seen(cur)
      BY <3>1 DEF OwnInv, CoInv, Releasing, SeenInv
    <3>3. PICK w \in Worker : w = StepWorker(cur)
      BY <1>1, <3>2, ScheduleFacts
    <3>4. ctxDone
      <4>1. SUFFICES ASSUME state[w] = "arrived", point[w] = StepPoint(cur) PROVE FALSE
        BY <3>2, <3>3 DEF Seen
      <4>2. ~ closed /\ arrival[w] = w
        BY <4>1, OwnArrival DEF OwnInv, PlaceInv
      <4>3. w # Nil
        BY RuntimeNil
      <4>4. QED
        BY <3>1, <3>3, <4>1, <4>2, <4>3 DEF RT!CanRelease
    <3>5. QED
      BY <2>3, <3>4
  <2>4. QED
    BY <1>2, <1>10, <2>1, <2>2, <2>3 DEF Phases
<1>11. QED
  BY <1>6, <1>7, <1>8, <1>9, <1>10 DEF SeenInv

-----------------------------------------------------------------------------
(* The whole invariant.  It holds when an execution starts and every step    *)
(* keeps it, as long as the runtime keeps what it promises every caller.     *)
TraceKept == /\ CoInv /\ ControlInv /\ CoverInv /\ InvokeInv /\ ResultInv
             /\ PlanInv /\ PlaceInv /\ CallInv /\ KnownInv
             /\ TraceInv /\ StuckInv /\ PointInv /\ SeenInv

(* It holds when an execution starts.                                        *)
LEMMA TraceKeptInit == Init => TraceKept
<1> SUFFICES ASSUME Init PROVE TraceKept
  OBVIOUS
<1>1. StuckInv /\ PointInv /\ SeenInv
  BY DEF Init, RT!Init, StuckInv, PointInv, SeenInv, Releasing
<1>2. QED
  BY <1>1, CoInvInit, ControlInvInit, InvokeInvInit, ResultInvInit, PlanInvInit, PlaceInvInit,
     CallInvInit, KnownInvInit, TraceInvInit DEF TraceKept

(* Every step of an execution keeps it.                                      *)
LEMMA TraceKeptStep == RtInv /\ TraceKept /\ [Next]_vars => TraceKept'
<1> SUFFICES ASSUME RtInv, TraceKept, [Next]_vars PROVE TraceKept'
  OBVIOUS
<1>1. OwnInv /\ KnownInv /\ TraceInv /\ StuckInv /\ PointInv /\ SeenInv
  BY DEF TraceKept, OwnInv
<1>2. RTP!SlotInv
  BY DEF RtInv, RTP!ArrivalsKept, RTP!SlotInv
<1>3. CoInv' /\ ControlInv' /\ CoverInv' /\ InvokeInv' /\ ResultInv'
  BY <1>1, <1>2, CoInvStep, ControlInvStep, CoverInvStep, InvokeInvStep, ResultInvStep
     DEF OwnInv
<1>4. PlaceInv' /\ \A w \in Worker : Moves(w)
  BY <1>1, WorkerMoves DEF OwnInv
<1>5. PlanInv' /\ CallInv' /\ KnownInv'
  BY <1>1, <1>4, PlanInvStep, CallInvStep, KnownInvStep DEF OwnInv
<1>6. TraceInv' /\ StuckInv' /\ PointInv' /\ SeenInv'
  BY <1>1, <1>4, TraceInvStep, StuckInvStep, PointInvStep, SeenInvStep
<1>7. QED
  BY <1>3, <1>4, <1>5, <1>6 DEF TraceKept

(* A worker that keeps to the declared order of its points never makes the   *)
(* runtime refuse a call of execute, whatever the others do, before the end  *)
(* of the context; the one exception is a drain pass that goes on to a step  *)
(* behind one it has just found unavailable.                                 *)
THEOREM ProtocolCorrect == Spec => []ProtocolKept
<1>1. SeenInv => ProtocolKept
  BY DEF SeenInv, Excused, ProtocolKept
<1>2. TraceKept => SeenInv
  BY DEF TraceKept
<1>3. RTP!TypeOK /\ RTP!ArrivalsKept /\ RTP!WaitsKept => RtInv
  BY DEF RtInv
<1>4. QED
  BY <1>1, <1>2, <1>3, TraceKeptInit, TraceKeptStep, RuntimeKept, PTL DEF Spec

-----------------------------------------------------------------------------
(* As many steps of a worker are released as it has passed points.           *)
LEMMA ReleasedCount ==
  ASSUME TypeOK, CoInv, RtInv, PlaceInv, TraceInv, NEW w \in Worker
  PROVE  Cardinality(ReleasedSteps(w)) = Passed(w)
<1> DEFINE R == ReleasedSteps(w)
           k == Passed(w)
           f == [i \in R |-> Position(StepPoint(i))]
<1>1. schedule \in Schedules
  BY DEF CoInv, CoType
<1>2. k \in Nat /\ k <= Len(PointList)
  <2>1. visits[w] \in Nat /\ visits[w] <= Len(PointList)
    BY MoveTypes, ListFacts
  <2>2. Granted(w) => visits[w] < Len(PointList)
    BY DEF Granted, PlaceInv, PlaceOf, CoInv
  <2>3. QED
    BY <2>1, <2>2, ListFacts DEF Passed
<1>3. \A i : i \in R <=> i \in Steps /\ StepWorker(i) = w /\ Position(StepPoint(i)) <= k
  BY DEF ReleasedSteps, TraceInv
<1>4. ASSUME NEW i \in R
      PROVE  /\ Position(StepPoint(i)) \in 1 .. k
             /\ PointList[Position(StepPoint(i))] = StepPoint(i)
  <2>1. StepPoint(i) \in Point
    BY <1>1, <1>3, ScheduleFacts
  <2>2. Position(StepPoint(i)) \in 1 .. Len(PointList) /\ Position(StepPoint(i)) <= k
    BY <1>3, <2>1, PositionOf
  <2>3. QED
    BY <1>2, <2>1, <2>2, ListFacts, PositionOf
<1>5. ASSUME NEW m \in 1 .. k PROVE \E i \in R : Position(StepPoint(i)) = m
  <2>1. m \in 1 .. Len(PointList) /\ m <= k
    BY <1>2, ListFacts
  <2>2. PICK i \in Steps : StepWorker(i) = w /\ StepPoint(i) = PointList[m]
    BY <1>1, <2>1, ScheduleFacts, ListFacts
  <2>3. Position(StepPoint(i)) = m
    BY <2>1, <2>2, PositionOf
  <2>4. QED
    BY <1>3, <2>1, <2>2, <2>3
<1>6. ASSUME NEW i \in R, NEW j \in R, Position(StepPoint(i)) = Position(StepPoint(j))
      PROVE  i = j
  <2>1. StepPoint(i) = StepPoint(j)
    BY <1>4, <1>6
  <2>2. QED
    BY <1>1, <1>3, <2>1, OneStepEach
<1>7. IsFiniteSet(R)
  <2>1. IsFiniteSet(Steps)
    BY <1>1, StepRange, FS_Interval DEF Steps
  <2>2. R \subseteq Steps
    BY <1>3
  <2>3. QED
    BY <2>1, <2>2, FS_Subset
<1> HIDE DEF R, k
<1>8. f \in Bijection(R, 1 .. k)
  <2>1. f \in [R -> 1 .. k]
    BY <1>4
  <2>2. \A i, j \in R : f[i] = f[j] => i = j
    BY <1>6
  <2>3. \A m \in 1 .. k : \E i \in R : f[i] = m
    BY <1>5
  <2> HIDE DEF f
  <2>4. f \in Injection(R, 1 .. k)
    BY <2>1, <2>2 DEF Injection, IsInjective
  <2>5. f \in Surjection(R, 1 .. k)
    BY <2>1, <2>3 DEF Surjection
  <2>6. QED
    BY <2>4, <2>5 DEF Bijection
<1>9. Cardinality(1 .. k) = Cardinality(R)
  BY <1>7, <1>8, FS_Bijection DEF ExistsBijection
<1>10. Cardinality(1 .. k) = k
  BY <1>2, FS_Interval
<1>11. QED
  BY <1>9, <1>10 DEF R, k

(* What was recorded of a worker fits what it did: the runtime accepts the   *)
(* result of every worker that a collector reads, the trace releases as many *)
(* steps of a worker as it has passed points, and these are the first steps  *)
(* that the schedule gives it.                                               *)
THEOREM RecordsCorrect == Spec => []RecordsFit
<1>1. TypeOK /\ RtInv /\ TraceKept => RecordsFit
  <2> SUFFICES ASSUME TypeOK, RtInv, TraceKept PROVE RecordsFit
    OBVIOUS
  <2> USE DEF TraceKept
  <2>1. ASSUME NEW w \in Worker, coll[w] = "reading", outcome[w] \in {"ok", "err"}
        PROVE  RT!CanFinish(w)
    <3>1. app[w] = "ended"
      BY <2>1 DEF InvokeInv
    <3>2. state[w] # "arrived"
      BY <3>1, OwnArrival
    <3>3. state[w] \notin {"unknown", "done", "failed"}
      BY <2>1, <3>1 DEF KnownInv
    <3>4. state[w] \in RTP!WorkerState
      BY MoveTypes
    <3>5. QED
      BY <3>2, <3>3, <3>4 DEF RTP!WorkerState, RT!CanFinish
  <2>2. ASSUME NEW w \in Worker, NEW j \in ReleasedSteps(w), NEW i \in 1 .. j - 1,
               StepWorker(i) = w
        PROVE  i \in ReleasedSteps(w)
    <3>1. schedule \in Schedules
      BY DEF CoInv, CoType
    <3>2. j \in Steps /\ StepWorker(j) = w /\ fate[j] = "released"
      BY DEF ReleasedSteps
    <3>3. i \in Steps /\ i < j
      BY <3>1, <3>2, StepRange
    <3>4. Position(StepPoint(i)) < Position(StepPoint(j))
      BY <2>2, <3>1, <3>2, <3>3, ScheduleFacts
    <3>5. Position(StepPoint(j)) <= Passed(w)
      BY <3>2 DEF TraceInv
    <3>6. Position(StepPoint(i)) <= Passed(w)
      <4>1. StepPoint(i) \in Point /\ StepPoint(j) \in Point
        BY <3>1, <3>2, <3>3, ScheduleFacts
      <4>2. Position(StepPoint(i)) \in Nat /\ Position(StepPoint(j)) \in Nat
        BY <4>1, PositionOf, ListFacts
      <4>3. Passed(w) \in Nat
        BY MoveTypes, ListFacts DEF Passed
      <4>4. QED
        BY <3>4, <3>5, <4>2, <4>3
    <3>7. QED
      BY <2>2, <3>3, <3>6 DEF TraceInv, ReleasedSteps
  <2>3. \A w \in Worker :
          Cardinality(ReleasedSteps(w)) =
            visits[w] + IF arrive[w].pc = "blocked" /\ arrive[w].released THEN 1 ELSE 0
    BY ReleasedCount DEF Passed, Granted
  <2>4. QED
    BY <2>1, <2>2, <2>3 DEF RecordsFit, ResultsFit, TraceMatchesWorkers
<1>2. RTP!TypeOK /\ RTP!ArrivalsKept /\ RTP!WaitsKept => RtInv
  BY DEF RtInv
<1>3. QED
  BY <1>1, <1>2, TraceKeptInit, TraceKeptStep, RuntimeKept, CoordinatorTypeCorrect, PTL DEF Spec
=============================================================================
