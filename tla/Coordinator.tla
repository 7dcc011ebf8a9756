---------------------------- MODULE Coordinator ----------------------------
(***************************************************************************)
(* One execution of a saved schedule: runCoordinator.execute of            *)
(* internal/orchestrator/run.go with the collector goroutines of           *)
(* outcome.go, on top of the sync-point runtime (module SyncPoint).        *)
(*                                                                         *)
(* The coordinator goroutine, one collector and one application goroutine  *)
(* per worker, timers and cancellation interleave.  A coordinator action   *)
(* makes at most one call that another goroutine can race with; what it    *)
(* does to its own state around that call is part of the action.           *)
(*                                                                         *)
(* The application is any program that stops at its points in their        *)
(* declared order and ends when it likes; a worker of Deviant may stop     *)
(* anywhere.  Result streams follow the contract of internal/sut: one      *)
(* outcome and then closure, or closure alone.                             *)
(***************************************************************************)
EXTENDS Naturals, Sequences, FiniteSets

CONSTANTS WorkerList,   \* scenario.Workers: distinct worker IDs, in order
          PointList,    \* scenario.SyncPoints: distinct points, in order
          Deviant,      \* workers whose code may stop at any point
          ObserverMayFail,  \* the trace observer may refuse an event
          Coord,        \* the coordinator, as a caller of WaitArrive
          Nil

Elems(s) == {s[i] : i \in DOMAIN s}
Worker == Elems(WorkerList)
Point == Elems(PointList)

Distinct(s) == \A i, j \in DOMAIN s : s[i] = s[j] => i = j

ASSUME ListAssumption ==
  /\ WorkerList \in Seq(Worker) /\ Len(WorkerList) > 0 /\ Distinct(WorkerList)
  /\ PointList \in Seq(Point) /\ Len(PointList) > 0 /\ Distinct(PointList)
  /\ Nil \notin Worker \cup Point

VARIABLES
  closed, state, point, arrival, waitPoint, arrive, wait,   \* the runtime
  schedule,    \* schedule.Steps
  pc,          \* where the coordinator goroutine is
  mode,        \* which loop of execute it is in: "boot", "traverse", "drain", "final"
  turn,        \* worker index of the register, invoke and final loops
  cur,         \* step index of the current wait or release
  preObserved, \* steps seen arrived during bootstrap
  pending,     \* steps whose wait timed out, or that follow such a step
  progressed,  \* this drain pass settled a step
  exec,        \* executions: collected and terminal flags per worker
  failure,     \* why execute returned an error
  ctxDone,     \* the execution context is canceled
  fate,        \* per step: "open", "released" or "skipped" in the trace
  app,         \* the application goroutine of each worker
  visits,      \* points each worker has passed
  outcome,     \* what each result stream carries
  coll         \* the collector goroutine of each worker

rtVars == <<closed, state, point, arrival, waitPoint, arrive, wait>>
coVars == <<schedule, pc, mode, turn, cur, preObserved, pending, progressed,
            exec, failure, fate>>
appVars == <<app, visits, outcome>>
vars == <<rtVars, coVars, ctxDone, appVars, coll>>

RT == INSTANCE SyncPoint WITH Call <- Worker, Waiter <- {Coord}

Steps == 1 .. Len(schedule)
StepWorker(i) == schedule[i].worker
StepPoint(i) == schedule[i].point

(* scenario.Validate: every worker-point pair once, points in order.         *)
ValidSchedule(s) ==
  /\ \A w \in Worker, p \in Point :
       \E i \in DOMAIN s : s[i] = [worker |-> w, point |-> p]
  /\ \A i, j \in DOMAIN s : i < j /\ s[i].worker = s[j].worker =>
       \E m, n \in DOMAIN PointList : /\ m < n /\ PointList[m] = s[i].point
                                      /\ PointList[n] = s[j].point

Schedules ==
  {s \in [1 .. Len(WorkerList) * Len(PointList) -> [worker : Worker, point : Point]] :
     ValidSchedule(s)}

FirstStep(w) == CHOOSE i \in Steps : /\ StepWorker(i) = w
                                     /\ \A j \in 1 .. i - 1 : StepWorker(j) # w

Init ==
  /\ RT!Init
  /\ schedule \in Schedules
  /\ pc = "register" /\ mode = "boot" /\ turn = 1 /\ cur = 1
  /\ preObserved = {} /\ pending = {} /\ progressed = FALSE
  /\ exec = [w \in Worker |-> [collected |-> FALSE, terminal |-> FALSE]]
  /\ failure = "none" /\ ctxDone = FALSE
  /\ fate = [i \in 1 .. Len(WorkerList) * Len(PointList) |-> "open"]
  /\ app = [w \in Worker |-> "off"]
  /\ visits = [w \in Worker |-> 0]
  /\ outcome = [w \in Worker |-> "none"]
  /\ coll = [w \in Worker |-> "none"]

-----------------------------------------------------------------------------
(* Ways on: to the next program point, or out of execute with an error.  A   *)
(* step that emits a trace event may be its last: the observer may refuse    *)
(* the event, which is already part of the trace by then.  What execute      *)
(* would still have noted for itself is not read after an error.             *)

Fail(why) == pc' = "failed" /\ failure' = why
Go(to) == pc' = to /\ failure' = failure
Emit(to) == Go(to) \/ (ObserverMayFail /\ Fail("observer"))
Pass(emits, to) == IF emits THEN Emit(to) ELSE Go(to)

LastTurn == turn = Len(WorkerList)


(* The next iteration of the loop that the current step belongs to.          *)
NextStep(emits) ==
  \/ /\ mode = "boot" /\ ~LastTurn
     /\ turn' = turn + 1 /\ Pass(emits, "invoke") /\ UNCHANGED <<mode, cur>>
  \/ /\ mode = "boot" /\ LastTurn
     /\ mode' = "traverse" /\ turn' = 1 /\ cur' = 1 /\ Pass(emits, "step")
  \/ /\ mode = "traverse" /\ cur < Len(schedule)
     /\ cur' = cur + 1 /\ Pass(emits, "step") /\ UNCHANGED <<mode, turn>>
  \/ /\ mode = "traverse" /\ cur = Len(schedule)
     /\ mode' = "drain" /\ cur' = 1 /\ Pass(emits, "step") /\ UNCHANGED turn
  \/ /\ mode = "drain"
     /\ cur' = cur + 1 /\ Pass(emits, "step") /\ UNCHANGED <<mode, turn>>

-----------------------------------------------------------------------------
(* Registration, invocation and the bootstrap wait of each worker.            *)

RegisterWorker ==
  /\ pc = "register"
  /\ RT!Register(WorkerList[turn])
  /\ IF LastTurn THEN turn' = 1 /\ Emit("invoke")
                 ELSE turn' = turn + 1 /\ Emit("register")
  /\ UNCHANGED <<schedule, mode, cur, preObserved, pending, progressed, exec,
                 fate, ctxDone, appVars, coll>>

(* handle.Invoke starts the worker and its collector, unless the context has *)
(* ended or the adapter refuses.                                             *)
InvokeWorker ==
  LET w == WorkerList[turn] IN
  /\ pc = "invoke"
  /\ ~ctxDone
  /\ app' = [app EXCEPT ![w] = "code"]
  /\ coll' = [coll EXCEPT ![w] = "reading"]
  /\ cur' = FirstStep(w)
  /\ Emit("step")
  /\ UNCHANGED <<rtVars, schedule, mode, turn, preObserved, pending,
                 progressed, exec, fate, ctxDone, visits, outcome>>

InvokeRefused ==
  /\ pc = "invoke"
  /\ Fail("invoke")
  /\ UNCHANGED <<rtVars, schedule, mode, turn, cur, preObserved, pending,
                 progressed, exec, fate, ctxDone, appVars, coll>>

-----------------------------------------------------------------------------
(* Choosing what to do with the next step.                                    *)

(* Fault: the pending steps before i are taken for those of other workers.   *)
HasPendingPredecessor_Blind(i) == i \in pending

HasPendingPredecessor(i) == \E j \in pending : j < i /\ StepWorker(j) = StepWorker(i)

(* Fault: the runtime is trusted that w has ended, before the collector       *)
(* vouched for its result.                                                   *)
Ended_TrustsRuntime(w) == state[w] \in RT!Terminal

Ended(w) == exec[w].terminal

(* The entry of WaitArrive looks at the context before it locks.             *)
BeginWait(i) ==
  /\ cur' = i
  /\ IF ctxDone THEN Fail("ctx") ELSE Go("enter")
  /\ UNCHANGED <<mode, turn, preObserved, pending, progressed, fate>>

BootstrapStep == mode = "boot" /\ BeginWait(cur)

(* traverse: every saved step is looked at once, in the saved order.         *)
TraverseStep ==
  LET ended == Ended(StepWorker(cur))
      waits == cur \in pending \/ HasPendingPredecessor(cur) IN
  /\ mode = "traverse"
  /\ \/ /\ ended
        /\ fate' = [fate EXCEPT ![cur] = "skipped"]
        /\ NextStep(TRUE)
        /\ UNCHANGED <<preObserved, pending, progressed>>
     \/ /\ ~ended /\ waits
        /\ pending' = pending \cup {cur}
        /\ NextStep(FALSE)
        /\ UNCHANGED <<preObserved, progressed, fate>>
     \/ /\ ~ended /\ ~waits /\ cur \in preObserved
        /\ preObserved' = preObserved \ {cur}
        /\ Go("release")
        /\ UNCHANGED <<mode, turn, cur, pending, progressed, fate>>
     \/ /\ ~ended /\ ~waits /\ cur \notin preObserved
        /\ BeginWait(cur)

(* drainPending: one pass over the pending steps, in the saved order.        *)
DrainStep ==
  LET left == {i \in pending : i >= cur} IN
  /\ mode = "drain"
  /\ \/ \E i \in left :
          /\ \A j \in left : i <= j
          /\ \/ /\ Ended(StepWorker(i))
                /\ fate' = [fate EXCEPT ![i] = "skipped"]
                /\ pending' = pending \ {i}
                /\ progressed' = TRUE
                /\ cur' = i + 1 /\ Emit("step")
                /\ UNCHANGED <<mode, turn, preObserved>>
             \/ /\ ~Ended(StepWorker(i))
                /\ BeginWait(i)
     \/ /\ left = {} /\ pending = {}
        /\ mode' = "final" /\ turn' = 1 /\ Go("final")
        /\ UNCHANGED <<cur, preObserved, pending, progressed, fate>>
     \/ /\ left = {} /\ pending # {} /\ progressed
        /\ cur' = 1 /\ progressed' = FALSE /\ Go("step")
        /\ UNCHANGED <<mode, turn, preObserved, pending, fate>>
     \/ /\ left = {} /\ pending # {} /\ ~progressed
        /\ Fail("no progress")
        /\ UNCHANGED <<mode, turn, cur, preObserved, pending, progressed,
                       fate>>

ChooseStep ==
  /\ pc = "step"
  /\ BootstrapStep \/ TraverseStep \/ DrainStep
  /\ UNCHANGED <<rtVars, schedule, exec, ctxDone, appVars, coll>>

-----------------------------------------------------------------------------
(* WaitArrive, called by the coordinator.                                     *)

EnterWait ==
  /\ pc = "enter"
  /\ \/ RT!WaitAnswered(Coord, StepWorker(cur), StepPoint(cur)) /\ Go("observed")
     \/ RT!WaitBlocks(Coord, StepWorker(cur), StepPoint(cur)) /\ Go("waiting")
  /\ UNCHANGED <<schedule, mode, turn, cur, preObserved, pending, progressed,
                 exec, fate, ctxDone, appVars, coll>>

(* The wait sees its context end as soon as it is canceled: a wakeup reads    *)
(* ctx.Err itself.                                                            *)
WaitSeesCancel ==
  /\ pc = "waiting" /\ ctxDone
  /\ RT!CancelWait(Coord)
  /\ UNCHANGED <<coVars, ctxDone, appVars, coll>>

UpToDate == pc = "waiting" /\ (ctxDone => wait[Coord].canceled)

WaitGoesOn ==
  /\ UpToDate
  /\ RT!WaitAgain(Coord)
  /\ UNCHANGED <<coVars, ctxDone, appVars, coll>>

WaitAwakes ==
  /\ UpToDate
  /\ RT!WaitAwake(Coord)
  /\ Go("observed")
  /\ UNCHANGED <<schedule, mode, turn, cur, preObserved, pending, progressed,
                 exec, fate, ctxDone, appVars, coll>>

(* The block or step timeout of the wait expires.                            *)
WaitExpires ==
  /\ UpToDate
  /\ RT!WaitTimerAnswered(Coord) \/ RT!WaitTimeout(Coord)
  /\ Go("observed")
  /\ UNCHANGED <<schedule, mode, turn, cur, preObserved, pending, progressed,
                 exec, fate, ctxDone, appVars, coll>>

-----------------------------------------------------------------------------
(* recordObservation, and the same cases in drainPending.                     *)

Status == wait[Coord].result

(* Fault: a worker seen at its point during bootstrap is released at once.   *)
ObserveArrived_ReleasesEarly ==
  /\ pc = "observed" /\ Status = "arrived"
  /\ pending' = pending \ {cur} /\ Emit("release")
  /\ UNCHANGED <<rtVars, schedule, mode, turn, cur, preObserved, progressed, exec,
                 fate, ctxDone, appVars, coll>>

(* A worker seen at its point during bootstrap stays parked until the saved  *)
(* order reaches its step; otherwise it is released now.                     *)
ObserveArrived ==
  /\ pc = "observed" /\ Status = "arrived"
  /\ IF mode = "boot"
       THEN preObserved' = preObserved \cup {cur} /\ NextStep(TRUE) /\ UNCHANGED pending
       ELSE /\ pending' = pending \ {cur} /\ Emit("release")
            /\ UNCHANGED <<mode, turn, cur, preObserved>>
  /\ UNCHANGED <<rtVars, schedule, progressed, exec, fate, ctxDone, appVars,
                 coll>>

ObserveError ==
  /\ pc = "observed"
  /\ \/ Status = "ctx" /\ Fail("ctx")
     \/ Status \in {"closed", "mismatch", "invalid"} /\ Fail("protocol")
  /\ UNCHANGED <<rtVars, schedule, mode, turn, cur, preObserved, pending,
                 progressed, exec, fate, ctxDone, appVars, coll>>

(* acceptCollected: the result of w becomes evidence.  An error of the       *)
(* collector ends execute.                                                   *)
Sent(w) == coll[w] \in {"ready", "spoiled"} /\ ~exec[w].collected

Accept(w, to) ==
  /\ Sent(w)
  /\ exec' = [exec EXCEPT ![w] = [collected |-> TRUE,
                                  terminal |-> outcome[w] \in {"ok", "err"}]]
  /\ IF coll[w] = "spoiled" THEN Fail("collector") ELSE Emit(to)

(* pollCollector: after a timeout the collector may already know better.     *)
ObserveTimeout ==
  LET w == StepWorker(cur) IN
  /\ pc = "observed" /\ Status = "timeout"
  /\ Accept(w, "settle") \/ (~Sent(w) /\ Go("settle") /\ UNCHANGED exec)
  /\ UNCHANGED <<rtVars, schedule, mode, turn, cur, preObserved, pending,
                 progressed, fate, ctxDone, appVars, coll>>

(* Fault: waiting for a collector ignores the end of the execution context.  *)
Collect_Deaf(w, to) ==
  \/ exec[w].collected /\ Go(to) /\ UNCHANGED exec
  \/ Accept(w, to)

(* collect: wait for the collector of a worker that is known to have ended.  *)
Collect(w, to) ==
  \/ exec[w].collected /\ Go(to) /\ UNCHANGED exec
  \/ Accept(w, to)
  \/ ~exec[w].collected /\ ctxDone /\ Fail("ctx") /\ UNCHANGED exec

ObserveEnd ==
  /\ pc = "observed" /\ Status \in {"done", "failed"}
  /\ Collect(StepWorker(cur), "settle")
  /\ UNCHANGED <<rtVars, schedule, mode, turn, cur, preObserved, pending,
                 progressed, fate, ctxDone, appVars, coll>>

(* The step of a worker that has ended is skipped (its bootstrap step only   *)
(* when the saved order reaches it); one whose wait timed out is pending.    *)
Settle ==
  /\ pc = "settle"
  /\ IF Ended(StepWorker(cur))
       THEN /\ fate' = IF mode = "boot" THEN fate ELSE [fate EXCEPT ![cur] = "skipped"]
            /\ pending' = pending \ {cur}
            /\ progressed' = (progressed \/ mode = "drain")
       ELSE pending' = pending \cup {cur} /\ UNCHANGED <<fate, progressed>>
  /\ NextStep(~(mode = "boot" /\ Ended(StepWorker(cur))))
  /\ UNCHANGED <<rtVars, schedule, preObserved, exec, ctxDone, appVars, coll>>

-----------------------------------------------------------------------------
(* release and releasePending.                                                *)

(* The entry of Release looks at the context before it locks.                *)
BeginRelease ==
  /\ pc = "release"
  /\ IF ctxDone THEN Fail("ctx") ELSE Go("releasing")
  /\ UNCHANGED <<rtVars, schedule, mode, turn, cur, preObserved, pending,
                 progressed, exec, fate, ctxDone, appVars, coll>>

ReleaseStep ==
  /\ pc = "releasing"
  /\ RT!Release(StepWorker(cur), StepPoint(cur))
  /\ fate' = [fate EXCEPT ![cur] = "released"]
  /\ progressed' = (progressed \/ mode = "drain")
  /\ NextStep(TRUE)
  /\ UNCHANGED <<schedule, preObserved, pending, exec, ctxDone, appVars, coll>>

(* Fault: the release event is traced before the runtime accepts the release. *)
ReleaseRefused_Traced ==
  /\ pc = "releasing"
  /\ ~RT!CanRelease(StepWorker(cur), StepPoint(cur))
  /\ fate' = [fate EXCEPT ![cur] = "released"]
  /\ Fail("protocol")
  /\ UNCHANGED <<rtVars, schedule, mode, turn, cur, preObserved, pending,
                 progressed, exec, ctxDone, appVars, coll>>

ReleaseRefused ==
  /\ pc = "releasing"
  /\ ~RT!CanRelease(StepWorker(cur), StepPoint(cur))
  /\ Fail("protocol")
  /\ UNCHANGED <<rtVars, schedule, mode, turn, cur, preObserved, pending,
                 progressed, exec, fate, ctxDone, appVars, coll>>

-----------------------------------------------------------------------------
(* The last loop of execute: every result has to be collected.                *)
FinalCollect ==
  /\ pc = "final"
  /\ IF LastTurn THEN Collect(WorkerList[turn], "closing") /\ UNCHANGED turn
                 ELSE Collect(WorkerList[turn], "final") /\ turn' = turn + 1
  /\ UNCHANGED <<rtVars, schedule, mode, cur, preObserved, pending, progressed,
                 fate, ctxDone, appVars, coll>>

(* The schedule_complete event.                                              *)
Complete ==
  /\ pc = "closing"
  /\ Emit("complete")
  /\ UNCHANGED <<rtVars, schedule, mode, turn, cur, preObserved, pending,
                 progressed, exec, fate, ctxDone, appVars, coll>>

CoordinatorStep ==
  \/ RegisterWorker \/ InvokeWorker \/ InvokeRefused
  \/ ChooseStep \/ EnterWait \/ WaitSeesCancel \/ WaitGoesOn \/ WaitAwakes
  \/ ObserveArrived \/ ObserveError \/ ObserveTimeout \/ ObserveEnd \/ Settle
  \/ BeginRelease \/ ReleaseStep \/ ReleaseRefused \/ FinalCollect \/ Complete

-----------------------------------------------------------------------------
(* collectInvocation.  A collector is "reading" until the first outcome,      *)
(* "probing" or "faulty" (its value carries an error) until the stream is     *)
(* closed, and then "ready" or "spoiled" with its value sent.                 *)

(* A worker result is reported to the runtime before the stream is closed.   *)
CollectResult(w) ==
  /\ coll[w] = "reading" /\ outcome[w] \in {"ok", "err"}
  /\ RT!Finish(w, IF outcome[w] = "ok" THEN "done" ELSE "failed")
  /\ coll' = [coll EXCEPT ![w] = "probing"]
  /\ UNCHANGED <<coVars, ctxDone, appVars>>

(* A result the runtime refuses, or no result because nothing started: the   *)
(* execution is woken by cancellation at once.                               *)
CollectFault(w) ==
  /\ coll[w] = "reading"
  /\ \/ outcome[w] = "unstarted"
     \/ outcome[w] \in {"ok", "err"} /\ ~RT!CanFinish(w)
  /\ coll' = [coll EXCEPT ![w] = "faulty"]
  /\ ctxDone' = TRUE
  /\ UNCHANGED <<rtVars, coVars, appVars>>

CollectClosed(w) ==
  /\ \/ coll[w] = "probing" /\ coll' = [coll EXCEPT ![w] = "ready"]
     \/ coll[w] = "faulty" /\ coll' = [coll EXCEPT ![w] = "spoiled"]
     \/ /\ coll[w] = "reading" /\ outcome[w] = "lost"
        /\ coll' = [coll EXCEPT ![w] = "spoiled"]
  /\ UNCHANGED <<rtVars, coVars, ctxDone, appVars>>

(* The last deferred call of a collector whose value carries an error.       *)
CollectorCancels(w) ==
  /\ coll[w] = "spoiled" /\ ~ctxDone
  /\ ctxDone' = TRUE
  /\ UNCHANGED <<rtVars, coVars, appVars, coll>>

CollectorStep(w) ==
  CollectResult(w) \/ CollectFault(w) \/ CollectClosed(w) \/ CollectorCancels(w)

-----------------------------------------------------------------------------
(* The application and the outside world.                                     *)

(* The run timeout, the caller, or a session fault ends the execution.       *)
Cancel ==
  /\ ~ctxDone /\ pc \notin {"complete", "failed"}
  /\ ctxDone' = TRUE
  /\ UNCHANGED <<rtVars, coVars, appVars, coll>>

Reach(w) == IF w \in Deviant THEN Point
            ELSE {PointList[i] : i \in {visits[w] + 1} \cap DOMAIN PointList}

AppArrives(w) ==
  /\ app[w] = "code" /\ visits[w] < Len(PointList)
  /\ \E p \in Reach(w) :
       \/ /\ RT!ArriveBlocks(w, w, p)
          /\ app' = [app EXCEPT ![w] = "parked"]
       \/ /\ ~RT!CanArrive(w, p)
          /\ app' = [app EXCEPT ![w] = "failing"]
          /\ UNCHANGED rtVars
  /\ UNCHANGED <<coVars, ctxDone, visits, outcome, coll>>

(* Cancellation reaches the context of the worker some time later.           *)
AppCanceled(w) ==
  /\ ctxDone /\ RT!CancelArrive(w)
  /\ UNCHANGED <<coVars, ctxDone, appVars, coll>>

AppPasses(w) ==
  /\ app[w] = "parked"
  /\ RT!ArriveReleased(w)
  /\ app' = [app EXCEPT ![w] = "code"]
  /\ visits' = [visits EXCEPT ![w] = @ + 1]
  /\ UNCHANGED <<coVars, ctxDone, outcome, coll>>

AppRefused(w) ==
  /\ app[w] = "parked"
  /\ RT!ArriveCanceled(w)
  /\ app' = [app EXCEPT ![w] = "failing"]
  /\ UNCHANGED <<coVars, ctxDone, visits, outcome, coll>>

(* The command returns, its transaction is settled and the stream is closed; *)
(* the outcome is lost when the adapter cannot vouch for the session.        *)
AppEnds(w) ==
  /\ \/ app[w] = "code" /\ \E o \in {"ok", "err", "unstarted", "lost"} :
                             outcome' = [outcome EXCEPT ![w] = o]
     \/ app[w] = "failing" /\ \E o \in {"err", "unstarted", "lost"} :
                                outcome' = [outcome EXCEPT ![w] = o]
  /\ app' = [app EXCEPT ![w] = "ended"]
  /\ UNCHANGED <<rtVars, coVars, ctxDone, visits, coll>>

AppStep(w) ==
  AppArrives(w) \/ AppCanceled(w) \/ AppPasses(w) \/ AppRefused(w) \/ AppEnds(w)

-----------------------------------------------------------------------------
Next ==
  \/ CoordinatorStep \/ WaitExpires \/ Cancel
  \/ \E w \in Worker : CollectorStep(w) \/ AppStep(w)

Spec == Init /\ [][Next]_vars

(* Goroutines of the engine are scheduled and its wait timers expire.  The   *)
(* application may hang anywhere, and nothing need cancel the execution.     *)
Fairness ==
  /\ WF_vars(CoordinatorStep)
  /\ WF_vars(WaitExpires)
  /\ \A w \in Worker : WF_vars(CollectorStep(w))

FairSpec == Spec /\ Fairness

-----------------------------------------------------------------------------
TypeOK ==
  /\ RT!TypeOK
  /\ schedule \in Schedules
  /\ pc \in {"register", "invoke", "step", "enter", "waiting", "observed", "settle",
             "release", "releasing", "final", "closing",
             "complete", "failed"}
  /\ mode \in {"boot", "traverse", "drain", "final"}
  /\ turn \in 1 .. Len(WorkerList)
  /\ cur \in IF mode \in {"drain", "final"} THEN 1 .. Len(schedule) + 1 ELSE Steps
  /\ preObserved \subseteq Steps /\ pending \subseteq Steps /\ progressed \in BOOLEAN
  /\ exec \in [Worker -> [collected : BOOLEAN, terminal : BOOLEAN]]
  /\ failure \in {"none", "ctx", "protocol", "collector", "no progress", "observer",
                  "invoke"}
  /\ ctxDone \in BOOLEAN
  /\ fate \in [Steps -> {"open", "released", "skipped"}]
  /\ app \in [Worker -> {"off", "code", "parked", "failing", "ended"}]
  /\ visits \in [Worker -> 0 .. Len(PointList)]
  /\ outcome \in [Worker -> {"none", "ok", "err", "unstarted", "lost"}]
  /\ coll \in [Worker -> {"none", "reading", "probing", "faulty", "ready", "spoiled"}]

(* drainPending asks for a step although an earlier step of its worker is    *)
(* still pending; traverse would have passed over it.                        *)
Overtaken ==
  mode = "drain" /\ \E j \in pending : j < cur /\ StepWorker(j) = StepWorker(cur)

(* A worker that keeps to the declared order of its points never makes the   *)
(* runtime refuse a call of the coordinator, whatever the other workers do,  *)
(* unless cancellation came first: bootstrap, pending steps and timeouts do  *)
(* not ask for the wrong point, a second wait, or the release of a worker    *)
(* that is not parked.  The exception is a drain pass that goes on to a step *)
(* behind one it just found unavailable (see PendingStaysPending).           *)
ProtocolKept ==
  failure = "protocol" => ctxDone \/ Overtaken \/ StepWorker(cur) \in Deviant

(* What execute says of its two loops: "allowing an unavailable intent to    *)
(* remain pending instead of blocking later workers", and the drain passes   *)
(* scan every saved index.  A step that does not become available is then    *)
(* never the reason why the runtime refuses a call.  drainPending breaks     *)
(* this when two steps of one worker are pending: the timeout of the first   *)
(* leaves the worker blocked at its point and the wait for the second is a   *)
(* point mismatch, which ends execute before later workers are looked at.    *)
PendingStaysPending == failure = "protocol" => ctxDone

(* Finish is accepted for every result a collector reads.                    *)
ResultsFit ==
  \A w \in Worker : coll[w] = "reading" /\ outcome[w] \in {"ok", "err"} => RT!CanFinish(w)

(* Until every step was looked at, a step is released only when each earlier *)
(* step of the schedule is settled or was left pending by a timeout: a step  *)
(* not yet reached is a barrier for all later ones, and a worker seen at its *)
(* point during bootstrap stays there.                                       *)
BarrierKept ==
  [][\A j \in Steps : fate[j] = "open" /\ fate'[j] = "released" /\ mode # "drain" =>
       \A i \in 1 .. j - 1 : fate[i] # "open" \/ i \in pending]_<<fate, mode>>

ReleasedSteps(w) == {i \in Steps : StepWorker(i) = w /\ fate[i] = "released"}

(* The trace tells what the workers did: a worker has passed as many points  *)
(* as it has released steps, give or take the release it has not woken up    *)
(* to, and the steps it passed are the first ones the schedule gives it.     *)
TraceMatchesWorkers ==
  \A w \in Worker :
    LET granted == arrive[w].pc = "blocked" /\ arrive[w].released IN
    /\ Cardinality(ReleasedSteps(w)) = visits[w] + IF granted THEN 1 ELSE 0
    /\ \A j \in ReleasedSteps(w) : \A i \in 1 .. j - 1 :
         StepWorker(i) = w => i \in ReleasedSteps(w)

(* What was recorded of a worker fits what it did: its result is accepted by  *)
(* the runtime, and its released steps are the points it passed, in order.    *)
RecordsFit == TypeOK /\ ResultsFit /\ TraceMatchesWorkers

(* A skipped step belongs to a worker that has ended and whose result was    *)
(* accepted, so none of its later steps can be released.                     *)
SkippedHasEnded ==
  \A i \in Steps : fate[i] = "skipped" =>
    /\ app[StepWorker(i)] = "ended" /\ exec[StepWorker(i)].terminal
    /\ state[StepWorker(i)] \in RT!Terminal

(* A completed schedule left nothing open: every step is settled and every   *)
(* worker has one accepted result, the one its runtime state shows.          *)
CompleteIsSettled ==
  pc = "complete" =>
    /\ pending = {} /\ \A i \in Steps : fate[i] # "open"
    /\ \A w \in Worker : /\ exec[w].terminal
                         /\ state[w] = IF outcome[w] = "ok" THEN "done" ELSE "failed"

(* Every step is accounted for: it is skipped only behind an accepted result, *)
(* and a schedule that completes leaves no step and no worker open.           *)
StepsAccounted == SkippedHasEnded /\ CompleteIsSettled

(* execute ends however the application hangs: only the final collection of  *)
(* a worker that never ends can go on, and only until the context ends.      *)
ExecuteEnds ==
  \/ <>(pc \in {"complete", "failed"})
  \/ <>[](pc = "final" /\ ~ctxDone)
============================================================================
