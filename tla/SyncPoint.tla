----------------------------- MODULE SyncPoint -----------------------------
(***************************************************************************)
(* The sync-point runtime of internal/syncpoint/runtime.go.                *)
(*                                                                         *)
(* One mutex guards the worker table, so every locked section is one       *)
(* action.  Arrive and WaitArrive unlock in the middle and block in a      *)
(* select: each of them is an entry action and one action per wakeup, and  *)
(* anything may happen in between.  A select with several ready branches   *)
(* is a nondeterministic choice.  The callers are arbitrary: any goroutine *)
(* may issue any call at any time, in any order, on any worker.            *)
(*                                                                         *)
(* A call that fails before it records anything leaves the runtime as it   *)
(* was; such a call is a stuttering step.                                  *)
(***************************************************************************)

CONSTANTS Worker,     \* worker IDs that may be registered
          Point,      \* sync-point names
          Call,       \* goroutines that may be inside Arrive, one call at a time
          Waiter,     \* goroutines that may be inside WaitArrive
          Nil         \* nil pointer, empty point, no worker

ASSUME NilAssumption == Nil \notin Worker \cup Point \cup Call

VARIABLES closed,     \* runtime.closed
          state,      \* workerState.state; "unknown" is a worker not in the map
          point,      \* workerState.point
          arrival,    \* workerState.arrival, named by the call that owns it
          waitPoint,  \* workerState.waitPoint; Nil exactly when waitActive is false
          arrive,     \* the Arrive calls: locals, arrival flags, caller context
          wait        \* the WaitArrive calls: locals and caller context

vars == <<closed, state, point, arrival, waitPoint, arrive, wait>>

WorkerState == {"unknown", "running", "arrived", "released", "db_blocked",
                "done", "failed"}
Terminal == {"done", "failed"}

(* released and shut are the flags of the arrival object; its ready channel  *)
(* is closed exactly when one of them is set.                                *)
ArriveCall == [pc : {"idle", "blocked"}, worker : Worker \cup {Nil},
               released : BOOLEAN, shut : BOOLEAN, canceled : BOOLEAN,
               result : {"none", "nil", "closed", "ctx"}]

(* notified: the change channel this call selects on has been closed.        *)
WaitCall == [pc : {"idle", "waiting"}, worker : Worker \cup {Nil},
             point : Point \cup {Nil}, notified : BOOLEAN, canceled : BOOLEAN,
             result : {"none", "arrived", "done", "failed", "timeout",
                       "closed", "ctx", "mismatch", "invalid"}]

NoArrive(result) == [pc |-> "idle", worker |-> Nil, released |-> FALSE,
                     shut |-> FALSE, canceled |-> FALSE, result |-> result]
NoWait(result) == [pc |-> "idle", worker |-> Nil, point |-> Nil,
                   notified |-> FALSE, canceled |-> FALSE, result |-> result]

Init ==
  /\ closed = FALSE
  /\ state = [w \in Worker |-> "unknown"]
  /\ point = [w \in Worker |-> Nil]
  /\ arrival = [w \in Worker |-> Nil]
  /\ waitPoint = [w \in Worker |-> Nil]
  /\ arrive = [c \in Call |-> NoArrive("none")]
  /\ wait = [v \in Waiter |-> NoWait("none")]

(* signalChangedLocked closes the current change channel and installs a new  *)
(* one: every call blocked in WaitArrive can wake up.                        *)
Signaled(calls) ==
  [v \in Waiter |-> [calls[v] EXCEPT
     !.notified = calls[v].notified \/ calls[v].pc = "waiting"]]

-----------------------------------------------------------------------------
(* Register and the two calls of the coordinator that never block.           *)

Register(w) ==
  /\ ~closed
  /\ state[w] = "unknown"
  /\ state' = [state EXCEPT ![w] = "running"]
  /\ wait' = Signaled(wait)
  /\ UNCHANGED <<closed, point, arrival, waitPoint, arrive>>

CanRelease(w, p) ==
  /\ ~closed
  /\ state[w] = "arrived"
  /\ arrival[w] # Nil
  /\ point[w] = p

(* Release closes the ready channel of the arrival recorded for the worker.  *)
Release(w, p) ==
  /\ CanRelease(w, p)
  /\ state' = [state EXCEPT ![w] = "released"]
  /\ arrive' = [arrive EXCEPT ![arrival[w]].released = TRUE]
  /\ wait' = Signaled(wait)
  /\ UNCHANGED <<closed, point, arrival, waitPoint>>

CanFinish(w) == state[w] \in {"running", "released", "db_blocked"}

\* Fault: the result is recorded without waking the waits.
Finish_Silent(w, outcome) ==
  /\ CanFinish(w)
  /\ state' = [state EXCEPT ![w] = outcome]
  /\ arrival' = [arrival EXCEPT ![w] = Nil]
  /\ UNCHANGED <<closed, point, waitPoint, arrive, wait>>

(* Finish also serves a closed runtime: teardown still records results.      *)
Finish(w, outcome) ==
  /\ CanFinish(w)
  /\ state' = [state EXCEPT ![w] = outcome]
  /\ arrival' = [arrival EXCEPT ![w] = Nil]
  /\ wait' = Signaled(wait)
  /\ UNCHANGED <<closed, point, waitPoint, arrive>>

Stopped(w) == state[w] = "arrived" /\ arrival[w] # Nil

\* Fault: only the parked arrivals are woken.
Close_ArrivalsOnly ==
  /\ ~closed
  /\ closed' = TRUE
  /\ arrive' = [c \in Call |->
       IF \E w \in Worker : Stopped(w) /\ arrival[w] = c
         THEN [arrive[c] EXCEPT !.shut = TRUE] ELSE arrive[c]]
  /\ arrival' = [w \in Worker |-> IF Stopped(w) THEN Nil ELSE arrival[w]]
  /\ state' = [w \in Worker |-> IF Stopped(w) THEN "running" ELSE state[w]]
  /\ point' = [w \in Worker |-> IF Stopped(w) THEN Nil ELSE point[w]]
  /\ UNCHANGED <<waitPoint, wait>>

(* Close wakes every parked call and returns its worker to running, without  *)
(* inventing a terminal state.                                               *)
Close ==
  /\ ~closed
  /\ closed' = TRUE
  /\ arrive' = [c \in Call |->
       IF \E w \in Worker : Stopped(w) /\ arrival[w] = c
         THEN [arrive[c] EXCEPT !.shut = TRUE] ELSE arrive[c]]
  /\ arrival' = [w \in Worker |-> IF Stopped(w) THEN Nil ELSE arrival[w]]
  /\ state' = [w \in Worker |-> IF Stopped(w) THEN "running" ELSE state[w]]
  /\ point' = [w \in Worker |-> IF Stopped(w) THEN Nil ELSE point[w]]
  /\ wait' = Signaled(wait)
  /\ UNCHANGED waitPoint

-----------------------------------------------------------------------------
(* Arrive.                                                                    *)

(* validateArrivalLocked: may this worker stop at p now?                     *)
CanArrive(w, p) ==
  /\ waitPoint[w] \in {Nil, p}
  /\ \/ state[w] = "running"
     \/ state[w] = "db_blocked" /\ point[w] = p
     \/ state[w] = "released" /\ point[w] # p

(* The locked section of Arrive.                                             *)
ArriveBlocks(c, w, p) ==
  /\ arrive[c].pc = "idle"
  /\ ~closed
  /\ CanArrive(w, p)
  /\ state' = [state EXCEPT ![w] = "arrived"]
  /\ point' = [point EXCEPT ![w] = p]
  /\ arrival' = [arrival EXCEPT ![w] = c]
  /\ arrive' = [arrive EXCEPT ![c] = [NoArrive("none") EXCEPT
                                        !.pc = "blocked", !.worker = w]]
  /\ wait' = Signaled(wait)
  /\ UNCHANGED <<closed, waitPoint>>

(* The context of a blocked Arrive ends.  The context check at the entry and *)
(* the locked section commute with it, so it is modelled from there on.      *)
CancelArrive(c) ==
  /\ arrive[c].pc = "blocked"
  /\ ~arrive[c].canceled
  /\ arrive' = [arrive EXCEPT ![c].canceled = TRUE]
  /\ UNCHANGED <<closed, state, point, arrival, waitPoint, wait>>

(* One of the two branches of the select of Arrive is ready.                 *)
ArriveAwake(c) ==
  /\ arrive[c].pc = "blocked"
  /\ arrive[c].released \/ arrive[c].shut \/ arrive[c].canceled

\* Fault: the slot is cleared whoever holds it by now.
ArriveReleased_ClearsAny(c) ==
  /\ ArriveAwake(c)
  /\ arrive[c].released
  /\ arrival' = [arrival EXCEPT ![arrive[c].worker] = Nil]
  /\ arrive' = [arrive EXCEPT ![c] = NoArrive("nil")]
  /\ UNCHANGED <<closed, state, point, waitPoint, wait>>

(* resolveArrivalWake, released: nil is returned, and the slot of the worker *)
(* is cleared unless a newer arrival or a terminal result took it.           *)
ArriveReleased(c) ==
  LET w == arrive[c].worker IN
  /\ ArriveAwake(c)
  /\ arrive[c].released
  /\ arrival' = [arrival EXCEPT ![w] = IF @ = c THEN Nil ELSE @]
  /\ arrive' = [arrive EXCEPT ![c] = NoArrive("nil")]
  /\ UNCHANGED <<closed, state, point, waitPoint, wait>>

(* resolveArrivalWake, closed: the arrival was dropped by Close.             *)
ArriveClosed(c) ==
  /\ ArriveAwake(c)
  /\ ~arrive[c].released
  /\ arrive[c].shut \/ closed
  /\ arrive' = [arrive EXCEPT ![c] = NoArrive("closed")]
  /\ UNCHANGED <<closed, state, point, arrival, waitPoint, wait>>

\* Fault: the context is looked at before the release.
ArriveCanceled_First(c) ==
  LET w == arrive[c].worker
      current == arrival[w] = c /\ state[w] = "arrived" IN
  /\ ArriveAwake(c)
  /\ arrive[c].canceled
  /\ arrival' = [arrival EXCEPT ![w] = IF current THEN Nil ELSE @]
  /\ state' = [state EXCEPT ![w] = IF current THEN "running" ELSE @]
  /\ point' = [point EXCEPT ![w] = IF current THEN Nil ELSE @]
  /\ arrive' = [arrive EXCEPT ![c] = NoArrive("ctx")]
  /\ wait' = IF current THEN Signaled(wait) ELSE wait
  /\ UNCHANGED <<closed, waitPoint>>

(* resolveArrivalWake, canceled: the arrival is withdrawn if it still is the *)
(* one the worker stopped for.                                               *)
ArriveCanceled(c) ==
  LET w == arrive[c].worker
      current == arrival[w] = c /\ state[w] = "arrived" IN
  /\ ArriveAwake(c)
  /\ ~arrive[c].released /\ ~arrive[c].shut /\ ~closed
  /\ arrival' = [arrival EXCEPT ![w] = IF current THEN Nil ELSE @]
  /\ state' = [state EXCEPT ![w] = IF current THEN "running" ELSE @]
  /\ point' = [point EXCEPT ![w] = IF current THEN Nil ELSE @]
  /\ arrive' = [arrive EXCEPT ![c] = NoArrive("ctx")]
  /\ wait' = IF current THEN Signaled(wait) ELSE wait
  /\ UNCHANGED <<closed, waitPoint>>

-----------------------------------------------------------------------------
(* WaitArrive.                                                                *)

(* waitStatusLocked; "none" means that the call has to wait.                 *)
WaitStatus(w, p) ==
  CASE closed -> "closed"
    [] ~closed /\ state[w] = "arrived" ->
         IF point[w] = p THEN "arrived" ELSE "mismatch"
    [] ~closed /\ state[w] = "released" ->
         IF point[w] = p THEN "invalid" ELSE "none"
    [] ~closed /\ state[w] = "db_blocked" ->
         IF point[w] = p THEN "none" ELSE "mismatch"
    [] ~closed /\ state[w] \in Terminal -> state[w]
    [] ~closed /\ state[w] = "running" -> "none"
    [] ~closed /\ state[w] = "unknown" -> "invalid"

(* The locked section at the entry of WaitArrive.                            *)
WaitEntry(w, p) ==
  IF ~closed /\ waitPoint[w] # Nil THEN "invalid" ELSE WaitStatus(w, p)

(* The answer is known at once: nothing but the return value changes.        *)
WaitAnswered(v, w, p) ==
  /\ wait[v].pc = "idle"
  /\ WaitEntry(w, p) # "none"
  /\ wait' = [wait EXCEPT ![v] = NoWait(WaitEntry(w, p))]
  /\ UNCHANGED <<closed, state, point, arrival, waitPoint, arrive>>

\* Fault: the worker is recorded in place of the awaited point.
WaitBlocks_WrongKey(v, w, p) ==
  /\ wait[v].pc = "idle"
  /\ WaitEntry(w, p) = "none"
  /\ waitPoint' = [waitPoint EXCEPT ![w] = w]
  /\ wait' = [Signaled(wait) EXCEPT ![v] =
                [NoWait("none") EXCEPT !.pc = "waiting", !.worker = w,
                                       !.point = p]]
  /\ UNCHANGED <<closed, state, point, arrival, arrive>>

(* The wait is recorded and announced; the change channel this call selects  *)
(* on is the one installed by its own announcement.                          *)
WaitBlocks(v, w, p) ==
  /\ wait[v].pc = "idle"
  /\ WaitEntry(w, p) = "none"
  /\ waitPoint' = [waitPoint EXCEPT ![w] = p]
  /\ wait' = [Signaled(wait) EXCEPT ![v] =
                [NoWait("none") EXCEPT !.pc = "waiting", !.worker = w,
                                       !.point = p]]
  /\ UNCHANGED <<closed, state, point, arrival, arrive>>

CancelWait(v) ==
  /\ wait[v].pc = "waiting"
  /\ ~wait[v].canceled
  /\ wait' = [wait EXCEPT ![v].canceled = TRUE]
  /\ UNCHANGED <<closed, state, point, arrival, waitPoint, arrive>>

(* clearWaitLocked and the return of the call.                               *)
WaitReturns(v, result) ==
  /\ waitPoint' = [waitPoint EXCEPT ![wait[v].worker] = Nil]
  /\ wait' = Signaled([wait EXCEPT ![v] = NoWait(result)])

(* The answer found by resolveWaitWakeLocked before it looks at the timer:   *)
(* the recorded state first, then the context of the caller.                 *)
WakeAnswer(v) ==
  LET status == WaitStatus(wait[v].worker, wait[v].point) IN
  IF status = "none" /\ wait[v].canceled THEN "ctx" ELSE status

(* A wakeup by the change channel or by the context which finds an answer.   *)
WaitAwake(v) ==
  /\ wait[v].pc = "waiting"
  /\ wait[v].notified \/ wait[v].canceled
  /\ WakeAnswer(v) # "none"
  /\ WaitReturns(v, WakeAnswer(v))
  /\ UNCHANGED <<closed, state, point, arrival, arrive>>

(* A wakeup by the change channel which finds nothing: wait for the next.    *)
WaitAgain(v) ==
  /\ wait[v].pc = "waiting"
  /\ wait[v].notified
  /\ WakeAnswer(v) = "none"
  /\ wait' = [wait EXCEPT ![v].notified = FALSE]
  /\ UNCHANGED <<closed, state, point, arrival, waitPoint, arrive>>

(* The timer of the call expires, which may happen at any time.  What is     *)
(* already recorded wins; otherwise the worker is inferred to be blocked in  *)
(* the database before the awaited point.                                    *)
WaitTimerAnswered(v) ==
  /\ wait[v].pc = "waiting"
  /\ WakeAnswer(v) # "none"
  /\ WaitReturns(v, WakeAnswer(v))
  /\ UNCHANGED <<closed, state, point, arrival, arrive>>

\* Fault: the timer is believed without a look at the recorded state.
WaitTimeout_Unchecked(v) ==
  /\ wait[v].pc = "waiting"
  /\ state' = [state EXCEPT ![wait[v].worker] = "db_blocked"]
  /\ point' = [point EXCEPT ![wait[v].worker] = wait[v].point]
  /\ WaitReturns(v, "timeout")
  /\ UNCHANGED <<closed, arrival, arrive>>

WaitTimeout(v) ==
  /\ wait[v].pc = "waiting"
  /\ WakeAnswer(v) = "none"
  /\ state' = [state EXCEPT ![wait[v].worker] = "db_blocked"]
  /\ point' = [point EXCEPT ![wait[v].worker] = wait[v].point]
  /\ WaitReturns(v, "timeout")
  /\ UNCHANGED <<closed, arrival, arrive>>

-----------------------------------------------------------------------------
CoordinatorNext ==
  \/ \E w \in Worker : \/ Register(w)
                       \/ \E p \in Point : Release(w, p)
                       \/ \E outcome \in Terminal : Finish(w, outcome)
  \/ Close

ArriveNext ==
  \E c \in Call :
    \/ \E w \in Worker, p \in Point : ArriveBlocks(c, w, p)
    \/ CancelArrive(c)
    \/ ArriveReleased(c)
    \/ ArriveClosed(c)
    \/ ArriveCanceled(c)

WaitNext ==
  \E v \in Waiter :
    \/ \E w \in Worker, p \in Point : WaitAnswered(v, w, p) \/ WaitBlocks(v, w, p)
    \/ CancelWait(v)
    \/ WaitAwake(v)
    \/ WaitAgain(v)
    \/ WaitTimerAnswered(v)
    \/ WaitTimeout(v)

Next == CoordinatorNext \/ ArriveNext \/ WaitNext

Spec == Init /\ [][Next]_vars

(* The Go scheduler runs a goroutine whose select has a ready branch.  No    *)
(* fairness is assumed of the timer, nor of any caller starting a call.      *)
Fairness ==
  /\ \A c \in Call : /\ WF_vars(ArriveReleased(c))
                     /\ WF_vars(ArriveClosed(c))
                     /\ WF_vars(ArriveCanceled(c))
  /\ \A v \in Waiter : WF_vars(WaitAwake(v) \/ WaitAgain(v))

FairSpec == Spec /\ Fairness

-----------------------------------------------------------------------------
(* Every variable keeps the shape of the Go field it stands for, and a       *)
(* blocked call has a worker (and, waiting, a point) in its locals.          *)
TypeOK ==
  /\ closed \in BOOLEAN
  /\ state \in [Worker -> WorkerState]
  /\ point \in [Worker -> Point \cup {Nil}]
  /\ arrival \in [Worker -> Call \cup {Nil}]
  /\ waitPoint \in [Worker -> Point \cup {Nil}]
  /\ arrive \in [Call -> ArriveCall]
  /\ wait \in [Waiter -> WaitCall]
  /\ \A c \in Call : arrive[c].pc = "blocked" => arrive[c].worker \in Worker
  /\ \A v \in Waiter : wait[v].pc = "waiting" => /\ wait[v].worker \in Worker
                                                 /\ wait[v].point \in Point

Parked(c) == arrive[c].pc = "blocked" /\ ~arrive[c].released /\ ~arrive[c].shut

(* A worker is in state arrived exactly while one unsettled Arrive call of   *)
(* that worker is parked, and its slot names that call; a closed runtime has *)
(* none.  So no goroutine sleeps on a channel nobody will close.             *)
ParkedExactly ==
  /\ \A c \in Call, w \in Worker :
       Parked(c) /\ arrive[c].worker = w <=> state[w] = "arrived" /\ arrival[w] = c
  /\ \A w \in Worker : state[w] = "arrived" => arrival[w] # Nil /\ ~closed

(* The slot of a worker never names a call that has left Arrive, belongs to  *)
(* another worker, or whose channel Close already closed; a worker past its  *)
(* point only keeps an arrival that was released.  Release and Close cannot  *)
(* close a ready channel twice, which would panic.                           *)
SlotNeverStale ==
  \A w \in Worker : arrival[w] # Nil =>
    LET call == arrive[arrival[w]] IN
    /\ call.pc = "blocked" /\ call.worker = w /\ ~call.shut
    /\ call.released <=> state[w] # "arrived"

(* The Arrive side of the runtime: each recorded arrival is the one parked    *)
(* call, no goroutine waits on a channel nobody will close, and no channel    *)
(* is closed twice.                                                          *)
ArrivalsKept == ParkedExactly /\ SlotNeverStale

(* At most one WaitArrive is blocked per worker, and waitPoint records it.   *)
OneWaitPerWorker ==
  \A w \in Worker :
    LET waiting == {v \in Waiter : wait[v].pc = "waiting" /\ wait[v].worker = w} IN
    /\ waitPoint[w] = Nil => waiting = {}
    /\ waitPoint[w] # Nil => \E v \in waiting : /\ waiting = {v}
                                               /\ wait[v].point = waitPoint[w]

(* While a WaitArrive is blocked its worker cannot stop anywhere else: the   *)
(* call never wakes up to a point mismatch it did not report at its entry.   *)
AwaitedPointKept ==
  \A v \in Waiter :
    wait[v].pc = "waiting" => WaitStatus(wait[v].worker, wait[v].point) # "mismatch"

(* A change that answers a blocked WaitArrive has always woken it: the timer *)
(* is never what discovers an arrival, a terminal result or the shutdown.    *)
NoLostWakeup ==
  \A v \in Waiter :
    /\ wait[v].pc = "waiting"
    /\ WaitStatus(wait[v].worker, wait[v].point) # "none"
    => wait[v].notified

(* The WaitArrive side: the coordinator blocks once per worker, for the point *)
(* the worker can still stop at, and is woken by whatever answers it.         *)
WaitsKept == OneWaitPerWorker /\ AwaitedPointKept /\ NoLostWakeup

(* A recorded fact wins over the timer: a terminal state never changes, not  *)
(* even at or after Close, and a worker that stopped at a point leaves it    *)
(* only because it was released there, withdrew, or the runtime was closed.  *)
RecordedFactsStay ==
  [][\A w \in Worker :
       /\ state[w] \in Terminal => state'[w] = state[w]
       /\ state[w] = "arrived" /\ state'[w] # "arrived" =>
            \/ state'[w] = "released" /\ point'[w] = point[w]
            \/ state'[w] = "running" /\ (closed' \/ arrive[arrival[w]].canceled)]_vars

(* Close leaves no goroutine behind: every call blocked in Arrive or in      *)
(* WaitArrive returns, without the help of a timer or of a context.          *)
CloseDrains ==
  closed ~> /\ \A c \in Call : arrive[c].pc = "idle"
            /\ \A v \in Waiter : wait[v].pc = "idle"

(* The gate this runtime implements for the worker goroutines.               *)
GateHolder == [w \in Worker |-> IF state[w] = "arrived" THEN arrival[w] ELSE Nil]

GateEnded == {w \in Worker : state[w] \in Terminal}

GateProgress ==
  [c \in Call |-> IF arrive[c].pc = "idle" THEN "outside"
                  ELSE IF arrive[c].released THEN "granted"
                  ELSE IF arrive[c].shut THEN "refused" ELSE "parked"]

GateAnswer ==
  [c \in Call |-> IF arrive[c].result = "none" THEN "none"
                  ELSE IF arrive[c].result = "nil" THEN "passed" ELSE "refused"]

Gate == INSTANCE PointGate WITH holder <- GateHolder, ended <- GateEnded,
          progress <- GateProgress, answer <- GateAnswer, shut <- closed

(* Release, cancellation and Close race for a parked call, the first one     *)
(* recorded decides what Arrive returns, and the worker passes no point      *)
(* without a Release of that very arrival.                                   *)
ImplementsGate == Gate!GateSpec
============================================================================
