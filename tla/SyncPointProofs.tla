-------------------------- MODULE SyncPointProofs --------------------------
(* Theorems about the sync-point runtime, for every set of workers, points,  *)
(* calls and waiters.                                                        *)
EXTENDS SyncPoint, TLAPS

(* signalChangedLocked only marks wait calls as notified.                    *)
LEMMA SignaledType ==
  ASSUME NEW calls \in [Waiter -> WaitCall]
  PROVE  /\ Signaled(calls) \in [Waiter -> WaitCall]
         /\ \A v \in Waiter : /\ Signaled(calls)[v].pc = calls[v].pc
                              /\ Signaled(calls)[v].worker = calls[v].worker
                              /\ Signaled(calls)[v].point = calls[v].point
                              /\ Signaled(calls)[v].canceled = calls[v].canceled
                              /\ Signaled(calls)[v].notified
                                   = (calls[v].notified \/ calls[v].pc = "waiting")
BY DEF Signaled, WaitCall

(* A step that only signals keeps what the wait calls hold.                  *)
LEMMA SignalKeepsWaits ==
  ASSUME TypeOK, wait' = Signaled(wait)
  PROVE  /\ wait' \in [Waiter -> WaitCall]
         /\ \A v \in Waiter : wait'[v].pc = "waiting" => /\ wait'[v].worker \in Worker
                                                         /\ wait'[v].point \in Point
<1>1. wait \in [Waiter -> WaitCall]
  BY DEF TypeOK
<1>2. \A v \in Waiter : /\ wait'[v].pc = wait[v].pc
                        /\ wait'[v].worker = wait[v].worker
                        /\ wait'[v].point = wait[v].point
  BY <1>1, SignaledType
<1>3. QED
  BY <1>1, <1>2, SignaledType DEF TypeOK

(* The record of a call that is not blocked, whatever it returned.           *)
LEMMA IdleCalls ==
  /\ \A r \in {"none", "nil", "closed", "ctx"} :
       NoArrive(r) \in ArriveCall /\ NoArrive(r).pc = "idle"
  /\ \A r \in {"none", "arrived", "done", "failed", "timeout", "closed", "ctx",
               "mismatch", "invalid"} :
       NoWait(r) \in WaitCall /\ NoWait(r).pc = "idle"
BY DEF NoArrive, NoWait, ArriveCall, WaitCall

(* Setting one flag of an Arrive call leaves its other fields alone.         *)
LEMMA FlagSet ==
  ASSUME NEW a \in ArriveCall
  PROVE  /\ [a EXCEPT !.released = TRUE] \in ArriveCall
         /\ [a EXCEPT !.released = TRUE].pc = a.pc
         /\ [a EXCEPT !.released = TRUE].worker = a.worker
         /\ [a EXCEPT !.released = TRUE].shut = a.shut
         /\ [a EXCEPT !.released = TRUE].result = a.result
         /\ [a EXCEPT !.released = TRUE].released = TRUE
         /\ [a EXCEPT !.shut = TRUE] \in ArriveCall
         /\ [a EXCEPT !.shut = TRUE].pc = a.pc
         /\ [a EXCEPT !.shut = TRUE].worker = a.worker
         /\ [a EXCEPT !.shut = TRUE].released = a.released
         /\ [a EXCEPT !.shut = TRUE].result = a.result
         /\ [a EXCEPT !.shut = TRUE].shut = TRUE
BY DEF ArriveCall

LEMMA WaitStatusType ==
  ASSUME TypeOK, NEW w \in Worker, NEW p \in Point
  PROVE  WaitStatus(w, p) \in {"none", "arrived", "done", "failed",
                               "closed", "mismatch", "invalid"}
BY DEF WaitStatus, TypeOK, WorkerState, Terminal

LEMMA WakeAnswerType ==
  ASSUME TypeOK, NEW v \in Waiter, wait[v].pc = "waiting"
  PROVE  WakeAnswer(v) \in {"none", "arrived", "done", "failed", "closed",
                            "ctx", "mismatch", "invalid"}
BY WaitStatusType DEF WakeAnswer, TypeOK

(* The return of WaitArrive keeps the types of what it touches.              *)
LEMMA WaitReturnsType ==
  ASSUME TypeOK, NEW v \in Waiter,
         NEW r \in {"none", "arrived", "done", "failed", "timeout", "closed",
                    "ctx", "mismatch", "invalid"},
         WaitReturns(v, r)
  PROVE  /\ waitPoint' \in [Worker -> Point \cup {Nil}]
         /\ wait' \in [Waiter -> WaitCall]
         /\ \A u \in Waiter : wait'[u].pc = "waiting" => /\ wait'[u].worker \in Worker
                                                         /\ wait'[u].point \in Point
<1> DEFINE calls == [wait EXCEPT ![v] = NoWait(r)]
<1>1. calls \in [Waiter -> WaitCall]
  BY IdleCalls DEF TypeOK
<1>2. \A u \in Waiter : calls[u].pc = "waiting" => calls[u] = wait[u]
  BY IdleCalls DEF TypeOK
<1>3. wait' = Signaled(calls)
  BY DEF WaitReturns
<1> HIDE DEF calls
<1>4. wait' \in [Waiter -> WaitCall]
  BY <1>1, <1>3, SignaledType
<1>5. \A u \in Waiter : /\ wait'[u].pc = calls[u].pc
                        /\ wait'[u].worker = calls[u].worker
                        /\ wait'[u].point = calls[u].point
  BY <1>1, <1>3, SignaledType
<1>6. waitPoint' \in [Worker -> Point \cup {Nil}]
  BY DEF WaitReturns, TypeOK
<1>7. QED
  BY <1>2, <1>4, <1>5, <1>6 DEF TypeOK

(* Every variable of the runtime keeps its type.                             *)
THEOREM TypeCorrect == Spec => []TypeOK
<1>1. Init => TypeOK
  BY IdleCalls, ZenonT(60) DEF Init, TypeOK, WorkerState
<1>2. TypeOK /\ [Next]_vars => TypeOK'
  <2> SUFFICES ASSUME TypeOK, [Next]_vars PROVE TypeOK'
    OBVIOUS
  <2>1. CASE UNCHANGED vars
    BY <2>1 DEF vars, TypeOK
  <2>2. ASSUME NEW w \in Worker, Register(w) PROVE TypeOK'
    BY <2>2, SignalKeepsWaits DEF Register, TypeOK, WorkerState
  <2>3. ASSUME NEW w \in Worker, NEW p \in Point, Release(w, p) PROVE TypeOK'
    <3>1. /\ arrival[w] \in Call
          /\ arrive' = [arrive EXCEPT ![arrival[w]] =
                          [arrive[arrival[w]] EXCEPT !.released = TRUE]]
      BY <2>3 DEF Release, CanRelease, TypeOK
    <3>2. arrive[arrival[w]] \in ArriveCall
      BY <3>1 DEF TypeOK
    <3>3. /\ arrive' \in [Call -> ArriveCall]
          /\ \A c \in Call : /\ arrive'[c].pc = arrive[c].pc
                             /\ arrive'[c].worker = arrive[c].worker
      BY <3>1, <3>2, FlagSet DEF TypeOK
    <3>4. QED
      BY <2>3, <3>3, SignalKeepsWaits DEF Release, TypeOK, WorkerState
  <2>4. ASSUME NEW w \in Worker, NEW o \in Terminal, Finish(w, o) PROVE TypeOK'
    BY <2>4, SignalKeepsWaits DEF Finish, TypeOK, WorkerState, Terminal
  <2>5. CASE Close
    <3>1. /\ arrive' \in [Call -> ArriveCall]
          /\ \A c \in Call : /\ arrive'[c].pc = arrive[c].pc
                             /\ arrive'[c].worker = arrive[c].worker
      BY <2>5, FlagSet DEF Close, TypeOK
    <3>2. /\ state' \in [Worker -> WorkerState]
          /\ point' \in [Worker -> Point \cup {Nil}]
          /\ arrival' \in [Worker -> Call \cup {Nil}]
          /\ closed' \in BOOLEAN /\ waitPoint' = waitPoint /\ wait' = Signaled(wait)
      BY <2>5 DEF Close, TypeOK, WorkerState
    <3>3. QED
      BY <3>1, <3>2, SignalKeepsWaits DEF TypeOK
  <2>6. ASSUME NEW c \in Call, NEW w \in Worker, NEW p \in Point,
               ArriveBlocks(c, w, p)
        PROVE  TypeOK'
    <3> DEFINE new == [NoArrive("none") EXCEPT !.pc = "blocked", !.worker = w]
    <3>1. new \in ArriveCall /\ new.worker = w
      BY DEF NoArrive, ArriveCall
    <3>2. arrive' = [arrive EXCEPT ![c] = new] /\ wait' = Signaled(wait)
      BY <2>6 DEF ArriveBlocks
    <3> HIDE DEF new
    <3>3. QED
      BY <2>6, <3>1, <3>2, SignalKeepsWaits DEF ArriveBlocks, TypeOK, WorkerState
  <2>7. ASSUME NEW c \in Call, CancelArrive(c) PROVE TypeOK'
    BY <2>7, ZenonT(60) DEF CancelArrive, TypeOK, ArriveCall
  <2>8. ASSUME NEW c \in Call, ArriveReleased(c) PROVE TypeOK'
    BY <2>8, IdleCalls DEF ArriveReleased, TypeOK
  <2>9. ASSUME NEW c \in Call, ArriveClosed(c) PROVE TypeOK'
    BY <2>9, IdleCalls DEF ArriveClosed, TypeOK
  <2>10. ASSUME NEW c \in Call, ArriveCanceled(c) PROVE TypeOK'
    BY <2>10, IdleCalls, SignalKeepsWaits DEF ArriveCanceled, TypeOK, WorkerState
  <2>11. ASSUME NEW v \in Waiter, NEW w \in Worker, NEW p \in Point,
                WaitAnswered(v, w, p)
         PROVE  TypeOK'
    BY <2>11, IdleCalls, WaitStatusType DEF WaitAnswered, WaitEntry, TypeOK
  <2>12. ASSUME NEW v \in Waiter, NEW w \in Worker, NEW p \in Point,
                WaitBlocks(v, w, p)
         PROVE  TypeOK'
    <3> DEFINE new == [NoWait("none") EXCEPT !.pc = "waiting", !.worker = w,
                                             !.point = p]
    <3>1. new \in WaitCall /\ new.worker = w /\ new.point = p
      BY DEF NoWait, WaitCall
    <3>2. wait' = [Signaled(wait) EXCEPT ![v] = new]
      BY <2>12 DEF WaitBlocks
    <3> HIDE DEF new
    <3>3. /\ Signaled(wait) \in [Waiter -> WaitCall]
          /\ \A u \in Waiter : /\ Signaled(wait)[u].pc = wait[u].pc
                               /\ Signaled(wait)[u].worker = wait[u].worker
                               /\ Signaled(wait)[u].point = wait[u].point
      BY SignaledType DEF TypeOK
    <3>4. QED
      BY <2>12, <3>1, <3>2, <3>3 DEF WaitBlocks, TypeOK
  <2>13. ASSUME NEW v \in Waiter, CancelWait(v) PROVE TypeOK'
    BY <2>13, ZenonT(60) DEF CancelWait, TypeOK, WaitCall
  <2>14. ASSUME NEW v \in Waiter, WaitAgain(v) PROVE TypeOK'
    BY <2>14, ZenonT(60) DEF WaitAgain, TypeOK, WaitCall
  <2>15. ASSUME NEW v \in Waiter, WaitAwake(v) PROVE TypeOK'
    BY <2>15, WakeAnswerType, WaitReturnsType DEF WaitAwake, TypeOK
  <2>16. ASSUME NEW v \in Waiter, WaitTimerAnswered(v) PROVE TypeOK'
    BY <2>16, WakeAnswerType, WaitReturnsType DEF WaitTimerAnswered, TypeOK
  <2>17. ASSUME NEW v \in Waiter, WaitTimeout(v) PROVE TypeOK'
    BY <2>17, WaitReturnsType DEF WaitTimeout, TypeOK, WorkerState
  <2>18. QED
    BY <2>1, <2>2, <2>3, <2>4, <2>5, <2>6, <2>7, <2>8, <2>9, <2>10, <2>11,
       <2>12, <2>13, <2>14, <2>15, <2>16, <2>17
       DEF Next, CoordinatorNext, ArriveNext, WaitNext
<1>3. QED
  BY <1>1, <1>2, PTL DEF Spec

-----------------------------------------------------------------------------
(* The inductive invariant behind ParkedExactly and the gate.                *)
SlotInv == TypeOK /\ ParkedExactly /\ SlotNeverStale

SlotVars == <<closed, state, arrival, arrive>>

LEMMA SlotInvInit == Init => SlotInv
<1> SUFFICES ASSUME Init PROVE SlotInv
  OBVIOUS
<1>1. TypeOK
  BY IdleCalls DEF Init, TypeOK, WorkerState
<1>2. \A c \in Call : arrive[c].pc = "idle"
  BY IdleCalls DEF Init
<1>3. QED
  BY <1>1, <1>2 DEF Init, SlotInv, ParkedExactly, SlotNeverStale, Parked

(* The steps of WaitArrive, and all that leaves the slots alone.             *)
LEMMA SlotInvFrame ==
  ASSUME SlotInv, TypeOK', UNCHANGED SlotVars
  PROVE  SlotInv'
BY DEF SlotInv, SlotVars, ParkedExactly, SlotNeverStale, Parked

(* An Arrive call returns and no other call changes.                         *)
ArriveLeaves(c) ==
  /\ arrive'[c].pc = "idle"
  /\ \A d \in Call \ {c} : arrive'[d] = arrive[d]

(* A settled call that leaves takes its own slot with it, and no other.      *)
LEMMA LeaveKeepsSlots ==
  ASSUME SlotInv, TypeOK', NEW c \in Call, ~Parked(c), ArriveLeaves(c),
         state' = state, closed' = closed,
         \A w \in Worker : IF arrival[w] = c THEN arrival'[w] = Nil
                                             ELSE arrival'[w] = arrival[w]
  PROVE  SlotInv'
<1>1. \A d \in Call : Parked(d)' <=> Parked(d)
  BY DEF ArriveLeaves, Parked
<1>2. \A w \in Worker : state[w] = "arrived" => arrival[w] # c
  BY DEF SlotInv, ParkedExactly
<1>3. ParkedExactly'
  BY <1>1, <1>2, NilAssumption DEF SlotInv, ParkedExactly, Parked, ArriveLeaves, TypeOK
<1>4. SlotNeverStale'
  BY NilAssumption DEF SlotInv, SlotNeverStale, ArriveLeaves, TypeOK
<1>5. QED
  BY <1>3, <1>4 DEF SlotInv

LEMMA SlotInvStep == SlotInv /\ TypeOK' /\ [Next]_vars => SlotInv'
<1> SUFFICES ASSUME SlotInv, TypeOK', [Next]_vars PROVE SlotInv'
  OBVIOUS
<1> USE DEF SlotInv
<1>1. CASE UNCHANGED vars
  BY <1>1, SlotInvFrame DEF vars, SlotVars
<1>2. ASSUME NEW w \in Worker, Register(w) PROVE SlotInv'
  BY <1>2 DEF Register, ParkedExactly, SlotNeverStale, Parked, TypeOK
<1>3. ASSUME NEW w \in Worker, NEW p \in Point, Release(w, p) PROVE SlotInv'
  <2> DEFINE a == arrival[w]
  <2>1. /\ a \in Call /\ arrive[a] \in ArriveCall
        /\ arrive' = [arrive EXCEPT ![a] = [arrive[a] EXCEPT !.released = TRUE]]
    BY <1>3 DEF Release, CanRelease, TypeOK
  <2>2. /\ arrive'[a].released /\ ~arrive'[a].shut
        /\ arrive'[a].pc = "blocked" /\ arrive'[a].worker = w
        /\ \A c \in Call \ {a} : arrive'[c] = arrive[c]
    BY <1>3, <2>1, FlagSet DEF Release, CanRelease, SlotNeverStale, TypeOK
  <2>3. QED
    BY <1>3, <2>1, <2>2 DEF Release, CanRelease, ParkedExactly, SlotNeverStale, Parked, TypeOK
<1>4. ASSUME NEW w \in Worker, NEW o \in Terminal, Finish(w, o) PROVE SlotInv'
  BY <1>4 DEF Finish, CanFinish, Terminal, ParkedExactly, SlotNeverStale, Parked, TypeOK
<1>5. CASE Close
  <2>1. \A w \in Worker : Stopped(w) <=> state[w] = "arrived"
    BY DEF Stopped, ParkedExactly
  <2>2. \A c \in Call : IF \E w \in Worker : state[w] = "arrived" /\ arrival[w] = c
                          THEN arrive'[c] = [arrive[c] EXCEPT !.shut = TRUE]
                          ELSE arrive'[c] = arrive[c]
    BY <1>5, <2>1 DEF Close
  <2>3. \A c \in Call : /\ arrive'[c].pc = arrive[c].pc
                        /\ arrive'[c].worker = arrive[c].worker
                        /\ arrive'[c].released = arrive[c].released
                        /\ ~Parked(c)'
                        /\ ~Parked(c) => arrive'[c] = arrive[c]
    <3> SUFFICES ASSUME NEW c \in Call
                 PROVE  /\ arrive'[c].pc = arrive[c].pc
                        /\ arrive'[c].worker = arrive[c].worker
                        /\ arrive'[c].released = arrive[c].released
                        /\ ~Parked(c)'
                        /\ ~Parked(c) => arrive'[c] = arrive[c]
      OBVIOUS
    <3>1. CASE \E w \in Worker : state[w] = "arrived" /\ arrival[w] = c
      <4>1. Parked(c) /\ arrive'[c] = [arrive[c] EXCEPT !.shut = TRUE]
        BY <2>2, <3>1 DEF ParkedExactly
      <4>2. arrive[c] \in ArriveCall
        BY DEF TypeOK
      <4>3. QED
        BY <4>1, <4>2, FlagSet DEF Parked
    <3>2. CASE ~\E w \in Worker : state[w] = "arrived" /\ arrival[w] = c
      <4>1. ~Parked(c)
        BY <3>2 DEF ParkedExactly, Parked, TypeOK
      <4>2. arrive'[c] = arrive[c]
        BY <2>2, <3>2
      <4>3. QED
        BY <4>1, <4>2 DEF Parked
    <3>3. QED
      BY <3>1, <3>2
  <2>4. \A w \in Worker : IF state[w] = "arrived"
                            THEN arrival'[w] = Nil /\ state'[w] = "running"
                            ELSE arrival'[w] = arrival[w] /\ state'[w] = state[w]
    BY <1>5, <2>1 DEF Close, TypeOK
  <2>5. QED
    BY <2>3, <2>4 DEF ParkedExactly, SlotNeverStale, Parked, TypeOK
<1>6. ASSUME NEW c \in Call, NEW w \in Worker, NEW p \in Point, ArriveBlocks(c, w, p)
      PROVE  SlotInv'
  <2> DEFINE new == [NoArrive("none") EXCEPT !.pc = "blocked", !.worker = w]
  <2>1. /\ new.pc = "blocked" /\ new.worker = w
        /\ new.released = FALSE /\ new.shut = FALSE
    BY DEF NoArrive
  <2>2. arrive' = [arrive EXCEPT ![c] = new]
    BY <1>6 DEF ArriveBlocks
  <2> HIDE DEF new
  <2>3. state[w] # "arrived"
    BY <1>6 DEF ArriveBlocks, CanArrive
  <2>4. /\ arrive[c].pc = "idle"
        /\ \A u \in Worker : arrival[u] # c
        /\ arrive'[c] = new
        /\ \A d \in Call \ {c} : arrive'[d] = arrive[d]
        /\ state' = [state EXCEPT ![w] = "arrived"]
        /\ arrival' = [arrival EXCEPT ![w] = c]
        /\ ~closed /\ closed' = closed
    BY <1>6, <2>2, NilAssumption DEF ArriveBlocks, SlotNeverStale, TypeOK
  <2>5. ParkedExactly'
    BY <2>1, <2>3, <2>4, NilAssumption DEF ParkedExactly, Parked, TypeOK
  <2>6. SlotNeverStale'
    <3> SUFFICES ASSUME NEW u \in Worker, arrival'[u] # Nil
                 PROVE  /\ arrive'[arrival'[u]].pc = "blocked"
                        /\ arrive'[arrival'[u]].worker = u
                        /\ ~arrive'[arrival'[u]].shut
                        /\ arrive'[arrival'[u]].released <=> state'[u] # "arrived"
      BY DEF SlotNeverStale
    <3>1. CASE u = w
      BY <2>1, <2>4, <3>1 DEF TypeOK
    <3>2. CASE u # w
      <4>1. arrival'[u] = arrival[u] /\ state'[u] = state[u] /\ arrival[u] \in Call \ {c}
        BY <2>4, <3>2 DEF TypeOK
      <4>2. QED
        BY <2>4, <4>1 DEF SlotNeverStale
    <3>3. QED
      BY <3>1, <3>2
  <2>7. QED
    BY <2>5, <2>6
<1>7. ASSUME NEW c \in Call, CancelArrive(c) PROVE SlotInv'
  <2>1. \A d \in Call : /\ arrive'[d].pc = arrive[d].pc
                        /\ arrive'[d].worker = arrive[d].worker
                        /\ arrive'[d].released = arrive[d].released
                        /\ arrive'[d].shut = arrive[d].shut
    BY <1>7 DEF CancelArrive, TypeOK, ArriveCall
  <2>2. QED
    BY <1>7, <2>1 DEF CancelArrive, ParkedExactly, SlotNeverStale, Parked, TypeOK
<1>8. ASSUME NEW c \in Call, ArriveReleased(c) PROVE SlotInv'
  <2>1. ~Parked(c) /\ arrive[c].worker \in Worker
    BY <1>8 DEF ArriveReleased, ArriveAwake, Parked, TypeOK
  <2>2. ArriveLeaves(c) /\ state' = state /\ closed' = closed
    BY <1>8, IdleCalls DEF ArriveReleased, ArriveLeaves, TypeOK
  <2>3. \A w \in Worker : IF arrival[w] = c THEN arrival'[w] = Nil
                                            ELSE arrival'[w] = arrival[w]
    BY <1>8 DEF ArriveReleased, SlotNeverStale, TypeOK
  <2>4. QED
    BY <2>1, <2>2, <2>3, LeaveKeepsSlots
<1>9. ASSUME NEW c \in Call, ArriveClosed(c) PROVE SlotInv'
  <2>1. ~Parked(c)
    BY <1>9 DEF ArriveClosed, ArriveAwake, Parked, ParkedExactly, TypeOK
  <2>2. ArriveLeaves(c) /\ state' = state /\ closed' = closed /\ arrival' = arrival
    BY <1>9, IdleCalls DEF ArriveClosed, ArriveLeaves, TypeOK
  <2>3. \A w \in Worker : arrival[w] # c
    BY <1>9, <2>1, NilAssumption DEF ArriveClosed, SlotNeverStale, ParkedExactly, TypeOK
  <2>4. QED
    BY <2>1, <2>2, <2>3, LeaveKeepsSlots
<1>10. ASSUME NEW c \in Call, ArriveCanceled(c) PROVE SlotInv'
  <2> DEFINE w == arrive[c].worker
  <2>1. Parked(c) /\ w \in Worker
    BY <1>10 DEF ArriveCanceled, ArriveAwake, Parked, TypeOK
  <2>2. state[w] = "arrived" /\ arrival[w] = c
    BY <2>1 DEF ParkedExactly
  <2>3. /\ ArriveLeaves(c) /\ closed' = closed
        /\ state' = [state EXCEPT ![w] = "running"]
        /\ arrival' = [arrival EXCEPT ![w] = Nil]
    BY <1>10, <2>2, IdleCalls DEF ArriveCanceled, ArriveLeaves, TypeOK
  <2>4. \A u \in Worker : u # w => arrival[u] # c
    BY <2>1, NilAssumption DEF SlotNeverStale
  <2>5. QED
    BY <2>1, <2>2, <2>3, <2>4, NilAssumption
       DEF ArriveLeaves, ParkedExactly, SlotNeverStale, Parked, TypeOK
<1>11. ASSUME NEW v \in Waiter, WaitTimeout(v) PROVE SlotInv'
  <2>1. state[wait[v].worker] \notin {"arrived"}
    BY <1>11 DEF WaitTimeout, WakeAnswer, WaitStatus
  <2>2. QED
    BY <1>11, <2>1 DEF WaitTimeout, ParkedExactly, SlotNeverStale, Parked, TypeOK
<1>12. ASSUME NEW v \in Waiter,
              \/ \E w \in Worker, p \in Point : WaitAnswered(v, w, p) \/ WaitBlocks(v, w, p)
              \/ CancelWait(v) \/ WaitAwake(v) \/ WaitAgain(v) \/ WaitTimerAnswered(v)
       PROVE  SlotInv'
  BY <1>12, SlotInvFrame
     DEF SlotVars, WaitAnswered, WaitBlocks, CancelWait, WaitAwake, WaitAgain,
         WaitTimerAnswered
<1>13. QED
  BY <1>1, <1>2, <1>3, <1>4, <1>5, <1>6, <1>7, <1>8, <1>9, <1>10, <1>11, <1>12
     DEF Next, CoordinatorNext, ArriveNext, WaitNext

(* No goroutine is ever parked without its worker recorded as arrived in its *)
(* name, whatever calls race.                                                *)
THEOREM ParkedCorrect == Spec => []ParkedExactly
<1>1. SlotInv => ParkedExactly
  BY DEF SlotInv
<1>2. QED
  BY <1>1, SlotInvInit, SlotInvStep, TypeCorrect, PTL DEF Spec

(* No slot outlives the call it names, and no ready channel is closed twice. *)
THEOREM SlotCorrect == Spec => []SlotNeverStale
<1>1. SlotInv => SlotNeverStale
  BY DEF SlotInv
<1>2. QED
  BY <1>1, SlotInvInit, SlotInvStep, TypeCorrect, PTL DEF Spec

(* What the runtime records of arrivals is what its goroutines wait for.      *)
THEOREM ArrivalsCorrect == Spec => []ArrivalsKept
BY ParkedCorrect, SlotCorrect, PTL DEF ArrivalsKept

-----------------------------------------------------------------------------
(* The runtime implements the gate.                                          *)

(* A step that touches neither a worker nor an Arrive call is a stutter of   *)
(* the gate; so is one that changes a worker without parking or ending it.   *)
LEMMA GateStutter ==
  ASSUME SlotInv, SlotInv', closed' = closed,
         \A c \in Call : /\ arrive'[c].pc = arrive[c].pc
                         /\ arrive'[c].released = arrive[c].released
                         /\ arrive'[c].shut = arrive[c].shut
                         /\ arrive'[c].result = arrive[c].result,
         \A w \in Worker : /\ state'[w] = "arrived" <=> state[w] = "arrived"
                           /\ state'[w] \in Terminal <=> state[w] \in Terminal
                           /\ state[w] = "arrived" => arrival'[w] = arrival[w]
  PROVE  UNCHANGED Gate!gateVars
<1>1. GateHolder' = GateHolder
  BY DEF GateHolder
<1>2. GateEnded' = GateEnded
  BY DEF GateEnded
<1>3. GateProgress' = GateProgress
  BY DEF GateProgress
<1>4. GateAnswer' = GateAnswer
  BY DEF GateAnswer
<1>5. QED
  BY <1>1, <1>2, <1>3, <1>4 DEF Gate!gateVars

LEMMA GateInitial == Init => Gate!GateInit
<1> SUFFICES ASSUME Init PROVE Gate!GateInit
  OBVIOUS
<1>1. \A c \in Call : arrive[c].pc = "idle" /\ arrive[c].result = "none"
  BY DEF Init, NoArrive
<1>2. GateHolder = [w \in Worker |-> Nil]
  BY DEF Init, GateHolder
<1>3. GateEnded = {}
  BY DEF Init, GateEnded, Terminal
<1>4. GateProgress = [c \in Call |-> "outside"]
  BY <1>1 DEF GateProgress
<1>5. GateAnswer = [c \in Call |-> "none"]
  BY <1>1 DEF GateAnswer
<1>6. QED
  BY <1>2, <1>3, <1>4, <1>5 DEF Init, Gate!GateInit

LEMMA GateStep ==
  SlotInv /\ SlotInv' /\ [Next]_vars => [Gate!GateNext]_(Gate!gateVars)
<1> SUFFICES ASSUME SlotInv, SlotInv', [Next]_vars
             PROVE  Gate!GateNext \/ UNCHANGED Gate!gateVars
  OBVIOUS
<1>0. TypeOK /\ TypeOK'
  BY DEF SlotInv
<1>1. CASE UNCHANGED vars
  BY <1>1, GateStutter DEF vars
<1>2. ASSUME NEW w \in Worker, Register(w) PROVE UNCHANGED Gate!gateVars
  BY <1>0, <1>2, GateStutter DEF Register, TypeOK, Terminal
<1>3. ASSUME NEW w \in Worker, NEW p \in Point, Release(w, p) PROVE Gate!Grant(w)
  <2> DEFINE a == arrival[w]
  <2>1. /\ a \in Call /\ arrive[a] \in ArriveCall
        /\ arrive' = [arrive EXCEPT ![a] = [arrive[a] EXCEPT !.released = TRUE]]
        /\ state[w] = "arrived" /\ ~closed
    BY <1>0, <1>3 DEF Release, CanRelease, TypeOK
  <2>2. GateHolder[w] = a /\ GateHolder' = [GateHolder EXCEPT ![w] = Nil]
    BY <1>0, <1>3, <2>1 DEF Release, GateHolder, TypeOK
  <2>3. arrive[a].pc = "blocked"
    BY <2>1, NilAssumption DEF SlotInv, SlotNeverStale
  <2>4. GateProgress' = [GateProgress EXCEPT ![a] = "granted"]
    BY <1>0, <2>1, <2>3, FlagSet DEF GateProgress, TypeOK
  <2>5. GateAnswer' = GateAnswer
    BY <1>0, <2>1, FlagSet DEF GateAnswer, TypeOK
  <2>6. GateEnded' = GateEnded
    BY <1>0, <1>3, <2>1 DEF Release, GateEnded, Terminal, TypeOK
  <2>7. QED
    BY <1>3, <2>1, <2>2, <2>4, <2>5, <2>6, NilAssumption DEF Gate!Grant, Release
<1>4. ASSUME NEW w \in Worker, NEW o \in Terminal, Finish(w, o) PROVE Gate!End(w)
  <2>1. GateHolder' = GateHolder /\ GateHolder[w] = Nil
    BY <1>0, <1>4 DEF Finish, CanFinish, GateHolder, Terminal, TypeOK
  <2>2. GateEnded' = GateEnded \cup {w} /\ w \notin GateEnded
    BY <1>0, <1>4 DEF Finish, CanFinish, GateEnded, Terminal, TypeOK
  <2>3. GateProgress' = GateProgress /\ GateAnswer' = GateAnswer
    BY <1>4 DEF Finish, GateProgress, GateAnswer
  <2>4. QED
    BY <1>4, <2>1, <2>2, <2>3 DEF Gate!End, Finish
<1>5. CASE Close
  <2>1. \A w \in Worker : Stopped(w) <=> state[w] = "arrived"
    BY DEF Stopped, SlotInv, ParkedExactly
  <2>2. \A c \in Call :
          /\ Parked(c) => arrive'[c] = [arrive[c] EXCEPT !.shut = TRUE]
          /\ ~Parked(c) => arrive'[c] = arrive[c]
    <3>1. \A c \in Call : Parked(c) <=> \E w \in Worker : Stopped(w) /\ arrival[w] = c
      BY <1>0, <2>1 DEF SlotInv, ParkedExactly, Parked, TypeOK
    <3>2. QED
      BY <1>5, <3>1 DEF Close
  <2>3. GateHolder' = [w \in Worker |-> Nil]
    BY <1>0, <1>5, <2>1 DEF Close, GateHolder, TypeOK
  <2>4. GateEnded' = GateEnded
    BY <1>0, <1>5, <2>1 DEF Close, GateEnded, Terminal, TypeOK
  <2>5. GateProgress' = [c \in Call |-> IF GateProgress[c] = "parked" THEN "refused"
                                                                    ELSE GateProgress[c]]
    BY <1>0, <2>2, FlagSet DEF GateProgress, Parked, TypeOK, ArriveCall
  <2>6. GateAnswer' = GateAnswer
    <3>1. \A c \in Call : arrive'[c].result = arrive[c].result
      BY <1>0, <2>2, FlagSet DEF TypeOK
    <3>2. QED
      BY <3>1 DEF GateAnswer
  <2>7. Gate!Shut
    BY <1>5, <2>3, <2>4, <2>5, <2>6 DEF Gate!Shut, Close
  <2>8. QED
    BY <2>7 DEF Gate!GateNext
<1>6. ASSUME NEW c \in Call, NEW w \in Worker, NEW p \in Point, ArriveBlocks(c, w, p)
      PROVE  Gate!Park(w, c)
  <2> DEFINE new == [NoArrive("none") EXCEPT !.pc = "blocked", !.worker = w]
  <2>1. /\ new.pc = "blocked" /\ new.worker = w /\ new.result = "none"
        /\ new.released = FALSE /\ new.shut = FALSE
    BY DEF NoArrive
  <2>2. arrive' = [arrive EXCEPT ![c] = new]
    BY <1>6 DEF ArriveBlocks
  <2> HIDE DEF new
  <2>3. GateHolder' = [GateHolder EXCEPT ![w] = c] /\ GateHolder[w] = Nil
    BY <1>0, <1>6 DEF ArriveBlocks, CanArrive, GateHolder, TypeOK
  <2>4. GateEnded' = GateEnded /\ w \notin GateEnded
    BY <1>0, <1>6 DEF ArriveBlocks, CanArrive, GateEnded, Terminal, TypeOK
  <2>5. GateProgress' = [GateProgress EXCEPT ![c] = "parked"]
    BY <1>0, <2>1, <2>2 DEF GateProgress, TypeOK
  <2>6. GateAnswer' = [GateAnswer EXCEPT ![c] = "none"]
    BY <1>0, <2>1, <2>2 DEF GateAnswer, TypeOK
  <2>7. GateProgress[c] = "outside" /\ ~closed /\ closed' = closed
    BY <1>6 DEF ArriveBlocks, GateProgress
  <2>8. QED
    BY <2>3, <2>4, <2>5, <2>6, <2>7 DEF Gate!Park
<1>7. ASSUME NEW c \in Call, CancelArrive(c) PROVE UNCHANGED Gate!gateVars
  <2>1. \A d \in Call : /\ arrive'[d].pc = arrive[d].pc
                        /\ arrive'[d].released = arrive[d].released
                        /\ arrive'[d].shut = arrive[d].shut
                        /\ arrive'[d].result = arrive[d].result
    BY <1>0, <1>7 DEF CancelArrive, TypeOK, ArriveCall
  <2>2. QED
    BY <1>7, <2>1, GateStutter DEF CancelArrive
<1>8. ASSUME NEW c \in Call, ArriveReleased(c) PROVE Gate!Leave(c)
  <2>1. NoArrive("nil").pc = "idle" /\ NoArrive("nil").result = "nil"
    BY DEF NoArrive
  <2>2. arrive' = [arrive EXCEPT ![c] = NoArrive("nil")]
    BY <1>8 DEF ArriveReleased
  <2>3. GateProgress[c] = "granted"
    BY <1>8 DEF ArriveReleased, ArriveAwake, GateProgress
  <2>4. GateProgress' = [GateProgress EXCEPT ![c] = "outside"]
    BY <1>0, <2>1, <2>2 DEF GateProgress, TypeOK
  <2>5. GateAnswer' = [GateAnswer EXCEPT ![c] = "passed"]
    BY <1>0, <2>1, <2>2 DEF GateAnswer, TypeOK
  <2>6. \A w \in Worker : state[w] = "arrived" => arrival[w] # c
    BY <1>8 DEF ArriveReleased, SlotInv, ParkedExactly, Parked
  <2>7. GateHolder' = GateHolder /\ GateEnded' = GateEnded
    BY <1>0, <1>8, <2>6 DEF ArriveReleased, GateHolder, GateEnded, TypeOK
  <2>8. QED
    BY <1>8, <2>3, <2>4, <2>5, <2>7 DEF Gate!Leave, ArriveReleased
<1>9. ASSUME NEW c \in Call, ArriveClosed(c) PROVE Gate!Leave(c)
  <2>1. NoArrive("closed").pc = "idle" /\ NoArrive("closed").result = "closed"
    BY DEF NoArrive
  <2>2. arrive' = [arrive EXCEPT ![c] = NoArrive("closed")]
    BY <1>9 DEF ArriveClosed
  <2>3. arrive[c].shut
    BY <1>0, <1>9
       DEF ArriveClosed, ArriveAwake, SlotInv, ParkedExactly, Parked, TypeOK
  <2>4. GateProgress[c] = "refused"
    BY <1>9, <2>3 DEF ArriveClosed, ArriveAwake, GateProgress
  <2>5. GateProgress' = [GateProgress EXCEPT ![c] = "outside"]
    BY <1>0, <2>1, <2>2 DEF GateProgress, TypeOK
  <2>6. GateAnswer' = [GateAnswer EXCEPT ![c] = "refused"]
    BY <1>0, <2>1, <2>2 DEF GateAnswer, TypeOK
  <2>7. GateHolder' = GateHolder /\ GateEnded' = GateEnded
    BY <1>9 DEF ArriveClosed, GateHolder, GateEnded
  <2>8. QED
    BY <1>9, <2>4, <2>5, <2>6, <2>7 DEF Gate!Leave, ArriveClosed
<1>10. ASSUME NEW c \in Call, ArriveCanceled(c)
       PROVE  \E w \in Worker : Gate!Withdraw(w)
  <2> DEFINE w == arrive[c].worker
  <2>1. Parked(c) /\ w \in Worker
    BY <1>0, <1>10 DEF ArriveCanceled, ArriveAwake, Parked, TypeOK
  <2>2. state[w] = "arrived" /\ arrival[w] = c
    BY <2>1 DEF SlotInv, ParkedExactly
  <2>3. NoArrive("ctx").pc = "idle" /\ NoArrive("ctx").result = "ctx"
    BY DEF NoArrive
  <2>4. arrive' = [arrive EXCEPT ![c] = NoArrive("ctx")]
    BY <1>10 DEF ArriveCanceled
  <2>5. /\ state' = [state EXCEPT ![w] = "running"]
        /\ arrival' = [arrival EXCEPT ![w] = Nil]
        /\ closed' = closed
    BY <1>10, <2>2 DEF ArriveCanceled
  <2>6. GateHolder[w] = c /\ GateHolder' = [GateHolder EXCEPT ![w] = Nil]
    BY <1>0, <2>1, <2>2, <2>5 DEF GateHolder, TypeOK
  <2>7. GateEnded' = GateEnded
    BY <1>0, <2>1, <2>2, <2>5 DEF GateEnded, Terminal, TypeOK
  <2>8. GateProgress' = [GateProgress EXCEPT ![c] = "outside"]
    BY <1>0, <2>3, <2>4 DEF GateProgress, TypeOK
  <2>9. GateAnswer' = [GateAnswer EXCEPT ![c] = "refused"]
    BY <1>0, <2>3, <2>4 DEF GateAnswer, TypeOK
  <2>10. Gate!Withdraw(w)
    BY <2>5, <2>6, <2>7, <2>8, <2>9, NilAssumption DEF Gate!Withdraw
  <2>11. QED
    BY <2>1, <2>10
<1>11. ASSUME NEW v \in Waiter, WaitTimeout(v) PROVE UNCHANGED Gate!gateVars
  <2>1. state[wait[v].worker] \notin {"arrived"} \cup Terminal
    BY <1>0, <1>11 DEF WaitTimeout, WakeAnswer, WaitStatus, Terminal, TypeOK
  <2>2. QED
    BY <1>0, <1>11, <2>1, GateStutter DEF WaitTimeout, Terminal, TypeOK
<1>12. ASSUME NEW v \in Waiter,
              \/ \E w \in Worker, p \in Point : WaitAnswered(v, w, p) \/ WaitBlocks(v, w, p)
              \/ CancelWait(v) \/ WaitAwake(v) \/ WaitAgain(v) \/ WaitTimerAnswered(v)
       PROVE  UNCHANGED Gate!gateVars
  BY <1>12, GateStutter
     DEF WaitAnswered, WaitBlocks, CancelWait, WaitAwake, WaitAgain, WaitTimerAnswered
<1>13. QED
  BY <1>1, <1>2, <1>3, <1>4, <1>5, <1>6, <1>7, <1>8, <1>9, <1>10, <1>11, <1>12
     DEF Next, CoordinatorNext, ArriveNext, WaitNext, Gate!GateNext

(* Whatever release, cancellation, timeout, result and shutdown race, the    *)
(* runtime behaves as the gate.                                              *)
THEOREM GateRefinement == Spec => ImplementsGate
BY GateInitial, GateStep, SlotInvInit, SlotInvStep, TypeCorrect, PTL
   DEF Spec, ImplementsGate, Gate!GateSpec

-----------------------------------------------------------------------------
(* The WaitArrive side of the runtime, and what it recorded.                  *)

(* The properties of the waits are inductive together: one wait per worker   *)
(* says which point a worker may arrive at, so the awaited one.              *)
WaitInv == TypeOK /\ OneWaitPerWorker /\ AwaitedPointKept /\ NoLostWakeup

(* What is recorded for a blocked wait, now.                                 *)
Status(v) == WaitStatus(wait[v].worker, wait[v].point)

LEMMA StatusIs ==
  /\ AwaitedPointKept <=> \A v \in Waiter : wait[v].pc = "waiting" => Status(v) # "mismatch"
  /\ NoLostWakeup <=> \A v \in Waiter : wait[v].pc = "waiting" /\ Status(v) # "none"
                                           => wait[v].notified
BY DEF AwaitedPointKept, NoLostWakeup, Status

LEMMA StatusWillBe ==
  /\ AwaitedPointKept' <=> \A v \in Waiter : wait'[v].pc = "waiting" => Status(v)' # "mismatch"
  /\ NoLostWakeup' <=> \A v \in Waiter : wait'[v].pc = "waiting" /\ Status(v)' # "none"
                                            => wait'[v].notified
BY DEF AwaitedPointKept, NoLostWakeup, Status

(* It depends on the worker and on what the wait asks for alone.             *)
LEMMA StatusKept ==
  ASSUME NEW v, wait'[v].worker = wait[v].worker, wait'[v].point = wait[v].point,
         closed' = closed, state'[wait[v].worker] = state[wait[v].worker],
         point'[wait[v].worker] = point[wait[v].worker]
  PROVE  Status(v)' = Status(v)
BY DEF Status, WaitStatus

(* The wait of a worker is the one that waitPoint records.                   *)
LEMMA RecordedWait ==
  ASSUME WaitInv, NEW v \in Waiter, wait[v].pc = "waiting"
  PROVE  /\ wait[v].worker \in Worker /\ wait[v].point \in Point
         /\ waitPoint[wait[v].worker] = wait[v].point
         /\ \A u \in Waiter : wait[u].pc = "waiting" /\ wait[u].worker = wait[v].worker
                                => u = v
<1>1. wait[v].worker \in Worker /\ wait[v].point \in Point
  BY DEF WaitInv, TypeOK
<1> DEFINE w == wait[v].worker
           waiting == {u \in Waiter : wait[u].pc = "waiting" /\ wait[u].worker = w}
<1>2. v \in waiting
  OBVIOUS
<1>3. PICK u \in waiting : waiting = {u} /\ wait[u].point = waitPoint[w]
  BY <1>1, <1>2 DEF WaitInv, OneWaitPerWorker
<1>4. QED
  BY <1>1, <1>2, <1>3

(* Steps that leave the locals of the waits alone.                           *)
SameWaits ==
  /\ waitPoint' = waitPoint
  /\ \A v \in Waiter : /\ wait'[v].pc = wait[v].pc
                       /\ wait'[v].worker = wait[v].worker
                       /\ wait'[v].point = wait[v].point

LEMMA SameWaitsKeepOne ==
  ASSUME WaitInv, SameWaits
  PROVE  OneWaitPerWorker'
<1> SUFFICES ASSUME NEW w \in Worker
             PROVE  /\ waitPoint'[w] = Nil =>
                         {v \in Waiter : wait'[v].pc = "waiting" /\ wait'[v].worker = w} = {}
                    /\ waitPoint'[w] # Nil =>
                         \E v \in {u \in Waiter : wait'[u].pc = "waiting"
                                                  /\ wait'[u].worker = w} :
                            /\ {u \in Waiter : wait'[u].pc = "waiting"
                                               /\ wait'[u].worker = w} = {v}
                            /\ wait'[v].point = waitPoint'[w]
  BY DEF OneWaitPerWorker
<1>1. {v \in Waiter : wait'[v].pc = "waiting" /\ wait'[v].worker = w}
        = {v \in Waiter : wait[v].pc = "waiting" /\ wait[v].worker = w}
  BY DEF SameWaits
<1>2. QED
  BY <1>1 DEF WaitInv, OneWaitPerWorker, SameWaits

(* A signal reaches every wait that is blocked.                              *)
LEMMA SignalWakes ==
  ASSUME TypeOK, wait' = Signaled(wait), waitPoint' = waitPoint
  PROVE  SameWaits /\ NoLostWakeup'
<1>1. wait \in [Waiter -> WaitCall]
  BY DEF TypeOK
<1>2. \A v \in Waiter : /\ wait'[v].pc = wait[v].pc
                        /\ wait'[v].worker = wait[v].worker
                        /\ wait'[v].point = wait[v].point
                        /\ wait'[v].notified = (wait[v].notified \/ wait[v].pc = "waiting")
  BY <1>1, SignaledType
<1>3. NoLostWakeup'
  BY <1>2, StatusWillBe
<1>4. QED
  BY <1>2, <1>3 DEF SameWaits

(* A step that leaves the waits and what they look at alone.                 *)
LEMMA WaitFrame ==
  ASSUME WaitInv, TypeOK', UNCHANGED <<closed, state, point, waitPoint, wait>>
  PROVE  WaitInv'
<1>1. SameWaits
  BY DEF SameWaits
<1>2. OneWaitPerWorker'
  BY <1>1, SameWaitsKeepOne
<1>3. \A v \in Waiter : Status(v)' = Status(v)
  BY StatusKept
<1>4. AwaitedPointKept' /\ NoLostWakeup'
  BY <1>3, StatusIs, StatusWillBe DEF WaitInv
<1>5. QED
  BY <1>2, <1>4 DEF WaitInv

(* The return of one wait: its record goes with it, and the others wake up.  *)
LEMMA ReturnKeeps ==
  ASSUME WaitInv, NEW v \in Waiter, wait[v].pc = "waiting",
         NEW r \in {"none", "arrived", "done", "failed", "timeout", "closed",
                    "ctx", "mismatch", "invalid"},
         WaitReturns(v, r)
  PROVE  /\ OneWaitPerWorker' /\ NoLostWakeup'
         /\ wait'[v].pc = "idle"
         /\ \A u \in Waiter \ {v} : /\ wait'[u].pc = wait[u].pc
                                    /\ wait'[u].worker = wait[u].worker
                                    /\ wait'[u].point = wait[u].point
<1> DEFINE calls == [wait EXCEPT ![v] = NoWait(r)]
           w == wait[v].worker
<1>1. calls \in [Waiter -> WaitCall] /\ calls[v].pc = "idle"
      /\ \A u \in Waiter \ {v} : calls[u] = wait[u]
  BY IdleCalls DEF WaitInv, TypeOK
<1>2. wait' = Signaled(calls) /\ waitPoint' = [waitPoint EXCEPT ![w] = Nil]
  BY DEF WaitReturns
<1> HIDE DEF calls
<1>3. \A u \in Waiter : /\ wait'[u].pc = calls[u].pc
                        /\ wait'[u].worker = calls[u].worker
                        /\ wait'[u].point = calls[u].point
                        /\ wait'[u].notified = (calls[u].notified \/ calls[u].pc = "waiting")
  BY <1>1, <1>2, SignaledType
<1>4. NoLostWakeup'
  BY <1>3, StatusWillBe
<1>5. OneWaitPerWorker'
  <2> SUFFICES ASSUME NEW x \in Worker
               PROVE  /\ waitPoint'[x] = Nil =>
                           {u \in Waiter : wait'[u].pc = "waiting" /\ wait'[u].worker = x} = {}
                      /\ waitPoint'[x] # Nil =>
                           \E y \in {u \in Waiter : wait'[u].pc = "waiting"
                                                    /\ wait'[u].worker = x} :
                              /\ {u \in Waiter : wait'[u].pc = "waiting"
                                                 /\ wait'[u].worker = x} = {y}
                              /\ wait'[y].point = waitPoint'[x]
    BY DEF OneWaitPerWorker
  <2>1. CASE x = w
    <3>1. waitPoint'[x] = Nil
      BY <1>2, <2>1 DEF WaitInv, TypeOK
    <3>2. {u \in Waiter : wait'[u].pc = "waiting" /\ wait'[u].worker = x} = {}
      BY <1>1, <1>3, <2>1, RecordedWait
    <3>3. QED
      BY <3>1, <3>2
  <2>2. CASE x # w
    <3>1. waitPoint'[x] = waitPoint[x]
      BY <1>2, <2>2 DEF WaitInv, TypeOK
    <3>2. {u \in Waiter : wait'[u].pc = "waiting" /\ wait'[u].worker = x}
            = {u \in Waiter : wait[u].pc = "waiting" /\ wait[u].worker = x}
      BY <1>1, <1>3, <2>2
    <3>3. \A u \in Waiter : wait[u].pc = "waiting" /\ wait[u].worker = x
                              => wait'[u].point = wait[u].point
      BY <1>1, <1>3, <2>2
    <3>4. QED
      BY <3>1, <3>2, <3>3 DEF WaitInv, OneWaitPerWorker
  <2>3. QED
    BY <2>1, <2>2
<1>6. QED
  BY <1>1, <1>3, <1>4, <1>5

(* A wait that returns without a change of its worker.                       *)
LEMMA AnswerKeeps ==
  ASSUME WaitInv, TypeOK', NEW v \in Waiter, WaitAwake(v) \/ WaitTimerAnswered(v)
  PROVE  WaitInv'
<1>1. /\ wait[v].pc = "waiting" /\ UNCHANGED <<closed, state, point>>
      /\ WaitReturns(v, WakeAnswer(v))
  BY DEF WaitAwake, WaitTimerAnswered
<1>2. WakeAnswer(v) \in {"none", "arrived", "done", "failed", "timeout", "closed",
                         "ctx", "mismatch", "invalid"}
  BY <1>1, WakeAnswerType DEF WaitInv
<1>3. /\ OneWaitPerWorker' /\ NoLostWakeup' /\ wait'[v].pc = "idle"
      /\ \A u \in Waiter \ {v} : /\ wait'[u].pc = wait[u].pc
                                 /\ wait'[u].worker = wait[u].worker
                                 /\ wait'[u].point = wait[u].point
  BY <1>1, <1>2, ReturnKeeps
<1>4. AwaitedPointKept'
  <2>1. \A u \in Waiter \ {v} : Status(u)' = Status(u)
    BY <1>1, <1>3, StatusKept
  <2>2. QED
    BY <1>3, <2>1, StatusIs, StatusWillBe DEF WaitInv
<1>5. QED
  BY <1>3, <1>4 DEF WaitInv

(* The worker that is taken to be blocked is blocked at the awaited point,   *)
(* and nobody else waits for it.                                             *)
LEMMA TimeoutKeeps ==
  ASSUME WaitInv, TypeOK', NEW v \in Waiter, WaitTimeout(v)
  PROVE  WaitInv'
<1> DEFINE w == wait[v].worker
<1>1. /\ wait[v].pc = "waiting" /\ WaitReturns(v, "timeout") /\ closed' = closed
      /\ \A x \in Worker \ {w} : state'[x] = state[x] /\ point'[x] = point[x]
  BY DEF WaitTimeout, WaitInv, TypeOK
<1>2. /\ OneWaitPerWorker' /\ NoLostWakeup' /\ wait'[v].pc = "idle"
      /\ \A u \in Waiter \ {v} : /\ wait'[u].pc = wait[u].pc
                                 /\ wait'[u].worker = wait[u].worker
                                 /\ wait'[u].point = wait[u].point
  BY <1>1, ReturnKeeps
<1>3. ASSUME NEW u \in Waiter, wait'[u].pc = "waiting"
      PROVE  Status(u)' # "mismatch"
  <2>1. u # v /\ wait[u].pc = "waiting"
    BY <1>2, <1>3
  <2>2. wait[u].worker \in Worker \ {w}
    BY <1>1, <2>1, RecordedWait
  <2>3. Status(u) # "mismatch"
    BY <2>1, StatusIs DEF WaitInv
  <2>4. wait'[u].worker = wait[u].worker /\ wait'[u].point = wait[u].point
    BY <1>2, <2>1
  <2>5. QED
    BY <1>1, <2>2, <2>3, <2>4, StatusKept
<1>4. AwaitedPointKept'
  BY <1>3, StatusWillBe
<1>5. QED
  BY <1>2, <1>4 DEF WaitInv

(* A wait blocks only when none is recorded and nothing answers it.          *)
LEMMA BlocksKeep ==
  ASSUME WaitInv, TypeOK', NEW v \in Waiter, NEW w \in Worker, NEW p \in Point,
         WaitBlocks(v, w, p)
  PROVE  WaitInv'
<1> DEFINE new == [NoWait("none") EXCEPT !.pc = "waiting", !.worker = w, !.point = p]
<1>1. /\ new.pc = "waiting" /\ new.worker = w /\ new.point = p
  BY DEF NoWait
<1>2. wait' = [Signaled(wait) EXCEPT ![v] = new]
  BY DEF WaitBlocks
<1> HIDE DEF new
<1>3. /\ Signaled(wait) \in [Waiter -> WaitCall]
      /\ \A u \in Waiter : /\ Signaled(wait)[u].pc = wait[u].pc
                           /\ Signaled(wait)[u].worker = wait[u].worker
                           /\ Signaled(wait)[u].point = wait[u].point
                           /\ Signaled(wait)[u].notified
                                = (wait[u].notified \/ wait[u].pc = "waiting")
  BY SignaledType DEF WaitInv, TypeOK
<1>4. /\ wait'[v] = new
      /\ \A u \in Waiter \ {v} : /\ wait'[u].pc = wait[u].pc
                                 /\ wait'[u].worker = wait[u].worker
                                 /\ wait'[u].point = wait[u].point
                                 /\ wait'[u].notified
                                      = (wait[u].notified \/ wait[u].pc = "waiting")
  BY <1>2, <1>3
<1>5. /\ wait[v].pc = "idle" /\ UNCHANGED <<closed, state, point>>
      /\ waitPoint' = [waitPoint EXCEPT ![w] = p]
      /\ WaitStatus(w, p) = "none" /\ waitPoint[w] = Nil
  BY DEF WaitBlocks, WaitEntry, WaitStatus
<1>6. Status(v)' = "none" /\ \A u \in Waiter \ {v} : Status(u)' = Status(u)
  <2>1. Status(v)' = "none"
    BY <1>1, <1>4, <1>5 DEF Status, WaitStatus
  <2>2. QED
    BY <1>4, <1>5, <2>1, StatusKept
<1>7. AwaitedPointKept' /\ NoLostWakeup'
  BY <1>4, <1>6, StatusIs, StatusWillBe, ZenonT(60) DEF WaitInv
<1>8. OneWaitPerWorker'
  <2> SUFFICES ASSUME NEW x \in Worker
               PROVE  /\ waitPoint'[x] = Nil =>
                           {u \in Waiter : wait'[u].pc = "waiting" /\ wait'[u].worker = x} = {}
                      /\ waitPoint'[x] # Nil =>
                           \E y \in {u \in Waiter : wait'[u].pc = "waiting"
                                                    /\ wait'[u].worker = x} :
                              /\ {u \in Waiter : wait'[u].pc = "waiting"
                                                 /\ wait'[u].worker = x} = {y}
                              /\ wait'[y].point = waitPoint'[x]
    BY DEF OneWaitPerWorker
  <2>1. CASE x = w
    <3>1. {u \in Waiter : wait[u].pc = "waiting" /\ wait[u].worker = x} = {}
      BY <1>5, <2>1 DEF WaitInv, OneWaitPerWorker
    <3>2. {u \in Waiter : wait'[u].pc = "waiting" /\ wait'[u].worker = x} = {v}
      BY <1>1, <1>4, <2>1, <3>1
    <3>3. waitPoint'[x] = p /\ p # Nil
      BY <1>5, <2>1, NilAssumption DEF WaitInv, TypeOK
    <3>4. QED
      BY <1>1, <1>4, <3>2, <3>3
  <2>2. CASE x # w
    <3>1. waitPoint'[x] = waitPoint[x]
      BY <1>5, <2>2 DEF WaitInv, TypeOK
    <3>2. {u \in Waiter : wait'[u].pc = "waiting" /\ wait'[u].worker = x}
            = {u \in Waiter : wait[u].pc = "waiting" /\ wait[u].worker = x}
      BY <1>1, <1>4, <1>5, <2>2
    <3>3. \A u \in Waiter : wait[u].pc = "waiting" => wait'[u].point = wait[u].point
      BY <1>4, <1>5
    <3>4. QED
      BY <3>1, <3>2, <3>3 DEF WaitInv, OneWaitPerWorker
  <2>3. QED
    BY <2>1, <2>2
<1>9. QED
  BY <1>7, <1>8 DEF WaitInv

(* A signaling step of another call keeps every wait at its point.           *)
LEMMA SignalKeeps ==
  ASSUME WaitInv, TypeOK', wait' = Signaled(wait), waitPoint' = waitPoint,
         \A v \in Waiter : wait[v].pc = "waiting" => Status(v)' # "mismatch"
  PROVE  WaitInv'
<1>1. SameWaits /\ NoLostWakeup'
  BY SignalWakes DEF WaitInv
<1>2. OneWaitPerWorker'
  BY <1>1, SameWaitsKeepOne
<1>3. AwaitedPointKept'
  BY <1>1, StatusWillBe DEF SameWaits
<1>4. QED
  BY <1>1, <1>2, <1>3 DEF WaitInv

(* A worker that is seen to run, to be released or to have ended disagrees   *)
(* with no wait.                                                             *)
LEMMA MovesKeep ==
  ASSUME WaitInv, TypeOK', wait' = Signaled(wait), waitPoint' = waitPoint,
         closed' = closed, NEW w \in Worker,
         state'[w] \in {"running", "released", "done", "failed"},
         \A x \in Worker \ {w} : state'[x] = state[x] /\ point'[x] = point[x]
  PROVE  WaitInv'
<1>1. SameWaits
  BY SignalWakes DEF WaitInv
<1>2. ASSUME NEW v \in Waiter, wait[v].pc = "waiting" PROVE Status(v)' # "mismatch"
  <2>1. /\ wait'[v].worker = wait[v].worker /\ wait'[v].point = wait[v].point
        /\ wait[v].worker \in Worker
    BY <1>1, <1>2 DEF SameWaits, WaitInv, TypeOK
  <2>2. CASE wait[v].worker = w
    BY <2>1, <2>2 DEF Status, WaitStatus, Terminal
  <2>3. CASE wait[v].worker # w
    BY <1>2, <2>1, <2>3, StatusKept, StatusIs DEF WaitInv
  <2>4. QED
    BY <2>2, <2>3
<1>3. QED
  BY <1>2, SignalKeeps

(* An arrival is let in only at the point its worker is awaited at.          *)
LEMMA ArrivalKeeps ==
  ASSUME WaitInv, TypeOK', NEW c \in Call, NEW w \in Worker, NEW p \in Point,
         ArriveBlocks(c, w, p)
  PROVE  WaitInv'
<1>1. /\ wait' = Signaled(wait) /\ waitPoint' = waitPoint /\ closed' = closed
      /\ waitPoint[w] \in {Nil, p} /\ state'[w] = "arrived" /\ point'[w] = p
      /\ \A x \in Worker \ {w} : state'[x] = state[x] /\ point'[x] = point[x]
  BY DEF ArriveBlocks, CanArrive, WaitInv, TypeOK
<1>2. SameWaits
  BY <1>1, SignalWakes DEF WaitInv
<1>3. ASSUME NEW v \in Waiter, wait[v].pc = "waiting" PROVE Status(v)' # "mismatch"
  <2>1. /\ wait'[v].worker = wait[v].worker /\ wait'[v].point = wait[v].point
        /\ wait[v].worker \in Worker
    BY <1>2, <1>3 DEF SameWaits, WaitInv, TypeOK
  <2>2. CASE wait[v].worker = w
    <3>1. wait[v].point = p
      BY <1>1, <1>3, <2>2, RecordedWait, NilAssumption
    <3>2. QED
      BY <1>1, <2>1, <2>2, <3>1 DEF Status, WaitStatus
  <2>3. CASE wait[v].worker # w
    BY <1>1, <1>3, <2>1, <2>3, StatusKept, StatusIs DEF WaitInv
  <2>4. QED
    BY <2>2, <2>3
<1>4. QED
  BY <1>1, <1>3, SignalKeeps

(* Cancellation of a wait, a wakeup that found nothing, and an answer at the *)
(* entry change one record and no worker.                                    *)
LEMMA OneWaitChanges ==
  ASSUME WaitInv, TypeOK', NEW v \in Waiter, UNCHANGED <<closed, state, point, waitPoint>>,
         \A u \in Waiter \ {v} : wait'[u] = wait[u],
         wait'[v].pc = wait[v].pc, wait[v].pc = "idle" \/
           /\ wait'[v].worker = wait[v].worker /\ wait'[v].point = wait[v].point
           /\ wait'[v].notified \/ Status(v) = "none" \/ ~ wait[v].notified
  PROVE  WaitInv'
<1>1. \A u \in Waiter : wait'[u].pc = "waiting" <=> wait[u].pc = "waiting"
  OBVIOUS
<1>2. \A u \in Waiter : wait[u].pc = "waiting" =>
        wait'[u].worker = wait[u].worker /\ wait'[u].point = wait[u].point
  <2>1. wait[v].pc = "idle" => wait[v].pc # "waiting"
    OBVIOUS
  <2>2. QED
    BY <2>1
<1>3. \A u \in Waiter : wait[u].pc = "waiting" => Status(u)' = Status(u)
  BY <1>2, StatusKept
<1>4. AwaitedPointKept'
  BY <1>1, <1>3, StatusIs, StatusWillBe DEF WaitInv
<1>5. NoLostWakeup'
  <2> SUFFICES ASSUME NEW u \in Waiter, wait'[u].pc = "waiting", Status(u)' # "none"
               PROVE  wait'[u].notified
    BY StatusWillBe
  <2>1. wait[u].pc = "waiting" /\ Status(u) # "none"
    BY <1>1, <1>3
  <2>2. wait[u].notified
    BY <2>1, StatusIs DEF WaitInv
  <2>3. QED
    BY <2>1, <2>2
<1>6. OneWaitPerWorker'
  <2> SUFFICES ASSUME NEW w \in Worker
               PROVE  /\ waitPoint'[w] = Nil =>
                           {u \in Waiter : wait'[u].pc = "waiting" /\ wait'[u].worker = w} = {}
                      /\ waitPoint'[w] # Nil =>
                           \E y \in {u \in Waiter : wait'[u].pc = "waiting"
                                                    /\ wait'[u].worker = w} :
                              /\ {u \in Waiter : wait'[u].pc = "waiting"
                                                 /\ wait'[u].worker = w} = {y}
                              /\ wait'[y].point = waitPoint'[w]
    BY DEF OneWaitPerWorker
  <2>1. {u \in Waiter : wait'[u].pc = "waiting" /\ wait'[u].worker = w}
          = {u \in Waiter : wait[u].pc = "waiting" /\ wait[u].worker = w}
    BY <1>1, <1>2
  <2>2. QED
    BY <1>2, <2>1 DEF WaitInv, OneWaitPerWorker
<1>7. QED
  BY <1>4, <1>5, <1>6 DEF WaitInv

LEMMA WaitInvStep == WaitInv /\ TypeOK' /\ [Next]_vars => WaitInv'
<1> SUFFICES ASSUME WaitInv, TypeOK', [Next]_vars PROVE WaitInv'
  OBVIOUS
<1>1. CASE UNCHANGED vars
  BY <1>1, WaitFrame DEF vars
<1>2. ASSUME NEW w \in Worker, Register(w) PROVE WaitInv'
  BY <1>2, MovesKeep DEF Register, WaitInv, TypeOK
<1>3. ASSUME NEW w \in Worker, NEW p \in Point, Release(w, p) PROVE WaitInv'
  BY <1>3, MovesKeep DEF Release, WaitInv, TypeOK
<1>4. ASSUME NEW w \in Worker, NEW o \in Terminal, Finish(w, o) PROVE WaitInv'
  BY <1>4, MovesKeep DEF Finish, Terminal, WaitInv, TypeOK
<1>5. CASE Close
  <2>1. \A v \in Waiter : Status(v)' = "closed"
    BY <1>5 DEF Close, Status, WaitStatus
  <2>2. QED
    BY <1>5, <2>1, SignalKeeps DEF Close
<1>6. ASSUME NEW c \in Call, NEW w \in Worker, NEW p \in Point, ArriveBlocks(c, w, p)
      PROVE  WaitInv'
  BY <1>6, ArrivalKeeps
<1>7. ASSUME NEW c \in Call, CancelArrive(c) \/ ArriveReleased(c) \/ ArriveClosed(c)
      PROVE  WaitInv'
  BY <1>7, WaitFrame DEF CancelArrive, ArriveReleased, ArriveClosed
<1>8. ASSUME NEW c \in Call, ArriveCanceled(c) PROVE WaitInv'
  <2> DEFINE w == arrive[c].worker
  <2>1. w \in Worker
    BY <1>8 DEF ArriveCanceled, ArriveAwake, WaitInv, TypeOK
  <2>2. CASE arrival[w] = c /\ state[w] = "arrived"
    <3>1. /\ wait' = Signaled(wait) /\ waitPoint' = waitPoint /\ closed' = closed
          /\ state'[w] = "running"
          /\ \A x \in Worker \ {w} : state'[x] = state[x] /\ point'[x] = point[x]
      BY <1>8, <2>1, <2>2 DEF ArriveCanceled, WaitInv, TypeOK
    <3>2. QED
      BY <2>1, <3>1, MovesKeep
  <2>3. CASE ~ (arrival[w] = c /\ state[w] = "arrived")
    <3>1. UNCHANGED <<closed, state, point, waitPoint, wait>>
      BY <1>8, <2>3 DEF ArriveCanceled, WaitInv, TypeOK
    <3>2. QED
      BY <3>1, WaitFrame
  <2>4. QED
    BY <2>2, <2>3
<1>9. ASSUME NEW v \in Waiter, NEW w \in Worker, NEW p \in Point, WaitAnswered(v, w, p)
      PROVE  WaitInv'
  <2>1. /\ wait[v].pc = "idle" /\ UNCHANGED <<closed, state, point, waitPoint>>
        /\ wait' = [wait EXCEPT ![v] = NoWait(WaitEntry(w, p))]
    BY <1>9 DEF WaitAnswered
  <2>2. wait'[v].pc = "idle"
    BY <2>1 DEF WaitInv, TypeOK, NoWait
  <2>3. QED
    BY <2>1, <2>2, OneWaitChanges DEF WaitInv, TypeOK
<1>10. ASSUME NEW v \in Waiter, NEW w \in Worker, NEW p \in Point, WaitBlocks(v, w, p)
       PROVE  WaitInv'
  BY <1>10, BlocksKeep
<1>11. ASSUME NEW v \in Waiter, CancelWait(v) PROVE WaitInv'
  <2>1. /\ UNCHANGED <<closed, state, point, waitPoint>>
        /\ \A u \in Waiter \ {v} : wait'[u] = wait[u]
        /\ wait'[v].pc = wait[v].pc /\ wait'[v].worker = wait[v].worker
        /\ wait'[v].point = wait[v].point /\ wait'[v].notified = wait[v].notified
    BY <1>11 DEF CancelWait, WaitInv, TypeOK, WaitCall
  <2>2. QED
    BY <2>1, OneWaitChanges
<1>12. ASSUME NEW v \in Waiter, WaitAgain(v) PROVE WaitInv'
  <2>1. /\ UNCHANGED <<closed, state, point, waitPoint>>
        /\ \A u \in Waiter \ {v} : wait'[u] = wait[u]
        /\ wait'[v].pc = wait[v].pc /\ wait'[v].worker = wait[v].worker
        /\ wait'[v].point = wait[v].point
    BY <1>12 DEF WaitAgain, WaitInv, TypeOK, WaitCall
  <2>2. Status(v) = "none"
    BY <1>12 DEF WaitAgain, WakeAnswer, Status
  <2>3. QED
    BY <2>1, <2>2, OneWaitChanges
<1>13. ASSUME NEW v \in Waiter, WaitAwake(v) \/ WaitTimerAnswered(v) PROVE WaitInv'
  BY <1>13, AnswerKeeps
<1>14. ASSUME NEW v \in Waiter, WaitTimeout(v) PROVE WaitInv'
  BY <1>14, TimeoutKeeps
<1>15. QED
  BY <1>1, <1>2, <1>3, <1>4, <1>5, <1>6, <1>7, <1>8, <1>9, <1>10, <1>11, <1>12, <1>13,
     <1>14 DEF Next, CoordinatorNext, ArriveNext, WaitNext

(* However arrivals, results, cancellations, timers and Close interleave with *)
(* it, the wait of a worker is the only one, is for a point the worker can    *)
(* stop at, and has been woken when there is an answer.                      *)
THEOREM WaitsCorrect == Spec => []WaitsKept
<1>1. Init => WaitInv
  <2> SUFFICES ASSUME Init PROVE WaitInv
    OBVIOUS
  <2>1. TypeOK
    BY SlotInvInit DEF SlotInv
  <2>2. \A v \in Waiter : wait[v].pc = "idle"
    BY IdleCalls DEF Init
  <2>3. \A w \in Worker : waitPoint[w] = Nil
    BY DEF Init
  <2>4. QED
    BY <2>1, <2>2, <2>3 DEF WaitInv, OneWaitPerWorker, AwaitedPointKept, NoLostWakeup
<1>2. WaitInv => WaitsKept
  BY DEF WaitInv, WaitsKept
<1>3. QED
  BY <1>1, <1>2, WaitInvStep, TypeCorrect, PTL DEF Spec

-----------------------------------------------------------------------------
(* What is recorded stays.                                                   *)

FactsStay(w) ==
  /\ state[w] \in Terminal => state'[w] = state[w]
  /\ state[w] = "arrived" /\ state'[w] # "arrived" =>
       \/ state'[w] = "released" /\ point'[w] = point[w]
       \/ state'[w] = "running" /\ (closed' \/ arrive[arrival[w]].canceled)

(* A step changes the state of the workers it is about.                      *)
LEMMA FactsStep ==
  ASSUME SlotInv, [Next]_vars, NEW x \in Worker
  PROVE  FactsStay(x)
<1> USE DEF FactsStay, Terminal
<1>1. CASE UNCHANGED vars
  BY <1>1 DEF vars
<1>2. ASSUME NEW w \in Worker, Register(w) PROVE FactsStay(x)
  BY <1>2 DEF Register, SlotInv, TypeOK
<1>3. ASSUME NEW w \in Worker, NEW p \in Point, Release(w, p) PROVE FactsStay(x)
  BY <1>3 DEF Release, CanRelease, SlotInv, TypeOK
<1>4. ASSUME NEW w \in Worker, NEW o \in Terminal, Finish(w, o) PROVE FactsStay(x)
  BY <1>4 DEF Finish, CanFinish, SlotInv, TypeOK
<1>5. CASE Close
  BY <1>5 DEF Close, Stopped, SlotInv, TypeOK
<1>6. ASSUME NEW c \in Call, NEW w \in Worker, NEW p \in Point, ArriveBlocks(c, w, p)
      PROVE  FactsStay(x)
  BY <1>6 DEF ArriveBlocks, CanArrive, SlotInv, TypeOK
<1>7. ASSUME NEW c \in Call, CancelArrive(c) \/ ArriveReleased(c) \/ ArriveClosed(c)
      PROVE  FactsStay(x)
  BY <1>7 DEF CancelArrive, ArriveReleased, ArriveClosed
<1>8. ASSUME NEW c \in Call, ArriveCanceled(c) PROVE FactsStay(x)
  <2>1. arrive[c].canceled
    BY <1>8 DEF ArriveCanceled, ArriveAwake
  <2>2. CASE state'[x] = state[x]
    BY <2>2
  <2>3. CASE state'[x] # state[x]
    <3>1. x = arrive[c].worker /\ arrival[x] = c /\ state[x] = "arrived"
          /\ state'[x] = "running"
      BY <1>8, <2>3 DEF ArriveCanceled, SlotInv, TypeOK
    <3>2. QED
      BY <2>1, <3>1
  <2>4. QED
    BY <2>2, <2>3
<1>9. ASSUME NEW v \in Waiter, WaitTimeout(v) PROVE FactsStay(x)
  <2>1. CASE x = wait[v].worker
    <3>1. state[x] \notin Terminal \cup {"arrived"}
      BY <1>9, <2>1 DEF WaitTimeout, WakeAnswer, WaitStatus
    <3>2. QED
      BY <3>1
  <2>2. CASE x # wait[v].worker
    BY <1>9, <2>2 DEF WaitTimeout, SlotInv, TypeOK
  <2>3. QED
    BY <2>1, <2>2
<1>10. ASSUME NEW v \in Waiter,
              \/ \E w \in Worker, p \in Point : WaitAnswered(v, w, p) \/ WaitBlocks(v, w, p)
              \/ CancelWait(v) \/ WaitAwake(v) \/ WaitAgain(v) \/ WaitTimerAnswered(v)
       PROVE  FactsStay(x)
  BY <1>10 DEF WaitAnswered, WaitBlocks, CancelWait, WaitAwake, WaitAgain, WaitTimerAnswered
<1>11. QED
  BY <1>1, <1>2, <1>3, <1>4, <1>5, <1>6, <1>7, <1>8, <1>9, <1>10
     DEF Next, CoordinatorNext, ArriveNext, WaitNext

(* No late timer, result or Close overwrites what was recorded: a terminal   *)
(* state is final, and a worker leaves its point released, withdrawn or at   *)
(* the end of the runtime.                                                   *)
THEOREM FactsCorrect == Spec => RecordedFactsStay
<1>1. SlotInv /\ [Next]_vars => [\A w \in Worker : FactsStay(w)]_vars
  BY FactsStep
<1>2. [\A w \in Worker : FactsStay(w)]_vars =>
        [\A w \in Worker :
           /\ state[w] \in Terminal => state'[w] = state[w]
           /\ state[w] = "arrived" /\ state'[w] # "arrived" =>
                \/ state'[w] = "released" /\ point'[w] = point[w]
                \/ state'[w] = "running" /\ (closed' \/ arrive[arrival[w]].canceled)]_vars
  BY DEF FactsStay
<1>3. QED
  BY <1>1, <1>2, SlotInvInit, SlotInvStep, TypeCorrect, PTL DEF Spec, RecordedFactsStay
=============================================================================
