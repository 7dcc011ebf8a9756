----------------------------- MODULE PointGate -----------------------------
(***************************************************************************)
(* What the sync-point runtime promises its worker goroutines, stated      *)
(* without locks, wakeups, waiters or timers.                              *)
(*                                                                         *)
(* Every worker has at most one goroutine parked at a point.  A parked     *)
(* call is settled exactly once: it is granted, or it is refused, and      *)
(* whichever comes first is the answer the call brings back.  A worker     *)
(* with a parked call cannot be recorded as finished, a finished worker    *)
(* stays finished, and nothing parks once the gate is shut.                *)
(***************************************************************************)

CONSTANTS Worker,    \* workers of one schedule execution
          Call,      \* goroutines that may be inside Arrive
          Nil        \* "no goroutine is parked"

VARIABLES holder,    \* the call parked for each worker
          ended,     \* workers with a terminal result
          progress,  \* where each call stands
          answer,    \* what each call brought back last
          shut       \* the gate was shut down

gateVars == <<holder, ended, progress, answer, shut>>

GateInit ==
  /\ holder = [w \in Worker |-> Nil]
  /\ ended = {}
  /\ progress = [c \in Call |-> "outside"]
  /\ answer = [c \in Call |-> "none"]
  /\ shut = FALSE

\* A goroutine of a worker that is not finished stops at a point.
Park(w, c) ==
  /\ ~shut
  /\ w \notin ended
  /\ holder[w] = Nil
  /\ progress[c] = "outside"
  /\ holder' = [holder EXCEPT ![w] = c]
  /\ progress' = [progress EXCEPT ![c] = "parked"]
  /\ answer' = [answer EXCEPT ![c] = "none"]
  /\ UNCHANGED <<ended, shut>>

\* The coordinator lets the parked call of one worker, and no other, go on.
Grant(w) ==
  /\ ~shut
  /\ holder[w] # Nil
  /\ holder' = [holder EXCEPT ![w] = Nil]
  /\ progress' = [progress EXCEPT ![holder[w]] = "granted"]
  /\ UNCHANGED <<ended, answer, shut>>

\* A parked call gives up: it leaves and its worker is free to go on.
Withdraw(w) ==
  /\ holder[w] # Nil
  /\ holder' = [holder EXCEPT ![w] = Nil]
  /\ progress' = [progress EXCEPT ![holder[w]] = "outside"]
  /\ answer' = [answer EXCEPT ![holder[w]] = "refused"]
  /\ UNCHANGED <<ended, shut>>

\* A settled call leaves with the answer it was given.
Leave(c) ==
  /\ \/ /\ progress[c] = "granted"
        /\ answer' = [answer EXCEPT ![c] = "passed"]
     \/ /\ progress[c] = "refused"
        /\ answer' = [answer EXCEPT ![c] = "refused"]
  /\ progress' = [progress EXCEPT ![c] = "outside"]
  /\ UNCHANGED <<holder, ended, shut>>

\* The result of a worker is recorded, once, while none of its calls is parked.
End(w) ==
  /\ w \notin ended
  /\ holder[w] = Nil
  /\ ended' = ended \cup {w}
  /\ UNCHANGED <<holder, progress, answer, shut>>

\* Shutting the gate refuses every parked call at once.
Shut ==
  /\ ~shut
  /\ shut' = TRUE
  /\ holder' = [w \in Worker |-> Nil]
  /\ progress' = [c \in Call |-> IF progress[c] = "parked" THEN "refused"
                                                           ELSE progress[c]]
  /\ UNCHANGED <<ended, answer>>

GateNext ==
  \/ \E w \in Worker : \/ \E c \in Call : Park(w, c)
                       \/ Grant(w)
                       \/ Withdraw(w)
                       \/ End(w)
  \/ \E c \in Call : Leave(c)
  \/ Shut

GateSpec == GateInit /\ [][GateNext]_gateVars
============================================================================
