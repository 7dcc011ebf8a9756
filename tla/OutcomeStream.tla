--------------------------- MODULE OutcomeStream ---------------------------
(***************************************************************************)
(* What an adapter promises the orchestrator (internal/sut/sut.go and      *)
(* outcome.go): every invocation has a stream that carries one outcome and *)
(* is then closed, or is closed without one after the session fault was    *)
(* latched; a Stop that succeeds leaves no stream open and no fault, and   *)
(* nothing changes after it.                                               *)
(***************************************************************************)

CONSTANT Invocation

VARIABLES stream,    \* "none", "open", or the way each stream was closed
          faulted,   \* the session fault is latched
          stopped    \* "no", "stopping", "ok" or "error", what Stop returned

streamVars == <<stream, faulted, stopped>>

StreamInit ==
  /\ stream = [i \in Invocation |-> "none"]
  /\ faulted = FALSE
  /\ stopped = "no"

(* Invoke is accepted by a running session without a fault.                  *)
Open(i) ==
  /\ stream[i] = "none" /\ ~faulted /\ stopped = "no"
  /\ stream' = [stream EXCEPT ![i] = "open"]
  /\ UNCHANGED <<faulted, stopped>>

(* One outcome, then closure: the command ran, or provably did not start.    *)
Settle(i) ==
  /\ stream[i] = "open"
  /\ \E o \in {"worker", "unstarted"} : stream' = [stream EXCEPT ![i] = o]
  /\ UNCHANGED <<faulted, stopped>>

(* The outcome is unknown, which the latched fault says.                     *)
Lose(i) ==
  /\ stream[i] = "open" /\ faulted
  /\ stream' = [stream EXCEPT ![i] = "lost"]
  /\ UNCHANGED <<faulted, stopped>>

(* Every fault is published before a Stop succeeds.  The adapter may close    *)
(* streams behind it under the same lock, also one that it opens just then.  *)
Latch ==
  /\ ~faulted /\ stopped # "ok"
  /\ faulted' = TRUE
  /\ \E closing \in SUBSET {i \in Invocation : stream[i] = "open"},
        refused \in SUBSET {i \in Invocation : stream[i] = "none" /\ stopped = "no"} :
       \E end \in [closing -> {"worker", "unstarted", "lost"}] :
         stream' = [i \in Invocation |-> IF i \in closing THEN end[i]
                                        ELSE IF i \in refused THEN "lost" ELSE stream[i]]
  /\ UNCHANGED stopped

BeginStop ==
  /\ stopped = "no"
  /\ stopped' = "stopping"
  /\ UNCHANGED <<stream, faulted>>

StopSucceeds ==
  /\ stopped = "stopping" /\ ~faulted
  /\ \A i \in Invocation : stream[i] # "open"
  /\ stopped' = "ok"
  /\ UNCHANGED <<stream, faulted>>

StopFails ==
  /\ stopped = "stopping"
  /\ stopped' = "error"
  /\ UNCHANGED <<stream, faulted>>

StreamNext ==
  \/ \E i \in Invocation : Open(i) \/ Settle(i) \/ Lose(i)
  \/ Latch \/ BeginStop \/ StopSucceeds \/ StopFails

StreamSpec == StreamInit /\ [][StreamNext]_streamVars
============================================================================
