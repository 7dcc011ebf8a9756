------------------------------ MODULE GoNative ------------------------------
(***************************************************************************)
(* The Go-native adapter of internal/sut/gonative/gonative.go.             *)
(*                                                                         *)
(* An invocation is one activeWorker object with its goroutines            *)
(* startWorker and watchParent; Stop is called once, by the cleanup of     *)
(* Run.  The critical sections of the adapter mutex and of each worker     *)
(* mutex are the actions.  All invocations have the execution context as   *)
(* parent.                                                                 *)
(*                                                                         *)
(* Connections, commands and the closing of connections are external: each *)
(* may take forever, fail, or (a command) report anything.                 *)
(***************************************************************************)
EXTENDS FiniteSets

CONSTANTS Invocation,  \* activeWorker objects
          Worker,      \* worker IDs
          Nil

ASSUME NilAssumption ==
  Nil \notin Worker \cup {"parent", "wakeup", "worker", "unstarted"}

VARIABLES
  session,    \* adapter.state
  fault,      \* adapter.faults is latched
  parentDone, \* the parent context of all invocations is canceled
  worker,     \* workerID of each invocation, Nil before Invoke
  phase,      \* where startWorker is
  conn,       \* the invocation holds a database connection
  cause,      \* activeWorker.cancelErr
  cleanup,    \* activeWorker.cleanupErr is set
  outcome,    \* what the result stream carries or will carry
  stop        \* the call of Stop: position, workers to ask and to wait for

vars == <<session, fault, parentDone, worker, phase, conn, cause, cleanup,
          outcome, stop>>

Unfinished == {i \in Invocation : phase[i] \notin {"none", "complete"}}

(* Fault: the ID is free again as soon as the command has returned.          *)
Active_UntilReturn(w) ==
  \E i \in Unfinished : worker[i] = w /\ phase[i] \notin {"faulting", "completing"}

(* adapter.active: the ID is taken until the stream is closed.               *)
Active(w) == \E i \in Unfinished : worker[i] = w

Init ==
  /\ session = "new" /\ fault = FALSE /\ parentDone = FALSE
  /\ worker = [i \in Invocation |-> Nil]
  /\ phase = [i \in Invocation |-> "none"]
  /\ conn = [i \in Invocation |-> FALSE]
  /\ cause = [i \in Invocation |-> Nil]
  /\ cleanup = [i \in Invocation |-> FALSE]
  /\ outcome = [i \in Invocation |-> Nil]
  /\ stop = [pc |-> "idle", ask |-> {}, await |-> {}, failed |-> FALSE]

-----------------------------------------------------------------------------
Start ==
  /\ session = "new"
  /\ session' = "started"
  /\ UNCHANGED <<fault, parentDone, worker, phase, conn, cause, cleanup, outcome,
                 stop>>

(* The parent context is looked at before the lock, so it may have ended by  *)
(* the time the invocation is recorded.                                      *)
Invoke(i, w) ==
  /\ phase[i] = "none"
  /\ session = "started" /\ ~fault /\ ~Active(w)
  /\ worker' = [worker EXCEPT ![i] = w]
  /\ phase' = [phase EXCEPT ![i] = "connecting"]
  /\ UNCHANGED <<session, fault, parentDone, conn, cause, cleanup, outcome, stop>>

-----------------------------------------------------------------------------
(* requestCancel, requestStop, accept and finishWithoutOutcome all record the *)
(* first cause of cancellation and no later one.                             *)

ParentCause == IF parentDone THEN "parent" ELSE "wakeup"

Canceled(i, why) == [cause EXCEPT ![i] = IF @ = Nil THEN why ELSE @]

WatchParent(i) ==
  /\ i \in Unfinished /\ parentDone /\ cause[i] = Nil
  /\ cause' = Canceled(i, "parent")
  /\ UNCHANGED <<session, fault, parentDone, worker, phase, conn, cleanup, outcome,
                 stop>>

-----------------------------------------------------------------------------
(* startWorker and runWorker.                                                 *)

Moves(i, to) == phase' = [phase EXCEPT ![i] = to]

(* db.Conn returns a connection, although the context may have ended.        *)
Connect(i) ==
  /\ phase[i] = "connecting"
  /\ Moves(i, "entering")
  /\ conn' = [conn EXCEPT ![i] = TRUE]
  /\ UNCHANGED <<session, fault, parentDone, worker, cause, cleanup, outcome, stop>>

ConnectFails(i) ==
  /\ phase[i] = "connecting"
  /\ cause' = Canceled(i, ParentCause)
  /\ outcome' = [outcome EXCEPT ![i] = "unstarted"]
  /\ Moves(i, "completing")
  /\ UNCHANGED <<session, fault, parentDone, worker, conn, cleanup, stop>>

(* accept: the command is entered unless cancellation came first.            *)
Accept(i) ==
  /\ phase[i] = "entering"
  /\ cause[i] = Nil /\ ~parentDone
  /\ Moves(i, "running")
  /\ UNCHANGED <<session, fault, parentDone, worker, conn, cause, cleanup, outcome,
                 stop>>

(* Returning the connection works or not, and cleanup remembers that.         *)
CloseConnection(i) ==
  \E returned \in BOOLEAN :
    /\ conn' = [conn EXCEPT ![i] = ~returned]
    /\ cleanup' = [cleanup EXCEPT ![i] = ~returned]

AcceptRefused(i) ==
  /\ phase[i] = "entering"
  /\ cause[i] # Nil \/ parentDone
  /\ cause' = Canceled(i, "parent")
  /\ CloseConnection(i)
  /\ IF cleanup'[i]
       THEN Moves(i, "faulting") /\ UNCHANGED outcome
       ELSE Moves(i, "completing") /\ outcome' = [outcome EXCEPT ![i] = "unstarted"]
  /\ UNCHANGED <<session, fault, parentDone, worker, stop>>

(* The command reports a transaction that was settled: its result is known    *)
(* and is published if the connection was returned, whatever was canceled.    *)
CommandSettled(i) ==
  /\ phase[i] = "running"
  /\ CloseConnection(i)
  /\ IF cleanup'[i]
       THEN /\ cause' = Canceled(i, ParentCause)
            /\ Moves(i, "faulting")
            /\ UNCHANGED outcome
       ELSE /\ outcome' = [outcome EXCEPT ![i] = "worker"]
            /\ Moves(i, "completing")
            /\ UNCHANGED cause
  /\ UNCHANGED <<session, fault, parentDone, worker, stop>>

(* It reports that no transaction began, and why.                            *)
CommandUnstarted(i) ==
  /\ phase[i] = "running"
  /\ cause' = Canceled(i, ParentCause)
  /\ CloseConnection(i)
  /\ IF cleanup'[i]
       THEN Moves(i, "faulting") /\ UNCHANGED outcome
       ELSE Moves(i, "completing") /\ outcome' = [outcome EXCEPT ![i] = "unstarted"]
  /\ UNCHANGED <<session, fault, parentDone, worker, stop>>

(* It reports a transaction of unknown end, one that ended but never began,   *)
(* or none without a reason: nothing can be said of this invocation.         *)
CommandUnknown(i) ==
  /\ phase[i] = "running"
  /\ cause' = Canceled(i, ParentCause)
  /\ CloseConnection(i)
  /\ Moves(i, "faulting")
  /\ UNCHANGED <<session, fault, parentDone, worker, outcome, stop>>

(* Fault: the stream is closed before the fault is latched.                  *)
FailSession_Late(i) ==
  /\ phase[i] = "faulting"
  /\ Moves(i, "completing")
  /\ UNCHANGED <<session, fault, parentDone, worker, conn, cause, cleanup, outcome,
                 stop>>

(* failSession                                                               *)
FailSession(i) ==
  /\ phase[i] = "faulting"
  /\ fault' = TRUE
  /\ Moves(i, "completing")
  /\ UNCHANGED <<session, parentDone, worker, conn, cause, cleanup, outcome, stop>>

(* completeWorker: publish, close the stream, signal Stop and free the ID.    *)
CompleteWorker(i) ==
  /\ phase[i] = "completing"
  /\ cause' = Canceled(i, "wakeup")
  /\ Moves(i, "complete")
  /\ UNCHANGED <<session, fault, parentDone, worker, conn, cleanup, outcome, stop>>

WorkerStep(i) ==
  \/ Connect(i) \/ ConnectFails(i) \/ Accept(i) \/ AcceptRefused(i)
  \/ FailSession(i) \/ CompleteWorker(i)

CommandReturns(i) == CommandSettled(i) \/ CommandUnstarted(i) \/ CommandUnknown(i)

-----------------------------------------------------------------------------
(* Stop.                                                                      *)

BeginStop ==
  /\ stop.pc = "idle"
  /\ session' = "stopped"
  /\ stop' = [stop EXCEPT !.pc = "asking", !.ask = Unfinished, !.await = Unfinished]
  /\ UNCHANGED <<fault, parentDone, worker, phase, conn, cause, cleanup, outcome>>

(* Fault: Stop cancels with its own cause whatever happened to the run.       *)
AskToStop_Generic(i) ==
  /\ stop.pc = "asking" /\ i \in stop.ask
  /\ cause' = Canceled(i, "wakeup")
  /\ stop' = [stop EXCEPT !.ask = @ \ {i}]
  /\ UNCHANGED <<session, fault, parentDone, worker, phase, conn, cleanup, outcome>>

(* requestStop keeps a run failure that is already observable as the cause.   *)
AskToStop(i) ==
  /\ stop.pc = "asking" /\ i \in stop.ask
  /\ cause' = Canceled(i, ParentCause)
  /\ stop' = [stop EXCEPT !.ask = @ \ {i}]
  /\ UNCHANGED <<session, fault, parentDone, worker, phase, conn, cleanup, outcome>>

AskedAll ==
  /\ stop.pc = "asking" /\ stop.ask = {}
  /\ stop' = [stop EXCEPT !.pc = "waiting"]
  /\ UNCHANGED <<session, fault, parentDone, worker, phase, conn, cause, cleanup,
                 outcome>>

StopCollects(i) ==
  /\ stop.pc = "waiting" /\ i \in stop.await /\ phase[i] = "complete"
  /\ stop' = [stop EXCEPT !.await = @ \ {i}, !.failed = @ \/ cleanup[i]]
  /\ UNCHANGED <<session, fault, parentDone, worker, phase, conn, cause, cleanup,
                 outcome>>

(* The deadline of Stop may pass while a worker is waited for.               *)
StopExpires ==
  /\ stop.pc = "waiting" /\ stop.await # {}
  /\ stop' = [stop EXCEPT !.pc = "error"]
  /\ UNCHANGED <<session, fault, parentDone, worker, phase, conn, cause, cleanup,
                 outcome>>

StopReturns ==
  /\ stop.pc = "waiting" /\ stop.await = {}
  /\ stop' = [stop EXCEPT !.pc = IF fault \/ stop.failed THEN "error" ELSE "ok"]
  /\ UNCHANGED <<session, fault, parentDone, worker, phase, conn, cause, cleanup,
                 outcome>>

StopStep ==
  \/ BeginStop \/ AskedAll \/ StopExpires \/ StopReturns
  \/ \E i \in Invocation : AskToStop(i) \/ StopCollects(i)

(* The run fails, times out or is canceled.                                  *)
CancelParent ==
  /\ ~parentDone
  /\ parentDone' = TRUE
  /\ UNCHANGED <<session, fault, worker, phase, conn, cause, cleanup, outcome, stop>>

Next ==
  \/ Start \/ StopStep \/ CancelParent
  \/ \E i \in Invocation, w \in Worker : Invoke(i, w)
  \/ \E i \in Invocation : WatchParent(i) \/ WorkerStep(i) \/ CommandReturns(i)

Spec == Init /\ [][Next]_vars

(* What goes on by itself, each a thread of its own: goroutines are          *)
(* scheduled, db.Conn returns once its context has ended, and the deadline of *)
(* Stop passes.  A command may run forever.                                  *)
StopGoesOn ==
  \/ AskedAll \/ StopExpires \/ StopReturns
  \/ \E i \in Invocation : AskToStop(i) \/ StopCollects(i)

ConnectGoesOn(i) == cause[i] # Nil /\ (Connect(i) \/ ConnectFails(i))

InvocationGoesOn(i) ==
  Accept(i) \/ AcceptRefused(i) \/ FailSession(i) \/ CompleteWorker(i)

-----------------------------------------------------------------------------
(* The fields keep their shape.  Only an invocation that is cleaning up has  *)
(* an outcome, and one that has ended released its context.                  *)
TypeOK ==
  /\ session \in {"new", "started", "stopped"}
  /\ fault \in BOOLEAN /\ parentDone \in BOOLEAN
  /\ worker \in [Invocation -> Worker \cup {Nil}]
  /\ phase \in [Invocation -> {"none", "connecting", "entering", "running", "faulting",
                               "completing", "complete"}]
  /\ conn \in [Invocation -> BOOLEAN]
  /\ cause \in [Invocation -> {Nil, "parent", "wakeup"}]
  /\ cleanup \in [Invocation -> BOOLEAN]
  /\ outcome \in [Invocation -> {Nil, "worker", "unstarted"}]
  /\ stop \in [pc : {"idle", "asking", "waiting", "ok", "error"},
              ask : SUBSET Invocation, await : SUBSET Invocation, failed : BOOLEAN]
  /\ \A i \in Invocation :
       /\ phase[i] = "none" <=> worker[i] = Nil
       /\ outcome[i] # Nil => phase[i] \in {"completing", "complete"}
       /\ phase[i] = "complete" => cause[i] # Nil

(* The adapter keeps the contract of internal/sut.                           *)
StreamOf ==
  [i \in Invocation |-> IF phase[i] = "none" THEN "none"
                        ELSE IF phase[i] # "complete" THEN "open"
                        ELSE IF outcome[i] = Nil THEN "lost" ELSE outcome[i]]

StopAnswer ==
  IF stop.pc = "idle" THEN "no"
  ELSE IF stop.pc \in {"asking", "waiting"} THEN "stopping" ELSE stop.pc

Stream == INSTANCE OutcomeStream WITH
            stream <- StreamOf, faulted <- fault, stopped <- StopAnswer

(* Each stream carries one outcome or, after the fault, none; a Stop that    *)
(* succeeds vouches for all of them, however it races with completions.      *)
ImplementsStream == Stream!StreamSpec

(* An outcome is only published when everything the invocation acquired was  *)
(* returned, and a Stop that succeeded leaves no connection behind.          *)
NothingHeld ==
  /\ \A i \in Invocation : outcome[i] # Nil => ~conn[i]
  /\ stop.pc = "ok" => \A i \in Invocation : ~conn[i]

(* The ID of a worker is used again only after its previous invocation has   *)
(* closed its stream.                                                        *)
OneInvocationPerWorker ==
  \A i, j \in Unfinished : worker[i] = worker[j] => i = j

(* The accounting of the session: a worker is reused only after its stream    *)
(* was closed, and no connection outlives the outcome or a successful Stop.   *)
InvocationsKept == TypeOK /\ NothingHeld /\ OneInvocationPerWorker

(* Once the run has failed, cleanup's own wakeup never replaces that cause:  *)
(* only an invocation that publishes the result of its command records it.   *)
RunFailureIsTheCause ==
  [][\A i \in Invocation :
       parentDone /\ cause[i] = Nil /\ cause'[i] = "wakeup" => outcome[i] = "worker"]_vars

(* No invocation is left that was canceled, by the parent or by Stop, unless  *)
(* its command runs on; and no Stop is under way.                            *)
Settled ==
  /\ stop.pc \in {"idle", "ok", "error"}
  /\ \A i \in Unfinished :
       phase[i] = "running" \/ (~parentDone /\ stop.pc = "idle")
=============================================================================
