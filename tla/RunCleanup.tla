----------------------------- MODULE RunCleanup -----------------------------
(***************************************************************************)
(* Orchestrator.Run of internal/orchestrator/run.go around the execution   *)
(* of a schedule: the run gate, the fixture's quarantine, the collectors   *)
(* of outcome.go with their read budget, the deferred cleanup and the      *)
(* errors it joins.                                                        *)
(*                                                                         *)
(* Several callers run on one orchestrator.  execute itself is the module  *)
(* Coordinator; here it invokes workers and ends, well or with an error.   *)
(* The adapter does what OutcomeStream allows, and its streams publish and *)
(* close in two steps; the runtime accepts every result (RecordsFit of     *)
(* Coordinator).  The fixture, the adapter's start and the Oracle are      *)
(* external and may fail at will.                                          *)
(***************************************************************************)
EXTENDS Naturals

CONSTANTS Run,     \* calls of Run
          Worker,  \* the scenario's workers
          Nil

ASSUME NilAssumption == Nil \notin {"worker", "unstarted"}

VARIABLES
  gate,        \* runGate holds its token
  quarantined, \* the fixture refuses to be reset
  pc,          \* where each run is
  ctx,         \* what has ended: 0 nothing, 1 execution, 2 run, 3 operation
  errs,        \* causes joined in returnErr
  evidence,    \* result.Evaluation and Fingerprint are set
  rebuild,     \* coordinator.rebuildCollectionErrors
  adapter,     \* "none", "created" or "started"
  fault,       \* the session fault of each run's adapter
  stopped,     \* what Stop returned
  published,   \* the outcome each stream carries
  shut,        \* the stream is closed
  coll,        \* the collector of each worker
  collDone,    \* the collectors' context is canceled
  budget,      \* readyReadsAfterCancel
  got,         \* the outcome each collector read
  collErr      \* the collector's value carries an error

runVars == <<gate, quarantined, pc, errs, evidence, rebuild, adapter, stopped, collDone>>
sutVars == <<fault, published, shut>>
collVars == <<coll, budget, got, collErr>>
vars == <<runVars, ctx, sutVars, collVars>>

RW == Run \X Worker

ReadBudget == 2

Init ==
  /\ gate = TRUE /\ quarantined = FALSE
  /\ pc = [r \in Run |-> "gate"]
  /\ ctx = [r \in Run |-> 0]
  /\ errs = [r \in Run |-> {}]
  /\ evidence = [r \in Run |-> FALSE]
  /\ rebuild = [r \in Run |-> FALSE]
  /\ adapter = [r \in Run |-> "none"]
  /\ fault = [r \in Run |-> FALSE]
  /\ stopped = [r \in Run |-> "no"]
  /\ published = [x \in RW |-> Nil]
  /\ shut = [x \in RW |-> FALSE]
  /\ coll = [x \in RW |-> "none"]
  /\ collDone = [r \in Run |-> FALSE]
  /\ budget = [x \in RW |-> ReadBudget]
  /\ got = [x \in RW |-> Nil]
  /\ collErr = [x \in RW |-> FALSE]

-----------------------------------------------------------------------------
Go(r, to) == pc' = [pc EXCEPT ![r] = to]
Join(r, causes) == errs' = [errs EXCEPT ![r] = @ \cup causes]
If(condition, cause) == IF condition THEN {cause} ELSE {}

(* Contexts end from the execution outwards, and stay ended.                 *)
Ended(r, level) == ctx' = [ctx EXCEPT ![r] = IF @ < level THEN level ELSE @]

InvokedOf(r) == {w \in Worker : coll[<<r, w>>] # "none"}
OpenOf(r) == {w \in InvokedOf(r) : ~shut[<<r, w>>]}

CallerCancels(r) ==
  /\ pc[r] # "returned" /\ ctx[r] < 3
  /\ Ended(r, 3)
  /\ UNCHANGED <<runVars, sutVars, collVars>>

RunTimesOut(r) ==
  /\ pc[r] \notin {"gate", "leaving", "returned"} /\ ctx[r] < 2
  /\ Ended(r, 2)
  /\ UNCHANGED <<runVars, sutVars, collVars>>

-----------------------------------------------------------------------------
(* Waiting for the active run, and the steps before execution.                *)

GateCanceled(r) ==
  /\ pc[r] = "gate" /\ ctx[r] = 3
  /\ Join(r, {"op"}) /\ Go(r, "returned")
  /\ UNCHANGED <<gate, quarantined, evidence, rebuild, adapter, stopped, collDone,
                 ctx, sutVars, collVars>>

TakeGate(r) ==
  /\ pc[r] = "gate" /\ gate
  /\ gate' = FALSE
  /\ Go(r, "reset")
  /\ UNCHANGED <<quarantined, errs, evidence, rebuild, adapter, stopped, collDone,
                 ctx, sutVars, collVars>>

(* The fixture refuses when it is quarantined.                               *)
Reset(r) ==
  /\ pc[r] = "reset" /\ ~quarantined
  /\ Go(r, "create")
  /\ UNCHANGED <<gate, quarantined, errs, evidence, rebuild, adapter, stopped,
                 collDone, ctx, sutVars, collVars>>

(* Input, readiness, reset or the first trace event fails: there is nothing   *)
(* to clean up yet.                                                          *)
ResetFails(r) ==
  /\ pc[r] = "reset"
  /\ Join(r, {"setup"}) /\ Go(r, "boundary")
  /\ UNCHANGED <<gate, quarantined, evidence, rebuild, adapter, stopped, collDone,
                 ctx, sutVars, collVars>>

Create(r) ==
  /\ pc[r] = "create"
  /\ adapter' = [adapter EXCEPT ![r] = "created"]
  /\ Go(r, "start")
  /\ UNCHANGED <<gate, quarantined, errs, evidence, rebuild, stopped, collDone, ctx,
                 sutVars, collVars>>

Start(r) ==
  /\ pc[r] = "start"
  /\ adapter' = [adapter EXCEPT ![r] = "started"]
  /\ Go(r, "execute")
  /\ UNCHANGED <<gate, quarantined, errs, evidence, rebuild, stopped, collDone, ctx,
                 sutVars, collVars>>

SetupFails(r) ==
  /\ pc[r] \in {"create", "start"}
  /\ Join(r, {"setup"}) /\ Go(r, "cleanup")
  /\ UNCHANGED <<gate, quarantined, evidence, rebuild, adapter, stopped, collDone,
                 ctx, sutVars, collVars>>

-----------------------------------------------------------------------------
(* execute, and the evaluation of its result.                                 *)

(* A worker is invoked and its collector started.                            *)
Invoke(r, w) ==
  /\ pc[r] = "execute" /\ coll[<<r, w>>] = "none"
  /\ ~fault[r]
  /\ coll' = [coll EXCEPT ![<<r, w>>] = "reading"]
  /\ UNCHANGED <<runVars, ctx, sutVars, budget, got, collErr>>

Vouched(r, w) == coll[<<r, w>>] = "done" /\ got[<<r, w>>] = "worker" /\ ~collErr[<<r, w>>]

Execute(r) ==
  /\ pc[r] = "execute"
  /\ \A w \in Worker : Vouched(r, w)
  /\ Go(r, "evaluate")
  /\ UNCHANGED <<gate, quarantined, errs, evidence, rebuild, adapter, stopped,
                 collDone, ctx, sutVars, collVars>>

(* The execution is woken up: its context ended.                             *)
ExecuteWoken(r) ==
  /\ pc[r] = "execute" /\ ctx[r] > 0
  /\ Join(r, {"wakeup"}) /\ rebuild' = [rebuild EXCEPT ![r] = TRUE]
  /\ Go(r, "cleanup")
  /\ UNCHANGED <<gate, quarantined, evidence, adapter, stopped, collDone, ctx, sutVars,
                 collVars>>

(* It finds an error in the value of a collector.                            *)
ExecuteUncollected(r) ==
  /\ pc[r] = "execute"
  /\ \E w \in Worker : coll[<<r, w>>] = "done" /\ collErr[<<r, w>>]
  /\ Join(r, {"collector"}) /\ rebuild' = [rebuild EXCEPT ![r] = TRUE]
  /\ Go(r, "cleanup")
  /\ UNCHANGED <<gate, quarantined, evidence, adapter, stopped, collDone, ctx, sutVars,
                 collVars>>

(* It fails on its own.                                                      *)
ExecuteFails(r) ==
  /\ pc[r] = "execute"
  /\ Join(r, {"execute"}) /\ Go(r, "cleanup")
  /\ UNCHANGED <<gate, quarantined, evidence, rebuild, adapter, stopped, collDone, ctx,
                 sutVars, collVars>>

(* The checks before and after the Oracle's evaluation.                      *)
Evaluate(r) ==
  /\ pc[r] = "evaluate"
  /\ \/ /\ ~fault[r] /\ ctx[r] < 2
        /\ evidence' = [evidence EXCEPT ![r] = TRUE] /\ errs' = errs
     \/ fault[r] /\ Join(r, {"fault"}) /\ UNCHANGED evidence
     \/ ctx[r] >= 2 /\ Join(r, {"ctx"}) /\ UNCHANGED evidence
     \/ Join(r, {"oracle"}) /\ UNCHANGED evidence
  /\ Go(r, "cleanup")
  /\ UNCHANGED <<gate, quarantined, rebuild, adapter, stopped, collDone, ctx, sutVars,
                 collVars>>

(* A fault that is latched when the session starts ends the run at once.     *)
FaultAtStart(r) ==
  /\ pc[r] = "execute" /\ fault[r] /\ InvokedOf(r) = {}
  /\ Join(r, {"fault"}) /\ Go(r, "cleanup")
  /\ UNCHANGED <<gate, quarantined, evidence, rebuild, adapter, stopped, collDone,
                 ctx, sutVars, collVars>>

(* watchSessionFaults wakes the execution up.                                *)
WatcherCancels(r) ==
  /\ pc[r] \in {"execute", "evaluate", "cleanup", "stopping", "joining"}
  /\ adapter[r] = "started" /\ fault[r] /\ ctx[r] = 0
  /\ Ended(r, 1)
  /\ UNCHANGED <<runVars, sutVars, collVars>>

-----------------------------------------------------------------------------
(* The deferred cleanup.                                                      *)

(* A failed run aborts its commands before Stop, a successful one does not;   *)
(* the collectors outlive Stop in both cases.                                *)
BeginCleanup(r) ==
  /\ pc[r] = "cleanup"
  /\ IF errs[r] # {} THEN Ended(r, 1) ELSE ctx' = ctx
  /\ IF adapter[r] = "none"
       THEN Go(r, "joining") /\ collDone' = [collDone EXCEPT ![r] = TRUE]
       ELSE Go(r, "stopping") /\ UNCHANGED collDone
  /\ UNCHANGED <<gate, quarantined, errs, evidence, rebuild, adapter, stopped, sutVars,
                 collVars>>

(* Stop succeeds by its contract, or fails, at the latest at its deadline.   *)
Stop(r) ==
  /\ pc[r] = "stopping"
  /\ \/ /\ OpenOf(r) = {} /\ ~fault[r]
        /\ stopped' = [stopped EXCEPT ![r] = "ok"]
     \/ stopped' = [stopped EXCEPT ![r] = "error"]
  /\ collDone' = [collDone EXCEPT ![r] = TRUE]
  /\ Go(r, "joining")
  /\ UNCHANGED <<gate, quarantined, errs, evidence, rebuild, adapter, ctx, sutVars,
                 collVars>>

CollectionFailed(r) == \E w \in Worker : collErr[<<r, w>>]

(* Fault: the errors of the collectors always replace the error of the run.  *)
JoinCollectors_Replaces(r) ==
  /\ pc[r] = "joining"
  /\ \A w \in Worker : coll[<<r, w>>] \in {"none", "done"}
  /\ errs' = [errs EXCEPT ![r] =
       (IF CollectionFailed(r) THEN {"collector"} ELSE @)
         \cup If(stopped[r] = "error", "stop")]
  /\ Go(r, "closing")
  /\ UNCHANGED <<gate, quarantined, evidence, rebuild, adapter, stopped, collDone,
                 ctx, sutVars, collVars>>

(* Fault: what the collectors know is joined to woken up executions only.    *)
JoinCollectors_Deaf(r) ==
  /\ pc[r] = "joining"
  /\ \A w \in Worker : coll[<<r, w>>] \in {"none", "done"}
  /\ errs' = [errs EXCEPT ![r] =
       (IF rebuild[r] /\ CollectionFailed(r) THEN {"collector"} ELSE @)
         \cup If(stopped[r] = "error", "stop")]
  /\ Go(r, "closing")
  /\ UNCHANGED <<gate, quarantined, evidence, rebuild, adapter, stopped, collDone,
                 ctx, sutVars, collVars>>

(* collectorsWait and finalizeEvidence.  The error of an execution that was   *)
(* only woken up is rebuilt from what the collectors know.                   *)
JoinCollectors(r) ==
  /\ pc[r] = "joining"
  /\ \A w \in Worker : coll[<<r, w>>] \in {"none", "done"}
  /\ errs' = [errs EXCEPT ![r] =
       (IF rebuild[r] /\ CollectionFailed(r)
          THEN {"collector"} ELSE @ \cup If(CollectionFailed(r), "collector"))
         \cup If(stopped[r] = "error", "stop")]
  /\ Go(r, "closing")
  /\ UNCHANGED <<gate, quarantined, evidence, rebuild, adapter, stopped, collDone,
                 ctx, sutVars, collVars>>

(* Only a session that was started shows its faults.                         *)
FaultSeen(r) == adapter[r] = "started" /\ fault[r]

(* Fault: only session faults quarantine the fixture.                        *)
CloseRuntime_FaultsOnly(r) ==
  /\ pc[r] = "closing"
  /\ Join(r, If(FaultSeen(r), "fault"))
  /\ quarantined' = (quarantined \/ FaultSeen(r))
  /\ Go(r, "boundary")
  /\ UNCHANGED <<gate, evidence, rebuild, adapter, stopped, collDone, ctx, sutVars,
                 collVars>>

(* The runtime is closed, the watcher stopped, and then the faults are read:  *)
(* a database that a session may still use is never reset again.             *)
CloseRuntime(r) ==
  /\ pc[r] = "closing"
  /\ Join(r, If(FaultSeen(r), "fault"))
  /\ quarantined' = (quarantined \/ FaultSeen(r) \/ stopped[r] = "error")
  /\ Go(r, "boundary")
  /\ UNCHANGED <<gate, evidence, rebuild, adapter, stopped, collDone, ctx, sutVars,
                 collVars>>

(* The run context is observed, and the gate given back.                     *)
Boundary(r) ==
  /\ pc[r] = "boundary"
  /\ Join(r, If(ctx[r] >= 2, "ctx"))
  /\ gate' = TRUE
  /\ Go(r, "leaving")
  /\ UNCHANGED <<quarantined, evidence, rebuild, adapter, stopped, collDone, ctx,
                 sutVars, collVars>>

(* The operation context is observed; an error takes the evaluation away.    *)
Leave(r) ==
  /\ pc[r] = "leaving"
  /\ Join(r, If(ctx[r] = 3, "op"))
  /\ evidence' = [evidence EXCEPT ![r] = @ /\ errs'[r] = {}]
  /\ Go(r, "returned")
  /\ UNCHANGED <<gate, quarantined, rebuild, adapter, stopped, collDone, ctx, sutVars,
                 collVars>>

-----------------------------------------------------------------------------
(* collectInvocation and receiveOutcome.                                      *)

(* A ready stream is read; after cancellation this costs one of the reads.   *)
CanRead(r, w) == ~collDone[r] \/ budget[<<r, w>>] > 0
Left(r, w) == IF collDone[r] THEN budget[<<r, w>>] - 1 ELSE budget[<<r, w>>]

(* Fault: the budget is not cut down to the probe once an outcome is known.  *)
ReadOutcome_FullBudget(r, w) ==
  /\ coll[<<r, w>>] = "reading" /\ published[<<r, w>>] # Nil /\ CanRead(r, w)
  /\ got' = [got EXCEPT ![<<r, w>>] = published[<<r, w>>]]
  /\ budget' = [budget EXCEPT ![<<r, w>>] = Left(r, w)]
  /\ collErr' = [collErr EXCEPT ![<<r, w>>] = published[<<r, w>>] = "unstarted"]
  /\ IF collErr'[<<r, w>>] THEN Ended(r, 1) ELSE ctx' = ctx
  /\ coll' = [coll EXCEPT ![<<r, w>>] = "probing"]
  /\ UNCHANGED <<runVars, sutVars>>

ReadOutcome(r, w) ==
  /\ coll[<<r, w>>] = "reading" /\ published[<<r, w>>] # Nil /\ CanRead(r, w)
  /\ got' = [got EXCEPT ![<<r, w>>] = published[<<r, w>>]]
  /\ budget' = [budget EXCEPT ![<<r, w>>] = IF Left(r, w) > 1 THEN 1 ELSE Left(r, w)]
  /\ collErr' = [collErr EXCEPT ![<<r, w>>] = published[<<r, w>>] = "unstarted"]
  /\ IF collErr'[<<r, w>>] THEN Ended(r, 1) ELSE ctx' = ctx
  /\ coll' = [coll EXCEPT ![<<r, w>>] = "probing"]
  /\ UNCHANGED <<runVars, sutVars>>

(* A stream that is closed without an outcome is an error.                   *)
ReadClosure(r, w) ==
  /\ \/ coll[<<r, w>>] = "probing"
     \/ coll[<<r, w>>] = "reading" /\ published[<<r, w>>] = Nil
  /\ shut[<<r, w>>] /\ CanRead(r, w)
  /\ budget' = [budget EXCEPT ![<<r, w>>] = Left(r, w)]
  /\ collErr' = [collErr EXCEPT ![<<r, w>>] = @ \/ coll[<<r, w>>] = "reading"]
  /\ IF collErr'[<<r, w>>] THEN Ended(r, 1) ELSE ctx' = ctx
  /\ coll' = [coll EXCEPT ![<<r, w>>] = "done"]
  /\ UNCHANGED <<runVars, sutVars, got>>

Ready(r, w) ==
  shut[<<r, w>>] \/ (coll[<<r, w>>] = "reading" /\ published[<<r, w>>] # Nil)

(* Fault: the end of the collectors' context is not noticed.                 *)
GiveUp_Never(r, w) == FALSE

(* After cancellation a stream that is not ready, or was read often enough,   *)
(* is given up.                                                              *)
GiveUp(r, w) ==
  /\ coll[<<r, w>>] \in {"reading", "probing"} /\ collDone[r]
  /\ budget[<<r, w>>] = 0 \/ ~Ready(r, w)
  /\ collErr' = [collErr EXCEPT ![<<r, w>>] = TRUE]
  /\ Ended(r, 1)
  /\ coll' = [coll EXCEPT ![<<r, w>>] = "done"]
  /\ UNCHANGED <<runVars, sutVars, budget, got>>

CollectorStep(r, w) == ReadOutcome(r, w) \/ ReadClosure(r, w) \/ GiveUp(r, w)

-----------------------------------------------------------------------------
(* The session, as OutcomeStream allows it: also after a Stop that failed,    *)
(* and after Run returned.                                                   *)

Publish(r, w) ==
  /\ w \in OpenOf(r) /\ published[<<r, w>>] = Nil
  /\ \E o \in {"worker", "unstarted"} : published' = [published EXCEPT ![<<r, w>>] = o]
  /\ UNCHANGED <<runVars, ctx, fault, shut, collVars>>

Shut(r, w) ==
  /\ w \in OpenOf(r) /\ (published[<<r, w>>] # Nil \/ fault[r])
  /\ shut' = [shut EXCEPT ![<<r, w>>] = TRUE]
  /\ UNCHANGED <<runVars, ctx, fault, published, collVars>>

Latch(r) ==
  /\ adapter[r] = "started" /\ ~fault[r] /\ stopped[r] # "ok"
  /\ fault' = [fault EXCEPT ![r] = TRUE]
  /\ UNCHANGED <<runVars, ctx, published, shut, collVars>>

-----------------------------------------------------------------------------
RunStep(r) ==
  \/ GateCanceled(r) \/ TakeGate(r)
  \/ Reset(r) \/ ResetFails(r) \/ Create(r) \/ Start(r) \/ SetupFails(r)
  \/ Execute(r) \/ ExecuteWoken(r) \/ ExecuteUncollected(r)
  \/ FaultAtStart(r) \/ Evaluate(r)
  \/ BeginCleanup(r) \/ Stop(r) \/ JoinCollectors(r) \/ CloseRuntime(r)
  \/ Boundary(r) \/ Leave(r)

Next ==
  \E r \in Run :
    \/ RunStep(r) \/ ExecuteFails(r) \/ WatcherCancels(r)
    \/ CallerCancels(r) \/ RunTimesOut(r) \/ Latch(r)
    \/ \E w \in Worker :
         Invoke(r, w) \/ CollectorStep(r, w) \/ Publish(r, w) \/ Shut(r, w)

Spec == Init /\ [][Next]_vars

-----------------------------------------------------------------------------
Phase == {"gate", "reset", "create", "start", "execute", "evaluate", "cleanup",
          "stopping", "joining", "closing", "boundary", "leaving", "returned"}
Cause == {"op", "setup", "wakeup", "collector", "execute", "fault", "ctx", "oracle",
          "stop"}

(* The variables have their types, and a collector that probes for the        *)
(* closure has one read left at most (outcome.go:126-130).                    *)
TypeOK ==
  /\ gate \in BOOLEAN /\ quarantined \in BOOLEAN
  /\ pc \in [Run -> Phase] /\ ctx \in [Run -> 0..3]
  /\ errs \in [Run -> SUBSET Cause]
  /\ evidence \in [Run -> BOOLEAN] /\ rebuild \in [Run -> BOOLEAN]
  /\ adapter \in [Run -> {"none", "created", "started"}]
  /\ fault \in [Run -> BOOLEAN] /\ stopped \in [Run -> {"no", "ok", "error"}]
  /\ published \in [RW -> {Nil, "worker", "unstarted"}]
  /\ shut \in [RW -> BOOLEAN]
  /\ coll \in [RW -> {"none", "reading", "probing", "done"}]
  /\ collDone \in [Run -> BOOLEAN] /\ budget \in [RW -> 0..ReadBudget]
  /\ got \in [RW -> {Nil, "worker", "unstarted"}]
  /\ collErr \in [RW -> BOOLEAN]
  /\ \A x \in RW : coll[x] = "probing" => budget[x] <= 1

HoldsGate(r) == pc[r] \notin {"gate", "leaving", "returned"}

(* One run at a time is inside, and the gate is free exactly when none is:    *)
(* no path of Run loses the token or gives it back twice (run.go:113-120).    *)
OneRunAtATime ==
  /\ \A r, s \in Run : HoldsGate(r) /\ HoldsGate(s) => r = s
  /\ gate <=> \A r \in Run : ~HoldsGate(r)

(* A run returns its evaluation exactly when it returns no error, and then    *)
(* the whole session was clean: Stop succeeded, no fault was latched, every   *)
(* worker's outcome was read to the closure of its stream, and the run did    *)
(* not end before its boundary (run.go:77-109, 164-210).                      *)
CleanRun ==
  \A r \in Run : pc[r] = "returned" =>
    /\ evidence[r] <=> errs[r] = {}
    /\ evidence[r] => /\ stopped[r] = "ok" /\ ~fault[r]
                      /\ \A w \in Worker : Vouched(r, w) /\ shut[<<r, w>>]

(* A run that returns reports a failed Stop, everything that a collector      *)
(* found wrong, and, if its execution was only woken up, what woke it         *)
(* (run.go:182-203).                                                          *)
FailuresReported ==
  \A r \in Run : pc[r] = "returned" =>
    /\ stopped[r] = "error" => "stop" \in errs[r]
    /\ CollectionFailed(r) => "collector" \in errs[r]
    /\ errs[r] # {"wakeup"}

(* The repair of the collectors' errors discards no failure that is           *)
(* independent of them (outcome.go:225-227, run.go:184-191).                  *)
OwnFailureKept ==
  [][\A r \in Run : errs[r] \ {"wakeup"} \subseteq errs'[r]]_vars

InSession(r) ==
  pc[r] \in {"create", "start", "execute", "evaluate", "cleanup", "stopping",
             "joining", "closing"}

(* While a run uses the database it has reset, no session of an earlier run   *)
(* has an open invocation: an adapter that could not be stopped quarantines   *)
(* the fixture before the gate is given back (run.go:199-209).                *)
NoOverlap ==
  \A r, s \in Run : InSession(r) /\ r # s => OpenOf(s) = {}

(* Runs share the database one after the other: neither the gate nor a        *)
(* session left open by an earlier run lets two of them use it at once.       *)
RunsApart == OneRunAtATime /\ NoOverlap

(* After a Stop that succeeded every collector has read the outcome that its  *)
(* stream carries, however late it was scheduled: cancellation does not race  *)
(* with what is already in the stream (outcome.go:64-67).                     *)
OutcomesKept ==
  \A r \in Run : pc[r] = "returned" /\ stopped[r] = "ok" =>
    \A w \in InvokedOf(r) :
      got[<<r, w>>] = published[<<r, w>>] /\ (collErr[<<r, w>>] <=> published[<<r, w>>] # "worker")

(* What a run returns is true: an evaluation only from a clean session, every *)
(* failure of Stop and of a collector, and no outcome lost to the order in    *)
(* which cancellation and the collectors came.                               *)
ReportIsTrue == CleanRun /\ FailuresReported /\ OutcomesKept
=============================================================================
