-------------------------- MODULE RunCleanupProofs --------------------------
(* Theorems about Orchestrator.Run, for every set of runs and workers, and,   *)
(* in the second part, about the MySQL fixture, for any number of containers. *)
EXTENDS MCRuns, TLAPS

(* A context that ends stays within its levels.                              *)
LEMMA EndedType ==
  ASSUME ctx \in [Run -> 0..3], NEW r \in Run, Ended(r, 1)
  PROVE  ctx' \in [Run -> 0..3]
BY DEF Ended

(* A read that is allowed leaves a budget.                                   *)
LEMMA LeftType ==
  ASSUME TypeOK, NEW r \in Run, NEW w \in Worker, CanRead(r, w)
  PROVE  Left(r, w) \in 0..2
<1>1. budget[<<r, w>>] \in 0..2
  BY DEF TypeOK, RW, ReadBudget
<1>2. QED
  BY <1>1 DEF Left, CanRead

(* Every variable of a run, its collectors and its session keeps its type.   *)
THEOREM RunTypeCorrect == Spec => []TypeOK
<1>1. Init => TypeOK
  <2> SUFFICES ASSUME Init PROVE TypeOK
    OBVIOUS
  <2>1. /\ budget \in [RW -> 0..ReadBudget]
        /\ \A x \in RW : coll[x] = "none"
    BY DEF Init, ReadBudget
  <2>2. /\ pc \in [Run -> Phase] /\ ctx \in [Run -> 0..3]
        /\ errs \in [Run -> SUBSET Cause]
    BY DEF Init, Phase
  <2>3. QED
    BY <2>1, <2>2 DEF Init, TypeOK
<1>2. TypeOK /\ [Next]_vars => TypeOK'
  <2> SUFFICES ASSUME TypeOK, [Next]_vars PROVE TypeOK'
    OBVIOUS
  <2> USE DEF Phase, Cause, RW
  <2>1. CASE UNCHANGED vars
    BY <2>1 DEF vars, runVars, sutVars, collVars, TypeOK
  <2>2. ASSUME NEW r \in Run, GateCanceled(r) PROVE TypeOK'
    BY <2>2 DEF GateCanceled, Go, Join, sutVars, collVars, TypeOK
  <2>3. ASSUME NEW r \in Run, TakeGate(r) PROVE TypeOK'
    BY <2>3 DEF TakeGate, Go, sutVars, collVars, TypeOK
  <2>4. ASSUME NEW r \in Run, Reset(r) PROVE TypeOK'
    BY <2>4 DEF Reset, Go, sutVars, collVars, TypeOK
  <2>5. ASSUME NEW r \in Run, ResetFails(r) PROVE TypeOK'
    BY <2>5 DEF ResetFails, Go, Join, sutVars, collVars, TypeOK
  <2>6. ASSUME NEW r \in Run, Create(r) PROVE TypeOK'
    BY <2>6 DEF Create, Go, sutVars, collVars, TypeOK
  <2>7. ASSUME NEW r \in Run, Start(r) PROVE TypeOK'
    BY <2>7 DEF Start, Go, sutVars, collVars, TypeOK
  <2>8. ASSUME NEW r \in Run, SetupFails(r) PROVE TypeOK'
    BY <2>8 DEF SetupFails, Go, Join, sutVars, collVars, TypeOK
  <2>9. ASSUME NEW r \in Run, Execute(r) PROVE TypeOK'
    BY <2>9 DEF Execute, Go, sutVars, collVars, TypeOK
  <2>10. ASSUME NEW r \in Run, ExecuteWoken(r) PROVE TypeOK'
    BY <2>10 DEF ExecuteWoken, Go, Join, sutVars, collVars, TypeOK
  <2>11. ASSUME NEW r \in Run, ExecuteUncollected(r) PROVE TypeOK'
    BY <2>11 DEF ExecuteUncollected, Go, Join, sutVars, collVars, TypeOK
  <2>12. ASSUME NEW r \in Run, FaultAtStart(r) PROVE TypeOK'
    BY <2>12 DEF FaultAtStart, Go, Join, InvokedOf, sutVars, collVars, TypeOK
  <2>13. ASSUME NEW r \in Run, Evaluate(r) PROVE TypeOK'
    <3>1. pc' \in [Run -> Phase]
      BY <2>13 DEF Evaluate, Go, TypeOK
    <3>2. errs' \in [Run -> SUBSET Cause]
      <4>1. errs' = errs \/ \E c \in {"fault", "ctx", "oracle"} : Join(r, {c})
        BY <2>13 DEF Evaluate
      <4>2. QED
        BY <4>1 DEF Join, TypeOK
    <3>3. evidence' \in [Run -> BOOLEAN]
      BY <2>13, ZenonT(60) DEF Evaluate, TypeOK
    <3>4. QED
      BY <2>13, <3>1, <3>2, <3>3 DEF Evaluate, sutVars, collVars, TypeOK
  <2>14. ASSUME NEW r \in Run, BeginCleanup(r) PROVE TypeOK'
    <3>1. ctx' \in [Run -> 0..3]
      BY <2>14, EndedType DEF BeginCleanup, TypeOK
    <3>2. pc' \in [Run -> Phase] /\ collDone' \in [Run -> BOOLEAN]
      BY <2>14, ZenonT(60) DEF BeginCleanup, Go, TypeOK
    <3>3. QED
      BY <2>14, <3>1, <3>2 DEF BeginCleanup, sutVars, collVars, TypeOK
  <2>15. ASSUME NEW r \in Run, Stop(r) PROVE TypeOK'
    BY <2>15, ZenonT(60) DEF Stop, Go, OpenOf, InvokedOf, sutVars, collVars, TypeOK
  <2>16. ASSUME NEW r \in Run, JoinCollectors(r) PROVE TypeOK'
    BY <2>16 DEF JoinCollectors, Go, If, CollectionFailed, sutVars, collVars, TypeOK
  <2>17. ASSUME NEW r \in Run, CloseRuntime(r) PROVE TypeOK'
    BY <2>17 DEF CloseRuntime, Go, Join, If, FaultSeen, sutVars, collVars, TypeOK
  <2>18. ASSUME NEW r \in Run, Boundary(r) PROVE TypeOK'
    BY <2>18 DEF Boundary, Go, Join, If, sutVars, collVars, TypeOK
  <2>19. ASSUME NEW r \in Run, Leave(r) PROVE TypeOK'
    BY <2>19 DEF Leave, Go, Join, If, sutVars, collVars, TypeOK
  <2>20. ASSUME NEW r \in Run, ExecuteFails(r) PROVE TypeOK'
    BY <2>20 DEF ExecuteFails, Go, Join, sutVars, collVars, TypeOK
  <2>21. ASSUME NEW r \in Run, WatcherCancels(r) PROVE TypeOK'
    BY <2>21 DEF WatcherCancels, Ended, runVars, sutVars, collVars, TypeOK
  <2>22. ASSUME NEW r \in Run, CallerCancels(r) PROVE TypeOK'
    BY <2>22 DEF CallerCancels, Ended, runVars, sutVars, collVars, TypeOK
  <2>23. ASSUME NEW r \in Run, RunTimesOut(r) PROVE TypeOK'
    BY <2>23 DEF RunTimesOut, Ended, runVars, sutVars, collVars, TypeOK
  <2>24. ASSUME NEW r \in Run, Latch(r) PROVE TypeOK'
    BY <2>24 DEF Latch, runVars, collVars, TypeOK
  <2>25. ASSUME NEW r \in Run, NEW w \in Worker, Invoke(r, w) PROVE TypeOK'
    BY <2>25 DEF Invoke, runVars, sutVars, TypeOK
  <2>26. ASSUME NEW r \in Run, NEW w \in Worker, ReadOutcome(r, w) PROVE TypeOK'
    <3>1. ctx' \in [Run -> 0..3]
      BY <2>26, EndedType DEF ReadOutcome, TypeOK
    <3>2. Left(r, w) \in 0..2
      BY <2>26, LeftType DEF ReadOutcome
    <3>3. /\ budget' \in [RW -> 0..2]
          /\ coll' \in [RW -> {"none", "reading", "probing", "done"}]
          /\ \A x \in RW : coll'[x] = "probing" => budget'[x] <= 1
      BY <2>26, <3>2 DEF ReadOutcome, TypeOK, ReadBudget
    <3>4. /\ got' \in [RW -> {Nil, "worker", "unstarted"}]
          /\ collErr' \in [RW -> BOOLEAN]
      BY <2>26 DEF ReadOutcome, TypeOK
    <3>5. QED
      BY <2>26, <3>1, <3>3, <3>4 DEF ReadOutcome, runVars, sutVars, TypeOK,
         ReadBudget
  <2>27. ASSUME NEW r \in Run, NEW w \in Worker, ReadClosure(r, w) PROVE TypeOK'
    <3>1. ctx' \in [Run -> 0..3]
      BY <2>27, EndedType DEF ReadClosure, TypeOK
    <3>2. Left(r, w) \in 0..2
      BY <2>27, LeftType DEF ReadClosure
    <3>3. /\ budget' \in [RW -> 0..2]
          /\ coll' \in [RW -> {"none", "reading", "probing", "done"}]
          /\ \A x \in RW : coll'[x] = "probing" => budget'[x] <= 1
      BY <2>27, <3>2 DEF ReadClosure, TypeOK, ReadBudget
    <3>4. collErr' \in [RW -> BOOLEAN]
      BY <2>27 DEF ReadClosure, TypeOK
    <3>5. QED
      BY <2>27, <3>1, <3>3, <3>4 DEF ReadClosure, runVars, sutVars, TypeOK,
         ReadBudget
  <2>28. ASSUME NEW r \in Run, NEW w \in Worker, GiveUp(r, w) PROVE TypeOK'
    BY <2>28 DEF GiveUp, Ended, runVars, sutVars, TypeOK
  <2>29. ASSUME NEW r \in Run, NEW w \in Worker, Publish(r, w) PROVE TypeOK'
    BY <2>29 DEF Publish, OpenOf, InvokedOf, runVars, collVars, TypeOK
  <2>30. ASSUME NEW r \in Run, NEW w \in Worker, Shut(r, w) PROVE TypeOK'
    BY <2>30 DEF Shut, OpenOf, InvokedOf, runVars, collVars, TypeOK
  <2>31. QED
    BY <2>1, <2>2, <2>3, <2>4, <2>5, <2>6, <2>7, <2>8, <2>9, <2>10, <2>11,
       <2>12, <2>13, <2>14, <2>15, <2>16, <2>17, <2>18, <2>19, <2>20, <2>21, <2>22,
       <2>23, <2>24, <2>25, <2>26, <2>27, <2>28, <2>29, <2>30 DEF Next, RunStep,
       CollectorStep
<1>3. QED
  BY <1>1, <1>2, PTL DEF Spec

-----------------------------------------------------------------------------
(* The run that holds the gate is the only one inside (run.go:113-120): the   *)
(* token is neither lost nor duplicated, however many calls wait for it and   *)
(* whatever ends them.                                                       *)
THEOREM RunsAlone == Spec => []OneRunAtATime
<1>1. Init => OneRunAtATime
  BY DEF Init, OneRunAtATime, HoldsGate
<1>2. TypeOK /\ OneRunAtATime /\ [Next]_vars => OneRunAtATime'
  <2> SUFFICES ASSUME pc \in [Run -> Phase], OneRunAtATime, [Next]_vars
               PROVE  OneRunAtATime'
    BY DEF TypeOK
  <2>1. CASE UNCHANGED vars
    BY <2>1 DEF vars, runVars, sutVars, collVars, OneRunAtATime, HoldsGate, Phase
  <2>2. ASSUME NEW r \in Run, GateCanceled(r) PROVE OneRunAtATime'
    BY <2>2 DEF GateCanceled, Go, Join, sutVars, collVars, OneRunAtATime,
       HoldsGate, Phase
  <2>3. ASSUME NEW r \in Run, TakeGate(r) PROVE OneRunAtATime'
    BY <2>3 DEF TakeGate, Go, sutVars, collVars, OneRunAtATime, HoldsGate, Phase
  <2>4. ASSUME NEW r \in Run, Reset(r) PROVE OneRunAtATime'
    BY <2>4 DEF Reset, Go, sutVars, collVars, OneRunAtATime, HoldsGate, Phase
  <2>5. ASSUME NEW r \in Run, ResetFails(r) PROVE OneRunAtATime'
    BY <2>5 DEF ResetFails, Go, Join, sutVars, collVars, OneRunAtATime,
       HoldsGate, Phase
  <2>6. ASSUME NEW r \in Run, Create(r) PROVE OneRunAtATime'
    BY <2>6 DEF Create, Go, sutVars, collVars, OneRunAtATime, HoldsGate, Phase
  <2>7. ASSUME NEW r \in Run, Start(r) PROVE OneRunAtATime'
    BY <2>7 DEF Start, Go, sutVars, collVars, OneRunAtATime, HoldsGate, Phase
  <2>8. ASSUME NEW r \in Run, SetupFails(r) PROVE OneRunAtATime'
    BY <2>8 DEF SetupFails, Go, Join, sutVars, collVars, OneRunAtATime,
       HoldsGate, Phase
  <2>9. ASSUME NEW r \in Run, Execute(r) PROVE OneRunAtATime'
    BY <2>9 DEF Execute, Go, sutVars, collVars, OneRunAtATime, HoldsGate, Phase
  <2>10. ASSUME NEW r \in Run, ExecuteWoken(r) PROVE OneRunAtATime'
    BY <2>10 DEF ExecuteWoken, Go, Join, sutVars, collVars, OneRunAtATime,
       HoldsGate, Phase
  <2>11. ASSUME NEW r \in Run, ExecuteUncollected(r) PROVE OneRunAtATime'
    BY <2>11 DEF ExecuteUncollected, Go, Join, sutVars, collVars, OneRunAtATime,
       HoldsGate, Phase
  <2>12. ASSUME NEW r \in Run, FaultAtStart(r) PROVE OneRunAtATime'
    BY <2>12 DEF FaultAtStart, Go, Join, sutVars, collVars, OneRunAtATime,
       HoldsGate, Phase
  <2>13. ASSUME NEW r \in Run, Evaluate(r) PROVE OneRunAtATime'
    BY <2>13 DEF Evaluate, Go, Join, sutVars, collVars, OneRunAtATime,
       HoldsGate, Phase
  <2>14. ASSUME NEW r \in Run, BeginCleanup(r) PROVE OneRunAtATime'
    BY <2>14 DEF BeginCleanup, Go, sutVars, collVars, OneRunAtATime, HoldsGate, Phase
  <2>15. ASSUME NEW r \in Run, Stop(r) PROVE OneRunAtATime'
    BY <2>15 DEF Stop, Go, sutVars, collVars, OneRunAtATime, HoldsGate, Phase
  <2>16. ASSUME NEW r \in Run, JoinCollectors(r) PROVE OneRunAtATime'
    BY <2>16 DEF JoinCollectors, Go, sutVars, collVars, OneRunAtATime,
       HoldsGate, Phase
  <2>17. ASSUME NEW r \in Run, CloseRuntime(r) PROVE OneRunAtATime'
    BY <2>17 DEF CloseRuntime, Go, Join, sutVars, collVars, OneRunAtATime,
       HoldsGate, Phase
  <2>18. ASSUME NEW r \in Run, Boundary(r) PROVE OneRunAtATime'
    BY <2>18 DEF Boundary, Go, Join, sutVars, collVars, OneRunAtATime,
       HoldsGate, Phase
  <2>19. ASSUME NEW r \in Run, Leave(r) PROVE OneRunAtATime'
    BY <2>19 DEF Leave, Go, Join, sutVars, collVars, OneRunAtATime, HoldsGate, Phase
  <2>20. ASSUME NEW r \in Run, ExecuteFails(r) PROVE OneRunAtATime'
    BY <2>20 DEF ExecuteFails, Go, Join, sutVars, collVars, OneRunAtATime,
       HoldsGate, Phase
  <2>21. ASSUME NEW r \in Run, WatcherCancels(r) PROVE OneRunAtATime'
    BY <2>21 DEF WatcherCancels, runVars, sutVars, collVars, OneRunAtATime,
       HoldsGate, Phase
  <2>22. ASSUME NEW r \in Run, CallerCancels(r) PROVE OneRunAtATime'
    BY <2>22 DEF CallerCancels, runVars, sutVars, collVars, OneRunAtATime,
       HoldsGate, Phase
  <2>23. ASSUME NEW r \in Run, RunTimesOut(r) PROVE OneRunAtATime'
    BY <2>23 DEF RunTimesOut, runVars, sutVars, collVars, OneRunAtATime,
       HoldsGate, Phase
  <2>24. ASSUME NEW r \in Run, Latch(r) PROVE OneRunAtATime'
    BY <2>24 DEF Latch, runVars, collVars, OneRunAtATime, HoldsGate, Phase
  <2>25. ASSUME NEW r \in Run, NEW w \in Worker, Invoke(r, w) PROVE OneRunAtATime'
    BY <2>25 DEF Invoke, runVars, sutVars, OneRunAtATime, HoldsGate, Phase
  <2>26. ASSUME NEW r \in Run, NEW w \in Worker, ReadOutcome(r, w) PROVE OneRunAtATime'
    BY <2>26 DEF ReadOutcome, runVars, sutVars, OneRunAtATime, HoldsGate, Phase
  <2>27. ASSUME NEW r \in Run, NEW w \in Worker, ReadClosure(r, w) PROVE OneRunAtATime'
    BY <2>27 DEF ReadClosure, runVars, sutVars, OneRunAtATime, HoldsGate, Phase
  <2>28. ASSUME NEW r \in Run, NEW w \in Worker, GiveUp(r, w) PROVE OneRunAtATime'
    BY <2>28 DEF GiveUp, runVars, sutVars, OneRunAtATime, HoldsGate, Phase
  <2>29. ASSUME NEW r \in Run, NEW w \in Worker, Publish(r, w) PROVE OneRunAtATime'
    BY <2>29 DEF Publish, runVars, collVars, OneRunAtATime, HoldsGate, Phase
  <2>30. ASSUME NEW r \in Run, NEW w \in Worker, Shut(r, w) PROVE OneRunAtATime'
    BY <2>30 DEF Shut, runVars, collVars, OneRunAtATime, HoldsGate, Phase
  <2>31. QED
    BY <2>1, <2>2, <2>3, <2>4, <2>5, <2>6, <2>7, <2>8, <2>9, <2>10, <2>11,
       <2>12, <2>13, <2>14, <2>15, <2>16, <2>17, <2>18, <2>19, <2>20, <2>21, <2>22,
       <2>23, <2>24, <2>25, <2>26, <2>27, <2>28, <2>29, <2>30 DEF Next, RunStep,
       CollectorStep
<1>3. QED
  BY <1>1, <1>2, RunTypeCorrect, PTL DEF Spec

-----------------------------------------------------------------------------
Before == {"gate", "reset", "create", "start"}
Stopped == {"joining", "closing", "boundary", "leaving", "returned"}
NoneInvoked(r) == \A w \in Worker : coll[<<r, w>>] = "none"
NoneOpen(r) == \A w \in Worker : coll[<<r, w>>] = "none" \/ shut[<<r, w>>]

LEMMA SetsEmpty ==
  ASSUME NEW r \in Run
  PROVE  (InvokedOf(r) = {} <=> NoneInvoked(r)) /\ (OpenOf(r) = {} <=> NoneOpen(r))
BY DEF InvokedOf, OpenOf, NoneInvoked, NoneOpen

(* Nothing was invoked before the adapter started, or without an adapter; a   *)
(* session that is past Stop has no open stream unless Stop failed; behind    *)
(* the runtime's close a failed Stop has quarantined the fixture, and then    *)
(* no run is in a session.                                                   *)
Invoked == \A r \in Run : pc[r] \in Before \/ adapter[r] = "none" => NoneInvoked(r)
HasAdapter == \A r \in Run : pc[r] = "execute" => adapter[r] # "none"
AfterStop == \A r \in Run : pc[r] \in Stopped => NoneOpen(r) \/ stopped[r] = "error"
AfterClose ==
  \A r \in Run :
    pc[r] \in {"boundary", "leaving", "returned"} => NoneOpen(r) \/ quarantined
OutOfSession == quarantined => \A r \in Run : ~InSession(r)

SessionInv == Invoked /\ HasAdapter /\ AfterStop /\ AfterClose /\ OutOfSession

LEMMA SessionInvAlways == Spec => []SessionInv
<1>1. Init => SessionInv
  BY DEF Init, SessionInv, Invoked, HasAdapter, AfterStop, AfterClose, OutOfSession,
         NoneInvoked, Stopped, RW
<1>2. TypeOK /\ OneRunAtATime /\ SessionInv /\ [Next]_vars => SessionInv'
  <2> SUFFICES ASSUME TypeOK, OneRunAtATime, SessionInv, [Next]_vars
               PROVE  SessionInv'
    OBVIOUS
  <2>0. /\ pc \in [Run -> Phase] /\ quarantined \in BOOLEAN
        /\ adapter \in [Run -> {"none", "created", "started"}]
        /\ stopped \in [Run -> {"no", "ok", "error"}]
        /\ shut \in [RW -> BOOLEAN]
        /\ coll \in [RW -> {"none", "reading", "probing", "done"}]
    BY DEF TypeOK
  <2> USE DEF SessionInv, Invoked, HasAdapter, AfterStop, AfterClose, OutOfSession,
              NoneInvoked, NoneOpen, Before, Stopped, InSession, RW, Phase
  <2>1. CASE UNCHANGED vars
    BY <2>1 DEF vars, runVars, sutVars, collVars
  <2>2. ASSUME NEW r \in Run, GateCanceled(r) PROVE SessionInv'
    BY <2>2, <2>0 DEF GateCanceled, Go, sutVars, collVars
  <2>3. ASSUME NEW r \in Run, TakeGate(r) PROVE SessionInv'
    BY <2>3, <2>0 DEF TakeGate, Go, sutVars, collVars
  <2>4. ASSUME NEW r \in Run, Reset(r) PROVE SessionInv'
    BY <2>4, <2>0 DEF Reset, Go, sutVars, collVars
  <2>5. ASSUME NEW r \in Run, ResetFails(r) PROVE SessionInv'
    BY <2>5, <2>0 DEF ResetFails, Go, sutVars, collVars
  <2>6. ASSUME NEW r \in Run, Create(r) PROVE SessionInv'
    BY <2>6, <2>0 DEF Create, Go, sutVars, collVars
  <2>7. ASSUME NEW r \in Run, Start(r) PROVE SessionInv'
    BY <2>7, <2>0 DEF Start, Go, sutVars, collVars
  <2>8. ASSUME NEW r \in Run, SetupFails(r) PROVE SessionInv'
    BY <2>8, <2>0 DEF SetupFails, Go, sutVars, collVars
  <2>9. ASSUME NEW r \in Run, Execute(r) PROVE SessionInv'
    BY <2>9, <2>0 DEF Execute, Go, sutVars, collVars
  <2>10. ASSUME NEW r \in Run, ExecuteWoken(r) PROVE SessionInv'
    BY <2>10, <2>0 DEF ExecuteWoken, Go, sutVars, collVars
  <2>11. ASSUME NEW r \in Run, ExecuteUncollected(r) PROVE SessionInv'
    BY <2>11, <2>0 DEF ExecuteUncollected, Go, sutVars, collVars
  <2>12. ASSUME NEW r \in Run, FaultAtStart(r) PROVE SessionInv'
    BY <2>12, <2>0 DEF FaultAtStart, Go, sutVars, collVars
  <2>13. ASSUME NEW r \in Run, Evaluate(r) PROVE SessionInv'
    BY <2>13, <2>0 DEF Evaluate, Go, sutVars, collVars
  <2>14. ASSUME NEW r \in Run, BeginCleanup(r) PROVE SessionInv'
    BY <2>14, <2>0 DEF BeginCleanup, Go, sutVars, collVars
  <2>15. ASSUME NEW r \in Run, Stop(r) PROVE SessionInv'
    BY <2>15, <2>0, SetsEmpty DEF Stop, Go, sutVars, collVars
  <2>16. ASSUME NEW r \in Run, JoinCollectors(r) PROVE SessionInv'
    BY <2>16, <2>0 DEF JoinCollectors, Go, sutVars, collVars
  <2>17. ASSUME NEW r \in Run, CloseRuntime(r) PROVE SessionInv'
    <3>1. \A s \in Run : s # r => ~InSession(s)
      BY <2>17 DEF CloseRuntime, OneRunAtATime, HoldsGate
    <3>2. pc' = [pc EXCEPT ![r] = "boundary"] /\ (quarantined => quarantined')
      BY <2>17 DEF CloseRuntime, Go
    <3>3. OutOfSession'
      BY <3>1, <3>2, <2>0
    <3>4. NoneOpen(r) \/ quarantined'
      BY <2>17 DEF CloseRuntime
    <3>5. QED
      BY <2>17, <3>2, <3>3, <3>4, <2>0 DEF CloseRuntime, sutVars, collVars
  <2>18. ASSUME NEW r \in Run, Boundary(r) PROVE SessionInv'
    BY <2>18, <2>0 DEF Boundary, Go, sutVars, collVars
  <2>19. ASSUME NEW r \in Run, Leave(r) PROVE SessionInv'
    BY <2>19, <2>0 DEF Leave, Go, sutVars, collVars
  <2>20. ASSUME NEW r \in Run, ExecuteFails(r) PROVE SessionInv'
    BY <2>20, <2>0 DEF ExecuteFails, Go, sutVars, collVars
  <2>21. ASSUME NEW r \in Run, WatcherCancels(r) PROVE SessionInv'
    BY <2>21, <2>0 DEF WatcherCancels, runVars, sutVars, collVars
  <2>22. ASSUME NEW r \in Run, CallerCancels(r) PROVE SessionInv'
    BY <2>22, <2>0 DEF CallerCancels, runVars, sutVars, collVars
  <2>23. ASSUME NEW r \in Run, RunTimesOut(r) PROVE SessionInv'
    BY <2>23, <2>0 DEF RunTimesOut, runVars, sutVars, collVars
  <2>24. ASSUME NEW r \in Run, Latch(r) PROVE SessionInv'
    BY <2>24, <2>0 DEF Latch, runVars, collVars
  <2>25. ASSUME NEW r \in Run, NEW w \in Worker, Invoke(r, w) PROVE SessionInv'
    BY <2>25, <2>0 DEF Invoke, runVars, sutVars
  <2>26. ASSUME NEW r \in Run, NEW w \in Worker, ReadOutcome(r, w) PROVE SessionInv'
    BY <2>26, <2>0 DEF ReadOutcome, runVars, sutVars
  <2>27. ASSUME NEW r \in Run, NEW w \in Worker, ReadClosure(r, w) PROVE SessionInv'
    BY <2>27, <2>0 DEF ReadClosure, runVars, sutVars
  <2>28. ASSUME NEW r \in Run, NEW w \in Worker, GiveUp(r, w) PROVE SessionInv'
    BY <2>28, <2>0 DEF GiveUp, runVars, sutVars
  <2>29. ASSUME NEW r \in Run, NEW w \in Worker, Publish(r, w) PROVE SessionInv'
    BY <2>29, <2>0 DEF Publish, runVars, collVars
  <2>30. ASSUME NEW r \in Run, NEW w \in Worker, Shut(r, w) PROVE SessionInv'
    BY <2>30, <2>0 DEF Shut, runVars, collVars
  <2>31. QED
    BY <2>1, <2>2, <2>3, <2>4, <2>5, <2>6, <2>7, <2>8, <2>9, <2>10, <2>11,
       <2>12, <2>13, <2>14, <2>15, <2>16, <2>17, <2>18, <2>19, <2>20, <2>21, <2>22,
       <2>23, <2>24, <2>25, <2>26, <2>27, <2>28, <2>29, <2>30 DEF Next, RunStep,
       CollectorStep
<1>3. QED
  BY <1>1, <1>2, RunTypeCorrect, RunsAlone, PTL DEF Spec

(* While a run uses the database it has reset, no session of an earlier run   *)
(* has an open invocation (run.go:199-209), for any number of runs: a failed  *)
(* Stop closes the fixture before the gate opens.                            *)
THEOREM SessionsApart == Spec => []NoOverlap
<1>1. TypeOK /\ OneRunAtATime /\ SessionInv => NoOverlap
  <2> SUFFICES ASSUME TypeOK, OneRunAtATime, SessionInv,
                      NEW r \in Run, NEW s \in Run, InSession(r), r # s
               PROVE  NoneOpen(s)
    BY SetsEmpty DEF NoOverlap
  <2>1. ~HoldsGate(s)
    BY DEF OneRunAtATime, HoldsGate, InSession
  <2>2. pc[s] \in {"gate", "leaving", "returned"} /\ ~quarantined
    BY <2>1 DEF HoldsGate, SessionInv, OutOfSession, TypeOK
  <2>3. CASE pc[s] = "gate"
    BY <2>3 DEF SessionInv, Invoked, Before, NoneInvoked, NoneOpen
  <2>4. CASE pc[s] \in {"leaving", "returned"}
    BY <2>2, <2>4 DEF SessionInv, AfterClose
  <2>5. QED
    BY <2>2, <2>3, <2>4
<1>2. QED
  BY <1>1, RunTypeCorrect, RunsAlone, SessionInvAlways, PTL

(* Runs use the database one at a time, whatever becomes of their sessions.   *)
THEOREM RunsSeparated == Spec => []RunsApart
BY RunsAlone, SessionsApart, PTL DEF RunsApart

-----------------------------------------------------------------------------
(* What Orchestrator.Run returns.                                            *)
Collected == {"closing", "boundary", "leaving", "returned"}
Ending == {"cleanup", "stopping", "joining", "closing", "boundary", "leaving"}

-----------------------------------------------------------------------------
(* A run has no error before its cleanup but in the last step, and the error *)
(* that is rebuilt is a wakeup or the collectors' own.                       *)
Rebuilt == \A r \in Run :
  /\ pc[r] \notin Ending \cup {"returned"} => errs[r] = {} /\ ~rebuild[r]
  /\ rebuild[r] /\ pc[r] \notin Collected => errs[r] \subseteq {"wakeup", "collector"}

LEMMA RebuiltAlways == Spec => []Rebuilt
<1>1. Init => Rebuilt
  BY DEF Init, Rebuilt
<1>2. TypeOK /\ Rebuilt /\ [Next]_vars => Rebuilt'
  <2> SUFFICES ASSUME TypeOK, Rebuilt, [Next]_vars PROVE Rebuilt'
    OBVIOUS
  <2>0. /\ pc \in [Run -> Phase] /\ errs \in [Run -> SUBSET Cause]
        /\ rebuild \in [Run -> BOOLEAN]
    BY DEF TypeOK
  <2> USE DEF Rebuilt, Collected, Ending, Phase
  <2>1. CASE UNCHANGED vars
    BY <2>1 DEF vars, runVars, sutVars, collVars
  <2>2. ASSUME NEW r \in Run, GateCanceled(r) PROVE Rebuilt'
    BY <2>2, <2>0 DEF GateCanceled, Go, Join, sutVars, collVars
  <2>3. ASSUME NEW r \in Run, TakeGate(r) PROVE Rebuilt'
    BY <2>3, <2>0 DEF TakeGate, Go, sutVars, collVars
  <2>4. ASSUME NEW r \in Run, Reset(r) PROVE Rebuilt'
    BY <2>4, <2>0 DEF Reset, Go, sutVars, collVars
  <2>5. ASSUME NEW r \in Run, ResetFails(r) PROVE Rebuilt'
    BY <2>5, <2>0 DEF ResetFails, Go, Join, sutVars, collVars
  <2>6. ASSUME NEW r \in Run, Create(r) PROVE Rebuilt'
    BY <2>6, <2>0 DEF Create, Go, sutVars, collVars
  <2>7. ASSUME NEW r \in Run, Start(r) PROVE Rebuilt'
    BY <2>7, <2>0 DEF Start, Go, sutVars, collVars
  <2>8. ASSUME NEW r \in Run, SetupFails(r) PROVE Rebuilt'
    BY <2>8, <2>0 DEF SetupFails, Go, Join, sutVars, collVars
  <2>9. ASSUME NEW r \in Run, Execute(r) PROVE Rebuilt'
    BY <2>9, <2>0 DEF Execute, Go, sutVars, collVars
  <2>10. ASSUME NEW r \in Run, ExecuteWoken(r) PROVE Rebuilt'
    BY <2>10, <2>0 DEF ExecuteWoken, Go, Join, sutVars, collVars
  <2>11. ASSUME NEW r \in Run, ExecuteUncollected(r) PROVE Rebuilt'
    BY <2>11, <2>0 DEF ExecuteUncollected, Go, Join, sutVars, collVars
  <2>12. ASSUME NEW r \in Run, FaultAtStart(r) PROVE Rebuilt'
    BY <2>12, <2>0 DEF FaultAtStart, Go, Join, sutVars, collVars
  <2>13. ASSUME NEW r \in Run, Evaluate(r) PROVE Rebuilt'
    BY <2>13, <2>0 DEF Evaluate, Go, Join, sutVars, collVars
  <2>14. ASSUME NEW r \in Run, BeginCleanup(r) PROVE Rebuilt'
    BY <2>14, <2>0 DEF BeginCleanup, Go, Ended, sutVars, collVars
  <2>15. ASSUME NEW r \in Run, Stop(r) PROVE Rebuilt'
    BY <2>15, <2>0 DEF Stop, Go, sutVars, collVars
  <2>16. ASSUME NEW r \in Run, JoinCollectors(r) PROVE Rebuilt'
    BY <2>16, <2>0 DEF JoinCollectors, Go, If, sutVars, collVars
  <2>17. ASSUME NEW r \in Run, CloseRuntime(r) PROVE Rebuilt'
    BY <2>17, <2>0 DEF CloseRuntime, Go, Join, If, sutVars, collVars
  <2>18. ASSUME NEW r \in Run, Boundary(r) PROVE Rebuilt'
    BY <2>18, <2>0 DEF Boundary, Go, Join, If, sutVars, collVars
  <2>19. ASSUME NEW r \in Run, Leave(r) PROVE Rebuilt'
    BY <2>19, <2>0 DEF Leave, Go, Join, If, sutVars, collVars
  <2>20. ASSUME NEW r \in Run, ExecuteFails(r) PROVE Rebuilt'
    BY <2>20, <2>0 DEF ExecuteFails, Go, Join, sutVars, collVars
  <2>21. ASSUME NEW r \in Run, WatcherCancels(r) PROVE Rebuilt'
    BY <2>21, <2>0 DEF WatcherCancels, Ended, runVars, sutVars, collVars
  <2>22. ASSUME NEW r \in Run, CallerCancels(r) PROVE Rebuilt'
    BY <2>22, <2>0 DEF CallerCancels, Ended, runVars, sutVars, collVars
  <2>23. ASSUME NEW r \in Run, RunTimesOut(r) PROVE Rebuilt'
    BY <2>23, <2>0 DEF RunTimesOut, Ended, runVars, sutVars, collVars
  <2>24. ASSUME NEW r \in Run, Latch(r) PROVE Rebuilt'
    BY <2>24, <2>0 DEF Latch, runVars, collVars
  <2>25. ASSUME NEW r \in Run, NEW w \in Worker, Invoke(r, w) PROVE Rebuilt'
    BY <2>25, <2>0 DEF Invoke, runVars, sutVars
  <2>26. ASSUME NEW r \in Run, NEW w \in Worker, ReadOutcome(r, w) PROVE Rebuilt'
    BY <2>26, <2>0 DEF ReadOutcome, Ended, runVars, sutVars
  <2>27. ASSUME NEW r \in Run, NEW w \in Worker, ReadClosure(r, w) PROVE Rebuilt'
    BY <2>27, <2>0 DEF ReadClosure, Ended, runVars, sutVars
  <2>28. ASSUME NEW r \in Run, NEW w \in Worker, GiveUp(r, w) PROVE Rebuilt'
    BY <2>28, <2>0 DEF GiveUp, Ended, runVars, sutVars
  <2>29. ASSUME NEW r \in Run, NEW w \in Worker, Publish(r, w) PROVE Rebuilt'
    BY <2>29, <2>0 DEF Publish, runVars, collVars
  <2>30. ASSUME NEW r \in Run, NEW w \in Worker, Shut(r, w) PROVE Rebuilt'
    BY <2>30, <2>0 DEF Shut, runVars, collVars
  <2>31. QED
    BY <2>1, <2>2, <2>3, <2>4, <2>5, <2>6, <2>7, <2>8, <2>9, <2>10, <2>11, <2>12,
       <2>13, <2>14, <2>15, <2>16, <2>17, <2>18, <2>19, <2>20, <2>21, <2>22, <2>23,
       <2>24, <2>25, <2>26, <2>27, <2>28, <2>29, <2>30
       DEF Next, RunStep, CollectorStep
<1>3. QED
  BY <1>1, <1>2, RunTypeCorrect, PTL DEF Spec

(* No step takes an error away from a run, but for the wakeup.               *)
LEMMA ErrorsStay ==
  ASSUME TypeOK, Rebuilt, [Next]_vars
  PROVE  \A r \in Run : errs[r] \ {"wakeup"} \subseteq errs'[r]
<1> DEFINE Kept == \A r \in Run : errs[r] \ {"wakeup"} \subseteq errs'[r]
<1>0. errs \in [Run -> SUBSET Cause]
  BY DEF TypeOK
<1>1. CASE UNCHANGED vars
  BY <1>1 DEF vars, runVars
<1>2. ASSUME NEW r \in Run, JoinCollectors(r) PROVE Kept
  <2>1. \A s \in Run : s # r => errs'[s] = errs[s]
    BY <1>2, <1>0 DEF JoinCollectors
  <2>2. CASE rebuild[r]
    <3>1. errs[r] \subseteq {"wakeup", "collector"}
      BY <1>2, <2>2 DEF JoinCollectors, Rebuilt, Collected
    <3>2. errs[r] \ {"wakeup"} \subseteq errs'[r]
      BY <1>2, <1>0, <3>1 DEF JoinCollectors, If
    <3>3. QED
      BY <2>1, <3>2
  <2>3. CASE ~ rebuild[r]
    BY <1>2, <1>0, <2>1, <2>3 DEF JoinCollectors, If
  <2>4. QED
    BY <2>2, <2>3
<1>3. ASSUME NEW r \in Run, NEW causes, Join(r, causes) PROVE Kept
  BY <1>3, <1>0 DEF Join
<1>4. ASSUME NEW r \in Run,
             \/ RunStep(r) /\ ~ JoinCollectors(r)
             \/ ExecuteFails(r)
      PROVE  Kept
  <2>1. errs' = errs \/ \E causes : Join(r, causes)
    BY <1>4 DEF RunStep, ExecuteFails, GateCanceled, TakeGate, Reset, ResetFails, Create,
       Start, SetupFails, Execute, ExecuteWoken, ExecuteUncollected, FaultAtStart,
       Evaluate, BeginCleanup, Stop, CloseRuntime, Boundary, Leave
  <2>2. QED
    BY <2>1, <1>3
<1>5. ASSUME NEW r \in Run, WatcherCancels(r) \/ CallerCancels(r) \/ RunTimesOut(r) \/ Latch(r)
      PROVE  Kept
  BY <1>5 DEF WatcherCancels, CallerCancels, RunTimesOut, Latch, runVars
<1>6. ASSUME NEW r \in Run, NEW w \in Worker,
             Invoke(r, w) \/ CollectorStep(r, w) \/ Publish(r, w) \/ Shut(r, w)
      PROVE  Kept
  BY <1>6 DEF Invoke, CollectorStep, ReadOutcome, ReadClosure, GiveUp, Publish, Shut,
     runVars
<1>7. QED
  BY <1>1, <1>2, <1>4, <1>5, <1>6 DEF Next

(* The repair of the collectors' errors discards no failure that is           *)
(* independent of them (outcome.go:225-227, run.go:184-191).                 *)
THEOREM OwnFailureCorrect == Spec => OwnFailureKept
<1>1. TypeOK /\ Rebuilt /\ [Next]_vars
      => [\A r \in Run : errs[r] \ {"wakeup"} \subseteq errs'[r]]_vars
  BY ErrorsStay
<1>2. QED
  BY <1>1, RebuiltAlways, RunTypeCorrect, PTL DEF Spec, OwnFailureKept

-----------------------------------------------------------------------------
(* Where a run stands says what it has: an adapter, the answer of Stop, an   *)
(* evaluation or an error.                                                   *)
Stands == \A r \in Run :
  /\ pc[r] \in {"gate", "reset", "create"} => adapter[r] = "none"
  /\ pc[r] \in {"execute", "evaluate"} \/ evidence[r] => adapter[r] = "started"
  /\ stopped[r] # "no" \/ collDone[r] => pc[r] \in Stopped
  /\ adapter[r] # "none" /\ (pc[r] \in Stopped \/ collDone[r]) => stopped[r] # "no"
  /\ stopped[r] = "ok" => ~ fault[r]

Concludes == \A r \in Run :
  /\ evidence[r] => pc[r] \in Ending \cup {"returned"}
  /\ pc[r] \in Ending /\ errs[r] = {} => evidence[r]
  /\ pc[r] = "returned" => (evidence[r] <=> errs[r] = {})
  /\ pc[r] \in Collected /\ stopped[r] = "error" => "stop" \in errs[r]

LEMMA StandsAlways == Spec => []Stands
<1>1. Init => Stands
  BY ZenonT(60) DEF Init, Stands
<1>2. TypeOK /\ Stands /\ [Next]_vars => Stands'
  <2> SUFFICES ASSUME TypeOK, Stands, [Next]_vars PROVE Stands'
    OBVIOUS
  <2>0. /\ pc \in [Run -> Phase] /\ evidence \in [Run -> BOOLEAN]
        /\ adapter \in [Run -> {"none", "created", "started"}]
        /\ fault \in [Run -> BOOLEAN] /\ stopped \in [Run -> {"no", "ok", "error"}]
        /\ collDone \in [Run -> BOOLEAN]
    BY DEF TypeOK
  <2> USE DEF Stands, Stopped, Phase
  <2>1. CASE UNCHANGED vars
    BY <2>1 DEF vars, runVars, sutVars, collVars
  <2>2. ASSUME NEW r \in Run, GateCanceled(r) PROVE Stands'
    BY <2>2, <2>0 DEF GateCanceled, Go, Join, sutVars, collVars
  <2>3. ASSUME NEW r \in Run, TakeGate(r) PROVE Stands'
    BY <2>3, <2>0 DEF TakeGate, Go, sutVars, collVars
  <2>4. ASSUME NEW r \in Run, Reset(r) PROVE Stands'
    BY <2>4, <2>0 DEF Reset, Go, sutVars, collVars
  <2>5. ASSUME NEW r \in Run, ResetFails(r) PROVE Stands'
    BY <2>5, <2>0 DEF ResetFails, Go, Join, sutVars, collVars
  <2>6. ASSUME NEW r \in Run, Create(r) PROVE Stands'
    BY <2>6, <2>0 DEF Create, Go, sutVars, collVars
  <2>7. ASSUME NEW r \in Run, Start(r) PROVE Stands'
    BY <2>7, <2>0 DEF Start, Go, sutVars, collVars
  <2>8. ASSUME NEW r \in Run, SetupFails(r) PROVE Stands'
    BY <2>8, <2>0 DEF SetupFails, Go, Join, sutVars, collVars
  <2>9. ASSUME NEW r \in Run, Execute(r) PROVE Stands'
    BY <2>9, <2>0 DEF Execute, Go, sutVars, collVars
  <2>10. ASSUME NEW r \in Run, ExecuteWoken(r) PROVE Stands'
    BY <2>10, <2>0 DEF ExecuteWoken, Go, Join, sutVars, collVars
  <2>11. ASSUME NEW r \in Run, ExecuteUncollected(r) PROVE Stands'
    BY <2>11, <2>0 DEF ExecuteUncollected, Go, Join, sutVars, collVars
  <2>12. ASSUME NEW r \in Run, FaultAtStart(r) PROVE Stands'
    BY <2>12, <2>0 DEF FaultAtStart, Go, Join, sutVars, collVars
  <2>13. ASSUME NEW r \in Run, Evaluate(r) PROVE Stands'
    BY <2>13, <2>0 DEF Evaluate, Go, Join, sutVars, collVars
  <2>14. ASSUME NEW r \in Run, BeginCleanup(r) PROVE Stands'
    BY <2>14, <2>0 DEF BeginCleanup, Go, Ended, sutVars, collVars
  <2>15. ASSUME NEW r \in Run, Stop(r) PROVE Stands'
    BY <2>15, <2>0 DEF Stop, Go, sutVars, collVars
  <2>16. ASSUME NEW r \in Run, JoinCollectors(r) PROVE Stands'
    BY <2>16, <2>0 DEF JoinCollectors, Go, If, sutVars, collVars
  <2>17. ASSUME NEW r \in Run, CloseRuntime(r) PROVE Stands'
    BY <2>17, <2>0 DEF CloseRuntime, Go, Join, If, sutVars, collVars
  <2>18. ASSUME NEW r \in Run, Boundary(r) PROVE Stands'
    BY <2>18, <2>0 DEF Boundary, Go, Join, If, sutVars, collVars
  <2>19. ASSUME NEW r \in Run, Leave(r) PROVE Stands'
    BY <2>19, <2>0 DEF Leave, Go, Join, If, sutVars, collVars
  <2>20. ASSUME NEW r \in Run, ExecuteFails(r) PROVE Stands'
    BY <2>20, <2>0 DEF ExecuteFails, Go, Join, sutVars, collVars
  <2>21. ASSUME NEW r \in Run, WatcherCancels(r) PROVE Stands'
    BY <2>21, <2>0 DEF WatcherCancels, Ended, runVars, sutVars, collVars
  <2>22. ASSUME NEW r \in Run, CallerCancels(r) PROVE Stands'
    BY <2>22, <2>0 DEF CallerCancels, Ended, runVars, sutVars, collVars
  <2>23. ASSUME NEW r \in Run, RunTimesOut(r) PROVE Stands'
    BY <2>23, <2>0 DEF RunTimesOut, Ended, runVars, sutVars, collVars
  <2>24. ASSUME NEW r \in Run, Latch(r) PROVE Stands'
    BY <2>24, <2>0 DEF Latch, runVars, collVars
  <2>25. ASSUME NEW r \in Run, NEW w \in Worker, Invoke(r, w) PROVE Stands'
    BY <2>25, <2>0 DEF Invoke, runVars, sutVars
  <2>26. ASSUME NEW r \in Run, NEW w \in Worker, ReadOutcome(r, w) PROVE Stands'
    BY <2>26, <2>0 DEF ReadOutcome, Ended, runVars, sutVars
  <2>27. ASSUME NEW r \in Run, NEW w \in Worker, ReadClosure(r, w) PROVE Stands'
    BY <2>27, <2>0 DEF ReadClosure, Ended, runVars, sutVars
  <2>28. ASSUME NEW r \in Run, NEW w \in Worker, GiveUp(r, w) PROVE Stands'
    BY <2>28, <2>0 DEF GiveUp, Ended, runVars, sutVars
  <2>29. ASSUME NEW r \in Run, NEW w \in Worker, Publish(r, w) PROVE Stands'
    BY <2>29, <2>0 DEF Publish, runVars, collVars
  <2>30. ASSUME NEW r \in Run, NEW w \in Worker, Shut(r, w) PROVE Stands'
    BY <2>30, <2>0 DEF Shut, runVars, collVars
  <2>31. QED
    BY <2>1, <2>2, <2>3, <2>4, <2>5, <2>6, <2>7, <2>8, <2>9, <2>10, <2>11, <2>12,
       <2>13, <2>14, <2>15, <2>16, <2>17, <2>18, <2>19, <2>20, <2>21, <2>22, <2>23,
       <2>24, <2>25, <2>26, <2>27, <2>28, <2>29, <2>30
       DEF Next, RunStep, CollectorStep
<1>3. QED
  BY <1>1, <1>2, RunTypeCorrect, PTL DEF Spec

LEMMA ConcludesAlways == Spec => []Concludes
<1>1. Init => Concludes
  BY ZenonT(60) DEF Init, Concludes, Ending, Collected
<1>2. TypeOK /\ Stands /\ Concludes /\ [Next]_vars => Concludes'
  <2> SUFFICES ASSUME TypeOK, Stands, Concludes, [Next]_vars PROVE Concludes'
    OBVIOUS
  <2>0. /\ pc \in [Run -> Phase] /\ evidence \in [Run -> BOOLEAN]
        /\ errs \in [Run -> SUBSET Cause]
        /\ stopped \in [Run -> {"no", "ok", "error"}]
    BY DEF TypeOK
  <2> USE DEF Stands, Concludes, Collected, Ending, Stopped, Phase
  <2>1. CASE UNCHANGED vars
    BY <2>1 DEF vars, runVars, sutVars, collVars
  <2>2. ASSUME NEW r \in Run, GateCanceled(r) PROVE Concludes'
    BY <2>2, <2>0 DEF GateCanceled, Go, Join, sutVars, collVars
  <2>3. ASSUME NEW r \in Run, TakeGate(r) PROVE Concludes'
    BY <2>3, <2>0 DEF TakeGate, Go, sutVars, collVars
  <2>4. ASSUME NEW r \in Run, Reset(r) PROVE Concludes'
    BY <2>4, <2>0 DEF Reset, Go, sutVars, collVars
  <2>5. ASSUME NEW r \in Run, ResetFails(r) PROVE Concludes'
    BY <2>5, <2>0 DEF ResetFails, Go, Join, sutVars, collVars
  <2>6. ASSUME NEW r \in Run, Create(r) PROVE Concludes'
    BY <2>6, <2>0 DEF Create, Go, sutVars, collVars
  <2>7. ASSUME NEW r \in Run, Start(r) PROVE Concludes'
    BY <2>7, <2>0 DEF Start, Go, sutVars, collVars
  <2>8. ASSUME NEW r \in Run, SetupFails(r) PROVE Concludes'
    BY <2>8, <2>0 DEF SetupFails, Go, Join, sutVars, collVars
  <2>9. ASSUME NEW r \in Run, Execute(r) PROVE Concludes'
    BY <2>9, <2>0 DEF Execute, Go, sutVars, collVars
  <2>10. ASSUME NEW r \in Run, ExecuteWoken(r) PROVE Concludes'
    BY <2>10, <2>0 DEF ExecuteWoken, Go, Join, sutVars, collVars
  <2>11. ASSUME NEW r \in Run, ExecuteUncollected(r) PROVE Concludes'
    BY <2>11, <2>0 DEF ExecuteUncollected, Go, Join, sutVars, collVars
  <2>12. ASSUME NEW r \in Run, FaultAtStart(r) PROVE Concludes'
    BY <2>12, <2>0 DEF FaultAtStart, Go, Join, sutVars, collVars
  <2>13. ASSUME NEW r \in Run, Evaluate(r) PROVE Concludes'
    BY <2>13, <2>0, ZenonT(60) DEF Evaluate, Go, Join, sutVars, collVars
  <2>14. ASSUME NEW r \in Run, BeginCleanup(r) PROVE Concludes'
    BY <2>14, <2>0 DEF BeginCleanup, Go, Ended, sutVars, collVars
  <2>15. ASSUME NEW r \in Run, Stop(r) PROVE Concludes'
    BY <2>15, <2>0 DEF Stop, Go, sutVars, collVars
  <2>16. ASSUME NEW r \in Run, JoinCollectors(r) PROVE Concludes'
    BY <2>16, <2>0 DEF JoinCollectors, Go, If, sutVars, collVars
  <2>17. ASSUME NEW r \in Run, CloseRuntime(r) PROVE Concludes'
    BY <2>17, <2>0 DEF CloseRuntime, Go, Join, If, sutVars, collVars
  <2>18. ASSUME NEW r \in Run, Boundary(r) PROVE Concludes'
    BY <2>18, <2>0 DEF Boundary, Go, Join, If, sutVars, collVars
  <2>19. ASSUME NEW r \in Run, Leave(r) PROVE Concludes'
    BY <2>19, <2>0, ZenonT(60) DEF Leave, Go, Join, If, sutVars, collVars
  <2>20. ASSUME NEW r \in Run, ExecuteFails(r) PROVE Concludes'
    BY <2>20, <2>0 DEF ExecuteFails, Go, Join, sutVars, collVars
  <2>21. ASSUME NEW r \in Run, WatcherCancels(r) PROVE Concludes'
    BY <2>21, <2>0 DEF WatcherCancels, Ended, runVars, sutVars, collVars
  <2>22. ASSUME NEW r \in Run, CallerCancels(r) PROVE Concludes'
    BY <2>22, <2>0 DEF CallerCancels, Ended, runVars, sutVars, collVars
  <2>23. ASSUME NEW r \in Run, RunTimesOut(r) PROVE Concludes'
    BY <2>23, <2>0 DEF RunTimesOut, Ended, runVars, sutVars, collVars
  <2>24. ASSUME NEW r \in Run, Latch(r) PROVE Concludes'
    BY <2>24, <2>0 DEF Latch, runVars, collVars
  <2>25. ASSUME NEW r \in Run, NEW w \in Worker, Invoke(r, w) PROVE Concludes'
    BY <2>25, <2>0 DEF Invoke, runVars, sutVars
  <2>26. ASSUME NEW r \in Run, NEW w \in Worker, ReadOutcome(r, w) PROVE Concludes'
    BY <2>26, <2>0 DEF ReadOutcome, Ended, runVars, sutVars
  <2>27. ASSUME NEW r \in Run, NEW w \in Worker, ReadClosure(r, w) PROVE Concludes'
    BY <2>27, <2>0 DEF ReadClosure, Ended, runVars, sutVars
  <2>28. ASSUME NEW r \in Run, NEW w \in Worker, GiveUp(r, w) PROVE Concludes'
    BY <2>28, <2>0 DEF GiveUp, Ended, runVars, sutVars
  <2>29. ASSUME NEW r \in Run, NEW w \in Worker, Publish(r, w) PROVE Concludes'
    BY <2>29, <2>0 DEF Publish, runVars, collVars
  <2>30. ASSUME NEW r \in Run, NEW w \in Worker, Shut(r, w) PROVE Concludes'
    BY <2>30, <2>0 DEF Shut, runVars, collVars
  <2>31. QED
    BY <2>1, <2>2, <2>3, <2>4, <2>5, <2>6, <2>7, <2>8, <2>9, <2>10, <2>11, <2>12,
       <2>13, <2>14, <2>15, <2>16, <2>17, <2>18, <2>19, <2>20, <2>21, <2>22, <2>23,
       <2>24, <2>25, <2>26, <2>27, <2>28, <2>29, <2>30
       DEF Next, RunStep, CollectorStep
<1>3. QED
  BY <1>1, <1>2, StandsAlways, RunTypeCorrect, PTL DEF Spec

-----------------------------------------------------------------------------
(* A collector and its stream.  The budget of two reads is what an outcome   *)
(* and its closure cost, so no collector gives up a stream that was closed   *)
(* when Stop returned.                                                       *)
Budgeted == \A x \in RW :
  /\ coll[x] \in {"none", "reading"} => budget[x] = ReadBudget /\ ~ collErr[x]
  /\ coll[x] = "probing" => budget[x] = 1

LEMMA BudgetedAlways == Spec => []Budgeted
<1>1. Init => Budgeted
  BY DEF Init, Budgeted
<1>2. TypeOK /\ Budgeted /\ [Next]_vars => Budgeted'
  <2> SUFFICES ASSUME TypeOK, Budgeted, [Next]_vars PROVE Budgeted'
    OBVIOUS
  <2>0. /\ coll \in [RW -> {"none", "reading", "probing", "done"}]
        /\ budget \in [RW -> 0..ReadBudget]
        /\ collErr \in [RW -> BOOLEAN]
    BY DEF TypeOK
  <2> USE DEF Budgeted, ReadBudget
  <2>1. CASE UNCHANGED vars
    BY <2>1 DEF vars, runVars, sutVars, collVars
  <2>2. ASSUME NEW r \in Run, GateCanceled(r) PROVE Budgeted'
    BY <2>2, <2>0 DEF GateCanceled, Go, Join, sutVars, collVars
  <2>3. ASSUME NEW r \in Run, TakeGate(r) PROVE Budgeted'
    BY <2>3, <2>0 DEF TakeGate, Go, sutVars, collVars
  <2>4. ASSUME NEW r \in Run, Reset(r) PROVE Budgeted'
    BY <2>4, <2>0 DEF Reset, Go, sutVars, collVars
  <2>5. ASSUME NEW r \in Run, ResetFails(r) PROVE Budgeted'
    BY <2>5, <2>0 DEF ResetFails, Go, Join, sutVars, collVars
  <2>6. ASSUME NEW r \in Run, Create(r) PROVE Budgeted'
    BY <2>6, <2>0 DEF Create, Go, sutVars, collVars
  <2>7. ASSUME NEW r \in Run, Start(r) PROVE Budgeted'
    BY <2>7, <2>0 DEF Start, Go, sutVars, collVars
  <2>8. ASSUME NEW r \in Run, SetupFails(r) PROVE Budgeted'
    BY <2>8, <2>0 DEF SetupFails, Go, Join, sutVars, collVars
  <2>9. ASSUME NEW r \in Run, Execute(r) PROVE Budgeted'
    BY <2>9, <2>0 DEF Execute, Go, sutVars, collVars
  <2>10. ASSUME NEW r \in Run, ExecuteWoken(r) PROVE Budgeted'
    BY <2>10, <2>0 DEF ExecuteWoken, Go, Join, sutVars, collVars
  <2>11. ASSUME NEW r \in Run, ExecuteUncollected(r) PROVE Budgeted'
    BY <2>11, <2>0 DEF ExecuteUncollected, Go, Join, sutVars, collVars
  <2>12. ASSUME NEW r \in Run, FaultAtStart(r) PROVE Budgeted'
    BY <2>12, <2>0 DEF FaultAtStart, Go, Join, sutVars, collVars
  <2>13. ASSUME NEW r \in Run, Evaluate(r) PROVE Budgeted'
    BY <2>13, <2>0 DEF Evaluate, Go, Join, sutVars, collVars
  <2>14. ASSUME NEW r \in Run, BeginCleanup(r) PROVE Budgeted'
    BY <2>14, <2>0 DEF BeginCleanup, Go, Ended, sutVars, collVars
  <2>15. ASSUME NEW r \in Run, Stop(r) PROVE Budgeted'
    BY <2>15, <2>0 DEF Stop, Go, sutVars, collVars
  <2>16. ASSUME NEW r \in Run, JoinCollectors(r) PROVE Budgeted'
    BY <2>16, <2>0 DEF JoinCollectors, Go, If, sutVars, collVars
  <2>17. ASSUME NEW r \in Run, CloseRuntime(r) PROVE Budgeted'
    BY <2>17, <2>0 DEF CloseRuntime, Go, Join, If, sutVars, collVars
  <2>18. ASSUME NEW r \in Run, Boundary(r) PROVE Budgeted'
    BY <2>18, <2>0 DEF Boundary, Go, Join, If, sutVars, collVars
  <2>19. ASSUME NEW r \in Run, Leave(r) PROVE Budgeted'
    BY <2>19, <2>0 DEF Leave, Go, Join, If, sutVars, collVars
  <2>20. ASSUME NEW r \in Run, ExecuteFails(r) PROVE Budgeted'
    BY <2>20, <2>0 DEF ExecuteFails, Go, Join, sutVars, collVars
  <2>21. ASSUME NEW r \in Run, WatcherCancels(r) PROVE Budgeted'
    BY <2>21, <2>0 DEF WatcherCancels, Ended, runVars, sutVars, collVars
  <2>22. ASSUME NEW r \in Run, CallerCancels(r) PROVE Budgeted'
    BY <2>22, <2>0 DEF CallerCancels, Ended, runVars, sutVars, collVars
  <2>23. ASSUME NEW r \in Run, RunTimesOut(r) PROVE Budgeted'
    BY <2>23, <2>0 DEF RunTimesOut, Ended, runVars, sutVars, collVars
  <2>24. ASSUME NEW r \in Run, Latch(r) PROVE Budgeted'
    BY <2>24, <2>0 DEF Latch, runVars, collVars
  <2>25. ASSUME NEW r \in Run, NEW w \in Worker, Invoke(r, w) PROVE Budgeted'
    BY <2>25, <2>0 DEF Invoke, runVars, sutVars
  <2>26. ASSUME NEW r \in Run, NEW w \in Worker, ReadOutcome(r, w) PROVE Budgeted'
    BY <2>26, <2>0 DEF ReadOutcome, Ended, runVars, sutVars, Left, CanRead
  <2>27. ASSUME NEW r \in Run, NEW w \in Worker, ReadClosure(r, w) PROVE Budgeted'
    BY <2>27, <2>0 DEF ReadClosure, Ended, runVars, sutVars, Left
  <2>28. ASSUME NEW r \in Run, NEW w \in Worker, GiveUp(r, w) PROVE Budgeted'
    BY <2>28, <2>0 DEF GiveUp, Ended, runVars, sutVars
  <2>29. ASSUME NEW r \in Run, NEW w \in Worker, Publish(r, w) PROVE Budgeted'
    BY <2>29, <2>0 DEF Publish, runVars, collVars
  <2>30. ASSUME NEW r \in Run, NEW w \in Worker, Shut(r, w) PROVE Budgeted'
    BY <2>30, <2>0 DEF Shut, runVars, collVars
  <2>31. QED
    BY <2>1, <2>2, <2>3, <2>4, <2>5, <2>6, <2>7, <2>8, <2>9, <2>10, <2>11, <2>12,
       <2>13, <2>14, <2>15, <2>16, <2>17, <2>18, <2>19, <2>20, <2>21, <2>22, <2>23,
       <2>24, <2>25, <2>26, <2>27, <2>28, <2>29, <2>30
       DEF Next, RunStep, CollectorStep
<1>3. QED
  BY <1>1, <1>2, RunTypeCorrect, PTL DEF Spec

(* A collector works until the join, and its stream is closed when Stop      *)
(* succeeded.                                                                *)
Joined == \A r \in Run : pc[r] \in Collected =>
  \A w \in Worker : coll[<<r, w>>] \in {"none", "done"}

AllShut == \A r \in Run : stopped[r] = "ok" => NoneOpen(r)

LEMMA JoinedAlways == Spec => []Joined
<1>1. Init => Joined
  BY DEF Init, Joined, Collected
<1>2. TypeOK /\ SessionInv /\ Joined /\ [Next]_vars => Joined'
  <2> SUFFICES ASSUME TypeOK, Invoked, Joined, [Next]_vars PROVE Joined'
    BY DEF SessionInv
  <2>0. /\ pc \in [Run -> Phase]
        /\ coll \in [RW -> {"none", "reading", "probing", "done"}]
    BY DEF TypeOK
  <2> USE DEF Joined, Invoked, NoneInvoked, Before, Collected, Phase, RW
  <2>1. CASE UNCHANGED vars
    BY <2>1 DEF vars, runVars, sutVars, collVars
  <2>2. ASSUME NEW r \in Run, GateCanceled(r) PROVE Joined'
    BY <2>2, <2>0 DEF GateCanceled, Go, Join, sutVars, collVars
  <2>3. ASSUME NEW r \in Run, TakeGate(r) PROVE Joined'
    BY <2>3, <2>0 DEF TakeGate, Go, sutVars, collVars
  <2>4. ASSUME NEW r \in Run, Reset(r) PROVE Joined'
    BY <2>4, <2>0 DEF Reset, Go, sutVars, collVars
  <2>5. ASSUME NEW r \in Run, ResetFails(r) PROVE Joined'
    BY <2>5, <2>0 DEF ResetFails, Go, Join, sutVars, collVars
  <2>6. ASSUME NEW r \in Run, Create(r) PROVE Joined'
    BY <2>6, <2>0 DEF Create, Go, sutVars, collVars
  <2>7. ASSUME NEW r \in Run, Start(r) PROVE Joined'
    BY <2>7, <2>0 DEF Start, Go, sutVars, collVars
  <2>8. ASSUME NEW r \in Run, SetupFails(r) PROVE Joined'
    BY <2>8, <2>0 DEF SetupFails, Go, Join, sutVars, collVars
  <2>9. ASSUME NEW r \in Run, Execute(r) PROVE Joined'
    BY <2>9, <2>0 DEF Execute, Go, sutVars, collVars
  <2>10. ASSUME NEW r \in Run, ExecuteWoken(r) PROVE Joined'
    BY <2>10, <2>0 DEF ExecuteWoken, Go, Join, sutVars, collVars
  <2>11. ASSUME NEW r \in Run, ExecuteUncollected(r) PROVE Joined'
    BY <2>11, <2>0 DEF ExecuteUncollected, Go, Join, sutVars, collVars
  <2>12. ASSUME NEW r \in Run, FaultAtStart(r) PROVE Joined'
    BY <2>12, <2>0 DEF FaultAtStart, Go, Join, sutVars, collVars
  <2>13. ASSUME NEW r \in Run, Evaluate(r) PROVE Joined'
    BY <2>13, <2>0 DEF Evaluate, Go, Join, sutVars, collVars
  <2>14. ASSUME NEW r \in Run, BeginCleanup(r) PROVE Joined'
    BY <2>14, <2>0 DEF BeginCleanup, Go, Ended, sutVars, collVars
  <2>15. ASSUME NEW r \in Run, Stop(r) PROVE Joined'
    BY <2>15, <2>0 DEF Stop, Go, sutVars, collVars
  <2>16. ASSUME NEW r \in Run, JoinCollectors(r) PROVE Joined'
    BY <2>16, <2>0 DEF JoinCollectors, Go, If, sutVars, collVars
  <2>17. ASSUME NEW r \in Run, CloseRuntime(r) PROVE Joined'
    BY <2>17, <2>0 DEF CloseRuntime, Go, Join, If, sutVars, collVars
  <2>18. ASSUME NEW r \in Run, Boundary(r) PROVE Joined'
    BY <2>18, <2>0 DEF Boundary, Go, Join, If, sutVars, collVars
  <2>19. ASSUME NEW r \in Run, Leave(r) PROVE Joined'
    BY <2>19, <2>0 DEF Leave, Go, Join, If, sutVars, collVars
  <2>20. ASSUME NEW r \in Run, ExecuteFails(r) PROVE Joined'
    BY <2>20, <2>0 DEF ExecuteFails, Go, Join, sutVars, collVars
  <2>21. ASSUME NEW r \in Run, WatcherCancels(r) PROVE Joined'
    BY <2>21, <2>0 DEF WatcherCancels, Ended, runVars, sutVars, collVars
  <2>22. ASSUME NEW r \in Run, CallerCancels(r) PROVE Joined'
    BY <2>22, <2>0 DEF CallerCancels, Ended, runVars, sutVars, collVars
  <2>23. ASSUME NEW r \in Run, RunTimesOut(r) PROVE Joined'
    BY <2>23, <2>0 DEF RunTimesOut, Ended, runVars, sutVars, collVars
  <2>24. ASSUME NEW r \in Run, Latch(r) PROVE Joined'
    BY <2>24, <2>0 DEF Latch, runVars, collVars
  <2>25. ASSUME NEW r \in Run, NEW w \in Worker, Invoke(r, w) PROVE Joined'
    BY <2>25, <2>0 DEF Invoke, runVars, sutVars
  <2>26. ASSUME NEW r \in Run, NEW w \in Worker, ReadOutcome(r, w) PROVE Joined'
    BY <2>26, <2>0 DEF ReadOutcome, Ended, runVars, sutVars
  <2>27. ASSUME NEW r \in Run, NEW w \in Worker, ReadClosure(r, w) PROVE Joined'
    BY <2>27, <2>0 DEF ReadClosure, Ended, runVars, sutVars
  <2>28. ASSUME NEW r \in Run, NEW w \in Worker, GiveUp(r, w) PROVE Joined'
    BY <2>28, <2>0 DEF GiveUp, Ended, runVars, sutVars
  <2>29. ASSUME NEW r \in Run, NEW w \in Worker, Publish(r, w) PROVE Joined'
    BY <2>29, <2>0 DEF Publish, runVars, collVars
  <2>30. ASSUME NEW r \in Run, NEW w \in Worker, Shut(r, w) PROVE Joined'
    BY <2>30, <2>0 DEF Shut, runVars, collVars
  <2>31. QED
    BY <2>1, <2>2, <2>3, <2>4, <2>5, <2>6, <2>7, <2>8, <2>9, <2>10, <2>11, <2>12,
       <2>13, <2>14, <2>15, <2>16, <2>17, <2>18, <2>19, <2>20, <2>21, <2>22, <2>23,
       <2>24, <2>25, <2>26, <2>27, <2>28, <2>29, <2>30
       DEF Next, RunStep, CollectorStep
<1>3. QED
  BY <1>1, <1>2, SessionInvAlways, RunTypeCorrect, PTL DEF Spec

LEMMA AllShutAlways == Spec => []AllShut
<1>1. Init => AllShut
  BY DEF Init, AllShut
<1>2. TypeOK /\ Stands /\ AllShut /\ [Next]_vars => AllShut'
  <2> SUFFICES ASSUME TypeOK, Stands, AllShut, [Next]_vars PROVE AllShut'
    OBVIOUS
  <2>0. /\ pc \in [Run -> Phase]
        /\ stopped \in [Run -> {"no", "ok", "error"}]
        /\ shut \in [RW -> BOOLEAN]
        /\ coll \in [RW -> {"none", "reading", "probing", "done"}]
    BY DEF TypeOK
  <2> USE DEF AllShut, NoneOpen, Stands, Stopped, Phase, RW
  <2>1. CASE UNCHANGED vars
    BY <2>1 DEF vars, runVars, sutVars, collVars
  <2>2. ASSUME NEW r \in Run, GateCanceled(r) PROVE AllShut'
    BY <2>2, <2>0 DEF GateCanceled, Go, Join, sutVars, collVars
  <2>3. ASSUME NEW r \in Run, TakeGate(r) PROVE AllShut'
    BY <2>3, <2>0 DEF TakeGate, Go, sutVars, collVars
  <2>4. ASSUME NEW r \in Run, Reset(r) PROVE AllShut'
    BY <2>4, <2>0 DEF Reset, Go, sutVars, collVars
  <2>5. ASSUME NEW r \in Run, ResetFails(r) PROVE AllShut'
    BY <2>5, <2>0 DEF ResetFails, Go, Join, sutVars, collVars
  <2>6. ASSUME NEW r \in Run, Create(r) PROVE AllShut'
    BY <2>6, <2>0 DEF Create, Go, sutVars, collVars
  <2>7. ASSUME NEW r \in Run, Start(r) PROVE AllShut'
    BY <2>7, <2>0 DEF Start, Go, sutVars, collVars
  <2>8. ASSUME NEW r \in Run, SetupFails(r) PROVE AllShut'
    BY <2>8, <2>0 DEF SetupFails, Go, Join, sutVars, collVars
  <2>9. ASSUME NEW r \in Run, Execute(r) PROVE AllShut'
    BY <2>9, <2>0 DEF Execute, Go, sutVars, collVars
  <2>10. ASSUME NEW r \in Run, ExecuteWoken(r) PROVE AllShut'
    BY <2>10, <2>0 DEF ExecuteWoken, Go, Join, sutVars, collVars
  <2>11. ASSUME NEW r \in Run, ExecuteUncollected(r) PROVE AllShut'
    BY <2>11, <2>0 DEF ExecuteUncollected, Go, Join, sutVars, collVars
  <2>12. ASSUME NEW r \in Run, FaultAtStart(r) PROVE AllShut'
    BY <2>12, <2>0 DEF FaultAtStart, Go, Join, sutVars, collVars
  <2>13. ASSUME NEW r \in Run, Evaluate(r) PROVE AllShut'
    BY <2>13, <2>0 DEF Evaluate, Go, Join, sutVars, collVars
  <2>14. ASSUME NEW r \in Run, BeginCleanup(r) PROVE AllShut'
    BY <2>14, <2>0 DEF BeginCleanup, Go, Ended, sutVars, collVars
  <2>15. ASSUME NEW r \in Run, Stop(r) PROVE AllShut'
    BY <2>15, <2>0, SetsEmpty DEF Stop, Go, sutVars, collVars
  <2>16. ASSUME NEW r \in Run, JoinCollectors(r) PROVE AllShut'
    BY <2>16, <2>0 DEF JoinCollectors, Go, If, sutVars, collVars
  <2>17. ASSUME NEW r \in Run, CloseRuntime(r) PROVE AllShut'
    BY <2>17, <2>0 DEF CloseRuntime, Go, Join, If, sutVars, collVars
  <2>18. ASSUME NEW r \in Run, Boundary(r) PROVE AllShut'
    BY <2>18, <2>0 DEF Boundary, Go, Join, If, sutVars, collVars
  <2>19. ASSUME NEW r \in Run, Leave(r) PROVE AllShut'
    BY <2>19, <2>0 DEF Leave, Go, Join, If, sutVars, collVars
  <2>20. ASSUME NEW r \in Run, ExecuteFails(r) PROVE AllShut'
    BY <2>20, <2>0 DEF ExecuteFails, Go, Join, sutVars, collVars
  <2>21. ASSUME NEW r \in Run, WatcherCancels(r) PROVE AllShut'
    BY <2>21, <2>0 DEF WatcherCancels, Ended, runVars, sutVars, collVars
  <2>22. ASSUME NEW r \in Run, CallerCancels(r) PROVE AllShut'
    BY <2>22, <2>0 DEF CallerCancels, Ended, runVars, sutVars, collVars
  <2>23. ASSUME NEW r \in Run, RunTimesOut(r) PROVE AllShut'
    BY <2>23, <2>0 DEF RunTimesOut, Ended, runVars, sutVars, collVars
  <2>24. ASSUME NEW r \in Run, Latch(r) PROVE AllShut'
    BY <2>24, <2>0 DEF Latch, runVars, collVars
  <2>25. ASSUME NEW r \in Run, NEW w \in Worker, Invoke(r, w) PROVE AllShut'
    BY <2>25, <2>0 DEF Invoke, runVars, sutVars
  <2>26. ASSUME NEW r \in Run, NEW w \in Worker, ReadOutcome(r, w) PROVE AllShut'
    BY <2>26, <2>0 DEF ReadOutcome, Ended, runVars, sutVars
  <2>27. ASSUME NEW r \in Run, NEW w \in Worker, ReadClosure(r, w) PROVE AllShut'
    BY <2>27, <2>0 DEF ReadClosure, Ended, runVars, sutVars
  <2>28. ASSUME NEW r \in Run, NEW w \in Worker, GiveUp(r, w) PROVE AllShut'
    BY <2>28, <2>0 DEF GiveUp, Ended, runVars, sutVars
  <2>29. ASSUME NEW r \in Run, NEW w \in Worker, Publish(r, w) PROVE AllShut'
    BY <2>29, <2>0 DEF Publish, runVars, collVars
  <2>30. ASSUME NEW r \in Run, NEW w \in Worker, Shut(r, w) PROVE AllShut'
    BY <2>30, <2>0 DEF Shut, runVars, collVars
  <2>31. QED
    BY <2>1, <2>2, <2>3, <2>4, <2>5, <2>6, <2>7, <2>8, <2>9, <2>10, <2>11, <2>12,
       <2>13, <2>14, <2>15, <2>16, <2>17, <2>18, <2>19, <2>20, <2>21, <2>22, <2>23,
       <2>24, <2>25, <2>26, <2>27, <2>28, <2>29, <2>30
       DEF Next, RunStep, CollectorStep
<1>3. QED
  BY <1>1, <1>2, StandsAlways, RunTypeCorrect, PTL DEF Spec

(* What a collector read is what its stream carries, and it is only without  *)
(* the closure when Stop failed.                                             *)
Agrees(x) == got[x] = published[x] /\ (collErr[x] <=> published[x] # "worker")

DeliveredAt(r, w) ==
  /\ coll[<<r, w>>] \in {"none", "reading"} => got[<<r, w>>] = Nil
  /\ coll[<<r, w>>] = "probing" => Agrees(<<r, w>>) /\ published[<<r, w>>] # Nil
  /\ coll[<<r, w>>] = "done" =>
       stopped[r] = "error" \/ (Agrees(<<r, w>>) /\ shut[<<r, w>>])

Delivered == \A r \in Run, w \in Worker : DeliveredAt(r, w)

(* A stream and a collector that no step touches stay as they are.           *)
LEMMA Untouched ==
  ASSUME NEW r \in Run, NEW w \in Worker, DeliveredAt(r, w),
         coll'[<<r, w>>] = coll[<<r, w>>], got'[<<r, w>>] = got[<<r, w>>],
         published'[<<r, w>>] = published[<<r, w>>],
         collErr'[<<r, w>>] = collErr[<<r, w>>],
         shut[<<r, w>>] => shut'[<<r, w>>],
         stopped[r] = "error" => stopped'[r] = "error"
  PROVE  DeliveredAt(r, w)'
BY Zenon DEF DeliveredAt, Agrees

(* A stream that was closed when Stop returned is not given up.              *)
LEMMA GivenUp ==
  ASSUME TypeOK, SessionInv, Stands, AllShut, Budgeted,
         NEW r \in Run, NEW w \in Worker, GiveUp(r, w)
  PROVE  stopped[r] = "error"
<1>1. /\ <<r, w>> \in RW /\ coll[<<r, w>>] \in {"reading", "probing"} /\ collDone[r]
      /\ budget[<<r, w>>] = 0 \/ ~ Ready(r, w)
  BY DEF GiveUp, RW
<1>2. adapter[r] # "none"
  BY <1>1 DEF SessionInv, Invoked, NoneInvoked
<1>3. stopped[r] \in {"ok", "error"}
  BY <1>1, <1>2 DEF Stands, TypeOK
<1>4. budget[<<r, w>>] # 0
  BY <1>1 DEF Budgeted, ReadBudget
<1>5. ~ shut[<<r, w>>]
  BY <1>1, <1>4 DEF Ready
<1>6. stopped[r] # "ok"
  BY <1>1, <1>5 DEF AllShut, NoneOpen
<1>7. QED
  BY <1>3, <1>6

LEMMA DeliveredAlways == Spec => []Delivered
<1>1. Init => Delivered
  BY DEF Init, Delivered, DeliveredAt, RW
<1>2. /\ TypeOK /\ SessionInv /\ Stands /\ AllShut /\ Budgeted /\ Delivered
      /\ [Next]_vars
      => Delivered'
  <2> SUFFICES ASSUME TypeOK, SessionInv, Stands, AllShut, Budgeted, Delivered, [Next]_vars
               PROVE  Delivered'
    OBVIOUS
  <2>0. /\ stopped \in [Run -> {"no", "ok", "error"}]
        /\ published \in [RW -> {Nil, "worker", "unstarted"}]
        /\ shut \in [RW -> BOOLEAN]
        /\ coll \in [RW -> {"none", "reading", "probing", "done"}]
        /\ got \in [RW -> {Nil, "worker", "unstarted"}]
        /\ collErr \in [RW -> BOOLEAN]
    BY DEF TypeOK
  <2> DEFINE Same == UNCHANGED <<coll, got, published, shut, collErr>>
  <2>1. ASSUME Same, \A s \in Run : stopped[s] = "error" => stopped'[s] = "error"
        PROVE  Delivered'
    BY <2>1, Untouched DEF Delivered
  <2>2. CASE UNCHANGED vars
    BY <2>1, <2>2 DEF vars, runVars, sutVars, collVars
  <2>3. ASSUME NEW r \in Run, RunStep(r) /\ ~ Stop(r) PROVE Delivered'
    <3>1. Same /\ stopped' = stopped
      BY <2>3 DEF RunStep, GateCanceled, TakeGate, Reset, ResetFails, Create, Start,
         SetupFails, Execute, ExecuteWoken, ExecuteUncollected, FaultAtStart, Evaluate,
         BeginCleanup, JoinCollectors, CloseRuntime, Boundary, Leave, sutVars, collVars
    <3>2. QED
      BY <2>1, <3>1
  <2>4. ASSUME NEW r \in Run, \/ ExecuteFails(r) \/ WatcherCancels(r) \/ CallerCancels(r)
                              \/ RunTimesOut(r) \/ Latch(r)
        PROVE  Delivered'
    <3>1. Same /\ stopped' = stopped
      BY <2>4 DEF ExecuteFails, WatcherCancels, CallerCancels, RunTimesOut, Latch, runVars,
         sutVars, collVars
    <3>2. QED
      BY <2>1, <3>1
  <2>5. ASSUME NEW r \in Run, Stop(r) PROVE Delivered'
    <3>1. Same /\ \A s \in Run \ {r} : stopped'[s] = stopped[s]
      BY <2>5, <2>0 DEF Stop, sutVars, collVars
    <3>2. stopped[r] = "no"
      BY <2>5, <2>0 DEF Stop, Stands, Stopped
    <3>3. QED
      BY <2>1, <3>1, <3>2
  <2>6. ASSUME NEW r \in Run, NEW w \in Worker,
               UNCHANGED stopped,
               \A x \in RW : x # <<r, w>> =>
                 /\ coll'[x] = coll[x] /\ got'[x] = got[x] /\ published'[x] = published[x]
                 /\ collErr'[x] = collErr[x] /\ shut'[x] = shut[x],
               DeliveredAt(r, w)'
        PROVE  Delivered'
    <3> SUFFICES ASSUME NEW s \in Run, NEW v \in Worker PROVE DeliveredAt(s, v)'
      BY DEF Delivered
    <3>1. CASE <<s, v>> = <<r, w>>
      <4>1. s = r /\ v = w
        BY <3>1
      <4>2. QED
        BY <4>1, <2>6
    <3>2. CASE <<s, v>> # <<r, w>>
      <4>1. <<s, v>> \in RW
        BY DEF RW
      <4>2. /\ coll'[<<s, v>>] = coll[<<s, v>>] /\ got'[<<s, v>>] = got[<<s, v>>]
            /\ published'[<<s, v>>] = published[<<s, v>>]
            /\ collErr'[<<s, v>>] = collErr[<<s, v>>] /\ shut'[<<s, v>>] = shut[<<s, v>>]
        BY <2>6, <3>2, <4>1
      <4>3. DeliveredAt(s, v)
        BY DEF Delivered
      <4>4. QED
        BY <2>6, <4>2, <4>3, Untouched
    <3>3. QED
      BY <3>1, <3>2
  <2> USE DEF Delivered
  <2>7. ASSUME NEW r \in Run, NEW w \in Worker, Invoke(r, w) PROVE Delivered'
    <3>1. /\ coll[<<r, w>>] = "none" /\ coll' = [coll EXCEPT ![<<r, w>>] = "reading"]
          /\ UNCHANGED <<got, published, shut, collErr, stopped>>
      BY <2>7 DEF Invoke, runVars, sutVars
    <3>2. coll'[<<r, w>>] = "reading" /\ got'[<<r, w>>] = Nil
      BY <3>1, <2>0 DEF DeliveredAt, RW
    <3>3. DeliveredAt(r, w)'
      BY <3>2 DEF DeliveredAt
    <3>4. \A x \in RW : x # <<r, w>> => coll'[x] = coll[x]
      BY <3>1, <2>0
    <3>5. QED
      BY <3>1, <3>3, <3>4, <2>6
  <2>8. ASSUME NEW r \in Run, NEW w \in Worker, ReadOutcome(r, w) PROVE Delivered'
    <3>1. /\ coll' = [coll EXCEPT ![<<r, w>>] = "probing"]
          /\ published[<<r, w>>] # Nil
          /\ got' = [got EXCEPT ![<<r, w>>] = published[<<r, w>>]]
          /\ collErr' = [collErr EXCEPT ![<<r, w>>] = (published[<<r, w>>] = "unstarted")]
          /\ UNCHANGED <<published, shut, stopped>>
      BY <2>8 DEF ReadOutcome, runVars, sutVars
    <3>2. <<r, w>> \in RW
      BY DEF RW
    <3>3. coll'[<<r, w>>] = "probing" /\ got'[<<r, w>>] = published'[<<r, w>>]
      BY <3>1, <3>2, <2>0
    <3>4. published'[<<r, w>>] # Nil
      BY <3>1
    <3>5. collErr'[<<r, w>>] <=> published'[<<r, w>>] # "worker"
      <4>1. collErr'[<<r, w>>] = (published[<<r, w>>] = "unstarted")
        BY <3>1, <3>2, <2>0
      <4>2. published[<<r, w>>] \in {"worker", "unstarted"}
        BY <3>1, <3>2, <2>0
      <4>3. QED
        BY <3>1, <4>1, <4>2
    <3>6. DeliveredAt(r, w)'
      BY <3>3, <3>4, <3>5 DEF DeliveredAt, Agrees
    <3>7. \A x \in RW : x # <<r, w>> =>
            coll'[x] = coll[x] /\ got'[x] = got[x] /\ collErr'[x] = collErr[x]
      BY <3>1, <2>0
    <3>8. QED
      BY <3>1, <3>6, <3>7, <2>6
  <2>9. ASSUME NEW r \in Run, NEW w \in Worker, ReadClosure(r, w) PROVE Delivered'
    <3>1. /\ shut[<<r, w>>] /\ coll' = [coll EXCEPT ![<<r, w>>] = "done"]
          /\ \/ coll[<<r, w>>] = "probing"
             \/ coll[<<r, w>>] = "reading" /\ published[<<r, w>>] = Nil
          /\ collErr' = [collErr EXCEPT ![<<r, w>>] = @ \/ coll[<<r, w>>] = "reading"]
          /\ UNCHANGED <<published, shut, stopped, got>>
      BY <2>9 DEF ReadClosure, runVars, sutVars
    <3>2. <<r, w>> \in RW
      BY DEF RW
    <3>3. got[<<r, w>>] = published[<<r, w>>]
      BY <3>1 DEF DeliveredAt, Agrees
    <3>4. collErr'[<<r, w>>] <=> published[<<r, w>>] # "worker"
      <4>1. collErr'[<<r, w>>] <=> collErr[<<r, w>>] \/ coll[<<r, w>>] = "reading"
        BY <3>1, <3>2, <2>0
      <4>2. CASE coll[<<r, w>>] = "probing"
        BY <4>1, <4>2 DEF DeliveredAt, Agrees
      <4>3. CASE coll[<<r, w>>] = "reading" /\ published[<<r, w>>] = Nil
        BY <4>1, <4>3, NilAssumption
      <4>4. QED
        BY <3>1, <4>2, <4>3
    <3>5. coll'[<<r, w>>] = "done"
      BY <3>1, <3>2, <2>0
    <3>6. DeliveredAt(r, w)'
      BY <3>1, <3>3, <3>4, <3>5 DEF DeliveredAt, Agrees
    <3>7. \A x \in RW : x # <<r, w>> => coll'[x] = coll[x] /\ collErr'[x] = collErr[x]
      BY <3>1, <2>0
    <3>8. QED
      BY <3>1, <3>6, <3>7, <2>6
  <2>10. ASSUME NEW r \in Run, NEW w \in Worker, GiveUp(r, w) PROVE Delivered'
    <3>1. /\ coll' = [coll EXCEPT ![<<r, w>>] = "done"]
          /\ collErr' = [collErr EXCEPT ![<<r, w>>] = TRUE]
          /\ UNCHANGED <<published, shut, stopped, got>>
      BY <2>10 DEF GiveUp, runVars, sutVars
    <3>2. stopped'[r] = "error" /\ <<r, w>> \in RW
      BY <2>10, <3>1, GivenUp DEF RW
    <3>3. coll'[<<r, w>>] = "done"
      BY <3>1, <3>2, <2>0
    <3>4. DeliveredAt(r, w)'
      BY <3>2, <3>3 DEF DeliveredAt
    <3>5. \A x \in RW : x # <<r, w>> => coll'[x] = coll[x] /\ collErr'[x] = collErr[x]
      BY <3>1, <2>0
    <3>6. QED
      BY <3>1, <3>4, <3>5, <2>6
  <2>11. ASSUME NEW r \in Run, NEW w \in Worker, Publish(r, w) PROVE Delivered'
    <3>1. /\ published[<<r, w>>] = Nil /\ ~ shut[<<r, w>>] /\ coll[<<r, w>>] # "none"
          /\ \E o : published' = [published EXCEPT ![<<r, w>>] = o]
          /\ UNCHANGED <<coll, got, shut, collErr, stopped>>
      BY <2>11 DEF Publish, OpenOf, InvokedOf, runVars, collVars
    <3>2. /\ coll[<<r, w>>] # "probing"
          /\ coll[<<r, w>>] = "done" => stopped[r] = "error"
          /\ coll[<<r, w>>] \in {"none", "reading"} => got[<<r, w>>] = Nil
      BY <3>1 DEF DeliveredAt
    <3>3. DeliveredAt(r, w)'
      BY <3>1, <3>2 DEF DeliveredAt
    <3>4. \A x \in RW : x # <<r, w>> => published'[x] = published[x]
      BY <3>1, <2>0
    <3>5. QED
      BY <3>1, <3>3, <3>4, <2>6
  <2>12. ASSUME NEW r \in Run, NEW w \in Worker, Shut(r, w) PROVE Delivered'
    <3>1. /\ shut' = [shut EXCEPT ![<<r, w>>] = TRUE]
          /\ UNCHANGED <<coll, got, published, collErr, stopped>>
      BY <2>12 DEF Shut, runVars, collVars
    <3>2. <<r, w>> \in RW
      BY DEF RW
    <3>3. shut'[<<r, w>>] /\ \A x \in RW : x # <<r, w>> => shut'[x] = shut[x]
      BY <3>1, <3>2, <2>0
    <3>4. DeliveredAt(r, w)'
      BY <3>1, <3>3, Untouched
    <3>5. QED
      BY <3>1, <3>3, <3>4, <2>6
  <2>13. QED
    BY <2>2, <2>3, <2>4, <2>5, <2>7, <2>8, <2>9, <2>10, <2>11, <2>12
       DEF Next, CollectorStep
<1>3. QED
  BY <1>1, <1>2, StandsAlways, AllShutAlways, BudgetedAlways, SessionInvAlways,
     RunTypeCorrect, PTL DEF Spec

-----------------------------------------------------------------------------
(* An evaluation stands on workers that were all read to their end.          *)
Evaluated == \A r \in Run :
  pc[r] = "evaluate" \/ evidence[r] => \A w \in Worker : Vouched(r, w)

(* A collector that is done is never touched again.                          *)
LEMMA VouchedStays ==
  ASSUME TypeOK, [Next]_vars, NEW r \in Run, NEW w \in Worker, Vouched(r, w)
  PROVE  Vouched(r, w)'
<1> USE DEF Vouched
<1>0. <<r, w>> \in RW /\ coll \in [RW -> {"none", "reading", "probing", "done"}]
  BY DEF TypeOK, RW
<1>1. CASE UNCHANGED <<coll, got, collErr>>
  BY <1>1
<1>2. CASE UNCHANGED vars
  BY <1>2 DEF vars, collVars
<1>3. ASSUME NEW s \in Run,
             \/ RunStep(s) \/ ExecuteFails(s) \/ WatcherCancels(s)
             \/ CallerCancels(s) \/ RunTimesOut(s) \/ Latch(s)
      PROVE  UNCHANGED <<coll, got, collErr>>
  BY <1>3 DEF RunStep, GateCanceled, TakeGate, Reset, ResetFails, Create, Start,
     SetupFails, Execute, ExecuteWoken, ExecuteUncollected, FaultAtStart, Evaluate,
     BeginCleanup, Stop, JoinCollectors, CloseRuntime, Boundary, Leave, ExecuteFails,
     WatcherCancels, CallerCancels, RunTimesOut, Latch, collVars
<1>4. ASSUME NEW s \in Run, NEW v \in Worker, Invoke(s, v) \/ CollectorStep(s, v)
      PROVE  Vouched(r, w)'
  <2>1. /\ coll[<<s, v>>] # "done"
        /\ \A x \in RW : x # <<s, v>> => coll'[x] = coll[x]
        /\ \A x \in RW : x # <<s, v>> => got'[x] = got[x]
    BY <1>4, <1>0 DEF Invoke, CollectorStep, ReadOutcome, ReadClosure, GiveUp, TypeOK
  <2>2. \A x \in RW : x # <<s, v>> => collErr'[x] = collErr[x]
    BY <1>4, <1>0 DEF Invoke, CollectorStep, ReadOutcome, ReadClosure, GiveUp, TypeOK
  <2>3. <<r, w>> # <<s, v>>
    BY <2>1
  <2>4. QED
    BY <1>0, <2>1, <2>2, <2>3
<1>5. ASSUME NEW s \in Run, NEW v \in Worker, Publish(s, v) \/ Shut(s, v)
      PROVE  UNCHANGED <<coll, got, collErr>>
  BY <1>5 DEF Publish, Shut, collVars
<1>6. QED
  BY <1>1, <1>2, <1>3, <1>4, <1>5 DEF Next

LEMMA EvaluatedAlways == Spec => []Evaluated
<1>1. Init => Evaluated
  BY DEF Init, Evaluated
<1>2. TypeOK /\ Evaluated /\ [Next]_vars => Evaluated'
  <2> SUFFICES ASSUME TypeOK, Evaluated, [Next]_vars, NEW r \in Run,
                      pc'[r] = "evaluate" \/ evidence'[r], NEW w \in Worker
               PROVE  Vouched(r, w)'
    BY DEF Evaluated
  <2> DEFINE Origin == pc[r] = "evaluate" \/ evidence[r] \/ Execute(r)
  <2>1. Origin
    <3>0. pc \in [Run -> Phase] /\ evidence \in [Run -> BOOLEAN]
      BY DEF TypeOK
    <3>1. CASE UNCHANGED <<pc, evidence>>
      BY <3>1
    <3>2. ASSUME NEW s \in Run, RunStep(s) PROVE Origin
      BY <3>0, <3>2 DEF RunStep, GateCanceled, TakeGate, Reset, ResetFails, Create, Start,
         SetupFails, Execute, ExecuteWoken, ExecuteUncollected, FaultAtStart, Evaluate,
         BeginCleanup, Stop, JoinCollectors, CloseRuntime, Boundary, Leave, Go
    <3>3. ASSUME NEW s \in Run, ExecuteFails(s) PROVE Origin
      BY <3>0, <3>3 DEF ExecuteFails, Go
    <3>4. ASSUME NEW s \in Run,
                 \/ WatcherCancels(s) \/ CallerCancels(s) \/ RunTimesOut(s) \/ Latch(s)
                 \/ \E v \in Worker :
                      Invoke(s, v) \/ CollectorStep(s, v) \/ Publish(s, v) \/ Shut(s, v)
          PROVE  UNCHANGED <<pc, evidence>>
      BY <3>4 DEF WatcherCancels, CallerCancels, RunTimesOut, Latch, Invoke, CollectorStep,
         ReadOutcome, ReadClosure, GiveUp, Publish, Shut, runVars
    <3>5. QED
      BY <3>1, <3>2, <3>3, <3>4 DEF Next, vars, runVars
  <2>2. Vouched(r, w)
    BY <2>1 DEF Evaluated, Execute
  <2>3. QED
    BY <2>2, VouchedStays
<1>3. QED
  BY <1>1, <1>2, RunTypeCorrect, PTL DEF Spec

-----------------------------------------------------------------------------
(* What a session and its collectors have shown, and the end of the run's     *)
(* context, stay.                                                            *)
LEMMA CausesStay ==
  ASSUME TypeOK, Stands, Budgeted, [Next]_vars, NEW r \in Run
  PROVE  /\ FaultSeen(r) => FaultSeen(r)'
         /\ CollectionFailed(r) => CollectionFailed(r)'
         /\ ctx[r] >= 2 => ctx'[r] >= 2
<1>0. /\ coll \in [RW -> {"none", "reading", "probing", "done"}]
      /\ collErr \in [RW -> BOOLEAN] /\ ctx \in [Run -> 0..3]
      /\ adapter \in [Run -> {"none", "created", "started"}]
      /\ fault \in [Run -> BOOLEAN]
  BY DEF TypeOK
<1>1. CASE UNCHANGED vars
  BY <1>1 DEF vars, runVars, sutVars, collVars, FaultSeen, CollectionFailed
<1>2. ASSUME NEW s \in Run, RunStep(s) \/ ExecuteFails(s)
      PROVE  UNCHANGED <<fault, collErr>> /\ (adapter[r] = "started" => adapter'[r] = "started")
  BY <1>0, <1>2 DEF RunStep, GateCanceled, TakeGate, Reset, ResetFails, Create, Start,
     SetupFails, Execute, ExecuteWoken, ExecuteUncollected, FaultAtStart, Evaluate,
     BeginCleanup, Stop, JoinCollectors, CloseRuntime, Boundary, Leave, ExecuteFails,
     sutVars, collVars, Stands
<1>3. ASSUME NEW s \in Run, RunStep(s) \/ ExecuteFails(s)
      PROVE  ctx' = ctx \/ Ended(s, 1)
  BY <1>3 DEF RunStep, GateCanceled, TakeGate, Reset, ResetFails, Create, Start,
     SetupFails, Execute, ExecuteWoken, ExecuteUncollected, FaultAtStart, Evaluate,
     BeginCleanup, Stop, JoinCollectors, CloseRuntime, Boundary, Leave, ExecuteFails
<1>4. ASSUME NEW s \in Run, WatcherCancels(s) \/ CallerCancels(s) \/ RunTimesOut(s)
      PROVE  /\ UNCHANGED <<fault, collErr, adapter>>
             /\ \E level \in 1..3 : Ended(s, level)
  BY <1>4 DEF WatcherCancels, CallerCancels, RunTimesOut, runVars, sutVars, collVars
<1>5. ASSUME NEW s \in Run, Latch(s)
      PROVE  UNCHANGED <<ctx, adapter, collErr>> /\ (fault[r] => fault'[r])
  BY <1>0, <1>5 DEF Latch, runVars, collVars
<1>6. ASSUME NEW s \in Run, NEW w \in Worker, CollectorStep(s, w)
      PROVE  /\ UNCHANGED <<fault, adapter>> /\ (ctx' = ctx \/ Ended(s, 1))
             /\ \A v \in Worker : collErr[<<r, v>>] => collErr'[<<r, v>>]
  <2>1. UNCHANGED <<fault, adapter>> /\ (ctx' = ctx \/ Ended(s, 1))
    BY <1>6 DEF CollectorStep, ReadOutcome, ReadClosure, GiveUp, runVars, sutVars
  <2>2. \A x \in RW : x # <<s, w>> => collErr'[x] = collErr[x]
    BY <1>0, <1>6 DEF CollectorStep, ReadOutcome, ReadClosure, GiveUp
  <2>3. collErr[<<s, w>>] => collErr'[<<s, w>>]
    <3>0. <<s, w>> \in RW
      BY DEF RW
    <3>1. CASE ReadOutcome(s, w)
      BY <3>0, <3>1 DEF ReadOutcome, Budgeted
    <3>2. CASE ReadClosure(s, w)
      BY <3>0, <3>2, <1>0 DEF ReadClosure
    <3>3. CASE GiveUp(s, w)
      BY <3>0, <3>3, <1>0 DEF GiveUp
    <3>4. QED
      BY <1>6, <3>1, <3>2, <3>3 DEF CollectorStep
  <2>4. ASSUME NEW v \in Worker, collErr[<<r, v>>] PROVE collErr'[<<r, v>>]
    <3>1. CASE <<r, v>> = <<s, w>>
      BY <3>1, <2>3, <2>4
    <3>2. CASE <<r, v>> # <<s, w>>
      BY <3>2, <2>2, <2>4 DEF RW
    <3>3. QED
      BY <3>1, <3>2
  <2>5. QED
    BY <2>1, <2>4
<1>7. ASSUME NEW s \in Run, NEW w \in Worker, Invoke(s, w) \/ Publish(s, w) \/ Shut(s, w)
      PROVE  UNCHANGED <<fault, adapter, ctx, collErr>>
  BY <1>7 DEF Invoke, Publish, Shut, runVars, sutVars, collVars
<1>8. ASSUME NEW s \in Run, NEW level \in 1..3, Ended(s, level)
      PROVE  ctx[r] >= 2 => ctx'[r] >= 2
  BY <1>0, <1>8 DEF Ended
<1> USE DEF FaultSeen, CollectionFailed
<1>9. CASE \E s \in Run : RunStep(s) \/ ExecuteFails(s)
  BY <1>2, <1>3, <1>8, <1>9
<1>10. CASE \E s \in Run : WatcherCancels(s) \/ CallerCancels(s) \/ RunTimesOut(s)
  BY <1>4, <1>8, <1>10
<1>11. CASE \E s \in Run : Latch(s)
  BY <1>5, <1>11
<1>12. CASE \E s \in Run, w \in Worker : CollectorStep(s, w)
  BY <1>6, <1>8, <1>12
<1>13. CASE \E s \in Run, w \in Worker : Invoke(s, w) \/ Publish(s, w) \/ Shut(s, w)
  BY <1>7, <1>13
<1>14. QED
  BY <1>1, <1>9, <1>10, <1>11, <1>12, <1>13 DEF Next

(* Only a fault, a collector or the cleanup ends the execution of a run alone. *)
LEMMA EndOfExecution ==
  ASSUME TypeOK, SessionInv, [Next]_vars, NEW r \in Run, ctx[r] # 1, ctx'[r] = 1
  PROVE  /\ pc[r] \notin Before
         /\ pc[r] = "cleanup" \/ FaultSeen(r)' \/ CollectionFailed(r)'
<1>0. /\ coll \in [RW -> {"none", "reading", "probing", "done"}]
      /\ collErr \in [RW -> BOOLEAN] /\ ctx \in [Run -> 0..3]
      /\ fault \in [Run -> BOOLEAN]
  BY DEF TypeOK
<1>1. ctx' # ctx
  OBVIOUS
<1>2. ASSUME NEW s \in Run, NEW level \in 1..3, Ended(s, level) PROVE s = r /\ level = 1
  BY <1>0, <1>2 DEF Ended
<1>3. ASSUME NEW s \in Run, RunStep(s) PROVE BeginCleanup(s) /\ Ended(s, 1)
  BY <1>1, <1>3 DEF RunStep, GateCanceled, TakeGate, Reset, ResetFails, Create, Start,
     SetupFails, Execute, ExecuteWoken, ExecuteUncollected, FaultAtStart, Evaluate,
     BeginCleanup, Stop, JoinCollectors, CloseRuntime, Boundary, Leave
<1>4. ASSUME NEW s \in Run, BeginCleanup(s), Ended(s, 1)
      PROVE  pc[r] = "cleanup"
  BY <1>2, <1>4 DEF BeginCleanup
<1>5. ASSUME NEW s \in Run, WatcherCancels(s) \/ CallerCancels(s) \/ RunTimesOut(s)
      PROVE  pc[r] \in {"execute", "evaluate", "cleanup", "stopping", "joining"} /\ FaultSeen(r)'
  BY <1>2, <1>5 DEF WatcherCancels, CallerCancels, RunTimesOut, FaultSeen, runVars, sutVars
<1>6. ASSUME NEW s \in Run, NEW w \in Worker, CollectorStep(s, w)
      PROVE  pc[r] \notin Before /\ CollectionFailed(r)'
  <2>1. /\ Ended(s, 1) /\ coll[<<s, w>>] # "none"
        /\ ReadOutcome(s, w) \/ ReadClosure(s, w) => collErr'[<<s, w>>]
        /\ GiveUp(s, w) => collErr' = [collErr EXCEPT ![<<s, w>>] = TRUE]
    BY <1>1, <1>6 DEF CollectorStep, ReadOutcome, ReadClosure, GiveUp
  <2>2. collErr'[<<s, w>>]
    BY <1>0, <1>6, <2>1 DEF CollectorStep, RW
  <2>3. s = r
    BY <1>2, <2>1
  <2>4. QED
    BY <2>1, <2>2, <2>3 DEF CollectionFailed, SessionInv, Invoked, NoneInvoked
<1>7. ASSUME NEW s \in Run,
             \/ ExecuteFails(s) \/ Latch(s)
             \/ \E w \in Worker : Invoke(s, w) \/ Publish(s, w) \/ Shut(s, w)
      PROVE  FALSE
  BY <1>1, <1>7 DEF ExecuteFails, Latch, Invoke, Publish, Shut
<1>8. QED
  BY <1>1, <1>3, <1>4, <1>5, <1>6, <1>7 DEF Next, vars, Before

(* Once the collectors were joined, what they found wrong is reported.       *)
Told == \A r \in Run :
  pc[r] \in Collected /\ CollectionFailed(r) => "collector" \in errs[r]

LEMMA ToldAlways == Spec => []Told
<1>1. Init => Told
  BY DEF Init, Told, Collected
<1>2. /\ TypeOK /\ SessionInv /\ Rebuilt /\ Budgeted /\ Joined /\ Told /\ [Next]_vars
      => Told'
  <2> SUFFICES ASSUME TypeOK, SessionInv, Rebuilt, Budgeted, Joined, Told, [Next]_vars,
                      NEW r \in Run, pc'[r] \in Collected, CollectionFailed(r)'
               PROVE  "collector" \in errs'[r]
    BY DEF Told
  <2>0. /\ coll \in [RW -> {"none", "reading", "probing", "done"}]
        /\ collErr \in [RW -> BOOLEAN] /\ pc \in [Run -> Phase]
        /\ errs \in [Run -> SUBSET Cause]
    BY DEF TypeOK
  <2>1. CASE CollectionFailed(r) /\ pc[r] \in Collected
    BY <2>1, ErrorsStay DEF Told
  <2>2. ASSUME ~ CollectionFailed(r)
        PROVE  \E w \in Worker : coll[<<r, w>>] \in {"reading", "probing"}
    <3>1. PICK w \in Worker : collErr'[<<r, w>>]
      BY DEF CollectionFailed
    <3>2. ~ collErr[<<r, w>>]
      BY <2>2 DEF CollectionFailed
    <3>3. PICK s \in Run, v \in Worker : CollectorStep(s, v)
      BY <3>1, <3>2, ZenonT(60) DEF Next, RunStep, GateCanceled, TakeGate, Reset, ResetFails, Create,
         Start, SetupFails, Execute, ExecuteWoken, ExecuteUncollected, FaultAtStart,
         Evaluate, BeginCleanup, Stop, JoinCollectors, CloseRuntime, Boundary, Leave,
         ExecuteFails, WatcherCancels, CallerCancels, RunTimesOut, Latch, Invoke, Publish,
         Shut, collVars, vars
    <3>4. \A x \in RW : x # <<s, v>> => collErr'[x] = collErr[x]
      BY <2>0, <3>3 DEF CollectorStep, ReadOutcome, ReadClosure, GiveUp
    <3>5. <<s, v>> = <<r, w>>
      BY <3>1, <3>2, <3>4 DEF RW
    <3>6. coll[<<s, v>>] \in {"reading", "probing"}
      BY <3>3 DEF CollectorStep, ReadOutcome, ReadClosure, GiveUp
    <3>7. QED
      BY <3>5, <3>6
  <2>3. CASE pc[r] \in Collected /\ ~ CollectionFailed(r)
    BY <2>2, <2>3 DEF Joined
  <2>4. CASE pc[r] \notin Collected
    <3>1. GateCanceled(r) \/ ResetFails(r) \/ JoinCollectors(r)
      <4>1. pc' # pc
        BY <2>4
      <4>2. PICK s \in Run : RunStep(s) \/ ExecuteFails(s)
        <5>1. ASSUME NEW s \in Run,
                     \/ WatcherCancels(s) \/ CallerCancels(s) \/ RunTimesOut(s) \/ Latch(s)
                     \/ \E w \in Worker :
                          Invoke(s, w) \/ CollectorStep(s, w) \/ Publish(s, w) \/ Shut(s, w)
              PROVE  pc' = pc
          BY <5>1 DEF WatcherCancels, CallerCancels, RunTimesOut, Latch, Invoke,
             CollectorStep, ReadOutcome, ReadClosure, GiveUp, Publish, Shut, runVars
        <5>2. QED
          BY <4>1, <5>1 DEF Next, vars, runVars
      <4>3. \E to : pc' = [pc EXCEPT ![s] = to]
        BY <4>2 DEF RunStep, GateCanceled, TakeGate, Reset, ResetFails, Create, Start,
           SetupFails, Execute, ExecuteWoken, ExecuteUncollected, FaultAtStart, Evaluate,
           BeginCleanup, Stop, JoinCollectors, CloseRuntime, Boundary, Leave,
           ExecuteFails, Go
      <4>4. s = r
        BY <2>0, <2>4, <4>3
      <4>5. QED
        BY <2>0, <2>4, <4>2, <4>4 DEF RunStep, GateCanceled, TakeGate, Reset, ResetFails,
           Create, Start, SetupFails, Execute, ExecuteWoken, ExecuteUncollected,
           FaultAtStart, Evaluate, BeginCleanup, Stop, JoinCollectors, CloseRuntime,
           Boundary, Leave, ExecuteFails, Go, Collected
    <3>2. CASE GateCanceled(r) \/ ResetFails(r)
      <4>1. \A w \in Worker : coll[<<r, w>>] = "none"
        BY <3>2 DEF GateCanceled, ResetFails, SessionInv, Invoked, Before, NoneInvoked
      <4>2. ~ CollectionFailed(r)
        BY <4>1 DEF CollectionFailed, Budgeted, RW
      <4>3. QED
        BY <2>2, <4>1, <4>2
    <3>3. CASE JoinCollectors(r)
      <4>1. CollectionFailed(r)
        BY <3>3 DEF JoinCollectors, collVars, CollectionFailed
      <4>2. QED
        BY <2>0, <3>3, <4>1 DEF JoinCollectors, If
    <3>4. QED
      BY <3>1, <3>2, <3>3
  <2>5. QED
    BY <2>1, <2>3, <2>4
<1>3. QED
  BY <1>1, <1>2, RebuiltAlways, BudgetedAlways, JoinedAlways, SessionInvAlways,
     RunTypeCorrect, PTL DEF Spec

(* What can end an execution before the run's context does.                  *)
Reasons(r) ==
  {c \in {"fault", "collector"} : \/ c = "fault" /\ FaultSeen(r)
                                  \/ c = "collector" /\ CollectionFailed(r)}

(* An execution is woken up for a reason, and the reason is reported in the   *)
(* end: the session's fault, a collector's error, or the end of the context. *)
(* step is where a run is, level its context, e its errors, why its reasons.   *)
WokenIf(step, level, e, why) ==
  /\ step \in Before => level # 1
  /\ step \in {"execute", "evaluate"} /\ level = 1 => why # {}
  /\ "wakeup" \in e =>
       /\ step \in {"cleanup", "stopping", "joining", "closing"} => why # {} \/ level >= 2
       /\ step = "boundary" => "fault" \in e \/ "collector" \in why \/ level >= 2
       /\ step \in {"leaving", "returned"} =>
            "fault" \in e \/ "collector" \in why \/ "ctx" \in e

Woken == \A r \in Run : WokenIf(pc[r], ctx[r], errs[r], Reasons(r))

(* What a step of a run does to its place, its context and its errors.       *)
Moves(p, q, d, e, k, l, why) ==
  \/ p = q /\ d = e
  \/ p \in Before /\ k = l /\ "wakeup" \notin e
  \/ /\ p \in {"execute", "evaluate"} /\ q \in {"evaluate", "cleanup"} /\ k = l
     /\ "wakeup" \notin e
  \/ p = "execute" /\ q = "cleanup" /\ k = l /\ k > 0
  \/ p \in {"cleanup", "stopping"} /\ q \in {"stopping", "joining"} /\ d = e
  \/ p = "joining" /\ q = "closing" /\ ("wakeup" \in e => "wakeup" \in d)
  \/ /\ p = "closing" /\ q = "boundary" /\ ("wakeup" \in e => "wakeup" \in d)
     /\ "fault" \in why => "fault" \in e
  \/ /\ p = "boundary" /\ q = "leaving" /\ ("wakeup" \in e => "wakeup" \in d)
     /\ d \subseteq e /\ (k >= 2 => "ctx" \in e)
  \/ /\ p = "leaving" /\ q = "returned" /\ ("wakeup" \in e => "wakeup" \in d)
     /\ d \subseteq e

(* A step that moves a run so, and takes back no cause, keeps the reason.    *)
LEMMA WokenStep ==
  ASSUME NEW p, NEW q, NEW d, NEW e, NEW k \in 0..3, NEW l \in 0..3,
         NEW why \in SUBSET {"fault", "collector"},
         NEW next \in SUBSET {"fault", "collector"},
         WokenIf(p, k, d, why), Moves(p, q, d, e, k, l, why), why \subseteq next,
         k >= 2 => l >= 2,
         k # 1 /\ l = 1 => p \notin Before /\ (p = "cleanup" \/ next # {})
  PROVE  WokenIf(q, l, e, next)
<1> USE DEF WokenIf, Before
<1>1. CASE p = q /\ d = e
  BY <1>1
<1>2. CASE p \in Before /\ k = l /\ "wakeup" \notin e
  BY <1>2
<1>3. CASE /\ p \in {"execute", "evaluate"} /\ q \in {"evaluate", "cleanup"} /\ k = l
           /\ "wakeup" \notin e
  BY <1>3
<1>4. CASE p = "execute" /\ q = "cleanup" /\ k = l /\ k > 0
  <2>1. k = 1 => next # {}
    BY <1>4
  <2>2. next # {} \/ l >= 2
    BY <1>4, <2>1
  <2>3. QED
    BY <1>4, <2>2
<1>5. CASE p \in {"cleanup", "stopping"} /\ q \in {"stopping", "joining"} /\ d = e
  BY <1>5
<1>6. CASE p = "joining" /\ q = "closing" /\ ("wakeup" \in e => "wakeup" \in d)
  BY <1>6
<1>7. CASE /\ p = "closing" /\ q = "boundary" /\ ("wakeup" \in e => "wakeup" \in d)
           /\ "fault" \in why => "fault" \in e
  BY <1>7
<1>8. CASE /\ p = "boundary" /\ q = "leaving" /\ ("wakeup" \in e => "wakeup" \in d)
           /\ d \subseteq e /\ (k >= 2 => "ctx" \in e)
  BY <1>8
<1>9. CASE /\ p = "leaving" /\ q = "returned" /\ ("wakeup" \in e => "wakeup" \in d)
           /\ d \subseteq e
  BY <1>9
<1>10. QED
  BY <1>1, <1>2, <1>3, <1>4, <1>5, <1>6, <1>7, <1>8, <1>9 DEF Moves

LEMMA WokenAlways == Spec => []Woken
<1>1. Init => Woken
  <2> SUFFICES ASSUME Init, NEW r \in Run
               PROVE  WokenIf(pc[r], ctx[r], errs[r], Reasons(r))
    BY DEF Woken
  <2>1. pc[r] = "gate" /\ ctx[r] = 0 /\ errs[r] = {}
    BY DEF Init
  <2>2. QED
    BY <2>1 DEF WokenIf
<1>2. /\ TypeOK /\ SessionInv /\ Stands /\ Rebuilt /\ Budgeted /\ Woken /\ TypeOK' /\ [Next]_vars
      => Woken'
  <2> SUFFICES ASSUME TypeOK, SessionInv, Stands, Rebuilt, Budgeted, Woken, TypeOK', [Next]_vars,
                      NEW r \in Run
               PROVE  WokenIf(pc'[r], ctx'[r], errs'[r], Reasons(r)')
    BY DEF Woken
  <2> DEFINE Moved == Moves(pc[r], pc'[r], errs[r], errs'[r], ctx[r], ctx'[r], Reasons(r))
  <2>0. /\ pc \in [Run -> Phase] /\ errs \in [Run -> SUBSET Cause] /\ ctx \in [Run -> 0..3]
        /\ ctx' \in [Run -> 0..3]
    BY DEF TypeOK
  <2>1. /\ Reasons(r) \subseteq Reasons(r)'
        /\ ctx[r] >= 2 => ctx'[r] >= 2
        /\ ctx[r] # 1 /\ ctx'[r] = 1 =>
             pc[r] \notin Before /\ (pc[r] = "cleanup" \/ Reasons(r)' # {})
    BY CausesStay, EndOfExecution DEF Reasons
  <2>2. pc[r] \notin Ending \cup {"returned"} => errs[r] = {}
    BY DEF Rebuilt
  <2>3. SUFFICES Moved
    <3>1. WokenIf(pc[r], ctx[r], errs[r], Reasons(r))
      BY DEF Woken
    <3>2. /\ Reasons(r) \in SUBSET {"fault", "collector"}
          /\ Reasons(r)' \in SUBSET {"fault", "collector"}
      BY DEF Reasons
    <3>3. ctx[r] \in 0..3 /\ ctx'[r] \in 0..3
      BY <2>0
    <3>4. QED
      BY <2>1, <2>3, <3>1, <3>2, <3>3, WokenStep, ZenonT(60)
  <2> USE <2>0 DEF Moves
  <2>4. ASSUME NEW s \in Run, RunStep(s) \/ ExecuteFails(s), s # r
        PROVE  Moved
    <3>1. pc'[r] = pc[r] /\ errs'[r] = errs[r]
      BY <2>4 DEF RunStep, GateCanceled, TakeGate, Reset, ResetFails, Create, Start,
         SetupFails, Execute, ExecuteWoken, ExecuteUncollected, FaultAtStart, Evaluate,
         BeginCleanup, Stop, JoinCollectors, CloseRuntime, Boundary, Leave, ExecuteFails,
         Go, Join
    <3>2. QED
      BY <3>1
  <2>5. ASSUME NEW s \in Run,
               \/ WatcherCancels(s) \/ CallerCancels(s) \/ RunTimesOut(s) \/ Latch(s)
               \/ \E w \in Worker :
                    Invoke(s, w) \/ CollectorStep(s, w) \/ Publish(s, w) \/ Shut(s, w)
        PROVE  Moved
    BY <2>5 DEF WatcherCancels, CallerCancels, RunTimesOut, Latch, Invoke, CollectorStep,
       ReadOutcome, ReadClosure, GiveUp, Publish, Shut, runVars
  <2>6. CASE \/ GateCanceled(r) \/ TakeGate(r) \/ Reset(r) \/ ResetFails(r) \/ Create(r)
             \/ Start(r) \/ SetupFails(r)
    BY <2>2, <2>6 DEF GateCanceled, TakeGate, Reset, ResetFails, Create, Start,
       SetupFails, Join, Before, Ending
  <2>7. CASE \/ Execute(r) \/ ExecuteUncollected(r) \/ FaultAtStart(r) \/ ExecuteFails(r)
             \/ Evaluate(r)
    BY <2>2, <2>7 DEF Execute, ExecuteUncollected, FaultAtStart, ExecuteFails, Evaluate,
       Go, Join, Ending
  <2>8. CASE ExecuteWoken(r)
    BY <2>8 DEF ExecuteWoken, Go
  <2>9. CASE BeginCleanup(r) \/ Stop(r)
    BY <2>9 DEF BeginCleanup, Stop, Go
  <2>10. CASE JoinCollectors(r)
    BY <2>10 DEF JoinCollectors, Go, If
  <2>11. CASE CloseRuntime(r)
    BY <2>11 DEF CloseRuntime, Go, Join, If, Reasons
  <2>12. CASE Boundary(r)
    BY <2>12 DEF Boundary, Go, Join, If
  <2>13. CASE Leave(r)
    BY <2>13 DEF Leave, Go, Join, If
  <2>14. CASE UNCHANGED vars
    BY <2>14 DEF vars, runVars
  <2>15. CASE RunStep(r) \/ ExecuteFails(r)
    BY <2>6, <2>7, <2>8, <2>9, <2>10, <2>11, <2>12, <2>13, <2>15 DEF RunStep
  <2>16. QED
    BY <2>4, <2>5, <2>14, <2>15 DEF Next
<1>3. QED
  BY <1>1, <1>2, StandsAlways, RebuiltAlways, BudgetedAlways, SessionInvAlways,
     RunTypeCorrect, PTL DEF Spec

-----------------------------------------------------------------------------
(* What a run returns is true (run.go:77-109, 164-210): an evaluation only    *)
(* from a clean session, every failure of Stop and of a collector, the reason *)
(* of a wakeup, and no outcome lost to the order of cancellation and reads.  *)
THEOREM ReportCorrect == Spec => []ReportIsTrue
<1>1. ASSUME TypeOK, Stands, Concludes, Evaluated, AllShut, Delivered PROVE CleanRun
  <2> SUFFICES ASSUME NEW r \in Run, pc[r] = "returned", evidence[r]
               PROVE  /\ stopped[r] = "ok" /\ ~ fault[r]
                      /\ \A w \in Worker : Vouched(r, w) /\ shut[<<r, w>>]
    BY <1>1 DEF CleanRun, Concludes
  <2>1. errs[r] = {} /\ stopped[r] # "error"
    BY <1>1 DEF Concludes, Collected
  <2>2. stopped[r] # "no"
    BY <1>1 DEF Stands, Stopped
  <2>3. stopped[r] = "ok" /\ ~ fault[r]
    BY <1>1, <2>1, <2>2 DEF TypeOK, Stands
  <2>4. ASSUME NEW w \in Worker PROVE Vouched(r, w) /\ shut[<<r, w>>]
    <3>1. Vouched(r, w)
      BY <1>1 DEF Evaluated
    <3>2. QED
      BY <1>1, <2>3, <3>1 DEF Vouched, AllShut, NoneOpen
  <2>5. QED
    BY <2>3, <2>4
<1>2. ASSUME Concludes, Told, Woken PROVE FailuresReported
  <2> SUFFICES ASSUME NEW r \in Run, pc[r] = "returned"
               PROVE  /\ stopped[r] = "error" => "stop" \in errs[r]
                      /\ CollectionFailed(r) => "collector" \in errs[r]
                      /\ errs[r] # {"wakeup"}
    BY DEF FailuresReported
  <2>1. stopped[r] = "error" => "stop" \in errs[r]
    BY <1>2 DEF Concludes, Collected
  <2>2. CollectionFailed(r) => "collector" \in errs[r]
    BY <1>2 DEF Told, Collected
  <2>3. errs[r] # {"wakeup"}
    BY <1>2, <2>2 DEF Woken, WokenIf, Reasons
  <2>4. QED
    BY <2>1, <2>2, <2>3
<1>3. ASSUME TypeOK, Joined, Delivered PROVE OutcomesKept
  <2> SUFFICES ASSUME NEW r \in Run, pc[r] = "returned", stopped[r] = "ok",
                      NEW w \in InvokedOf(r)
               PROVE  Agrees(<<r, w>>)
    BY DEF OutcomesKept, Agrees
  <2>1. w \in Worker /\ coll[<<r, w>>] = "done"
    BY <1>3 DEF InvokedOf, Joined, Collected
  <2>2. QED
    BY <1>3, <2>1 DEF Delivered, DeliveredAt
<1>4. QED
  BY <1>1, <1>2, <1>3, RunTypeCorrect, StandsAlways, ConcludesAlways, EvaluatedAlways,
     AllShutAlways, DeliveredAlways, ToldAlways, WokenAlways, JoinedAlways, PTL
     DEF ReportIsTrue

-----------------------------------------------------------------------------
(* The MySQL fixture.                                                         *)

(* FixtureSafe speaks of the handle that Ready accepts, and Ready fails under *)
(* the quarantine; what a teardown or a reset leaves behind has to be known   *)
(* under it as well.  A valid descriptor of a provisioned fixture stands for  *)
(* a usable container, and a session that was left over for a running one.   *)
FixtureInv ==
    /\ Fixture!TypeOK
    /\ provisioned /\ db \in valid => Fixture!Usable(db)
    /\ live \subseteq {container}
    /\ strays \subseteq live
    /\ strays # {} => latched
    /\ session # Fixture!Nobody => Fixture!Ready(session)

LEMMA FixtureInvSafe == FixtureInv => Fixture!FixtureSafe
<1> SUFFICES ASSUME FixtureInv PROVE Fixture!FixtureSafe
  OBVIOUS
<1>1. \A h : Fixture!Ready(h) => Fixture!Usable(h)
  BY DEF FixtureInv, Fixture!Ready
<1>2. QED
  BY <1>1 DEF FixtureInv, Fixture!FixtureSafe

(* Without a container nothing runs, so nothing was left over.               *)
LEMMA NothingRuns ==
  ASSUME Fixture!FixtureAssumption, FixtureInv, container = Fixture!Nobody
  PROVE  live = {} /\ strays = {}
BY DEF Fixture!FixtureAssumption, FixtureInv, Fixture!TypeOK, Fixture!Nobody

(* A start that may happen leaves one container, whether it fails or not.    *)
LEMMA ProvisionKeeps ==
  ASSUME Fixture!FixtureAssumption, FixtureInv, Fixture!Provision \/ Fixture!ProvisionFails
  PROVE  FixtureInv'
<1>1. /\ live = {} /\ strays = {} /\ ~ provisioned /\ container = Fixture!Nobody
      /\ made \in Nat /\ made' = made + 1 /\ made' \in 1..Containers
  BY NothingRuns DEF Fixture!Provision, Fixture!ProvisionFails, Fixture!MayProvision,
     Fixture!FixtureAssumption,
     FixtureInv, Fixture!TypeOK
<1>2. session = Fixture!Nobody
  BY <1>1 DEF FixtureInv, Fixture!Ready
<1>3. 1..made \subseteq 1..made' /\ 0..made \subseteq 0..made' /\ made' \in Fixture!Ids
  BY <1>1 DEF Fixture!Ids
<1>4. CASE Fixture!Provision
  <2>1. /\ live' \subseteq 1..made' /\ valid' \subseteq 1..made'
        /\ strays' = {} /\ made' \in 0..Containers
    BY <1>1, <1>3, <1>4 DEF Fixture!Provision, FixtureInv, Fixture!TypeOK
  <2>2. data' \in [Fixture!Ids -> {"absent", "partial", "seeded", "used"}]
    BY <1>3, <1>4 DEF Fixture!Provision, FixtureInv, Fixture!TypeOK
  <2>3. {container', db', session'} \subseteq 0..made'
    BY <1>1, <1>2, <1>4 DEF Fixture!Provision, Fixture!Nobody
  <2>4. {provisioned', pool', latched', tornDown'} \subseteq BOOLEAN
    BY <1>4 DEF Fixture!Provision
  <2>5. Fixture!TypeOK'
    BY <2>1, <2>2, <2>3, <2>4 DEF Fixture!TypeOK
  <2>6. Fixture!Usable(db)'
    BY <1>1, <1>3, <1>4 DEF Fixture!Provision, Fixture!Usable, FixtureInv, Fixture!TypeOK
  <2>7. QED
    BY <1>1, <1>2, <1>4, <2>5, <2>6 DEF Fixture!Provision, FixtureInv
<1>5. CASE Fixture!ProvisionFails
  <2>1. live' \subseteq {made'} /\ live' \subseteq {container'}
    BY <1>1, <1>5 DEF Fixture!ProvisionFails
  <2>2. container' \in {Fixture!Nobody, made'}
    BY <1>5 DEF Fixture!ProvisionFails
  <2>3. data' \in [Fixture!Ids -> {"absent", "partial", "seeded", "used"}]
    BY <1>5 DEF Fixture!ProvisionFails, FixtureInv, Fixture!TypeOK
  <2>4. Fixture!TypeOK'
    BY <1>1, <1>3, <1>5, <2>1, <2>2, <2>3
       DEF Fixture!ProvisionFails, FixtureInv, Fixture!TypeOK, Fixture!Nobody
  <2>5. QED
    BY <1>1, <1>2, <1>5, <2>1, <2>4 DEF Fixture!ProvisionFails, FixtureInv
<1>6. QED
  BY <1>4, <1>5

(* Whatever a reset leaves, only a whole database keeps its descriptor.      *)
LEMMA ResetKeeps ==
  ASSUME Fixture!FixtureAssumption, FixtureInv,
         NEW h \in Fixture!Ids, Fixture!Reset(h) \/ Fixture!ResetFails(h)
  PROVE  FixtureInv'
<1>1. /\ session = Fixture!Nobody /\ h = db /\ db \in Fixture!Ids
      /\ db # Fixture!Nobody /\ Fixture!Usable(db)
  BY DEF Fixture!Reset, Fixture!ResetFails, Fixture!Ready, FixtureInv
<1>2. CASE Fixture!Reset(h)
  <2>1. Fixture!TypeOK'
    BY <1>1, <1>2 DEF Fixture!Reset, FixtureInv, Fixture!TypeOK
  <2>2. Fixture!Usable(db)'
    BY <1>1, <1>2 DEF Fixture!Reset, Fixture!Usable, FixtureInv, Fixture!TypeOK
  <2>3. Fixture!Ready(session)'
    BY <1>1, <1>2 DEF Fixture!Reset, Fixture!Ready
  <2>4. QED
    BY <1>2, <2>1, <2>2, <2>3 DEF Fixture!Reset, FixtureInv
<1>3. CASE Fixture!ResetFails(h)
  <2>1. /\ data' \in [Fixture!Ids -> {"absent", "partial", "seeded", "used"}]
        /\ pool' \in BOOLEAN
    BY <1>1, <1>3 DEF Fixture!ResetFails, FixtureInv, Fixture!TypeOK
  <2>2. Fixture!TypeOK'
    BY <1>3, <2>1 DEF Fixture!ResetFails, FixtureInv, Fixture!TypeOK
  <2>3. db' \notin valid' /\ session' = Fixture!Nobody
    BY <1>1, <1>3 DEF Fixture!ResetFails
  <2>4. QED
    BY <1>3, <2>2, <2>3 DEF Fixture!ResetFails, FixtureInv
<1>4. QED
  BY <1>2, <1>3

(* A session writes rows and leaves the tables.                              *)
LEMMA WriteKeeps ==
  ASSUME Fixture!FixtureAssumption, FixtureInv, Fixture!Write
  PROVE  FixtureInv'
<1>1. PICK c \in ({session} \cup strays) \cap live :
        data' = [data EXCEPT ![c] = IF data[c] = "partial" THEN "partial" ELSE "used"]
  BY DEF Fixture!Write
<1>2. Fixture!TypeOK'
  BY <1>1 DEF Fixture!Write, FixtureInv, Fixture!TypeOK
<1>3. Fixture!Usable(db) /\ db \in Fixture!Ids => Fixture!Usable(db)'
  BY <1>1 DEF Fixture!Write, Fixture!Usable, FixtureInv, Fixture!TypeOK
<1>4. Fixture!Ready(session) => Fixture!Ready(session)'
  BY DEF Fixture!Write, Fixture!Ready
<1>5. provisioned /\ db \in valid => Fixture!Usable(db)'
  <2> SUFFICES ASSUME provisioned, db \in valid PROVE Fixture!Usable(db)'
    OBVIOUS
  <2>1. db \in 1..made /\ made \in 0..Containers
    BY DEF FixtureInv, Fixture!TypeOK
  <2>2. Fixture!Usable(db)
    BY DEF FixtureInv
  <2>3. db \in Fixture!Ids
    BY <2>1 DEF Fixture!Ids, Fixture!FixtureAssumption
  <2>4. QED
    BY <1>3, <2>2, <2>3
<1>6. QED
  BY <1>2, <1>4, <1>5 DEF Fixture!Write, FixtureInv

(* A run that could not be stopped works in a container that still runs.     *)
LEMMA QuarantineKeeps ==
  ASSUME FixtureInv, Fixture!Quarantine
  PROVE  FixtureInv'
<1>1. session # Fixture!Nobody => session \in live /\ session \in 1..made
  BY DEF FixtureInv, Fixture!Ready, Fixture!Usable, Fixture!TypeOK
<1>2. strays' \subseteq live /\ strays' \subseteq 1..made
  BY <1>1 DEF Fixture!Quarantine, FixtureInv, Fixture!TypeOK
<1>3. Fixture!TypeOK'
  <2>1. {container', db', session'} \subseteq 0..made'
    BY DEF Fixture!Quarantine, FixtureInv, Fixture!TypeOK, Fixture!Nobody
  <2>2. QED
    BY <1>2, <2>1 DEF Fixture!Quarantine, FixtureInv, Fixture!TypeOK
<1>4. QED
  BY <1>2, <1>3 DEF Fixture!Quarantine, FixtureInv

(* Teardown forgets the container only when it ended.                        *)
LEMMA TeardownKeeps ==
  ASSUME FixtureInv, Fixture!Teardown
  PROVE  FixtureInv'
<1>1. /\ live' \subseteq live /\ strays' \subseteq live' /\ strays' \subseteq strays
      /\ session' = Fixture!Nobody /\ (db' \notin valid' \/ ~ provisioned')
  BY DEF Fixture!Teardown, Fixture!Terminated
<1>2. container' = container \/ (container' = Fixture!Nobody /\ live' = {})
  BY DEF Fixture!Teardown, Fixture!Terminated, FixtureInv
<1>3. Fixture!TypeOK'
  <2>1. {container', db', session'} \subseteq 0..made'
    BY DEF Fixture!Teardown, FixtureInv, Fixture!TypeOK, Fixture!Nobody
  <2>2. {provisioned', pool', latched', tornDown'} \subseteq BOOLEAN
    BY Zenon DEF Fixture!Teardown, FixtureInv, Fixture!TypeOK
  <2>3. QED
    BY <1>1, <2>1, <2>2 DEF Fixture!Teardown, FixtureInv, Fixture!TypeOK
<1>4. live' \subseteq {container'}
  BY <1>1, <1>2 DEF FixtureInv
<1>5. QED
  BY <1>1, <1>3, <1>4 DEF Fixture!Teardown, FixtureInv

(* A fixture that nothing was asked of.                                       *)
LEMMA FixtureStarts ==
  ASSUME Fixture!FixtureAssumption, Fixture!Init
  PROVE  FixtureInv
<1>1. /\ made = 0 /\ container = 0 /\ db = 0 /\ session = 0
      /\ live = {} /\ valid = {} /\ strays = {}
      /\ {container, db, session} = {0} /\ made \in 0..Containers
      /\ data \in [Fixture!Ids -> {"absent", "partial", "seeded", "used"}]
  BY DEF Fixture!Init, Fixture!FixtureAssumption, Fixture!Nobody
<1>2. {provisioned, pool, latched, tornDown} \subseteq BOOLEAN
  BY DEF Fixture!Init
<1>3. Fixture!TypeOK
  BY <1>1, <1>2 DEF Fixture!TypeOK
<1>4. QED
  BY <1>3 DEF Fixture!Init, FixtureInv

(* One lemma per operation, and the operations that change one thing.         *)
LEMMA FixtureKept ==
  ASSUME Fixture!FixtureAssumption, FixtureInv, [Fixture!Next]_(Fixture!vars)
  PROVE  FixtureInv'
<1>1. CASE UNCHANGED Fixture!vars
  BY <1>1 DEF Fixture!vars, FixtureInv, Fixture!TypeOK, Fixture!Usable, Fixture!Ready
<1>2. CASE Fixture!Provision \/ Fixture!ProvisionFails
  BY <1>2, ProvisionKeeps
<1>3. ASSUME NEW h \in Fixture!Ids, Fixture!Reset(h) \/ Fixture!ResetFails(h)
      PROVE  FixtureInv'
  BY <1>3, ResetKeeps
<1>4. CASE Fixture!Write
  BY <1>4, WriteKeeps
<1>5. CASE Fixture!EndRun
  <2>1. Fixture!TypeOK'
    BY <1>5 DEF Fixture!EndRun, FixtureInv, Fixture!TypeOK, Fixture!Nobody
  <2>2. QED
    BY <1>5, <2>1 DEF Fixture!EndRun, FixtureInv, Fixture!Usable
<1>6. CASE Fixture!Quarantine
  BY <1>6, QuarantineKeeps
<1>7. ASSUME NEW c \in Fixture!Ids, Fixture!StrayEnds(c) PROVE FixtureInv'
  BY <1>7 DEF Fixture!StrayEnds, FixtureInv, Fixture!TypeOK, Fixture!Usable, Fixture!Ready
<1>8. CASE Fixture!TeardownOfNothing
  BY <1>8 DEF Fixture!TeardownOfNothing, Fixture!NothingToTearDown, FixtureInv,
     Fixture!TypeOK, Fixture!Usable, Fixture!Ready
<1>9. CASE Fixture!Teardown
  BY <1>9, TeardownKeeps
<1>10. QED
  BY <1>1, <1>2, <1>3, <1>4, <1>5, <1>6, <1>7, <1>8, <1>9 DEF Fixture!Next
(* After any failures of starts, resets, teardowns and stops, a handle that   *)
(* Ready accepts leads to the whole database of the one running container,   *)
(* in which no earlier session works; and no container is lost.              *)
THEOREM FixtureCorrect ==
  ASSUME Fixture!FixtureAssumption
  PROVE  Fixture!Spec => []Fixture!FixtureSafe
<1>1. Fixture!Init => FixtureInv
  BY FixtureStarts
<1>2. FixtureInv /\ [Fixture!Next]_(Fixture!vars) => FixtureInv'
  BY FixtureKept
<1>3. QED
  BY <1>1, <1>2, FixtureInvSafe, PTL DEF Fixture!Spec

(* The behaviours of the run that belong to the fixture keep to it, and those *)
(* of the other parts leave its variables alone.                              *)
THEOREM FixtureIsSafeCorrect == MCSpec => []FixtureIsSafe
<1> DEFINE OfFixture == who = "fixture" => FixtureInv
<1>1. Fixture!FixtureAssumption
  BY InstancesAssumption
<1>2. MCInit => OfFixture
  BY <1>1, FixtureStarts DEF MCInit
<1>3. OfFixture /\ [MCNext]_all => OfFixture'
  <2> SUFFICES ASSUME OfFixture, [MCNext]_all, who' = "fixture" PROVE FixtureInv'
    OBVIOUS
  <2>1. who = "fixture" /\ [Fixture!Next]_(Fixture!vars)
    BY DEF MCNext, RunNext, FixtureNext, SpaceNext, CommandNext, NativeMoves,
       ExternalMoves, all, others, fixture, Fixture!vars
  <2>2. QED
    BY <1>1, <2>1, FixtureKept
<1>4. OfFixture => FixtureIsSafe
  BY FixtureInvSafe DEF FixtureIsSafe
<1>5. QED
  BY <1>2, <1>3, <1>4, PTL DEF MCSpec
============================================================================
