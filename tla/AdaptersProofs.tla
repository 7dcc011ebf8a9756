--------------------------- MODULE AdaptersProofs ---------------------------
(* Theorems about the Go-native adapter, for every set of invocations and    *)
(* workers, and about the sum of the adapters that is model-checked, for     *)
(* every set of invocations of its parts.                                    *)
EXTENDS MCAdapters, TLAPS

(* What a field may say of an invocation depends on how far it came: without *)
(* a connection it holds none, and an end without an outcome was preceded by *)
(* the fault.  Behind the failure of its command it knows a cause.           *)
Progress ==
  \A i \in Invocation :
    /\ phase[i] \in {"none", "connecting"} => ~conn[i]
    /\ outcome[i] # Nil => ~conn[i]
    /\ phase[i] \in {"completing", "complete"} /\ outcome[i] = Nil => fault
    /\ phase[i] \in {"faulting", "completing"} /\ cause[i] = Nil => outcome[i] = "worker"

(* A stopped session takes no new invocation, so Stop waits for all of them, *)
(* and its success is final.                                                 *)
StopKnows ==
  /\ stop.pc # "idle" => session = "stopped" /\ Unfinished \subseteq stop.await
  /\ stop.pc = "ok" => ~fault /\ Unfinished = {}

NativeInv == TypeOK /\ Progress /\ StopKnows /\ OneInvocationPerWorker

LEMMA NativeInvKept == NativeInv => InvocationsKept
<1> SUFFICES ASSUME NativeInv PROVE NothingHeld
  BY DEF NativeInv, InvocationsKept
<1>1. ASSUME stop.pc = "ok", NEW i \in Invocation PROVE ~conn[i]
  <2>1. phase[i] \in {"none", "complete"}
    BY <1>1 DEF NativeInv, StopKnows, Unfinished
  <2>2. QED
    BY <1>1, <2>1 DEF NativeInv, StopKnows, Progress
<1>2. QED
  BY <1>1 DEF NativeInv, NothingHeld, Progress

-----------------------------------------------------------------------------
(* Every field keeps its shape, and goes with the phase of its invocation.   *)
LEMMA TypeStep ==
  ASSUME NativeInv, [Next]_vars
  PROVE  TypeOK'
<1>1. CASE UNCHANGED vars
  BY <1>1 DEF vars, NativeInv, TypeOK
<1>2. CASE Start
  BY <1>2 DEF Start, NativeInv, TypeOK
<1>3. CASE CancelParent
  BY <1>3 DEF CancelParent, NativeInv, TypeOK
<1>4. CASE BeginStop
  <2>1. Unfinished \subseteq Invocation
    BY DEF Unfinished
  <2>2. QED
    BY <1>4, <2>1 DEF BeginStop, NativeInv, TypeOK
<1>5. CASE AskedAll
  BY <1>5 DEF AskedAll, NativeInv, TypeOK
<1>6. CASE StopExpires
  BY <1>6 DEF StopExpires, NativeInv, TypeOK
<1>7. CASE StopReturns
  BY <1>7 DEF StopReturns, NativeInv, TypeOK
<1>8. ASSUME NEW i \in Invocation, NEW w \in Worker, Invoke(i, w) PROVE TypeOK'
  BY <1>8, NilAssumption DEF Invoke, Active, NativeInv, TypeOK
<1>9. ASSUME NEW i \in Invocation, WatchParent(i) PROVE TypeOK'
  BY <1>9, NilAssumption DEF WatchParent, Moves, Canceled, ParentCause, NativeInv, TypeOK
<1>10. ASSUME NEW i \in Invocation, Connect(i) PROVE TypeOK'
  BY <1>10, NilAssumption DEF Connect, Moves, Canceled, ParentCause, NativeInv, TypeOK
<1>11. ASSUME NEW i \in Invocation, ConnectFails(i) PROVE TypeOK'
  BY <1>11, NilAssumption DEF ConnectFails, Moves, Canceled, ParentCause, NativeInv, TypeOK
<1>12. ASSUME NEW i \in Invocation, Accept(i) PROVE TypeOK'
  BY <1>12, NilAssumption DEF Accept, Moves, Canceled, ParentCause, NativeInv, TypeOK
<1>13. ASSUME NEW i \in Invocation, AcceptRefused(i) PROVE TypeOK'
  BY <1>13, NilAssumption DEF AcceptRefused, CloseConnection, Moves, Canceled, ParentCause, NativeInv, TypeOK
<1>14. ASSUME NEW i \in Invocation, FailSession(i) PROVE TypeOK'
  BY <1>14, NilAssumption DEF FailSession, Moves, Canceled, ParentCause, NativeInv, TypeOK
<1>15. ASSUME NEW i \in Invocation, CompleteWorker(i) PROVE TypeOK'
  BY <1>15, NilAssumption DEF CompleteWorker, Moves, Canceled, ParentCause, NativeInv, TypeOK
<1>16. ASSUME NEW i \in Invocation, CommandSettled(i) PROVE TypeOK'
  BY <1>16, NilAssumption DEF CommandSettled, CloseConnection, Moves, Canceled, ParentCause, NativeInv, TypeOK
<1>17. ASSUME NEW i \in Invocation, CommandUnstarted(i) PROVE TypeOK'
  BY <1>17, NilAssumption DEF CommandUnstarted, CloseConnection, Moves, Canceled, ParentCause, NativeInv, TypeOK
<1>18. ASSUME NEW i \in Invocation, CommandUnknown(i) PROVE TypeOK'
  BY <1>18, NilAssumption DEF CommandUnknown, CloseConnection, Moves, Canceled, ParentCause, NativeInv, TypeOK
<1>19. ASSUME NEW i \in Invocation, AskToStop(i) PROVE TypeOK'
  BY <1>19, NilAssumption DEF AskToStop, Moves, Canceled, ParentCause, NativeInv, TypeOK
<1>20. ASSUME NEW i \in Invocation, StopCollects(i) PROVE TypeOK'
  BY <1>20, NilAssumption DEF StopCollects, Moves, Canceled, ParentCause, NativeInv, TypeOK
<1>21. QED
  BY <1>1, <1>2, <1>3, <1>4, <1>5, <1>6, <1>7, <1>8, <1>9, <1>10, <1>11, <1>12, <1>13, <1>14, <1>15, <1>16, <1>17, <1>18, <1>19, <1>20 DEF Next, StopStep, WorkerStep, CommandReturns

(* What each phase says of connection, outcome, fault and cause stays true.  *)
LEMMA ProgressStep ==
  ASSUME NativeInv, [Next]_vars
  PROVE  Progress'
<1>1. CASE UNCHANGED vars
  BY <1>1 DEF vars, NativeInv, TypeOK, Progress
<1>2. CASE Start
  BY <1>2 DEF Start, NativeInv, TypeOK, Progress
<1>3. CASE CancelParent
  BY <1>3 DEF CancelParent, NativeInv, TypeOK, Progress
<1>4. CASE BeginStop
  BY <1>4 DEF BeginStop, NativeInv, TypeOK, Progress
<1>5. CASE AskedAll
  BY <1>5 DEF AskedAll, NativeInv, TypeOK, Progress
<1>6. CASE StopExpires
  BY <1>6 DEF StopExpires, NativeInv, TypeOK, Progress
<1>7. CASE StopReturns
  BY <1>7 DEF StopReturns, NativeInv, TypeOK, Progress
<1>8. ASSUME NEW i \in Invocation, NEW w \in Worker, Invoke(i, w) PROVE Progress'
  BY <1>8, NilAssumption DEF Invoke, Active, NativeInv, TypeOK, Progress
<1>9. ASSUME NEW i \in Invocation, WatchParent(i) PROVE Progress'
  BY <1>9, NilAssumption DEF WatchParent, Moves, Canceled, ParentCause, NativeInv, TypeOK, Progress
<1>10. ASSUME NEW i \in Invocation, Connect(i) PROVE Progress'
  BY <1>10, NilAssumption DEF Connect, Moves, Canceled, ParentCause, NativeInv, TypeOK, Progress
<1>11. ASSUME NEW i \in Invocation, ConnectFails(i) PROVE Progress'
  BY <1>11, NilAssumption DEF ConnectFails, Moves, Canceled, ParentCause, NativeInv, TypeOK, Progress
<1>12. ASSUME NEW i \in Invocation, Accept(i) PROVE Progress'
  BY <1>12, NilAssumption DEF Accept, Moves, Canceled, ParentCause, NativeInv, TypeOK, Progress
<1>13. ASSUME NEW i \in Invocation, AcceptRefused(i) PROVE Progress'
  BY <1>13, NilAssumption DEF AcceptRefused, CloseConnection, Moves, Canceled, ParentCause, NativeInv, TypeOK, Progress
<1>14. ASSUME NEW i \in Invocation, FailSession(i) PROVE Progress'
  BY <1>14, NilAssumption DEF FailSession, Moves, Canceled, ParentCause, NativeInv, TypeOK, Progress
<1>15. ASSUME NEW i \in Invocation, CompleteWorker(i) PROVE Progress'
  BY <1>15, NilAssumption DEF CompleteWorker, Moves, Canceled, ParentCause, NativeInv, TypeOK, Progress
<1>16. ASSUME NEW i \in Invocation, CommandSettled(i) PROVE Progress'
  BY <1>16, NilAssumption DEF CommandSettled, CloseConnection, Moves, Canceled, ParentCause, NativeInv, TypeOK, Progress
<1>17. ASSUME NEW i \in Invocation, CommandUnstarted(i) PROVE Progress'
  BY <1>17, NilAssumption DEF CommandUnstarted, CloseConnection, Moves, Canceled, ParentCause, NativeInv, TypeOK, Progress
<1>18. ASSUME NEW i \in Invocation, CommandUnknown(i) PROVE Progress'
  BY <1>18, NilAssumption DEF CommandUnknown, CloseConnection, Moves, Canceled, ParentCause, NativeInv, TypeOK, Progress
<1>19. ASSUME NEW i \in Invocation, AskToStop(i) PROVE Progress'
  BY <1>19, NilAssumption DEF AskToStop, Moves, Canceled, ParentCause, NativeInv, TypeOK, Progress
<1>20. ASSUME NEW i \in Invocation, StopCollects(i) PROVE Progress'
  BY <1>20, NilAssumption DEF StopCollects, Moves, Canceled, ParentCause, NativeInv, TypeOK, Progress
<1>21. QED
  BY <1>1, <1>2, <1>3, <1>4, <1>5, <1>6, <1>7, <1>8, <1>9, <1>10, <1>11, <1>12, <1>13, <1>14, <1>15, <1>16, <1>17, <1>18, <1>19, <1>20 DEF Next, StopStep, WorkerStep, CommandReturns

(* Nothing begins, and no fault comes, behind the answer of Stop.            *)
LEMMA StopKnowsStep ==
  ASSUME NativeInv, [Next]_vars
  PROVE  StopKnows'
<1>1. CASE UNCHANGED vars
  BY <1>1 DEF vars, NativeInv, TypeOK, StopKnows, Unfinished
<1>2. CASE Start
  BY <1>2 DEF Start, NativeInv, TypeOK, StopKnows, Unfinished
<1>3. CASE CancelParent
  BY <1>3 DEF CancelParent, NativeInv, TypeOK, StopKnows, Unfinished
<1>4. CASE BeginStop
  BY <1>4 DEF BeginStop, NativeInv, TypeOK, StopKnows, Unfinished
<1>5. CASE AskedAll
  BY <1>5 DEF AskedAll, NativeInv, TypeOK, StopKnows, Unfinished
<1>6. CASE StopExpires
  BY <1>6 DEF StopExpires, NativeInv, TypeOK, StopKnows, Unfinished
<1>7. CASE StopReturns
  BY <1>7 DEF StopReturns, NativeInv, TypeOK, StopKnows, Unfinished
<1>8. ASSUME NEW i \in Invocation, NEW w \in Worker, Invoke(i, w) PROVE StopKnows'
  BY <1>8, NilAssumption DEF Invoke, Active, NativeInv, TypeOK, StopKnows, Unfinished
<1>9. ASSUME NEW i \in Invocation, WatchParent(i) PROVE StopKnows'
  BY <1>9, NilAssumption DEF WatchParent, Moves, Canceled, ParentCause, NativeInv, TypeOK, StopKnows, Unfinished
<1>10. ASSUME NEW i \in Invocation, Connect(i) PROVE StopKnows'
  BY <1>10, NilAssumption DEF Connect, Moves, Canceled, ParentCause, NativeInv, TypeOK, StopKnows, Unfinished
<1>11. ASSUME NEW i \in Invocation, ConnectFails(i) PROVE StopKnows'
  BY <1>11, NilAssumption DEF ConnectFails, Moves, Canceled, ParentCause, NativeInv, TypeOK, StopKnows, Unfinished
<1>12. ASSUME NEW i \in Invocation, Accept(i) PROVE StopKnows'
  BY <1>12, NilAssumption DEF Accept, Moves, Canceled, ParentCause, NativeInv, TypeOK, StopKnows, Unfinished
<1>13. ASSUME NEW i \in Invocation, AcceptRefused(i) PROVE StopKnows'
  BY <1>13, NilAssumption DEF AcceptRefused, CloseConnection, Moves, Canceled, ParentCause, NativeInv, TypeOK, StopKnows, Unfinished
<1>14. ASSUME NEW i \in Invocation, FailSession(i) PROVE StopKnows'
  BY <1>14, NilAssumption DEF FailSession, Moves, Canceled, ParentCause, NativeInv, TypeOK, StopKnows, Unfinished
<1>15. ASSUME NEW i \in Invocation, CompleteWorker(i) PROVE StopKnows'
  BY <1>15, NilAssumption DEF CompleteWorker, Moves, Canceled, ParentCause, NativeInv, TypeOK, StopKnows, Unfinished
<1>16. ASSUME NEW i \in Invocation, CommandSettled(i) PROVE StopKnows'
  BY <1>16, NilAssumption DEF CommandSettled, CloseConnection, Moves, Canceled, ParentCause, NativeInv, TypeOK, StopKnows, Unfinished
<1>17. ASSUME NEW i \in Invocation, CommandUnstarted(i) PROVE StopKnows'
  BY <1>17, NilAssumption DEF CommandUnstarted, CloseConnection, Moves, Canceled, ParentCause, NativeInv, TypeOK, StopKnows, Unfinished
<1>18. ASSUME NEW i \in Invocation, CommandUnknown(i) PROVE StopKnows'
  BY <1>18, NilAssumption DEF CommandUnknown, CloseConnection, Moves, Canceled, ParentCause, NativeInv, TypeOK, StopKnows, Unfinished
<1>19. ASSUME NEW i \in Invocation, AskToStop(i) PROVE StopKnows'
  BY <1>19, NilAssumption DEF AskToStop, Moves, Canceled, ParentCause, NativeInv, TypeOK, StopKnows, Unfinished
<1>20. ASSUME NEW i \in Invocation, StopCollects(i) PROVE StopKnows'
  BY <1>20, NilAssumption DEF StopCollects, Moves, Canceled, ParentCause, NativeInv, TypeOK, StopKnows, Unfinished
<1>21. QED
  BY <1>1, <1>2, <1>3, <1>4, <1>5, <1>6, <1>7, <1>8, <1>9, <1>10, <1>11, <1>12, <1>13, <1>14, <1>15, <1>16, <1>17, <1>18, <1>19, <1>20 DEF Next, StopStep, WorkerStep, CommandReturns

(* An ID is taken until the invocation completes.                            *)
LEMMA OneInvocationStep ==
  ASSUME NativeInv, [Next]_vars
  PROVE  OneInvocationPerWorker'
<1>1. CASE UNCHANGED vars
  BY <1>1 DEF vars, NativeInv, TypeOK, OneInvocationPerWorker, Unfinished
<1>2. CASE Start
  BY <1>2 DEF Start, NativeInv, TypeOK, OneInvocationPerWorker, Unfinished
<1>3. CASE CancelParent
  BY <1>3 DEF CancelParent, NativeInv, TypeOK, OneInvocationPerWorker, Unfinished
<1>4. CASE BeginStop
  BY <1>4 DEF BeginStop, NativeInv, TypeOK, OneInvocationPerWorker, Unfinished
<1>5. CASE AskedAll
  BY <1>5 DEF AskedAll, NativeInv, TypeOK, OneInvocationPerWorker, Unfinished
<1>6. CASE StopExpires
  BY <1>6 DEF StopExpires, NativeInv, TypeOK, OneInvocationPerWorker, Unfinished
<1>7. CASE StopReturns
  BY <1>7 DEF StopReturns, NativeInv, TypeOK, OneInvocationPerWorker, Unfinished
<1>8. ASSUME NEW i \in Invocation, NEW w \in Worker, Invoke(i, w) PROVE OneInvocationPerWorker'
  BY <1>8, NilAssumption DEF Invoke, Active, NativeInv, TypeOK, OneInvocationPerWorker, Unfinished
<1>9. ASSUME NEW i \in Invocation, WatchParent(i) PROVE OneInvocationPerWorker'
  BY <1>9, NilAssumption DEF WatchParent, Moves, Canceled, ParentCause, NativeInv, TypeOK, OneInvocationPerWorker, Unfinished
<1>10. ASSUME NEW i \in Invocation, Connect(i) PROVE OneInvocationPerWorker'
  BY <1>10, NilAssumption DEF Connect, Moves, Canceled, ParentCause, NativeInv, TypeOK, OneInvocationPerWorker, Unfinished
<1>11. ASSUME NEW i \in Invocation, ConnectFails(i) PROVE OneInvocationPerWorker'
  BY <1>11, NilAssumption DEF ConnectFails, Moves, Canceled, ParentCause, NativeInv, TypeOK, OneInvocationPerWorker, Unfinished
<1>12. ASSUME NEW i \in Invocation, Accept(i) PROVE OneInvocationPerWorker'
  BY <1>12, NilAssumption DEF Accept, Moves, Canceled, ParentCause, NativeInv, TypeOK, OneInvocationPerWorker, Unfinished
<1>13. ASSUME NEW i \in Invocation, AcceptRefused(i) PROVE OneInvocationPerWorker'
  BY <1>13, NilAssumption DEF AcceptRefused, CloseConnection, Moves, Canceled, ParentCause, NativeInv, TypeOK, OneInvocationPerWorker, Unfinished
<1>14. ASSUME NEW i \in Invocation, FailSession(i) PROVE OneInvocationPerWorker'
  BY <1>14, NilAssumption DEF FailSession, Moves, Canceled, ParentCause, NativeInv, TypeOK, OneInvocationPerWorker, Unfinished
<1>15. ASSUME NEW i \in Invocation, CompleteWorker(i) PROVE OneInvocationPerWorker'
  BY <1>15, NilAssumption DEF CompleteWorker, Moves, Canceled, ParentCause, NativeInv, TypeOK, OneInvocationPerWorker, Unfinished
<1>16. ASSUME NEW i \in Invocation, CommandSettled(i) PROVE OneInvocationPerWorker'
  BY <1>16, NilAssumption DEF CommandSettled, CloseConnection, Moves, Canceled, ParentCause, NativeInv, TypeOK, OneInvocationPerWorker, Unfinished
<1>17. ASSUME NEW i \in Invocation, CommandUnstarted(i) PROVE OneInvocationPerWorker'
  BY <1>17, NilAssumption DEF CommandUnstarted, CloseConnection, Moves, Canceled, ParentCause, NativeInv, TypeOK, OneInvocationPerWorker, Unfinished
<1>18. ASSUME NEW i \in Invocation, CommandUnknown(i) PROVE OneInvocationPerWorker'
  BY <1>18, NilAssumption DEF CommandUnknown, CloseConnection, Moves, Canceled, ParentCause, NativeInv, TypeOK, OneInvocationPerWorker, Unfinished
<1>19. ASSUME NEW i \in Invocation, AskToStop(i) PROVE OneInvocationPerWorker'
  BY <1>19, NilAssumption DEF AskToStop, Moves, Canceled, ParentCause, NativeInv, TypeOK, OneInvocationPerWorker, Unfinished
<1>20. ASSUME NEW i \in Invocation, StopCollects(i) PROVE OneInvocationPerWorker'
  BY <1>20, NilAssumption DEF StopCollects, Moves, Canceled, ParentCause, NativeInv, TypeOK, OneInvocationPerWorker, Unfinished
<1>21. QED
  BY <1>1, <1>2, <1>3, <1>4, <1>5, <1>6, <1>7, <1>8, <1>9, <1>10, <1>11, <1>12, <1>13, <1>14, <1>15, <1>16, <1>17, <1>18, <1>19, <1>20 DEF Next, StopStep, WorkerStep, CommandReturns

-----------------------------------------------------------------------------
(* The invariant.                                                            *)

LEMMA NativeInvStep == NativeInv /\ [Next]_vars => NativeInv'
BY TypeStep, ProgressStep, StopKnowsStep, OneInvocationStep DEF NativeInv

LEMMA NativeInvAlways == Spec => []NativeInv
<1>1. Init => NativeInv
  <2> SUFFICES ASSUME Init PROVE NativeInv
    OBVIOUS
  <2>1. TypeOK
    BY NilAssumption DEF Init, TypeOK
  <2>2. Unfinished = {}
    BY DEF Init, Unfinished
  <2>3. QED
    BY <2>1, <2>2 DEF Init, NativeInv, Progress, StopKnows, OneInvocationPerWorker
<1>2. QED
  BY <1>1, NativeInvStep, PTL DEF Spec

(* The accounting of the session holds for any number of invocations and     *)
(* workers: no connection outlives its outcome or a Stop that succeeded, and *)
(* a worker ID belongs to one unfinished invocation.                         *)
THEOREM InvocationsCorrect == Spec => []InvocationsKept
BY NativeInvAlways, NativeInvKept, PTL

(* Once the run has failed, an invocation that records the cleanup's wakeup  *)
(* is one that publishes the result of its command.                          *)
THEOREM CauseIsFirst == Spec => RunFailureIsTheCause
<1>1. ASSUME NativeInv, [Next]_vars, NEW i \in Invocation,
             parentDone, cause[i] = Nil, cause'[i] = "wakeup"
      PROVE  outcome[i] = "worker"
  <2>1. cause[i] # cause'[i]
    BY <1>1, NilAssumption
  <2>2. ParentCause = "parent"
    BY <1>1 DEF ParentCause
  <2>3. ASSUME NEW j \in Invocation, NEW why, cause' = Canceled(j, why)
        PROVE  j = i /\ why = "wakeup"
    BY <1>1, <2>1, <2>3 DEF Canceled, NativeInv, TypeOK
  <2>4. PICK j \in Invocation : CompleteWorker(j)
    <3>1. ~ UNCHANGED cause
      BY <2>1
    <3>2. ~ UNCHANGED vars /\ ~ Start /\ ~ CancelParent /\ ~ BeginStop /\ ~ AskedAll
          /\ ~ StopExpires /\ ~ StopReturns
      BY <3>1 DEF vars, Start, CancelParent, BeginStop, AskedAll, StopExpires, StopReturns
    <3>3. \A j \in Invocation, w \in Worker : ~ Invoke(j, w)
      BY <3>1 DEF Invoke
    <3>4. \A j \in Invocation :
            /\ ~ Connect(j) /\ ~ Accept(j) /\ ~ FailSession(j) /\ ~ StopCollects(j)
      BY <3>1 DEF Connect, Accept, FailSession, StopCollects
    <3>5. \A j \in Invocation :
            /\ ~ WatchParent(j) /\ ~ AskToStop(j) /\ ~ ConnectFails(j) /\ ~ AcceptRefused(j)
            /\ ~ CommandUnstarted(j) /\ ~ CommandUnknown(j)
      BY <2>2, <2>3 DEF WatchParent, AskToStop, ConnectFails, AcceptRefused,
         CommandUnstarted, CommandUnknown
    <3>6. \A j \in Invocation : ~ CommandSettled(j)
      BY <2>2, <2>3, <3>1 DEF CommandSettled
    <3>7. QED
      BY <1>1, <3>2, <3>3, <3>4, <3>5, <3>6 DEF Next, StopStep, WorkerStep, CommandReturns
  <2>5. j = i
    BY <2>3, <2>4 DEF CompleteWorker
  <2>6. QED
    BY <1>1, <2>4, <2>5 DEF CompleteWorker, NativeInv, Progress
<1>2. NativeInv /\ [Next]_vars =>
        [\A i \in Invocation :
           parentDone /\ cause[i] = Nil /\ cause'[i] = "wakeup" => outcome[i] = "worker"]_vars
  BY <1>1
<1>3. QED
  BY <1>2, NativeInvAlways, PTL DEF Spec, RunFailureIsTheCause

-----------------------------------------------------------------------------
(* Refinement.  StreamOf is a function of phase and outcome, and StopAnswer  *)
(* of the position of Stop.                                                  *)

(* A step that opens and closes nothing and asks no Stop is a stutter.       *)
LEMMA Stutters ==
  ASSUME NativeInv, UNCHANGED <<fault, outcome>>, stop'.pc = stop.pc,
         \A j \in Invocation : phase'[j] = phase[j]
                            \/ {phase[j], phase'[j]} \cap {"none", "complete"} = {}
  PROVE  UNCHANGED <<StreamOf, fault, StopAnswer>>
<1>1. StreamOf' = StreamOf
  BY DEF StreamOf
<1>2. StopAnswer' = StopAnswer
  BY DEF StopAnswer
<1>3. QED
  BY <1>1, <1>2

(* An outcome that is chosen before the stream closes is not yet visible.    *)
LEMMA StuttersOutcome ==
  ASSUME NativeInv, NEW i \in Invocation, phase[i] \notin {"none", "complete"},
         NEW to \in {"faulting", "completing"}, Moves(i, to), UNCHANGED <<fault, stop>>,
         \A j \in Invocation \ {i} : outcome'[j] = outcome[j]
  PROVE  UNCHANGED <<StreamOf, fault, StopAnswer>>
<1>1. \A j \in Invocation \ {i} : phase'[j] = phase[j]
  BY DEF Moves, NativeInv, TypeOK
<1>2. phase'[i] = to
  BY DEF Moves, NativeInv, TypeOK
<1>3. StreamOf' = StreamOf
  BY <1>1, <1>2 DEF StreamOf
<1>4. QED
  BY <1>3 DEF StopAnswer

LEMMA StreamStep ==
  ASSUME NativeInv, [Next]_vars
  PROVE  [Stream!StreamNext]_(Stream!streamVars)
<1> DEFINE Same == UNCHANGED <<StreamOf, fault, StopAnswer>>
<1>1. CASE UNCHANGED vars
  BY <1>1 DEF vars, Stream!streamVars, StreamOf, StopAnswer
<1>2. CASE Start \/ CancelParent
  <2>1. Same
    BY <1>2 DEF Start, CancelParent, StreamOf, StopAnswer
  <2>2. QED
    BY <2>1 DEF Stream!streamVars
<1>3. CASE BeginStop
  <2>1. StopAnswer = "no" /\ StopAnswer' = "stopping" /\ StreamOf' = StreamOf
    BY <1>3 DEF BeginStop, StopAnswer, StreamOf, NativeInv, TypeOK
  <2>2. Stream!BeginStop
    BY <1>3, <2>1 DEF BeginStop, Stream!BeginStop
  <2>3. QED
    BY <2>2 DEF Stream!StreamNext
<1>4. CASE AskedAll
  <2>1. StopAnswer' = StopAnswer /\ StreamOf' = StreamOf
    BY <1>4 DEF AskedAll, StopAnswer, StreamOf, NativeInv, TypeOK
  <2>2. QED
    BY <1>4, <2>1 DEF AskedAll, Stream!streamVars
<1>5. CASE StopExpires
  <2>1. StopAnswer = "stopping" /\ StopAnswer' = "error" /\ StreamOf' = StreamOf
    BY <1>5 DEF StopExpires, StopAnswer, StreamOf, NativeInv, TypeOK
  <2>2. Stream!StopFails
    BY <1>5, <2>1 DEF StopExpires, Stream!StopFails
  <2>3. QED
    BY <2>2 DEF Stream!StreamNext
<1>6. CASE StopReturns
  <2>1. StopAnswer = "stopping" /\ StreamOf' = StreamOf
    BY <1>6 DEF StopReturns, StopAnswer, StreamOf, NativeInv, TypeOK
  <2>2. CASE fault \/ stop.failed
    <3>1. StopAnswer' = "error"
      BY <1>6, <2>2 DEF StopReturns, StopAnswer, NativeInv, TypeOK
    <3>2. Stream!StopFails
      BY <1>6, <2>1, <3>1 DEF StopReturns, Stream!StopFails
    <3>3. QED
      BY <3>2 DEF Stream!StreamNext
  <2>3. CASE ~ (fault \/ stop.failed)
    <3>1. StopAnswer' = "ok"
      BY <1>6, <2>3 DEF StopReturns, StopAnswer, NativeInv, TypeOK
    <3>2. \A i \in Invocation : StreamOf[i] # "open"
      <4>1. Unfinished = {}
        BY <1>6 DEF StopReturns, NativeInv, StopKnows
      <4>2. QED
        BY <4>1 DEF StreamOf, Unfinished, NativeInv, TypeOK
    <3>3. Stream!StopSucceeds
      BY <1>6, <2>1, <2>3, <3>1, <3>2 DEF StopReturns, Stream!StopSucceeds
    <3>4. QED
      BY <3>3 DEF Stream!StreamNext
  <2>4. QED
    BY <2>2, <2>3
<1>7. ASSUME NEW i \in Invocation, NEW w \in Worker, Invoke(i, w)
      PROVE  Stream!StreamNext
  <2>1. stop.pc = "idle"
    BY <1>7 DEF Invoke, NativeInv, StopKnows
  <2>2. StopAnswer = "no" /\ StopAnswer' = StopAnswer
    BY <1>7, <2>1 DEF Invoke, StopAnswer
  <2>3. StreamOf[i] = "none"
    BY <1>7 DEF Invoke, StreamOf
  <2>4. StreamOf' = [StreamOf EXCEPT ![i] = "open"]
    BY <1>7 DEF Invoke, StreamOf, NativeInv, TypeOK
  <2>5. Stream!Open(i)
    BY <1>7, <2>2, <2>3, <2>4 DEF Invoke, Stream!Open
  <2>6. QED
    BY <2>5 DEF Stream!StreamNext
<1>8. ASSUME NEW i \in Invocation, WatchParent(i) \/ Connect(i) \/ Accept(i)
                                   \/ AskToStop(i) \/ StopCollects(i)
      PROVE  Same
  <2>1. UNCHANGED <<fault, outcome>>
    BY <1>8 DEF WatchParent, Connect, Accept, AskToStop, StopCollects
  <2>2. stop'.pc = stop.pc
    BY <1>8 DEF WatchParent, Connect, Accept, AskToStop, StopCollects, NativeInv, TypeOK
  <2>3. CASE UNCHANGED phase
    BY <2>1, <2>2, <2>3, Stutters
  <2>4. CASE Connect(i) \/ Accept(i)
    <3>1. \A j \in Invocation \ {i} : phase'[j] = phase[j]
      BY <2>4 DEF Connect, Accept, Moves, NativeInv, TypeOK
    <3>2. {phase[i], phase'[i]} \cap {"none", "complete"} = {}
      BY <2>4 DEF Connect, Accept, Moves, NativeInv, TypeOK
    <3>3. QED
      BY <2>1, <2>2, <3>1, <3>2, Stutters
  <2>5. QED
    BY <1>8, <2>3, <2>4 DEF WatchParent, AskToStop, StopCollects
<1>9. ASSUME NEW i \in Invocation, ConnectFails(i) \/ AcceptRefused(i) \/ CommandReturns(i)
      PROVE  Same
  <2>1. /\ phase[i] \notin {"none", "complete"}
        /\ Moves(i, "faulting") \/ Moves(i, "completing")
        /\ UNCHANGED <<fault, stop>>
    BY <1>9 DEF ConnectFails, AcceptRefused, CommandReturns, CommandSettled,
       CommandUnstarted, CommandUnknown
  <2>2. outcome' = outcome \/ \E o : outcome' = [outcome EXCEPT ![i] = o]
    BY <1>9 DEF ConnectFails, AcceptRefused, CommandReturns, CommandSettled,
       CommandUnstarted, CommandUnknown
  <2>3. \A j \in Invocation \ {i} : outcome'[j] = outcome[j]
    BY <2>2 DEF NativeInv, TypeOK
  <2>4. QED
    BY <2>1, <2>3, StuttersOutcome
<1>10. ASSUME NEW i \in Invocation, FailSession(i)
       PROVE  [Stream!StreamNext]_(Stream!streamVars)
  <2>1. StreamOf' = StreamOf /\ StopAnswer' = StopAnswer /\ fault'
    BY <1>10 DEF FailSession, Moves, StreamOf, StopAnswer, NativeInv, TypeOK
  <2>2. CASE fault
    BY <1>10, <2>1, <2>2 DEF FailSession, Stream!streamVars
  <2>3. CASE ~ fault
    <3>1. StopAnswer # "ok"
      BY <1>10 DEF FailSession, StopAnswer, NativeInv, StopKnows, Unfinished
    <3>2. Stream!Latch
      <4> DEFINE nobody == [x \in {} |-> "lost"]
      <4>1. nobody \in [{} -> {"worker", "unstarted", "lost"}]
        OBVIOUS
      <4>2. StreamOf' = [j \in Invocation |->
                           IF j \in {} THEN nobody[j]
                           ELSE IF j \in {} THEN "lost" ELSE StreamOf[j]]
        BY <2>1 DEF StreamOf
      <4> HIDE DEF nobody
      <4>3. \E closing \in SUBSET {j \in Invocation : StreamOf[j] = "open"},
               refused \in SUBSET {j \in Invocation : StreamOf[j] = "none" /\ StopAnswer = "no"} :
              \E end \in [closing -> {"worker", "unstarted", "lost"}] :
                StreamOf' = [j \in Invocation |-> IF j \in closing THEN end[j]
                                                  ELSE IF j \in refused THEN "lost"
                                                  ELSE StreamOf[j]]
        <5>1. WITNESS {} \in SUBSET {j \in Invocation : StreamOf[j] = "open"},
                      {} \in SUBSET {j \in Invocation : StreamOf[j] = "none" /\ StopAnswer = "no"}
        <5>2. WITNESS nobody \in [{} -> {"worker", "unstarted", "lost"}]
        <5>3. QED
          BY <4>2
      <4>4. QED
        BY <2>1, <2>3, <3>1, <4>3 DEF Stream!Latch
    <3>3. QED
      BY <3>2 DEF Stream!StreamNext
  <2>4. QED
    BY <2>2, <2>3
<1>11. ASSUME NEW i \in Invocation, CompleteWorker(i) PROVE Stream!StreamNext
  <2>1. StopAnswer' = StopAnswer
    BY <1>11 DEF CompleteWorker, StopAnswer
  <2>2. StreamOf[i] = "open"
    BY <1>11 DEF CompleteWorker, StreamOf
  <2>3. StreamOf' = [StreamOf EXCEPT ![i] = IF outcome[i] = Nil THEN "lost" ELSE outcome[i]]
    BY <1>11 DEF CompleteWorker, Moves, StreamOf, NativeInv, TypeOK
  <2>4. CASE outcome[i] = Nil
    <3>1. Stream!Lose(i)
      BY <1>11, <2>1, <2>2, <2>3, <2>4 DEF CompleteWorker, Stream!Lose, NativeInv, Progress
    <3>2. QED
      BY <3>1 DEF Stream!StreamNext
  <2>5. CASE outcome[i] # Nil
    <3>1. outcome[i] \in {"worker", "unstarted"}
      BY <2>5 DEF NativeInv, TypeOK
    <3>2. Stream!Settle(i)
      BY <1>11, <2>1, <2>2, <2>3, <2>5, <3>1 DEF CompleteWorker, Stream!Settle
    <3>3. QED
      BY <3>2 DEF Stream!StreamNext
  <2>6. QED
    BY <2>4, <2>5
<1>12. QED
  BY <1>1, <1>2, <1>3, <1>4, <1>5, <1>6, <1>7, <1>8, <1>9, <1>10, <1>11
     DEF Next, StopStep, WorkerStep, Stream!streamVars

(* The adapter keeps the contract of internal/sut for any number of          *)
(* invocations and workers.                                                  *)
THEOREM StreamRefinement == Spec => ImplementsStream
<1>1. Init => Stream!StreamInit
  BY DEF Init, Stream!StreamInit, StreamOf, StopAnswer
<1>2. QED
  BY <1>1, StreamStep, NativeInvAlways, PTL DEF Spec, ImplementsStream, Stream!StreamSpec
-----------------------------------------------------------------------------
(* The external adapter and its peer: the parts of MCAdapters.               *)

(* The theorems about each of its instances.                                 *)
OneWire == INSTANCE ExternalWireProofs WITH
             Invocation <- Single, WorkerOf <- SameWorker, Capacity <- 1, Arrivals <- 1,
             QueueLimit <- 3, start <- starting, stop <- cleaning

TwoWire == INSTANCE ExternalWireProofs WITH
             Invocation <- Reused, WorkerOf <- SameWorker, Capacity <- 1, Arrivals <- 0,
             QueueLimit <- 3, start <- starting, stop <- cleaning

OneEngine == INSTANCE ExternalWireProofs WITH
               Invocation <- Single, WorkerOf <- SameWorker, Capacity <- 1, Arrivals <- 1,
               QueueLimit <- 2, start <- starting, stop <- cleaning

(* An instance of a module with its proofs and the instance without them say *)
(* the same, definition by definition.                                       *)

(* Both instances mean the same by the steps of the adapter.                 *)
LEMMA WireEngine == Wire!EngineStep = OneWire!EngineStep
<1>1. /\ \A M, i : Wire!Observed(M, i) = OneWire!Observed(M, i)
      /\ \A M, i : Wire!BridgeEnds(M, i) = OneWire!BridgeEnds(M, i)
      /\ \A M, frame : Wire!Enqueue(M, frame) = OneWire!Enqueue(M, frame)
      /\ \A M : Wire!Faulted(M) = OneWire!Faulted(M)
      /\ \A M, flags, send : Wire!Fail(M, flags, send) = OneWire!Fail(M, flags, send)
  <2>1. ASSUME NEW M, NEW i PROVE Wire!Observed(M, i) = OneWire!Observed(M, i)
    BY Zenon DEF Wire!Observed, OneWire!Observed, Wire!Cancel, OneWire!Cancel, Wire!Faulted,
       OneWire!Faulted, Wire!Enqueue, OneWire!Enqueue, Wire!Fail, OneWire!Fail
  <2>2. ASSUME NEW M, NEW i PROVE Wire!BridgeEnds(M, i) = OneWire!BridgeEnds(M, i)
    BY Zenon DEF Wire!BridgeEnds, OneWire!BridgeEnds, Wire!Faulted, OneWire!Faulted, Wire!Finish,
       OneWire!Finish
  <2>3. ASSUME NEW M, NEW frame PROVE Wire!Enqueue(M, frame) = OneWire!Enqueue(M, frame)
    BY Zenon DEF Wire!Enqueue, OneWire!Enqueue, Wire!Fail, OneWire!Fail, Wire!Faulted,
       OneWire!Faulted
  <2>4. ASSUME NEW M PROVE Wire!Faulted(M) = OneWire!Faulted(M)
    BY Zenon DEF Wire!Faulted, OneWire!Faulted
  <2>5. ASSUME NEW M, NEW flags, NEW send
        PROVE Wire!Fail(M, flags, send) = OneWire!Fail(M, flags, send)
    BY Zenon DEF Wire!Fail, OneWire!Fail, Wire!Faulted, OneWire!Faulted
  <2> QED
    BY Zenon, <2>1, <2>2, <2>3, <2>4, <2>5
<1>2. /\ Wire!StartStep = OneWire!StartStep
      /\ Wire!ParentEnds = OneWire!ParentEnds
      /\ Wire!WriterStep = OneWire!WriterStep
      /\ Wire!ReaderStep = OneWire!ReaderStep
      /\ Wire!BeginStop = OneWire!BeginStop
      /\ Wire!CleanupStep = OneWire!CleanupStep
      /\ \A i : Wire!Invoke(i) = OneWire!Invoke(i)
      /\ \A i : Wire!WatchContext(i) = OneWire!WatchContext(i)
  <2>1. Wire!StartStep = OneWire!StartStep
    BY Zenon DEF Wire!StartStep, OneWire!StartStep, Wire!StartBegins, OneWire!StartBegins,
       Wire!Has, OneWire!Has, Wire!Launched, OneWire!Launched, Wire!Latch, OneWire!Latch,
       Wire!Call, OneWire!Call, Wire!Enqueue, OneWire!Enqueue, Wire!Fail, OneWire!Fail,
       Wire!Faulted, OneWire!Faulted, Wire!LaunchFails, OneWire!LaunchFails,
       Wire!StartReturns, OneWire!StartReturns, Wire!StartFails, OneWire!StartFails
  <2>2. Wire!ParentEnds = OneWire!ParentEnds
    BY Zenon DEF Wire!ParentEnds, OneWire!ParentEnds, Wire!Has, OneWire!Has, Wire!Call,
       OneWire!Call, Wire!Latch, OneWire!Latch
  <2>3. Wire!WriterStep = OneWire!WriterStep
    BY Zenon DEF Wire!WriterStep, OneWire!WriterStep, Wire!WriteBegins, OneWire!WriteBegins,
       Wire!Writes, OneWire!Writes, Wire!Has, OneWire!Has, Wire!Call, OneWire!Call,
       Wire!Marked, OneWire!Marked, Wire!Latch, OneWire!Latch, Wire!Exited,
       OneWire!Exited, Wire!WriteReturns, OneWire!WriteReturns, Wire!WriteFails,
       OneWire!WriteFails, Wire!Fail, OneWire!Fail, Wire!Faulted, OneWire!Faulted,
       Wire!WriterEnds, OneWire!WriterEnds
  <2>4. Wire!ReaderStep = OneWire!ReaderStep
    BY Zenon DEF Wire!ReaderStep, OneWire!ReaderStep, Wire!ReadFrame, OneWire!ReadFrame,
       Wire!Reads, OneWire!Reads, Wire!Has, OneWire!Has, Wire!Faulted, OneWire!Faulted,
       Wire!Waits, OneWire!Waits, Wire!Sent, OneWire!Sent, Wire!Call, OneWire!Call,
       Wire!Received, OneWire!Received, Wire!Fail, OneWire!Fail, Wire!Reject,
       OneWire!Reject, Wire!Latch, OneWire!Latch, Wire!Open, OneWire!Open,
       Wire!ReceivedOf, OneWire!ReceivedOf, Wire!Observed, OneWire!Observed, Wire!Cancel,
       OneWire!Cancel, Wire!Enqueue, OneWire!Enqueue, Wire!Finish, OneWire!Finish,
       Wire!ReadEnds, OneWire!ReadEnds, Wire!Exited, OneWire!Exited, Wire!SeeExit,
       OneWire!SeeExit
  <2>5. Wire!BeginStop = OneWire!BeginStop
    BY Zenon DEF Wire!BeginStop, OneWire!BeginStop, Wire!Has, OneWire!Has, Wire!Call, OneWire!Call,
       Wire!Latch, OneWire!Latch
  <2>6. Wire!CleanupStep = OneWire!CleanupStep
    BY Zenon DEF Wire!CleanupStep, OneWire!CleanupStep, Wire!LaunchOutlasts,
       OneWire!LaunchOutlasts, Wire!Has, OneWire!Has, Wire!KillLate, OneWire!KillLate,
       Wire!Call, OneWire!Call, Wire!Latch, OneWire!Latch, Wire!Kill, OneWire!Kill,
       Wire!Exited, OneWire!Exited, Wire!StopWithoutChild, OneWire!StopWithoutChild,
       Wire!Answer, OneWire!Answer, Wire!Faulted, OneWire!Faulted, Wire!CancelAll,
       OneWire!CancelAll, Wire!Open, OneWire!Open, Wire!Orders, OneWire!Orders,
       Wire!CanceledIn, OneWire!CanceledIn, Wire!Cancel, OneWire!Cancel, Wire!Enqueue,
       OneWire!Enqueue, Wire!Fail, OneWire!Fail, Wire!GraceEnds, OneWire!GraceEnds,
       Wire!Joined, OneWire!Joined, Wire!EndGrace, OneWire!EndGrace, Wire!Proven,
       OneWire!Proven, Wire!StopReturns, OneWire!StopReturns, Wire!ReapExpires,
       OneWire!ReapExpires
  <2>7. ASSUME NEW i PROVE Wire!Invoke(i) = OneWire!Invoke(i)
    BY Zenon DEF Wire!Invoke, OneWire!Invoke, Wire!Has, OneWire!Has, Wire!Faulted, OneWire!Faulted,
       Wire!Open, OneWire!Open, Wire!Cardinality, OneWire!Cardinality, Wire!IsFiniteSet,
       OneWire!IsFiniteSet, Wire!Call, OneWire!Call, Wire!Enqueue, OneWire!Enqueue,
       Wire!Fail, OneWire!Fail
  <2>8. ASSUME NEW i PROVE Wire!WatchContext(i) = OneWire!WatchContext(i)
    BY Zenon DEF Wire!WatchContext, OneWire!WatchContext, Wire!Has, OneWire!Has, Wire!Open,
       OneWire!Open, Wire!Call, OneWire!Call, Wire!Cancel, OneWire!Cancel, Wire!Faulted,
       OneWire!Faulted, Wire!Enqueue, OneWire!Enqueue, Wire!Fail, OneWire!Fail
  <2> QED
    BY Zenon, <2>1, <2>2, <2>3, <2>4, <2>5, <2>6, <2>7, <2>8
<1>3. ASSUME NEW i PROVE Wire!BridgeStep(i) = OneWire!BridgeStep(i)
  <2>1. Wire!BridgeReleases(i) = OneWire!BridgeReleases(i)
    BY <1>1 DEF Wire!BridgeReleases, OneWire!BridgeReleases, Wire!Call, OneWire!Call
  <2>2. Wire!BridgeUnwinds(i) = OneWire!BridgeUnwinds(i)
    BY <1>1 DEF Wire!BridgeUnwinds, OneWire!BridgeUnwinds, Wire!Call, OneWire!Call, Wire!ContextDone,
      OneWire!ContextDone
  <2>3. Wire!BridgeRefused(i) = OneWire!BridgeRefused(i)
    BY <1>1 DEF Wire!BridgeRefused, OneWire!BridgeRefused, Wire!Call, OneWire!Call
  <2> QED
    BY <2>1, <2>2, <2>3 DEF Wire!BridgeStep, OneWire!BridgeStep
<1> QED
  BY Zenon, <1>2, <1>3 DEF Wire!EngineStep, OneWire!EngineStep

(* Both instances mean the same by the steps of the peer.                    *)
LEMMA WirePeer == Wire!Peer!PeerStep = OneWire!Peer!PeerStep
<1>1. /\ \A P : Wire!Peer!Becomes(P) = OneWire!Peer!Becomes(P)
      /\ \A P, status : Wire!Peer!Halts(P, status) = OneWire!Peer!Halts(P, status)
      /\ \A S : Wire!Peer!Orders(S) = OneWire!Peer!Orders(S)
      /\ \A P : Wire!Peer!Live(P) = OneWire!Peer!Live(P)
      /\ Wire!Peer!Reading = OneWire!Peer!Reading
      /\ \A P, kind, send : Wire!Peer!Fail(P, kind, send) = OneWire!Peer!Fail(P, kind, send)
      /\ \A P : Wire!Peer!FinishCleanup(P) = OneWire!Peer!FinishCleanup(P)
      /\ \A P, i, why : Wire!Peer!Cancel(P, i, why) = OneWire!Peer!Cancel(P, i, why)
      /\ \A P : Wire!Peer!OnStart(P) = OneWire!Peer!OnStart(P)
      /\ \A P, i : Wire!Peer!OnInvoke(P, i) = OneWire!Peer!OnInvoke(P, i)
      /\ \A P, i, n : Wire!Peer!OnRelease(P, i, n) = OneWire!Peer!OnRelease(P, i, n)
      /\ \A P, i, why : Wire!Peer!OnCancel(P, i, why) = OneWire!Peer!OnCancel(P, i, why)
  <2>1. ASSUME NEW P PROVE Wire!Peer!Becomes(P) = OneWire!Peer!Becomes(P)
    BY Zenon DEF Wire!Peer!Becomes, OneWire!Peer!Becomes
  <2>2. ASSUME NEW P, NEW status PROVE Wire!Peer!Halts(P, status) = OneWire!Peer!Halts(P, status)
    BY Zenon DEF Wire!Peer!Halts, OneWire!Peer!Halts, Wire!Peer!Remains, OneWire!Peer!Remains,
       Wire!Peer!NewPeer, OneWire!Peer!NewPeer
  <2>3. ASSUME NEW S PROVE Wire!Peer!Orders(S) = OneWire!Peer!Orders(S)
    BY Zenon DEF Wire!Peer!Orders, OneWire!Peer!Orders
  <2>4. ASSUME NEW P PROVE Wire!Peer!Live(P) = OneWire!Peer!Live(P)
    BY Zenon DEF Wire!Peer!Live, OneWire!Peer!Live
  <2>5. Wire!Peer!Reading = OneWire!Peer!Reading
    BY Zenon DEF Wire!Peer!Reading, OneWire!Peer!Reading, Wire!Peer!Gone, OneWire!Peer!Gone
  <2>6. ASSUME NEW P, NEW kind, NEW send
        PROVE Wire!Peer!Fail(P, kind, send) = OneWire!Peer!Fail(P, kind, send)
    BY Zenon DEF Wire!Peer!Fail, OneWire!Peer!Fail, Wire!Peer!Settled, OneWire!Peer!Settled,
       Wire!Peer!Unstarted, OneWire!Peer!Unstarted, Wire!Peer!FinishCleanup,
       OneWire!Peer!FinishCleanup, Wire!Peer!Live, OneWire!Peer!Live, Wire!Peer!Send,
       OneWire!Peer!Send
  <2>7. ASSUME NEW P PROVE Wire!Peer!FinishCleanup(P) = OneWire!Peer!FinishCleanup(P)
    BY Zenon DEF Wire!Peer!FinishCleanup, OneWire!Peer!FinishCleanup, Wire!Peer!Live,
       OneWire!Peer!Live
  <2>8. ASSUME NEW P, NEW i, NEW why
        PROVE Wire!Peer!Cancel(P, i, why) = OneWire!Peer!Cancel(P, i, why)
    BY Zenon DEF Wire!Peer!Cancel, OneWire!Peer!Cancel, Wire!Peer!Progress, OneWire!Peer!Progress,
       Wire!Peer!Fail, OneWire!Peer!Fail, Wire!Peer!Settled, OneWire!Peer!Settled,
       Wire!Peer!Unstarted, OneWire!Peer!Unstarted, Wire!Peer!FinishCleanup,
       OneWire!Peer!FinishCleanup, Wire!Peer!Live, OneWire!Peer!Live, Wire!Peer!Send,
       OneWire!Peer!Send, Wire!Peer!Retire, OneWire!Peer!Retire, Wire!Peer!Truth,
       OneWire!Peer!Truth, Wire!Peer!ErrorOf, OneWire!Peer!ErrorOf
  <2>9. ASSUME NEW P PROVE Wire!Peer!OnStart(P) = OneWire!Peer!OnStart(P)
    BY Zenon DEF Wire!Peer!OnStart, OneWire!Peer!OnStart, Wire!Peer!Fail, OneWire!Peer!Fail,
       Wire!Peer!Settled, OneWire!Peer!Settled, Wire!Peer!Unstarted,
       OneWire!Peer!Unstarted, Wire!Peer!FinishCleanup, OneWire!Peer!FinishCleanup,
       Wire!Peer!Live, OneWire!Peer!Live, Wire!Peer!Send, OneWire!Peer!Send
  <2>10. ASSUME NEW P, NEW i PROVE Wire!Peer!OnInvoke(P, i) = OneWire!Peer!OnInvoke(P, i)
    BY Zenon DEF Wire!Peer!OnInvoke, OneWire!Peer!OnInvoke, Wire!Peer!Live, OneWire!Peer!Live,
       Wire!Peer!Cardinality, OneWire!Peer!Cardinality, Wire!Peer!IsFiniteSet,
       OneWire!Peer!IsFiniteSet, Wire!Peer!Fail, OneWire!Peer!Fail, Wire!Peer!Settled,
       OneWire!Peer!Settled, Wire!Peer!Unstarted, OneWire!Peer!Unstarted,
       Wire!Peer!FinishCleanup, OneWire!Peer!FinishCleanup, Wire!Peer!Send,
       OneWire!Peer!Send
  <2>11. ASSUME NEW P, NEW i, NEW n
         PROVE Wire!Peer!OnRelease(P, i, n) = OneWire!Peer!OnRelease(P, i, n)
    BY Zenon DEF Wire!Peer!OnRelease, OneWire!Peer!OnRelease, Wire!Peer!Fail, OneWire!Peer!Fail,
       Wire!Peer!Settled, OneWire!Peer!Settled, Wire!Peer!Unstarted,
       OneWire!Peer!Unstarted, Wire!Peer!FinishCleanup, OneWire!Peer!FinishCleanup,
       Wire!Peer!Live, OneWire!Peer!Live, Wire!Peer!Send, OneWire!Peer!Send
  <2>12. ASSUME NEW P, NEW i, NEW why
         PROVE Wire!Peer!OnCancel(P, i, why) = OneWire!Peer!OnCancel(P, i, why)
    BY Zenon DEF Wire!Peer!OnCancel, OneWire!Peer!OnCancel, Wire!Peer!Fail, OneWire!Peer!Fail,
       Wire!Peer!Settled, OneWire!Peer!Settled, Wire!Peer!Unstarted,
       OneWire!Peer!Unstarted, Wire!Peer!FinishCleanup, OneWire!Peer!FinishCleanup,
       Wire!Peer!Live, OneWire!Peer!Live, Wire!Peer!Send, OneWire!Peer!Send,
       Wire!Peer!Cancel, OneWire!Peer!Cancel, Wire!Peer!Progress, OneWire!Peer!Progress,
       Wire!Peer!Retire, OneWire!Peer!Retire, Wire!Peer!Truth, OneWire!Peer!Truth,
       Wire!Peer!ErrorOf, OneWire!Peer!ErrorOf
  <2> QED
    BY Zenon, <2>1, <2>2, <2>3, <2>4, <2>5, <2>6, <2>7, <2>8, <2>9, <2>10, <2>11, <2>12
<1>2. ASSUME NEW P, NEW S, NEW last PROVE Wire!Peer!CanceledIn(P, S, last) = OneWire!Peer!CanceledIn(P, S, last)
  <2>1. ASSUME NEW C
        PROVE  [todo \in SUBSET S |->
                  IF todo = {} THEN P ELSE Wire!Peer!Cancel(C[todo \ {last[todo]}], last[todo], "stop")]
               = [todo \in SUBSET S |->
                    IF todo = {} THEN P ELSE OneWire!Peer!Cancel(C[todo \ {last[todo]}], last[todo], "stop")]
    BY Zenon, <1>1
  <2> QED
    BY Zenon, <2>1 DEF Wire!Peer!CanceledIn, OneWire!Peer!CanceledIn
<1>3. ASSUME NEW P, NEW last PROVE Wire!Peer!OnStop(P, last) = OneWire!Peer!OnStop(P, last)
  BY Zenon, <1>1, <1>2 DEF Wire!Peer!OnStop, OneWire!Peer!OnStop
<1>4. ASSUME NEW P, NEW f, NEW last PROVE Wire!Peer!Handle(P, f, last) = OneWire!Peer!Handle(P, f, last)
  BY Zenon, <1>1, <1>3 DEF Wire!Peer!Handle, OneWire!Peer!Handle
<1>5. Wire!Peer!Receive = OneWire!Peer!Receive
  BY Zenon, <1>1, <1>4 DEF Wire!Peer!Receive, OneWire!Peer!Receive, Wire!Peer!Closed, OneWire!Peer!Closed
<1>6. /\ Wire!Peer!StartupEnds = OneWire!Peer!StartupEnds
      /\ Wire!Peer!CloseHost = OneWire!Peer!CloseHost
      /\ Wire!Peer!CloseHostFails = OneWire!Peer!CloseHostFails
      /\ Wire!Peer!DrainedExit = OneWire!Peer!DrainedExit
      /\ Wire!Peer!WatchdogExpires = OneWire!Peer!WatchdogExpires
      /\ \A i : Wire!Peer!WorkerStep(i) = OneWire!Peer!WorkerStep(i)
  <2>1. Wire!Peer!StartupEnds = OneWire!Peer!StartupEnds
    BY Zenon DEF Wire!Peer!StartupEnds, OneWire!Peer!StartupEnds, Wire!Peer!Gone,
       OneWire!Peer!Gone, Wire!Peer!Becomes, OneWire!Peer!Becomes,
       Wire!Peer!FinishCleanup, OneWire!Peer!FinishCleanup, Wire!Peer!Live,
       OneWire!Peer!Live, Wire!Peer!Send, OneWire!Peer!Send, Wire!Peer!Fail,
       OneWire!Peer!Fail, Wire!Peer!Settled, OneWire!Peer!Settled, Wire!Peer!Unstarted,
       OneWire!Peer!Unstarted
  <2>2. Wire!Peer!CloseHost = OneWire!Peer!CloseHost
    BY Zenon DEF Wire!Peer!CloseHost, OneWire!Peer!CloseHost, Wire!Peer!Gone, OneWire!Peer!Gone,
       Wire!Peer!Leased, OneWire!Peer!Leased, Wire!Peer!Fail, OneWire!Peer!Fail,
       Wire!Peer!Settled, OneWire!Peer!Settled, Wire!Peer!Unstarted,
       OneWire!Peer!Unstarted, Wire!Peer!FinishCleanup, OneWire!Peer!FinishCleanup,
       Wire!Peer!Live, OneWire!Peer!Live, Wire!Peer!Send, OneWire!Peer!Send,
       Wire!Peer!Local, OneWire!Peer!Local, Wire!Peer!Becomes, OneWire!Peer!Becomes
  <2>3. Wire!Peer!CloseHostFails = OneWire!Peer!CloseHostFails
    BY Zenon DEF Wire!Peer!CloseHostFails, OneWire!Peer!CloseHostFails, Wire!Peer!Gone,
       OneWire!Peer!Gone, Wire!Peer!ForceExit, OneWire!Peer!ForceExit, Wire!Peer!Halts,
       OneWire!Peer!Halts, Wire!Peer!Remains, OneWire!Peer!Remains, Wire!Peer!NewPeer,
       OneWire!Peer!NewPeer, Wire!Peer!Send, OneWire!Peer!Send
  <2>4. Wire!Peer!DrainedExit = OneWire!Peer!DrainedExit
    BY Zenon DEF Wire!Peer!DrainedExit, OneWire!Peer!DrainedExit, Wire!Peer!Gone,
       OneWire!Peer!Gone, Wire!Peer!Remains, OneWire!Peer!Remains, Wire!Peer!NewPeer,
       OneWire!Peer!NewPeer
  <2>5. Wire!Peer!WatchdogExpires = OneWire!Peer!WatchdogExpires
    BY Zenon DEF Wire!Peer!WatchdogExpires, OneWire!Peer!WatchdogExpires, Wire!Peer!Gone,
       OneWire!Peer!Gone, Wire!Peer!Live, OneWire!Peer!Live, Wire!Peer!ForceExit,
       OneWire!Peer!ForceExit, Wire!Peer!Halts, OneWire!Peer!Halts, Wire!Peer!Remains,
       OneWire!Peer!Remains, Wire!Peer!NewPeer, OneWire!Peer!NewPeer, Wire!Peer!Send,
       OneWire!Peer!Send
  <2>6. ASSUME NEW i PROVE Wire!Peer!WorkerStep(i) = OneWire!Peer!WorkerStep(i)
    BY Zenon DEF Wire!Peer!WorkerStep, OneWire!Peer!WorkerStep, Wire!Peer!TaskStarts,
       OneWire!Peer!TaskStarts, Wire!Peer!Gone, OneWire!Peer!Gone, Wire!Peer!Local,
       OneWire!Peer!Local, Wire!Peer!Becomes, OneWire!Peer!Becomes, Wire!Peer!Progress,
       OneWire!Peer!Progress, Wire!Peer!Fail, OneWire!Peer!Fail, Wire!Peer!Settled,
       OneWire!Peer!Settled, Wire!Peer!Unstarted, OneWire!Peer!Unstarted,
       Wire!Peer!FinishCleanup, OneWire!Peer!FinishCleanup, Wire!Peer!Live,
       OneWire!Peer!Live, Wire!Peer!Send, OneWire!Peer!Send, Wire!Peer!Retire,
       OneWire!Peer!Retire, Wire!Peer!Truth, OneWire!Peer!Truth, Wire!Peer!ErrorOf,
       OneWire!Peer!ErrorOf, Wire!Peer!Begin, OneWire!Peer!Begin, Wire!Peer!Beginning, OneWire!Peer!Beginning,
       Wire!Peer!LeaseConnection, OneWire!Peer!LeaseConnection, Wire!Peer!Runs,
       OneWire!Peer!Runs, Wire!Peer!BeginFails, OneWire!Peer!BeginFails,
       Wire!Peer!Thrown, OneWire!Peer!Thrown, Wire!Peer!Arrive, OneWire!Peer!Arrive,
       Wire!Peer!Body, OneWire!Peer!Body, Wire!Peer!BodyThrows, OneWire!Peer!BodyThrows,
       Wire!Peer!Complete, OneWire!Peer!Complete, Wire!Peer!ReturnLease,
       OneWire!Peer!ReturnLease, Wire!Peer!ProxyExits, OneWire!Peer!ProxyExits
  <2> QED
    BY Zenon, <2>1, <2>2, <2>3, <2>4, <2>5, <2>6
<1> QED
  BY Zenon, <1>5, <1>6 DEF Wire!Peer!PeerStep, OneWire!Peer!PeerStep

(* And by the assumption, the start and the properties.                      *)
LEMMA WireSame ==
  /\ Wire!EngineAssumption = OneWire!EngineAssumption
  /\ Wire!WireInit = OneWire!WireInit
  /\ Wire!ChildDies = OneWire!ChildDies
  /\ Wire!OutcomeIsTrue = OneWire!OutcomeIsTrue
  /\ Wire!EngineSafe = OneWire!EngineSafe
<1>1. Wire!EngineAssumption = OneWire!EngineAssumption
  BY Zenon DEF Wire!EngineAssumption, OneWire!EngineAssumption, Wire!IsFiniteSet,
     OneWire!IsFiniteSet, Wire!ToChild, OneWire!ToChild, Wire!Terminals, OneWire!Terminals
<1>2. Wire!WireInit = OneWire!WireInit
  BY Zenon DEF Wire!WireInit, OneWire!WireInit, Wire!EngineInit, OneWire!EngineInit,
     Wire!NewEngine, OneWire!NewEngine, Wire!Peer!NewPeer, OneWire!Peer!NewPeer
<1>3. Wire!ChildDies = OneWire!ChildDies
  BY Zenon DEF Wire!ChildDies, OneWire!ChildDies, Wire!Peer!Halts, OneWire!Peer!Halts,
     Wire!Peer!Remains, OneWire!Peer!Remains, Wire!Peer!NewPeer, OneWire!Peer!NewPeer
<1>4. Wire!OutcomeIsTrue = OneWire!OutcomeIsTrue
  BY Zenon DEF Wire!OutcomeIsTrue, OneWire!OutcomeIsTrue, Wire!Peer!Settled, OneWire!Peer!Settled,
     Wire!Peer!Unstarted, OneWire!Peer!Unstarted, Wire!Peer!Truth, OneWire!Peer!Truth,
     Wire!Peer!Leased, OneWire!Peer!Leased
<1>5. Wire!EngineSafe = OneWire!EngineSafe
  BY Zenon DEF Wire!EngineSafe, OneWire!EngineSafe, Wire!CancelIsLast, OneWire!CancelIsLast,
     Wire!Faulted, OneWire!Faulted, Wire!BridgesKept, OneWire!BridgesKept,
     Wire!StopIsProven, OneWire!StopIsProven, Wire!Open, OneWire!Open
<1> QED
  BY Zenon, <1>1, <1>2, <1>3, <1>4, <1>5

(* And by the steps over the pipes.                                          *)
LEMMA WireSameNext == Wire!WireNext = OneWire!WireNext
<1>1. ASSUME NEW P PROVE Wire!Peer!Remains(P) = OneWire!Peer!Remains(P)
  BY Zenon DEF Wire!Peer!Remains, OneWire!Peer!Remains, Wire!Peer!NewPeer, OneWire!Peer!NewPeer
<1> QED
  BY Zenon, <1>1, WireEngine, WirePeer, WireSame DEF
     Wire!WireNext, OneWire!WireNext, Wire!EngineMoves, OneWire!EngineMoves, Wire!PeerMoves,
     OneWire!PeerMoves

(* Both instances mean the same by the steps of the adapter.                 *)
LEMMA AgainEngine == Again!EngineStep = TwoWire!EngineStep
<1>1. /\ \A M, i : Again!Observed(M, i) = TwoWire!Observed(M, i)
      /\ \A M, i : Again!BridgeEnds(M, i) = TwoWire!BridgeEnds(M, i)
      /\ \A M, frame : Again!Enqueue(M, frame) = TwoWire!Enqueue(M, frame)
      /\ \A M : Again!Faulted(M) = TwoWire!Faulted(M)
      /\ \A M, flags, send : Again!Fail(M, flags, send) = TwoWire!Fail(M, flags, send)
  <2>1. ASSUME NEW M, NEW i PROVE Again!Observed(M, i) = TwoWire!Observed(M, i)
    BY Zenon DEF Again!Observed, TwoWire!Observed, Again!Cancel, TwoWire!Cancel, Again!Faulted,
       TwoWire!Faulted, Again!Enqueue, TwoWire!Enqueue, Again!Fail, TwoWire!Fail
  <2>2. ASSUME NEW M, NEW i PROVE Again!BridgeEnds(M, i) = TwoWire!BridgeEnds(M, i)
    BY Zenon DEF Again!BridgeEnds, TwoWire!BridgeEnds, Again!Faulted, TwoWire!Faulted,
       Again!Finish, TwoWire!Finish
  <2>3. ASSUME NEW M, NEW frame PROVE Again!Enqueue(M, frame) = TwoWire!Enqueue(M, frame)
    BY Zenon DEF Again!Enqueue, TwoWire!Enqueue, Again!Fail, TwoWire!Fail, Again!Faulted,
       TwoWire!Faulted
  <2>4. ASSUME NEW M PROVE Again!Faulted(M) = TwoWire!Faulted(M)
    BY Zenon DEF Again!Faulted, TwoWire!Faulted
  <2>5. ASSUME NEW M, NEW flags, NEW send
        PROVE Again!Fail(M, flags, send) = TwoWire!Fail(M, flags, send)
    BY Zenon DEF Again!Fail, TwoWire!Fail, Again!Faulted, TwoWire!Faulted
  <2> QED
    BY Zenon, <2>1, <2>2, <2>3, <2>4, <2>5
<1>2. /\ Again!StartStep = TwoWire!StartStep
      /\ Again!ParentEnds = TwoWire!ParentEnds
      /\ Again!WriterStep = TwoWire!WriterStep
      /\ Again!ReaderStep = TwoWire!ReaderStep
      /\ Again!BeginStop = TwoWire!BeginStop
      /\ Again!CleanupStep = TwoWire!CleanupStep
      /\ \A i : Again!Invoke(i) = TwoWire!Invoke(i)
      /\ \A i : Again!WatchContext(i) = TwoWire!WatchContext(i)
  <2>1. Again!StartStep = TwoWire!StartStep
    BY Zenon DEF Again!StartStep, TwoWire!StartStep, Again!StartBegins, TwoWire!StartBegins,
       Again!Has, TwoWire!Has, Again!Launched, TwoWire!Launched, Again!Latch,
       TwoWire!Latch, Again!Call, TwoWire!Call, Again!Enqueue, TwoWire!Enqueue,
       Again!Fail, TwoWire!Fail, Again!Faulted, TwoWire!Faulted, Again!LaunchFails,
       TwoWire!LaunchFails, Again!StartReturns, TwoWire!StartReturns, Again!StartFails,
       TwoWire!StartFails
  <2>2. Again!ParentEnds = TwoWire!ParentEnds
    BY Zenon DEF Again!ParentEnds, TwoWire!ParentEnds, Again!Has, TwoWire!Has, Again!Call,
       TwoWire!Call, Again!Latch, TwoWire!Latch
  <2>3. Again!WriterStep = TwoWire!WriterStep
    BY Zenon DEF Again!WriterStep, TwoWire!WriterStep, Again!WriteBegins, TwoWire!WriteBegins,
       Again!Writes, TwoWire!Writes, Again!Has, TwoWire!Has, Again!Call, TwoWire!Call,
       Again!Marked, TwoWire!Marked, Again!Latch, TwoWire!Latch, Again!Exited,
       TwoWire!Exited, Again!WriteReturns, TwoWire!WriteReturns, Again!WriteFails,
       TwoWire!WriteFails, Again!Fail, TwoWire!Fail, Again!Faulted, TwoWire!Faulted,
       Again!WriterEnds, TwoWire!WriterEnds
  <2>4. Again!ReaderStep = TwoWire!ReaderStep
    BY Zenon DEF Again!ReaderStep, TwoWire!ReaderStep, Again!ReadFrame, TwoWire!ReadFrame,
       Again!Reads, TwoWire!Reads, Again!Has, TwoWire!Has, Again!Faulted,
       TwoWire!Faulted, Again!Waits, TwoWire!Waits, Again!Sent, TwoWire!Sent, Again!Call,
       TwoWire!Call, Again!Received, TwoWire!Received, Again!Fail, TwoWire!Fail,
       Again!Reject, TwoWire!Reject, Again!Latch, TwoWire!Latch, Again!Open,
       TwoWire!Open, Again!ReceivedOf, TwoWire!ReceivedOf, Again!Observed,
       TwoWire!Observed, Again!Cancel, TwoWire!Cancel, Again!Enqueue, TwoWire!Enqueue,
       Again!Finish, TwoWire!Finish, Again!ReadEnds, TwoWire!ReadEnds, Again!Exited,
       TwoWire!Exited, Again!SeeExit, TwoWire!SeeExit
  <2>5. Again!BeginStop = TwoWire!BeginStop
    BY Zenon DEF Again!BeginStop, TwoWire!BeginStop, Again!Has, TwoWire!Has, Again!Call,
       TwoWire!Call, Again!Latch, TwoWire!Latch
  <2>6. Again!CleanupStep = TwoWire!CleanupStep
    BY Zenon DEF Again!CleanupStep, TwoWire!CleanupStep, Again!LaunchOutlasts,
       TwoWire!LaunchOutlasts, Again!Has, TwoWire!Has, Again!KillLate, TwoWire!KillLate,
       Again!Call, TwoWire!Call, Again!Latch, TwoWire!Latch, Again!Kill, TwoWire!Kill,
       Again!Exited, TwoWire!Exited, Again!StopWithoutChild, TwoWire!StopWithoutChild,
       Again!Answer, TwoWire!Answer, Again!Faulted, TwoWire!Faulted, Again!CancelAll,
       TwoWire!CancelAll, Again!Open, TwoWire!Open, Again!Orders, TwoWire!Orders,
       Again!CanceledIn, TwoWire!CanceledIn, Again!Cancel, TwoWire!Cancel, Again!Enqueue,
       TwoWire!Enqueue, Again!Fail, TwoWire!Fail, Again!GraceEnds, TwoWire!GraceEnds,
       Again!Joined, TwoWire!Joined, Again!EndGrace, TwoWire!EndGrace, Again!Proven,
       TwoWire!Proven, Again!StopReturns, TwoWire!StopReturns, Again!ReapExpires,
       TwoWire!ReapExpires
  <2>7. ASSUME NEW i PROVE Again!Invoke(i) = TwoWire!Invoke(i)
    BY Zenon DEF Again!Invoke, TwoWire!Invoke, Again!Has, TwoWire!Has, Again!Faulted,
       TwoWire!Faulted, Again!Open, TwoWire!Open, Again!Cardinality, TwoWire!Cardinality,
       Again!IsFiniteSet, TwoWire!IsFiniteSet, Again!Call, TwoWire!Call, Again!Enqueue,
       TwoWire!Enqueue, Again!Fail, TwoWire!Fail
  <2>8. ASSUME NEW i PROVE Again!WatchContext(i) = TwoWire!WatchContext(i)
    BY Zenon DEF Again!WatchContext, TwoWire!WatchContext, Again!Has, TwoWire!Has, Again!Open,
       TwoWire!Open, Again!Call, TwoWire!Call, Again!Cancel, TwoWire!Cancel,
       Again!Faulted, TwoWire!Faulted, Again!Enqueue, TwoWire!Enqueue, Again!Fail,
       TwoWire!Fail
  <2> QED
    BY Zenon, <2>1, <2>2, <2>3, <2>4, <2>5, <2>6, <2>7, <2>8
<1>3. ASSUME NEW i PROVE Again!BridgeStep(i) = TwoWire!BridgeStep(i)
  <2>1. Again!BridgeReleases(i) = TwoWire!BridgeReleases(i)
    BY <1>1 DEF Again!BridgeReleases, TwoWire!BridgeReleases, Again!Call, TwoWire!Call
  <2>2. Again!BridgeUnwinds(i) = TwoWire!BridgeUnwinds(i)
    BY <1>1 DEF Again!BridgeUnwinds, TwoWire!BridgeUnwinds, Again!Call, TwoWire!Call,
      Again!ContextDone, TwoWire!ContextDone
  <2>3. Again!BridgeRefused(i) = TwoWire!BridgeRefused(i)
    BY <1>1 DEF Again!BridgeRefused, TwoWire!BridgeRefused, Again!Call, TwoWire!Call
  <2> QED
    BY <2>1, <2>2, <2>3 DEF Again!BridgeStep, TwoWire!BridgeStep
<1> QED
  BY Zenon, <1>2, <1>3 DEF Again!EngineStep, TwoWire!EngineStep

(* Both instances mean the same by the steps of the peer.                    *)
LEMMA AgainPeer == Again!Peer!PeerStep = TwoWire!Peer!PeerStep
<1>1. /\ \A P : Again!Peer!Becomes(P) = TwoWire!Peer!Becomes(P)
      /\ \A P, status : Again!Peer!Halts(P, status) = TwoWire!Peer!Halts(P, status)
      /\ \A S : Again!Peer!Orders(S) = TwoWire!Peer!Orders(S)
      /\ \A P : Again!Peer!Live(P) = TwoWire!Peer!Live(P)
      /\ Again!Peer!Reading = TwoWire!Peer!Reading
      /\ \A P, kind, send : Again!Peer!Fail(P, kind, send) = TwoWire!Peer!Fail(P, kind, send)
      /\ \A P : Again!Peer!FinishCleanup(P) = TwoWire!Peer!FinishCleanup(P)
      /\ \A P, i, why : Again!Peer!Cancel(P, i, why) = TwoWire!Peer!Cancel(P, i, why)
      /\ \A P : Again!Peer!OnStart(P) = TwoWire!Peer!OnStart(P)
      /\ \A P, i : Again!Peer!OnInvoke(P, i) = TwoWire!Peer!OnInvoke(P, i)
      /\ \A P, i, n : Again!Peer!OnRelease(P, i, n) = TwoWire!Peer!OnRelease(P, i, n)
      /\ \A P, i, why : Again!Peer!OnCancel(P, i, why) = TwoWire!Peer!OnCancel(P, i, why)
  <2>1. ASSUME NEW P PROVE Again!Peer!Becomes(P) = TwoWire!Peer!Becomes(P)
    BY Zenon DEF Again!Peer!Becomes, TwoWire!Peer!Becomes
  <2>2. ASSUME NEW P, NEW status
        PROVE Again!Peer!Halts(P, status) = TwoWire!Peer!Halts(P, status)
    BY Zenon DEF Again!Peer!Halts, TwoWire!Peer!Halts, Again!Peer!Remains, TwoWire!Peer!Remains,
       Again!Peer!NewPeer, TwoWire!Peer!NewPeer
  <2>3. ASSUME NEW S PROVE Again!Peer!Orders(S) = TwoWire!Peer!Orders(S)
    BY Zenon DEF Again!Peer!Orders, TwoWire!Peer!Orders
  <2>4. ASSUME NEW P PROVE Again!Peer!Live(P) = TwoWire!Peer!Live(P)
    BY Zenon DEF Again!Peer!Live, TwoWire!Peer!Live
  <2>5. Again!Peer!Reading = TwoWire!Peer!Reading
    BY Zenon DEF Again!Peer!Reading, TwoWire!Peer!Reading, Again!Peer!Gone, TwoWire!Peer!Gone
  <2>6. ASSUME NEW P, NEW kind, NEW send
        PROVE Again!Peer!Fail(P, kind, send) = TwoWire!Peer!Fail(P, kind, send)
    BY Zenon DEF Again!Peer!Fail, TwoWire!Peer!Fail, Again!Peer!Settled, TwoWire!Peer!Settled,
       Again!Peer!Unstarted, TwoWire!Peer!Unstarted, Again!Peer!FinishCleanup,
       TwoWire!Peer!FinishCleanup, Again!Peer!Live, TwoWire!Peer!Live, Again!Peer!Send,
       TwoWire!Peer!Send
  <2>7. ASSUME NEW P PROVE Again!Peer!FinishCleanup(P) = TwoWire!Peer!FinishCleanup(P)
    BY Zenon DEF Again!Peer!FinishCleanup, TwoWire!Peer!FinishCleanup, Again!Peer!Live,
       TwoWire!Peer!Live
  <2>8. ASSUME NEW P, NEW i, NEW why
        PROVE Again!Peer!Cancel(P, i, why) = TwoWire!Peer!Cancel(P, i, why)
    BY Zenon DEF Again!Peer!Cancel, TwoWire!Peer!Cancel, Again!Peer!Progress,
       TwoWire!Peer!Progress, Again!Peer!Fail, TwoWire!Peer!Fail, Again!Peer!Settled,
       TwoWire!Peer!Settled, Again!Peer!Unstarted, TwoWire!Peer!Unstarted,
       Again!Peer!FinishCleanup, TwoWire!Peer!FinishCleanup, Again!Peer!Live,
       TwoWire!Peer!Live, Again!Peer!Send, TwoWire!Peer!Send, Again!Peer!Retire,
       TwoWire!Peer!Retire, Again!Peer!Truth, TwoWire!Peer!Truth, Again!Peer!ErrorOf,
       TwoWire!Peer!ErrorOf
  <2>9. ASSUME NEW P PROVE Again!Peer!OnStart(P) = TwoWire!Peer!OnStart(P)
    BY Zenon DEF Again!Peer!OnStart, TwoWire!Peer!OnStart, Again!Peer!Fail, TwoWire!Peer!Fail,
       Again!Peer!Settled, TwoWire!Peer!Settled, Again!Peer!Unstarted,
       TwoWire!Peer!Unstarted, Again!Peer!FinishCleanup, TwoWire!Peer!FinishCleanup,
       Again!Peer!Live, TwoWire!Peer!Live, Again!Peer!Send, TwoWire!Peer!Send
  <2>10. ASSUME NEW P, NEW i PROVE Again!Peer!OnInvoke(P, i) = TwoWire!Peer!OnInvoke(P, i)
    BY Zenon DEF Again!Peer!OnInvoke, TwoWire!Peer!OnInvoke, Again!Peer!Live, TwoWire!Peer!Live,
       Again!Peer!Cardinality, TwoWire!Peer!Cardinality, Again!Peer!IsFiniteSet,
       TwoWire!Peer!IsFiniteSet, Again!Peer!Fail, TwoWire!Peer!Fail, Again!Peer!Settled,
       TwoWire!Peer!Settled, Again!Peer!Unstarted, TwoWire!Peer!Unstarted,
       Again!Peer!FinishCleanup, TwoWire!Peer!FinishCleanup, Again!Peer!Send,
       TwoWire!Peer!Send
  <2>11. ASSUME NEW P, NEW i, NEW n
         PROVE Again!Peer!OnRelease(P, i, n) = TwoWire!Peer!OnRelease(P, i, n)
    BY Zenon DEF Again!Peer!OnRelease, TwoWire!Peer!OnRelease, Again!Peer!Fail, TwoWire!Peer!Fail,
       Again!Peer!Settled, TwoWire!Peer!Settled, Again!Peer!Unstarted,
       TwoWire!Peer!Unstarted, Again!Peer!FinishCleanup, TwoWire!Peer!FinishCleanup,
       Again!Peer!Live, TwoWire!Peer!Live, Again!Peer!Send, TwoWire!Peer!Send
  <2>12. ASSUME NEW P, NEW i, NEW why
         PROVE Again!Peer!OnCancel(P, i, why) = TwoWire!Peer!OnCancel(P, i, why)
    BY Zenon DEF Again!Peer!OnCancel, TwoWire!Peer!OnCancel, Again!Peer!Fail, TwoWire!Peer!Fail,
       Again!Peer!Settled, TwoWire!Peer!Settled, Again!Peer!Unstarted,
       TwoWire!Peer!Unstarted, Again!Peer!FinishCleanup, TwoWire!Peer!FinishCleanup,
       Again!Peer!Live, TwoWire!Peer!Live, Again!Peer!Send, TwoWire!Peer!Send,
       Again!Peer!Cancel, TwoWire!Peer!Cancel, Again!Peer!Progress,
       TwoWire!Peer!Progress, Again!Peer!Retire, TwoWire!Peer!Retire, Again!Peer!Truth,
       TwoWire!Peer!Truth, Again!Peer!ErrorOf, TwoWire!Peer!ErrorOf
  <2> QED
    BY Zenon, <2>1, <2>2, <2>3, <2>4, <2>5, <2>6, <2>7, <2>8, <2>9, <2>10, <2>11, <2>12
<1>2. ASSUME NEW P, NEW S, NEW last PROVE Again!Peer!CanceledIn(P, S, last) = TwoWire!Peer!CanceledIn(P, S, last)
  <2>1. ASSUME NEW C
        PROVE  [todo \in SUBSET S |->
                  IF todo = {} THEN P ELSE Again!Peer!Cancel(C[todo \ {last[todo]}], last[todo], "stop")]
               = [todo \in SUBSET S |->
                    IF todo = {} THEN P ELSE TwoWire!Peer!Cancel(C[todo \ {last[todo]}], last[todo], "stop")]
    BY Zenon, <1>1
  <2> QED
    BY Zenon, <2>1 DEF Again!Peer!CanceledIn, TwoWire!Peer!CanceledIn
<1>3. ASSUME NEW P, NEW last PROVE Again!Peer!OnStop(P, last) = TwoWire!Peer!OnStop(P, last)
  BY Zenon, <1>1, <1>2 DEF Again!Peer!OnStop, TwoWire!Peer!OnStop
<1>4. ASSUME NEW P, NEW f, NEW last PROVE Again!Peer!Handle(P, f, last) = TwoWire!Peer!Handle(P, f, last)
  BY Zenon, <1>1, <1>3 DEF Again!Peer!Handle, TwoWire!Peer!Handle
<1>5. Again!Peer!Receive = TwoWire!Peer!Receive
  BY Zenon, <1>1, <1>4 DEF Again!Peer!Receive, TwoWire!Peer!Receive, Again!Peer!Closed, TwoWire!Peer!Closed
<1>6. /\ Again!Peer!StartupEnds = TwoWire!Peer!StartupEnds
      /\ Again!Peer!CloseHost = TwoWire!Peer!CloseHost
      /\ Again!Peer!CloseHostFails = TwoWire!Peer!CloseHostFails
      /\ Again!Peer!DrainedExit = TwoWire!Peer!DrainedExit
      /\ Again!Peer!WatchdogExpires = TwoWire!Peer!WatchdogExpires
      /\ \A i : Again!Peer!WorkerStep(i) = TwoWire!Peer!WorkerStep(i)
  <2>1. Again!Peer!StartupEnds = TwoWire!Peer!StartupEnds
    BY Zenon DEF Again!Peer!StartupEnds, TwoWire!Peer!StartupEnds, Again!Peer!Gone,
       TwoWire!Peer!Gone, Again!Peer!Becomes, TwoWire!Peer!Becomes,
       Again!Peer!FinishCleanup, TwoWire!Peer!FinishCleanup, Again!Peer!Live,
       TwoWire!Peer!Live, Again!Peer!Send, TwoWire!Peer!Send, Again!Peer!Fail,
       TwoWire!Peer!Fail, Again!Peer!Settled, TwoWire!Peer!Settled, Again!Peer!Unstarted,
       TwoWire!Peer!Unstarted
  <2>2. Again!Peer!CloseHost = TwoWire!Peer!CloseHost
    BY Zenon DEF Again!Peer!CloseHost, TwoWire!Peer!CloseHost, Again!Peer!Gone, TwoWire!Peer!Gone,
       Again!Peer!Leased, TwoWire!Peer!Leased, Again!Peer!Fail, TwoWire!Peer!Fail,
       Again!Peer!Settled, TwoWire!Peer!Settled, Again!Peer!Unstarted,
       TwoWire!Peer!Unstarted, Again!Peer!FinishCleanup, TwoWire!Peer!FinishCleanup,
       Again!Peer!Live, TwoWire!Peer!Live, Again!Peer!Send, TwoWire!Peer!Send,
       Again!Peer!Local, TwoWire!Peer!Local, Again!Peer!Becomes, TwoWire!Peer!Becomes
  <2>3. Again!Peer!CloseHostFails = TwoWire!Peer!CloseHostFails
    BY Zenon DEF Again!Peer!CloseHostFails, TwoWire!Peer!CloseHostFails, Again!Peer!Gone,
       TwoWire!Peer!Gone, Again!Peer!ForceExit, TwoWire!Peer!ForceExit, Again!Peer!Halts,
       TwoWire!Peer!Halts, Again!Peer!Remains, TwoWire!Peer!Remains, Again!Peer!NewPeer,
       TwoWire!Peer!NewPeer, Again!Peer!Send, TwoWire!Peer!Send
  <2>4. Again!Peer!DrainedExit = TwoWire!Peer!DrainedExit
    BY Zenon DEF Again!Peer!DrainedExit, TwoWire!Peer!DrainedExit, Again!Peer!Gone,
       TwoWire!Peer!Gone, Again!Peer!Remains, TwoWire!Peer!Remains, Again!Peer!NewPeer,
       TwoWire!Peer!NewPeer
  <2>5. Again!Peer!WatchdogExpires = TwoWire!Peer!WatchdogExpires
    BY Zenon DEF Again!Peer!WatchdogExpires, TwoWire!Peer!WatchdogExpires, Again!Peer!Gone,
       TwoWire!Peer!Gone, Again!Peer!Live, TwoWire!Peer!Live, Again!Peer!ForceExit,
       TwoWire!Peer!ForceExit, Again!Peer!Halts, TwoWire!Peer!Halts, Again!Peer!Remains,
       TwoWire!Peer!Remains, Again!Peer!NewPeer, TwoWire!Peer!NewPeer, Again!Peer!Send,
       TwoWire!Peer!Send
  <2>6. ASSUME NEW i PROVE Again!Peer!WorkerStep(i) = TwoWire!Peer!WorkerStep(i)
    BY Zenon DEF Again!Peer!WorkerStep, TwoWire!Peer!WorkerStep, Again!Peer!TaskStarts,
       TwoWire!Peer!TaskStarts, Again!Peer!Gone, TwoWire!Peer!Gone, Again!Peer!Local,
       TwoWire!Peer!Local, Again!Peer!Becomes, TwoWire!Peer!Becomes, Again!Peer!Progress,
       TwoWire!Peer!Progress, Again!Peer!Fail, TwoWire!Peer!Fail, Again!Peer!Settled,
       TwoWire!Peer!Settled, Again!Peer!Unstarted, TwoWire!Peer!Unstarted,
       Again!Peer!FinishCleanup, TwoWire!Peer!FinishCleanup, Again!Peer!Live,
       TwoWire!Peer!Live, Again!Peer!Send, TwoWire!Peer!Send, Again!Peer!Retire,
       TwoWire!Peer!Retire, Again!Peer!Truth, TwoWire!Peer!Truth, Again!Peer!ErrorOf,
       TwoWire!Peer!ErrorOf, Again!Peer!Begin, TwoWire!Peer!Begin, Again!Peer!Beginning, TwoWire!Peer!Beginning,
       Again!Peer!LeaseConnection, TwoWire!Peer!LeaseConnection, Again!Peer!Runs,
       TwoWire!Peer!Runs, Again!Peer!BeginFails, TwoWire!Peer!BeginFails,
       Again!Peer!Thrown, TwoWire!Peer!Thrown, Again!Peer!Arrive, TwoWire!Peer!Arrive,
       Again!Peer!Body, TwoWire!Peer!Body, Again!Peer!BodyThrows,
       TwoWire!Peer!BodyThrows, Again!Peer!Complete, TwoWire!Peer!Complete,
       Again!Peer!ReturnLease, TwoWire!Peer!ReturnLease, Again!Peer!ProxyExits,
       TwoWire!Peer!ProxyExits
  <2> QED
    BY Zenon, <2>1, <2>2, <2>3, <2>4, <2>5, <2>6
<1> QED
  BY Zenon, <1>5, <1>6 DEF Again!Peer!PeerStep, TwoWire!Peer!PeerStep

(* And by the assumption, the start and the properties.                      *)
LEMMA AgainSame ==
  /\ Again!EngineAssumption = TwoWire!EngineAssumption
  /\ Again!WireInit = TwoWire!WireInit
  /\ Again!ChildDies = TwoWire!ChildDies
  /\ Again!OutcomeIsTrue = TwoWire!OutcomeIsTrue
  /\ Again!EngineSafe = TwoWire!EngineSafe
<1>1. Again!EngineAssumption = TwoWire!EngineAssumption
  BY Zenon DEF Again!EngineAssumption, TwoWire!EngineAssumption, Again!IsFiniteSet,
     TwoWire!IsFiniteSet, Again!ToChild, TwoWire!ToChild, Again!Terminals,
     TwoWire!Terminals
<1>2. Again!WireInit = TwoWire!WireInit
  BY Zenon DEF Again!WireInit, TwoWire!WireInit, Again!EngineInit, TwoWire!EngineInit,
     Again!NewEngine, TwoWire!NewEngine, Again!Peer!NewPeer, TwoWire!Peer!NewPeer
<1>3. Again!ChildDies = TwoWire!ChildDies
  BY Zenon DEF Again!ChildDies, TwoWire!ChildDies, Again!Peer!Halts, TwoWire!Peer!Halts,
     Again!Peer!Remains, TwoWire!Peer!Remains, Again!Peer!NewPeer, TwoWire!Peer!NewPeer
<1>4. Again!OutcomeIsTrue = TwoWire!OutcomeIsTrue
  BY Zenon DEF Again!OutcomeIsTrue, TwoWire!OutcomeIsTrue, Again!Peer!Settled,
     TwoWire!Peer!Settled, Again!Peer!Unstarted, TwoWire!Peer!Unstarted,
     Again!Peer!Truth, TwoWire!Peer!Truth, Again!Peer!Leased, TwoWire!Peer!Leased
<1>5. Again!EngineSafe = TwoWire!EngineSafe
  BY Zenon DEF Again!EngineSafe, TwoWire!EngineSafe, Again!CancelIsLast, TwoWire!CancelIsLast,
     Again!Faulted, TwoWire!Faulted, Again!BridgesKept, TwoWire!BridgesKept,
     Again!StopIsProven, TwoWire!StopIsProven, Again!Open, TwoWire!Open
<1> QED
  BY Zenon, <1>1, <1>2, <1>3, <1>4, <1>5

(* And by the steps over the pipes.                                          *)
LEMMA AgainSameNext == Again!WireNext = TwoWire!WireNext
<1>1. ASSUME NEW P PROVE Again!Peer!Remains(P) = TwoWire!Peer!Remains(P)
  BY Zenon DEF Again!Peer!Remains, TwoWire!Peer!Remains, Again!Peer!NewPeer, TwoWire!Peer!NewPeer
<1> QED
  BY Zenon, <1>1, AgainEngine, AgainPeer, AgainSame DEF
     Again!WireNext, TwoWire!WireNext, Again!EngineMoves, TwoWire!EngineMoves,
     Again!PeerMoves, TwoWire!PeerMoves

(* Both instances mean the same by the steps of the adapter.                 *)
LEMMA EngineEngine == Engine!EngineStep = OneEngine!EngineStep
<1>1. /\ \A M, i : Engine!Observed(M, i) = OneEngine!Observed(M, i)
      /\ \A M, i : Engine!BridgeEnds(M, i) = OneEngine!BridgeEnds(M, i)
      /\ \A M, frame : Engine!Enqueue(M, frame) = OneEngine!Enqueue(M, frame)
      /\ \A M : Engine!Faulted(M) = OneEngine!Faulted(M)
      /\ \A M, flags, send : Engine!Fail(M, flags, send) = OneEngine!Fail(M, flags, send)
  <2>1. ASSUME NEW M, NEW i PROVE Engine!Observed(M, i) = OneEngine!Observed(M, i)
    BY Zenon DEF Engine!Observed, OneEngine!Observed, Engine!Cancel, OneEngine!Cancel,
       Engine!Faulted, OneEngine!Faulted, Engine!Enqueue, OneEngine!Enqueue, Engine!Fail,
       OneEngine!Fail
  <2>2. ASSUME NEW M, NEW i PROVE Engine!BridgeEnds(M, i) = OneEngine!BridgeEnds(M, i)
    BY Zenon DEF Engine!BridgeEnds, OneEngine!BridgeEnds, Engine!Faulted, OneEngine!Faulted,
       Engine!Finish, OneEngine!Finish
  <2>3. ASSUME NEW M, NEW frame PROVE Engine!Enqueue(M, frame) = OneEngine!Enqueue(M, frame)
    BY Zenon DEF Engine!Enqueue, OneEngine!Enqueue, Engine!Fail, OneEngine!Fail, Engine!Faulted,
       OneEngine!Faulted
  <2>4. ASSUME NEW M PROVE Engine!Faulted(M) = OneEngine!Faulted(M)
    BY Zenon DEF Engine!Faulted, OneEngine!Faulted
  <2>5. ASSUME NEW M, NEW flags, NEW send
        PROVE Engine!Fail(M, flags, send) = OneEngine!Fail(M, flags, send)
    BY Zenon DEF Engine!Fail, OneEngine!Fail, Engine!Faulted, OneEngine!Faulted
  <2> QED
    BY Zenon, <2>1, <2>2, <2>3, <2>4, <2>5
<1>2. /\ Engine!StartStep = OneEngine!StartStep
      /\ Engine!ParentEnds = OneEngine!ParentEnds
      /\ Engine!WriterStep = OneEngine!WriterStep
      /\ Engine!ReaderStep = OneEngine!ReaderStep
      /\ Engine!BeginStop = OneEngine!BeginStop
      /\ Engine!CleanupStep = OneEngine!CleanupStep
      /\ \A i : Engine!Invoke(i) = OneEngine!Invoke(i)
      /\ \A i : Engine!WatchContext(i) = OneEngine!WatchContext(i)
  <2>1. Engine!StartStep = OneEngine!StartStep
    BY Zenon DEF Engine!StartStep, OneEngine!StartStep, Engine!StartBegins, OneEngine!StartBegins,
       Engine!Has, OneEngine!Has, Engine!Launched, OneEngine!Launched, Engine!Latch,
       OneEngine!Latch, Engine!Call, OneEngine!Call, Engine!Enqueue, OneEngine!Enqueue,
       Engine!Fail, OneEngine!Fail, Engine!Faulted, OneEngine!Faulted,
       Engine!LaunchFails, OneEngine!LaunchFails, Engine!StartReturns,
       OneEngine!StartReturns, Engine!StartFails, OneEngine!StartFails
  <2>2. Engine!ParentEnds = OneEngine!ParentEnds
    BY Zenon DEF Engine!ParentEnds, OneEngine!ParentEnds, Engine!Has, OneEngine!Has, Engine!Call,
       OneEngine!Call, Engine!Latch, OneEngine!Latch
  <2>3. Engine!WriterStep = OneEngine!WriterStep
    BY Zenon DEF Engine!WriterStep, OneEngine!WriterStep, Engine!WriteBegins,
       OneEngine!WriteBegins, Engine!Writes, OneEngine!Writes, Engine!Has, OneEngine!Has,
       Engine!Call, OneEngine!Call, Engine!Marked, OneEngine!Marked, Engine!Latch,
       OneEngine!Latch, Engine!Exited, OneEngine!Exited, Engine!WriteReturns,
       OneEngine!WriteReturns, Engine!WriteFails, OneEngine!WriteFails, Engine!Fail,
       OneEngine!Fail, Engine!Faulted, OneEngine!Faulted, Engine!WriterEnds,
       OneEngine!WriterEnds
  <2>4. Engine!ReaderStep = OneEngine!ReaderStep
    BY Zenon DEF Engine!ReaderStep, OneEngine!ReaderStep, Engine!ReadFrame, OneEngine!ReadFrame,
       Engine!Reads, OneEngine!Reads, Engine!Has, OneEngine!Has, Engine!Faulted,
       OneEngine!Faulted, Engine!Waits, OneEngine!Waits, Engine!Sent, OneEngine!Sent,
       Engine!Call, OneEngine!Call, Engine!Received, OneEngine!Received, Engine!Fail,
       OneEngine!Fail, Engine!Reject, OneEngine!Reject, Engine!Latch, OneEngine!Latch,
       Engine!Open, OneEngine!Open, Engine!ReceivedOf, OneEngine!ReceivedOf,
       Engine!Observed, OneEngine!Observed, Engine!Cancel, OneEngine!Cancel,
       Engine!Enqueue, OneEngine!Enqueue, Engine!Finish, OneEngine!Finish,
       Engine!ReadEnds, OneEngine!ReadEnds, Engine!Exited, OneEngine!Exited,
       Engine!SeeExit, OneEngine!SeeExit
  <2>5. Engine!BeginStop = OneEngine!BeginStop
    BY Zenon DEF Engine!BeginStop, OneEngine!BeginStop, Engine!Has, OneEngine!Has, Engine!Call,
       OneEngine!Call, Engine!Latch, OneEngine!Latch
  <2>6. Engine!CleanupStep = OneEngine!CleanupStep
    BY Zenon DEF Engine!CleanupStep, OneEngine!CleanupStep, Engine!LaunchOutlasts,
       OneEngine!LaunchOutlasts, Engine!Has, OneEngine!Has, Engine!KillLate,
       OneEngine!KillLate, Engine!Call, OneEngine!Call, Engine!Latch, OneEngine!Latch,
       Engine!Kill, OneEngine!Kill, Engine!Exited, OneEngine!Exited,
       Engine!StopWithoutChild, OneEngine!StopWithoutChild, Engine!Answer,
       OneEngine!Answer, Engine!Faulted, OneEngine!Faulted, Engine!CancelAll,
       OneEngine!CancelAll, Engine!Open, OneEngine!Open, Engine!Orders, OneEngine!Orders,
       Engine!CanceledIn, OneEngine!CanceledIn, Engine!Cancel, OneEngine!Cancel,
       Engine!Enqueue, OneEngine!Enqueue, Engine!Fail, OneEngine!Fail, Engine!GraceEnds,
       OneEngine!GraceEnds, Engine!Joined, OneEngine!Joined, Engine!EndGrace,
       OneEngine!EndGrace, Engine!Proven, OneEngine!Proven, Engine!StopReturns,
       OneEngine!StopReturns, Engine!ReapExpires, OneEngine!ReapExpires
  <2>7. ASSUME NEW i PROVE Engine!Invoke(i) = OneEngine!Invoke(i)
    BY Zenon DEF Engine!Invoke, OneEngine!Invoke, Engine!Has, OneEngine!Has, Engine!Faulted,
       OneEngine!Faulted, Engine!Open, OneEngine!Open, Engine!Cardinality,
       OneEngine!Cardinality, Engine!IsFiniteSet, OneEngine!IsFiniteSet, Engine!Call,
       OneEngine!Call, Engine!Enqueue, OneEngine!Enqueue, Engine!Fail, OneEngine!Fail
  <2>8. ASSUME NEW i PROVE Engine!WatchContext(i) = OneEngine!WatchContext(i)
    BY Zenon DEF Engine!WatchContext, OneEngine!WatchContext, Engine!Has, OneEngine!Has,
       Engine!Open, OneEngine!Open, Engine!Call, OneEngine!Call, Engine!Cancel,
       OneEngine!Cancel, Engine!Faulted, OneEngine!Faulted, Engine!Enqueue,
       OneEngine!Enqueue, Engine!Fail, OneEngine!Fail
  <2> QED
    BY Zenon, <2>1, <2>2, <2>3, <2>4, <2>5, <2>6, <2>7, <2>8
<1>3. ASSUME NEW i PROVE Engine!BridgeStep(i) = OneEngine!BridgeStep(i)
  <2>1. Engine!BridgeReleases(i) = OneEngine!BridgeReleases(i)
    BY <1>1 DEF Engine!BridgeReleases, OneEngine!BridgeReleases, Engine!Call, OneEngine!Call
  <2>2. Engine!BridgeUnwinds(i) = OneEngine!BridgeUnwinds(i)
    BY <1>1 DEF Engine!BridgeUnwinds, OneEngine!BridgeUnwinds, Engine!Call, OneEngine!Call,
      Engine!ContextDone, OneEngine!ContextDone
  <2>3. Engine!BridgeRefused(i) = OneEngine!BridgeRefused(i)
    BY <1>1 DEF Engine!BridgeRefused, OneEngine!BridgeRefused, Engine!Call, OneEngine!Call
  <2> QED
    BY <2>1, <2>2, <2>3 DEF Engine!BridgeStep, OneEngine!BridgeStep
<1> QED
  BY Zenon, <1>2, <1>3 DEF Engine!EngineStep, OneEngine!EngineStep

(* And by the rest of the part with any child.                               *)
LEMMA EngineSame ==
  /\ Engine!EngineAssumption = OneEngine!EngineAssumption
  /\ Engine!EngineInit = OneEngine!EngineInit
  /\ Engine!AnyChild = OneEngine!AnyChild
  /\ Engine!EngineSafe = OneEngine!EngineSafe
<1>1. Engine!EngineAssumption = OneEngine!EngineAssumption
  BY Zenon DEF Engine!EngineAssumption, OneEngine!EngineAssumption, Engine!IsFiniteSet,
     OneEngine!IsFiniteSet, Engine!ToChild, OneEngine!ToChild, Engine!Terminals,
     OneEngine!Terminals
<1>2. Engine!EngineInit = OneEngine!EngineInit
  BY Zenon DEF Engine!EngineInit, OneEngine!EngineInit, Engine!NewEngine, OneEngine!NewEngine
<1>3. Engine!AnyChild = OneEngine!AnyChild
  BY Zenon DEF Engine!AnyChild, OneEngine!AnyChild, Engine!PeerSays, OneEngine!PeerSays,
     Engine!Faulted, OneEngine!Faulted, Engine!PeerFrames, OneEngine!PeerFrames,
     Engine!PeerReads, OneEngine!PeerReads, Engine!PeerEnds, OneEngine!PeerEnds
<1>4. Engine!EngineSafe = OneEngine!EngineSafe
  BY Zenon DEF Engine!EngineSafe, OneEngine!EngineSafe, Engine!CancelIsLast,
     OneEngine!CancelIsLast, Engine!Faulted, OneEngine!Faulted, Engine!BridgesKept,
     OneEngine!BridgesKept, Engine!StopIsProven, OneEngine!StopIsProven, Engine!Open,
     OneEngine!Open
<1> QED
  BY Zenon, <1>1, <1>2, <1>3, <1>4

(* Both instances mean the same by the steps of the peer.                    *)
LEMMA PeerPeer == Peer!PeerStep = OneWire!Peer!PeerStep
<1>1. /\ \A P : Peer!Becomes(P) = OneWire!Peer!Becomes(P)
      /\ \A P, status : Peer!Halts(P, status) = OneWire!Peer!Halts(P, status)
      /\ \A S : Peer!Orders(S) = OneWire!Peer!Orders(S)
      /\ \A P : Peer!Live(P) = OneWire!Peer!Live(P)
      /\ Peer!Reading = OneWire!Peer!Reading
      /\ \A P, kind, send : Peer!Fail(P, kind, send) = OneWire!Peer!Fail(P, kind, send)
      /\ \A P : Peer!FinishCleanup(P) = OneWire!Peer!FinishCleanup(P)
      /\ \A P, i, why : Peer!Cancel(P, i, why) = OneWire!Peer!Cancel(P, i, why)
      /\ \A P : Peer!OnStart(P) = OneWire!Peer!OnStart(P)
      /\ \A P, i : Peer!OnInvoke(P, i) = OneWire!Peer!OnInvoke(P, i)
      /\ \A P, i, n : Peer!OnRelease(P, i, n) = OneWire!Peer!OnRelease(P, i, n)
      /\ \A P, i, why : Peer!OnCancel(P, i, why) = OneWire!Peer!OnCancel(P, i, why)
  <2>1. ASSUME NEW P PROVE Peer!Becomes(P) = OneWire!Peer!Becomes(P)
    BY Zenon DEF Peer!Becomes, OneWire!Peer!Becomes
  <2>2. ASSUME NEW P, NEW status PROVE Peer!Halts(P, status) = OneWire!Peer!Halts(P, status)
    BY Zenon DEF Peer!Halts, OneWire!Peer!Halts, Peer!Remains, OneWire!Peer!Remains, Peer!NewPeer,
       OneWire!Peer!NewPeer
  <2>3. ASSUME NEW S PROVE Peer!Orders(S) = OneWire!Peer!Orders(S)
    BY Zenon DEF Peer!Orders, OneWire!Peer!Orders
  <2>4. ASSUME NEW P PROVE Peer!Live(P) = OneWire!Peer!Live(P)
    BY Zenon DEF Peer!Live, OneWire!Peer!Live
  <2>5. Peer!Reading = OneWire!Peer!Reading
    BY Zenon DEF Peer!Reading, OneWire!Peer!Reading, Peer!Gone, OneWire!Peer!Gone
  <2>6. ASSUME NEW P, NEW kind, NEW send
        PROVE Peer!Fail(P, kind, send) = OneWire!Peer!Fail(P, kind, send)
    BY Zenon DEF Peer!Fail, OneWire!Peer!Fail, Peer!Settled, OneWire!Peer!Settled, Peer!Unstarted,
       OneWire!Peer!Unstarted, Peer!FinishCleanup, OneWire!Peer!FinishCleanup, Peer!Live,
       OneWire!Peer!Live, Peer!Send, OneWire!Peer!Send
  <2>7. ASSUME NEW P PROVE Peer!FinishCleanup(P) = OneWire!Peer!FinishCleanup(P)
    BY Zenon DEF Peer!FinishCleanup, OneWire!Peer!FinishCleanup, Peer!Live, OneWire!Peer!Live
  <2>8. ASSUME NEW P, NEW i, NEW why
        PROVE Peer!Cancel(P, i, why) = OneWire!Peer!Cancel(P, i, why)
    BY Zenon DEF Peer!Cancel, OneWire!Peer!Cancel, Peer!Progress, OneWire!Peer!Progress, Peer!Fail,
       OneWire!Peer!Fail, Peer!Settled, OneWire!Peer!Settled, Peer!Unstarted,
       OneWire!Peer!Unstarted, Peer!FinishCleanup, OneWire!Peer!FinishCleanup, Peer!Live,
       OneWire!Peer!Live, Peer!Send, OneWire!Peer!Send, Peer!Retire, OneWire!Peer!Retire,
       Peer!Truth, OneWire!Peer!Truth, Peer!ErrorOf, OneWire!Peer!ErrorOf
  <2>9. ASSUME NEW P PROVE Peer!OnStart(P) = OneWire!Peer!OnStart(P)
    BY Zenon DEF Peer!OnStart, OneWire!Peer!OnStart, Peer!Fail, OneWire!Peer!Fail, Peer!Settled,
       OneWire!Peer!Settled, Peer!Unstarted, OneWire!Peer!Unstarted, Peer!FinishCleanup,
       OneWire!Peer!FinishCleanup, Peer!Live, OneWire!Peer!Live, Peer!Send,
       OneWire!Peer!Send
  <2>10. ASSUME NEW P, NEW i PROVE Peer!OnInvoke(P, i) = OneWire!Peer!OnInvoke(P, i)
    BY Zenon DEF Peer!OnInvoke, OneWire!Peer!OnInvoke, Peer!Live, OneWire!Peer!Live,
       Peer!Cardinality, OneWire!Peer!Cardinality, Peer!IsFiniteSet,
       OneWire!Peer!IsFiniteSet, Peer!Fail, OneWire!Peer!Fail, Peer!Settled,
       OneWire!Peer!Settled, Peer!Unstarted, OneWire!Peer!Unstarted, Peer!FinishCleanup,
       OneWire!Peer!FinishCleanup, Peer!Send, OneWire!Peer!Send
  <2>11. ASSUME NEW P, NEW i, NEW n
         PROVE Peer!OnRelease(P, i, n) = OneWire!Peer!OnRelease(P, i, n)
    BY Zenon DEF Peer!OnRelease, OneWire!Peer!OnRelease, Peer!Fail, OneWire!Peer!Fail,
       Peer!Settled, OneWire!Peer!Settled, Peer!Unstarted, OneWire!Peer!Unstarted,
       Peer!FinishCleanup, OneWire!Peer!FinishCleanup, Peer!Live, OneWire!Peer!Live,
       Peer!Send, OneWire!Peer!Send
  <2>12. ASSUME NEW P, NEW i, NEW why
         PROVE Peer!OnCancel(P, i, why) = OneWire!Peer!OnCancel(P, i, why)
    BY Zenon DEF Peer!OnCancel, OneWire!Peer!OnCancel, Peer!Fail, OneWire!Peer!Fail, Peer!Settled,
       OneWire!Peer!Settled, Peer!Unstarted, OneWire!Peer!Unstarted, Peer!FinishCleanup,
       OneWire!Peer!FinishCleanup, Peer!Live, OneWire!Peer!Live, Peer!Send,
       OneWire!Peer!Send, Peer!Cancel, OneWire!Peer!Cancel, Peer!Progress,
       OneWire!Peer!Progress, Peer!Retire, OneWire!Peer!Retire, Peer!Truth,
       OneWire!Peer!Truth, Peer!ErrorOf, OneWire!Peer!ErrorOf
  <2> QED
    BY Zenon, <2>1, <2>2, <2>3, <2>4, <2>5, <2>6, <2>7, <2>8, <2>9, <2>10, <2>11, <2>12
<1>2. ASSUME NEW P, NEW S, NEW last PROVE Peer!CanceledIn(P, S, last) = OneWire!Peer!CanceledIn(P, S, last)
  <2>1. ASSUME NEW C
        PROVE  [todo \in SUBSET S |->
                  IF todo = {} THEN P ELSE Peer!Cancel(C[todo \ {last[todo]}], last[todo], "stop")]
               = [todo \in SUBSET S |->
                    IF todo = {} THEN P ELSE OneWire!Peer!Cancel(C[todo \ {last[todo]}], last[todo], "stop")]
    BY Zenon, <1>1
  <2> QED
    BY Zenon, <2>1 DEF Peer!CanceledIn, OneWire!Peer!CanceledIn
<1>3. ASSUME NEW P, NEW last PROVE Peer!OnStop(P, last) = OneWire!Peer!OnStop(P, last)
  BY Zenon, <1>1, <1>2 DEF Peer!OnStop, OneWire!Peer!OnStop
<1>4. ASSUME NEW P, NEW f, NEW last PROVE Peer!Handle(P, f, last) = OneWire!Peer!Handle(P, f, last)
  BY Zenon, <1>1, <1>3 DEF Peer!Handle, OneWire!Peer!Handle
<1>5. Peer!Receive = OneWire!Peer!Receive
  BY Zenon, <1>1, <1>4 DEF Peer!Receive, OneWire!Peer!Receive, Peer!Closed, OneWire!Peer!Closed
<1>6. /\ Peer!StartupEnds = OneWire!Peer!StartupEnds
      /\ Peer!CloseHost = OneWire!Peer!CloseHost
      /\ Peer!CloseHostFails = OneWire!Peer!CloseHostFails
      /\ Peer!DrainedExit = OneWire!Peer!DrainedExit
      /\ Peer!WatchdogExpires = OneWire!Peer!WatchdogExpires
      /\ \A i : Peer!WorkerStep(i) = OneWire!Peer!WorkerStep(i)
  <2>1. Peer!StartupEnds = OneWire!Peer!StartupEnds
    BY Zenon DEF Peer!StartupEnds, OneWire!Peer!StartupEnds, Peer!Gone, OneWire!Peer!Gone,
       Peer!Becomes, OneWire!Peer!Becomes, Peer!FinishCleanup,
       OneWire!Peer!FinishCleanup, Peer!Live, OneWire!Peer!Live, Peer!Send,
       OneWire!Peer!Send, Peer!Fail, OneWire!Peer!Fail, Peer!Settled,
       OneWire!Peer!Settled, Peer!Unstarted, OneWire!Peer!Unstarted
  <2>2. Peer!CloseHost = OneWire!Peer!CloseHost
    BY Zenon DEF Peer!CloseHost, OneWire!Peer!CloseHost, Peer!Gone, OneWire!Peer!Gone, Peer!Leased,
       OneWire!Peer!Leased, Peer!Fail, OneWire!Peer!Fail, Peer!Settled,
       OneWire!Peer!Settled, Peer!Unstarted, OneWire!Peer!Unstarted, Peer!FinishCleanup,
       OneWire!Peer!FinishCleanup, Peer!Live, OneWire!Peer!Live, Peer!Send,
       OneWire!Peer!Send, Peer!Local, OneWire!Peer!Local, Peer!Becomes,
       OneWire!Peer!Becomes
  <2>3. Peer!CloseHostFails = OneWire!Peer!CloseHostFails
    BY Zenon DEF Peer!CloseHostFails, OneWire!Peer!CloseHostFails, Peer!Gone, OneWire!Peer!Gone,
       Peer!ForceExit, OneWire!Peer!ForceExit, Peer!Halts, OneWire!Peer!Halts,
       Peer!Remains, OneWire!Peer!Remains, Peer!NewPeer, OneWire!Peer!NewPeer, Peer!Send,
       OneWire!Peer!Send
  <2>4. Peer!DrainedExit = OneWire!Peer!DrainedExit
    BY Zenon DEF Peer!DrainedExit, OneWire!Peer!DrainedExit, Peer!Gone, OneWire!Peer!Gone,
       Peer!Remains, OneWire!Peer!Remains, Peer!NewPeer, OneWire!Peer!NewPeer
  <2>5. Peer!WatchdogExpires = OneWire!Peer!WatchdogExpires
    BY Zenon DEF Peer!WatchdogExpires, OneWire!Peer!WatchdogExpires, Peer!Gone, OneWire!Peer!Gone,
       Peer!Live, OneWire!Peer!Live, Peer!ForceExit, OneWire!Peer!ForceExit, Peer!Halts,
       OneWire!Peer!Halts, Peer!Remains, OneWire!Peer!Remains, Peer!NewPeer,
       OneWire!Peer!NewPeer, Peer!Send, OneWire!Peer!Send
  <2>6. ASSUME NEW i PROVE Peer!WorkerStep(i) = OneWire!Peer!WorkerStep(i)
    BY Zenon DEF Peer!WorkerStep, OneWire!Peer!WorkerStep, Peer!TaskStarts,
       OneWire!Peer!TaskStarts, Peer!Gone, OneWire!Peer!Gone, Peer!Local,
       OneWire!Peer!Local, Peer!Becomes, OneWire!Peer!Becomes, Peer!Progress,
       OneWire!Peer!Progress, Peer!Fail, OneWire!Peer!Fail, Peer!Settled,
       OneWire!Peer!Settled, Peer!Unstarted, OneWire!Peer!Unstarted, Peer!FinishCleanup,
       OneWire!Peer!FinishCleanup, Peer!Live, OneWire!Peer!Live, Peer!Send,
       OneWire!Peer!Send, Peer!Retire, OneWire!Peer!Retire, Peer!Truth,
       OneWire!Peer!Truth, Peer!ErrorOf, OneWire!Peer!ErrorOf, Peer!Begin,
       OneWire!Peer!Begin, Peer!Beginning, OneWire!Peer!Beginning,
       Peer!LeaseConnection, OneWire!Peer!LeaseConnection, Peer!Runs, OneWire!Peer!Runs, Peer!BeginFails,
       OneWire!Peer!BeginFails, Peer!Thrown, OneWire!Peer!Thrown, Peer!Arrive,
       OneWire!Peer!Arrive, Peer!Body, OneWire!Peer!Body, Peer!BodyThrows,
       OneWire!Peer!BodyThrows, Peer!Complete, OneWire!Peer!Complete, Peer!ReturnLease,
       OneWire!Peer!ReturnLease, Peer!ProxyExits, OneWire!Peer!ProxyExits
  <2> QED
    BY Zenon, <2>1, <2>2, <2>3, <2>4, <2>5, <2>6
<1> QED
  BY Zenon, <1>5, <1>6 DEF Peer!PeerStep, OneWire!Peer!PeerStep

(* And by the rest of the part with any engine.                              *)
LEMMA PeerSame ==
  /\ Peer!PeerInit = OneWire!Peer!PeerInit
  /\ Peer!EngineSays = OneWire!Peer!EngineSays
  /\ Peer!PeerIsTruthful = OneWire!Peer!PeerIsTruthful
<1>1. Peer!PeerInit = OneWire!Peer!PeerInit
  BY Zenon DEF Peer!PeerInit, OneWire!Peer!PeerInit, Peer!NewPeer, OneWire!Peer!NewPeer
<1>2. Peer!EngineSays = OneWire!Peer!EngineSays
  BY Zenon DEF Peer!EngineSays, OneWire!Peer!EngineSays, Peer!Reading, OneWire!Peer!Reading,
     Peer!Gone, OneWire!Peer!Gone, Peer!EngineFrames, OneWire!Peer!EngineFrames,
     Peer!Closed, OneWire!Peer!Closed
<1>3. Peer!PeerIsTruthful = OneWire!Peer!PeerIsTruthful
  BY Zenon DEF Peer!PeerIsTruthful, OneWire!Peer!PeerIsTruthful, Peer!TerminalIsLast,
     OneWire!Peer!TerminalIsLast, Peer!Settled, OneWire!Peer!Settled, Peer!Unstarted,
     OneWire!Peer!Unstarted, Peer!Truth, OneWire!Peer!Truth, Peer!FatalIsLast,
     OneWire!Peer!FatalIsLast, Peer!Said, OneWire!Peer!Said, Peer!Live,
     OneWire!Peer!Live, Peer!Leased, OneWire!Peer!Leased, Peer!GatesOpen,
     OneWire!Peer!GatesOpen
<1> QED
  BY Zenon, <1>1, <1>2, <1>3

-----------------------------------------------------------------------------
(* Each part keeps the invariant that its module is proved to keep.          *)
PartInv ==
  /\ who = "wire" => OneWire!WireInv
  /\ who = "again" => TwoWire!WireInv
  /\ who = "engine" => OneEngine!EngineInv
  /\ who = "peer" => OneWire!AloneInv

(* The constants of the instances are what the proofs assume of them.        *)
LEMMA PartsFit ==
  OneWire!EngineAssumption /\ TwoWire!EngineAssumption /\ OneEngine!EngineAssumption
BY InstancesAssumption, WireSame, AgainSame, EngineSame

LEMMA PartsStart == MCInit => PartInv
<1> SUFFICES ASSUME MCInit PROVE PartInv
  OBVIOUS
<1>1. ASSUME who = "wire" PROVE OneWire!WireInv
  <2>1. OneWire!WireInit
    BY <1>1, WireSame DEF MCInit
  <2> QED
    BY <2>1, PartsFit, OneWire!WireInvStarts
<1>2. ASSUME who = "again" PROVE TwoWire!WireInv
  <2>1. TwoWire!WireInit
    BY <1>2, AgainSame DEF MCInit
  <2> QED
    BY <2>1, PartsFit, TwoWire!WireInvStarts
<1>3. ASSUME who = "engine" PROVE OneEngine!EngineInv
  <2>1. OneEngine!EngineInit
    BY <1>3, EngineSame DEF MCInit
  <2> QED
    BY <2>1, PartsFit, OneEngine!EngineStarts
<1>4. ASSUME who = "peer" PROVE OneWire!AloneInv
  <2>1. OneWire!Peer!PeerInit
    BY <1>4, PeerSame DEF MCInit
  <2> QED
    BY <2>1, PartsFit, OneWire!AloneStarts
<1> QED
  BY <1>1, <1>2, <1>3, <1>4 DEF PartInv

(* A step belongs to one part, which does not change, and the parts that are *)
(* unused stand still.                                                       *)
LEMMA PartsKeep ==
  ASSUME PartInv, [MCNext]_all
  PROVE  PartInv'
<1>0. who' = who
  BY DEF MCNext, NativeNext, WireNext, AgainNext, EngineNext, PeerNext, all
<1>1. ASSUME who = "wire" PROVE OneWire!WireInv'
  <2>1. Wire!WireNext \/ UNCHANGED all
    BY <1>1 DEF MCNext, NativeNext, WireNext, AgainNext, EngineNext, PeerNext
  <2>2. OneWire!WireNext \/ UNCHANGED all
    BY Zenon, <2>1, WireSameNext
  <2>3. UNCHANGED all => UNCHANGED OneWire!wireVars
    BY DEF all, external, engine, wire, OneWire!wireVars, OneWire!engineVars
  <2>4. [OneWire!WireNext]_(OneWire!wireVars)
    BY Zenon, <2>2, <2>3
  <2> QED
    BY <1>1, <2>4, PartsFit, OneWire!WireInvKeeps DEF PartInv
<1>2. ASSUME who = "again" PROVE TwoWire!WireInv'
  <2>1. Again!WireNext \/ UNCHANGED all
    BY <1>2 DEF MCNext, NativeNext, WireNext, AgainNext, EngineNext, PeerNext
  <2>2. TwoWire!WireNext \/ UNCHANGED all
    BY Zenon, <2>1, AgainSameNext
  <2>3. UNCHANGED all => UNCHANGED TwoWire!wireVars
    BY DEF all, external, engine, wire, TwoWire!wireVars, TwoWire!engineVars
  <2>4. [TwoWire!WireNext]_(TwoWire!wireVars)
    BY Zenon, <2>2, <2>3
  <2> QED
    BY <1>2, <2>4, PartsFit, TwoWire!WireInvKeeps DEF PartInv
<1>3. ASSUME who = "engine" PROVE OneEngine!EngineInv'
  <2>1. Engine!EngineStep \/ Engine!AnyChild \/ UNCHANGED all
    BY <1>3 DEF MCNext, NativeNext, WireNext, AgainNext, EngineNext, PeerNext
  <2>2. OneEngine!EngineStep \/ OneEngine!AnyChild \/ UNCHANGED all
    BY Zenon, <2>1, EngineEngine, EngineSame
  <2>3. UNCHANGED all => UNCHANGED OneEngine!engineVars
    BY DEF all, external, engine, wire, OneEngine!engineVars
  <2>4. [OneEngine!EngineStep \/ OneEngine!AnyChild]_(OneEngine!engineVars)
    BY Zenon, <2>2, <2>3
  <2> QED
    BY <1>3, <2>4, PartsFit, OneEngine!EngineStays DEF PartInv
<1>4. ASSUME who = "peer" PROVE OneWire!AloneInv'
  <2>1. Peer!PeerStep \/ Peer!EngineSays \/ UNCHANGED all
    BY <1>4 DEF MCNext, NativeNext, WireNext, AgainNext, EngineNext, PeerNext
  <2>2. OneWire!Peer!PeerStep \/ OneWire!Peer!EngineSays \/ UNCHANGED all
    BY Zenon, <2>1, PeerPeer, PeerSame
  <2>3. UNCHANGED all => UNCHANGED OneWire!Peer!peerVars
    BY DEF all, external, engine, wire, OneWire!Peer!peerVars
  <2>4. OneWire!AloneInv
    BY <1>4 DEF PartInv
  <2>5. CASE OneWire!Peer!PeerStep \/ OneWire!Peer!EngineSays
    BY Zenon, <2>4, <2>5, PartsFit, OneWire!AloneKeeps
  <2>6. CASE UNCHANGED OneWire!Peer!peerVars
    BY <2>4, <2>6 DEF OneWire!Peer!peerVars, OneWire!AloneInv, OneWire!PeerInv, OneWire!Voiced
  <2> QED
    BY Zenon, <2>2, <2>3, <2>5, <2>6
<1> QED
  BY <1>0, <1>1, <1>2, <1>3, <1>4 DEF PartInv

(* In every behaviour of the run, the terminals that the adapter accepted    *)
(* are the truth about the transactions in the peer, and a Stop that         *)
(* succeeds leaves no connection leased (external.go:703, Peer.java:703).    *)
THEOREM OutcomeCorrect == MCSpec => []OutcomeIsTrue
<1>1. PartInv => OutcomeIsTrue
  <2>1. OneWire!WireInv => OneWire!OutcomeIsTrue
    BY PartsFit, OneWire!OutcomeByInv
  <2>2. TwoWire!WireInv => TwoWire!OutcomeIsTrue
    BY PartsFit, TwoWire!OutcomeByInv
  <2> QED
    BY Zenon, <2>1, <2>2, WireSame, AgainSame DEF PartInv, OutcomeIsTrue
<1>2. PartInv /\ [MCNext]_all => PartInv'
  BY PartsKeep
<1> QED
  BY <1>1, <1>2, PartsStart, PTL DEF MCSpec

(* And whatever the other side says or does, neither side breaks what it     *)
(* promises by itself (external.go:346, stop.go:138, Peer.java:168).         *)
THEOREM SidesCorrect == MCSpec => []SidesAreSafe
<1>1. PartInv => SidesAreSafe
  <2>1. OneWire!WireInv => OneWire!EngineSafe
    BY PartsFit, OneWire!EngineIsSafe DEF OneWire!WireInv
  <2>2. TwoWire!WireInv => TwoWire!EngineSafe
    BY PartsFit, TwoWire!EngineIsSafe DEF TwoWire!WireInv
  <2>3. OneEngine!EngineInv => OneEngine!EngineSafe
    BY PartsFit, OneEngine!EngineIsSafe
  <2>4. OneWire!AloneInv => OneWire!Peer!PeerIsTruthful
    BY PartsFit, OneWire!TruthfulByInv DEF OneWire!AloneInv
  <2> QED
    BY Zenon, <2>1, <2>2, <2>3, <2>4, WireSame, AgainSame, EngineSame, PeerSame
       DEF PartInv, SidesAreSafe
<1>2. PartInv /\ [MCNext]_all => PartInv'
  BY PartsKeep
<1> QED
  BY <1>1, <1>2, PartsStart, PTL DEF MCSpec
=============================================================================
