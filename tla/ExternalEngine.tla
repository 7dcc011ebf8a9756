--------------------------- MODULE ExternalEngine ---------------------------
(***************************************************************************)
(* The external adapter of internal/sut/external: external.go, stop.go and *)
(* the process of process.go.  What the mutex protects is the record mu;   *)
(* each critical section of Start, Stop, cleanup, the writer, the reader,  *)
(* the bridges and the watchers is a step.  The child is external here: it *)
(* may send any frame and end at any time (with the real one: module       *)
(* ExternalWire).  A deadline may pass whenever it is waited for.  Start   *)
(* and the invocations have one context.                                   *)
(***************************************************************************)
EXTENDS Naturals, Sequences, FiniteSets

CONSTANTS
    Invocation,
    WorkerOf,        \* the worker of each invocation
    Capacity,
    Arrivals,        \* bound: arrivals of an invocation
    QueueLimit,      \* the capacity of the outgoing queue
    Nil

\* What the two sides write.
ToChild ==
    {<<"start">>, <<"stop">>, <<"fatal">>}
        \cup ({"invoke"} \X Invocation)
        \cup ({"release"} \X Invocation \X Nat)
        \cup ({"cancel"} \X Invocation \X {"context", "stop"})

Terminals ==
    {"terminal"} \X Invocation \X {"committed", "rolled_back", "not_started"}
                \X {"none", "application", "context", "stop"}

FromChild ==
    {<<"ready">>, <<"stopped">>, <<"fatal">>, <<"bad">>}
        \cup ({"accepted"} \X Invocation)
        \cup ({"arrive"} \X Invocation \X Nat)
        \cup Terminals

\* Nil is none of what it stands in for, a frame, a reason or a source.
EngineAssumption ==
    /\ IsFiniteSet(Invocation) /\ {Capacity, Arrivals, QueueLimit} \subseteq Nat
    /\ Nil \notin ToChild /\ Nil \notin Terminals
    /\ Nil \notin {"context", "stop", "fatal", "application", "cancelled"}

VARIABLES
    mu,              \* the state under the mutex
    writing,         \* the frame being written, or Nil
    start,           \* the call of Start: "new", "launching", "waiting", "ok", "failed"
    stop,            \* cleanup: "idle", "launch", "grace", "reap", "ok", "error"
    joined,          \* the invocations whose streams cleanup waits for
    toPeer, fromPeer, \* the pipes, in order
    child            \* the process: "none", "alive", "ok" or "bad"

engineVars == <<mu, writing, start, stop, joined, toPeer, fromPeer, child>>

Closed == <<"closed">>

NewEngine ==
    [latch |-> {},               \* the booleans and closed channels, which stay true
     queue |-> <<>>,
     inv |-> [i \in Invocation |->
                [stream |-> "none",     \* "open", "closed"
                 reason |-> Nil,
                 sending |-> FALSE, accepted |-> FALSE,
                 arrival |-> 0, outstanding |-> FALSE, bridges |-> 0,
                 terminal |-> Nil]]]

Has(flag) == flag \in mu.latch
Open(M) == {i \in Invocation : M.inv[i].stream = "open"}
Faulted(M) == "fault" \in M.latch
Sent(f) == writing # f
Exited == child \in {"ok", "bad"}

-----------------------------------------------------------------------------
(* The methods that hold the lock, on the state it protects.               *)

Latch(M, flags) == [M EXCEPT !.latch = @ \cup flags]

\* finishLocked: the outcome is the terminal, if there is one.
Finish(M, i) == [M EXCEPT !.inv[i].stream = "closed"]

\* failLocked: the first fault ends every invocation without a bridge; fatal is sent if
\* there is room.
Fail(M, flags, send) ==
    IF Faulted(M) THEN M
    ELSE LET Dropped(v) == IF v.stream # "open" THEN v
                           ELSE [v EXCEPT !.outstanding = FALSE,
                                          !.stream = IF v.bridges = 0 THEN "closed" ELSE "open"]
         IN [latch |-> M.latch \cup {"fault"} \cup flags,
             queue |-> IF send /\ "startSent" \in M.latch /\ Len(M.queue) < QueueLimit
                       THEN Append(M.queue, <<"fatal">>) ELSE M.queue,
             inv |-> [i \in Invocation |-> Dropped(M.inv[i])]]

\* rejectLocked: the child broke the protocol.
Reject(M) == Fail(M, {"protocol"}, TRUE)

Enqueue(M, frame) ==
    IF Len(M.queue) < QueueLimit THEN [M EXCEPT !.queue = Append(@, frame)]
    ELSE Fail(M, {}, FALSE)

\* Fault: the arrival stays outstanding.
Cancel_KeepsArrival(M, i, why) ==
    IF M.inv[i].stream # "open" \/ M.inv[i].reason # Nil THEN M
    ELSE LET reason == IF "parent" \in M.latch THEN "context" ELSE why
             C == [M EXCEPT !.inv[i].reason = reason]
         IN IF Faulted(M) THEN C ELSE Enqueue(C, <<"cancel", i, reason>>)

\* cancelLocked: the first reason is kept, and is context once the context has ended.
Cancel(M, i, why) ==
    IF M.inv[i].stream # "open" \/ M.inv[i].reason # Nil THEN M
    ELSE LET reason == IF "parent" \in M.latch THEN "context" ELSE why
             C == [M EXCEPT !.inv[i].reason = reason, !.inv[i].outstanding = FALSE]
         IN IF Faulted(M) THEN C ELSE Enqueue(C, <<"cancel", i, reason>>)

Observed(M, i) == IF "parent" \in M.latch THEN Cancel(M, i, "context") ELSE M

-----------------------------------------------------------------------------
(* Start and Invoke.                                                       *)

Call(M) == mu' = M

\* The order in which a map is walked: of what is left, any member comes last.
Orders(S) == {last \in [(SUBSET S) \ {{}} -> S] : \A T \in DOMAIN last : last[T] \in T}

StartBegins ==
    /\ start = "new" /\ ~ Has("stopping")
    /\ start' = "launching"
    /\ UNCHANGED <<mu, writing, stop, joined, toPeer, fromPeer, child>>

\* The process is launched; start is queued unless Stop came first.
Launched ==
    /\ start = "launching"
    /\ start' = "waiting"
    /\ child' = "alive"
    /\ LET L == Latch(mu, {"launched"}) IN
       Call(IF Has("stopping") THEN L ELSE Enqueue(L, <<"start">>))
    /\ UNCHANGED <<writing, stop, joined, toPeer, fromPeer>>

LaunchFails ==
    /\ start = "launching"
    /\ start' = "failed"
    /\ Call(Fail(Latch(mu, {"launched"}), {}, FALSE))
    /\ UNCHANGED <<writing, stop, joined, toPeer, fromPeer, child>>

StartReturns ==
    /\ start = "waiting"
    /\ Has("ready") /\ ~ Has("stopping") /\ ~ Faulted(mu) /\ ~ Has("parent")
    /\ start' = "ok"
    /\ UNCHANGED <<mu, writing, stop, joined, toPeer, fromPeer, child>>

\* It is woken by a fault, Stop or the context, or its deadline has passed, which is a
\* fault of its own unless Stop came first.
StartFails ==
    /\ start = "waiting"
    /\ start' = "failed"
    /\ \/ (Faulted(mu) \/ stop \in {"ok", "error"} \/ Has("parent")) /\ UNCHANGED mu
       \/ Call(IF Has("stopping") THEN mu ELSE Fail(mu, {}, TRUE))
    /\ UNCHANGED <<writing, stop, joined, toPeer, fromPeer, child>>

Invoke(i) ==
    /\ start = "ok" /\ ~ Has("parent")
    /\ Has("ready") /\ ~ Has("stopping") /\ ~ Faulted(mu)
    /\ mu.inv[i].stream = "none"
    /\ \A j \in Open(mu) : WorkerOf[j] # WorkerOf[i]
    /\ Cardinality(Open(mu)) < Capacity
    /\ Call(Enqueue([mu EXCEPT !.inv[i].stream = "open"], <<"invoke", i>>))
    /\ UNCHANGED <<writing, start, stop, joined, toPeer, fromPeer, child>>

\* The context of the run ends.
ParentEnds ==
    /\ ~ Has("parent")
    /\ Call(Latch(mu, {"parent"}))
    /\ UNCHANGED <<writing, start, stop, joined, toPeer, fromPeer, child>>

WatchContext(i) ==
    /\ Has("parent") /\ i \in Open(mu) /\ mu.inv[i].reason = Nil
    /\ Call(Cancel(mu, i, "context"))
    /\ UNCHANGED <<writing, start, stop, joined, toPeer, fromPeer, child>>

-----------------------------------------------------------------------------
(* writeLoop                                                               *)

Writes == Has("launched") /\ child # "none" /\ ~ Has("written") /\ writing = Nil

Marked(M, f) ==
    CASE f[1] = "start" -> Latch(M, {"startSent"})
      [] f[1] = "stop" -> Latch(M, {"stopSent"})
      [] f[1] = "invoke" -> [M EXCEPT !.inv[f[2]].sending = TRUE]
      [] OTHER -> M

\* The frame is marked and written; the peer may read it before Write returns.
WriteBegins ==
    /\ Writes /\ mu.queue # <<>> /\ ~ Has("writerCanceled")
    /\ LET f == Head(mu.queue) IN
       /\ ~ (f = <<"start">> /\ Has("stopping"))
       /\ Call(Marked([mu EXCEPT !.queue = Tail(@)], f))
       /\ writing' = f
       /\ toPeer' = IF Exited THEN toPeer ELSE Append(toPeer, f)
    /\ UNCHANGED <<start, stop, joined, fromPeer, child>>

WriteReturns ==
    /\ writing # Nil
    /\ writing' = Nil
    /\ UNCHANGED <<mu, start, stop, joined, toPeer, fromPeer, child>>

\* The pipe is broken or closed.
WriteFails ==
    /\ writing # Nil /\ (Exited \/ Has("pipesClosed"))
    /\ writing' = Nil
    /\ Call(Fail(Latch(mu, {"written"}), {}, FALSE))
    /\ UNCHANGED <<start, stop, joined, toPeer, fromPeer, child>>

\* It was canceled, or start is overtaken by Stop; or less than a millisecond is left
\* for start or stop, which is a fault.
WriterEnds ==
    /\ Writes
    /\ LET W == Latch([mu EXCEPT !.queue = <<>>], {"written"}) IN
       \/ Has("writerCanceled") /\ Call(W)
       \/ /\ mu.queue # <<>> /\ Head(mu.queue) = <<"start">> /\ Has("stopping")
          /\ Call(W)
       \/ /\ mu.queue # <<>> /\ Head(mu.queue) \in {<<"start">>, <<"stop">>}
          /\ Head(mu.queue) = <<"stop">> \/ ~ Has("stopping")
          /\ Call(Fail(W, {}, FALSE))
    /\ UNCHANGED <<writing, start, stop, joined, toPeer, fromPeer, child>>

-----------------------------------------------------------------------------
(* readLoop and receiveLocked.                                             *)

\* Fault: the terminal ends the stream, whatever its bridge does.
ReceivedOf_ForgetsBridge(M, f) ==
    LET i == f[2]
        v == M.inv[i]
        Done == [M EXCEPT !.inv[i].terminal = f]
    IN
    CASE f[1] = "accepted" ->
           IF v.accepted \/ ~ v.sending \/ ~ Sent(<<"invoke", i>>) THEN Reject(M)
           ELSE [M EXCEPT !.inv[i].accepted = TRUE]
      [] f[1] = "arrive" ->
           IF ~ v.accepted THEN Reject(M)
           ELSE LET C == Observed(M, i) IN
                IF C.inv[i].reason # Nil THEN C
                ELSE IF v.outstanding \/ f[3] # v.arrival + 1 THEN Reject(C)
                ELSE [C EXCEPT !.inv[i].arrival = f[3], !.inv[i].outstanding = TRUE,
                               !.inv[i].bridges = @ + 1]
      [] OTHER ->
           IF \/ v.outstanding \/ ~ v.accepted
              \/ f[4] \in {"context", "stop"} /\ f[4] # v.reason
           THEN Reject(M)
           ELSE Finish(Done, i)

\* A frame of a live invocation.
ReceivedOf(M, f) ==
    LET i == f[2]
        v == M.inv[i]
        Done == [M EXCEPT !.inv[i].terminal = f]
    IN
    CASE f[1] = "accepted" ->
           IF v.accepted \/ ~ v.sending \/ ~ Sent(<<"invoke", i>>) THEN Reject(M)
           ELSE [M EXCEPT !.inv[i].accepted = TRUE]
      [] f[1] = "arrive" ->
           IF ~ v.accepted THEN Reject(M)
           ELSE LET C == Observed(M, i) IN
                IF C.inv[i].reason # Nil THEN C
                ELSE IF v.outstanding \/ f[3] # v.arrival + 1 THEN Reject(C)
                ELSE [C EXCEPT !.inv[i].arrival = f[3], !.inv[i].outstanding = TRUE,
                               !.inv[i].bridges = @ + 1]
      [] OTHER ->
           IF \/ v.outstanding \/ ~ v.accepted
              \/ f[4] \in {"context", "stop"} /\ f[4] # v.reason
           THEN Reject(M)
           ELSE IF v.bridges = 0 THEN Finish(Done, i) ELSE Done

\* After its terminal an invocation consumes arrivals and the same terminal.
Received(M, f) ==
    CASE f[1] = "fatal" -> Fail(M, {}, FALSE)
      [] f[1] = "ready" ->
           IF M.latch \cap {"ready", "stopped"} # {} \/ "startSent" \notin M.latch
           THEN Reject(M) ELSE Latch(M, {"ready"})
      [] f[1] = "stopped" ->
           IF \/ "stopSent" \notin M.latch \/ "stopped" \in M.latch
              \/ \E i \in Open(M) : M.inv[i].terminal = Nil
           THEN Reject(M) ELSE Latch(M, {"stopped"})
      [] f[1] = "bad" -> Reject(M)
      [] OTHER ->
           LET v == M.inv[f[2]] IN
           IF "ready" \notin M.latch \/ "stopped" \in M.latch \/ v.stream = "none"
           THEN Reject(M)
           ELSE IF v.terminal # Nil \/ v.stream = "closed"
           THEN IF f[1] = "arrive" \/ f = v.terminal THEN M ELSE Reject(M)
           ELSE ReceivedOf(M, f)

\* An answer to a frame whose write has not returned waits for the write.
Waits(f) ==
    \/ f[1] = "ready" /\ ~ Sent(<<"start">>)
    \/ f[1] = "stopped" /\ ~ Sent(<<"stop">>)
    \/ f[1] = "accepted" /\ ~ Sent(<<"invoke", f[2]>>)

Reads == Has("launched") /\ child # "none" /\ ~ Has("read")

ReadFrame ==
    /\ Reads /\ ~ Has("pipesClosed") /\ fromPeer # <<>>
    /\ Faulted(mu) \/ ~ Waits(Head(fromPeer))
    /\ fromPeer' = Tail(fromPeer)
    /\ Call(IF Faulted(mu) THEN mu ELSE Received(mu, Head(fromPeer)))
    /\ UNCHANGED <<writing, start, stop, joined, toPeer, child>>

\* The end of the stream is good after stopped only; a pipe closed here is not an end.
ReadEnds ==
    /\ Reads
    /\ \/ /\ fromPeer = <<>> /\ Exited
          /\ Call(IF Has("stopped") THEN Latch(mu, {"read", "eof"})
                  ELSE Fail(Latch(mu, {"read"}), {}, FALSE))
       \/ /\ Has("pipesClosed")
          /\ Call(Fail(Latch(mu, {"read"}), {}, FALSE))
    /\ UNCHANGED <<writing, start, stop, joined, toPeer, fromPeer, child>>

\* watchExit
SeeExit ==
    /\ Has("launched") /\ Exited /\ ~ Has("exit")
    /\ LET E == Latch(mu, {"exit"} \cup (IF child = "bad" THEN {"exitErr"} ELSE {})) IN
       Call(IF child = "bad" \/ ~ Has("stopping") THEN Fail(E, {}, FALSE) ELSE E)
    /\ UNCHANGED <<writing, start, stop, joined, toPeer, fromPeer, child>>

-----------------------------------------------------------------------------
(* bridge: the runtime releases the arrival, or gives it up because its    *)
(* context has ended, or answers with an error.                            *)

BridgeEnds(M, i) ==
    LET B == [M EXCEPT !.inv[i].bridges = @ - 1] IN
    IF /\ B.inv[i].bridges = 0 /\ B.inv[i].stream = "open"
       /\ B.inv[i].terminal # Nil \/ Faulted(B)
    THEN Finish(B, i) ELSE B

BridgeReleases(i) ==
    /\ mu.inv[i].bridges > 0
    /\ LET C == Observed(mu, i) IN
       Call(BridgeEnds(
              IF C.inv[i].reason = Nil /\ ~ Faulted(C)
              THEN [Enqueue(C, <<"release", i, C.inv[i].arrival>>)
                      EXCEPT !.inv[i].outstanding = FALSE]
              ELSE C, i))
    /\ UNCHANGED <<writing, start, stop, joined, toPeer, fromPeer, child>>

ContextDone(i) == mu.inv[i].reason # Nil \/ Faulted(mu)

BridgeUnwinds(i) ==
    /\ mu.inv[i].bridges > 0 /\ ContextDone(i)
    /\ Call(BridgeEnds(Observed(mu, i), i))
    /\ UNCHANGED <<writing, start, stop, joined, toPeer, fromPeer, child>>

BridgeRefused(i) ==
    /\ mu.inv[i].bridges > 0
    /\ Call(BridgeEnds(Fail(Observed(mu, i), {}, TRUE), i))
    /\ UNCHANGED <<writing, start, stop, joined, toPeer, fromPeer, child>>

-----------------------------------------------------------------------------
(* Stop and cleanup.  The caller, a failed Start and the first fault call  *)
(* Stop; the first call decides.                                           *)

BeginStop ==
    /\ ~ Has("stopping")
    /\ Call(Latch(mu, {"stopping"} \cup (IF start = "new" THEN {"launched"} ELSE {})))
    /\ stop' = "launch"
    /\ UNCHANGED <<writing, start, joined, toPeer, fromPeer, child>>

Answer(M) == IF Faulted(M) THEN "error" ELSE "ok"

Kill ==
    /\ child' = IF Exited THEN child ELSE "bad"
    /\ toPeer' = <<>>

\* The launch outlasts the deadline: the child is killed when it is there.
LaunchOutlasts ==
    /\ stop = "launch" /\ ~ Has("launched")
    /\ stop' = "error"
    /\ UNCHANGED <<mu, writing, start, joined, toPeer, fromPeer, child>>

KillLate ==
    /\ stop = "error" /\ ~ Has("pipesClosed") /\ Has("launched") /\ child # "none"
    /\ Call(Latch(mu, {"pipesClosed"}))
    /\ Kill
    /\ UNCHANGED <<writing, start, stop, joined, fromPeer>>

StopWithoutChild ==
    /\ stop = "launch" /\ Has("launched") /\ child = "none"
    /\ stop' = Answer(mu)
    /\ UNCHANGED <<mu, writing, start, joined, toPeer, fromPeer, child>>

\* The invocations of S, one after the other.
CanceledIn(M, S, last) ==
    LET Canceled[todo \in SUBSET S] ==
            IF todo = {} THEN M
            ELSE Cancel(Canceled[todo \ {last[todo]}], last[todo], "stop")
    IN Canceled[S]

\* Everything is canceled, and then stop is queued; a child that was not sent start is
\* given no time.
CancelAll ==
    /\ stop = "launch" /\ Has("launched") /\ child # "none"
    /\ joined' = Open(mu)
    /\ \E last \in Orders(Open(mu)) :
         LET C == CanceledIn(mu, Open(mu), last)
         IN IF Has("startSent")
            THEN Call(Enqueue(C, <<"stop">>)) /\ stop' = "grace"
            ELSE Call(C) /\ stop' = "abort"
    /\ UNCHANGED <<writing, start, toPeer, fromPeer, child>>

\* A normal end has everything; otherwise the session fails and the child is killed.
Proven ==
    /\ {"stopped", "eof"} \subseteq mu.latch
    /\ mu.latch \cap {"exitErr", "fault"} = {}
    /\ Open(mu) = {}

EndGrace(normal) ==
    /\ LET F == IF normal THEN mu ELSE Fail(mu, {}, FALSE) IN
       Call(Latch(F, {"writerCanceled", "pipesClosed"}))
    /\ IF normal THEN UNCHANGED <<child, toPeer>> ELSE Kill
    /\ stop' = "reap"
    /\ UNCHANGED <<writing, start, joined, fromPeer>>

Joined == {"read", "exit"} \subseteq mu.latch /\ joined \cap Open(mu) = {}

GraceEnds ==
    \/ stop = "grace" /\ Joined /\ EndGrace(Proven)
    \/ stop = "grace" /\ EndGrace(FALSE)
    \/ stop = "abort" /\ EndGrace(FALSE)

StopReturns ==
    /\ stop = "reap" /\ Joined /\ Has("written")
    /\ stop' = Answer(mu)
    /\ UNCHANGED <<mu, writing, start, joined, toPeer, fromPeer, child>>

ReapExpires ==
    /\ stop = "reap"
    /\ stop' = "error"
    /\ UNCHANGED <<mu, writing, start, joined, toPeer, fromPeer, child>>

-----------------------------------------------------------------------------
EngineInit ==
    /\ mu = NewEngine
    /\ writing = Nil /\ start = "new" /\ stop = "idle" /\ joined = {}
    /\ toPeer = <<>> /\ fromPeer = <<>> /\ child = "none"

StartStep == StartBegins \/ Launched \/ LaunchFails \/ StartReturns \/ StartFails
WriterStep == WriteBegins \/ WriteReturns \/ WriteFails \/ WriterEnds
ReaderStep == ReadFrame \/ ReadEnds \/ SeeExit
BridgeStep(i) == BridgeReleases(i) \/ BridgeUnwinds(i) \/ BridgeRefused(i)
CleanupStep ==
    LaunchOutlasts \/ KillLate \/ StopWithoutChild \/ CancelAll \/ GraceEnds
    \/ StopReturns \/ ReapExpires

EngineStep ==
    \/ StartStep \/ ParentEnds \/ WriterStep \/ ReaderStep \/ BeginStop \/ CleanupStep
    \/ \E i \in Invocation : Invoke(i) \/ WatchContext(i) \/ BridgeStep(i)

(* Alone, with a child that reads everything, sends anything and ends as   *)
(* it likes.                                                               *)

PeerFrames ==
    {<<"ready">>, <<"stopped">>, <<"fatal">>, <<"bad">>}
        \cup ({"accepted"} \X Invocation)
        \cup ({"arrive"} \X Invocation \X (1..(Arrivals + 1)))
        \cup ({"terminal"} \X Invocation \X {"committed"} \X {"none", "stop"})

PeerSays ==
    /\ child = "alive" /\ fromPeer = <<>> /\ toPeer = <<>>
    /\ \E f \in IF Faulted(mu) THEN {<<"bad">>} ELSE PeerFrames : fromPeer' = <<f>>
    /\ UNCHANGED <<mu, writing, start, stop, joined, toPeer, child>>

PeerReads ==
    /\ child = "alive" /\ toPeer # <<>>
    /\ toPeer' = <<>>
    /\ UNCHANGED <<mu, writing, start, stop, joined, fromPeer, child>>

PeerEnds ==
    /\ child = "alive"
    /\ child' \in {"ok", "bad"} /\ toPeer' = <<>>
    /\ UNCHANGED <<mu, writing, start, stop, joined, fromPeer>>

AnyChild == PeerSays \/ PeerReads \/ PeerEnds

EngineSpec == EngineInit /\ [][EngineStep \/ AnyChild]_engineVars

-----------------------------------------------------------------------------
(* What the adapter promises: the streams, the fault and the answer of     *)
(* Stop as OutcomeStream knows them.                                       *)
StreamOf ==
    [i \in Invocation |->
       IF mu.inv[i].stream # "closed" THEN mu.inv[i].stream
       ELSE IF mu.inv[i].terminal = Nil THEN "lost"
       ELSE IF mu.inv[i].terminal[3] = "not_started" THEN "unstarted" ELSE "worker"]

StopAnswer ==
    IF stop = "idle" THEN "no" ELSE IF stop \in {"ok", "error"} THEN stop ELSE "stopping"

\* A cancellation that came first is followed by no release: not in the queue, and not
\* in the pipe behind the frame that tells it; only a session that has failed may cancel
\* without one (external.go:346).
CancelIsLast ==
    LET frames == toPeer \o mu.queue
        CancelAt(i) == {n \in DOMAIN frames : frames[n][1] = "cancel" /\ frames[n][2] = i}
    IN \A n \in DOMAIN frames : frames[n][1] = "release" =>
         LET i == frames[n][2] IN
         /\ \A m \in CancelAt(i) : n < m
         /\ mu.inv[i].reason # Nil => Faulted(mu) \/ CancelAt(i) # {}

\* One arrival at a time is with the runtime, a stream is closed only with its bridges
\* unwound, and an outcome is one that was accepted before.
BridgesKept ==
    \A i \in Invocation :
      LET v == mu.inv[i] IN
      /\ v.bridges <= 1
      /\ v.outstanding => v.bridges = 1 /\ v.reason = Nil /\ v.terminal = Nil
      /\ v.stream = "closed" => v.bridges = 0
      /\ v.terminal # Nil => v.accepted

\* A Stop that succeeded leaves no child, no thread of the adapter and no open stream.
StopIsProven ==
    stop = "ok" /\ child # "none" =>
      /\ child = "ok" /\ Open(mu) = {} /\ writing = Nil
      /\ {"read", "written", "exit", "stopped", "eof"} \subseteq mu.latch

EngineSafe == CancelIsLast /\ BridgesKept /\ StopIsProven
=============================================================================
