------------------------------ MODULE JavaPeer ------------------------------
(***************************************************************************)
(* The child of the external adapter: Peer.java with the worker threads of *)
(* the Spring host.  Every method holds the monitor of the peer, so a      *)
(* frame, a milestone of a transaction or a watchdog is one step; what the *)
(* monitor protects is the record peer.  Frames come out of one pipe and   *)
(* go into another, both in order; the output queue of StreamOutput is the *)
(* tail of its pipe.  An invocation is of one worker.  A command runs in   *)
(* one transaction around its body, as SpringHost requires, and the body   *)
(* may swallow what it is thrown.                                          *)
(***************************************************************************)
EXTENDS Naturals, Sequences, FiniteSets

CONSTANTS
    Invocation,
    WorkerOf,        \* the worker of each invocation
    Capacity,        \* the declared capacity
    Arrivals,        \* bound: sync points of a command
    Nil

VARIABLES
    peer,            \* the state under the monitor
    toPeer,          \* frames on the way to the peer, Closed after the last one
    fromPeer,        \* frames it has sent
    child            \* the process: "none", "alive", or how it ended: "ok", "bad"

peerVars == <<peer, toPeer, fromPeer, child>>

Closed == <<"closed">>

NewPeer ==
    [phase |-> "await",          \* Phase, in lower case
     startupDone |-> FALSE,
     stopArmed |-> FALSE,        \* stopWatchdog
     cleanup |-> "none",         \* "closing", "stopped", "failed": what is drained
     blames |-> FALSE,           \* it failed because the engine broke the protocol
     out |-> <<>>,               \* frames sent by the current step
     inv |-> [i \in Invocation |->
                [life |-> "none",       \* "live", "retired"
                 arrivals |-> 0,
                 gate |-> 0,            \* the arrival that waits, or 0
                 reason |-> Nil,        \* cancelReason
                 proxy |-> "outside",   \* "outside", "inside", "exited", "skipped"
                 transaction |-> "none",
                 lease |-> "none",      \* "none", "held", "returned", "failed"
                 source |-> Nil,        \* "application", "cancelled"
                 first |-> FALSE]]]     \* the source came before the cancellation

Gone == child # "alive"
Live(P) == {i \in Invocation : P.inv[i].life = "live"}
Leased(P) == {i \in Invocation : P.inv[i].lease \in {"held", "failed"}}
Reading == peer.phase # "failed" /\ ~ Gone

-----------------------------------------------------------------------------
(* The private methods, on the state of the peer.                          *)

Send(P, frame) == [P EXCEPT !.out = Append(@, frame)]

FinishCleanup(P) ==
    IF /\ P.phase \in {"stopping", "failed"} /\ P.cleanup = "none"
       /\ Live(P) = {} /\ P.startupDone
    THEN [P EXCEPT !.cleanup = "closing"] ELSE P

\* The transaction and the connection of a terminal.
Unstarted(v) ==
    v.proxy \in {"exited", "skipped"} /\ v.transaction = "none" /\ v.lease = "none"
Settled(v) ==
    Unstarted(v) \/ (v.proxy = "exited" /\ v.lease = "returned" /\ v.transaction # "active")
Truth(v) == IF v.transaction = "none" THEN "not_started" ELSE v.transaction

Retire(P, i) == FinishCleanup([P EXCEPT !.inv[i].life = "retired"])

\* The first failure is latched: every invocation is canceled, its gate opened, and the
\* fatal watchdog armed.  Without a start there is nothing to wait for.
Fail(P, kind, send) ==
    IF P.phase = "failed" THEN P
    ELSE LET Woken(v) == IF v.life # "live" \/ v.reason # Nil THEN v
                         ELSE LET c == [v EXCEPT !.reason = "fatal", !.gate = 0] IN
                              IF Settled(c) THEN [c EXCEPT !.life = "retired"] ELSE c
             F == [P EXCEPT !.phase = "failed", !.blames = (kind = "protocol"),
                            !.inv = [i \in Invocation |-> Woken(P.inv[i])]]
         IN FinishCleanup(IF send THEN Send(F, <<"fatal">>) ELSE F)

ErrorOf(v) ==
    LET cancelled == v.reason \in {"context", "stop"} IN
    IF v.source = "application" /\ (cancelled => v.first) THEN "application"
    ELSE IF v.transaction = "committed" /\ v.source = Nil THEN "none"
    ELSE IF cancelled THEN v.reason ELSE "application"

\* A terminal is published after the exit of the proxy, with a known outcome and the
\* connection returned.
Progress_EarlyTerminal(P, i) ==
    LET v == P.inv[i] IN
    IF v.life = "retired" THEN P
    ELSE IF v.transaction = "unknown" THEN Fail(P, "transaction", TRUE)
    ELSE IF v.lease = "failed" THEN Fail(P, "cleanup", TRUE)
    ELSE IF ~ (v.proxy \in {"exited", "skipped"} \/ v.transaction \in {"committed", "rolled_back"})
         THEN P
    ELSE IF P.phase = "failed" THEN Retire(P, i)
    ELSE Retire(Send(P, <<"terminal", i, Truth(v), ErrorOf(v)>>), i)
Progress(P, i) ==
    LET v == P.inv[i] IN
    IF v.life = "retired" THEN P
    ELSE IF v.transaction = "unknown" THEN Fail(P, "transaction", TRUE)
    ELSE IF v.lease = "failed" THEN Fail(P, "cleanup", TRUE)
    ELSE IF ~ Settled(v) THEN P
    ELSE IF v.gate # 0 THEN Fail(P, "protocol", TRUE)
    ELSE IF P.phase = "failed" THEN Retire(P, i)
    ELSE Retire(Send(P, <<"terminal", i, Truth(v), ErrorOf(v)>>), i)

\* The first reason is kept; a waiting gate is opened for an exception.
Cancel(P, i, why) ==
    IF P.inv[i].life # "live" \/ P.inv[i].reason # Nil THEN P
    ELSE Progress([P EXCEPT !.inv[i].reason = why, !.inv[i].gate = 0], i)

\* What remains of a process: what it has told of an invocation that was retired, and
\* otherwise whether it held a connection.
Remains(P) ==
    [NewPeer EXCEPT !.blames = P.blames,
                    !.inv = [i \in Invocation |->
                               IF P.inv[i].life = "retired"
                               THEN [@[i] EXCEPT !.life = "retired",
                                                 !.proxy = P.inv[i].proxy,
                                                 !.transaction = P.inv[i].transaction,
                                                 !.lease = P.inv[i].lease]
                               ELSE [@[i] EXCEPT !.lease = P.inv[i].lease]]]

\* The step leaves P, with its frames in the pipe; a process that ends without a drain
\* may lose the last ones.
Becomes(P) ==
    /\ peer' = [P EXCEPT !.out = <<>>]
    /\ fromPeer' = fromPeer \o P.out

Halts(P, status) ==
    /\ peer' = Remains(P)
    /\ child' = status
    /\ toPeer' = <<>>
    /\ LET sent == fromPeer \o P.out IN
       \E n \in 0..Len(sent) : fromPeer' = SubSeq(sent, 1, n)

-----------------------------------------------------------------------------
(* receive                                                                 *)

OnStart(P) ==
    IF P.phase # "await" THEN Fail(P, "protocol", TRUE)
    ELSE [P EXCEPT !.phase = "starting"]

OnInvoke(P, i) ==
    IF \/ P.phase # "ready" \/ P.inv[i].life # "none"
       \/ \E j \in Live(P) : WorkerOf[j] = WorkerOf[i]
       \/ Cardinality(Live(P)) >= Capacity
    THEN Fail(P, "protocol", TRUE)
    ELSE Send([P EXCEPT !.inv[i].life = "live"], <<"accepted", i>>)

\* A release for an arrival that was released or canceled before has no effect.
OnRelease(P, i, n) ==
    IF P.inv[i].life = "none" THEN Fail(P, "protocol", TRUE)
    ELSE IF P.inv[i].life = "retired" THEN P
    ELSE IF n > P.inv[i].arrivals THEN Fail(P, "protocol", TRUE)
    ELSE IF n = P.inv[i].gate THEN [P EXCEPT !.inv[i].gate = 0] ELSE P

OnCancel(P, i, why) ==
    IF P.inv[i].life = "none" THEN Fail(P, "protocol", TRUE) ELSE Cancel(P, i, why)

\* The invocations of S one after the other, in the order they came, which is one of
\* Orders: of what is left, any member comes last.
Orders(S) == {last \in [(SUBSET S) \ {{}} -> S] : \A T \in DOMAIN last : last[T] \in T}

CanceledIn(P, S, last) ==
    LET Canceled[todo \in SUBSET S] ==
            IF todo = {} THEN P
            ELSE Cancel(Canceled[todo \ {last[todo]}], last[todo], "stop")
    IN Canceled[S]

\* Admission is closed, every invocation canceled, and the watchdog armed.
OnStop(P, last) ==
    IF P.phase = "stopping" THEN Fail(P, "protocol", TRUE)
    ELSE FinishCleanup(CanceledIn([P EXCEPT !.phase = "stopping", !.stopArmed = TRUE],
                                  Live(P), last))

Handle(P, f, last) ==
    IF P.phase = "await" /\ f[1] # "start" THEN Fail(P, "protocol", TRUE)
    ELSE CASE f[1] = "start" -> OnStart(P)
           [] f[1] = "invoke" -> OnInvoke(P, f[2])
           [] f[1] = "release" -> OnRelease(P, f[2], f[3])
           [] f[1] = "cancel" -> OnCancel(P, f[2], f[3])
           [] f[1] = "stop" -> OnStop(P, last)
           [] f[1] = "fatal" -> Fail(P, "engine", FALSE)
           [] f[1] = "bad" -> Fail(P, "protocol", TRUE)
           [] OTHER -> Fail(P, "transport", TRUE)

\* A failure before the start ends the process at once.
Receive ==
    /\ Reading /\ toPeer # <<>>
    /\ \E last \in Orders(Live(peer)) :
         LET P == Handle(peer, Head(toPeer), last) IN
         IF peer.phase = "await" /\ P.phase = "failed"
         THEN Halts(P, "bad")
         ELSE /\ Becomes(P)
              /\ toPeer' = IF Head(toPeer) = Closed THEN toPeer ELSE Tail(toPeer)
              /\ UNCHANGED child

-----------------------------------------------------------------------------
(* startup                                                                 *)

StartupEnds ==
    /\ ~ Gone /\ peer.phase # "await" /\ ~ peer.startupDone
    /\ LET P == [peer EXCEPT !.startupDone = TRUE] IN
       IF peer.phase # "starting" THEN Becomes(FinishCleanup(P))
       ELSE \/ Becomes(Send([P EXCEPT !.phase = "ready"], <<"ready">>))
            \/ Becomes(Fail(P, "startup", TRUE))
    /\ UNCHANGED <<toPeer, child>>

-----------------------------------------------------------------------------
(* execute, arrive and the milestones of a transaction, in the thread of   *)
(* an invocation.                                                          *)

Local(P) == Becomes(P) /\ UNCHANGED <<toPeer, child>>

TaskStarts(i) ==
    /\ ~ Gone /\ peer.inv[i].life = "live" /\ peer.inv[i].proxy = "outside"
    /\ LET v == peer.inv[i] IN
       IF v.reason # Nil \/ peer.phase = "failed"
       THEN Local(Progress([peer EXCEPT !.inv[i].proxy = "skipped"], i))
       ELSE Local([peer EXCEPT !.inv[i].proxy = "inside"])

Runs(i) == ~ Gone /\ peer.inv[i].proxy = "inside" /\ peer.inv[i].gate = 0

\* doBegin: first the connection is leased, then the transaction begins.
Beginning(i) ==
    Runs(i) /\ peer.inv[i].transaction = "none" /\ peer.inv[i].source = Nil

LeaseConnection(i) ==
    /\ Beginning(i) /\ peer.inv[i].lease = "none"
    /\ Local([peer EXCEPT !.inv[i].lease = "held"])

Begin(i) ==
    /\ Beginning(i) /\ peer.inv[i].lease = "held"
    /\ Local([peer EXCEPT !.inv[i].transaction = "active"])

\* recordSourceLocked: the first failure, and whether it came before the cancellation.
Thrown(P, i, source) ==
    [P EXCEPT !.inv[i].source = source, !.inv[i].first = (P.inv[i].reason = Nil)]

\* There is no connection, or the begin fails, which is recorded before the connection
\* is returned.
BeginFails(i) == Beginning(i) /\ Local(Thrown(peer, i, "application"))

Body(i) == Runs(i) /\ peer.inv[i].transaction = "active" /\ peer.inv[i].source = Nil

\* The gate is installed before the arrival is sent.
Arrive(i) ==
    /\ Body(i) /\ peer.inv[i].reason = Nil /\ peer.phase # "failed"
    /\ peer.inv[i].arrivals < Arrivals
    /\ LET n == peer.inv[i].arrivals + 1 IN
       Local(Send([peer EXCEPT !.inv[i].arrivals = n, !.inv[i].gate = n],
                  <<"arrive", i, n>>))

\* The body fails by itself, or with the exception of a cancellation.
BodyThrows(i) ==
    /\ Body(i)
    /\ \/ Local(Thrown(peer, i, "application"))
       \/ peer.inv[i].reason # Nil /\ Local(Thrown(peer, i, "cancelled"))

\* complete: a body that failed is rolled back, or committed by a rule of the
\* application; an error of either leaves the outcome unknown.
Complete(i) ==
    /\ Runs(i) /\ peer.inv[i].transaction = "active"
    /\ \E outcome \in {"committed", "rolled_back", "unknown"} :
         Local(Progress([peer EXCEPT !.inv[i].transaction = outcome], i))

\* The connection is returned after its transaction, or after a begin that failed.
ReturnLease(i) ==
    /\ Runs(i) /\ peer.inv[i].lease = "held" /\ peer.inv[i].transaction # "active"
    /\ peer.inv[i].transaction # "none" \/ peer.inv[i].source # Nil
    /\ \E lease \in {"returned", "failed"} :
         Local(Progress([peer EXCEPT !.inv[i].lease = lease], i))

\* host.execute returns, with what the body had thrown; an outcome that is unknown was
\* thrown as well.
ProxyExits(i) ==
    /\ Runs(i) /\ peer.inv[i].lease # "held" /\ peer.inv[i].transaction # "active"
    /\ peer.inv[i].transaction # "none" \/ peer.inv[i].source # Nil
    /\ Local(Progress([peer EXCEPT !.inv[i].proxy = "exited"], i))

WorkerStep(i) ==
    TaskStarts(i) \/ LeaseConnection(i) \/ Begin(i) \/ BeginFails(i) \/ Arrive(i)
    \/ BodyThrows(i) \/ Complete(i) \/ ReturnLease(i) \/ ProxyExits(i)

-----------------------------------------------------------------------------
(* Cleanup, watchdogs and exit.                                            *)

\* host.close, and stopped is sent by a session that did not fail until now.
CloseHost ==
    /\ ~ Gone /\ peer.cleanup = "closing"
    /\ LET P == IF Leased(peer) # {} THEN Fail(peer, "cleanup", TRUE) ELSE peer IN
       IF P.phase = "stopping"
       THEN Local(Send([P EXCEPT !.cleanup = "stopped"], <<"stopped">>))
       ELSE Local([P EXCEPT !.cleanup = "failed"])

\* forceExit does not wait.
ForceExit ==
    Halts(IF peer.phase = "failed" THEN peer
          ELSE Send([peer EXCEPT !.phase = "failed"], <<"fatal">>), "bad")

CloseHostFails == ~ Gone /\ peer.cleanup = "closing" /\ ForceExit

\* The output is drained and closed, then the process exits.
DrainedExit ==
    /\ ~ Gone /\ peer.cleanup \in {"stopped", "failed"}
    /\ peer' = Remains(peer)
    /\ child' = IF peer.cleanup = "stopped" /\ peer.phase # "failed" THEN "ok" ELSE "bad"
    /\ toPeer' = <<>> /\ UNCHANGED fromPeer

WatchdogExpires ==
    /\ ~ Gone
    /\ \/ peer.phase \in {"starting", "stopping"} /\ ~ peer.startupDone
       \/ peer.stopArmed
       \/ \E i \in Live(peer) : peer.inv[i].reason \in {"context", "stop"}
       \/ peer.phase = "failed"
    /\ ForceExit

PeerStep ==
    \/ Receive \/ StartupEnds \/ CloseHost \/ CloseHostFails \/ DrainedExit
    \/ WatchdogExpires
    \/ \E i \in Invocation : WorkerStep(i)

-----------------------------------------------------------------------------
(* Alone, with an engine that sends anything in any order.                 *)

EngineFrames ==
    {<<"start">>, <<"stop">>, <<"fatal">>, <<"bad">>, Closed}
        \cup ({"invoke"} \X Invocation)
        \cup ({"release"} \X Invocation \X (1..(Arrivals + 1)))
        \cup ({"cancel"} \X Invocation \X {"context", "stop"})

PeerInit ==
    /\ peer = NewPeer
    /\ toPeer = <<>> /\ fromPeer = <<>> /\ child = "alive"

\* A frame is written when the one before was read: later ones are a later choice.
EngineSays ==
    /\ Reading /\ toPeer = <<>>
    /\ \E f \in EngineFrames : toPeer' = <<f>>
    /\ UNCHANGED <<peer, fromPeer, child>>

PeerSpec == PeerInit /\ [][PeerStep \/ EngineSays]_peerVars

-----------------------------------------------------------------------------
(* What the peer has said, all of which fromPeer holds as long as nobody   *)
(* reads, is true and in order.                                            *)
Said(f) == \E n \in DOMAIN fromPeer : fromPeer[n] = f

\* A terminal is the truth about an invocation that has left its command and returned
\* its connection, there is one at most, and nothing is said of it later.
TerminalIsLast ==
    \A n \in DOMAIN fromPeer : fromPeer[n][1] = "terminal" =>
      LET i == fromPeer[n][2] IN
      /\ peer.inv[i].life = "retired" /\ Settled(peer.inv[i])
      /\ fromPeer[n][3] = Truth(peer.inv[i])
      /\ fromPeer[n][4] = "none" => peer.inv[i].transaction = "committed"
      /\ \A m \in n+1..Len(fromPeer) : fromPeer[m][1] \in {"stopped", "fatal", "ready"}
                                         \/ fromPeer[m][2] # i

\* A failure is final: nothing follows it, and stopped is said before it only by a
\* session whose work was all done; an exit without a failure has said stopped last.
FatalIsLast ==
    /\ \A n \in DOMAIN fromPeer : fromPeer[n] = <<"fatal">> => n = Len(fromPeer)
    /\ Said(<<"stopped">>) => Live(peer) = {} /\ Leased(peer) = {}
    /\ child = "ok" => fromPeer # <<>> /\ fromPeer[Len(fromPeer)] = <<"stopped">>

\* No gate is left waiting by a failure, a cancellation or the end of its command.
GatesOpen ==
    \A i \in Invocation : peer.inv[i].gate # 0 =>
      /\ peer.phase \in {"ready"} /\ peer.inv[i].reason = Nil
      /\ peer.inv[i].life = "live" /\ peer.inv[i].proxy = "inside"
      /\ peer.inv[i].gate = peer.inv[i].arrivals

PeerIsTruthful == TerminalIsLast /\ FatalIsLast /\ GatesOpen
=============================================================================
