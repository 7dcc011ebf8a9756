---------------------------- MODULE ExternalWire ----------------------------
(***************************************************************************)
(* The external adapter and the Java peer, each as its module has it, over *)
(* the pipes of the process, where the peer never reads an end: cleanup    *)
(* kills the child before it closes the pipes (stop.go:138), and when it   *)
(* closes them first, for a launch that outlasted a Stop (stop.go:77-78),  *)
(* the kill is taken with it.  What a peer does that reads the end is in   *)
(* JavaPeer alone.  The child may die whenever it is alive.                *)
(***************************************************************************)
EXTENDS ExternalEngine

VARIABLE peer

Peer == INSTANCE JavaPeer

wireVars == <<engineVars, peer>>

WireInit == EngineInit /\ peer = Peer!NewPeer

\* Cleanup may kill the child.
EngineMoves(A) ==
    /\ A
    /\ peer' = IF child = "alive" /\ child' = "bad" THEN Peer!Remains(peer) ELSE peer
PeerMoves(A) == A /\ UNCHANGED <<mu, writing, start, stop, joined>>

\* What is in the pipe can still be read, what is queued behind it is lost.
ChildDies == child = "alive" /\ Peer!Halts(peer, "bad")

WireNext ==
    \/ EngineMoves(EngineStep)
    \/ PeerMoves(Peer!PeerStep)
    \/ PeerMoves(ChildDies)

WireSpec == WireInit /\ [][WireNext]_wireVars

-----------------------------------------------------------------------------
\* Neither side ever takes the other for one that breaks the protocol, whichever way
\* cancellations, releases, terminals and stop cross on the pipes.
SidesAgree == ~ Has("protocol") /\ ~ peer.blames

\* The outcome the adapter has accepted is what the peer knows of the transaction, whose
\* connection was returned; and a Stop that succeeded leaves no connection leased.
OutcomeIsTrue ==
    /\ \A i \in Invocation : mu.inv[i].terminal # Nil =>
         /\ peer.inv[i].life = "retired" /\ Peer!Settled(peer.inv[i])
         /\ mu.inv[i].terminal[3] = Peer!Truth(peer.inv[i])
    /\ stop = "ok" => Peer!Leased(peer) = {}

\* No stream is open whose context has ended or whose session was stopped, and no Stop
\* is under way.
Settled ==
    /\ stop \in {"idle", "ok", "error"}
    /\ Has("parent") \/ stop # "idle" => Open(mu) = {}
=============================================================================
