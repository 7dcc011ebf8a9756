----------------------------- MODULE MCAdapters -----------------------------
(***************************************************************************)
(* The adapters, side by side: the Go-native one, the external one with    *)
(* the Java peer it launches (an invocation that arrives, or two of one    *)
(* worker), the external one with any child, and the peer with any engine. *)
(* A behaviour belongs to one of them, which who names; the variables of   *)
(* the others stay unused.  GoNative is extended, so its variables keep    *)
(* their first values when another part runs.                              *)
(***************************************************************************)
EXTENDS GoNative, Naturals, Sequences, TLC

CONSTANTS
    Parts,           \* the parts explored
    Single,          \* one invocation of an external adapter
    Reused,          \* two invocations, of one worker
    Unused           \* the value of a variable of another part

VARIABLES
    who,             \* the part this behaviour belongs to
    mu, writing, starting, cleaning, joined,     \* of the engine
    peer,                                        \* of the child
    toPeer, fromPeer, child                      \* between them

engine == <<mu, writing, starting, cleaning, joined>>
wire == <<toPeer, fromPeer, child>>

-----------------------------------------------------------------------------
(* The instances.                                                          *)

SameWorker == [i \in Invocation |-> "w"]

\* A fourth frame exhausts the queue, which one invocation may fill.
Wire == INSTANCE ExternalWire WITH
          Invocation <- Single, WorkerOf <- SameWorker, Capacity <- 1, Arrivals <- 1,
          QueueLimit <- 3, start <- starting, stop <- cleaning

\* The worker is used again as soon as its stream was closed.
Again == INSTANCE ExternalWire WITH
           Invocation <- Reused, WorkerOf <- SameWorker, Capacity <- 1, Arrivals <- 0,
           QueueLimit <- 3, start <- starting, stop <- cleaning

Engine == INSTANCE ExternalEngine WITH
            Invocation <- Single, WorkerOf <- SameWorker, Capacity <- 1, Arrivals <- 1,
            QueueLimit <- 2, start <- starting, stop <- cleaning

Peer == INSTANCE JavaPeer WITH
          Invocation <- Single, WorkerOf <- SameWorker, Capacity <- 1, Arrivals <- 1

ASSUME InstancesAssumption ==
    Wire!EngineAssumption /\ Again!EngineAssumption /\ Engine!EngineAssumption

-----------------------------------------------------------------------------
(* The sum.                                                                *)

NoEngine ==
    /\ mu = Unused /\ writing = Unused /\ starting = Unused /\ cleaning = Unused
    /\ joined = Unused
NoChild ==
    /\ peer = Unused /\ toPeer = Unused /\ fromPeer = Unused /\ child = Unused

MCInit ==
    /\ who \in Parts
    /\ Init
    /\ CASE who = "native" -> NoEngine /\ NoChild
         [] who = "wire" -> Wire!WireInit
         [] who = "again" -> Again!WireInit
         [] who = "engine" -> Engine!EngineInit /\ peer = Unused
         [] who = "peer" -> Peer!PeerInit /\ NoEngine

external == <<engine, peer, wire>>

NativeNext == who = "native" /\ Next /\ UNCHANGED <<who, external>>
WireNext == who = "wire" /\ Wire!WireNext /\ UNCHANGED <<who, vars>>
\* The context of a run does not end here: the part with one invocation covers that.
AgainNext ==
    /\ who = "again" /\ Again!WireNext /\ "parent" \notin mu'.latch
    /\ UNCHANGED <<who, vars>>
EngineNext ==
    /\ who = "engine"
    /\ Engine!EngineStep \/ Engine!AnyChild
    /\ UNCHANGED <<who, vars, peer>>
PeerNext ==
    /\ who = "peer"
    /\ Peer!PeerStep \/ Peer!EngineSays
    /\ UNCHANGED <<who, vars, engine>>

MCNext == NativeNext \/ WireNext \/ AgainNext \/ EngineNext \/ PeerNext

all == <<who, vars, external>>

MCSpec == MCInit /\ [][MCNext]_all

\* No part tells the two invocations of Reused apart.  Stop cancels the invocations of
\* an adapter in an order of its own, but here at most one of a worker is open.
Interchangeable ==
    Permutations(Reused)

-----------------------------------------------------------------------------
(* Properties.                                                             *)

\* Every adapter keeps the contract of internal/sut: each stream carries one outcome
\* or, after the fault, none; and a Stop that succeeded vouches for all of them, however
\* it races with completions, cancellations and the end of the child.
AllStreams ==
    [i \in Invocation |->
       CASE who = "native" -> StreamOf[i]
         [] who = "again" /\ i \in Reused -> Again!StreamOf[i]
         [] who \in {"wire", "engine"} /\ i \in Single -> Engine!StreamOf[i]
         [] OTHER -> "none"]

AnyFault ==
    CASE who = "native" -> fault
      [] who \in {"wire", "again", "engine"} -> Engine!Faulted(mu)
      [] OTHER -> FALSE

AnyAnswer ==
    CASE who = "native" -> StopAnswer
      [] who \in {"wire", "again", "engine"} -> Engine!StopAnswer
      [] OTHER -> "no"

AnyStream == INSTANCE OutcomeStream WITH
               stream <- AllStreams, faulted <- AnyFault, stopped <- AnyAnswer

AdaptersImplementStream == AnyStream!StreamSpec

\* Neither the adapter nor the peer ever takes the other for one that breaks the
\* protocol, whichever way their frames cross (external.go:565, Peer.java:168).
SidesAgree == who \in {"wire", "again"} => Wire!SidesAgree

\* The outcome the adapter publishes is the truth about the transaction in the peer, and
\* a successful Stop leaves it no connection (external.go:703, Peer.java:703).
OutcomeIsTrue ==
    /\ who = "wire" => Wire!OutcomeIsTrue
    /\ who = "again" => Again!OutcomeIsTrue

\* Whatever the other side says or does: the adapter sends no release after a
\* cancellation, closes no stream with a bridge, and proves what Stop claims; the peer
\* says the truth and says it last (external.go, stop.go, Peer.java).
SidesAreSafe ==
    /\ who = "wire" => Wire!EngineSafe
    /\ who = "again" => Again!EngineSafe
    /\ who = "engine" => Engine!EngineSafe
    /\ who = "peer" => Peer!PeerIsTruthful
=============================================================================
