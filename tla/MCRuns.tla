------------------------------- MODULE MCRuns -------------------------------
(***************************************************************************)
(* The run of a scenario and what stands around it, side by side: the      *)
(* calls of Orchestrator.Run, the fixture they run on, the space of the    *)
(* schedules they are given, the adapters they have to stop, and the       *)
(* command line that judges them.  A behaviour belongs to one of them,     *)
(* which who names; the variables of the others stay unused.  RunCleanup   *)
(* is extended, so its variables keep their first values when another part *)
(* runs.                                                                   *)
(***************************************************************************)
EXTENDS RunCleanup, TLC

CONSTANTS
    Parts,           \* the parts explored
    Unused,          \* the value of a variable of another part
    Containers       \* of the fixture

VARIABLES
    who,             \* the part this behaviour belongs to
    \* of the fixture
    made, live, data, container, provisioned, db, pool, valid, latched, tornDown,
    session, strays,
    \* of the schedules
    shape, limit, walk, at, count, nextPoint, steps, try, yielded, round,
    \* of the command line
    place, mode, pass, index, explored, discovery, replays, err, ended, teardowns,
    undiagnosed, temp, final, signals, code,
    \* of the adapters, which share stop
    opened, failed, parentDone, worker, phase, conn, cause, unreturned, outcome,
    mu, writing, start, joined, peer, toPeer, fromPeer, child, stop

fixture == <<made, live, data, container, provisioned, db, pool, valid, latched,
             tornDown, session, strays>>
space == <<shape, limit, walk, at, count, nextPoint, steps, try, yielded, round>>
command == <<place, mode, pass, index, explored, discovery, replays, err, ended,
             teardowns, undiagnosed, temp, final, signals, code>>
native == <<opened, failed, parentDone, worker, phase, conn, cause, unreturned, outcome>>
external == <<mu, writing, start, joined, peer, toPeer, fromPeer, child>>
adapters == <<native, external, stop>>

-----------------------------------------------------------------------------
(* The instances.                                                          *)

Fixture == INSTANCE FixtureLife WITH quarantined <- latched

\* Spaces of one to ninety candidates, with limits below, at and above their number.
Space == INSTANCE ScheduleSpace WITH
           Shapes <- {<<1, 2>>, <<2, 1>>, <<2, 2>>, <<3, 1>>, <<2, 3>>, <<3, 2>>, <<4, 1>>},
           Limits <- {1, 2, 6, 19, 20, 24, 90, 5000}, Passes <- 2,
           pc <- walk, pass <- round

\* Two candidates, two passes and two replays, two ways to pass and two to violate.
Verdict == INSTANCE VerdictRun WITH
             Candidates <- 2, ExplorePasses <- 2, Repeat <- 2,
             Passing <- {"ok", "ok'"}, Violating <- {"bad", "bad'"},
             Files <- <<"manifest", "trace", "markdown", "schedule">>,
             pc <- place, cleanup <- ended

\* Two invocations, of one worker or two.
Native == INSTANCE GoNative WITH
            Invocation <- {1, 2}, Worker <- {1, 2},
            session <- opened, fault <- failed, cleanup <- unreturned

\* One invocation, which arrives once.
External == INSTANCE ExternalWire WITH
              Invocation <- {1}, WorkerOf <- <<1>>, Capacity <- 1, Arrivals <- 1,
              QueueLimit <- 3

ASSUME InstancesAssumption ==
    Fixture!FixtureAssumption /\ Space!SpaceAssumption /\ Verdict!VerdictAssumption

-----------------------------------------------------------------------------
(* The sum.                                                                *)

NoFixture ==
    /\ made = Unused /\ live = Unused /\ data = Unused /\ container = Unused
    /\ provisioned = Unused /\ db = Unused /\ pool = Unused /\ valid = Unused
    /\ latched = Unused /\ tornDown = Unused /\ session = Unused /\ strays = Unused
NoSpace ==
    /\ shape = Unused /\ limit = Unused /\ walk = Unused /\ at = Unused
    /\ count = Unused /\ nextPoint = Unused /\ steps = Unused /\ try = Unused
    /\ yielded = Unused /\ round = Unused
NoCommand ==
    /\ place = Unused /\ mode = Unused /\ pass = Unused /\ index = Unused
    /\ explored = Unused /\ discovery = Unused /\ replays = Unused /\ err = Unused
    /\ ended = Unused /\ teardowns = Unused /\ undiagnosed = Unused /\ temp = Unused
    /\ final = Unused /\ signals = Unused /\ code = Unused
NoNative ==
    /\ opened = Unused /\ failed = Unused /\ parentDone = Unused /\ worker = Unused
    /\ phase = Unused /\ conn = Unused /\ cause = Unused /\ unreturned = Unused
    /\ outcome = Unused
NoExternal ==
    /\ mu = Unused /\ writing = Unused /\ start = Unused /\ joined = Unused
    /\ peer = Unused /\ toPeer = Unused /\ fromPeer = Unused /\ child = Unused

MCInit ==
    /\ who \in Parts
    /\ Init
    /\ IF who = "fixture" THEN Fixture!Init ELSE NoFixture
    /\ IF who = "space" THEN Space!Init ELSE NoSpace
    /\ IF who = "command" THEN Verdict!Init ELSE NoCommand
    /\ CASE who = "native" -> Native!Init /\ NoExternal
         [] who = "external" -> External!WireInit /\ NoNative
         [] OTHER -> NoNative /\ NoExternal /\ stop = Unused

others == <<who, fixture, space, command, adapters>>

RunNext == who = "run" /\ Next /\ UNCHANGED others
FixtureNext ==
    who = "fixture" /\ Fixture!Next /\ UNCHANGED <<who, vars, space, command, adapters>>
SpaceNext ==
    who = "space" /\ Space!Next /\ UNCHANGED <<who, vars, fixture, command, adapters>>
CommandNext ==
    who = "command" /\ Verdict!Next /\ UNCHANGED <<who, vars, fixture, space, adapters>>

NativeMoves(A) ==
    who = "native" /\ A /\ UNCHANGED <<who, vars, fixture, space, command, external>>
ExternalMoves(A) ==
    who = "external" /\ A /\ UNCHANGED <<who, vars, fixture, space, command, native>>

MCNext ==
    \/ RunNext \/ FixtureNext \/ SpaceNext \/ CommandNext
    \/ NativeMoves(Native!Next) \/ ExternalMoves(External!WireNext)

all == <<vars, others>>

\* The threads of each part: the runs, their timers and their collectors; the goroutines
\* of the adapters, whose launches return, whose child takes what is written to it while
\* it lives, and whose deadlines pass; the reader and the watchdogs of the peer.  Together
\* they go on as long as one of them can, which assumes less than that each does: no
\* behaviour is infinite, so each comes to its turn.
RunGoesOn ==
    \E r \in Run : RunStep(r) \/ RunTimesOut(r) \/ \E w \in Worker : CollectorStep(r, w)

NativeGoesOn ==
    \/ Native!StopGoesOn
    \/ \E i \in {1, 2} :
         Native!WatchParent(i) \/ Native!ConnectGoesOn(i) \/ Native!InvocationGoesOn(i)

EngineGoesOn ==
    \/ External!Launched \/ External!LaunchFails
    \/ External!WriterStep \/ External!ReaderStep \/ External!CleanupStep
    \/ External!WatchContext(1) \/ External!BridgeUnwinds(1)

PeerGoesOn == External!Peer!Receive \/ External!Peer!WatchdogExpires

Progress ==
    \/ who = "run" /\ RunGoesOn /\ UNCHANGED others
    \/ NativeMoves(NativeGoesOn)
    \/ ExternalMoves(External!EngineMoves(EngineGoesOn))
    \/ ExternalMoves(External!PeerMoves(PeerGoesOn))

MCFairness == WF_all(Progress)

MCSpec == MCInit /\ [][MCNext]_all /\ MCFairness

-----------------------------------------------------------------------------
(* Properties.                                                             *)

\* Nothing is under way that has to come to its end.
Settled ==
    CASE who = "run" -> \A r \in Run : pc[r] = "returned"
      [] who = "native" -> Native!Settled
      [] who = "external" -> External!Settled
      [] OTHER -> TRUE

\* Every call of Run returns, whatever its session does; the end of the context, and
\* Stop, close the stream of every invocation whose command does not run on in the
\* process itself, and Stop returns (run.go:80-210, gonative.go, external.go, stop.go).
EverythingReturns == []<>Settled

\* Whatever failed before, a handle that Ready accepts leads to the whole database of a
\* running container without strangers, and no container is lost (mysql.go).
FixtureIsSafe == who = "fixture" => Fixture!FixtureSafe

\* The strategy refuses exactly the spaces that exceed the limit, and yields every
\* other one whole, in order and without a repetition, however often it is consumed
\* (strategy.go).
SpaceIsExact == who = "space" => Space!SpaceIsExact

\* The exit code, the report on the disk and the teardown of a run agree with what its
\* executions showed, whatever fails and whenever signals come (run.go, execute.go,
\* verdict.go, write.go).
VerdictIsSound == who = "command" => Verdict!VerdictSound
=============================================================================
