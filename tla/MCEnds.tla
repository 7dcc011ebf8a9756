------------------------------- MODULE MCEnds -------------------------------
(***************************************************************************)
(* The collectors and jobs that must come to their end, side by side.  A   *)
(* behaviour belongs to one of them, which who names; the variables of the *)
(* others stay unused, and variables several programs have are shared.     *)
(* Each program's own steps are fair, because every wait in them has a     *)
(* deadline; the programs never interact.                                  *)
(***************************************************************************)
EXTENDS Naturals, Sequences

CONSTANTS
    Parts,           \* the programs explored
    Unused           \* the value of a variable of another program

VARIABLES
    who,             \* the program this behaviour belongs to
    \* of CommandRun
    leader, rest, memory, disk, own, killing, deferred, answer,
    \* of GateCampaign
    frozen, dirs, attempt, receipt, proof, view, stopped, tampered, dayOver,
    pins, cleanupPins, meddled, observed, absorbed,
    \* of SlotCampaign
    file, progress, sealed, registration, marker, open, drifted, written,
    cut, crashed,
    \* of PilotCampaign
    trial, status, gate, left, orphan, hit,
    \* of CentralPublish
    bundle, job, runs, now, request, deployments, dropped, public,
    \* of ActionGate
    given, step, outcome, install, cli, evidence, uploaded, summary,
    comment, cuts,
    \* of ProviderEvidence
    complete, run, pages, events, active, peak,
    \* of more than one
    pc, signals, sums, held, live, begun, me, listing

commands ==
    <<leader, rest, memory, disk, own, killing, deferred, answer>>
gates ==
    <<frozen, dirs, attempt, receipt, proof, view, stopped, tampered, dayOver,
      pins, cleanupPins, meddled, observed, absorbed>>
slots ==
    <<file, progress, sealed, registration, marker, open, drifted, written,
      cut, crashed>>
trials ==
    <<trial, status, gate, left, orphan, hit>>
publisher ==
    <<bundle, job, runs, now, request, deployments, dropped, public>>
steps ==
    <<given, step, outcome, install, cli, evidence, uploaded, summary,
      comment, cuts>>
snapshot ==
    <<complete, run, pages, events, active, peak>>
shared == <<pc, signals, sums, held, live, begun, me, listing>>

all == <<who, commands, gates, slots, trials, publisher, steps, snapshot, shared>>

-----------------------------------------------------------------------------
(* The instances.                                                          *)

Command == INSTANCE CommandRun WITH MaxSignals <- 3, Rewrites <- TRUE

\* The ways the observation of an arm is lost, or its teardown not proved.
Losing == [c \in {"prepare", "run", "observe", "check", "cleanup"} |->
              CASE c = "run" -> {"wrong"} [] c = "observe" -> {"bad"}
                [] c = "check" -> {"fail"} [] c = "cleanup" -> {"escape", "fail"}
                [] OTHER -> {}]
Gate == INSTANCE GateCampaign WITH
          Blocks <- {"b1"}, Prior <- [b \in {"b1"} |-> {}], Mishaps <- Losing,
          MaxSignals <- 1, Faults <- {"crash", "rewrite"}

Slot == INSTANCE SlotCampaign WITH
          NSlots <- 3, Unsupported <- {2}, Warm <- {}, Measurement <- FALSE,
          MaxSignals <- 2, Faults <- {"fail", "escape", "drift"}

Pilot == INSTANCE PilotCampaign WITH
           NBlocks <- 1, FirstB <- {1}, Evidence <- {"x", "y"}, MaxSignals <- 1,
           Orphans <- TRUE

Central == INSTANCE CentralPublish WITH
             Bytes <- {"x", "y"}, Foreign <- 0, PageSize <- 1, Deadline <- 1,
             MaxRuns <- 1, Late <- FALSE

Action == INSTANCE ActionGate WITH MaxCuts <- 1

Provider == INSTANCE ProviderEvidence WITH
              JobIds <- {1, 2}, Required <- {1}, PageSize <- 1, Horizon <- 1

ASSUME InstancesAssumption ==
    /\ Gate!CampaignAssumption /\ Slot!CampaignAssumption
    /\ Pilot!PilotAssumption /\ Central!PublishAssumption
    /\ Action!GateAssumption /\ Provider!ProviderAssumption

-----------------------------------------------------------------------------
(* The sum.                                                                *)

NoCommands ==
    /\ leader = Unused /\ rest = Unused /\ memory = Unused /\ disk = Unused
    /\ own = Unused /\ killing = Unused /\ deferred = Unused
    /\ answer = Unused
NoGates ==
    /\ frozen = Unused /\ dirs = Unused /\ attempt = Unused
    /\ receipt = Unused /\ proof = Unused /\ view = Unused /\ stopped = Unused
    /\ tampered = Unused /\ dayOver = Unused /\ pins = Unused
    /\ cleanupPins = Unused /\ meddled = Unused /\ observed = Unused
    /\ absorbed = Unused
NoSlots ==
    /\ file = Unused /\ progress = Unused /\ sealed = Unused
    /\ registration = Unused /\ marker = Unused /\ open = Unused
    /\ drifted = Unused /\ written = Unused /\ cut = Unused
    /\ crashed = Unused
NoTrials ==
    /\ trial = Unused /\ status = Unused /\ gate = Unused /\ left = Unused
    /\ orphan = Unused /\ hit = Unused
NoPublisher ==
    /\ bundle = Unused /\ job = Unused /\ runs = Unused /\ now = Unused
    /\ request = Unused /\ deployments = Unused /\ dropped = Unused
    /\ public = Unused
NoSteps ==
    /\ given = Unused /\ step = Unused /\ outcome = Unused /\ install = Unused
    /\ cli = Unused /\ evidence = Unused /\ uploaded = Unused
    /\ summary = Unused /\ comment = Unused /\ cuts = Unused
NoSnapshot ==
    /\ complete = Unused /\ run = Unused /\ pages = Unused /\ events = Unused
    /\ active = Unused /\ peak = Unused

Started ==
    \/ /\ who = "command" /\ Command!ExecuteInit
       /\ NoGates /\ NoSlots /\ NoTrials /\ NoPublisher /\ NoSteps /\ NoSnapshot
       /\ sums = Unused /\ held = Unused /\ live = Unused /\ begun = Unused
       /\ me = Unused /\ listing = Unused
    \/ /\ who = "gate" /\ Gate!Init
       /\ NoCommands /\ NoSlots /\ NoTrials /\ NoPublisher /\ NoSteps
       /\ NoSnapshot /\ pc = Unused /\ listing = Unused
    \/ /\ who = "slot" /\ Slot!Init
       /\ NoCommands /\ NoGates /\ NoTrials /\ NoPublisher /\ NoSteps
       /\ NoSnapshot /\ pc = Unused /\ sums = Unused /\ listing = Unused
    \/ /\ who = "pilot" /\ Pilot!Init
       /\ NoCommands /\ NoGates /\ NoSlots /\ NoPublisher /\ NoSteps
       /\ NoSnapshot /\ pc = Unused /\ held = Unused /\ live = Unused
       /\ begun = Unused /\ listing = Unused
    \/ /\ who = "central" /\ Central!Init
       /\ NoCommands /\ NoGates /\ NoSlots /\ NoTrials /\ NoSteps /\ NoSnapshot
       /\ pc = Unused /\ signals = Unused /\ sums = Unused /\ held = Unused
       /\ live = Unused /\ begun = Unused /\ me = Unused
    \/ /\ who = "action" /\ Action!Init
       /\ NoCommands /\ NoGates /\ NoSlots /\ NoTrials /\ NoPublisher
       /\ NoSnapshot /\ pc = Unused /\ signals = Unused /\ sums = Unused
       /\ held = Unused /\ live = Unused /\ begun = Unused /\ me = Unused
       /\ listing = Unused
    \/ /\ who = "provider" /\ Provider!Init
       /\ NoCommands /\ NoGates /\ NoSlots /\ NoTrials /\ NoPublisher /\ NoSteps
       /\ signals = Unused /\ sums = Unused /\ held = Unused /\ live = Unused
       /\ begun = Unused /\ me = Unused

MCInit == who \in Parts /\ Started

otherCommands ==
    <<gates, slots, trials, publisher, steps, snapshot, sums, held, live,
      begun, me, listing>>
otherGates ==
    <<commands, slots, trials, publisher, steps, snapshot, pc, listing>>
otherSlots ==
    <<commands, gates, trials, publisher, steps, snapshot, pc, sums, listing>>
otherTrials ==
    <<commands, gates, slots, publisher, steps, snapshot, pc, held, live,
      begun, listing>>
otherPublisher ==
    <<commands, gates, slots, trials, steps, snapshot, pc, signals, sums,
      held, live, begun, me>>
otherSteps ==
    <<commands, gates, slots, trials, publisher, snapshot, pc, signals, sums,
      held, live, begun, me, listing>>
otherSnapshot ==
    <<commands, gates, slots, trials, publisher, steps, signals, sums, held,
      live, begun, me>>

MCNext ==
    \/ who = "command" /\ Command!ExecuteNext /\ UNCHANGED <<who, otherCommands>>
    \/ who = "gate" /\ Gate!Next /\ UNCHANGED <<who, otherGates>>
    \/ who = "slot" /\ Slot!Next /\ UNCHANGED <<who, otherSlots>>
    \/ who = "pilot" /\ Pilot!Next /\ UNCHANGED <<who, otherTrials>>
    \/ who = "central" /\ Central!Next /\ UNCHANGED <<who, otherPublisher>>
    \/ who = "action" /\ Action!Next /\ UNCHANGED <<who, otherSteps>>
    \/ who = "provider" /\ Provider!Next /\ UNCHANGED <<who, otherSnapshot>>

\* Hooks, commands and gates are given deadlines, requests time out, and the runner
\* works its steps off; nothing is assumed of signals, crashes, hosts and providers.
Progress ==
    \/ who = "command" /\ Command!Collector /\ UNCHANGED <<who, otherCommands>>
    \/ who = "gate" /\ Gate!Collector /\ UNCHANGED <<who, otherGates>>
    \/ who = "slot" /\ Slot!Collector /\ UNCHANGED <<who, otherSlots>>
    \/ who = "pilot" /\ Pilot!Collector /\ UNCHANGED <<who, otherTrials>>
    \/ who = "central" /\ Central!Publisher /\ UNCHANGED <<who, otherPublisher>>
    \/ who = "action" /\ Action!Runner /\ UNCHANGED <<who, otherSteps>>
    \/ who = "provider" /\ Provider!Snapshot /\ UNCHANGED <<who, otherSnapshot>>

\* A request is answered or times out, time passes, and a deployment Central no longer
\* lists fails the request for its status.
CentralWaits(A) ==
    who = "central" /\ A /\ UNCHANGED <<who, otherPublisher>>

Fairness ==
    /\ WF_all(Progress)
    /\ WF_all(CentralWaits(Central!Breaks /\ job.pc = "sent"))
    /\ WF_all(CentralWaits(Central!Tick))
    /\ WF_all(CentralWaits(Central!Breaks /\ job.pc = "poll" /\ ~Central!Listed(job.id)))

MCSpec == MCInit /\ [][MCNext]_all /\ Fairness

-----------------------------------------------------------------------------
(* Properties.                                                             *)

\* What is under way, and has to come to its end.
Unfinished ==
    CASE who = "gate" -> \E s \in Gate!Slots: held[s]
      [] who = "slot" -> me.pc # "idle"
      [] who = "pilot" -> me.pc = "trial"
      [] who = "central" -> job.pc # "idle"
      [] OTHER -> TRUE

Finished ==
    CASE who = "command" -> pc \in {"done", "crashed"}
      [] who = "gate" -> \/ \A s \in Gate!Slots: ~held[s]
                         \/ me.pc = "idle" /\ (stopped # "none" \/ ~sums)
      [] who = "slot" -> me.pc = "idle"
      [] who = "pilot" -> me.pc = "done"
      [] who = "central" -> job.pc = "done"
      [] who = "action" -> outcome["gate"] # "none"
      [] who = "provider" -> pc \in {"accepted", "refused"}

\* Whatever is interrupted, fails or is cut off: a command comes back, or its
\* collector was killed; allocations are released, or quarantined by a stop or an
\* unsealed bundle; a collection of slots, a pilot campaign and a publication end; the
\* gate of a pull request is decided, and a snapshot of the provider taken or refused
\* (execution.py, collector.py, tool.py, pilot.py, java-central.py, actions-gate.py,
\* ci.py).
EverythingEnds == Unfinished ~> Finished
=============================================================================
