------------------------------- MODULE MCTools -------------------------------
(***************************************************************************)
(* The programs around the core, side by side: the publisher, the gate of  *)
(* a pull request, the local pilot and the guard of the wire vectors.  A   *)
(* behaviour belongs to one of them, which who names, with one choice of   *)
(* its constants; the variables of the others stay unused.                 *)
(* The programs do not interact: the run explores the sum of their state   *)
(* spaces.  WireHistory is extended, so its variables keep their first     *)
(* values when another program runs.                                       *)
(***************************************************************************)
EXTENDS WireHistory, TLC

CONSTANTS
    Parts,           \* the programs and instances explored
    Invocations,     \* interchangeable invocation names
    Unused,          \* the value of a variable of another program
    \* of the publisher and of the pilot
    Bytes, Foreign, PageSize, Deadline, MaxRuns, NBlocks, FirstB, MaxSignals, Orphans,
    MaxCuts          \* of the steps of the action

VARIABLES
    who,             \* the program this behaviour belongs to
    \* of the publisher
    bundle, job, runs, now, request, deployments, listing, dropped, public,
    \* of the steps of the action
    given, step, outcome, install, cli, evidence, uploaded, summary, comment,
    cuts,
    \* of the pilot
    me, trial, status, sums, gate, left, orphan, signals, hit

publisher == <<bundle, job, runs, now, request, deployments, listing, dropped,
               public>>
steps == <<given, step, outcome, install, cli, evidence, uploaded, summary,
           comment, cuts>>
trials == <<me, trial, status, sums, gate, left, orphan, signals, hit>>

-----------------------------------------------------------------------------
(* The instances.                                                          *)

\* A release among others in the listing; and one whose uploads may arrive after their
\* sender gave up.
Central == INSTANCE CentralPublish WITH Late <- FALSE
Late == INSTANCE CentralPublish WITH Foreign <- 0, Late <- TRUE

Action == INSTANCE ActionGate

\* Artifacts are compared by their bytes.
Pilot == INSTANCE PilotCampaign WITH Evidence <- Bytes

Returned == [exited |-> TRUE, transaction |-> "committed", lease |-> "returned"]
Held == [exited |-> FALSE, transaction |-> "committed", lease |-> "held"]

\* The completion facts of the first instance, a single invocation with two arrivals.
WireFacts == {Returned, Held}

\* Two invocations of one worker.
Reuse == INSTANCE WireHistory WITH
           Inv <- Invocations, Worker <- {"w"}, Points <- {}, Missing <- "missing",
           MaxArrival <- 1, Capacity <- 1, Facts <- {Returned},
           Errors <- {"nil"}, Cases <- {}

Symmetry == Permutations(Worker) \cup Permutations(Invocations)

ASSUME InstancesAssumption ==
    /\ Central!PublishAssumption /\ Late!PublishAssumption
    /\ Action!GateAssumption /\ Pilot!PilotAssumption
    /\ Reuse!HistoryAssumption /\ Cases \subseteq WireFaults

-----------------------------------------------------------------------------
(* The sum.                                                                *)

NoPublisher ==
    /\ bundle = Unused /\ job = Unused /\ runs = Unused /\ now = Unused
    /\ request = Unused /\ deployments = Unused /\ listing = Unused
    /\ dropped = Unused /\ public = Unused
NoSteps ==
    /\ given = Unused /\ step = Unused /\ outcome = Unused /\ install = Unused
    /\ cli = Unused /\ evidence = Unused /\ uploaded = Unused
    /\ summary = Unused /\ comment = Unused /\ cuts = Unused
NoTrials ==
    /\ me = Unused /\ trial = Unused /\ status = Unused /\ sums = Unused
    /\ gate = Unused /\ left = Unused /\ orphan = Unused /\ signals = Unused
    /\ hit = Unused

Started ==
    \/ who = "central" /\ Central!Init /\ NoSteps /\ NoTrials
    \/ who = "late" /\ Late!Init /\ NoSteps /\ NoTrials
    \/ who = "action" /\ Action!Init /\ NoPublisher /\ NoTrials
    \/ who = "pilot" /\ Pilot!Init /\ NoPublisher /\ NoSteps
    \/ who = "wire" /\ NoPublisher /\ NoSteps /\ NoTrials
    \/ who = "reuse" /\ NoPublisher /\ NoSteps /\ NoTrials

MCInit ==
    /\ who \in Parts
    /\ IF who = "reuse" THEN Reuse!Init ELSE Init
    /\ Started

CentralNext ==
    /\ \/ who = "central" /\ Central!Next
       \/ who = "late" /\ Late!Next
    /\ UNCHANGED <<who, steps, trials, vars>>
ActionNext ==
    /\ who = "action" /\ Action!Next
    /\ UNCHANGED <<who, publisher, trials, vars>>
PilotNext ==
    /\ who = "pilot" /\ Pilot!Next
    /\ UNCHANGED <<who, publisher, steps, vars>>
WireNext ==
    /\ \/ who = "wire" /\ Next
       \/ who = "reuse" /\ Reuse!Next
    /\ UNCHANGED <<who, publisher, steps, trials>>

MCNext == CentralNext \/ ActionNext \/ PilotNext \/ WireNext

all == <<who, publisher, steps, trials, vars>>

MCSpec == MCInit /\ [][MCNext]_all

-----------------------------------------------------------------------------
(* Properties.                                                             *)

\* A release is deployed once, from verified bytes, and a job that succeeds has
\* published it, whatever answer was lost and however often the job is retried; when
\* uploads outlive their request a second deployment is possible, but success still
\* means published (java-central.py).
ReleasePublished ==
    /\ who = "central" => Central!TypeOK /\ Central!ReleaseIsSound
    /\ who = "late" => Late!TypeOK /\ Late!UploadedIsVerified /\ Late!SuccessIsPublished

\* A green gate was earned by a verified binary, and comment and summary claim only
\* what was uploaded, wherever steps are cut off (actions-gate.py, action.yml).
GateEarned == who = "action" => Action!TypeOK /\ Action!DecisionIsSound

\* A trial starts on a clean host, behind accepted pairs only, and a sealed bundle
\* that claims every block is whole, although interrupts are swallowed (pilot.py).
PairsComparable == who = "pilot" => Pilot!TypeOK /\ Pilot!PairsAreSound

\* The guard of the vectors admits no history the protocol forbids: every release
\* answers an arrival, an invocation that ends was released, a worker has one open
\* invocation, a fatal frame ends everything and no fault passes as an exchange
\* (check-external-sut-vectors.py).
HistoriesSound ==
    /\ [](/\ who = "wire" => TypeOK /\ HistoryIsSound
          /\ who = "reuse" => Reuse!TypeOK /\ Reuse!HistoryIsSound)
    /\ [][/\ who = "wire" => StepIsSound
          /\ who = "reuse" => Reuse!StepIsSound]_all
=============================================================================
