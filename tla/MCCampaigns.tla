----------------------------- MODULE MCCampaigns -----------------------------
(***************************************************************************)
(* The parts of a measurement campaign, side by side: its plan, the        *)
(* provider's evidence, the collectors of both experiments, the command    *)
(* they run and the recorder of the timings they reduce.  A behaviour      *)
(* belongs to one of them, which who names, with one choice of its         *)
(* constants; the variables of the others stay unused.  The parts never    *)
(* interact here: the run explores the sum of their state spaces.          *)
(* CommandRun is extended, so its variables keep their first values when   *)
(* another part runs; the two collectors share the variables both have.    *)
(***************************************************************************)
EXTENDS CommandRun, Sequences, TLC

CONSTANTS
    Parts,           \* the parts and instances explored
    Unused           \* the value of a variable of another part

VARIABLES
    who,             \* the part this behaviour belongs to
    held, live, me, sent, begun,
                     \* of both collectors
    frozen, dirs, attempt, receipt, proof, view, stopped, sums, tampered,
    dayOver, pins, cleanupPins, meddled, observed, absorbed,
    file, progress, sealed, registration, marker, open, drifted, written, cut,
    crashed,
    plan, edits, verdict, todo, rows,
    listing, complete, stage, run, pages, events, active, peak,
    clock, spans, main, aside, base, wall, history

shared == <<held, live, me, sent, begun>>
gate == <<frozen, dirs, attempt, receipt, proof, view, stopped, sums,
          tampered, dayOver, pins, cleanupPins, meddled, observed, absorbed>>
slot == <<file, progress, sealed, registration, marker, open, drifted,
          written, cut, crashed>>
campaign == <<plan, edits, verdict, todo, rows>>
provider == <<listing, complete, stage, run, pages, events, active, peak>>
recorder == <<clock, spans, main, aside, base, wall, history>>

-----------------------------------------------------------------------------
(* The instances.                                                          *)

Plain == INSTANCE CommandRun WITH Rewrites <- FALSE

HookSteps == {"prepare", "run", "observe", "check", "cleanup"}
Single == [b \in {"b1"} |-> {}]
\* Two blocks of one workload, the first assigned before the second.
Ordered == ("b1" :> {}) @@ ("b2" :> {"b1"})

\* Hooks that may fail or be wrong in every step, and leave processes behind in two; in
\* the ways that stop a campaign; and only by not proving their teardown.
AnyMishap == [c \in HookSteps |-> {"fail"} \cup
                 CASE c = "run" -> {"wrong"} [] c = "observe" -> {"escape", "bad"}
                   [] c = "cleanup" -> {"escape", "bad"} [] OTHER -> {}]
Escaping == [c \in HookSteps |->
                CASE c \in {"prepare", "run"} -> {"fail", "escape"}
                  [] c = "check" -> {"escape"} [] c = "cleanup" -> {"fail"} [] OTHER -> {}]
Unproven == [c \in HookSteps |-> IF c = "cleanup" THEN {"bad"} ELSE {}]

\* One block of two arms, with damage; with a mishap in any step; two blocks over
\* several collections; and without any fault.
Gate == INSTANCE GateCampaign WITH
          Blocks <- {"b1"}, Prior <- Single, Mishaps <- Escaping,
          MaxSignals <- 2, Faults <- {"rewrite"}, signals <- sent
Arm == INSTANCE GateCampaign WITH
         Blocks <- {"b1"}, Prior <- Single, Mishaps <- AnyMishap,
         MaxSignals <- 0, Faults <- {"drift"}, signals <- sent
Pair == INSTANCE GateCampaign WITH
          Blocks <- {"b1", "b2"}, Prior <- Ordered, Mishaps <- Escaping,
          MaxSignals <- 0, Faults <- {"crash", "drift"}, signals <- sent
Quiet == INSTANCE GateCampaign WITH
           Blocks <- {"b1"}, Prior <- Single, Mishaps <- Unproven,
           MaxSignals <- 1, Faults <- {}, signals <- sent

\* Slots whose commands fail, and slots whose evidence is rewritten or lost.
Slot == INSTANCE SlotCampaign WITH
          NSlots <- 3, Unsupported <- {}, Warm <- {1}, Measurement <- TRUE,
          MaxSignals <- 2, Faults <- {"crash", "fail", "escape", "drift"}, signals <- sent
Lost == INSTANCE SlotCampaign WITH
          NSlots <- 3, Unsupported <- {2}, Warm <- {}, Measurement <- TRUE,
          MaxSignals <- 1, Faults <- {"rewrite", "lose", "crash"}, signals <- sent

\* common.sampling: one warm workload of the E1 pilot, the E1 confirmation with one
\* workload of each sample, the cold adoption, the E2 pilot and confirmation.
Published == {"w1" :> <<4, 4>>, ("w1" :> <<10, 10, 10>> @@ "w2" :> <<4, 3, 3>>),
              "w1" :> <<3, 3>>, "w1" :> <<4, 4, 4>>}

Complete(kind, strata, dates) ==
    LET arms == (DOMAIN strata) \X {"baseline", "candidate"} IN
    [experiment |-> kind, strata |-> strata, dates |-> dates,
     commands |-> {<<a[1], a[2], c>> : a \in arms, c \in HookSteps},
     exits |-> arms, facts |-> arms,
     pinned |-> {"hook", "teardown"}, own |-> {"teardown"},
     program |-> [c \in HookSteps |-> IF c = "cleanup" THEN "teardown" ELSE "hook"]]

PublishedPlans ==
    {Complete("registered", s, [i \in 1 .. Len(s["w1"]) |-> i]) : s \in Published}

\* A plan of a later protocol, to be edited; the published plans are taken as they are.
OwnPlans == {Complete("later", ("w1" :> <<2, 1>> @@ "w2" :> <<1>>), <<1, 2>>)}

Edited == INSTANCE CampaignPlan WITH
            Workloads <- {"w1", "w2"}, Programs <- {"hook", "teardown"},
            Sampling <- Published, BasePlans <- OwnPlans, MaxEdits <- 3
Registered == INSTANCE CampaignPlan WITH
            Workloads <- {"w1", "w2"}, Programs <- {"hook", "teardown"},
            Sampling <- Published, BasePlans <- PublishedPlans, MaxEdits <- 0

Provider == INSTANCE ProviderEvidence WITH
              JobIds <- {1, 2, 3}, Required <- {1}, PageSize <- 2, Horizon <- 2,
              pc <- stage

\* The recorder of timings: two stages, one detail and one container.
Timing == INSTANCE TimingTree WITH
            Stages <- {"reset", "start"}, Details <- {"database_seed"},
            Containers <- {"schedule_run"}, MaxSpans <- 4, MaxTime <- 2,
            Nil <- Unused, now <- clock

ASSUME InstancesAssumption ==
    /\ Gate!CampaignAssumption /\ Arm!CampaignAssumption
    /\ Pair!CampaignAssumption /\ Quiet!CampaignAssumption
    /\ Slot!CampaignAssumption /\ Lost!CampaignAssumption
    /\ Edited!PlanAssumption /\ Registered!PlanAssumption
    /\ Provider!ProviderAssumption /\ Timing!TimingAssumption

-----------------------------------------------------------------------------
(* The sum.                                                                *)

NoGate ==
    /\ frozen = Unused /\ dirs = Unused /\ attempt = Unused
    /\ receipt = Unused /\ proof = Unused /\ view = Unused /\ stopped = Unused
    /\ sums = Unused /\ tampered = Unused /\ dayOver = Unused /\ pins = Unused
    /\ cleanupPins = Unused /\ meddled = Unused /\ observed = Unused
    /\ absorbed = Unused
NoSlot ==
    /\ file = Unused /\ progress = Unused /\ sealed = Unused
    /\ registration = Unused /\ marker = Unused /\ open = Unused
    /\ drifted = Unused /\ written = Unused /\ cut = Unused
    /\ crashed = Unused
NoCollector ==
    /\ NoGate /\ NoSlot
    /\ held = Unused /\ live = Unused /\ me = Unused /\ sent = Unused
    /\ begun = Unused
NoPlan ==
    /\ plan = Unused /\ edits = Unused /\ verdict = Unused /\ todo = Unused
    /\ rows = Unused
NoProvider ==
    /\ listing = Unused /\ complete = Unused /\ stage = Unused /\ run = Unused
    /\ pages = Unused /\ events = Unused /\ active = Unused /\ peak = Unused
NoRecorder ==
    /\ clock = Unused /\ spans = Unused /\ main = Unused /\ aside = Unused
    /\ base = Unused /\ wall = Unused /\ history = Unused

NoInput == NoPlan /\ NoProvider /\ NoRecorder

MCInit ==
    /\ who \in Parts
    /\ ExecuteInit
    /\ \/ who \in {"command", "plain"} /\ NoCollector /\ NoInput
       \/ who = "gate" /\ Gate!Init /\ NoSlot /\ NoInput
       \/ who = "arm" /\ Arm!Init /\ NoSlot /\ NoInput
       \/ who = "pair" /\ Pair!Init /\ NoSlot /\ NoInput
       \/ who = "quiet" /\ Quiet!Init /\ NoSlot /\ NoInput
       \/ who = "slot" /\ Slot!Init /\ NoGate /\ NoInput
       \/ who = "lost" /\ Lost!Init /\ NoGate /\ NoInput
       \/ who = "edited" /\ Edited!Init /\ NoCollector /\ NoProvider /\ NoRecorder
       \/ who = "registered" /\ Registered!Init /\ NoCollector /\ NoProvider /\ NoRecorder
       \/ who = "provider" /\ Provider!Init /\ NoCollector /\ NoPlan /\ NoRecorder
       \/ who = "timing" /\ Timing!Init /\ NoCollector /\ NoPlan /\ NoProvider

CommandNext ==
    /\ \/ who = "command" /\ ExecuteNext
       \/ who = "plain" /\ Plain!ExecuteNext
    /\ UNCHANGED <<who, shared, gate, slot, campaign, provider, recorder>>
GateNext ==
    /\ \/ who = "gate" /\ Gate!Next
       \/ who = "arm" /\ Arm!Next
       \/ who = "pair" /\ Pair!Next
       \/ who = "quiet" /\ Quiet!Next
    /\ UNCHANGED <<who, executeVars, slot, campaign, provider, recorder>>
SlotNext ==
    /\ \/ who = "slot" /\ Slot!Next
       \/ who = "lost" /\ Lost!Next
    /\ UNCHANGED <<who, executeVars, gate, campaign, provider, recorder>>
PlanNext ==
    /\ \/ who = "edited" /\ Edited!Next
       \/ who = "registered" /\ Registered!Next
    /\ UNCHANGED <<who, executeVars, shared, gate, slot, provider, recorder>>
ProviderNext ==
    /\ who = "provider" /\ Provider!Next
    /\ UNCHANGED <<who, executeVars, shared, gate, slot, campaign, recorder>>
TimingNext ==
    /\ who = "timing" /\ Timing!Next
    /\ UNCHANGED <<who, executeVars, shared, gate, slot, campaign, provider>>

MCNext ==
    CommandNext \/ GateNext \/ SlotNext \/ PlanNext \/ ProviderNext \/ TimingNext

all == <<who, executeVars, shared, gate, slot, campaign, provider, recorder>>

MCSpec == MCInit /\ [][MCNext]_all

-----------------------------------------------------------------------------
(* Properties.                                                             *)

\* Before a campaign: an accepted plan can be collected as registered and its arm
\* orders are balanced (plan.py, common.py); accepted provider evidence holds every
\* job of the attempt once, with the true peak, although jobs appeared while its
\* pages were read (ci.py).
InputsAreSound ==
    /\ who = "edited" => Edited!TypeOK /\ Edited!PlanIsSound
    /\ who = "registered" => Registered!PlanIsSound
    /\ who = "provider" => Provider!TypeOK /\ Provider!EvidenceIsSound

\* Both reducers accept what two goroutines record, and their sums are the time that
\* was spent (timing.go, pilot.py, analyze.py).
TimesReconcile == who = "timing" => Timing!TypeOK /\ Timing!TimesAddUp

\* What is sealed is true, whatever was rewritten, interrupted or killed: views agree
\* with receipts, complete arms were earned and damage that was seen is never sealed
\* (collector.py, storage.py); the result of a command is the one on disk
\* (execution.py); a complete campaign of slots holds what was collected (tool.py).
BundlesAreHonest ==
    /\ who = "gate" => Gate!TypeOK /\ Gate!EvidenceIsHonest
    /\ who = "arm" => Arm!TypeOK /\ Arm!EvidenceIsHonest
    /\ who = "pair" => Pair!TypeOK /\ Pair!EvidenceIsHonest
    /\ who = "plain" => Plain!ResultIsRetained
    /\ who = "slot" => Slot!TypeOK /\ Slot!CompleteIsAuthentic
    /\ who = "lost" => Lost!TypeOK /\ Lost!CompleteIsAuthentic

\* No hook, and no later collection of an accepted bundle, meets an allocation or a
\* process of an earlier arm or slot (collector.py, tool.py).
AllocationsSafe ==
    /\ who = "gate" => Gate!AllocationsAreSafe
    /\ who = "arm" => Arm!AllocationsAreSafe
    /\ who = "pair" => Pair!AllocationsAreSafe
    /\ who = "slot" => Slot!AllocationsAreSafe
    /\ who = "lost" => Lost!AllocationsAreSafe

\* No block and no slot is attempted twice, whatever ended the first attempt, and
\* slots are consumed under one registration (collector.py, tool.py).
AttemptedOnce ==
    /\ who = "gate" => Gate!OneAttempt
    /\ who = "arm" => Arm!OneAttempt
    /\ who = "pair" => Pair!OneAttempt
    /\ who = "slot" => Slot!OneAttempt /\ Slot!OneRegistration
    /\ who = "lost" => Lost!OneAttempt /\ Lost!OneRegistration

\* Behind a stop no block is consumed, no hook prepared and no allocation touched, by
\* this collection or by any later one (collector.py, tool.py).
StopsAreFinal ==
    [][/\ who = "gate" => Gate!NothingBehindStop
       /\ who = "pair" => Pair!NothingBehindStop
       /\ who = "slot" => Slot!NothingBehindStop
       /\ who = "lost" => Lost!NothingBehindStop]_all

\* What the gate harness says of its deferred signals: a collector's write cannot be
\* mistaken for a hook's (harness/README.md:262-264).  The code breaks this between
\* the end of a hook and the ownership of its receipt.
NoFalseAlarm == who = "quiet" => Quiet!NoFalseAlarm
=============================================================================
