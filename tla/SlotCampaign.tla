---------------------------- MODULE SlotCampaign ----------------------------
(***************************************************************************)
(* The E5 collector (control-comparison/runner/tool.py and support.py):    *)
(* slots are consumed once, in their registered order, each between two    *)
(* sealed checkpoints: one that names it active and one that owns its seal.*)
(*                                                                         *)
(* campaign_lock admits one collector at a time.  It may be interrupted at *)
(* every position, MaxSignals times, or killed, and others may follow.     *)
(* CommandRun models one command; here a command has an outcome and says   *)
(* whether its process group is contained.                                 *)
(***************************************************************************)
EXTENDS Naturals, Sequences, FiniteSets

CONSTANTS
    NSlots,          \* slots 1 .. NSlots, in registered order
    Unsupported,     \* slots whose arm is registered as unsupported
    Warm,            \* slots of the warm-cache strata
    Measurement,     \* the phase: measurement or feasibility
    MaxSignals,      \* how many signals reach collectors
    Faults           \* of "crash", "drift", "rewrite", "remove", "lose",
                     \* "fail" and "escape"

CampaignAssumption ==
    /\ NSlots \in Nat \ {0}
    /\ Unsupported \subseteq 1 .. NSlots
    /\ Warm \subseteq 1 .. NSlots
    /\ Measurement \in BOOLEAN
    /\ MaxSignals \in Nat
    /\ Faults \subseteq {"crash", "drift", "rewrite", "remove", "lose",
                      "fail", "escape"}

Slots == 1 .. NSlots
None == 0

VARIABLES
    \* the bundle on disk
    file,            \* file[s]: slot.json of slot s, and what its seal covers
    progress,        \* progress/checkpoint.json
    sealed,          \* the seal of progress/ covers it
    registration,    \* registration.json
    marker,          \* stopped.json
    open,            \* open[s]: commands of s whose receipts deny containment
    \* the host
    held,            \* slots whose allocation may still exist
    live,            \* slots of which some process may still run
    drifted,         \* "no", "other" (a pin changed) or "cleanup" (its own, too)
    \* the collector
    me,              \* its locals
    signals,         \* signals sent so far
    \* history
    begun,           \* how often the allocation of each slot was touched
    written,         \* what the collector last sealed for each slot
    cut,             \* a signal was delivered while a slot was active
    crashed          \* some collector was killed

bundle == <<file, progress, sealed, registration, marker, open>>
host == <<held, live, drifted>>
history == <<begun, written, cut, crashed>>
vars == <<bundle, host, me, signals, history>>

Reasons == {"none", "interrupted", "unsafe"}
Registrations == {"none", "first", "second"}
Commands == {"prepare", "warmup", "warm-cleanup", "run", "observe"}

\* Contents of slot.json; an absent file, and one that somebody rewrote.
States == [proven: BOOLEAN, stop: Reasons, by: {"collector", "other"}]
Empty == [proven |-> FALSE, stop |-> "none", by |-> "other"]
Opened == [proven |-> TRUE, stop |-> "none", by |-> "collector"]
Rewritten(state) == [state EXCEPT !.by = "other"]

NoFile == [dir |-> FALSE, now |-> Empty, sums |-> Empty]

Positions == {"idle", "register", "registered", "head", "active", "sealActive", "create",
              "record", "begin", "step", "running", "except", "finally", "cleanup",
              "check", "write", "seal", "save", "sealSave", "mark", "end"}

Rest == [pc |-> "idle", slot |-> None, step |-> "prepare", consumed |-> <<>>,
         registering |-> "none", proven |-> TRUE, started |-> FALSE, raised |-> "none",
         stop |-> "none", pending |-> FALSE, rising |-> FALSE, again |-> FALSE]

\* Mappings of consumed slots to seals.
Maps == UNION {[S -> States]: S \in SUBSET Slots}

TypeOK ==
    /\ file \in [Slots -> [dir: BOOLEAN, now: States, sums: States]]
    /\ progress \in [slots: Maps, active: Slots \cup {None}, stopped: Reasons,
                     registration: Registrations, complete: BOOLEAN]
    /\ sealed \in BOOLEAN
    /\ registration \in Registrations
    /\ marker \in Reasons
    /\ open \in [Slots -> SUBSET (Commands \cup {"cleanup"})]
    /\ held \subseteq Slots /\ live \subseteq Slots
    /\ drifted \in {"no", "other", "cleanup"}
    /\ me \in [pc: Positions, slot: Slots \cup {None}, step: Commands, consumed: Maps,
               registering: Registrations, proven: BOOLEAN, started: BOOLEAN,
               raised: {"none", "error", "interrupt"}, stop: Reasons,
               pending: BOOLEAN, rising: BOOLEAN, again: BOOLEAN]
    /\ signals \in 0 .. MaxSignals
    /\ begun \in [Slots -> Nat]
    /\ written \in [Slots -> States]
    /\ cut \in BOOLEAN /\ crashed \in BOOLEAN

\* A frozen bundle: an empty, sealed checkpoint.
Init ==
    /\ file = [s \in Slots |-> NoFile]
    /\ progress = [slots |-> <<>>, active |-> None, stopped |-> "none",
                   registration |-> "none", complete |-> FALSE]
    /\ sealed = TRUE
    /\ registration = "none"
    /\ marker = "none"
    /\ open = [s \in Slots |-> {}]
    /\ held = {} /\ live = {}
    /\ drifted = "no"
    /\ me = Rest
    /\ signals = 0
    /\ begun = [s \in Slots |-> 0]
    /\ written = [s \in Slots |-> Empty]
    /\ cut = FALSE /\ crashed = FALSE

-----------------------------------------------------------------------------
(* Checks.                                                                 *)

Consumed == {s \in Slots: file[s].dir}
Verified(s) == file[s].sums = file[s].now

\* retained_registration
RegistrationKept == progress.registration \in {"none", registration}

\* Fault: a lost suffix of slots is not missed.
Retained_Suffix ==
    /\ Consumed = 1 .. Cardinality(Consumed)
    /\ Consumed \subseteq DOMAIN progress.slots
    /\ \A s \in Consumed: Verified(s) /\ progress.slots[s] = file[s].sums
    /\ sealed
    /\ RegistrationKept
    /\ progress.active = None

\* retained_progress
Retained ==
    /\ Consumed = 1 .. Cardinality(Consumed)
    /\ \A s \in Consumed: Verified(s)
    /\ sealed
    /\ RegistrationKept
    /\ Measurement /\ (Consumed # {} \/ progress.active # None) =>
          progress.registration # "none"
    /\ DOMAIN progress.slots = Consumed
    /\ \A s \in Consumed: progress.slots[s] = file[s].sums
    /\ progress.active = None
    /\ \A s \in Consumed:
          /\ s \in Unsupported \/ file[s].now.proven \/ file[s].now.stop # "none"
          /\ file[s].now.stop # "none" => s = Cardinality(Consumed)
    /\ progress.stopped = IF Consumed = {} THEN "none"
                          ELSE file[Cardinality(Consumed)].now.stop
    /\ progress.complete <=> Consumed = Slots /\ progress.stopped = "none"
    /\ marker \in {"none", progress.stopped}

\* check_boundary: the other slots are exactly the ones of the checkpoint.
Boundary ==
    LET others == Consumed \ {me.slot}
    IN  /\ sealed
        /\ RegistrationKept
        /\ (DOMAIN progress.slots) \ {me.slot} = others
        /\ \A s \in others: Verified(s) /\ file[s].sums = progress.slots[s]
        /\ progress.slots = me.consumed

LivePins == drifted = "no"
CleanupPins == drifted # "cleanup"

\* The commands of a slot, in their order.
Planned(s) ==
    CASE ~Measurement -> <<"run">>
      [] Measurement /\ s \in Warm ->
            <<"prepare", "warmup", "warm-cleanup", "run", "observe">>
      [] OTHER -> <<"prepare", "run", "observe">>

\* What is checked before a command; check_boundary also ends the slot.
Cleared(step) ==
    /\ step # "warm-cleanup" => Boundary
    /\ step # "prepare" => LivePins

-----------------------------------------------------------------------------
(* A collection up to its first slot.                                      *)

Open ==
    /\ me.pc = "idle"
    /\ Retained
    /\ progress.stopped = "none"
    /\ \E r \in {"first", "second"}:
          me' = [Rest EXCEPT !.pc = IF Measurement THEN "register" ELSE "head",
                             !.registering = r,
                             !.consumed = progress.slots]
    /\ UNCHANGED <<bundle, host, signals, history>>

\* registered: the registration of a campaign that began cannot change.  Signals
\* wait until its copy and the checkpoint agree.
Register ==
    /\ me.pc = "register"
    /\ IF /\ progress.registration # "none" \/ progress.slots = <<>>
          /\ registration \in {"none", me.registering}
       THEN /\ registration' = me.registering
            /\ me' = [me EXCEPT !.pc = "registered"]
       ELSE /\ me' = Rest
            /\ UNCHANGED registration
    /\ UNCHANGED <<file, progress, sealed, marker, open, host, signals, history>>

Registered ==
    /\ me.pc = "registered"
    /\ IF progress.registration = "none" /\ sealed
       THEN /\ progress' = [progress EXCEPT !.registration = me.registering]
            /\ sealed' = FALSE
            /\ me' = me
       ELSE /\ sealed' = TRUE
            /\ progress' = progress
            /\ me' = IF me.pending THEN Rest ELSE [me EXCEPT !.pc = "head"]
    /\ UNCHANGED <<file, registration, marker, open, host, signals, history>>

\* What the loop has before it: later slots without a directory.
Ahead == {s \in Slots \ Consumed: s > me.slot}

\* The loop takes the next of them, while the live pins match.  A feasibility
\* collection may be limited to fewer slots.
NextSlot ==
    /\ me.pc = "head"
    /\ \/ /\ Ahead # {} /\ LivePins
          /\ me' = [Rest EXCEPT !.pc = "active",
                                !.slot = CHOOSE s \in Ahead: \A t \in Ahead: s <= t,
                                !.consumed = me.consumed]
       \/ /\ Ahead = {} \/ ~LivePins \/ (~Measurement /\ me.slot # None)
          /\ me' = Rest
    /\ UNCHANGED <<bundle, host, signals, history>>

-----------------------------------------------------------------------------
(* Activation, with signals deferred.                                      *)

\* save_progress: an atomic replacement, then the seal.
Activate ==
    /\ me.pc = "active"
    /\ IF sealed THEN /\ progress' = [progress EXCEPT !.slots = me.consumed,
                                                      !.active = me.slot,
                                                      !.stopped = "none",
                                                      !.complete = FALSE]
                      /\ sealed' = FALSE
                      /\ me' = [me EXCEPT !.pc = "sealActive"]
                 ELSE me' = Rest /\ UNCHANGED <<progress, sealed>>
    /\ UNCHANGED <<file, registration, marker, open, host, signals, history>>

SealActive ==
    /\ me.pc = "sealActive"
    /\ sealed' = TRUE
    /\ me' = [me EXCEPT !.pc = "create"]
    /\ UNCHANGED <<file, progress, registration, marker, open, host, signals, history>>

\* created_child: the directory is published, or its staging failed.
Create ==
    /\ me.pc = "create"
    /\ \/ /\ file' = [file EXCEPT ![me.slot].dir = TRUE]
          /\ me' = [me EXCEPT !.pc = "record"]
       \/ /\ "fail" \in Faults
          /\ me' = Rest
          /\ UNCHANGED file
    /\ UNCHANGED <<progress, sealed, registration, marker, open, host, signals, history>>

Record ==
    /\ me.pc = "record"
    /\ file' = [file EXCEPT ![me.slot].now = Opened]
    /\ me' = [me EXCEPT !.pc = "begin"]
    /\ UNCHANGED <<progress, sealed, registration, marker, open, host, signals, history>>

\* activation.close, inside the recovery handler.
Begin ==
    /\ me.pc = "begin"
    /\ IF me.pending
       THEN /\ me' = [me EXCEPT !.pc = "except", !.raised = "interrupt", !.pending = FALSE]
            /\ cut' = TRUE
       ELSE /\ cut' = cut
            /\ me' = IF me.slot \in Unsupported
                     THEN [me EXCEPT !.pc = "finally"]
                     ELSE [me EXCEPT !.pc = "step", !.started = TRUE, !.proven = FALSE,
                                     !.step = Planned(me.slot)[1]]
    /\ begun' = [begun EXCEPT ![me.slot] =
                    @ + IF me.pending \/ me.slot \in Unsupported THEN 0 ELSE 1]
    /\ UNCHANGED <<bundle, host, signals, written, crashed>>

-----------------------------------------------------------------------------
(* The commands of a slot.                                                 *)

Fails(state) == [state EXCEPT !.pc = "except", !.raised = "error"]

\* A command starts behind the boundary and the live pins; its receipt denies
\* containment until the group is gone.
StartStep ==
    /\ me.pc = "step"
    /\ IF Cleared(me.step)
       THEN /\ me' = [me EXCEPT !.pc = "running"]
            /\ open' = [open EXCEPT ![me.slot] = @ \cup {me.step}]
            /\ held' = held \cup {me.slot}
            /\ live' = live \cup {me.slot}
       ELSE me' = Fails(me) /\ UNCHANGED <<open, held, live>>
    /\ UNCHANGED <<file, progress, sealed, registration, marker, drifted, signals, history>>

\* The group of a command ends, or escapes.
Contain(command) ==
    \/ /\ open' = [open EXCEPT ![me.slot] = @ \ {command}]
       /\ live' = IF open[me.slot] \ {command} = {} THEN live \ {me.slot} ELSE live
    \/ "escape" \in Faults /\ UNCHANGED <<open, live>>

Escaped(command) == command \in open'[me.slot]

\* The command after a step, or the boundary behind the last one.
Proceed(step) ==
    LET plan == Planned(me.slot)
        at == CHOOSE i \in DOMAIN plan: plan[i] = step
    IN  CASE at < Len(plan) -> [me EXCEPT !.pc = "step", !.step = plan[at + 1]]
          [] at = Len(plan) /\ Boundary -> [me EXCEPT !.pc = "finally"]
          [] OTHER -> Fails(me)

\* A hook or a warm-up must succeed, with its proof.
EndHook ==
    /\ me.pc = "running" /\ me.step # "run"
    /\ Contain(me.step)
    /\ \/ me' = Proceed(me.step) /\ ~Escaped(me.step)
       \/ me' = Fails(me) /\ (Escaped(me.step) \/ "fail" \in Faults)
    /\ UNCHANGED <<file, progress, sealed, registration, marker, held, drifted,
                   signals, history>>

\* The measured command may fail: its evidence says whether it removed what it
\* allocated, which in a feasibility campaign is all there is to remove.
EndRun ==
    /\ me.pc = "running" /\ me.step = "run"
    /\ Contain("run")
    /\ \/ /\ Escaped("run")
          /\ me' = Fails(me)
          /\ held' = held
       \/ /\ ~Escaped("run")
          /\ \/ /\ me' = [Proceed("run") EXCEPT !.proven = TRUE]
                /\ held' = IF Measurement THEN held ELSE held \ {me.slot}
             \/ "fail" \in Faults /\ me' = Proceed("run") /\ held' = held
    /\ UNCHANGED <<file, progress, sealed, registration, marker, drifted, signals, history>>

-----------------------------------------------------------------------------
(* Recovery: the exception handler, then cleanup and checkpoint with       *)
(* signals deferred.                                                       *)

Except ==
    /\ me.pc = "except"
    /\ me' = [me EXCEPT !.pc = "finally",
                        !.stop = IF me.raised = "interrupt" THEN "interrupted" ELSE @]
    /\ UNCHANGED <<bundle, host, signals, history>>

Finally ==
    /\ me.pc = "finally"
    /\ me' = [me EXCEPT !.pc = IF Measurement /\ me.started THEN "cleanup" ELSE "check"]
    /\ UNCHANGED <<bundle, host, signals, history>>

\* Fault: a cleanup that fails keeps what the run proved of itself.
Cleanup_KeepsProof ==
    /\ me.pc = "cleanup"
    /\ \/ /\ CleanupPins
          /\ open' = open
          /\ me' = [me EXCEPT !.pc = "check", !.proven = TRUE]
          /\ held' = held \ {me.slot}
       \/ /\ ~CleanupPins \/ "fail" \in Faults
          /\ me' = [me EXCEPT !.pc = "check"]
          /\ UNCHANGED <<open, held>>
    /\ UNCHANGED <<file, progress, sealed, registration, marker, live, drifted,
                   signals, history>>

\* The cleanup hook, while its own pins match: only its proof counts.
Cleanup ==
    /\ me.pc = "cleanup"
    /\ \/ /\ CleanupPins
          /\ me' = [me EXCEPT !.pc = "check", !.proven = TRUE]
          /\ held' = held \ {me.slot}
          /\ UNCHANGED <<open, live>>
       \/ /\ ~CleanupPins \/ "fail" \in Faults
          /\ me' = [me EXCEPT !.pc = "check", !.proven = FALSE]
          /\ UNCHANGED <<open, held, live>>
       \/ /\ CleanupPins /\ "escape" \in Faults
          /\ me' = [me EXCEPT !.pc = "check", !.proven = FALSE]
          /\ open' = [open EXCEPT ![me.slot] = @ \cup {"cleanup"}]
          /\ live' = live \cup {me.slot}
          /\ held' = held
    /\ UNCHANGED <<file, progress, sealed, registration, marker, drifted, signals, history>>

\* Why the campaign must stop after this slot.
Check ==
    /\ me.pc = "check"
    /\ me' = [me EXCEPT !.pc = "write",
                !.stop = CASE open[me.slot] # {} \/ ~LivePins \/ ~Boundary -> "unsafe"
                           [] ~me.proven /\ me.stop = "none" -> "unsafe"
                           [] OTHER -> @]
    /\ UNCHANGED <<bundle, host, signals, history>>

Write ==
    /\ me.pc = "write"
    /\ file' = [file EXCEPT ![me.slot].now =
                   [proven |-> me.proven, stop |-> me.stop, by |-> "collector"]]
    /\ me' = [me EXCEPT !.pc = "seal"]
    /\ UNCHANGED <<progress, sealed, registration, marker, open, host, signals, history>>

Seal ==
    /\ me.pc = "seal"
    /\ LET state == file[me.slot].now
       IN  /\ file' = [file EXCEPT ![me.slot].sums = state]
           /\ written' = [written EXCEPT ![me.slot] = state]
           /\ me' = [me EXCEPT !.pc = "save",
                               !.consumed = [s \in DOMAIN @ \cup {me.slot} |->
                                                IF s = me.slot THEN state ELSE @[s]]]
    /\ UNCHANGED <<progress, sealed, registration, marker, open, host, signals,
                   begun, cut, crashed>>

Save ==
    /\ me.pc = "save"
    /\ IF sealed
       THEN /\ progress' = [progress EXCEPT
                              !.slots = me.consumed, !.active = None, !.stopped = me.stop,
                              !.complete = me.slot = NSlots /\ me.stop = "none"]
            /\ sealed' = FALSE
            /\ me' = [me EXCEPT !.pc = "sealSave"]
       ELSE me' = Rest /\ UNCHANGED <<progress, sealed>>
    /\ UNCHANGED <<file, registration, marker, open, host, signals, history>>

SealSave ==
    /\ me.pc = "sealSave"
    /\ sealed' = TRUE
    /\ me' = [me EXCEPT !.pc = IF me.stop = "none" THEN "end" ELSE "mark"]
    /\ UNCHANGED <<file, progress, registration, marker, open, host, signals, history>>

Mark ==
    /\ me.pc = "mark"
    /\ marker' = me.stop
    /\ me' = [me EXCEPT !.pc = "end"]
    /\ UNCHANGED <<file, progress, sealed, registration, open, host, signals, history>>

\* Fault: the loop goes on behind a slot that stopped the campaign.
End_Continues ==
    /\ me.pc = "end"
    /\ me' = CASE me.pending /\ ~me.again ->
                     [me EXCEPT !.pc = "check", !.stop = "interrupted",
                                !.pending = FALSE, !.again = TRUE]
               [] ~me.pending /\ ~me.rising -> [me EXCEPT !.pc = "head"]
               [] OTHER -> Rest
    /\ cut' = (cut \/ me.pending)
    /\ UNCHANGED <<bundle, host, signals, begun, written, crashed>>

\* A deferred signal seals the interruption in a second checkpoint; one that was
\* deferred there, or rose from the handler, ends the collection.
End ==
    /\ me.pc = "end"
    /\ me' = CASE me.pending /\ ~me.again ->
                     [me EXCEPT !.pc = "check", !.stop = "interrupted",
                                !.pending = FALSE, !.again = TRUE]
               [] ~me.pending /\ ~me.rising /\ me.stop = "none" -> [me EXCEPT !.pc = "head"]
               [] OTHER -> Rest
    /\ cut' = (cut \/ me.pending)
    /\ UNCHANGED <<bundle, host, signals, begun, written, crashed>>

-----------------------------------------------------------------------------
(* The environment.                                                        *)

Deferring == {"registered", "active", "sealActive", "create", "record", "begin", "cleanup",
              "check", "write", "seal", "save", "sealSave", "mark"}

\* A signal waits for the end of a deferral, or is an exception.  In a command it
\* terminates the group; in the handler, and between two deferrals, it skips the
\* rest of that code.
Signal ==
    /\ signals < MaxSignals
    /\ signals' = signals + 1
    /\ \/ /\ me.pc \in Deferring
          /\ me' = [me EXCEPT !.pending = TRUE]
          /\ UNCHANGED <<open, live>>
       \/ /\ me.pc \in {"register", "head"}
          /\ me' = Rest
          /\ UNCHANGED <<open, live>>
       \/ /\ me.pc = "step"
          /\ me' = [me EXCEPT !.pc = "except", !.raised = "interrupt"]
          /\ UNCHANGED <<open, live>>
       \/ /\ me.pc = "running"
          /\ Contain(me.step)
          /\ me' = [me EXCEPT !.pc = "except", !.raised = "interrupt"]
       \/ /\ me.pc = "except"
          /\ me' = [me EXCEPT !.pc = "finally", !.rising = TRUE]
          /\ UNCHANGED <<open, live>>
       \/ /\ me.pc = "finally"
          /\ me' = Rest
          /\ UNCHANGED <<open, live>>
       \/ /\ me.pc = "end"
          /\ me' \in {Rest, [me EXCEPT !.pending = TRUE]}
          /\ UNCHANGED <<open, live>>
    /\ cut' = (cut \/ me.pc \in {"step", "running", "except", "finally", "end"})
    /\ UNCHANGED <<file, progress, sealed, registration, marker, held, drifted,
                   begun, written, crashed>>

Crash ==
    /\ "crash" \in Faults
    /\ me.pc # "idle"
    /\ me' = Rest
    /\ crashed' = TRUE
    /\ UNCHANGED <<bundle, host, signals, begun, written, cut>>

PinsDrift ==
    /\ "drift" \in Faults
    /\ drifted = "no"
    /\ drifted' \in {"other", "cleanup"}
    /\ UNCHANGED <<bundle, held, live, me, signals, history>>

\* Somebody rewrites a sealed slot and seals it again, or removes it: at any time,
\* or while no collector runs.
Rewrite ==
    /\ \E s \in Consumed \ {me.slot}:
          \/ /\ "rewrite" \in Faults
             /\ file[s].now.by = "collector" /\ Verified(s)
             /\ file' = [file EXCEPT ![s].now = Rewritten(@), ![s].sums = Rewritten(@)]
          \/ /\ "remove" \in Faults \/ ("lose" \in Faults /\ me.pc = "idle")
             /\ file' = [file EXCEPT ![s] = NoFile]
    /\ UNCHANGED <<progress, sealed, registration, marker, open, host, me, signals, history>>

Collector ==
    \/ Register \/ Registered \/ NextSlot \/ Activate \/ SealActive \/ Create \/ Record
    \/ Begin \/ StartStep \/ EndHook \/ EndRun \/ Except \/ Finally \/ Cleanup \/ Check
    \/ Write \/ Seal \/ Save \/ SealSave \/ Mark \/ End

Next == Open \/ Collector \/ Signal \/ Crash \/ PinsDrift \/ Rewrite

\* Every command has a deadline and every file operation returns.
Spec == Init /\ [][Next]_vars /\ WF_vars(Collector)
-----------------------------------------------------------------------------
(* Properties.                                                             *)

\* A bundle that a collector accepts and may continue holds no allocation and no
\* process of an earlier slot, whatever failed, was killed or was interrupted.
AcceptedIsSafe ==
    me.pc = "idle" /\ Retained /\ progress.stopped = "none" => held \cup live = {}

\* A command runs only while nothing is left of the slots before it.
QuarantineHolds == me.pc = "running" => held \cup live \subseteq {me.slot}

\* No command and no later collection meets what an earlier slot left behind.
AllocationsAreSafe == AcceptedIsSafe /\ QuarantineHolds

\* No slot gets a second attempt, whatever ended the first.
OneAttempt == \A s \in Slots: begun[s] <= 1

\* A complete campaign that is accepted holds, for every slot, what the collector
\* sealed there.
CompleteIsAuthentic ==
    me.pc = "idle" /\ Retained /\ progress.complete =>
        \A s \in Slots: file[s].now = written[s]

\* Slots are consumed under one registration, in the file and in the checkpoint.
OneRegistration ==
    Measurement /\ Consumed # {} =>
        progress.registration = registration /\ registration # "none"

\* Once a slot was sealed with a stop, no further allocation is touched.
NothingBehindStop == (\E s \in Slots: written[s].stop # "none") => begun' = begun
StopIsFinal == [][NothingBehindStop]_vars

\* The documentation says that a signal during a slot seals a stop.  The code
\* breaks this between its two deferrals and in its exception handler.
InterruptionIsSealed ==
    me.pc = "idle" /\ cut /\ ~crashed => sealed /\ progress.stopped # "none"
=============================================================================
