---------------------------- MODULE GateCampaign ----------------------------
(***************************************************************************)
(* The campaign collector (harness/collector.py, storage.py, evidence.py): *)
(* a frozen campaign, blocks of two arms, five hooks per arm, and a bundle *)
(* on disk that is sealed by a checksum inventory.                         *)
(*                                                                         *)
(* Collections of one campaign exclude each other by campaign_lock, so one *)
(* collector is in the model at a time; it may be interrupted by signals,  *)
(* and killed, at any position, and another collection may follow.  Hooks  *)
(* and what they leave behind may rewrite protected evidence.  CommandRun  *)
(* models one hook; here a hook ends with an outcome and says whether its  *)
(* process group was contained.                                            *)
(***************************************************************************)
EXTENDS Naturals, FiniteSets

CONSTANTS
    Blocks,          \* the registered blocks, all of one date
    Prior,           \* Prior[b]: the blocks of b's workload assigned before b
    MaxSignals,      \* how many signals reach collectors
    Mishaps,         \* what may go wrong with each hook: it may "fail"; its
                     \* processes may "escape" their termination; a run may end
                     \* with a "wrong" exit; evidence or a proof may be "bad"
    Faults           \* which of "rewrite", "drift" and "crash" may happen

CampaignAssumption ==
    /\ Prior \in [Blocks -> SUBSET Blocks]
    /\ MaxSignals \in Nat
    /\ Mishaps \in [{"prepare", "run", "observe", "check", "cleanup"} ->
                      SUBSET {"fail", "escape", "wrong", "bad"}]
    /\ Faults \subseteq {"rewrite", "drift", "crash"}

Slots == Blocks \X (1 .. 2)
Steps == {"prepare", "run", "observe", "check", "cleanup"}

VARIABLES
    \* the bundle on disk
    frozen,          \* "none", "partial" or "frozen"
    dirs,            \* blocks whose directory exists
    attempt,         \* attempt.json of each arm
    receipt,         \* the command receipts of each arm
    proof,           \* what cleanup.json of each arm proves
    view,            \* trial.json of each arm
    stopped,         \* stopped.json: "none" or its reason
    sums,            \* SHA256SUMS lists what the collector wrote
    tampered,        \* protected evidence differs from what was retained
    \* the host
    dayOver,         \* the registered date has ended
    pins,            \* all live pins match
    cleanupPins,     \* the pins of the cleanup hook match
    held,            \* allocations of an arm that may still exist
    live,            \* processes of an earlier hook may still run
    \* the collector
    me,              \* its locals
    signals,         \* signals sent so far
    \* history
    begun,           \* how often the prepare hook of each arm was started
    meddled,         \* a hook has rewritten evidence or broken its receipt
    observed,        \* a violation of protected evidence was observed
    absorbed         \* a seal covers evidence that was rewritten

disk == <<frozen, dirs, attempt, receipt, proof, view, stopped, sums, tampered>>
host == <<dayOver, pins, cleanupPins, held, live>>
history == <<begun, meddled, observed, absorbed>>
vars == <<disk, host, me, signals, history>>

-----------------------------------------------------------------------------
(* Values.                                                                 *)

NoAttempt == [state |-> "none", reason |-> "", valid |-> FALSE, obs |-> FALSE]
NoReceipt == [out |-> "none", contained |-> TRUE, inDay |-> TRUE]
Outcomes == {"none", "running", "ok", "wrong", "fail", "cut"}
Classes == {"not_started", "operational_failure", "quality_failure", "complete"}

Attempts == [state: {"none", "entered", "finished"}, valid: BOOLEAN, obs: BOOLEAN,
             reason: {"", "expired", "unproven", "failed", "interrupted"}]
Receipts == [out: Outcomes, contained: BOOLEAN, inDay: BOOLEAN]

Idle == [pc |-> "idle", block |-> CHOOSE b \in Blocks: TRUE, arm |-> 1,
         step |-> "prepare", safe |-> TRUE, cut |-> FALSE, error |-> FALSE,
         contained |-> TRUE, loose |-> FALSE, pending |-> FALSE, rising |-> FALSE,
         match |-> TRUE, now |-> NoAttempt]

Positions == {"idle", "freeze", "admit", "enter", "step", "running", "after", "kept",
              "toCleanup", "cleanup", "finish", "skip", "view", "skipView",
              "finalize", "seal", "late"}

TypeOK ==
    /\ frozen \in {"none", "partial", "frozen"}
    /\ dirs \subseteq Blocks
    /\ attempt \in [Slots -> Attempts]
    /\ receipt \in [Slots -> [Steps -> Receipts]]
    /\ proof \in [Slots -> {"none", "good", "bad"}]
    /\ view \in [Slots -> Classes \cup {"none"}]
    /\ stopped \in {"none", "cleanup_unproven", "interrupted_collection"}
    /\ \A x \in {sums, tampered, dayOver, pins, cleanupPins, live,
                 meddled, observed, absorbed}: x \in BOOLEAN
    /\ held \in [Slots -> BOOLEAN]
    /\ me \in [pc: Positions, block: Blocks, arm: 1 .. 2, step: Steps, safe: BOOLEAN,
               cut: BOOLEAN, error: BOOLEAN, contained: BOOLEAN, loose: BOOLEAN,
               pending: BOOLEAN, rising: BOOLEAN, match: BOOLEAN, now: Attempts]
    /\ signals \in 0 .. MaxSignals
    /\ begun \in [Slots -> Nat]

slot == <<me.block, me.arm>>

\* Fault: a violation is forgotten when the bytes are restored.
Violated_Forgiven == tampered \/ me.loose

\* BundleGuard.check: an earlier violation, a changed or a foreign entry.  A
\* receipt the guard was not told about is taken for a foreign entry.
Violated == me.error \/ tampered \/ me.loose

-----------------------------------------------------------------------------
(* evidence.trial: one reduction of the raw receipts of an arm.            *)

Succeeded(r) == r.out = "ok"
NoCommands(s) == \A c \in Steps: receipt[s][c].out = "none"

Proven(s) ==
    /\ attempt[s].valid
    /\ \A c \in Steps: receipt[s][c].contained
    /\ Succeeded(receipt[s]["cleanup"])
    /\ proof[s] = "good"

LateCommand(s) == \E c \in {"prepare", "run"}: ~receipt[s][c].inDay

Measured(s) ==
    LET run == receipt[s]["run"].out
    IN  CASE run \in {"none", "running", "cut", "fail"} -> "operational_failure"
          [] run = "wrong" -> "quality_failure"
          [] OTHER -> IF /\ Succeeded(receipt[s]["observe"])
                         /\ Succeeded(receipt[s]["check"])
                         /\ attempt[s].state = "finished"
                      THEN "complete" ELSE "quality_failure"

Trial(s) ==
    CASE attempt[s].state = "none" -> "not_started"
      [] attempt[s].reason \in {"expired", "unproven"} /\ NoCommands(s) -> "not_started"
      [] ~Proven(s) \/ LateCommand(s) \/ attempt[s].obs -> "quality_failure"
      [] attempt[s].reason = "expired" /\ receipt[s]["run"].out = "none" -> "not_started"
      [] attempt[s].reason # "" \/ ~Succeeded(receipt[s]["prepare"]) ->
             "operational_failure"
      [] OTHER -> Measured(s)

-----------------------------------------------------------------------------
(* Freeze and admission.                                                   *)

Init ==
    /\ frozen = "none"
    /\ dirs = {}
    /\ attempt = [s \in Slots |-> NoAttempt]
    /\ receipt = [s \in Slots |-> [c \in Steps |-> NoReceipt]]
    /\ proof = [s \in Slots |-> "none"]
    /\ view = [s \in Slots |-> "none"]
    /\ stopped = "none"
    /\ sums = FALSE
    /\ tampered = FALSE
    /\ dayOver = FALSE
    /\ pins = TRUE
    /\ cleanupPins = TRUE
    /\ held = [s \in Slots |-> FALSE]
    /\ live = FALSE
    /\ me = Idle
    /\ signals = 0
    /\ begun = [s \in Slots |-> 0]
    /\ meddled = FALSE
    /\ observed = FALSE
    /\ absorbed = FALSE

\* Everything is validated before the directory is created; it is never reused.
Freeze ==
    /\ me.pc = "idle"
    /\ frozen = "none"
    /\ pins
    /\ frozen' = "partial"
    /\ me' = [me EXCEPT !.pc = "freeze"]
    /\ UNCHANGED <<dirs, attempt, receipt, proof, view, stopped, sums, tampered,
                   host, signals, history>>

FreezeSeals ==
    /\ me.pc = "freeze"
    /\ frozen' = "frozen"
    /\ sums' = TRUE
    /\ me' = Idle
    /\ UNCHANGED <<dirs, attempt, receipt, proof, view, stopped, tampered,
                   host, signals, history>>

\* The checks of collect_locked, then the directory that consumes the slot.
Admit(b) ==
    /\ me.pc = "idle"
    /\ sums /\ ~tampered
    /\ stopped = "none"
    /\ pins
    /\ \A e \in Prior[b]: \A i \in 1 .. 2: view[<<e, i>>] # "none"
    /\ ~dayOver
    /\ b \notin dirs
    /\ dirs' = dirs \cup {b}
    /\ sums' = FALSE
    /\ me' = [Idle EXCEPT !.pc = "admit", !.block = b]
    /\ UNCHANGED <<frozen, attempt, receipt, proof, view, stopped, tampered,
                   host, signals, history>>

\* The seal of the slot and the guard's first snapshot end the deferral.
AdmitSeals ==
    /\ me.pc = "admit"
    /\ sums' = TRUE
    /\ me' = [me EXCEPT !.pc = IF me.pending THEN "finalize" ELSE "enter",
                        !.cut = me.pending, !.pending = FALSE]
    /\ UNCHANGED <<frozen, dirs, attempt, receipt, proof, view, stopped, tampered,
                   host, signals, history>>

-----------------------------------------------------------------------------
(* One arm.                                                                *)

\* A violation leaves the collection; finalize comes next.
Abandon ==
    /\ me' = [me EXCEPT !.pc = "finalize", !.error = TRUE, !.cut = TRUE,
                        !.pending = FALSE]
    /\ observed' = TRUE

\* The arm directory is admitted and the attempt retained.
Enter ==
    /\ me.pc = "enter"
    /\ IF Violated
       THEN Abandon /\ UNCHANGED <<attempt, sums>>
       ELSE LET entered == [NoAttempt EXCEPT !.state = "entered"]
                refused == IF ~me.safe THEN "unproven" ELSE IF dayOver THEN "expired" ELSE ""
            IN  /\ attempt' = [attempt EXCEPT ![slot] = entered]
                /\ sums' = FALSE
                /\ me' = [me EXCEPT !.pc = IF refused = "" THEN "step" ELSE "skip",
                                    !.step = "prepare",
                                    !.safe = me.safe /\ refused # "",
                                    !.now = [entered EXCEPT !.reason = refused]]
                /\ UNCHANGED observed
    /\ UNCHANGED <<frozen, dirs, receipt, proof, view, stopped, tampered, host,
                   signals, begun, meddled, absorbed>>

\* Collection.command up to the hook: the guard, the live pins, the receipt.  What
\* prepare allocates may exist from its start.
StartStep ==
    /\ me.pc = "step"
    /\ IF Violated \/ ~pins
       THEN /\ me' = [me EXCEPT !.pc = "toCleanup", !.error = Violated,
                                !.now.reason = "failed"]
            /\ observed' = (observed \/ Violated)
            /\ UNCHANGED <<receipt, held, begun>>
       ELSE /\ receipt' = [receipt EXCEPT ![slot][me.step] =
                  [out |-> "running", contained |-> FALSE,
                   inDay |-> me.step \in {"prepare", "run"} => ~dayOver]]
            /\ held' = [held EXCEPT ![slot] = @ \/ me.step = "prepare"]
            /\ begun' = [begun EXCEPT ![slot] = @ + IF me.step = "prepare" THEN 1 ELSE 0]
            /\ me' = [me EXCEPT !.pc = "running"]
            /\ UNCHANGED observed
    /\ UNCHANGED <<frozen, dirs, attempt, proof, view, stopped, sums, tampered,
                   dayOver, pins, cleanupPins, live, signals, meddled, absorbed>>

\* The hook ends: by itself, or terminated at its deadline, which is a failure.
\* Only the product's own exit can be wrong rather than failed.
EndStep(out, contained) ==
    /\ me.pc = "running"
    /\ me.step # "cleanup"
    /\ out \in {"ok"} \cup (Mishaps[me.step] \cap {"fail", "wrong"})
    /\ contained \/ (out # "ok" /\ "escape" \in Mishaps[me.step])
    /\ receipt' = [receipt EXCEPT ![slot][me.step] = [@ EXCEPT !.out = out,
                                                              !.contained = contained]]
    /\ live' = (live \/ ~contained)
    /\ me' = [me EXCEPT !.pc = "after", !.loose = TRUE]
    /\ UNCHANGED <<frozen, dirs, attempt, proof, view, stopped, sums, tampered,
                   dayOver, pins, cleanupPins, held, signals, history>>

\* A hook broke its own receipt or output, or its payload cannot be sanitized.
BreakStep ==
    /\ "rewrite" \in Faults
    /\ me.pc = "running"
    /\ me.step # "cleanup"
    /\ me' = [me EXCEPT !.pc = "toCleanup", !.error = TRUE, !.loose = TRUE,
                        !.now.reason = "failed"]
    /\ \E contained \in {TRUE, "escape" \notin Mishaps[me.step]}:
          /\ receipt' = [receipt EXCEPT ![slot][me.step] =
                            [@ EXCEPT !.out = "fail", !.contained = contained]]
          /\ live' = (live \/ ~contained)
    /\ meddled' = TRUE
    /\ observed' = TRUE
    /\ UNCHANGED <<frozen, dirs, attempt, proof, view, stopped, sums, tampered,
                   dayOver, pins, cleanupPins, held, signals, begun, absorbed>>

\* The checks behind a hook, up to command_complete: the guard takes the receipt.
KeepStep ==
    /\ me.pc = "after"
    /\ IF me.error \/ tampered
       THEN /\ me' = [me EXCEPT !.pc = "toCleanup", !.error = TRUE, !.rising = FALSE,
                                !.now.reason = "failed"]
            /\ observed' = TRUE
       ELSE /\ me' = [me EXCEPT !.pc = "kept", !.loose = FALSE]
            /\ UNCHANGED observed
    /\ UNCHANGED <<disk, host, signals, begun, meddled, absorbed>>

\* Containment is noted, the boundary is checked once more and moved, and the
\* next hook follows, or none: after a failed prepare, an ended day, evidence that
\* is not valid, or the last hook.
NextStep(valid) ==
    /\ me.pc = "kept"
    /\ valid \/ (me.step = "observe" /\ "bad" \in Mishaps["observe"])
    /\ LET noted == [me EXCEPT !.contained = @ /\ receipt[slot][me.step].contained]
           goto(step) == [noted EXCEPT !.pc = "step", !.step = step]
           stop(reason) == [noted EXCEPT !.pc = "toCleanup", !.now.reason = reason]
       IN  IF tampered
           THEN me' = [stop("failed") EXCEPT !.error = TRUE, !.rising = FALSE]
           ELSE me' = CASE me.rising -> stop("interrupted")
                        [] me.step = "prepare" ->
                             IF ~Succeeded(receipt[slot]["prepare"]) THEN stop("")
                             ELSE IF dayOver THEN stop("expired") ELSE goto("run")
                        [] me.step = "run" -> goto("observe")
                        [] me.step = "observe" ->
                             IF valid THEN goto("check")
                             ELSE [stop("failed") EXCEPT !.now.obs = TRUE]
                        [] OTHER -> stop("")
    /\ observed' = (observed \/ tampered)
    /\ UNCHANGED <<disk, host, signals, begun, meddled, absorbed>>

\* cleanup: deferred from here to the end of finish.  Drift of the cleanup hook's
\* own pins means that it is not run; a violation does not.
BeginCleanup ==
    /\ me.pc = "toCleanup"
    /\ IF cleanupPins
       THEN /\ receipt' = [receipt EXCEPT ![slot]["cleanup"] =
                              [NoReceipt EXCEPT !.out = "running", !.contained = FALSE]]
            /\ me' = [me EXCEPT !.pc = "cleanup", !.step = "cleanup", !.match = pins,
                                !.error = Violated]
            /\ observed' = (observed \/ Violated)
       ELSE /\ me' = [me EXCEPT !.pc = "finish"]
            /\ UNCHANGED <<receipt, observed>>
    /\ UNCHANGED <<frozen, dirs, attempt, proof, view, stopped, sums, tampered, host,
                   signals, begun, meddled, absorbed>>

\* The trusted teardown hook: a proof it supplies is true.
EndCleanup(out, contained, proven) ==
    /\ me.pc = "cleanup"
    /\ out \in {"ok"} \cup (Mishaps["cleanup"] \cap {"fail"})
    /\ contained \/ (out # "ok" /\ "escape" \in Mishaps["cleanup"])
    /\ proven \/ "bad" \in Mishaps["cleanup"]
    /\ receipt' = [receipt EXCEPT ![slot]["cleanup"] = [@ EXCEPT !.out = out,
                                                                !.contained = contained]]
    /\ proof' = [proof EXCEPT ![slot] = IF proven THEN "good" ELSE "bad"]
    /\ held' = [held EXCEPT ![slot] = @ /\ ~proven]
    /\ live' = (live \/ ~contained)
    /\ LET bad == me.error \/ tampered
           sound == me.contained /\ contained
       IN  /\ me' = [me EXCEPT !.pc = "finish", !.error = bad, !.contained = sound,
                        !.now.valid = out = "ok" /\ proven /\ pins /\ me.match /\ sound /\ ~bad]
           /\ observed' = (observed \/ bad)
    /\ UNCHANGED <<frozen, dirs, attempt, view, stopped, sums, tampered, dayOver, pins,
                   cleanupPins, signals, begun, meddled, absorbed>>

\* finish: the attempt, then its cached reduction, each behind the guard.
FinishAttempt ==
    /\ me.pc \in {"finish", "skip"}
    /\ IF Violated /\ ~me.error
       THEN /\ Abandon
            /\ UNCHANGED attempt
       ELSE /\ attempt' = [attempt EXCEPT ![slot] = [me.now EXCEPT !.state = "finished"]]
            /\ me' = [me EXCEPT !.pc = IF me.pc = "skip" THEN "skipView" ELSE "view"]
            /\ UNCHANGED observed
    /\ UNCHANGED <<frozen, dirs, receipt, proof, view, stopped, sums, tampered, host,
                   signals, begun, meddled, absorbed>>

\* The next arm, or the end: an exception in flight, a deferred signal or a
\* violation leaves the loop.
FinishView ==
    /\ me.pc \in {"view", "skipView"}
    /\ IF Violated /\ ~me.error
       THEN /\ Abandon
            /\ UNCHANGED view
       ELSE LET leaves == me.rising \/ me.pending
                safe == IF me.pc = "skipView" THEN me.safe ELSE me.now.valid
            IN  /\ view' = [view EXCEPT ![slot] = Trial(slot)]
                /\ me' = IF leaves \/ me.arm = 2
                         THEN [me EXCEPT !.pc = "finalize", !.safe = safe, !.cut = leaves,
                                         !.pending = FALSE]
                         ELSE [me EXCEPT !.pc = "enter", !.arm = 2, !.safe = safe]
                /\ UNCHANGED observed
    /\ UNCHANGED <<frozen, dirs, attempt, receipt, proof, stopped, sums, tampered, host,
                   signals, begun, meddled, absorbed>>

-----------------------------------------------------------------------------
(* finalize.                                                               *)

StopReason == IF me.safe THEN "interrupted_collection" ELSE "cleanup_unproven"

\* stopped.json if the campaign must not go on; a violation leaves the bundle as
\* it is, unsealed.
Finalize ==
    /\ me.pc = "finalize"
    /\ LET found == ~me.error /\ Violated
           stops == (~me.safe \/ me.cut) /\ ~found
       IN  /\ stopped' = IF stops THEN StopReason ELSE stopped
           /\ sums' = (sums /\ ~stops)
           /\ me' = IF Violated THEN Idle ELSE [me EXCEPT !.pc = "seal"]
           /\ observed' = (observed \/ found)
    /\ UNCHANGED <<frozen, dirs, attempt, receipt, proof, view, tampered, host, signals,
                   begun, meddled, absorbed>>

\* The ledgers and SHA256SUMS.  What was rewritten since the last check becomes
\* part of the sealed bundle.
Seal ==
    /\ sums' = TRUE
    /\ tampered' = FALSE
    /\ absorbed' = (absorbed \/ tampered)

FinalSeal ==
    /\ me.pc = "seal"
    /\ Seal
    /\ me' = IF me.pending THEN [me EXCEPT !.pc = "late", !.pending = FALSE] ELSE Idle
    /\ UNCHANGED <<frozen, dirs, attempt, receipt, proof, view, stopped, host, signals,
                   begun, meddled, observed>>

\* A signal that came during finalize is recorded behind the seal.
LateStop ==
    /\ me.pc = "late"
    /\ IF me.error
       THEN UNCHANGED <<stopped, sums, tampered, absorbed>>
       ELSE stopped' = StopReason /\ Seal
    /\ me' = Idle
    /\ UNCHANGED <<frozen, dirs, attempt, receipt, proof, view, host, signals,
                   begun, meddled, observed>>

-----------------------------------------------------------------------------
(* Signals, crashes and the host.                                          *)

Deferring == me.pc \in {"admit", "cleanup", "finish", "view", "seal"}

\* The signal is deferred, or raised where the collector is.  In a hook the group
\* is killed and its receipt finished; behind it, the rest of the bookkeeping is
\* skipped, so that the guard does not know the receipt or its containment.
Signal ==
    /\ signals < MaxSignals
    /\ me.pc # "idle"
    /\ signals' = signals + 1
    /\ \/ /\ Deferring
          /\ me' = [me EXCEPT !.pending = TRUE]
          /\ UNCHANGED <<receipt, live>>
       \/ /\ me.pc = "running"
          /\ me' = [me EXCEPT !.pc = "after", !.loose = TRUE, !.rising = TRUE,
                              !.now.reason = "interrupted"]
          /\ \E contained \in {TRUE, "escape" \notin Mishaps[me.step]}:
                /\ receipt' = [receipt EXCEPT ![slot][me.step] =
                                  [@ EXCEPT !.out = "cut", !.contained = contained]]
                /\ live' = (live \/ ~contained)
       \/ /\ me.pc \in {"step", "after", "kept"}
          /\ me' = [me EXCEPT !.pc = "toCleanup", !.rising = TRUE,
                              !.now.reason = "interrupted"]
          /\ UNCHANGED <<receipt, live>>
       \/ /\ me.pc \in {"toCleanup", "enter", "skip", "skipView"}
          /\ me' = [me EXCEPT !.pc = "finalize", !.cut = TRUE]
          /\ UNCHANGED <<receipt, live>>
       \/ /\ me.pc = "finalize"
          /\ me' = [me EXCEPT !.pc = "late", !.cut = TRUE]
          /\ UNCHANGED <<receipt, live>>
       \/ /\ me.pc \in {"freeze", "late"}
          /\ me' = Idle
          /\ UNCHANGED <<receipt, live>>
    /\ UNCHANGED <<frozen, dirs, attempt, proof, view, stopped, sums, tampered,
                   dayOver, pins, cleanupPins, held, history>>

\* SIGKILL or power loss.  The processes of a hook outlive the collector.
Crash ==
    /\ "crash" \in Faults
    /\ me.pc # "idle"
    /\ live' = (live \/ me.pc \in {"running", "cleanup"})
    /\ me' = Idle
    /\ UNCHANGED <<disk, dayOver, pins, cleanupPins, held, signals, history>>

DayEnds ==
    /\ ~dayOver
    /\ dayOver' = TRUE
    /\ UNCHANGED <<disk, pins, cleanupPins, held, live, me, signals, history>>

PinsDrift ==
    /\ "drift" \in Faults
    /\ pins
    /\ pins' = FALSE
    /\ cleanupPins' \in BOOLEAN
    /\ UNCHANGED <<disk, dayOver, held, live, me, signals, history>>

\* A hook, or what one left behind, rewrites protected evidence, and may restore it.
Meddle ==
    /\ "rewrite" \in Faults
    /\ live \/ me.pc \in {"running", "cleanup"}
    /\ tampered' = ~tampered
    /\ meddled' = TRUE
    /\ UNCHANGED <<frozen, dirs, attempt, receipt, proof, view, stopped, sums, host, me,
                   signals, begun, observed, absorbed>>

LeftoverDies ==
    /\ live
    /\ live' = FALSE
    /\ UNCHANGED <<disk, dayOver, pins, cleanupPins, held, me, signals, history>>

Arm ==
    \/ Enter \/ StartStep \/ KeepStep
    \/ \E out \in Outcomes \ {"none", "running", "cut"}, contained \in BOOLEAN:
          EndStep(out, contained)
    \/ BreakStep
    \/ \E valid \in BOOLEAN: NextStep(valid)
    \/ BeginCleanup
    \/ \E out \in Outcomes, contained, proven \in BOOLEAN: EndCleanup(out, contained, proven)
    \/ FinishAttempt \/ FinishView

Collector == FreezeSeals \/ AdmitSeals \/ Arm \/ Finalize \/ FinalSeal \/ LateStop

Host == DayEnds \/ PinsDrift \/ Meddle \/ LeftoverDies

Next ==
    \/ Freeze
    \/ \E b \in Blocks: Admit(b)
    \/ Collector
    \/ Signal
    \/ Crash
    \/ Host

\* Hooks end because execute gives them a deadline; all else is the collector's
\* own code.  Nobody has to start a collection.
Spec == Init /\ [][Next]_vars /\ WF_vars(Collector)
-----------------------------------------------------------------------------
(* Properties.                                                             *)

\* A prepare hook is started only on an allocation nobody uses: every arm that was
\* prepared before has been torn down with proof, and nothing it started runs.
FreshAllocation ==
    me.pc = "running" /\ me.step = "prepare" =>
        /\ \A s \in Slots \ {slot}: ~held[s]
        /\ ~live

\* A slot is attempted once, whatever is interrupted, killed or started again.
OneAttempt == \A s \in Slots: begun[s] <= 1

\* A complete observation in a sealed bundle was earned: every hook succeeded within
\* the registered day, in a contained group, on an allocation proven to be gone.
CompleteIsEarned ==
    \A s \in Slots: sums /\ view[s] = "complete" =>
        /\ \A c \in Steps: Succeeded(receipt[s][c]) /\ receipt[s][c].contained
        /\ receipt[s]["prepare"].inDay /\ receipt[s]["run"].inDay
        /\ ~held[s]

\* In a sealed bundle a cached view agrees with the raw receipts it reduces.
SealedViews == sums => \A s \in Slots: view[s] \in {"none", Trial(s)}

\* Once a violation was observed the bundle is never sealed again, even if the hook
\* restored the bytes, by this collection or by any later one.
DamagedNeverSealed == observed => ~sums

\* When a collection is over and the bundle sealed, whatever is still held, left
\* running or left out is covered by the stop.
QuarantineHolds ==
    sums /\ me.pc = "idle" =>
        \/ stopped # "none"
        \/ /\ \A s \in Slots: ~held[s]
           /\ ~live
           /\ ~absorbed
           /\ \A s \in Slots: NoCommands(s) \/ view[s] # "none"

\* A sealed bundle tells the truth: its views are what its receipts say, a complete
\* arm was earned, and no damage that was seen is under the seal.
EvidenceIsHonest == SealedViews /\ CompleteIsEarned /\ DamagedNeverSealed

\* No hook and no later collection meets an allocation that may still be in use.
AllocationsAreSafe == FreshAllocation /\ QuarantineHolds

\* A stopped campaign executes nothing: no slot is consumed, no hook prepared.
NothingBehindStop == stopped # "none" => UNCHANGED <<dirs, begun>>
StopIsFinal == [][NothingBehindStop]_vars

\* The documentation says that a collector's write cannot be mistaken for a hook's:
\* a violation is observed only where somebody did rewrite or break evidence.
NoFalseAlarm == observed => meddled
=============================================================================
