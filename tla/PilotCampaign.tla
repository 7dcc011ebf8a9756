--------------------------- MODULE PilotCampaign ----------------------------
(***************************************************************************)
(* local-pilot/pilot.py: paired trials of two builds of the gate, in a     *)
(* frozen order.  run_command launches one gate and swallows what goes     *)
(* wrong with it; collect decides after each trial and each pair whether   *)
(* the campaign stops; analyze reads the retained bundle again.            *)
(*                                                                         *)
(* A signal may arrive at any position.  The gate, and the containers and  *)
(* JVMs it leaves behind, are modelled as far as the collector sees them.  *)
(***************************************************************************)
EXTENDS Naturals, FiniteSets

CONSTANTS
    NBlocks,         \* blocks 1 .. NBlocks of the plan, in order
    FirstB,          \* blocks whose first arm is B
    Evidence,        \* contents the compared artifacts can have
    MaxSignals,      \* signals that reach the collector
    Orphans          \* a signal may cut Popen off after the fork

PilotAssumption ==
    /\ NBlocks \in Nat \ {0}
    /\ FirstB \subseteq 1 .. NBlocks
    /\ Evidence # {}
    /\ MaxSignals \in Nat
    /\ Orphans \in BOOLEAN

Blocks == 1 .. NBlocks
Arms == {"B", "Bplus"}
Leftovers == {"container", "jvm"}

VARIABLES
    me,              \* the collector: its position and locals
    trial,           \* trial[b][a]: what the bundle retains of a trial
    status,          \* status.json
    sums,            \* SHA256SUMS.json is there and covers the bundle
    gate,            \* the process of the current trial
    left,            \* what gates left running
    orphan,          \* a gate runs that no trial knows
    signals,
    hit              \* trials during whose command a signal arrived

vars == <<me, trial, status, sums, gate, left, orphan, signals, hit>>

Positions == {"idle", "trial", "spawn", "started", "wait", "grace", "kill", "swallow", "receipt", "settle",
              "cleanup", "inspect", "judge", "pair", "status", "except", "seal", "done"}
Stops == {"none", "cleanup", "interrupted", "problems", "mismatch", "error"}
Exits == {"none", "expected", "other"}

\* command.json, cleanup.json, and the evidence of the run; good: inspect_trial
\* finds the expected run, observation, schedule, artifacts and timings.
Trials == [there: BOOLEAN, exit: Exits, late: BOOLEAN, interrupted: BOOLEAN, error: BOOLEAN,
           checked: BOOLEAN, remains: SUBSET Leftovers, good: BOOLEAN, evidence: Evidence]

NoTrial == [there |-> FALSE, exit |-> "none", late |-> FALSE, interrupted |-> FALSE,
            error |-> FALSE, checked |-> FALSE, remains |-> {}, good |-> FALSE,
            evidence |-> CHOOSE e \in Evidence: TRUE]

TypeOK ==
    /\ me \in [pc: Positions, block: Blocks, arm: 1 .. 2, remains: SUBSET Leftovers, stopped: Stops]
    /\ trial \in [Blocks -> [Arms -> Trials]]
    /\ \A b \in Blocks: b > me.block => \A a \in Arms: trial[b][a] = NoTrial
    /\ status \in [stopped: Stops \cup {"absent"}, last: Blocks \cup {0}]
    /\ sums \in BOOLEAN
    /\ gate \in {"none", "running", "exited"}
    /\ left \subseteq Leftovers
    /\ orphan \in BOOLEAN
    /\ signals \in 0 .. MaxSignals
    /\ hit \subseteq Blocks \X Arms

Init ==
    /\ me = [pc |-> "idle", block |-> 1, arm |-> 1, remains |-> {}, stopped |-> "none"]
    /\ trial = [b \in Blocks |-> [a \in Arms |-> NoTrial]]
    /\ status = [stopped |-> "absent", last |-> 0]
    /\ sums = FALSE
    /\ gate = "none"
    /\ left = {}
    /\ orphan = FALSE
    /\ signals = 0
    /\ hit = {}

-----------------------------------------------------------------------------

\* The arm that block b runs i-th.
ArmOf(b, i) == IF (b \in FirstB) = (i = 1) THEN "B" ELSE "Bplus"
Arm == ArmOf(me.block, me.arm)
This == trial[me.block][Arm]

Goto(pc) == me' = [me EXCEPT !.pc = pc]
Keep(t) == trial' = [trial EXCEPT ![me.block][Arm] = t]

\* The plan is the registered one, and its pins hold; the bundle is created.
Admit ==
    /\ me.pc = "idle"
    /\ Goto("trial")
    /\ UNCHANGED <<trial, status, sums, gate, left, orphan, signals, hit>>

\* The pins are checked again, and what runs already is recorded.
StartTrial ==
    /\ me.pc = "trial"
    /\ \/ Goto("spawn")
       \/ Goto("except")                \* changed input
    /\ gate' = "none"
    /\ UNCHANGED <<trial, status, sums, left, orphan, signals, hit>>

Spawn ==
    /\ me.pc = "spawn"
    /\ \/ gate' = "running" /\ Goto("started")
       \/ gate' = gate /\ Goto("swallow")
    /\ Keep([This EXCEPT !.there = TRUE])
    /\ UNCHANGED <<status, sums, left, orphan, signals, hit>>

\* The receipt says that the gate was started.
Started ==
    /\ me.pc = "started"
    /\ Goto("wait")
    /\ UNCHANGED <<trial, status, sums, gate, left, orphan, signals, hit>>

\* The gate ends within its time, or is asked to stop.
Wait ==
    /\ me.pc = "wait"
    /\ \/ /\ gate = "exited"
          /\ Goto("receipt") /\ UNCHANGED trial
       \/ /\ Goto("grace") /\ Keep([This EXCEPT !.late = TRUE])
    /\ UNCHANGED <<status, sums, gate, left, orphan, signals, hit>>

\* SIGINT; the gate exits within the grace period, or is killed.
Grace ==
    /\ me.pc = "grace"
    /\ IF gate = "exited" THEN Goto("receipt") ELSE Goto("kill")
    /\ UNCHANGED <<trial, status, sums, gate, left, orphan, signals, hit>>

\* SIGKILL: what the gate had started may stay.
Killed ==
    IF gate = "running"
      THEN /\ gate' = "exited"
           /\ \E some \in SUBSET Leftovers: left' = left \cup some
           /\ Keep([This EXCEPT !.exit = "other"])
      ELSE UNCHANGED <<gate, left, trial>>

Kill ==
    /\ me.pc = "kill"
    /\ Killed
    /\ Goto("receipt")
    /\ UNCHANGED <<status, sums, orphan, signals, hit>>

\* Whatever else was raised: the group is killed, the receipt names the error.
Swallow ==
    /\ me.pc = "swallow"
    /\ IF gate = "running"
         THEN /\ gate' = "exited"
              /\ \E some \in SUBSET Leftovers: left' = left \cup some
              /\ Keep([This EXCEPT !.exit = "other", !.error = TRUE])
         ELSE /\ UNCHANGED <<gate, left>>
              /\ Keep([This EXCEPT !.error = TRUE])
    /\ Goto("receipt")
    /\ UNCHANGED <<status, sums, orphan, signals, hit>>

Receipt ==
    /\ me.pc = "receipt"
    /\ Goto("settle")
    /\ UNCHANGED <<trial, status, sums, gate, left, orphan, signals, hit>>

\* docker wait for new containers, each up to 30 s; then they are listed.
Settle ==
    /\ me.pc = "settle"
    /\ me' = [me EXCEPT !.pc = "cleanup", !.remains = left \cap {"container"}]
    /\ UNCHANGED <<trial, status, sums, gate, left, orphan, signals, hit>>

\* The JVMs are listed, and cleanup.json is written.
Cleanup ==
    /\ me.pc = "cleanup"
    /\ Keep([This EXCEPT !.checked = TRUE, !.remains = me.remains \cup (left \cap {"jvm"})])
    /\ Goto("inspect")
    /\ UNCHANGED <<status, sums, gate, left, orphan, signals, hit>>

\* What inspect_trial finds wrong with a retained trial.
Problem(t) ==
    \/ t.exit # "expected" \/ t.late \/ t.interrupted \/ t.error
    \/ ~t.good
    \/ t.remains # {}

\* Files that cannot be read end the campaign.
Inspect ==
    /\ me.pc = "inspect"
    /\ \/ Goto("judge")
       \/ Problem(This) /\ Goto("except")
    /\ UNCHANGED <<trial, status, sums, gate, left, orphan, signals, hit>>

\* Fault: only containers count as uncertain cleanup.
Judge_Containers ==
    /\ me.pc = "judge"
    /\ me' = IF "container" \in This.remains THEN [me EXCEPT !.pc = "pair", !.stopped = "cleanup"]
             ELSE IF This.interrupted THEN [me EXCEPT !.pc = "pair", !.stopped = "interrupted"]
             ELSE IF me.arm = 1 THEN [me EXCEPT !.pc = "trial", !.arm = 2]
             ELSE [me EXCEPT !.pc = "pair"]
    /\ UNCHANGED <<trial, status, sums, gate, left, orphan, signals, hit>>

\* After each arm: uncertain cleanup and an interruption skip the other arm.
Judge ==
    /\ me.pc = "judge"
    /\ me' = IF This.remains # {} THEN [me EXCEPT !.pc = "pair", !.stopped = "cleanup"]
             ELSE IF This.interrupted THEN [me EXCEPT !.pc = "pair", !.stopped = "interrupted"]
             ELSE IF me.arm = 1 THEN [me EXCEPT !.pc = "trial", !.arm = 2]
             ELSE [me EXCEPT !.pc = "pair"]
    /\ UNCHANGED <<trial, status, sums, gate, left, orphan, signals, hit>>

\* Both trials of block b are there: a problem, or evidence that differs, stops.
Paired(b, stopped) ==
    IF \E a \in Arms: Problem(trial[b][a]) THEN "problems"
    ELSE IF trial[b]["B"].evidence # trial[b]["Bplus"].evidence THEN "mismatch"
    ELSE stopped

Pair ==
    /\ me.pc = "pair"
    /\ me' = [me EXCEPT !.pc = "status",
                        !.stopped = IF me.arm = 2 THEN Paired(me.block, @) ELSE @]
    /\ UNCHANGED <<trial, status, sums, gate, left, orphan, signals, hit>>

\* status.json, and the next block unless the campaign stopped.
WriteStatus ==
    /\ me.pc = "status"
    /\ status' = [stopped |-> me.stopped, last |-> me.block]
    /\ me' = IF me.stopped = "none" /\ me.block < NBlocks
               THEN [me EXCEPT !.pc = "trial", !.block = @ + 1, !.arm = 1]
               ELSE [me EXCEPT !.pc = "seal"]
    /\ UNCHANGED <<trial, sums, gate, left, orphan, signals, hit>>

Except ==
    /\ me.pc = "except"
    /\ status' = [stopped |-> "error", last |-> 0]
    /\ Goto("seal")
    /\ UNCHANGED <<trial, sums, gate, left, orphan, signals, hit>>

Seal ==
    /\ me.pc = "seal"
    /\ sums' = TRUE
    /\ Goto("done")
    /\ UNCHANGED <<trial, status, gate, left, orphan, signals, hit>>

\* KeyboardInterrupt: only the first wait takes it for an interruption.
Signal ==
    /\ signals < MaxSignals
    /\ me.pc \notin {"idle", "done"}
    /\ signals' = signals + 1
    /\ hit' = IF me.pc \in {"spawn", "started", "wait", "grace", "kill", "swallow", "receipt"}
                THEN hit \cup {<<me.block, Arm>>} ELSE hit
    /\ \/ /\ me.pc = "wait"
          /\ Goto("grace") /\ Keep([This EXCEPT !.interrupted = TRUE])
       \/ /\ me.pc \in {"spawn", "started", "grace", "kill"}
          /\ Goto("swallow") /\ UNCHANGED trial
       \/ /\ me.pc \notin {"spawn", "started", "wait", "grace", "kill"}
          /\ Goto(CASE me.pc = "except" -> "seal" [] me.pc = "seal" -> "done" [] OTHER -> "except")
          /\ UNCHANGED trial
    /\ orphan' = (orphan \/ (Orphans /\ me.pc = "spawn"))
    /\ UNCHANGED <<status, sums, gate, left>>

-----------------------------------------------------------------------------

\* The gate exits by itself, after its own cleanup or without it.
GateExits ==
    /\ gate = "running"
    /\ gate' = "exited"
    /\ \E some \in SUBSET Leftovers, exit \in {"expected", "other"}, good \in BOOLEAN, e \in Evidence:
        /\ left' = left \cup some
        /\ Keep([This EXCEPT !.exit = exit, !.good = good, !.evidence = e])
    /\ UNCHANGED <<me, status, sums, orphan, signals, hit>>

LeftoverEnds ==
    /\ \E one \in left: left' = left \ {one}
    /\ UNCHANGED <<me, trial, status, sums, gate, orphan, signals, hit>>

OrphanEnds ==
    /\ orphan
    /\ orphan' = FALSE
    /\ UNCHANGED <<me, trial, status, sums, gate, left, signals, hit>>

Collector ==
    \/ Admit \/ StartTrial \/ Spawn \/ Started \/ Wait \/ Grace \/ Kill \/ Swallow \/ Receipt
    \/ Settle \/ Cleanup \/ Inspect \/ Judge \/ Pair \/ WriteStatus \/ Except \/ Seal

Next == Collector \/ Signal \/ GateExits \/ LeftoverEnds \/ OrphanEnds

\* Every wait of the collector has a timeout.
Spec == Init /\ [][Next]_vars /\ WF_vars(Collector)

-----------------------------------------------------------------------------

\* analyze: a pair counts when both trials were completed, clean and alike.
Matched(b) ==
    /\ \A a \in Arms: trial[b][a].there /\ trial[b][a].checked /\ ~Problem(trial[b][a])
    /\ trial[b]["B"].evidence = trial[b]["Bplus"].evidence

\* No gate starts on a host on which an earlier one left a container or a JVM:
\* uncertain cleanup stops the campaign before the other arm.
FreshHost == me.pc = "spawn" => left = {}

\* No gate starts while an earlier one still runs.
OneGate == me.pc = "spawn" => ~orphan /\ gate # "running"

\* The campaign goes on only past pairs that analyze will accept.
CleanSoFar ==
    me.pc \notin {"idle", "done"} => \A b \in 1 .. me.block - 1: Matched(b)

\* A sealed bundle whose status names the last block and no stop is whole: every pair is accepted,
\* and no signal reached any command, wherever it struck.
SealedIsWhole ==
    sums /\ status = [stopped |-> "none", last |-> NBlocks] => hit = {} /\ \A b \in Blocks: Matched(b)

\* What the pilot measures and seals is comparable: fresh hosts, accepted pairs, and
\* no signal that struck a command unnoticed.
PairsAreSound == FreshHost /\ CleanSoFar /\ SealedIsWhole

=============================================================================
