----------------------------- MODULE CommandRun -----------------------------
(***************************************************************************)
(* One call of execute (harness/execution.py): a hook is started in a      *)
(* process group of its own, watched until its budget ends, terminated     *)
(* with everything it left behind, and its receipt is kept on disk.        *)
(*                                                                         *)
(* SIGINT and SIGTERM become KeyboardInterrupt and may be delivered at any *)
(* position that defer_interrupts does not cover, again and again up to    *)
(* MaxSignals times.  The collector itself may be killed at any position.  *)
(***************************************************************************)
EXTENDS Naturals

CONSTANTS
    MaxSignals,      \* how many signals reach the collector
    Rewrites         \* whether hooks may rewrite the collector's receipt

ASSUME SignalsAssumption == MaxSignals \in Nat /\ Rewrites \in BOOLEAN

VARIABLES
    pc,              \* where execute is
    leader,          \* the group leader: "none", "running", "exited" or "reaped"
    rest,            \* whether other members of the group run
    memory,          \* the result, as execute holds it
    disk,            \* the receipt, as a reader of the bundle finds it
    own,             \* the receipts execute owns: the digests in checkpoints
    killing,         \* who called kill_group: "none", "wait", "grace" or
                     \* "handler"; "failed": an OSError is on its way
    signals,         \* signals delivered so far
    deferred,        \* a signal waits for the end of a deferral
    answer           \* "none", "result", "interrupt" or "tampered"

process == <<leader, rest>>
executeVars == <<pc, leader, rest, memory, disk, own, killing, signals, deferred, answer>>

Fresh == [started |-> FALSE, exit |-> FALSE, timeout |-> FALSE, error |-> FALSE,
          interrupted |-> FALSE, finished |-> FALSE, contained |-> TRUE]

\* What is on disk when it is not a receipt the collector wrote.
Absent == [Fresh EXCEPT !.exit = TRUE]
Foreign == [Fresh EXCEPT !.exit = TRUE, !.error = TRUE]

Flags == [started: BOOLEAN, exit: BOOLEAN, timeout: BOOLEAN, error: BOOLEAN,
          interrupted: BOOLEAN, finished: BOOLEAN, contained: BOOLEAN]

Positions == {"enter", "launch", "launched", "start", "waiting", "group", "term",
              "grace", "kill", "reap", "verify", "check", "write", "done", "crashed"}

ExecuteTypeOK ==
    /\ pc \in Positions
    /\ leader \in {"none", "running", "exited", "reaped"}
    /\ rest \in BOOLEAN
    /\ memory \in Flags
    /\ disk \in Flags
    /\ own \subseteq Flags
    /\ killing \in {"none", "wait", "grace", "handler", "failed"}
    /\ signals \in 0 .. MaxSignals
    /\ deferred \in BOOLEAN
    /\ answer \in {"none", "result", "interrupt", "tampered"}

ExecuteInit ==
    /\ pc = "enter"
    /\ leader = "none"
    /\ rest = FALSE
    /\ memory = Fresh
    /\ disk = Absent
    /\ own = {}
    /\ killing = "none"
    /\ signals = 0
    /\ deferred = FALSE
    /\ answer = "none"

\* group_running: zombies do not count.
GroupRunning == leader = "running" \/ rest

Gone == ~GroupRunning /\ leader \in {"none", "reaped"}

-----------------------------------------------------------------------------
(* The collector's steps.                                                  *)

\* The receipt is reserved before anything runs.
Reserve ==
    /\ pc = "enter"
    /\ disk' = memory
    /\ own' = {memory}
    /\ pc' = "launch"
    /\ UNCHANGED <<process, memory, killing, signals, deferred, answer>>

\* The process is created, and owned, under a deferral.
Launch ==
    /\ pc = "launch"
    /\ leader' = "running"
    /\ rest' \in BOOLEAN
    /\ memory' = [memory EXCEPT !.started = TRUE, !.contained = FALSE]
    /\ IF deferred THEN /\ pc' = "kill"
                        /\ killing' = "handler"
                        /\ deferred' = FALSE
                        /\ answer' = "interrupt"
                   ELSE pc' = "launched" /\ UNCHANGED <<killing, deferred, answer>>
    /\ UNCHANGED <<disk, own, signals>>

\* Popen fails: an OSError, unless the deferred signal takes its place.
LaunchFails ==
    /\ pc = "launch"
    /\ IF deferred THEN answer' = "interrupt" /\ killing' = killing
                   ELSE answer' = answer /\ killing' = "failed"
    /\ deferred' = FALSE
    /\ pc' = "verify"
    /\ UNCHANGED <<process, memory, disk, own, signals>>

\* The reserved receipt must still be the collector's own.  From here on the
\* bytes before and after the replacement are both owned.
CheckReserved ==
    /\ pc = "launched"
    /\ IF disk \in own
       THEN /\ own' = own \cup {memory}
            /\ pc' = "start"
            /\ UNCHANGED <<killing, answer>>
       ELSE /\ answer' = "tampered"
            /\ killing' = "handler"
            /\ pc' = "kill"
            /\ UNCHANGED own
    /\ UNCHANGED <<process, memory, disk, signals, deferred>>

WriteStarted ==
    /\ pc = "start"
    /\ disk' = memory
    /\ own' = {memory}
    /\ pc' = "waiting"
    /\ UNCHANGED <<process, memory, killing, signals, deferred, answer>>

\* process.wait returns.
LeaderReaped ==
    /\ pc = "waiting"
    /\ leader = "exited"
    /\ leader' = "reaped"
    /\ memory' = [memory EXCEPT !.exit = TRUE]
    /\ pc' = "group"
    /\ UNCHANGED <<rest, disk, own, killing, signals, deferred, answer>>

\* Fault: a leader that exited vouches for its descendants.
GroupChecked_LeaderOnly ==
    /\ pc = "group"
    /\ memory' = [memory EXCEPT !.contained = TRUE]
    /\ pc' = "verify"
    /\ UNCHANGED <<process, disk, own, killing, signals, deferred, answer>>

\* A leader that exited must not leave anybody behind.
GroupChecked ==
    /\ pc = "group"
    /\ IF GroupRunning THEN pc' = "kill" /\ killing' = "wait" /\ memory' = memory
                       ELSE /\ memory' = [memory EXCEPT !.contained = TRUE]
                            /\ pc' = "verify"
                            /\ killing' = killing
    /\ UNCHANGED <<process, disk, own, signals, deferred, answer>>

\* The budget is over: TERM, one grace, then KILL.
BudgetEnds ==
    /\ pc = "waiting"
    /\ memory' = [memory EXCEPT !.timeout = TRUE]
    /\ pc' = "term"
    /\ UNCHANGED <<process, disk, own, killing, signals, deferred, answer>>

Terminate ==
    /\ pc = "term"
    /\ pc' = "grace"
    /\ UNCHANGED <<process, memory, disk, own, killing, signals, deferred, answer>>

GraceEnds ==
    /\ pc = "grace"
    /\ leader' = IF leader = "exited" THEN "reaped" ELSE leader
    /\ memory' = [memory EXCEPT !.exit = leader = "exited",
                                !.contained = leader = "exited" /\ ~rest]
    /\ IF leader = "exited" /\ ~rest
       THEN pc' = "verify" /\ killing' = killing
       ELSE pc' = "kill" /\ killing' = "grace"
    /\ UNCHANGED <<rest, disk, own, signals, deferred, answer>>

\* kill_group sends KILL; the members die or are stuck in the kernel.
Kill ==
    /\ pc = "kill"
    /\ leader' \in IF leader = "running" THEN {"running", "exited"} ELSE {leader}
    /\ rest' \in {FALSE, rest}
    /\ pc' = "reap"
    /\ UNCHANGED <<memory, disk, own, killing, signals, deferred, answer>>

\* Fault: the wait for a killed group has no deadline.
KillEnds_Waits ==
    /\ pc = "reap"
    /\ leader # "running" /\ ~rest
    /\ leader' = IF leader = "exited" THEN "reaped" ELSE leader
    /\ memory' = [memory EXCEPT !.exit = TRUE, !.contained = TRUE,
                                !.error = @ \/ killing = "wait"]
    /\ pc' = "verify"
    /\ UNCHANGED <<rest, disk, own, killing, signals, deferred, answer>>

\* kill_group reaps the leader and waits for the group, up to its deadline.  In
\* the handler its failure takes the place of the exception being handled.
KillEnds ==
    /\ pc = "reap"
    /\ leader' = IF leader = "exited" THEN "reaped" ELSE leader
    /\ IF leader' # "running" /\ ~rest
       THEN /\ memory' = [memory EXCEPT !.exit = TRUE, !.contained = TRUE,
                                        !.error = @ \/ killing = "wait"]
            /\ UNCHANGED <<killing, answer>>
       ELSE /\ killing' = "failed"
            /\ answer' = "none"
            /\ UNCHANGED memory
    /\ pc' = "verify"
    /\ UNCHANGED <<rest, disk, own, signals, deferred>>

\* Both output paths must still name the files execute opened.  An OSError ends
\* here, in the result; other exceptions go on after the receipt was written.
Verify ==
    /\ pc = "verify"
    /\ \/ UNCHANGED answer
       \/ Rewrites /\ answer' = "tampered"
    /\ memory' = [memory EXCEPT !.finished = TRUE,
                                !.error = @ \/ (killing = "failed" /\ answer' = "none"),
                                !.interrupted = answer' # "none"]
    /\ pc' = "check"
    /\ UNCHANGED <<process, disk, own, killing, signals, deferred>>

CheckFinal ==
    /\ pc = "check"
    /\ IF disk \in own THEN pc' = "write" /\ answer' = answer
                       ELSE pc' = "done" /\ answer' = "tampered"
    /\ UNCHANGED <<process, memory, disk, own, killing, signals, deferred>>

WriteFinal ==
    /\ pc = "write"
    /\ disk' = memory
    /\ answer' = IF answer = "none" THEN "result" ELSE answer
    /\ pc' = "done"
    /\ UNCHANGED <<process, memory, own, killing, signals, deferred>>

-----------------------------------------------------------------------------
(* The environment.                                                        *)

\* A signal during the launch waits; anywhere else it is an exception.  With a
\* process the handler kills the group, unless the exception hits the handler
\* itself or a later position: then the rest is skipped.  A replacement that is
\* interrupted has or has not taken place.
Interrupt ==
    /\ signals < MaxSignals
    /\ signals' = signals + 1
    /\ \/ /\ pc = "launch"
          /\ deferred' = TRUE
          /\ UNCHANGED <<pc, memory, killing, answer>>
       \/ /\ \/ pc \in {"launched", "start", "waiting", "group", "term", "grace"}
             \/ pc \in {"kill", "reap"} /\ killing # "handler"
          /\ pc' = "kill"
          /\ killing' = "handler"
          /\ answer' = "interrupt"
          /\ UNCHANGED <<memory, deferred>>
       \/ /\ pc \in {"kill", "reap"} /\ killing = "handler"
          /\ pc' = "verify"
          /\ answer' = "interrupt"
          /\ UNCHANGED <<memory, killing, deferred>>
       \/ /\ pc = "verify"
          /\ memory' = [memory EXCEPT !.interrupted = TRUE, !.finished = TRUE]
          /\ pc' = "check"
          /\ answer' = "interrupt"
          /\ UNCHANGED <<killing, deferred>>
       \/ /\ pc \in {"enter", "check", "write"}
          /\ pc' = "done"
          /\ answer' = "interrupt"
          /\ UNCHANGED <<memory, killing, deferred>>
    /\ \/ disk' = disk
       \/ pc \in {"enter", "start", "write"} /\ disk' = memory
    /\ UNCHANGED <<process, own>>

\* SIGKILL or power loss: the group survives a killed collector.
Crash ==
    /\ pc \notin {"done", "crashed"}
    /\ pc' = "crashed"
    /\ UNCHANGED <<process, memory, disk, own, killing, signals, deferred, answer>>

\* The hook's processes.
LeaderExits ==
    /\ leader = "running"
    /\ leader' = "exited"
    /\ UNCHANGED <<pc, rest, memory, disk, own, killing, signals, deferred, answer>>

RestExits ==
    /\ rest
    /\ rest' = FALSE
    /\ UNCHANGED <<pc, leader, memory, disk, own, killing, signals, deferred, answer>>

\* A running leader, or what it left, may start more processes and rewrite the
\* receipt it finds on disk.
Spawns ==
    /\ leader = "running"
    /\ ~rest
    /\ rest' = TRUE
    /\ UNCHANGED <<pc, leader, memory, disk, own, killing, signals, deferred, answer>>

RewritesReceipt ==
    /\ Rewrites
    /\ GroupRunning
    /\ disk # Foreign
    /\ disk' = Foreign
    /\ UNCHANGED <<pc, process, memory, own, killing, signals, deferred, answer>>

Collector ==
    \/ Reserve \/ Launch \/ LaunchFails \/ CheckReserved \/ WriteStarted \/ LeaderReaped
    \/ GroupChecked \/ BudgetEnds \/ Terminate \/ GraceEnds \/ Kill \/ KillEnds
    \/ Verify \/ CheckFinal \/ WriteFinal

Hook == LeaderExits \/ RestExits \/ Spawns \/ RewritesReceipt

ExecuteNext == Collector \/ Interrupt \/ Crash \/ Hook

\* The watchdog is a timer and every wait of execute has a deadline; nothing is
\* assumed of the hook.
ExecuteSpec == ExecuteInit /\ [][ExecuteNext]_executeVars /\ WF_executeVars(Collector)
-----------------------------------------------------------------------------
(* Properties.                                                             *)

\* A receipt that says finished and contained is true, whatever interrupted the
\* call and whoever else wrote to disk: nothing of the hook runs any more and
\* its leader was reaped.
ContainedIsGone ==
    disk.finished /\ disk.contained /\ disk # Foreign => Gone

\* A group that outlives the call is never silent: the caller sees an exception,
\* or a receipt that denies containment and quarantines the campaign.
LeftBehindIsKnown ==
    pc = "done" /\ ~Gone => answer # "result" \/ ~disk.contained \/ disk = Foreign

\* What a hook started is accounted for: it is gone, or the caller or the receipt
\* says that it is not.
ProcessesAccounted == ExecuteTypeOK /\ ContainedIsGone /\ LeftBehindIsKnown

\* Who gets a result finds the same result on disk, and one that admits what
\* went wrong: success is reported only when the leader ended by itself.
ResultIsRetained ==
    pc = "done" /\ answer = "result" /\ Gone /\ ~Rewrites =>
        /\ disk = memory
        /\ disk.started /\ ~disk.timeout /\ ~disk.error => disk.exit /\ disk.contained

\* The documentation says that a signal interrupts the collection: once one was
\* delivered, the call does not answer with a result.  The code breaks this when
\* the group it kills in its handler does not die in time.
SignalsInterrupt == pc = "done" /\ signals > 0 => answer # "result"
=============================================================================
