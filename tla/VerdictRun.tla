------------------------------ MODULE VerdictRun ------------------------------
(***************************************************************************)
(* The run command: provision, explore or replay, verdict, teardown, report*)
(* and exit code.  A run of a schedule has a fingerprint, of which its     *)
(* violations are part, or it fails.  The first signal cancels the context *)
(* of the operation, the second one ends the process wherever it is.  The  *)
(* report is written beside its place and renamed into it, a file at a     *)
(* time, while other processes read the directory.                         *)
(***************************************************************************)
EXTENDS Naturals, Sequences, SequencesExt

CONSTANTS
    Candidates,      \* schedules of the candidate plan
    ExplorePasses,
    Repeat,
    Passing,         \* fingerprints of runs without a violation
    Violating,       \* fingerprints of runs with one
    Files,           \* the artifacts, in the order they are written
    Nil

VerdictAssumption ==
    /\ Candidates \in Nat \ {0} /\ ExplorePasses \in Nat \ {0} /\ Repeat \in Nat \ {0}
    /\ Passing \cap Violating = {} /\ Nil \notin Passing \cup Violating

VARIABLES
    pc,              \* where runScenario is
    mode,            \* "explore", "replay"
    pass, index,     \* the exploration pass and its candidate
    explored,        \* history: the fingerprints of all exploration runs
    discovery,       \* the fingerprint of the violating exploration run, or Nil
    replays,         \* the fingerprints of the replay, in order
    err,             \* what the command fails with: "none" and the classes of ci
    cleanup,         \* the answer of Teardown: "none", "ok", "failed"
    teardowns,       \* history: how often it was called
    undiagnosed,     \* diagnosticErr # nil
    temp,            \* files in the temporary directory, Nil without one
    final,           \* the published directory, Nil without one
    signals,         \* signals delivered
    code             \* the exit code, Nil before

vars == <<pc, mode, pass, index, explored, discovery, replays, err, cleanup, teardowns,
          undiagnosed, temp, final, signals, code>>

Fingerprints == Passing \cup Violating

Init ==
    /\ pc = "plan"
    /\ mode \in {"explore", "replay"}
    /\ pass = 1 /\ index = 1 /\ explored = {} /\ discovery = Nil /\ replays = <<>>
    /\ err = "none" /\ cleanup = "none" /\ teardowns = 0 /\ undiagnosed = FALSE
    /\ temp = Nil /\ final = Nil /\ signals = 0 /\ code = Nil

-----------------------------------------------------------------------------
(* ComputeVerdict, the evidence and the exit code.                         *)

Exhausted == mode = "explore" /\ discovery = Nil

UniqueFingerprint ==
    IF \A i \in DOMAIN replays : replays[i] = replays[1]
    THEN replays[1] ELSE Nil

Flaky_OfReplay ==
    /\ ~ Exhausted
    /\ UniqueFingerprint = Nil
\* Replay.Flaky, and in an exploration also a discovery that was not reproduced.
Flaky ==
    /\ ~ Exhausted
    /\ \/ UniqueFingerprint = Nil
       \/ mode = "explore" /\ UniqueFingerprint # discovery

ViolationRuns == Len(SelectSeq(replays, LAMBDA f : f \in Violating))

\* The run whose trace is saved.
TraceRun ==
    LET bad == {i \in DOMAIN replays : replays[i] \in Violating}
        other == {i \in DOMAIN replays : replays[i] # replays[1]}
        First(S) == replays[CHOOSE i \in S : \A j \in S : i <= j] IN
      IF bad # {} THEN First(bad)
      ELSE IF discovery # Nil THEN discovery
      ELSE IF other # {} THEN First(other)
      ELSE IF replays # <<>> THEN replays[1] ELSE Nil

\* reportRunFailure and ExitCode: interruption, then the class, then the verdict.
ExitCode(e, torn) ==
    CASE e = "interrupted" -> 130
      [] e = "fixture" -> 4
      [] e \in {"input", "output"} -> 5
      [] OTHER -> IF Flaky THEN 3
                  ELSE IF ViolationRuns > 0 THEN 2
                  ELSE IF torn = "failed" THEN 4 ELSE 0

-----------------------------------------------------------------------------
(* The command fails: what it has not torn down is torn down on the way    *)
(* out, detached from the signal.                                          *)

Fail(e) == pc' = "leave" /\ err' = e

\* A failure of the operation is of its class, or an interruption if the signal is the
\* reason for it.
Classes(class) == {class} \cup (IF signals > 0 THEN {"interrupted"} ELSE {})

Plan ==
    /\ pc = "plan"
    /\ \/ pc' = "provision" /\ UNCHANGED <<err, code>>
       \/ pc' = "refused" /\ err' = "input" /\ code' = 5
    /\ UNCHANGED <<mode, pass, index, explored, discovery, replays, cleanup, teardowns,
                   undiagnosed, temp, final, signals>>

\* Provision, then the run ID, the manifest and the orchestrator.
Provision ==
    /\ pc = "provision"
    /\ \/ pc' = mode /\ UNCHANGED err
       \/ \E e \in Classes("fixture") \cup {"output", "input"} : Fail(e)
    /\ UNCHANGED <<mode, pass, index, explored, discovery, replays, cleanup, teardowns,
                   undiagnosed, temp, final, signals, code>>

\* A run whose context was canceled when it returns has failed, however it went.
RunFails ==
    /\ pc \in {"explore", "replay"}
    /\ \E e \in IF signals > 0 THEN {"interrupted"} ELSE {"fixture", "input"} : Fail(e)
    /\ UNCHANGED <<mode, pass, index, explored, discovery, replays, cleanup, teardowns,
                   undiagnosed, temp, final, signals, code>>

\* The first violation ends the exploration, else the next candidate or pass follows.
ExploreRun ==
    /\ pc = "explore"
    /\ signals = 0
    /\ \E f \in Fingerprints :
         /\ explored' = explored \cup {f}
         /\ IF f \in Violating
            THEN discovery' = f /\ pc' = "replay" /\ UNCHANGED <<pass, index>>
            ELSE /\ UNCHANGED discovery
                 /\ IF index < Candidates
                    THEN index' = index + 1 /\ UNCHANGED <<pass, pc>>
                    ELSE IF pass < ExplorePasses
                         THEN index' = 1 /\ pass' = pass + 1 /\ UNCHANGED pc
                         ELSE pc' = "teardown" /\ UNCHANGED <<pass, index>>
    /\ UNCHANGED <<mode, replays, err, cleanup, teardowns, undiagnosed, temp, final,
                   signals, code>>

ReplayRun ==
    /\ pc = "replay"
    /\ signals = 0
    /\ \E f \in Fingerprints : replays' = Append(replays, f)
    /\ pc' = IF Len(replays') = Repeat THEN "teardown" ELSE "replay"
    /\ UNCHANGED <<mode, pass, index, explored, discovery, err, cleanup, teardowns,
                   undiagnosed, temp, final, signals, code>>

Teardown ==
    /\ pc = "teardown"
    /\ cleanup' \in {"ok", "failed"}
    /\ teardowns' = teardowns + 1
    /\ pc' = "diagnose"
    /\ UNCHANGED <<mode, pass, index, explored, discovery, replays, err, undiagnosed, temp,
                   final, signals, code>>

\* The deferred function: a guard against a second teardown, and the exit code.
Leave ==
    /\ pc = "leave"
    /\ IF cleanup = "none"
       THEN cleanup' \in {"ok", "failed"} /\ teardowns' = teardowns + 1
       ELSE UNCHANGED <<cleanup, teardowns>>
    /\ code' = ExitCode(err, cleanup')
    /\ pc' = "exit"
    /\ UNCHANGED <<mode, pass, index, explored, discovery, replays, err, undiagnosed, temp,
                   final, signals>>

Diagnose ==
    /\ pc = "diagnose"
    /\ undiagnosed' \in BOOLEAN
    /\ pc' = "stage"
    /\ UNCHANGED <<mode, pass, index, explored, discovery, replays, err, cleanup, teardowns,
                   temp, final, signals, code>>

-----------------------------------------------------------------------------
(* WriteRun.  Run directories have names of their own, so no other command *)
(* writes to this one; a directory of the name may still be there.         *)

Stage ==
    /\ pc = "stage"
    /\ \/ temp' = {} /\ pc' = "write" /\ UNCHANGED err
       \/ temp' \in {Nil, {}} /\ Fail("output")
    /\ UNCHANGED <<mode, pass, index, explored, discovery, replays, cleanup, teardowns,
                   undiagnosed, final, signals, code>>

\* The artifacts of a run without a schedule are fewer.
Wanted == IF Exhausted THEN ToSet(Files) \ {"schedule"} ELSE ToSet(Files)

WriteFile ==
    /\ pc = "write"
    /\ temp # Wanted
    /\ LET name == SelectSeq(Files, LAMBDA f : f \in Wanted \ temp)[1] IN
         temp' = temp \cup {name}
    /\ UNCHANGED <<pc, mode, pass, index, explored, discovery, replays, err, cleanup,
                   teardowns, undiagnosed, final, signals, code>>

\* A file is not written, the destination exists, or the rename fails; the temporary
\* directory goes, or stays if it cannot be removed.
WriteFails ==
    /\ pc = "write"
    /\ Fail("output")
    /\ temp' \in {temp, Nil}
    /\ UNCHANGED <<mode, pass, index, explored, discovery, replays, cleanup, teardowns,
                   undiagnosed, final, signals, code>>

Published ==
    [files |-> temp, pass |-> ~ Flaky /\ ViolationRuns = 0, flaky |-> Flaky,
     violations |-> ViolationRuns, discovered |-> discovery # Nil, trace |-> TraceRun,
     cleanupFailed |-> cleanup = "failed"]

\* The rename.
Publish ==
    /\ pc = "write"
    /\ temp = Wanted
    /\ final' = Published
    /\ temp' = Nil
    /\ pc' = "show"
    /\ UNCHANGED <<mode, pass, index, explored, discovery, replays, err, cleanup, teardowns,
                   undiagnosed, signals, code>>

\* report.md and the directory go to stdout; then the verdict is the outcome, unless the
\* diagnostics could not be derived.
Show ==
    /\ pc = "show"
    /\ \/ Fail("output")
       \/ undiagnosed /\ Fail("output")
       \/ ~ undiagnosed /\ Fail("none")
    /\ UNCHANGED <<mode, pass, index, explored, discovery, replays, cleanup, teardowns,
                   undiagnosed, temp, final, signals, code>>

-----------------------------------------------------------------------------
(* Signals.                                                                *)

Signal ==
    /\ pc \notin {"refused", "exit", "killed"}
    /\ signals < 2
    /\ signals' = signals + 1
    /\ pc' = IF signals' = 2 THEN "killed" ELSE pc
    /\ UNCHANGED <<mode, pass, index, explored, discovery, replays, err, cleanup, teardowns,
                   undiagnosed, temp, final, code>>

Next ==
    \/ Plan \/ Provision \/ RunFails \/ ExploreRun \/ ReplayRun
    \/ Teardown \/ Leave \/ Diagnose
    \/ Stage \/ WriteFile \/ WriteFails \/ Publish \/ Show
    \/ Signal

Spec == Init /\ [][Next]_vars

-----------------------------------------------------------------------------
(* Exit codes and reports claim no more than the runs have shown.  0: no   *)
(* run of any pass, or of the replay, had a violation, all runs were made  *)
(* and the container is gone.  2: every replay shows the violation that    *)
(* was discovered.  3: two runs of one schedule disagree.  130: a signal   *)
(* was sent.                                                               *)
AllRuns == explored \cup ToSet(replays)
Full == IF Exhausted THEN pass = ExplorePasses /\ index = Candidates
        ELSE Len(replays) = Repeat

CodeIsEarned ==
    /\ code = 0 => AllRuns \subseteq Passing /\ Full /\ cleanup = "ok"
    /\ code = 2 => \E f \in Violating :
                     /\ Full /\ ToSet(replays) = {f}
                     /\ mode = "explore" => discovery = f
    /\ code = 3 => \E f, g \in ToSet(replays) \cup ({discovery} \ {Nil}) : f # g
    /\ code \in {0, 2, 3} => final # Nil /\ ~ undiagnosed
    /\ code = 130 => signals > 0

(* A directory in its place has all files, and they say what the exit code *)
(* says or what was decided before writing or printing failed: the         *)
(* headline, a trace that shows a violation if one was found anywhere, and *)
(* whether the container is gone.  A reader that meets it at any moment,   *)
(* or after the process was killed, reads that.                            *)
ReportIsWhole ==
    final # Nil =>
        /\ final.files = Wanted
        /\ final.pass <=> AllRuns \subseteq Passing /\ ~ final.flaky
        /\ (AllRuns \cap Violating # {}) => final.trace \in Violating
        /\ final.cleanupFailed <=> cleanup = "failed"
        /\ code \in {Nil, 5} \/ code = ExitCode("none", cleanup)

(* Once a fixture was created the command does not end without having      *)
(* asked for its teardown, and never asks twice, so a container it could   *)
(* not remove is in the code or in the report; and a reproduced violation  *)
(* or a disagreement keeps its code when the container stays.              *)
TornDownOnce ==
    /\ teardowns <= 1
    /\ pc = "exit" => teardowns = 1
    /\ code # Nil /\ err = "none" /\ cleanup = "failed" => code # 0

VerdictSound == CodeIsEarned /\ ReportIsWhole /\ TornDownOnce
=============================================================================
