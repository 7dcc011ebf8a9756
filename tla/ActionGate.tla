----------------------------- MODULE ActionGate -----------------------------
(***************************************************************************)
(* action.yml and scripts/actions-gate.py: a pull request is gated on one  *)
(* run of a published release.  The steps hand facts to each other through *)
(* the evidence directory and the outcomes of steps; a step may be cut off *)
(* (a canceled job, a full disk), and the steps marked always() still run. *)
(***************************************************************************)
EXTENDS Naturals

CONSTANTS
    MaxCuts          \* steps that are cut off

GateAssumption == MaxCuts \in Nat

VARIABLES
    given,           \* inputs and context of the action
    step,            \* the step that runs, and where
    outcome,         \* outcome[s] of the steps that ended
    install,         \* locals of the install step
    cli,             \* what the weavegate process did
    evidence,        \* the evidence directory
    uploaded,        \* the evidence directory when it was uploaded
    summary,         \* what the job summary shows
    comment,         \* the comment on the pull request
    cuts

vars == <<given, step, outcome, install, cli, evidence, uploaded, summary, comment, cuts>>

Steps == {"prepare", "install", "run", "upload", "summary", "comment", "gate"}
Positions == {"prepare", "install", "checksums", "archive", "extract", "installed", "run", "logs",
              "parse", "copy", "status", "upload", "summary", "comment", "post", "gate", "done"}
Verdicts == {"none", "PASS", "FAIL", "FLAKY"}

\* version: an input, valid or not, or the ref of the action: its exact tag, or
\* a branch, a revision, a moving tag, a fork.  pull: a pull request and a token.
Inputs == [version: {"valid", "invalid", "tag", "ref"}, ask: {"true", "false", "odd"},
           pull: BOOLEAN, fits: BOOLEAN]

\* What a run of the process leaves: no directory, one without a report, one that
\* lacks other files, one whose versions, run id or headline disagree, or all.
Runs == [exit: {0, 2}, left: {"nothing", "files", "report", "odd", "all"}, version: {2, 3},
         verdict: Verdicts \ {"none"}, schedule: {"none", "saved", "missing"}]
NoRun == [exit |-> 2, left |-> "nothing", version |-> 2, verdict |-> "FAIL", schedule |-> "none"]

\* status.json; without it read_status reports that nothing was launched.
Statuses == [written: BOOLEAN, launched: BOOLEAN, exit: {0, 2}, dir: BOOLEAN, report: BOOLEAN,
             complete: BOOLEAN, version: {0, 2, 3}, verdict: Verdicts, schedule: BOOLEAN]
NoStatus == [written |-> FALSE, launched |-> FALSE, exit |-> 2, dir |-> FALSE, report |-> FALSE,
             complete |-> FALSE, version |-> 0, verdict |-> "none", schedule |-> FALSE]

Directories == [install: {"none", "ok", "failed"}, logs: BOOLEAN, run: BOOLEAN,
                status: Statuses, schedule: BOOLEAN]
NoEvidence == [install |-> "none", logs |-> FALSE, run |-> FALSE, status |-> NoStatus,
               schedule |-> FALSE]

Summaries == [evidence: BOOLEAN, report: BOOLEAN]

Comments == [outcome: {"none", "disabled", "skipped", "failed", "posted"}, there: BOOLEAN,
             evidence: BOOLEAN, replay: BOOLEAN, verdict: Verdicts, embedded: BOOLEAN]
NoComment == [outcome |-> "none", there |-> FALSE, evidence |-> FALSE, replay |-> FALSE,
              verdict |-> "none", embedded |-> FALSE]

TypeOK ==
    /\ given \in Inputs
    /\ step \in [at: Positions, status: Statuses]
    /\ outcome \in [Steps -> {"none", "success", "failure", "skipped"}]
    /\ install \in [source: {"none", "input", "tag"}, sum: 0 .. 2, archive: 0 .. 2, binary: 0 .. 2]
    /\ cli \in Runs
    /\ evidence \in Directories /\ uploaded \in Directories
    /\ step.at \in {"comment", "gate"} => outcome["summary"] # "none"
    /\ summary \in Summaries
    /\ comment \in Comments
    /\ cuts \in 0 .. MaxCuts

Init ==
    /\ given \in Inputs
    /\ step = [at |-> "prepare", status |-> NoStatus]
    /\ outcome = [s \in Steps |-> "none"]
    /\ install = [source |-> "none", sum |-> 0, archive |-> 0, binary |-> 0]
    /\ cli = NoRun
    /\ evidence = NoEvidence /\ uploaded = NoEvidence
    /\ summary = [evidence |-> FALSE, report |-> FALSE]
    /\ comment = NoComment
    /\ cuts = 0

-----------------------------------------------------------------------------

At(pc) == step' = [step EXCEPT !.at = pc]
Ends(s, how) == outcome' = [outcome EXCEPT ![s] = how]

\* The step that follows s: a failed step skips those without always().
After(s, how) ==
    /\ Ends(s, how)
    /\ At(CASE s = "prepare" -> IF how = "success" THEN "install" ELSE "summary"
            [] s = "install" -> IF how = "success" THEN "run" ELSE "upload"
            [] s = "run" -> "upload"
            [] s = "upload" -> "summary"
            [] s = "summary" -> IF outcome["prepare"] = "success" THEN "comment" ELSE "gate"
            [] s = "comment" -> "gate"
            [] s = "gate" -> "done")

Prepare ==
    /\ step.at = "prepare"
    /\ After("prepare", "success")
    /\ UNCHANGED <<given, install, cli, evidence, uploaded, summary, comment, cuts>>

\* main: a failed install is recorded in install.txt.
InstallFails ==
    /\ evidence' = [evidence EXCEPT !.install = "failed"]
    /\ After("install", "failure")
    /\ UNCHANGED <<given, install, cli, uploaded, summary, comment, cuts>>

\* release_version: the input, or the exact tag the action was referenced by.
ReleaseVersion ==
    /\ step.at = "install"
    /\ \/ /\ given.version = "valid"
          /\ install' = [install EXCEPT !.source = "input"]
          /\ At("checksums") /\ UNCHANGED <<outcome, evidence>>
          /\ UNCHANGED <<given, cli, uploaded, summary, comment, cuts>>
       \/ /\ given.version = "tag"
          /\ install' = [install EXCEPT !.source = "tag"]
          /\ At("checksums") /\ UNCHANGED <<outcome, evidence>>
          /\ UNCHANGED <<given, cli, uploaded, summary, comment, cuts>>
       \/ /\ given.version \in {"invalid", "ref"}
          /\ InstallFails

\* checksums.txt and the archive are two downloads: the release may be replaced
\* between them.
Checksums ==
    /\ step.at = "checksums"
    /\ \E release \in 1 .. 2: install' = [install EXCEPT !.sum = release]
    /\ At("archive")
    /\ UNCHANGED <<given, outcome, cli, evidence, uploaded, summary, comment, cuts>>

Archive ==
    /\ step.at = "archive"
    /\ \/ /\ install' = [install EXCEPT !.archive = install.sum]
          /\ At("extract")
          /\ UNCHANGED <<given, outcome, cli, evidence, uploaded, summary, comment, cuts>>
       \/ InstallFails      \* checksum mismatch

Extract ==
    /\ step.at = "extract"
    /\ \/ /\ install' = [install EXCEPT !.binary = install.archive]
          /\ At("installed")
          /\ UNCHANGED <<given, outcome, cli, evidence, uploaded, summary, comment, cuts>>
       \/ InstallFails      \* no such member, or one that is no binary

Installed ==
    /\ step.at = "installed"
    /\ evidence' = [evidence EXCEPT !.install = "ok"]
    /\ After("install", "success")
    /\ UNCHANGED <<given, install, cli, uploaded, summary, comment, cuts>>

-----------------------------------------------------------------------------

\* weavegate is launched and exits, whatever it leaves behind.
Launch ==
    /\ step.at = "run"
    /\ \/ \E r \in Runs:
            /\ r.left \notin {"odd", "all"} => r = [NoRun EXCEPT !.exit = r.exit, !.left = r.left]
            /\ cli' = r
            /\ evidence' = [evidence EXCEPT !.run = (r.left # "nothing")]
            /\ step' = [at |-> "logs", status |->
                         [NoStatus EXCEPT !.launched = TRUE, !.exit = r.exit]]
       \/ /\ step' = [at |-> "status", status |-> NoStatus]
          /\ UNCHANGED <<cli, evidence>>
    /\ UNCHANGED <<given, outcome, install, uploaded, summary, comment, cuts>>

Logs ==
    /\ step.at = "logs"
    /\ \/ evidence' = [evidence EXCEPT !.logs = TRUE] /\ At("parse")
       \/ At("status") /\ UNCHANGED evidence
    /\ UNCHANGED <<given, outcome, install, cli, uploaded, summary, comment, cuts>>

\* What parse_run returns for complete evidence.
Complete == [step.status EXCEPT !.dir = TRUE, !.report = TRUE, !.complete = TRUE,
                                !.version = cli.version, !.verdict = cli.verdict]

\* Evidence that is partial or does not agree; its report may still be read.
Invalid == cli.left # "all" \/ cli.schedule = "missing"
Partial == [step.status EXCEPT !.dir = TRUE, !.report = (cli.left # "files")]

\* parse_run up to the copy of the schedule; the schedule's id is kept first.
Parse ==
    /\ step.at = "parse"
    /\ step' =
         IF cli.left = "nothing" THEN [step EXCEPT !.at = "status"]
         ELSE IF Invalid THEN [at |-> "status", status |-> Partial]
         ELSE IF cli.schedule = "saved"
           THEN [at |-> "copy", status |-> [Partial EXCEPT !.schedule = TRUE]]
         ELSE [at |-> "status", status |-> Complete]
    /\ UNCHANGED <<given, outcome, install, cli, evidence, uploaded, summary, comment, cuts>>

\* The copy may fail: the evidence is then partial.
CopySchedule ==
    /\ step.at = "copy"
    /\ \/ /\ evidence' = [evidence EXCEPT !.schedule = TRUE]
          /\ step' = [at |-> "status", status |-> Complete]
       \/ /\ At("status")
          /\ UNCHANGED evidence
    /\ UNCHANGED <<given, outcome, install, cli, uploaded, summary, comment, cuts>>

WriteStatus ==
    /\ step.at = "status"
    /\ evidence' = [evidence EXCEPT !.status = [step.status EXCEPT !.written = TRUE]]
    /\ After("run", "success")
    /\ UNCHANGED <<given, install, cli, uploaded, summary, comment, cuts>>

Upload ==
    /\ step.at = "upload"
    /\ uploaded' = evidence
    /\ After("upload", "success")
    /\ UNCHANGED <<given, install, cli, evidence, summary, comment, cuts>>

Status == evidence.status

Kept == outcome["upload"] = "success"

Summary ==
    /\ step.at = "summary"
    /\ summary' = [evidence |-> Kept, report |-> Status.report]
    /\ After("summary", "success")
    /\ UNCHANGED <<given, install, cli, evidence, uploaded, comment, cuts>>

\* decide_comment up to the request.
DecideComment ==
    /\ step.at = "comment"
    /\ IF given.ask = "true" /\ given.pull /\ Status.report
         THEN At("post") /\ UNCHANGED <<comment, outcome>>
         ELSE /\ comment' = [NoComment EXCEPT !.outcome =
                                IF given.ask = "false" THEN "disabled" ELSE "skipped"]
              /\ After("comment", "success")
    /\ UNCHANGED <<given, install, cli, evidence, uploaded, summary, cuts>>

\* Fault: evidence is linked whenever the run left some.
Body_Hopeful ==
    [outcome |-> "posted", there |-> TRUE, evidence |-> Status.dir, verdict |-> Status.verdict,
     replay |-> Status.dir /\ Status.schedule, embedded |-> given.fits]

\* comment_body: evidence is linked, and its replay described, once uploaded.
Body ==
    [outcome |-> "posted", there |-> TRUE, evidence |-> Kept, verdict |-> Status.verdict,
     replay |-> Kept /\ Status.schedule, embedded |-> given.fits]

\* The request succeeds, is refused, or its answer is lost.
PostComment ==
    /\ step.at = "post"
    /\ \/ comment' = Body
       \/ comment' = [NoComment EXCEPT !.outcome = "skipped"]
       \/ comment' = [NoComment EXCEPT !.outcome = "failed"]
       \/ comment' = [Body EXCEPT !.outcome = "failed"]
    /\ After("comment", "success")
    /\ UNCHANGED <<given, install, cli, evidence, uploaded, summary, cuts>>

Passes ==
    /\ Kept
    /\ Status.launched /\ Status.exit = 0
    /\ Status.complete /\ Status.version = 2 /\ Status.verdict = "PASS"

Gate ==
    /\ step.at = "gate"
    /\ After("gate", IF Passes THEN "success" ELSE "failure")
    /\ UNCHANGED <<given, install, cli, evidence, uploaded, summary, comment, cuts>>

\* A step that is cut off: its job is canceled, a write fails, a request fails.
Cut ==
    /\ cuts < MaxCuts
    /\ step.at # "done"
    /\ cuts' = cuts + 1
    /\ \E s \in Steps:
        /\ CASE s = "install" -> step.at \in {"install", "checksums", "archive", "extract", "installed"}
             [] s = "run" -> step.at \in {"run", "logs", "parse", "copy", "status"}
             [] s = "comment" -> step.at \in {"comment", "post"}
             [] OTHER -> step.at = s
        /\ After(s, "failure")
        /\ IF s = "install"
             THEN \E left \in {"none", "failed"}: evidence' = [evidence EXCEPT !.install = left]
             ELSE UNCHANGED evidence
    /\ UNCHANGED <<given, install, cli, uploaded, summary, comment>>

InstallStep == ReleaseVersion \/ Checksums \/ Archive \/ Extract \/ Installed
RunStep == Launch \/ Logs \/ Parse \/ CopySchedule \/ WriteStatus
Runner ==
    \/ Prepare \/ InstallStep \/ RunStep \/ Upload \/ Summary
    \/ DecideComment \/ PostComment \/ Gate

Next == Runner \/ Cut

\* The runner works the steps off; the process and the requests it waits for end.
Spec == Init /\ [][Next]_vars /\ WF_vars(Runner)

-----------------------------------------------------------------------------

Passed == outcome["gate"] = "success"

\* A gate that passes was earned, whatever was cut off on the way: weavegate
\* exited 0 and left complete version-2 PASS evidence, which was uploaded with
\* its schedule and the status the gate read.
PassIsEarned ==
    Passed =>
        /\ cli.exit = 0 /\ cli.left = "all" /\ cli.version = 2 /\ cli.verdict = "PASS"
        /\ uploaded = evidence /\ uploaded.run /\ uploaded.logs
        /\ cli.schedule = "none" \/ uploaded.schedule

\* What runs was verified: the binary comes from the archive whose digest the
\* release lists, of a version that was asked for or is the action's own tag.
LaunchedIsVerified ==
    outcome["install"] = "success" =>
        /\ install.binary = install.archive /\ install.archive = install.sum
        /\ given.version = [input |-> "valid", tag |-> "tag"][install.source]

\* The comment and the summary claim what the run has: evidence that was uploaded,
\* and a verdict only from complete evidence.
ClaimsHold ==
    /\ comment.evidence => uploaded # NoEvidence /\ uploaded.run
    /\ comment.verdict # "none" => cli.left = "all" /\ comment.verdict = cli.verdict
    /\ summary.evidence => uploaded = evidence

\* What a reader of the pull request sees is backed by what ran and was uploaded.
DecisionIsSound == PassIsEarned /\ LaunchedIsVerified /\ ClaimsHold

\* Replay steps in a comment name a file of the uploaded artifact.
ReplayStepsWork == comment.replay => uploaded.schedule

=============================================================================
