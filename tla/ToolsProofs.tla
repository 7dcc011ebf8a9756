---------------------------- MODULE ToolsProofs ----------------------------
(* Theorems about the programs around the core, for every choice of their    *)
(* constants: the gate of a pull request, the local pilot, the publisher and *)
(* the guard of the wire vectors.                                            *)
EXTENDS MCTools, WireHistoryProofs, Sequences, FiniteSetTheorems, TLAPS

-----------------------------------------------------------------------------
(* The gate of a pull request.                                               *)

(* A step that has ended lies behind the position.                           *)
PhaseInv ==
  /\ outcome["install"] # "none" =>
       step.at \notin {"prepare", "install", "checksums", "archive", "extract", "installed"}
  /\ outcome["upload"] # "none" => step.at \in {"summary", "comment", "post", "gate", "done"}
  /\ outcome["gate"] # "none" => step.at = "done"
  /\ step.at \in {"comment", "post", "gate"} => outcome["summary"] # "none"

(* The version that is installed was asked for, or is the action's own tag.  *)
SourceFits ==
  \/ install.source = "input" /\ given.version = "valid"
  \/ install.source = "tag" /\ given.version = "tag"

(* What was verified so far, at each position of the install step.           *)
InstallInv ==
  /\ step.at \in {"checksums", "archive", "extract", "installed"} => SourceFits
  /\ step.at \in {"extract", "installed"} => install.archive = install.sum
  /\ step.at = "installed" => install.binary = install.archive
  /\ outcome["install"] = "success" =>
       SourceFits /\ install.binary = install.archive /\ install.archive = install.sum

(* A status is complete only behind the whole evidence of a run, and reports *)
(* something only behind the directory of one.                               *)
Backed(t) ==
  /\ t.verdict # "none" => t.complete
  /\ t.report => evidence.run
  /\ t.complete =>
       /\ cli.left = "all" /\ t.exit = cli.exit /\ t.version = cli.version
       /\ t.verdict = cli.verdict
       /\ evidence.run /\ evidence.logs /\ (cli.schedule = "none" \/ evidence.schedule)

(* The status under way and the one that is written are backed.              *)
StatusInv ==
  /\ Backed(evidence.status)
  /\ step.at \in {"prepare", "install", "checksums", "archive", "extract", "installed", "run",
                  "logs", "parse", "copy", "status"} => evidence.status = Action!NoStatus
  /\ step.at \in {"logs", "parse", "copy"} =>
       /\ step.status.exit = cli.exit /\ ~ step.status.complete
       /\ step.status.verdict = "none"
       /\ cli.left # "nothing" => evidence.run
  /\ step.at \in {"logs", "parse"} => ~ step.status.report
  /\ step.at \in {"parse", "copy"} => evidence.logs
  /\ step.at = "copy" => cli.left = "all" /\ cli.schedule = "saved"
  /\ step.at = "status" => Backed(step.status)

(* Comment, summary and gate claim what was uploaded and is in the status.   *)
ClaimInv ==
  /\ outcome["upload"] = "success" => uploaded = evidence
  /\ step.at = "post" => evidence.status.report
  /\ comment.evidence => outcome["upload"] = "success" /\ evidence.status.report
  /\ comment.verdict # "none" =>
       step.at \in {"gate", "done"} /\ comment.verdict = evidence.status.verdict
  /\ summary.evidence => outcome["upload"] = "success"
  /\ outcome["gate"] = "success" => Action!Passes

GateInv == Action!TypeOK /\ PhaseInv /\ InstallInv /\ StatusInv /\ ClaimInv

(* It holds when the action starts.                                          *)
LEMMA GateStarts == Action!GateAssumption /\ Action!Init => GateInv
<1> SUFFICES ASSUME Action!GateAssumption, Action!Init PROVE GateInv
  OBVIOUS
<1>1. Action!NoStatus \in Action!Statuses
  BY DEF Action!NoStatus, Action!Statuses, Action!Verdicts
<1>2. Action!NoEvidence \in Action!Directories
  BY <1>1 DEF Action!NoEvidence, Action!Directories
<1>3. Action!TypeOK
  BY <1>1, <1>2 DEF Action!GateAssumption, Action!Init, Action!TypeOK, Action!Positions,
     Action!NoRun, Action!Runs, Action!Verdicts, Action!Summaries, Action!Comments,
     Action!NoComment
<1>4. PhaseInv /\ InstallInv
  BY DEF Action!Init, PhaseInv, InstallInv, Action!Steps
<1>5. StatusInv
  BY DEF Action!Init, StatusInv, Backed, Action!NoStatus, Action!NoEvidence
<1>6. ClaimInv
  BY DEF Action!Init, ClaimInv, Action!Steps, Action!NoComment
<1>7. QED
  BY <1>3, <1>4, <1>5, <1>6 DEF GateInv

(* The end of a step: its outcome, and the step that follows.                *)
LEMMA AfterFacts ==
  ASSUME Action!TypeOK, NEW s \in Action!Steps, NEW how \in {"success", "failure"},
         Action!After(s, how)
  PROVE  /\ outcome' \in [Action!Steps -> {"none", "success", "failure", "skipped"}]
         /\ outcome'[s] = how
         /\ \A r \in Action!Steps \ {s} : outcome'[r] = outcome[r]
         /\ step' \in [at : Action!Positions, status : Action!Statuses]
         /\ step'.status = step.status
         /\ s = "prepare" => step'.at = IF how = "success" THEN "install" ELSE "summary"
         /\ s = "install" => step'.at = IF how = "success" THEN "run" ELSE "upload"
         /\ s = "run" => step'.at = "upload"
         /\ s = "upload" => step'.at = "summary"
         /\ s = "summary" =>
              step'.at = IF outcome["prepare"] = "success" THEN "comment" ELSE "gate"
         /\ s = "comment" => step'.at = "gate"
         /\ s = "gate" => step'.at = "done"
<1>1. /\ outcome \in [Action!Steps -> {"none", "success", "failure", "skipped"}]
      /\ step \in [at : Action!Positions, status : Action!Statuses]
  BY DEF Action!TypeOK
<1>2. /\ outcome' = [outcome EXCEPT ![s] = how]
  BY DEF Action!After, Action!Ends
<1>3. s = "prepare" =>
       step' = [step EXCEPT !.at = IF how = "success" THEN "install" ELSE "summary"]
  BY DEF Action!After, Action!At
<1>4. s = "install" =>
       step' = [step EXCEPT !.at = IF how = "success" THEN "run" ELSE "upload"]
  BY DEF Action!After, Action!At
<1>5. s = "run" =>
       step' = [step EXCEPT !.at = "upload"]
  BY DEF Action!After, Action!At
<1>6. s = "upload" =>
       step' = [step EXCEPT !.at = "summary"]
  BY DEF Action!After, Action!At
<1>7. s = "summary" =>
       step' = [step EXCEPT !.at = IF outcome["prepare"] = "success" THEN "comment" ELSE "gate"]
  BY DEF Action!After, Action!At
<1>8. s = "comment" =>
       step' = [step EXCEPT !.at = "gate"]
  BY DEF Action!After, Action!At
<1>9. s = "gate" =>
       step' = [step EXCEPT !.at = "done"]
  BY DEF Action!After, Action!At
<1> HIDE DEF Action!Statuses
<1>10. QED
  BY <1>1, <1>2, <1>3, <1>4, <1>5, <1>6, <1>7, <1>8, <1>9 DEF Action!Steps, Action!Positions

(* No step of the action breaks the invariant.                               *)
LEMMA GateKept ==
  ASSUME Action!GateAssumption, GateInv, Action!Next PROVE GateInv'
<1> USE DEF GateInv
<1>1. CASE Action!Prepare
  <2>1. Action!TypeOK'
    BY <1>1, AfterFacts DEF Action!Prepare, Action!At, Action!TypeOK, Action!Steps,
       Action!Positions
  <2>2. PhaseInv'
    BY <1>1, AfterFacts DEF Action!Prepare, Action!At, Action!TypeOK, PhaseInv,
       Action!Steps
  <2>3. InstallInv'
    BY <1>1, AfterFacts DEF Action!Prepare, Action!At, Action!TypeOK, InstallInv,
       SourceFits, Action!Steps, PhaseInv
  <2>4. StatusInv'
    BY <1>1, AfterFacts DEF Action!Prepare, Action!At, Action!TypeOK, StatusInv, Backed,
       Action!Steps
  <2>5. ClaimInv'
    BY <1>1, AfterFacts DEF Action!Prepare, Action!At, Action!TypeOK, ClaimInv,
       Action!Steps, PhaseInv, StatusInv, Backed, Action!Passes, Action!Kept, Action!Status
  <2> QED
    BY <2>1, <2>2, <2>3, <2>4, <2>5
<1>2. CASE Action!ReleaseVersion
  <2>1. Action!TypeOK'
    BY <1>2, AfterFacts DEF Action!ReleaseVersion, Action!InstallFails,
       Action!Directories, Action!At, Action!TypeOK, Action!Steps, Action!Positions
  <2>2. PhaseInv'
    BY <1>2, AfterFacts DEF Action!ReleaseVersion, Action!InstallFails,
       Action!Directories, Action!At, Action!TypeOK, PhaseInv, Action!Steps
  <2>3. InstallInv'
    BY <1>2, AfterFacts DEF Action!ReleaseVersion, Action!InstallFails,
       Action!Directories, Action!At, Action!TypeOK, InstallInv, SourceFits, Action!Steps,
       PhaseInv
  <2>4. StatusInv'
    BY <1>2, AfterFacts DEF Action!ReleaseVersion, Action!InstallFails,
       Action!Directories, Action!At, Action!TypeOK, StatusInv, Backed, Action!Steps
  <2>5. ClaimInv'
    BY <1>2, AfterFacts DEF Action!ReleaseVersion, Action!InstallFails,
       Action!Directories, Action!At, Action!TypeOK, ClaimInv, Action!Steps, PhaseInv,
       StatusInv, Backed, Action!Passes, Action!Kept, Action!Status
  <2> QED
    BY <2>1, <2>2, <2>3, <2>4, <2>5
<1>3. CASE Action!Checksums
  <2>1. Action!TypeOK'
    BY <1>3, AfterFacts DEF Action!Checksums, Action!At, Action!TypeOK, Action!Steps,
       Action!Positions
  <2>2. PhaseInv'
    BY <1>3, AfterFacts DEF Action!Checksums, Action!At, Action!TypeOK, PhaseInv,
       Action!Steps
  <2>3. InstallInv'
    BY <1>3, AfterFacts DEF Action!Checksums, Action!At, Action!TypeOK, InstallInv,
       SourceFits, Action!Steps, PhaseInv
  <2>4. StatusInv'
    BY <1>3, AfterFacts DEF Action!Checksums, Action!At, Action!TypeOK, StatusInv,
       Backed, Action!Steps
  <2>5. ClaimInv'
    BY <1>3, AfterFacts DEF Action!Checksums, Action!At, Action!TypeOK, ClaimInv,
       Action!Steps, PhaseInv, StatusInv, Backed, Action!Passes, Action!Kept, Action!Status
  <2> QED
    BY <2>1, <2>2, <2>3, <2>4, <2>5
<1>4. CASE Action!Archive
  <2>1. Action!TypeOK'
    BY <1>4, AfterFacts DEF Action!Archive, Action!InstallFails, Action!Directories,
       Action!At, Action!TypeOK, Action!Steps, Action!Positions
  <2>2. PhaseInv'
    BY <1>4, AfterFacts DEF Action!Archive, Action!InstallFails, Action!Directories,
       Action!At, Action!TypeOK, PhaseInv, Action!Steps
  <2>3. InstallInv'
    BY <1>4, AfterFacts DEF Action!Archive, Action!InstallFails, Action!Directories,
       Action!At, Action!TypeOK, InstallInv, SourceFits, Action!Steps, PhaseInv
  <2>4. StatusInv'
    BY <1>4, AfterFacts DEF Action!Archive, Action!InstallFails, Action!Directories,
       Action!At, Action!TypeOK, StatusInv, Backed, Action!Steps
  <2>5. ClaimInv'
    BY <1>4, AfterFacts DEF Action!Archive, Action!InstallFails, Action!Directories,
       Action!At, Action!TypeOK, ClaimInv, Action!Steps, PhaseInv, StatusInv, Backed,
       Action!Passes, Action!Kept, Action!Status
  <2> QED
    BY <2>1, <2>2, <2>3, <2>4, <2>5
<1>5. CASE Action!Extract
  <2>1. Action!TypeOK'
    BY <1>5, AfterFacts DEF Action!Extract, Action!InstallFails, Action!Directories,
       Action!At, Action!TypeOK, Action!Steps, Action!Positions
  <2>2. PhaseInv'
    BY <1>5, AfterFacts DEF Action!Extract, Action!InstallFails, Action!Directories,
       Action!At, Action!TypeOK, PhaseInv, Action!Steps
  <2>3. InstallInv'
    BY <1>5, AfterFacts DEF Action!Extract, Action!InstallFails, Action!Directories,
       Action!At, Action!TypeOK, InstallInv, SourceFits, Action!Steps, PhaseInv
  <2>4. StatusInv'
    BY <1>5, AfterFacts DEF Action!Extract, Action!InstallFails, Action!Directories,
       Action!At, Action!TypeOK, StatusInv, Backed, Action!Steps
  <2>5. ClaimInv'
    BY <1>5, AfterFacts DEF Action!Extract, Action!InstallFails, Action!Directories,
       Action!At, Action!TypeOK, ClaimInv, Action!Steps, PhaseInv, StatusInv, Backed,
       Action!Passes, Action!Kept, Action!Status
  <2> QED
    BY <2>1, <2>2, <2>3, <2>4, <2>5
<1>6. CASE Action!Installed
  <2>1. Action!TypeOK'
    BY <1>6, AfterFacts DEF Action!Installed, Action!Directories, Action!At,
       Action!TypeOK, Action!Steps, Action!Positions
  <2>2. PhaseInv'
    BY <1>6, AfterFacts DEF Action!Installed, Action!Directories, Action!At,
       Action!TypeOK, PhaseInv, Action!Steps
  <2>3. InstallInv'
    BY <1>6, AfterFacts DEF Action!Installed, Action!Directories, Action!At,
       Action!TypeOK, InstallInv, SourceFits, Action!Steps, PhaseInv
  <2>4. StatusInv'
    BY <1>6, AfterFacts DEF Action!Installed, Action!Directories, Action!At,
       Action!TypeOK, StatusInv, Backed, Action!Steps
  <2>5. ClaimInv'
    BY <1>6, AfterFacts DEF Action!Installed, Action!Directories, Action!At,
       Action!TypeOK, ClaimInv, Action!Steps, PhaseInv, StatusInv, Backed, Action!Passes,
       Action!Kept, Action!Status
  <2> QED
    BY <2>1, <2>2, <2>3, <2>4, <2>5
<1>7. CASE Action!Launch
  <2>1. CASE step' = [at |-> "status", status |-> Action!NoStatus] /\ UNCHANGED <<cli, evidence>>
    <3>1. UNCHANGED <<given, outcome, install, uploaded, summary, comment, cuts, cli, evidence>>
          /\ step.at = "run"
      BY <1>7, <2>1 DEF Action!Launch
    <3>2. Action!NoStatus \in Action!Statuses
      BY DEF Action!NoStatus, Action!Statuses, Action!Verdicts
    <3>3. step' \in [at : Action!Positions, status : Action!Statuses] /\ step'.at = "status"
          /\ step'.status = Action!NoStatus
      BY <2>1, <3>2 DEF Action!Positions
    <3>4. Action!TypeOK'
      BY <3>1, <3>3 DEF Action!TypeOK
    <3>5. PhaseInv' /\ InstallInv'
      BY <3>1, <3>3 DEF PhaseInv, InstallInv, SourceFits
    <3>6. StatusInv'
      BY <3>1, <3>3 DEF StatusInv, Backed, Action!NoStatus
    <3>7. ClaimInv'
      BY <3>1, <3>3 DEF ClaimInv, PhaseInv, Action!Passes, Action!Kept, Action!Status
    <3> QED
      BY <3>4, <3>5, <3>6, <3>7
  <2>2. CASE \E r \in Action!Runs :
               /\ cli' = r
               /\ evidence' = [evidence EXCEPT !.run = (r.left # "nothing")]
               /\ step' = [at |-> "logs", status |->
                            [Action!NoStatus EXCEPT !.launched = TRUE, !.exit = r.exit]]
    <3>1. PICK r \in Action!Runs :
            /\ cli' = r
            /\ evidence' = [evidence EXCEPT !.run = (r.left # "nothing")]
            /\ step' = [at |-> "logs", status |->
                         [Action!NoStatus EXCEPT !.launched = TRUE, !.exit = r.exit]]
      BY <2>2
    <3>2. UNCHANGED <<given, outcome, install, uploaded, summary, comment, cuts>>
          /\ step.at = "run"
      BY <1>7 DEF Action!Launch
    <3>3. PICK b \in BOOLEAN : b = (r.left # "nothing")
      OBVIOUS
    <3>4. /\ evidence' \in Action!Directories /\ evidence'.run = b
          /\ evidence'.status = evidence.status
      <4>1. evidence' = [evidence EXCEPT !.run = b]
        BY <3>1, <3>3
      <4>2. evidence \in Action!Directories
        BY DEF Action!TypeOK
      <4> QED
        BY <4>1, <4>2 DEF Action!Directories
    <3>5. /\ step'.at = "logs" /\ step'.status.exit = r.exit /\ ~ step'.status.complete
          /\ step'.status.verdict = "none" /\ ~ step'.status.report
          /\ step' \in [at : Action!Positions, status : Action!Statuses]
      <4>1. [Action!NoStatus EXCEPT !.launched = TRUE, !.exit = r.exit] \in Action!Statuses
        BY DEF Action!NoStatus, Action!Statuses, Action!Verdicts, Action!Runs
      <4> QED
        BY <3>1, <4>1 DEF Action!NoStatus, Action!Positions
    <3>6. Action!TypeOK'
      BY <3>1, <3>2, <3>4, <3>5 DEF Action!TypeOK
    <3>7. PhaseInv' /\ InstallInv'
      BY <3>2, <3>5 DEF PhaseInv, InstallInv, SourceFits
    <3>8. StatusInv'
      <4>1. evidence'.status = Action!NoStatus
        BY <3>2, <3>4 DEF StatusInv
      <4>2. Backed(evidence.status)'
        BY <4>1 DEF Backed, Action!NoStatus
      <4>3. cli' = r /\ (r.left # "nothing" => evidence'.run)
        BY <3>1, <3>3, <3>4
      <4> QED
        BY <3>5, <4>1, <4>2, <4>3 DEF StatusInv
    <3>9. ClaimInv'
      BY <3>2, <3>4, <3>5 DEF ClaimInv, PhaseInv
    <3> QED
      BY <3>6, <3>7, <3>8, <3>9
  <2> QED
    BY <1>7, <2>1, <2>2 DEF Action!Launch
<1>8. CASE Action!Logs
  <2>1. Action!TypeOK'
    BY <1>8, AfterFacts, ZenonT(60) DEF Action!Logs, Action!Directories, Action!At, Action!TypeOK,
       Action!Steps, Action!Positions
  <2>2. PhaseInv'
    BY <1>8, AfterFacts DEF Action!Logs, Action!Directories, Action!At, Action!TypeOK,
       PhaseInv, Action!Steps
  <2>3. InstallInv'
    BY <1>8, AfterFacts DEF Action!Logs, Action!Directories, Action!At, Action!TypeOK,
       InstallInv, SourceFits, Action!Steps, PhaseInv
  <2>4. StatusInv'
    BY <1>8, AfterFacts DEF Action!Logs, Action!Directories, Action!At, Action!TypeOK,
       StatusInv, Backed, Action!Steps
  <2>5. ClaimInv'
    BY <1>8, AfterFacts DEF Action!Logs, Action!Directories, Action!At, Action!TypeOK,
       ClaimInv, Action!Steps, PhaseInv, StatusInv, Backed, Action!Passes, Action!Kept,
       Action!Status
  <2> QED
    BY <2>1, <2>2, <2>3, <2>4, <2>5
<1>9. CASE Action!Parse
  <2>1. Action!TypeOK'
    <3>1. /\ step.status \in Action!Statuses /\ cli \in Action!Runs
          /\ step \in [at : Action!Positions, status : Action!Statuses]
      BY DEF Action!TypeOK
    <3>2. PICK b \in BOOLEAN : b = (cli.left # "files")
      OBVIOUS
    <3>3. /\ Action!Partial \in Action!Statuses
          /\ [Action!Partial EXCEPT !.schedule = TRUE] \in Action!Statuses
      BY <3>1, <3>2 DEF Action!Partial, Action!Statuses
    <3>4. Action!Complete \in Action!Statuses
      BY <3>1 DEF Action!Complete, Action!Statuses, Action!Runs, Action!Verdicts
    <3> HIDE DEF Action!Statuses
    <3>5. step' \in [at : Action!Positions, status : Action!Statuses] /\ step'.at # "comment"
          /\ step'.at # "gate"
      BY <1>9, <3>1, <3>3, <3>4 DEF Action!Parse, Action!Positions
    <3> QED
      BY <1>9, <3>5 DEF Action!Parse, Action!TypeOK
  <2>2. PhaseInv'
    BY <1>9, AfterFacts DEF Action!Parse, Action!Complete, Action!Invalid,
       Action!Partial, Action!Statuses, Action!Runs, Action!Verdicts, Action!At,
       Action!TypeOK, PhaseInv, Action!Steps
  <2>3. InstallInv'
    BY <1>9, AfterFacts DEF Action!Parse, Action!Complete, Action!Invalid,
       Action!Partial, Action!Statuses, Action!Runs, Action!Verdicts, Action!At,
       Action!TypeOK, InstallInv, SourceFits, Action!Steps, PhaseInv
  <2>4. StatusInv'
    BY <1>9, AfterFacts DEF Action!Parse, Action!Complete, Action!Invalid,
       Action!Partial, Action!Statuses, Action!Runs, Action!Verdicts, Action!At,
       Action!TypeOK, StatusInv, Backed, Action!Steps
  <2>5. ClaimInv'
    BY <1>9, AfterFacts DEF Action!Parse, Action!Complete, Action!Invalid,
       Action!Partial, Action!Statuses, Action!Runs, Action!Verdicts, Action!At,
       Action!TypeOK, ClaimInv, Action!Steps, PhaseInv, StatusInv, Backed, Action!Passes,
       Action!Kept, Action!Status
  <2> QED
    BY <2>1, <2>2, <2>3, <2>4, <2>5
<1>10. CASE Action!CopySchedule
  <2>1. /\ step.at = "copy" /\ cli.left = "all" /\ evidence.run /\ evidence.logs
        /\ step.status.exit = cli.exit /\ evidence.status = Action!NoStatus
        /\ ~ step.status.complete /\ step.status.verdict = "none"
        /\ evidence \in Action!Directories /\ step.status \in Action!Statuses
        /\ UNCHANGED <<given, outcome, install, cli, uploaded, summary, comment, cuts>>
    BY <1>10 DEF Action!CopySchedule, StatusInv, Action!TypeOK
  <2>2. /\ Action!Complete \in Action!Statuses /\ Action!Complete.complete
        /\ Action!Complete.exit = cli.exit /\ Action!Complete.version = cli.version
        /\ Action!Complete.verdict = cli.verdict
    BY <2>1 DEF Action!Complete, Action!Statuses, Action!Runs, Action!Verdicts, Action!TypeOK
  <2>3. /\ evidence' \in Action!Directories /\ evidence'.run /\ evidence'.logs
        /\ evidence'.status = Action!NoStatus
        /\ step' \in [at : Action!Positions, status : Action!Statuses] /\ step'.at = "status"
        /\ \/ step'.status = step.status
           \/ step'.status = Action!Complete /\ evidence'.schedule
    <3>1. CASE /\ evidence' = [evidence EXCEPT !.schedule = TRUE]
               /\ step' = [at |-> "status", status |-> Action!Complete]
      BY <2>1, <2>2, <3>1 DEF Action!Directories, Action!Positions
    <3>2. CASE Action!At("status") /\ UNCHANGED evidence
      BY <2>1, <3>2 DEF Action!At, Action!TypeOK, Action!Positions
    <3> QED
      BY <1>10, <3>1, <3>2 DEF Action!CopySchedule
  <2>4. Action!TypeOK'
    BY <2>1, <2>3 DEF Action!TypeOK
  <2>5. PhaseInv' /\ InstallInv'
    BY <2>1, <2>3 DEF PhaseInv, InstallInv, SourceFits
  <2>6. StatusInv'
    <3>1. Backed(evidence.status)'
      BY <2>3 DEF Backed, Action!NoStatus
    <3>2. Backed(step.status)'
      BY <2>1, <2>2, <2>3 DEF Backed
    <3> QED
      BY <2>3, <3>1, <3>2 DEF StatusInv
  <2>7. ClaimInv'
    BY <2>1, <2>3 DEF ClaimInv, PhaseInv, Action!Passes, Action!Kept, Action!Status
  <2> QED
    BY <2>4, <2>5, <2>6, <2>7
<1>11. CASE Action!WriteStatus
  <2>1. Action!TypeOK'
    <3>1. [step.status EXCEPT !.written = TRUE] \in Action!Statuses
      BY DEF Action!Statuses, Action!TypeOK
    <3>2. evidence' \in Action!Directories
      BY <1>11, <3>1 DEF Action!WriteStatus, Action!Directories, Action!TypeOK
    <3>3. step' \in [at : Action!Positions, status : Action!Statuses] /\ step'.at = "upload"
          /\ outcome' \in [Action!Steps -> {"none", "success", "failure", "skipped"}]
      BY <1>11, AfterFacts DEF Action!WriteStatus, Action!Steps
    <3> QED
      BY <1>11, <3>2, <3>3 DEF Action!WriteStatus, Action!TypeOK
  <2>2. PhaseInv'
    BY <1>11, AfterFacts DEF Action!WriteStatus, Action!Directories, Action!Statuses,
       Action!At, Action!TypeOK, PhaseInv, Action!Steps
  <2>3. InstallInv'
    BY <1>11, AfterFacts DEF Action!WriteStatus, Action!Directories, Action!Statuses,
       Action!At, Action!TypeOK, InstallInv, SourceFits, Action!Steps, PhaseInv
  <2>4. StatusInv'
    BY <1>11, AfterFacts DEF Action!WriteStatus, Action!Directories, Action!Statuses,
       Action!At, Action!TypeOK, StatusInv, Backed, Action!Steps
  <2>5. ClaimInv'
    BY <1>11, AfterFacts DEF Action!WriteStatus, Action!Directories, Action!Statuses,
       Action!At, Action!TypeOK, ClaimInv, Action!Steps, PhaseInv, StatusInv, Backed,
       Action!Passes, Action!Kept, Action!Status
  <2> QED
    BY <2>1, <2>2, <2>3, <2>4, <2>5
<1>12. CASE Action!Upload
  <2>1. Action!TypeOK'
    BY <1>12, AfterFacts DEF Action!Upload, Action!At, Action!TypeOK, Action!Steps,
       Action!Positions
  <2>2. PhaseInv'
    BY <1>12, AfterFacts DEF Action!Upload, Action!At, Action!TypeOK, PhaseInv,
       Action!Steps
  <2>3. InstallInv'
    BY <1>12, AfterFacts DEF Action!Upload, Action!At, Action!TypeOK, InstallInv,
       SourceFits, Action!Steps, PhaseInv
  <2>4. StatusInv'
    BY <1>12, AfterFacts DEF Action!Upload, Action!At, Action!TypeOK, StatusInv, Backed,
       Action!Steps
  <2>5. ClaimInv'
    BY <1>12, AfterFacts DEF Action!Upload, Action!At, Action!TypeOK, ClaimInv,
       Action!Steps, PhaseInv, StatusInv, Backed, Action!Passes, Action!Kept, Action!Status
  <2> QED
    BY <2>1, <2>2, <2>3, <2>4, <2>5
<1>13. CASE Action!Summary
  <2>1. Action!TypeOK'
    BY <1>13, AfterFacts DEF Action!Summary, Action!Kept, Action!Status,
       Action!Summaries, Action!Statuses, Action!Directories, Action!At, Action!TypeOK,
       Action!Steps, Action!Positions
  <2>2. PhaseInv'
    BY <1>13, AfterFacts DEF Action!Summary, Action!Kept, Action!Status,
       Action!Summaries, Action!Statuses, Action!Directories, Action!At, Action!TypeOK,
       PhaseInv, Action!Steps
  <2>3. InstallInv'
    BY <1>13, AfterFacts DEF Action!Summary, Action!Kept, Action!Status,
       Action!Summaries, Action!Statuses, Action!Directories, Action!At, Action!TypeOK,
       InstallInv, SourceFits, Action!Steps, PhaseInv
  <2>4. StatusInv'
    BY <1>13, AfterFacts DEF Action!Summary, Action!Kept, Action!Status,
       Action!Summaries, Action!Statuses, Action!Directories, Action!At, Action!TypeOK,
       StatusInv, Backed, Action!Steps
  <2>5. ClaimInv'
    BY <1>13, AfterFacts DEF Action!Summary, Action!Kept, Action!Status,
       Action!Summaries, Action!Statuses, Action!Directories, Action!At, Action!TypeOK,
       ClaimInv, Action!Steps, PhaseInv, StatusInv, Backed, Action!Passes
  <2> QED
    BY <2>1, <2>2, <2>3, <2>4, <2>5
<1>14. CASE Action!DecideComment
  <2>1. Action!TypeOK'
    <3>1. UNCHANGED <<given, install, cli, evidence, uploaded, summary, cuts>>
          /\ step.at = "comment"
      BY <1>14 DEF Action!DecideComment
    <3>2. CASE Action!At("post") /\ UNCHANGED <<comment, outcome>>
      BY <3>1, <3>2 DEF Action!At, Action!TypeOK, Action!Positions
    <3>3. CASE /\ \E o \in {"disabled", "skipped"} :
                    comment' = [Action!NoComment EXCEPT !.outcome = o]
               /\ Action!After("comment", "success")
      <4>1. comment' \in Action!Comments
        BY <3>3 DEF Action!NoComment, Action!Comments, Action!Verdicts
      <4>2. step' \in [at : Action!Positions, status : Action!Statuses] /\ step'.at = "gate"
            /\ outcome' \in [Action!Steps -> {"none", "success", "failure", "skipped"}]
            /\ outcome'["summary"] = outcome["summary"]
        BY <3>3, AfterFacts DEF Action!Steps
      <4> QED
        BY <3>1, <4>1, <4>2 DEF Action!TypeOK, PhaseInv
    <3> QED
      BY <1>14, <3>2, <3>3 DEF Action!DecideComment
  <2>2. PhaseInv'
    BY <1>14, AfterFacts DEF Action!DecideComment, Action!Status, Action!Comments,
       Action!NoComment, Action!Verdicts, Action!At, Action!TypeOK, PhaseInv, Action!Steps
  <2>3. InstallInv'
    BY <1>14, AfterFacts DEF Action!DecideComment, Action!Status, Action!Comments,
       Action!NoComment, Action!Verdicts, Action!At, Action!TypeOK, InstallInv, SourceFits,
       Action!Steps, PhaseInv
  <2>4. StatusInv'
    BY <1>14, AfterFacts DEF Action!DecideComment, Action!Status, Action!Comments,
       Action!NoComment, Action!Verdicts, Action!At, Action!TypeOK, StatusInv, Backed,
       Action!Steps
  <2>5. ClaimInv'
    BY <1>14, AfterFacts DEF Action!DecideComment, Action!Status, Action!Comments,
       Action!NoComment, Action!Verdicts, Action!At, Action!TypeOK, ClaimInv, Action!Steps,
       PhaseInv, StatusInv, Backed, Action!Passes, Action!Kept
  <2> QED
    BY <2>1, <2>2, <2>3, <2>4, <2>5
<1>15. CASE Action!PostComment
  <2>1. Action!TypeOK'
    <3>1. UNCHANGED <<given, install, cli, evidence, uploaded, summary, cuts>>
          /\ step.at = "post"
      BY <1>15 DEF Action!PostComment
    <3>2. step' \in [at : Action!Positions, status : Action!Statuses] /\ step'.at = "gate"
          /\ outcome' \in [Action!Steps -> {"none", "success", "failure", "skipped"}]
          /\ outcome'["summary"] = outcome["summary"]
      BY <1>15, AfterFacts DEF Action!PostComment, Action!Steps
    <3>3. Action!Body \in Action!Comments
      <4>1. PICK kept \in BOOLEAN : kept = Action!Kept
        BY DEF Action!Kept
      <4>2. PICK replay \in BOOLEAN : replay = (Action!Kept /\ Action!Status.schedule)
        OBVIOUS
      <4>3. Action!Body = [outcome |-> "posted", there |-> TRUE, evidence |-> kept,
                           verdict |-> Action!Status.verdict, replay |-> replay,
                           embedded |-> given.fits]
        BY <4>1, <4>2 DEF Action!Body
      <4>4. Action!Status.verdict \in Action!Verdicts /\ given.fits \in BOOLEAN
        BY DEF Action!TypeOK, Action!Directories, Action!Statuses, Action!Status,
           Action!Inputs
      <4> QED
        BY <4>3, <4>4 DEF Action!Comments
    <3>4. comment' \in Action!Comments
      BY <1>15, <3>3 DEF Action!PostComment, Action!NoComment, Action!Comments,
         Action!Verdicts
    <3> QED
      BY <3>1, <3>2, <3>4 DEF Action!TypeOK, PhaseInv
  <2>2. PhaseInv'
    BY <1>15, AfterFacts DEF Action!PostComment, Action!Body, Action!Kept,
       Action!Status, Action!Comments, Action!NoComment, Action!Verdicts, Action!Statuses,
       Action!Directories, Action!Inputs, Action!At, Action!TypeOK, PhaseInv, Action!Steps
  <2>3. InstallInv'
    BY <1>15, AfterFacts DEF Action!PostComment, Action!Body, Action!Kept,
       Action!Status, Action!Comments, Action!NoComment, Action!Verdicts, Action!Statuses,
       Action!Directories, Action!Inputs, Action!At, Action!TypeOK, InstallInv, SourceFits,
       Action!Steps, PhaseInv
  <2>4. StatusInv'
    BY <1>15, AfterFacts DEF Action!PostComment, Action!Body, Action!Kept,
       Action!Status, Action!Comments, Action!NoComment, Action!Verdicts, Action!Statuses,
       Action!Directories, Action!Inputs, Action!At, Action!TypeOK, StatusInv, Backed,
       Action!Steps
  <2>5. ClaimInv'
    BY <1>15, AfterFacts DEF Action!PostComment, Action!Body, Action!Kept,
       Action!Status, Action!Comments, Action!NoComment, Action!Verdicts, Action!Statuses,
       Action!Directories, Action!Inputs, Action!At, Action!TypeOK, ClaimInv, Action!Steps,
       PhaseInv, StatusInv, Backed, Action!Passes
  <2> QED
    BY <2>1, <2>2, <2>3, <2>4, <2>5
<1>16. CASE Action!Gate
  <2>1. Action!TypeOK'
    BY <1>16, AfterFacts DEF Action!Gate, Action!Passes, Action!Kept, Action!Status,
       Action!At, Action!TypeOK, Action!Steps, Action!Positions
  <2>2. PhaseInv'
    BY <1>16, AfterFacts DEF Action!Gate, Action!Passes, Action!Kept, Action!Status,
       Action!At, Action!TypeOK, PhaseInv, Action!Steps
  <2>3. InstallInv'
    BY <1>16, AfterFacts DEF Action!Gate, Action!Passes, Action!Kept, Action!Status,
       Action!At, Action!TypeOK, InstallInv, SourceFits, Action!Steps, PhaseInv
  <2>4. StatusInv'
    BY <1>16, AfterFacts DEF Action!Gate, Action!Passes, Action!Kept, Action!Status,
       Action!At, Action!TypeOK, StatusInv, Backed, Action!Steps
  <2>5. ClaimInv'
    BY <1>16, AfterFacts DEF Action!Gate, Action!Passes, Action!Kept, Action!Status,
       Action!At, Action!TypeOK, ClaimInv, Action!Steps, PhaseInv, StatusInv, Backed
  <2> QED
    BY <2>1, <2>2, <2>3, <2>4, <2>5
<1>17. CASE Action!Cut
  <2>1. Action!TypeOK'
    <3>1. PICK s \in Action!Steps :
            /\ Action!After(s, "failure")
            /\ CASE s = "install" -> step.at \in {"install", "checksums", "archive", "extract", "installed"}
                 [] s = "run" -> step.at \in {"run", "logs", "parse", "copy", "status"}
                 [] s = "comment" -> step.at \in {"comment", "post"}
                 [] OTHER -> step.at = s
            /\ IF s = "install"
                 THEN \E kept \in {"none", "failed"}: evidence' = [evidence EXCEPT !.install = kept]
                 ELSE UNCHANGED evidence
      BY <1>17 DEF Action!Cut
    <3>2. evidence' \in Action!Directories
      BY <3>1 DEF Action!Directories, Action!TypeOK
    <3>3. step' \in [at : Action!Positions, status : Action!Statuses]
          /\ outcome' \in [Action!Steps -> {"none", "success", "failure", "skipped"}]
      BY <3>1, AfterFacts
    <3>4. cuts' \in 0 .. MaxCuts
      BY <1>17 DEF Action!Cut, Action!TypeOK, Action!GateAssumption
    <3>5. step'.at \in {"comment", "gate"} => outcome'["summary"] # "none"
      BY <3>1, AfterFacts DEF Action!TypeOK, PhaseInv, Action!Steps
    <3> QED
      BY <1>17, <3>2, <3>3, <3>4, <3>5 DEF Action!Cut, Action!TypeOK
  <2>2. PhaseInv'
    BY <1>17, AfterFacts DEF Action!Cut, Action!Directories, Action!At, Action!TypeOK,
       PhaseInv, Action!Steps
  <2>3. InstallInv'
    BY <1>17, AfterFacts DEF Action!Cut, Action!Directories, Action!At, Action!TypeOK,
       InstallInv, SourceFits, Action!Steps, PhaseInv
  <2>4. StatusInv'
    BY <1>17, AfterFacts DEF Action!Cut, Action!Directories, Action!At, Action!TypeOK,
       StatusInv, Backed, Action!Steps
  <2>5. ClaimInv'
    BY <1>17, AfterFacts DEF Action!Cut, Action!Directories, Action!At, Action!TypeOK,
       ClaimInv, Action!Steps, PhaseInv, StatusInv, Backed, Action!Passes, Action!Kept,
       Action!Status
  <2> QED
    BY <2>1, <2>2, <2>3, <2>4, <2>5
<1> QED
  BY <1>1, <1>2, <1>3, <1>4, <1>5, <1>6, <1>7, <1>8, <1>9, <1>10, <1>11, <1>12, <1>13,
     <1>14, <1>15, <1>16, <1>17 DEF Action!Next, Action!Runner, Action!InstallStep,
     Action!RunStep

(* A step of another program, or none, leaves it alone.                      *)
LEMMA GateIdle == GateInv /\ UNCHANGED Action!vars => GateInv'
<1> SUFFICES ASSUME GateInv, UNCHANGED Action!vars PROVE GateInv'
  OBVIOUS
<1>1. Action!TypeOK'
  BY DEF GateInv, Action!vars, Action!TypeOK
<1>2. PhaseInv' /\ InstallInv'
  BY DEF GateInv, Action!vars, PhaseInv, InstallInv, SourceFits
<1>3. StatusInv' /\ ClaimInv'
  BY DEF GateInv, Action!vars, StatusInv, Backed, ClaimInv, Action!Passes, Action!Kept,
     Action!Status
<1>4. QED
  BY <1>1, <1>2, <1>3 DEF GateInv

(* It says what the decision rests on.                                       *)
LEMMA GateInvSound == GateInv => Action!DecisionIsSound
<1> SUFFICES ASSUME GateInv PROVE Action!DecisionIsSound
  OBVIOUS
<1>1. Action!PassIsEarned
  BY DEF GateInv, StatusInv, Backed, ClaimInv, Action!PassIsEarned, Action!Passed,
     Action!Passes, Action!Kept, Action!Status
<1>2. Action!LaunchedIsVerified
  BY DEF GateInv, InstallInv, SourceFits, Action!LaunchedIsVerified
<1>3. Action!ClaimsHold
  BY DEF GateInv, StatusInv, Backed, ClaimInv, Action!ClaimsHold, Action!NoEvidence
<1>4. QED
  BY <1>1, <1>2, <1>3 DEF Action!DecisionIsSound

(* The action of a pull request decides soundly: the gate is green only      *)
(* behind a complete run that passed or was not required to, the binary that *)
(* ran was verified, and comment and summary claim no evidence that was not  *)
(* uploaded, wherever its steps are cut off (actions-gate.py, action.yml).   *)
THEOREM GateCorrect == Action!Spec => [](Action!TypeOK /\ Action!DecisionIsSound)
<1>1. Action!GateAssumption
  BY InstancesAssumption
<1>2. GateInv /\ [Action!Next]_(Action!vars) => GateInv'
  BY <1>1, GateKept, GateIdle
<1>3. GateInv => Action!TypeOK /\ Action!DecisionIsSound
  BY GateInvSound DEF GateInv
<1>4. QED
  BY <1>1, <1>2, <1>3, GateStarts, PTL DEF Action!Spec

(* The same of the sum that the run explores: other programs' steps leave    *)
(* the action alone.                                                         *)
THEOREM GateEarnedCorrect == MCSpec => []GateEarned
<1> DEFINE OfAction == who = "action" => GateInv
<1>1. MCInit => OfAction
  BY InstancesAssumption, GateStarts DEF MCInit, Started
<1>2. OfAction /\ [MCNext]_all => OfAction'
  <2> SUFFICES ASSUME OfAction, [MCNext]_all, who' = "action" PROVE GateInv'
    OBVIOUS
  <2>1. CASE ActionNext
    BY <2>1, InstancesAssumption, GateKept DEF ActionNext
  <2>2. CASE ~ ActionNext
    <3>1. UNCHANGED <<who, steps>>
      BY <2>2 DEF MCNext, CentralNext, PilotNext, WireNext, all
    <3>2. UNCHANGED Action!vars
      BY <3>1 DEF steps, Action!vars
    <3> QED
      BY <3>1, <3>2, GateIdle
  <2> QED
    BY <2>1, <2>2
<1>3. OfAction => GateEarned
  BY GateInvSound DEF GateInv, GateEarned
<1>4. QED
  BY <1>1, <1>2, <1>3, PTL DEF MCSpec

-----------------------------------------------------------------------------
(* The local pilot.                                                          *)

(* A trial that was looked at after its gate was launched, or failed to be.  *)
Finished(t) == t.checked /\ (t.there \/ t.error)

(* What the collector knows of its host at each position.                    *)
HostInv ==
  /\ gate = "running" =>
       me.pc \in {"started", "wait", "grace", "kill", "swallow", "except", "seal", "done"}
  /\ me.pc \in {"idle", "trial", "spawn"} => left = {}
  /\ me.pc = "cleanup" => left \cap {"container"} \subseteq me.remains
  /\ me.pc \in {"inspect", "judge"} => left \subseteq Pilot!This.remains
  /\ me.pc \in {"pair", "status"} /\ me.stopped = "none" => left = {}

(* What it has retained of the pair under way, and of those before.          *)
PairInv ==
  /\ me.pc \notin {"pair", "status", "except", "seal", "done"} => me.stopped = "none"
  /\ me.pc \in {"started", "wait", "grace", "kill"} => Pilot!This.there
  /\ me.pc \in {"receipt", "settle", "cleanup"} => Pilot!This.there \/ Pilot!This.error
  /\ me.pc \in {"inspect", "judge"} => Finished(Pilot!This)
  /\ me.arm = 2 => Finished(trial[me.block][Pilot!ArmOf(me.block, 1)])
  /\ me.pc = "pair" /\ me.stopped = "none" => me.arm = 2 /\ Finished(Pilot!This)
  /\ me.pc = "status" /\ me.stopped = "none" => Pilot!Matched(me.block)
  /\ \A b \in 1 .. me.block - 1 : Pilot!Matched(b)

(* A signal during a command is retained, is about to be, or ends the        *)
(* campaign.                                                                 *)
HitInv == \A b \in Pilot!Blocks, a \in Pilot!Arms : <<b, a>> \in hit =>
  \/ me.pc \in {"except", "seal", "done"}
  \/ trial[b][a].interrupted \/ trial[b][a].error
  \/ me.pc = "swallow" /\ b = me.block /\ a = Pilot!Arm

Whole == gate # "running" /\ hit = {} /\ \A b \in Pilot!Blocks : Pilot!Matched(b)

(* A status without a stop names a block that was passed; the last one is    *)
(* named only at the end of a whole campaign.                                *)
SealInv ==
  /\ me.pc \notin {"seal", "done"} /\ status.stopped = "none" => status.last < me.block
  /\ status = [stopped |-> "none", last |-> NBlocks] => me.pc \in {"seal", "done"} /\ Whole

PilotInv == Pilot!TypeOK /\ HostInv /\ PairInv /\ HitInv /\ SealInv

(* The two arms of a block are the two builds.                               *)
LEMMA ArmFacts ==
  ASSUME NEW b, NEW i \in 1 .. 2
  PROVE  /\ Pilot!ArmOf(b, i) \in Pilot!Arms
         /\ \A a \in Pilot!Arms : a = Pilot!ArmOf(b, 1) \/ a = Pilot!ArmOf(b, 2)
         /\ Pilot!ArmOf(b, 1) # Pilot!ArmOf(b, 2)
  BY DEF Pilot!ArmOf, Pilot!Arms

(* The trial under way is one of the bundle's.                               *)
LEMMA ThisFacts ==
  ASSUME Pilot!TypeOK
  PROVE  /\ me.block \in Pilot!Blocks /\ Pilot!Arm \in Pilot!Arms
         /\ Pilot!This \in Pilot!Trials
         /\ Pilot!This = trial[me.block][Pilot!Arm]
  BY ArmFacts DEF Pilot!TypeOK, Pilot!Arm, Pilot!This

(* A jump changes nothing but the position.                                  *)
LEMMA GotoFacts ==
  ASSUME Pilot!TypeOK, NEW p \in Pilot!Positions, Pilot!Goto(p)
  PROVE  /\ me' \in [pc : Pilot!Positions, block : Pilot!Blocks, arm : 1 .. 2,
                     remains : SUBSET Pilot!Leftovers, stopped : Pilot!Stops]
         /\ me'.pc = p
         /\ me'.block = me.block /\ me'.arm = me.arm
         /\ me'.remains = me.remains /\ me'.stopped = me.stopped
         /\ Pilot!Arm' = Pilot!Arm
         /\ Pilot!This' = trial'[me.block][Pilot!Arm]
  BY DEF Pilot!TypeOK, Pilot!Goto, Pilot!Arm, Pilot!ArmOf, Pilot!This

(* Keeping a trial replaces the one under way.                               *)
LEMMA KeepFacts ==
  ASSUME Pilot!TypeOK, NEW t \in Pilot!Trials, Pilot!Keep(t)
  PROVE  /\ trial' \in [Pilot!Blocks -> [Pilot!Arms -> Pilot!Trials]]
         /\ trial'[me.block][Pilot!Arm] = t
         /\ \A b \in Pilot!Blocks, a \in Pilot!Arms :
              b # me.block \/ a # Pilot!Arm => trial'[b][a] = trial[b][a]
<1>1. /\ trial \in [Pilot!Blocks -> [Pilot!Arms -> Pilot!Trials]]
      /\ me.block \in Pilot!Blocks /\ Pilot!Arm \in Pilot!Arms
  BY ThisFacts DEF Pilot!TypeOK
<1>2. trial' = [trial EXCEPT ![me.block] = [trial[me.block] EXCEPT ![Pilot!Arm] = t]]
  BY DEF Pilot!Keep
<1>3. [trial[me.block] EXCEPT ![Pilot!Arm] = t] \in [Pilot!Arms -> Pilot!Trials]
  BY <1>1
<1>4. QED
  BY <1>1, <1>2, <1>3

(* A block whose trials stay stays accepted.                                 *)
LEMMA MatchedKept ==
  ASSUME NEW b, \A a \in Pilot!Arms : trial'[b][a] = trial[b][a], Pilot!Matched(b)
  PROVE  Pilot!Matched(b)'
  BY DEF Pilot!Matched, Pilot!Arms, Pilot!Problem

(* The same of all blocks when no trial changes.                             *)
LEMMA SameTrials ==
  ASSUME UNCHANGED trial
  PROVE  \A b \in Pilot!Blocks : Pilot!Matched(b) => Pilot!Matched(b)'
  BY MatchedKept

(* What the host does leaves the collector's pairs alone.                    *)
LEMMA SameCollector ==
  ASSUME PairInv, HitInv, UNCHANGED <<me, trial, hit>>
  PROVE  PairInv' /\ HitInv' /\ Pilot!This' = Pilot!This
  BY DEF PairInv, HitInv, Finished, Pilot!This, Pilot!Arm, Pilot!ArmOf, Pilot!Matched,
     Pilot!Problem

(* Keeping the trial as it is changes nothing.                               *)
LEMMA SameKept ==
  ASSUME Pilot!TypeOK, UNCHANGED trial
  PROVE  Pilot!Keep(Pilot!This)
  BY ThisFacts DEF Pilot!TypeOK, Pilot!Keep

(* Replacing the trial under way leaves every other one, and the pairs       *)
(* before it, as they were.                                                  *)
LEMMA KeepStep ==
  ASSUME Pilot!PilotAssumption, PilotInv, NEW t \in Pilot!Trials, Pilot!Keep(t),
         me'.block = me.block, me'.arm = me.arm
  PROVE  /\ trial' \in [Pilot!Blocks -> [Pilot!Arms -> Pilot!Trials]]
         /\ \A b \in Pilot!Blocks : b > me'.block =>
              \A a \in Pilot!Arms : trial'[b][a] = Pilot!NoTrial
         /\ Pilot!This' = t /\ Pilot!Arm' = Pilot!Arm
         /\ \A b \in 1 .. me'.block - 1 : Pilot!Matched(b)'
         /\ me'.arm = 2 => Finished(trial'[me'.block][Pilot!ArmOf(me'.block, 1)])
         /\ \A b \in Pilot!Blocks, a \in Pilot!Arms :
              trial'[b][a] = IF b = me.block /\ a = Pilot!Arm THEN t ELSE trial[b][a]
<1>1. /\ me.block \in 1 .. NBlocks /\ NBlocks \in Nat /\ Pilot!Blocks = 1 .. NBlocks
      /\ me.arm \in 1 .. 2
  BY ThisFacts DEF PilotInv, Pilot!TypeOK, Pilot!Blocks, Pilot!PilotAssumption
<1>2. Pilot!Arm' = Pilot!Arm /\ Pilot!This' = trial'[me.block][Pilot!Arm]
  BY DEF Pilot!Arm, Pilot!ArmOf, Pilot!This
<1>3. /\ trial' \in [Pilot!Blocks -> [Pilot!Arms -> Pilot!Trials]]
      /\ trial'[me.block][Pilot!Arm] = t
      /\ \A b \in Pilot!Blocks, a \in Pilot!Arms :
           b # me.block \/ a # Pilot!Arm => trial'[b][a] = trial[b][a]
  BY KeepFacts DEF PilotInv
<1>4. \A b \in Pilot!Blocks : b > me'.block => \A a \in Pilot!Arms : trial'[b][a] = Pilot!NoTrial
  BY <1>1, <1>3 DEF PilotInv, Pilot!TypeOK
<1>5. \A b \in 1 .. me'.block - 1 : Pilot!Matched(b)'
  <2> SUFFICES ASSUME NEW b \in 1 .. me'.block - 1 PROVE Pilot!Matched(b)'
    OBVIOUS
  <2>1. b \in Pilot!Blocks /\ b # me.block /\ Pilot!Matched(b)
    BY <1>1 DEF PilotInv, PairInv
  <2> QED
    BY <1>3, <2>1, MatchedKept
<1>6. me'.arm = 2 => Finished(trial'[me'.block][Pilot!ArmOf(me'.block, 1)])
  <2> SUFFICES ASSUME me.arm = 2 PROVE Finished(trial'[me.block][Pilot!ArmOf(me.block, 1)])
    OBVIOUS
  <2>1. Pilot!ArmOf(me.block, 1) \in Pilot!Arms /\ Pilot!ArmOf(me.block, 1) # Pilot!Arm
    BY ArmFacts DEF Pilot!Arm
  <2> QED
    BY <1>1, <1>3, <2>1 DEF PilotInv, PairInv
<1>7. QED
  BY <1>2, <1>3, <1>4, <1>5, <1>6

(* A step of the command that replaces the trial under way: what it must     *)
(* respect so that the invariant survives.                                   *)
LEMMA KeepingKept ==
  ASSUME Pilot!PilotAssumption, PilotInv, NEW t \in Pilot!Trials, Pilot!Keep(t),
         NEW p \in Pilot!Positions, me' = [me EXCEPT !.pc = p],
         me.pc \in {"spawn", "started", "wait", "grace", "kill", "swallow", "cleanup"},
         p \in {"started", "wait", "grace", "kill", "swallow", "receipt", "inspect"},
         Pilot!This.there => t.there, Pilot!This.error => t.error,
         Pilot!This.interrupted => t.interrupted,
         p \in {"started", "wait", "grace", "kill"} => t.there,
         p = "receipt" => t.there \/ t.error, p = "inspect" => Finished(t),
         me.pc = "swallow" => t.error \/ p = "swallow",
         UNCHANGED <<status, sums>>, signals' \in 0 .. MaxSignals, orphan' \in BOOLEAN,
         gate' \in {"none", "running", "exited"}, left' \subseteq Pilot!Leftovers,
         hit' \subseteq Pilot!Blocks \X Pilot!Arms,
         hit' \subseteq hit \cup {<<me.block, Pilot!Arm>>},
         hit' \subseteq hit \/ p = "swallow" \/ t.interrupted,
         gate' = "running" => p \in {"started", "wait", "grace", "kill", "swallow"},
         p = "inspect" => left' \subseteq t.remains
  PROVE  PilotInv'
<1>1. /\ me' \in [pc : Pilot!Positions, block : Pilot!Blocks, arm : 1 .. 2,
                  remains : SUBSET Pilot!Leftovers, stopped : Pilot!Stops]
      /\ me'.pc = p
      /\ me'.block = me.block /\ me'.arm = me.arm /\ me'.stopped = me.stopped
  BY DEF PilotInv, Pilot!TypeOK
<1>2. /\ trial' \in [Pilot!Blocks -> [Pilot!Arms -> Pilot!Trials]]
      /\ \A b \in Pilot!Blocks : b > me'.block =>
           \A a \in Pilot!Arms : trial'[b][a] = Pilot!NoTrial
      /\ Pilot!This' = t /\ Pilot!Arm' = Pilot!Arm
      /\ \A b \in 1 .. me'.block - 1 : Pilot!Matched(b)'
      /\ me'.arm = 2 => Finished(trial'[me'.block][Pilot!ArmOf(me'.block, 1)])
      /\ \A b \in Pilot!Blocks, a \in Pilot!Arms :
           trial'[b][a] = IF b = me.block /\ a = Pilot!Arm THEN t ELSE trial[b][a]
  BY <1>1, KeepStep
<1>3. Pilot!TypeOK'
  BY <1>1, <1>2 DEF PilotInv, Pilot!TypeOK
<1>4. HostInv'
  BY <1>1, <1>2 DEF HostInv
<1>5. PairInv'
  <2>1. me.stopped = "none"
    BY DEF PilotInv, PairInv
  <2> QED
    BY <1>1, <1>2, <2>1 DEF PairInv, Finished
<1>6. HitInv'
  <2> SUFFICES ASSUME NEW b \in Pilot!Blocks, NEW a \in Pilot!Arms, <<b, a>> \in hit'
               PROVE  \/ trial'[b][a].interrupted \/ trial'[b][a].error
                      \/ p = "swallow" /\ b = me.block /\ a = Pilot!Arm
    BY <1>1, <1>2 DEF HitInv
  <2>1. CASE <<b, a>> \in hit
    <3>1. CASE b = me.block /\ a = Pilot!Arm
      <4>1. trial'[b][a] = t /\ trial[b][a] = Pilot!This
        BY <1>2, <3>1 DEF Pilot!This
      <4> QED
        BY <2>1, <3>1, <4>1 DEF PilotInv, HitInv
    <3>2. CASE ~ (b = me.block /\ a = Pilot!Arm)
      <4>1. trial'[b][a] = trial[b][a]
        BY <1>2, <3>2
      <4> QED
        BY <2>1, <3>2, <4>1 DEF PilotInv, HitInv
    <3> QED
      BY <3>1, <3>2
  <2>2. CASE <<b, a>> \notin hit
    <3>1. b = me.block /\ a = Pilot!Arm /\ (p = "swallow" \/ t.interrupted)
      BY <2>2
    <3> QED
      BY <1>2, <3>1
  <2> QED
    BY <2>1, <2>2
<1>7. SealInv'
  BY <1>1 DEF PilotInv, SealInv
<1>8. QED
  BY <1>3, <1>4, <1>5, <1>6, <1>7 DEF PilotInv

(* The invariant holds when the pilot starts.                                *)
LEMMA PilotStarts == Pilot!PilotAssumption /\ Pilot!Init => PilotInv
<1> SUFFICES ASSUME Pilot!PilotAssumption, Pilot!Init PROVE PilotInv
  OBVIOUS
<1>1. Pilot!NoTrial \in Pilot!Trials
  BY DEF Pilot!PilotAssumption, Pilot!NoTrial, Pilot!Trials, Pilot!Exits
<1>2. me \in [pc : Pilot!Positions, block : Pilot!Blocks, arm : 1 .. 2,
              remains : SUBSET Pilot!Leftovers, stopped : Pilot!Stops]
  BY DEF Pilot!PilotAssumption, Pilot!Init, Pilot!Positions, Pilot!Blocks, Pilot!Stops
<1>3. trial \in [Pilot!Blocks -> [Pilot!Arms -> Pilot!Trials]]
      /\ \A b \in Pilot!Blocks, a \in Pilot!Arms : trial[b][a] = Pilot!NoTrial
  BY <1>1 DEF Pilot!Init
<1>4. Pilot!TypeOK
  <2>1. /\ status \in [stopped : Pilot!Stops \cup {"absent"}, last : Pilot!Blocks \cup {0}]
        /\ sums \in BOOLEAN /\ gate \in {"none", "running", "exited"} /\ orphan \in BOOLEAN
        /\ left \subseteq Pilot!Leftovers /\ hit \subseteq Pilot!Blocks \X Pilot!Arms
    BY DEF Pilot!Init
  <2>2. signals \in 0 .. MaxSignals
    BY DEF Pilot!Init, Pilot!PilotAssumption
  <2> QED
    BY <1>2, <1>3, <2>1, <2>2 DEF Pilot!TypeOK
<1>5. HostInv /\ HitInv
  BY DEF Pilot!Init, HostInv, HitInv
<1>6. PairInv /\ SealInv
  BY DEF Pilot!Init, PairInv, SealInv
<1>7. QED
  BY <1>4, <1>5, <1>6 DEF PilotInv

(* No step of the pilot breaks it.                                           *)
LEMMA PilotKept ==
  ASSUME Pilot!PilotAssumption, PilotInv, Pilot!Next PROVE PilotInv'
<1> USE DEF PilotInv
<1>0. /\ me.block \in 1 .. NBlocks /\ NBlocks \in Nat /\ Pilot!Blocks = 1 .. NBlocks
      /\ Pilot!This \in Pilot!Trials
  BY ThisFacts DEF Pilot!TypeOK, Pilot!Blocks, Pilot!PilotAssumption
<1>1. CASE Pilot!Admit
  <2>1. Pilot!TypeOK'
    BY <1>1, <1>0, ThisFacts, GotoFacts, SameTrials DEF Pilot!Admit, Pilot!TypeOK, Pilot!Positions
  <2>2. HostInv'
    BY <1>1, <1>0, ThisFacts, GotoFacts, SameTrials DEF Pilot!Admit, Pilot!TypeOK, HostInv,
       Pilot!Positions
  <2>3. PairInv'
    BY <1>1, <1>0, ThisFacts, GotoFacts, SameTrials DEF Pilot!Admit, Pilot!TypeOK, PairInv,
       Finished, Pilot!Positions
  <2>4. HitInv'
    BY <1>1, <1>0, ThisFacts, GotoFacts, SameTrials DEF Pilot!Admit, Pilot!TypeOK, HitInv,
       Pilot!Positions
  <2>5. SealInv'
    BY <1>1, <1>0, ThisFacts, GotoFacts, SameTrials DEF Pilot!Admit, Pilot!TypeOK, SealInv,
       Whole, Pilot!Positions
  <2> QED
    BY <2>1, <2>2, <2>3, <2>4, <2>5
<1>2. CASE Pilot!StartTrial
  <2>1. Pilot!TypeOK'
    BY <1>2, <1>0, ThisFacts, GotoFacts, SameTrials DEF Pilot!StartTrial, Pilot!TypeOK,
       Pilot!Positions
  <2>2. HostInv'
    BY <1>2, <1>0, ThisFacts, GotoFacts, SameTrials DEF Pilot!StartTrial, Pilot!TypeOK, HostInv,
       Pilot!Positions
  <2>3. PairInv'
    BY <1>2, <1>0, ThisFacts, GotoFacts, SameTrials DEF Pilot!StartTrial, Pilot!TypeOK, PairInv,
       Finished, Pilot!Positions
  <2>4. HitInv'
    BY <1>2, <1>0, ThisFacts, GotoFacts, SameTrials DEF Pilot!StartTrial, Pilot!TypeOK, HitInv,
       Pilot!Positions
  <2>5. SealInv'
    BY <1>2, <1>0, ThisFacts, GotoFacts, SameTrials DEF Pilot!StartTrial, Pilot!TypeOK, SealInv,
       Whole, Pilot!Positions
  <2> QED
    BY <2>1, <2>2, <2>3, <2>4, <2>5
<1>3. CASE Pilot!Spawn
  <2>1. [Pilot!This EXCEPT !.there = TRUE] \in Pilot!Trials
    BY <1>0 DEF Pilot!Trials, Pilot!Exits
  <2>2. PICK p \in {"started", "swallow"} :
          /\ me' = [me EXCEPT !.pc = p]
          /\ gate' = "running" \/ gate' = gate
    <3>1. CASE gate' = "running" /\ Pilot!Goto("started")
      BY <3>1 DEF Pilot!Goto
    <3>2. CASE gate' = gate /\ Pilot!Goto("swallow")
      BY <3>2 DEF Pilot!Goto
    <3> QED
      BY <1>3, <3>1, <3>2 DEF Pilot!Spawn
  <2> QED
    BY <1>3, <1>0, <2>1, <2>2, KeepingKept, ZenonT(60) DEF Pilot!Spawn, Pilot!Trials, Pilot!TypeOK, HostInv,
       Pilot!Positions
<1>4. CASE Pilot!Started
  <2>1. Pilot!TypeOK'
    BY <1>4, <1>0, ThisFacts, GotoFacts, SameTrials DEF Pilot!Started, Pilot!TypeOK,
       Pilot!Positions
  <2>2. HostInv'
    BY <1>4, <1>0, ThisFacts, GotoFacts, SameTrials DEF Pilot!Started, Pilot!TypeOK, HostInv,
       Pilot!Positions
  <2>3. PairInv'
    BY <1>4, <1>0, ThisFacts, GotoFacts, SameTrials DEF Pilot!Started, Pilot!TypeOK, PairInv,
       Finished, Pilot!Positions
  <2>4. HitInv'
    BY <1>4, <1>0, ThisFacts, GotoFacts, SameTrials DEF Pilot!Started, Pilot!TypeOK, HitInv,
       Pilot!Positions
  <2>5. SealInv'
    BY <1>4, <1>0, ThisFacts, GotoFacts, SameTrials DEF Pilot!Started, Pilot!TypeOK, SealInv,
       Whole, Pilot!Positions
  <2> QED
    BY <2>1, <2>2, <2>3, <2>4, <2>5
<1>5. CASE Pilot!Wait
  <2>1. me.pc = "wait" /\ Pilot!This.there
        /\ UNCHANGED <<status, sums, gate, left, orphan, signals, hit>>
    BY <1>5 DEF Pilot!Wait, PairInv
  <2>2. CASE gate = "exited" /\ Pilot!Goto("receipt") /\ UNCHANGED trial
    <3>1. Pilot!Keep(Pilot!This)
      BY <2>2, SameKept
    <3> QED
      BY <1>0, <2>1, <2>2, <3>1, KeepingKept DEF Pilot!Goto, Pilot!TypeOK, Pilot!Positions
  <2>3. CASE Pilot!Goto("grace") /\ Pilot!Keep([Pilot!This EXCEPT !.late = TRUE])
    <3>1. [Pilot!This EXCEPT !.late = TRUE] \in Pilot!Trials
      BY <1>0 DEF Pilot!Trials, Pilot!Exits
    <3> QED
      BY <1>0, <2>1, <2>3, <3>1, KeepingKept, ZenonT(60) DEF Pilot!Goto, Pilot!Trials, Pilot!TypeOK,
         Pilot!Positions
  <2> QED
    BY <1>5, <2>2, <2>3 DEF Pilot!Wait
<1>6. CASE Pilot!Grace
  <2>1. Pilot!TypeOK'
    BY <1>6, <1>0, ThisFacts, GotoFacts, SameTrials DEF Pilot!Grace, Pilot!TypeOK, Pilot!Positions
  <2>2. HostInv'
    BY <1>6, <1>0, ThisFacts, GotoFacts, SameTrials DEF Pilot!Grace, Pilot!TypeOK, HostInv,
       Pilot!Positions
  <2>3. PairInv'
    BY <1>6, <1>0, ThisFacts, GotoFacts, SameTrials DEF Pilot!Grace, Pilot!TypeOK, PairInv,
       Finished, Pilot!Positions
  <2>4. HitInv'
    BY <1>6, <1>0, ThisFacts, GotoFacts, SameTrials DEF Pilot!Grace, Pilot!TypeOK, HitInv,
       Pilot!Positions
  <2>5. SealInv'
    BY <1>6, <1>0, ThisFacts, GotoFacts, SameTrials DEF Pilot!Grace, Pilot!TypeOK, SealInv,
       Whole, Pilot!Positions
  <2> QED
    BY <2>1, <2>2, <2>3, <2>4, <2>5
<1>7. CASE Pilot!Kill
  <2>1. me.pc = "kill" /\ Pilot!This.there /\ me' = [me EXCEPT !.pc = "receipt"]
        /\ UNCHANGED <<status, sums, orphan, signals, hit>>
    BY <1>7 DEF Pilot!Kill, Pilot!Goto, PairInv
  <2>2. CASE gate = "running"
    <3>1. [Pilot!This EXCEPT !.exit = "other"] \in Pilot!Trials
      BY <1>0 DEF Pilot!Trials, Pilot!Exits
    <3>2. /\ gate' = "exited" /\ left' \subseteq Pilot!Leftovers
          /\ Pilot!Keep([Pilot!This EXCEPT !.exit = "other"])
      BY <1>7, <2>2 DEF Pilot!Kill, Pilot!Killed, Pilot!TypeOK
    <3> QED
      BY <1>0, <2>1, <3>1, <3>2, KeepingKept DEF Pilot!Trials, Pilot!TypeOK, Pilot!Positions
  <2>3. CASE gate # "running"
    <3>1. UNCHANGED <<gate, left, trial>>
      BY <1>7, <2>3 DEF Pilot!Kill, Pilot!Killed
    <3>2. Pilot!Keep(Pilot!This)
      BY <3>1, SameKept
    <3> QED
      BY <1>0, <2>1, <2>3, <3>1, <3>2, KeepingKept DEF Pilot!TypeOK, Pilot!Positions
  <2> QED
    BY <2>2, <2>3
<1>8. CASE Pilot!Swallow
  <2>1. me.pc = "swallow" /\ me' = [me EXCEPT !.pc = "receipt"]
        /\ UNCHANGED <<status, sums, orphan, signals, hit>>
    BY <1>8 DEF Pilot!Swallow, Pilot!Goto
  <2>2. CASE gate = "running"
    <3>1. [Pilot!This EXCEPT !.exit = "other", !.error = TRUE] \in Pilot!Trials
      BY <1>0 DEF Pilot!Trials, Pilot!Exits
    <3>2. /\ gate' = "exited" /\ left' \subseteq Pilot!Leftovers
          /\ Pilot!Keep([Pilot!This EXCEPT !.exit = "other", !.error = TRUE])
      BY <1>8, <2>2 DEF Pilot!Swallow, Pilot!TypeOK
    <3> QED
      BY <1>0, <2>1, <3>1, <3>2, KeepingKept DEF Pilot!Trials, Pilot!TypeOK, Pilot!Positions
  <2>3. CASE gate # "running"
    <3>1. [Pilot!This EXCEPT !.error = TRUE] \in Pilot!Trials
      BY <1>0 DEF Pilot!Trials, Pilot!Exits
    <3>2. UNCHANGED <<gate, left>> /\ Pilot!Keep([Pilot!This EXCEPT !.error = TRUE])
      BY <1>8, <2>3 DEF Pilot!Swallow
    <3> QED
      BY <1>0, <2>1, <2>3, <3>1, <3>2, KeepingKept DEF Pilot!Trials, Pilot!TypeOK,
         Pilot!Positions
  <2> QED
    BY <2>2, <2>3
<1>9. CASE Pilot!Receipt
  <2>1. Pilot!TypeOK'
    BY <1>9, <1>0, ThisFacts, GotoFacts, SameTrials DEF Pilot!Receipt, Pilot!TypeOK,
       Pilot!Positions
  <2>2. HostInv'
    BY <1>9, <1>0, ThisFacts, GotoFacts, SameTrials DEF Pilot!Receipt, Pilot!TypeOK, HostInv,
       Pilot!Positions
  <2>3. PairInv'
    BY <1>9, <1>0, ThisFacts, GotoFacts, SameTrials DEF Pilot!Receipt, Pilot!TypeOK, PairInv,
       Finished, Pilot!Positions
  <2>4. HitInv'
    BY <1>9, <1>0, ThisFacts, GotoFacts, SameTrials DEF Pilot!Receipt, Pilot!TypeOK, HitInv,
       Pilot!Positions
  <2>5. SealInv'
    BY <1>9, <1>0, ThisFacts, GotoFacts, SameTrials DEF Pilot!Receipt, Pilot!TypeOK, SealInv,
       Whole, Pilot!Positions
  <2> QED
    BY <2>1, <2>2, <2>3, <2>4, <2>5
<1>10. CASE Pilot!Settle
  <2>1. Pilot!TypeOK'
    BY <1>10, <1>0, ThisFacts, GotoFacts, SameTrials DEF Pilot!Settle, Pilot!TypeOK,
       Pilot!Positions
  <2>2. HostInv'
    BY <1>10, <1>0, ThisFacts, GotoFacts, SameTrials DEF Pilot!Settle, Pilot!TypeOK, HostInv,
       Pilot!Positions
  <2>3. PairInv'
    <3>1. /\ me'.pc = "cleanup" /\ me'.block = me.block /\ me'.arm = me.arm
          /\ me'.stopped = me.stopped /\ me.pc = "settle"
          /\ UNCHANGED trial
      BY <1>10 DEF Pilot!Settle, Pilot!TypeOK
    <3>2. Pilot!This' = Pilot!This
      BY <3>1 DEF Pilot!This, Pilot!Arm, Pilot!ArmOf
    <3>3. \A b \in 1 .. me'.block - 1 : Pilot!Matched(b)'
      BY <1>0, <3>1, SameTrials DEF PairInv
    <3>4. me'.arm = 2 => Finished(trial'[me'.block][Pilot!ArmOf(me'.block, 1)])
      BY <3>1 DEF PairInv
    <3> QED
      BY <3>1, <3>2, <3>3, <3>4 DEF PairInv
  <2>4. HitInv'
    BY <1>10, <1>0, ThisFacts, GotoFacts, SameTrials DEF Pilot!Settle, Pilot!TypeOK, HitInv,
       Pilot!Positions
  <2>5. SealInv'
    BY <1>10, <1>0, ThisFacts, GotoFacts, SameTrials DEF Pilot!Settle, Pilot!TypeOK, SealInv,
       Whole, Pilot!Positions
  <2> QED
    BY <2>1, <2>2, <2>3, <2>4, <2>5
<1>11. CASE Pilot!Cleanup
  <2> DEFINE t == [Pilot!This EXCEPT !.checked = TRUE,
                                     !.remains = me.remains \cup (left \cap {"jvm"})]
  <2>1. /\ t \in Pilot!Trials /\ t.checked /\ t.remains = me.remains \cup (left \cap {"jvm"})
        /\ t.there = Pilot!This.there /\ t.error = Pilot!This.error
        /\ t.interrupted = Pilot!This.interrupted
    BY <1>0 DEF Pilot!Trials, Pilot!Exits, Pilot!TypeOK, Pilot!Leftovers
  <2>2. /\ me.pc = "cleanup" /\ me' = [me EXCEPT !.pc = "inspect"] /\ Pilot!Keep(t)
        /\ UNCHANGED <<status, sums, gate, left, orphan, signals, hit>>
    BY <1>11 DEF Pilot!Cleanup, Pilot!Goto
  <2> HIDE DEF t
  <2>3. left \subseteq t.remains /\ gate # "running" /\ Finished(t)
    BY <2>1, <2>2 DEF HostInv, PairInv, Finished, Pilot!TypeOK, Pilot!Leftovers
  <2> QED
    BY <2>1, <2>2, <2>3, KeepingKept, ZenonT(60) DEF Pilot!TypeOK, Pilot!Positions
<1>12. CASE Pilot!Inspect
  <2>1. Pilot!TypeOK'
    BY <1>12, <1>0, ThisFacts, GotoFacts, SameTrials DEF Pilot!Inspect, Pilot!TypeOK,
       Pilot!Positions
  <2>2. HostInv'
    BY <1>12, <1>0, ThisFacts, GotoFacts, SameTrials DEF Pilot!Inspect, Pilot!TypeOK, HostInv,
       Pilot!Positions
  <2>3. PairInv'
    BY <1>12, <1>0, ThisFacts, GotoFacts, SameTrials DEF Pilot!Inspect, Pilot!TypeOK, PairInv,
       Finished, Pilot!Positions
  <2>4. HitInv'
    BY <1>12, <1>0, ThisFacts, GotoFacts, SameTrials DEF Pilot!Inspect, Pilot!TypeOK, HitInv,
       Pilot!Positions
  <2>5. SealInv'
    BY <1>12, <1>0, ThisFacts, GotoFacts, SameTrials DEF Pilot!Inspect, Pilot!TypeOK, SealInv,
       Whole, Pilot!Positions
  <2> QED
    BY <2>1, <2>2, <2>3, <2>4, <2>5
<1>13. CASE Pilot!Judge
  <2>1. /\ me.pc = "judge" /\ me.stopped = "none" /\ left \subseteq Pilot!This.remains
        /\ Finished(Pilot!This) /\ gate # "running"
        /\ Pilot!This = trial[me.block][Pilot!ArmOf(me.block, me.arm)]
        /\ UNCHANGED <<trial, status, sums, gate, left, orphan, signals, hit>>
    BY <1>13 DEF Pilot!Judge, HostInv, PairInv, Pilot!This, Pilot!Arm
  <2>2. /\ me' \in [pc : Pilot!Positions, block : Pilot!Blocks, arm : 1 .. 2,
                    remains : SUBSET Pilot!Leftovers, stopped : Pilot!Stops]
        /\ me'.block = me.block
        /\ \/ me'.pc = "pair" /\ me'.arm = me.arm /\ me'.stopped # "none"
           \/ me'.pc = "trial" /\ me.arm = 1 /\ me'.arm = 2 /\ me'.stopped = "none"
                /\ Pilot!This.remains = {} /\ ~ Pilot!This.interrupted
           \/ me'.pc = "pair" /\ me.arm = 2 /\ me'.arm = 2 /\ me'.stopped = "none"
                /\ Pilot!This.remains = {}
    <3>1. CASE Pilot!This.remains # {}
      BY <1>13, <3>1 DEF Pilot!Judge, Pilot!TypeOK, Pilot!Positions, Pilot!Stops
    <3>2. CASE Pilot!This.remains = {} /\ Pilot!This.interrupted
      BY <1>13, <3>2 DEF Pilot!Judge, Pilot!TypeOK, Pilot!Positions, Pilot!Stops
    <3>3. CASE Pilot!This.remains = {} /\ ~ Pilot!This.interrupted /\ me.arm = 1
      <4>1. me' = [pc |-> "trial", block |-> me.block, arm |-> 2, remains |-> me.remains,
                   stopped |-> me.stopped]
        BY <1>13, <3>3 DEF Pilot!Judge, Pilot!TypeOK
      <4> QED
        BY <2>1, <3>3, <4>1 DEF Pilot!TypeOK, Pilot!Positions, Pilot!Stops
    <3>4. CASE Pilot!This.remains = {} /\ ~ Pilot!This.interrupted /\ me.arm # 1
      BY <1>13, <2>1, <3>4 DEF Pilot!Judge, Pilot!TypeOK, Pilot!Positions, Pilot!Stops
    <3> QED
      BY <3>1, <3>2, <3>3, <3>4
  <2>3. Pilot!TypeOK'
    BY <2>1, <2>2 DEF Pilot!TypeOK
  <2>4. HostInv'
    BY <2>1, <2>2 DEF HostInv
  <2>5. PairInv'
    <3>1. \A b \in 1 .. me'.block - 1 : Pilot!Matched(b)'
      BY <1>0, <2>1, <2>2, SameTrials DEF PairInv
    <3>2. me'.arm = 2 => Finished(trial'[me'.block][Pilot!ArmOf(me'.block, 1)])
      BY <2>1, <2>2 DEF PairInv
    <3>3. me.arm = 2 /\ me'.arm = 2 => Pilot!This' = Pilot!This
      BY <2>1, <2>2 DEF Pilot!This, Pilot!Arm, Pilot!ArmOf
    <3> QED
      BY <2>1, <2>2, <3>1, <3>2, <3>3 DEF PairInv
  <2>6. HitInv'
    BY <2>1, <2>2 DEF HitInv
  <2>7. SealInv'
    BY <2>1, <2>2 DEF SealInv
  <2> QED
    BY <2>3, <2>4, <2>5, <2>6, <2>7
<1>14. CASE Pilot!Pair
  <2>1. /\ me.pc = "pair" /\ gate # "running"
        /\ UNCHANGED <<trial, status, sums, gate, left, orphan, signals, hit>>
    BY <1>14 DEF Pilot!Pair, HostInv
  <2>2. /\ me' \in [pc : Pilot!Positions, block : Pilot!Blocks, arm : 1 .. 2,
                    remains : SUBSET Pilot!Leftovers, stopped : Pilot!Stops]
        /\ me'.pc = "status" /\ me'.block = me.block /\ me'.arm = me.arm
        /\ me'.stopped = IF me.arm = 2 THEN Pilot!Paired(me.block, me.stopped) ELSE me.stopped
    <3>1. me.stopped \in Pilot!Stops /\ Pilot!Paired(me.block, me.stopped) \in Pilot!Stops
      BY DEF Pilot!TypeOK, Pilot!Paired, Pilot!Stops
    <3> QED
      BY <1>14, <3>1 DEF Pilot!Pair, Pilot!TypeOK, Pilot!Positions
  <2>3. me'.stopped = "none" => me.stopped = "none" /\ Pilot!Matched(me.block)
    <3> SUFFICES ASSUME me'.stopped = "none" PROVE me.stopped = "none" /\ Pilot!Matched(me.block)
      OBVIOUS
    <3>1. me.stopped = "none"
      BY <2>2 DEF Pilot!Paired
    <3>2. me.arm = 2 /\ Finished(Pilot!This) /\ Finished(trial[me.block][Pilot!ArmOf(me.block, 1)])
      BY <2>1, <3>1 DEF PairInv
    <3>3. \A a \in Pilot!Arms : Finished(trial[me.block][a])
      BY <3>2, ArmFacts DEF Pilot!This, Pilot!Arm
    <3>4. /\ \A a \in Pilot!Arms : ~ Pilot!Problem(trial[me.block][a])
          /\ trial[me.block]["B"].evidence = trial[me.block]["Bplus"].evidence
      BY <2>2, <3>2 DEF Pilot!Paired
    <3> QED
      BY <3>1, <3>3, <3>4 DEF Pilot!Matched, Finished, Pilot!Problem
  <2>4. Pilot!TypeOK'
    BY <2>1, <2>2 DEF Pilot!TypeOK
  <2>5. HostInv'
    BY <2>1, <2>2, <2>3 DEF HostInv
  <2>6. PairInv'
    <3>1. \A b \in 1 .. me'.block - 1 : Pilot!Matched(b)'
      BY <1>0, <2>1, <2>2, SameTrials DEF PairInv
    <3>2. PICK b \in Pilot!Blocks : b = me.block /\ b = me'.block
      BY <2>2, ThisFacts
    <3>3. me'.stopped = "none" => Pilot!Matched(b)'
      BY <2>1, <2>3, <3>2, MatchedKept
    <3>4. me'.arm = 2 => Finished(trial'[me'.block][Pilot!ArmOf(me'.block, 1)])
      BY <2>1, <2>2 DEF PairInv
    <3> QED
      BY <2>2, <3>1, <3>2, <3>3, <3>4 DEF PairInv, Pilot!Matched
  <2>7. HitInv'
    BY <2>1, <2>2 DEF HitInv
  <2>8. SealInv'
    BY <2>1, <2>2 DEF SealInv
  <2> QED
    BY <2>4, <2>5, <2>6, <2>7, <2>8
<1>15. CASE Pilot!WriteStatus
  <2>1. /\ me.pc = "status" /\ gate # "running"
        /\ status' = [stopped |-> me.stopped, last |-> me.block]
        /\ UNCHANGED <<trial, sums, gate, left, orphan, signals, hit>>
    BY <1>15 DEF Pilot!WriteStatus, HostInv
  <2>2. status' \in [stopped : Pilot!Stops \cup {"absent"}, last : Pilot!Blocks \cup {0}]
    BY <2>1 DEF Pilot!TypeOK
  <2>3. \A b \in 1 .. me.block - 1 : Pilot!Matched(b)'
    BY <1>0, <2>1, SameTrials DEF PairInv
  <2>4. me.stopped = "none" => left = {} /\ Pilot!Matched(me.block)
    BY <2>1 DEF HostInv, PairInv
  <2>5. CASE me.stopped = "none" /\ me.block < NBlocks
    <3>1. me' = [pc |-> "trial", block |-> me.block + 1, arm |-> 1, remains |-> me.remains,
                 stopped |-> me.stopped]
      BY <1>15, <2>5 DEF Pilot!WriteStatus, Pilot!TypeOK
    <3>2. me.block + 1 \in Pilot!Blocks
      BY <1>0, <2>5
    <3>3. Pilot!TypeOK'
      <4>1. me' \in [pc : Pilot!Positions, block : Pilot!Blocks, arm : 1 .. 2,
                     remains : SUBSET Pilot!Leftovers, stopped : Pilot!Stops]
        BY <3>1, <3>2 DEF Pilot!TypeOK, Pilot!Positions
      <4>2. \A b \in Pilot!Blocks : b > me'.block => \A a \in Pilot!Arms : trial'[b][a] = Pilot!NoTrial
        BY <1>0, <2>1, <3>1 DEF Pilot!TypeOK
      <4> QED
        BY <2>1, <2>2, <4>1, <4>2 DEF Pilot!TypeOK
    <3>4. HostInv'
      BY <2>1, <2>4, <2>5, <3>1 DEF HostInv
    <3>5. PairInv'
      <4>1. \A b \in 1 .. me'.block - 1 : Pilot!Matched(b)'
        <5> SUFFICES ASSUME NEW b \in 1 .. me'.block - 1 PROVE Pilot!Matched(b)'
          OBVIOUS
        <5>1. b \in Pilot!Blocks /\ Pilot!Matched(b)
          BY <1>0, <2>4, <2>5, <3>1 DEF PairInv
        <5> QED
          BY <2>1, <5>1, SameTrials
      <4> QED
        BY <2>5, <3>1, <4>1 DEF PairInv
    <3>6. HitInv'
      BY <2>1, <3>1 DEF HitInv
    <3>7. SealInv'
      BY <1>0, <2>1, <2>5, <3>1 DEF SealInv
    <3> QED
      BY <3>3, <3>4, <3>5, <3>6, <3>7
  <2>6. CASE ~ (me.stopped = "none" /\ me.block < NBlocks)
    <3>1. me' = [me EXCEPT !.pc = "seal"]
      BY <1>15, <2>6 DEF Pilot!WriteStatus
    <3>2. /\ me' \in [pc : Pilot!Positions, block : Pilot!Blocks, arm : 1 .. 2,
                      remains : SUBSET Pilot!Leftovers, stopped : Pilot!Stops]
          /\ me'.pc = "seal" /\ me'.block = me.block /\ me'.arm = me.arm
      BY <3>1 DEF Pilot!TypeOK, Pilot!Positions
    <3>3. Pilot!TypeOK'
      BY <2>1, <2>2, <3>2 DEF Pilot!TypeOK
    <3>4. HostInv'
      BY <2>1, <3>2 DEF HostInv
    <3>5. PairInv'
      <4>1. me'.arm = 2 => Finished(trial'[me'.block][Pilot!ArmOf(me'.block, 1)])
        BY <2>1, <3>2 DEF PairInv
      <4> QED
        BY <2>3, <3>2, <4>1 DEF PairInv
    <3>6. HitInv'
      BY <3>2 DEF HitInv
    <3>7. SealInv'
      <4> SUFFICES ASSUME me.stopped = "none", me.block = NBlocks PROVE Whole'
        BY <2>1, <3>2 DEF SealInv
      <4>1. \A b \in Pilot!Blocks : Pilot!Matched(b)
        BY <1>0, <2>4 DEF PairInv
      <4>2. hit = {}
        <5> SUFFICES ASSUME NEW b \in Pilot!Blocks, NEW a \in Pilot!Arms, <<b, a>> \in hit PROVE FALSE
          BY DEF Pilot!TypeOK
        <5>1. ~ trial[b][a].interrupted /\ ~ trial[b][a].error
          BY <4>1 DEF Pilot!Matched, Pilot!Problem
        <5> QED
          BY <2>1, <5>1 DEF HitInv
      <4>3. \A b \in Pilot!Blocks : Pilot!Matched(b)'
        BY <2>1, <4>1, SameTrials
      <4> QED
        BY <2>1, <4>2, <4>3 DEF Whole
    <3> QED
      BY <3>3, <3>4, <3>5, <3>6, <3>7
  <2> QED
    BY <2>5, <2>6
<1>16. CASE Pilot!Except
  <2>1. Pilot!TypeOK'
    <3>1. status' \in [stopped : Pilot!Stops \cup {"absent"}, last : Pilot!Blocks \cup {0}]
      BY <1>16 DEF Pilot!Except, Pilot!Stops
    <3> QED
      BY <1>16, <1>0, <3>1, GotoFacts DEF Pilot!Except, Pilot!TypeOK, Pilot!Positions
  <2>2. HostInv'
    BY <1>16, <1>0, ThisFacts, GotoFacts, SameTrials DEF Pilot!Except, Pilot!TypeOK, HostInv,
       Pilot!Positions
  <2>3. PairInv'
    BY <1>16, <1>0, ThisFacts, GotoFacts, SameTrials DEF Pilot!Except, Pilot!TypeOK, PairInv,
       Finished, Pilot!Positions
  <2>4. HitInv'
    BY <1>16, <1>0, ThisFacts, GotoFacts, SameTrials DEF Pilot!Except, Pilot!TypeOK, HitInv,
       Pilot!Positions
  <2>5. SealInv'
    BY <1>16, <1>0, ThisFacts, GotoFacts, SameTrials DEF Pilot!Except, Pilot!TypeOK, SealInv,
       Whole, Pilot!Positions
  <2> QED
    BY <2>1, <2>2, <2>3, <2>4, <2>5
<1>17. CASE Pilot!Seal
  <2>1. Pilot!TypeOK'
    BY <1>17, <1>0, ThisFacts, GotoFacts, SameTrials DEF Pilot!Seal, Pilot!TypeOK, Pilot!Positions
  <2>2. HostInv'
    BY <1>17, <1>0, ThisFacts, GotoFacts, SameTrials DEF Pilot!Seal, Pilot!TypeOK, HostInv,
       Pilot!Positions
  <2>3. PairInv'
    BY <1>17, <1>0, ThisFacts, GotoFacts, SameTrials DEF Pilot!Seal, Pilot!TypeOK, PairInv,
       Finished, Pilot!Positions
  <2>4. HitInv'
    BY <1>17, <1>0, ThisFacts, GotoFacts, SameTrials DEF Pilot!Seal, Pilot!TypeOK, HitInv,
       Pilot!Positions
  <2>5. SealInv'
    BY <1>17, <1>0, ThisFacts, GotoFacts, SameTrials DEF Pilot!Seal, Pilot!TypeOK, SealInv,
       Whole, Pilot!Positions
  <2> QED
    BY <2>1, <2>2, <2>3, <2>4, <2>5
<1>18. CASE Pilot!Signal
  <2>1. /\ signals' \in 0 .. MaxSignals /\ orphan' \in BOOLEAN
        /\ hit' \subseteq Pilot!Blocks \X Pilot!Arms
        /\ hit' \subseteq hit \cup {<<me.block, Pilot!Arm>>}
        /\ hit' # hit =>
             me.pc \in {"spawn", "started", "wait", "grace", "kill", "swallow", "receipt"}
        /\ UNCHANGED <<status, sums, gate, left>>
    <3>1. signals' \in 0 .. MaxSignals /\ orphan' \in BOOLEAN /\ UNCHANGED <<status, sums, gate, left>>
      BY <1>18 DEF Pilot!Signal, Pilot!TypeOK, Pilot!PilotAssumption
    <3>2. hit' = hit \/ hit' = hit \cup {<<me.block, Pilot!Arm>>}
      BY <1>18 DEF Pilot!Signal
    <3>3. hit' # hit =>
            me.pc \in {"spawn", "started", "wait", "grace", "kill", "swallow", "receipt"}
      BY <1>18 DEF Pilot!Signal
    <3> QED
      BY <3>1, <3>2, <3>3, ThisFacts DEF Pilot!TypeOK
  <2>2. CASE me.pc = "wait"
    <3>1. [Pilot!This EXCEPT !.interrupted = TRUE] \in Pilot!Trials
      BY <1>0 DEF Pilot!Trials, Pilot!Exits
    <3>2. /\ me' = [me EXCEPT !.pc = "grace"]
          /\ Pilot!Keep([Pilot!This EXCEPT !.interrupted = TRUE]) /\ Pilot!This.there
      BY <1>18, <2>2 DEF Pilot!Signal, Pilot!Goto, PairInv
    <3> QED
      BY <1>0, <2>1, <2>2, <3>1, <3>2, KeepingKept DEF Pilot!Trials, Pilot!TypeOK, HostInv,
         Pilot!Positions
  <2>3. CASE me.pc \in {"spawn", "started", "grace", "kill"}
    <3>1. me' = [me EXCEPT !.pc = "swallow"] /\ UNCHANGED trial
      BY <1>18, <2>3 DEF Pilot!Signal, Pilot!Goto
    <3>2. Pilot!Keep(Pilot!This)
      BY <3>1, SameKept
    <3> QED
      BY <1>0, <2>1, <2>3, <3>1, <3>2, KeepingKept DEF Pilot!TypeOK, HostInv, Pilot!Positions
  <2>4. CASE me.pc \notin {"spawn", "started", "wait", "grace", "kill"}
    <3>1. PICK p \in {"except", "seal", "done"} : Pilot!Goto(p)
            /\ (me.pc = "except" => p = "seal") /\ (me.pc = "seal" => p = "done")
            /\ UNCHANGED trial /\ me.pc # "done"
      BY <1>18, <2>4 DEF Pilot!Signal
    <3>2. /\ me' \in [pc : Pilot!Positions, block : Pilot!Blocks, arm : 1 .. 2,
                      remains : SUBSET Pilot!Leftovers, stopped : Pilot!Stops]
          /\ me'.pc = p /\ me'.block = me.block /\ me'.arm = me.arm
      BY <3>1, GotoFacts DEF Pilot!Positions
    <3>3. Pilot!TypeOK'
      BY <2>1, <3>1, <3>2 DEF Pilot!TypeOK
    <3>4. HostInv' /\ HitInv'
      BY <2>1, <3>1, <3>2 DEF HostInv, HitInv
    <3>5. PairInv'
      <4>1. me'.arm = 2 => Finished(trial'[me'.block][Pilot!ArmOf(me'.block, 1)])
        BY <3>1, <3>2 DEF PairInv
      <4>2. \A b \in 1 .. me'.block - 1 : Pilot!Matched(b)'
        BY <1>0, <3>1, <3>2, SameTrials DEF PairInv
      <4> QED
        BY <3>2, <4>1, <4>2 DEF PairInv
    <3>6. SealInv'
      <4>1. Whole /\ me.pc = "seal" => Whole'
        BY <2>1, <3>1, SameTrials DEF Whole
      <4> QED
        BY <2>1, <3>1, <3>2, <4>1 DEF SealInv
    <3> QED
      BY <3>3, <3>4, <3>5, <3>6
  <2> QED
    BY <2>2, <2>3, <2>4
<1>19. CASE Pilot!GateExits
  <2>1. PICK some \in SUBSET Pilot!Leftovers, exit \in {"expected", "other"},
             good \in BOOLEAN, e \in Bytes :
          /\ left' = left \cup some
          /\ Pilot!Keep([Pilot!This EXCEPT !.exit = exit, !.good = good, !.evidence = e])
    BY <1>19 DEF Pilot!GateExits
  <2> DEFINE t == [Pilot!This EXCEPT !.exit = exit, !.good = good, !.evidence = e]
  <2>2. /\ t \in Pilot!Trials /\ t.there = Pilot!This.there /\ t.error = Pilot!This.error
        /\ t.interrupted = Pilot!This.interrupted
    BY <1>0 DEF Pilot!Trials, Pilot!Exits
  <2>3. Pilot!Keep(t)
    BY <2>1
  <2> HIDE DEF t
  <2>4. /\ gate = "running" /\ gate' = "exited" /\ left' \subseteq Pilot!Leftovers
        /\ UNCHANGED <<me, status, sums, orphan, signals, hit>>
        /\ me.pc \in {"started", "wait", "grace", "kill", "swallow", "except", "seal", "done"}
    BY <1>19, <2>1 DEF Pilot!GateExits, Pilot!TypeOK, HostInv
  <2>5. CASE me.pc \in {"started", "wait", "grace", "kill", "swallow"}
    <3>1. me' = [me EXCEPT !.pc = me.pc] /\ me.pc \in Pilot!Positions
      BY <2>4 DEF Pilot!TypeOK
    <3> QED
      BY <2>2, <2>3, <2>4, <2>5, <3>1, KeepingKept, ZenonT(60) DEF Pilot!TypeOK, PairInv
  <2>6. CASE me.pc \in {"except", "seal", "done"}
    <3>1. /\ trial' \in [Pilot!Blocks -> [Pilot!Arms -> Pilot!Trials]]
          /\ \A b \in Pilot!Blocks : b > me'.block =>
               \A a \in Pilot!Arms : trial'[b][a] = Pilot!NoTrial
          /\ \A b \in 1 .. me'.block - 1 : Pilot!Matched(b)'
          /\ me'.arm = 2 => Finished(trial'[me'.block][Pilot!ArmOf(me'.block, 1)])
      BY <2>2, <2>3, <2>4, KeepStep
    <3>2. Pilot!TypeOK'
      BY <2>4, <3>1 DEF Pilot!TypeOK
    <3>3. HostInv' /\ HitInv'
      BY <2>4, <2>6 DEF HostInv, HitInv
    <3>4. PairInv'
      BY <2>4, <2>6, <3>1 DEF PairInv
    <3>5. SealInv'
      BY <2>4, <2>6 DEF SealInv, Whole
    <3> QED
      BY <3>2, <3>3, <3>4, <3>5
  <2> QED
    BY <2>4, <2>5, <2>6
<1>20. CASE Pilot!LeftoverEnds
  <2>1. left' \subseteq left /\ UNCHANGED <<me, trial, status, sums, gate, orphan, signals, hit>>
    BY <1>20 DEF Pilot!LeftoverEnds
  <2>2. PairInv' /\ HitInv' /\ Pilot!This' = Pilot!This
    BY <2>1, SameCollector
  <2>3. Pilot!TypeOK'
    BY <2>1 DEF Pilot!TypeOK
  <2>4. HostInv'
    BY <2>1, <2>2 DEF HostInv
  <2>5. SealInv'
    BY <2>1, SameTrials DEF SealInv, Whole
  <2> QED
    BY <2>2, <2>3, <2>4, <2>5
<1>21. CASE Pilot!OrphanEnds
  <2>1. orphan' \in BOOLEAN /\ UNCHANGED <<me, trial, status, sums, gate, left, signals, hit>>
    BY <1>21 DEF Pilot!OrphanEnds
  <2>2. PairInv' /\ HitInv' /\ Pilot!This' = Pilot!This
    BY <2>1, SameCollector
  <2>3. Pilot!TypeOK'
    BY <2>1 DEF Pilot!TypeOK
  <2>4. HostInv'
    BY <2>1, <2>2 DEF HostInv
  <2>5. SealInv'
    BY <2>1, SameTrials DEF SealInv, Whole
  <2> QED
    BY <2>2, <2>3, <2>4, <2>5
<1> QED
  BY <1>1, <1>2, <1>3, <1>4, <1>5, <1>6, <1>7, <1>8, <1>9, <1>10, <1>11, <1>12, <1>13, <1>14,
     <1>15, <1>16, <1>17, <1>18, <1>19, <1>20, <1>21 DEF Pilot!Next, Pilot!Collector

(* A step of another program, or none, leaves it alone.                      *)
LEMMA PilotIdle == PilotInv /\ UNCHANGED Pilot!vars => PilotInv'
<1> SUFFICES ASSUME PilotInv, UNCHANGED Pilot!vars PROVE PilotInv'
  OBVIOUS
<1>1. UNCHANGED <<me, trial, status, sums, gate, left, orphan, signals, hit>>
  BY DEF Pilot!vars
<1>2. PairInv' /\ HitInv' /\ Pilot!This' = Pilot!This
  BY <1>1, SameCollector DEF PilotInv
<1>3. Pilot!TypeOK'
  BY <1>1 DEF PilotInv, Pilot!TypeOK
<1>4. HostInv'
  BY <1>1, <1>2 DEF PilotInv, HostInv
<1>5. SealInv'
  BY <1>1, SameTrials DEF PilotInv, SealInv, Whole
<1>6. QED
  BY <1>2, <1>3, <1>4, <1>5 DEF PilotInv

(* It says what makes the pairs comparable.                                  *)
LEMMA PilotInvSound == PilotInv => Pilot!PairsAreSound
  BY DEF PilotInv, HostInv, PairInv, SealInv, Whole, Pilot!PairsAreSound, Pilot!FreshHost,
     Pilot!CleanSoFar, Pilot!SealedIsWhole

(* A trial starts on a host that no earlier one left anything on, the        *)
(* campaign goes on only past pairs that analyze accepts, and a sealed       *)
(* bundle that claims every block is whole, although run_command swallows    *)
(* interrupts (pilot.py).                                                    *)
THEOREM PilotCorrect == Pilot!Spec => [](Pilot!TypeOK /\ Pilot!PairsAreSound)
<1>1. Pilot!PilotAssumption
  BY InstancesAssumption
<1>2. PilotInv /\ [Pilot!Next]_(Pilot!vars) => PilotInv'
  BY <1>1, PilotKept, PilotIdle
<1>3. PilotInv => Pilot!TypeOK /\ Pilot!PairsAreSound
  BY PilotInvSound DEF PilotInv
<1>4. QED
  BY <1>1, <1>2, <1>3, PilotStarts, PTL DEF Pilot!Spec

(* The same of the sum that the run explores.                                *)
THEOREM PairsComparableCorrect == MCSpec => []PairsComparable
<1> DEFINE OfPilot == who = "pilot" => PilotInv
<1>1. MCInit => OfPilot
  BY InstancesAssumption, PilotStarts DEF MCInit, Started
<1>2. OfPilot /\ [MCNext]_all => OfPilot'
  <2> SUFFICES ASSUME OfPilot, [MCNext]_all, who' = "pilot" PROVE PilotInv'
    OBVIOUS
  <2>1. CASE PilotNext
    BY <2>1, InstancesAssumption, PilotKept DEF PilotNext
  <2>2. CASE ~ PilotNext
    <3>1. UNCHANGED <<who, trials>>
      BY <2>2 DEF MCNext, CentralNext, ActionNext, WireNext, all
    <3>2. UNCHANGED Pilot!vars
      BY <3>1 DEF trials, Pilot!vars
    <3> QED
      BY <3>1, <3>2, PilotIdle
  <2> QED
    BY <2>1, <2>2
<1>3. OfPilot => PairsComparable
  BY PilotInvSound DEF PilotInv, PairsComparable
<1>4. QED
  BY <1>1, <1>2, <1>3, PTL DEF MCSpec

-----------------------------------------------------------------------------
(* The publisher, with f releases of others in the listing.  The two         *)
(* instances differ in f, and in whether an upload outlives its sender.      *)

\* Every artifact is public.
Everything == \A n \in Central!Names : public[n] # Central!Absent

Jobs(f) ==
  [pc : Central!Positions, data : Central!Bundles, page : 0 .. f + MaxRuns,
   found : SUBSET Central!Ids, raised : BOOLEAN, next : 1 .. 2,
   id : Central!Ids \cup {0}, until : Nat, outcome : Central!Outcomes]

PubTypes(f) ==
  /\ bundle \in Central!Bundles
  /\ job \in Jobs(f)
  /\ job.page = 0 \/ job.page < f + Len(deployments)
  /\ runs \in 0 .. MaxRuns /\ now \in 0 .. Deadline + 1
  /\ request \in Seq(Central!Bundles)
  /\ deployments \in Seq([data : Central!Bundles, state : Central!States])
  /\ listing \in Seq(Central!Ids \cup {0})
  /\ dropped \subseteq Central!Ids
  /\ public \in [Central!Names -> Bytes \cup {Central!Absent}]

(* A run uploads once, and the listing names only what was accepted.         *)
CountInv(f) ==
  /\ Len(deployments) + Len(request) <= runs
  /\ job.pc \in {"verify", "list", "public", "upload"} =>
       Len(deployments) + Len(request) + 1 <= runs
  /\ Len(listing) <= f + Len(deployments)
  /\ \A i \in 1 .. Len(listing) : listing[i] \in (1 .. Len(deployments)) \cup {0}

(* The job knows accepted deployments only.                                  *)
IdInv ==
  /\ job.id \in (1 .. Len(deployments)) \cup {0} /\ job.found \subseteq 1 .. Len(deployments)
  /\ job.pc \in {"poll", "sleep"} => job.id # 0
  /\ job.pc = "verify" => job.page = 0
  /\ job.pc \in {"verify", "list"} => job.next = 1

(* Everything on its way was verified.                                       *)
VerifiedInv ==
  /\ Central!Valid(job.data)
  /\ \A i \in 1 .. Len(request) : Central!Valid(request[i])
  /\ \A d \in 1 .. Len(deployments) : Central!Valid(deployments[d].data)

(* An artifact that was compared stays, and a success stays true.            *)
AnswerInv ==
  /\ job.pc = "public" /\ job.next = 2 =>
       public["pom"] = job.data.art["pom"] /\ public["pom"] # Central!Absent
  /\ job.pc # "done" => job.outcome = "none"
  /\ job.outcome = "deployment" => job.id # 0 /\ deployments[job.id].state = "PUBLISHED"
  /\ job.outcome = "repository" => public = job.data.art /\ Everything

PubInv(f) == PubTypes(f) /\ CountInv(f) /\ IdInv /\ VerifiedInv /\ AnswerInv

\* The deployments no operator dropped.
Undropped == (1 .. Len(deployments)) \ dropped

(* A retry finds the deployment that an earlier run left, wherever it is.    *)
OneInv ==
  /\ request # <<>> => job.pc = "sent" /\ Len(request) = 1
  /\ \A d, e \in Undropped : d = e
  /\ \A d \in Undropped : Everything \/ Central!Listed(d)
  /\ job.pc = "list" => \A d \in Undropped :
       \/ Everything \/ d \in job.found
       \/ \E i \in 1 .. Len(listing) : listing[i] = d /\ job.page * PageSize < i
  /\ job.pc = "public" => \A d \in Undropped : Everything \/ job.raised
  /\ job.pc = "upload" => Undropped = {}
  /\ job.pc = "sent" /\ request # <<>> => Undropped = {}


(* The elements of a sequence over a set are in the set.                     *)
LEMMA ElementOf ==
  ASSUME NEW S, NEW s \in Seq(S), NEW i \in 1 .. Len(s) PROVE s[i] \in S
  OBVIOUS

(* What a listing loses when an entry leaves it.                             *)
LEMMA UnlistFacts ==
  ASSUME NEW S, listing \in Seq(S), NEW d, Central!Unlist(d)
  PROVE  /\ listing' \in Seq(S) /\ Len(listing') <= Len(listing)
         /\ \A k \in 1 .. Len(listing') : \E i \in 1 .. Len(listing) : listing'[k] = listing[i]
         /\ \A i \in 1 .. Len(listing) : listing[i] # d =>
              \E k \in 1 .. Len(listing') : listing'[k] = listing[i]
<1>1. PICK i \in 1 .. Len(listing) :
        /\ listing[i] = d
        /\ listing' = [k \in 1 .. Len(listing) - 1 |-> listing[IF k < i THEN k ELSE k + 1]]
  BY DEF Central!Unlist
<1>2. Len(listing) \in Nat /\ i \in Nat /\ Len(listing) - 1 \in Nat
  BY <1>1
<1>3. \A k \in 1 .. Len(listing) - 1 :
        (IF k < i THEN k ELSE k + 1) \in 1 .. Len(listing)
  BY <1>2
<1>4. listing' \in Seq(S) /\ Len(listing') = Len(listing) - 1
  BY <1>1, <1>2, <1>3
<1>5. \A j \in 1 .. Len(listing) : j # i =>
        \E k \in 1 .. Len(listing') : listing'[k] = listing[j]
  <2> SUFFICES ASSUME NEW j \in 1 .. Len(listing), j # i
               PROVE  \E k \in 1 .. Len(listing') : listing'[k] = listing[j]
    OBVIOUS
  <2>1. CASE j < i
    <3>1. j \in 1 .. Len(listing') /\ listing'[j] = listing[j]
      BY <1>1, <1>2, <1>4, <2>1
    <3> QED
      BY <3>1
  <2>2. CASE j > i
    <3>1. /\ j - 1 \in 1 .. Len(listing) - 1 /\ ~ (j - 1 < i) /\ (j - 1) + 1 = j
      BY <1>2, <2>2
    <3>2. listing'[j - 1] = listing[j]
      BY <1>1, <3>1
    <3> QED
      BY <1>4, <3>1, <3>2
  <2> QED
    BY <1>2, <2>1, <2>2
<1>6. \A k \in 1 .. Len(listing') : \E j \in 1 .. Len(listing) : listing'[k] = listing[j]
  <2> SUFFICES ASSUME NEW k \in 1 .. Len(listing')
               PROVE  \E j \in 1 .. Len(listing) : listing'[k] = listing[j]
    OBVIOUS
  <2>1. k \in 1 .. Len(listing) - 1 /\ listing'[k] = listing[IF k < i THEN k ELSE k + 1]
    BY <1>1, <1>4
  <2> QED
    BY <1>3, <2>1
<1>7. Len(listing') <= Len(listing)
  BY <1>2, <1>4
<1>8. \A j \in 1 .. Len(listing) : listing[j] # d =>
        \E k \in 1 .. Len(listing') : listing'[k] = listing[j]
  BY <1>1, <1>5
<1>9. QED
  BY <1>4, <1>6, <1>7, <1>8

(* Validation moves the state of one deployment, and never out of published. *)
LEMMA AdvanceFacts ==
  ASSUME deployments \in Seq([data : Central!Bundles, state : Central!States]),
         NEW d \in 1 .. Len(deployments), Central!Advance(d)
  PROVE  /\ deployments' \in Seq([data : Central!Bundles, state : Central!States])
         /\ Len(deployments') = Len(deployments)
         /\ \A e \in 1 .. Len(deployments) : deployments'[e].data = deployments[e].data
         /\ \A e \in 1 .. Len(deployments) :
              deployments[e].state = "PUBLISHED" => deployments'[e].state = "PUBLISHED"
         /\ UNCHANGED <<bundle, job, runs, now, request, listing, dropped, public>>
<1>1. PICK s \in Central!States : deployments' = [deployments EXCEPT ![d].state = s]
  BY DEF Central!Advance, Central!States
<1>2. deployments[d].state # "PUBLISHED"
  BY DEF Central!Advance
<1> DEFINE R == [data : Central!Bundles, state : Central!States]
<1>3. deployments \in Seq(R)
  OBVIOUS
<1> HIDE DEF R
<1>4. deployments[d] \in R
  BY <1>3
<1>5. [deployments[d] EXCEPT !.state = s] \in R
      /\ [deployments[d] EXCEPT !.state = s].data = deployments[d].data
  BY <1>4 DEF R
<1>6. deployments' = [deployments EXCEPT ![d] = [deployments[d] EXCEPT !.state = s]]
  BY <1>1
<1>7. deployments' \in Seq(R) /\ Len(deployments') = Len(deployments)
  BY <1>3, <1>5, <1>6
<1>8. \A e \in 1 .. Len(deployments) :
        deployments'[e] = IF e = d THEN [deployments[d] EXCEPT !.state = s] ELSE deployments[e]
  BY <1>3, <1>6
<1>9. UNCHANGED <<bundle, job, runs, now, request, listing, dropped, public>>
  BY DEF Central!Advance
<1>10. QED
  BY <1>2, <1>5, <1>7, <1>8, <1>9 DEF R

(* An upload that is accepted is the last deployment, and still listed.      *)
LEMMA AcceptFacts ==
  ASSUME NEW f \in Nat, PubTypes(f), Central!Accept
  PROVE  /\ request # <<>> /\ request[1] \in Central!Bundles
         /\ request' \in Seq(Central!Bundles) /\ Len(request') + 1 = Len(request)
         /\ \A i \in 1 .. Len(request') : request'[i] = request[i + 1]
         /\ deployments' \in Seq([data : Central!Bundles, state : Central!States])
         /\ Len(deployments') = Len(deployments) + 1
         /\ \A d \in 1 .. Len(deployments) : deployments'[d] = deployments[d]
         /\ deployments'[Len(deployments) + 1].data = request[1]
         /\ Len(listing') = Len(listing) + 1
         /\ \A i \in 1 .. Len(listing) : listing'[i] = listing[i]
         /\ listing'[Len(listing) + 1] = Len(deployments) + 1
         /\ listing' = Append(listing, Len(deployments) + 1)
         /\ UNCHANGED <<bundle, runs, dropped, public>>
<1>1. /\ request # <<>> /\ request' = Tail(request)
      /\ deployments' = Append(deployments, [data |-> Head(request), state |-> "PENDING"])
      /\ listing' = Append(listing, Len(deployments) + 1)
      /\ UNCHANGED <<bundle, runs, dropped, public>>
  BY DEF Central!Accept
<1>2. /\ request \in Seq(Central!Bundles) /\ listing \in Seq(Central!Ids \cup {0})
      /\ deployments \in Seq([data : Central!Bundles, state : Central!States])
  BY DEF PubTypes
<1>3. /\ Head(request) = request[1] /\ request[1] \in Central!Bundles
      /\ request' \in Seq(Central!Bundles) /\ Len(request') + 1 = Len(request)
      /\ \A i \in 1 .. Len(request') : request'[i] = request[i + 1]
  BY <1>1, <1>2
<1>4. [data |-> Head(request), state |-> "PENDING"]
        \in [data : Central!Bundles, state : Central!States]
  BY <1>3 DEF Central!States
<1>5. /\ Len(listing') = Len(listing) + 1
      /\ \A i \in 1 .. Len(listing) : listing'[i] = listing[i]
      /\ listing'[Len(listing) + 1] = Len(deployments) + 1
  BY <1>1, <1>2
<1> DEFINE R == [data : Central!Bundles, state : Central!States]
<1> DEFINE r == [data |-> Head(request), state |-> "PENDING"]
<1>6. r \in R /\ r.data = request[1]
  BY <1>3, <1>4
<1>7. deployments \in Seq(R) /\ deployments' = Append(deployments, r)
  BY <1>1, <1>2
<1> HIDE DEF R, r
<1>8. /\ deployments' \in Seq(R) /\ Len(deployments') = Len(deployments) + 1
      /\ \A d \in 1 .. Len(deployments) : deployments'[d] = deployments[d]
      /\ deployments'[Len(deployments) + 1] = r
  BY <1>6, <1>7
<1>9. QED
  BY <1>1, <1>3, <1>5, <1>6, <1>8 DEF R

(* No step of either publisher breaks what both keep.                        *)
LEMMA PubKept ==
  ASSUME Central!PublishAssumption, NEW f \in Nat, PubInv(f), Central!Next \/ Late!Breaks
  PROVE  PubInv(f)'
<1> USE DEF PubInv, Central!PublishAssumption
<1>1. CASE Central!BuildBundle
  <2>1. /\ job' = [pc |-> "verify", data |-> job.data, page |-> 0, found |-> {},
                   raised |-> FALSE, next |-> 1, id |-> 0, until |-> job.until,
                   outcome |-> "none"]
        /\ runs < MaxRuns /\ runs' = runs + 1
        /\ UNCHANGED <<now, request, deployments, listing, dropped, public>>
    BY <1>1 DEF Central!BuildBundle, Central!central, PubTypes, Jobs, Central!None
  <2>2. job' \in Jobs(f)
    BY <2>1 DEF PubTypes, Jobs, Central!Positions, Central!Outcomes
  <2>3. bundle' \in Central!Bundles
    BY <1>1 DEF Central!BuildBundle, Central!Bundles
  <2>4. PubTypes(f)'
    BY <2>1, <2>2, <2>3 DEF PubTypes
  <2>5. CountInv(f)'
    BY <2>1, <2>2, <2>3 DEF PubTypes, CountInv
  <2>6. IdInv'
    BY <2>1, <2>2, <2>3 DEF PubTypes, IdInv
  <2>7. VerifiedInv'
    BY <2>1, <2>2, <2>3 DEF PubTypes, VerifiedInv, Central!Valid
  <2>8. AnswerInv'
    BY <2>1, <2>2, <2>3 DEF PubTypes, AnswerInv, Everything
  <2> QED
    BY <2>4, <2>5, <2>6, <2>7, <2>8
<1>2. CASE Central!Rewrite
  <2>1. PubTypes(f)'
    <3>1. PICK n \in Central!Names, b \in Bytes : bundle' = [bundle EXCEPT !.art[n] = b]
      BY <1>2 DEF Central!Rewrite
    <3>2. bundle' = [bundle EXCEPT !.art = [bundle.art EXCEPT ![n] = b]]
      BY <3>1
    <3>3. bundle.art \in [Central!Names -> Bytes]
      BY DEF PubTypes, Central!Bundles
    <3>4. [bundle.art EXCEPT ![n] = b] \in [Central!Names -> Bytes]
      BY <3>3
    <3>5. bundle' \in Central!Bundles
      BY <3>2, <3>4 DEF PubTypes, Central!Bundles
    <3> QED
      BY <1>2, <3>5 DEF Central!Rewrite, Central!central, PubTypes
  <2>2. CountInv(f)'
    BY <1>2 DEF Central!Rewrite, Central!central, Central!Bundles, PubTypes, CountInv
  <2>3. IdInv'
    BY <1>2 DEF Central!Rewrite, Central!central, Central!Bundles, PubTypes, IdInv
  <2>4. VerifiedInv'
    BY <1>2 DEF Central!Rewrite, Central!central, Central!Bundles, PubTypes, VerifiedInv,
       Central!Valid
  <2>5. AnswerInv'
    BY <1>2 DEF Central!Rewrite, Central!central, Central!Bundles, PubTypes, AnswerInv, Everything
  <2> QED
    BY <2>1, <2>2, <2>3, <2>4, <2>5
<1>3. CASE Central!Verify
  <2>1. PubTypes(f)'
    BY <1>3 DEF Central!Verify, Central!central, PubTypes, Jobs, Central!Positions,
       Central!Outcomes, Central!Ids, Central!None
  <2>2. CountInv(f)'
    BY <1>3 DEF Central!Verify, Central!central, PubTypes, CountInv
  <2>3. IdInv'
    BY <1>3 DEF Central!Verify, Central!central, PubTypes, IdInv
  <2>4. VerifiedInv'
    BY <1>3 DEF Central!Verify, Central!central, PubTypes, VerifiedInv, Central!Valid
  <2>5. AnswerInv'
    BY <1>3 DEF Central!Verify, Central!central, PubTypes, AnswerInv, Everything
  <2> QED
    BY <2>1, <2>2, <2>3, <2>4, <2>5
<1>4. CASE Central!ListPage
  <2> DEFINE found == job.found \cup (Central!Entries(job.page) \ {0})
  <2>1. /\ job.pc = "list" /\ now' = 0
        /\ UNCHANGED <<bundle, runs, request, deployments, listing, dropped, public>>
        /\ job.outcome = "none" /\ job.next = 1
    BY <1>4 DEF Central!ListPage, Central!central, IdInv, AnswerInv
  <2>2. found \subseteq 1 .. Len(deployments) /\ found \subseteq Central!Ids
    <3>1. Central!Entries(job.page) \ {0} \subseteq 1 .. Len(deployments)
      BY DEF Central!Entries, CountInv
    <3>2. Len(deployments) \in Nat /\ Len(deployments) <= MaxRuns
      BY DEF PubTypes, CountInv
    <3> QED
      BY <3>1, <3>2 DEF IdInv, Central!Ids
  <2>3. job' = IF Central!LastPage(job.page) THEN Central!Decided(found)
               ELSE [job EXCEPT !.found = found, !.page = @ + 1]
    BY <1>4 DEF Central!ListPage, Central!None
  <2> HIDE DEF found
  <2>4. /\ job' \in Jobs(f) /\ job'.data = job.data /\ job'.raised = job.raised
        /\ job'.next = 1 /\ (job'.page = 0 \/ job'.page < f + Len(deployments))
        /\ job'.found \subseteq found
        /\ \/ job'.pc \in {"list", "public"} /\ job'.id = job.id /\ job'.outcome = "none"
           \/ job'.pc = "poll" /\ job'.id \in found /\ job'.outcome = "none"
           \/ job'.pc = "done" /\ job'.id = job.id /\ job'.outcome = "failed"
    <3>1. CASE ~ Central!LastPage(job.page)
      <4>1. job.page + 1 < f + Len(deployments)
        <5>1. /\ Len(listing) \in Nat /\ Len(deployments) \in Nat /\ job.page \in Nat
              /\ Len(listing) <= f + Len(deployments)
          BY SMTT(30) DEF PubTypes, CountInv, Jobs
        <5>2. (job.page + 1) * PageSize < Len(listing)
          BY <3>1, <5>1 DEF Central!LastPage
        <5>3. job.page + 1 <= (job.page + 1) * PageSize
          BY <5>1, SMTT(30)
        <5> QED
          BY <5>1, <5>2, <5>3
      <4>2. job.page + 1 \in 0 .. f + MaxRuns
        <5>1. Len(deployments) \in Nat /\ Len(deployments) <= MaxRuns /\ job.page \in Nat
          BY SMTT(30) DEF PubTypes, CountInv, Jobs
        <5> QED
          BY <4>1, <5>1
      <4>3. job' = [job EXCEPT !.found = found, !.page = job.page + 1]
        BY <2>3, <3>1
      <4>4. job' \in Jobs(f)
        BY <2>2, <4>2, <4>3 DEF PubTypes, Jobs
      <4> QED
        BY <2>1, <4>1, <4>3, <4>4 DEF PubTypes, Jobs
    <3>2. CASE Central!LastPage(job.page) /\ found = {}
      <4>1. job' = [job EXCEPT !.found = {}, !.pc = "public"]
        BY <2>3, <3>2 DEF Central!Decided
      <4> QED
        BY <2>1, <2>2, <4>1 DEF PubTypes, Jobs, Central!Positions
    <3>3. CASE Central!LastPage(job.page) /\ found # {}
      <4>1. PICK d \in found : d = CHOOSE e \in found : TRUE
        BY <3>3
      <4>2. \/ job' = [job EXCEPT !.found = found, !.pc = "poll", !.id = d]
            \/ job' = [job EXCEPT !.found = found, !.pc = "done", !.outcome = "failed"]
        BY <2>3, <3>3, <4>1 DEF Central!Decided
      <4>3. CASE job' = [job EXCEPT !.found = found, !.pc = "poll", !.id = d]
        BY <2>1, <2>2, <4>3 DEF PubTypes, Jobs, Central!Positions
      <4>4. CASE job' = [job EXCEPT !.found = found, !.pc = "done", !.outcome = "failed"]
        BY <2>1, <2>2, <4>4 DEF PubTypes, Jobs, Central!Positions, Central!Outcomes
      <4> QED
        BY <4>2, <4>3, <4>4
    <3> QED
      BY <3>1, <3>2, <3>3
  <2>5. PubTypes(f)'
    BY <2>1, <2>2, <2>4 DEF PubTypes
  <2>6. CountInv(f)'
    BY <2>1, <2>2, <2>4 DEF PubTypes, CountInv
  <2>7. IdInv'
    <3>1. Len(deployments) \in Nat /\ job.id \in (1 .. Len(deployments)) \cup {0}
      BY DEF PubTypes, IdInv
    <3>2. /\ job'.id \in (1 .. Len(deployments)) \cup {0}
          /\ job'.pc \in {"poll", "sleep"} => job'.id # 0
          /\ job'.found \subseteq 1 .. Len(deployments)
      <4>1. /\ job'.found \subseteq found
            /\ job'.pc \in {"poll", "sleep"} => job'.id \in found
            /\ job'.id = job.id \/ job'.id \in found
        BY <2>4
      <4>2. \A d \in found : d \in 1 .. Len(deployments) /\ d # 0
        BY <2>2, <3>1
      <4> QED
        BY <3>1, <4>1, <4>2
    <3>3. job'.next = 1 /\ job'.pc # "verify"
      BY <2>4
    <3> QED
      BY <2>1, <3>2, <3>3 DEF IdInv
  <2>8. VerifiedInv'
    BY <2>1, <2>2, <2>4 DEF PubTypes, VerifiedInv, Central!Valid
  <2>9. AnswerInv'
    BY <2>1, <2>2, <2>4 DEF PubTypes, AnswerInv, Everything
  <2> QED
    BY <2>5, <2>6, <2>7, <2>8, <2>9
<1>5. CASE Central!ListFails
  <2>1. PubTypes(f)'
    BY <1>5 DEF Central!ListFails, Central!central, PubTypes, Jobs, Central!Positions,
       Central!Outcomes, Central!Ids, Central!None
  <2>2. CountInv(f)'
    BY <1>5 DEF Central!ListFails, Central!central, PubTypes, CountInv
  <2>3. IdInv'
    BY <1>5 DEF Central!ListFails, Central!central, PubTypes, IdInv
  <2>4. VerifiedInv'
    BY <1>5 DEF Central!ListFails, Central!central, PubTypes, VerifiedInv, Central!Valid
  <2>5. AnswerInv'
    BY <1>5 DEF Central!ListFails, Central!central, PubTypes, Jobs, IdInv, AnswerInv, Everything
  <2> QED
    BY <2>1, <2>2, <2>3, <2>4, <2>5
<1>6. CASE Central!ReadPublic
  <2> DEFINE n == Central!Artifacts[job.next]
  <2>1. /\ job.pc = "public" /\ job.outcome = "none" /\ job.next \in 1 .. 2
        /\ UNCHANGED <<bundle, runs, now, request, deployments, listing, dropped, public>>
        /\ n = IF job.next = 1 THEN "pom" ELSE "jar"
    BY <1>6 DEF Central!ReadPublic, Central!central, AnswerInv, PubTypes, Jobs, Central!Artifacts
  <2>2. job' = IF public[n] = Central!Absent
                 THEN IF job.next = 1 /\ ~ job.raised THEN [job EXCEPT !.pc = "upload"]
                      ELSE [job EXCEPT !.pc = "done", !.outcome = "failed"]
               ELSE IF public[n] # job.data.art[n]
                      THEN [job EXCEPT !.pc = "done", !.outcome = "failed"]
               ELSE IF job.next = 2 THEN [job EXCEPT !.pc = "done", !.outcome = "repository"]
               ELSE [job EXCEPT !.next = 2]
    BY <1>6, <2>1 DEF Central!ReadPublic, Central!Goto, Central!Done, Central!Artifacts
  <2> HIDE DEF n
  <2>3. /\ job' \in Jobs(f) /\ job'.data = job.data /\ job'.page = job.page
        /\ job'.found = job.found /\ job'.raised = job.raised /\ job'.id = job.id
        /\ \/ job'.pc = "upload" /\ job'.outcome = "none" /\ public["pom"] = Central!Absent
                /\ job'.next = 1 /\ ~ job.raised
           \/ job'.pc = "done" /\ job'.outcome = "failed" /\ job'.next = job.next
           \/ /\ job'.pc = "done" /\ job'.outcome = "repository" /\ job.next = 2
              /\ public["jar"] = job.data.art["jar"] /\ public["jar"] # Central!Absent
           \/ /\ job'.pc = "public" /\ job'.next = 2 /\ job'.outcome = "none"
              /\ public["pom"] = job.data.art["pom"] /\ public["pom"] # Central!Absent
    <3>1. CASE public[n] = Central!Absent /\ job.next = 1 /\ ~ job.raised
      <4>1. job' = [job EXCEPT !.pc = "upload"]
        BY <2>2, <3>1
      <4> QED
        BY <2>1, <3>1, <4>1 DEF PubTypes, Jobs, Central!Positions
    <3>2. CASE job' = [job EXCEPT !.pc = "done", !.outcome = "failed"]
      BY <3>2 DEF PubTypes, Jobs, Central!Positions, Central!Outcomes
    <3>3. CASE public[n] # Central!Absent /\ public[n] = job.data.art[n] /\ job.next = 2
      <4>1. job' = [job EXCEPT !.pc = "done", !.outcome = "repository"]
        BY <2>2, <3>3
      <4>2. n = "jar"
        BY <2>1, <3>3
      <4> QED
        BY <3>3, <4>1, <4>2 DEF PubTypes, Jobs, Central!Positions, Central!Outcomes
    <3>4. CASE public[n] # Central!Absent /\ public[n] = job.data.art[n] /\ job.next # 2
      <4>1. job' = [job EXCEPT !.next = 2] /\ job.next = 1
        BY <2>1, <2>2, <3>4
      <4>2. n = "pom"
        BY <2>1, <4>1
      <4>3. public["pom"] = job.data.art["pom"] /\ public["pom"] # Central!Absent
        BY <3>4, <4>2
      <4>4. /\ job' \in Jobs(f) /\ job'.data = job.data /\ job'.page = job.page
            /\ job'.found = job.found /\ job'.raised = job.raised /\ job'.id = job.id
            /\ job'.pc = job.pc /\ job'.next = 2 /\ job'.outcome = job.outcome
        <5>1. job \in Jobs(f)
          BY DEF PubTypes
        <5>2. job' = [pc |-> job.pc, data |-> job.data, page |-> job.page, found |-> job.found,
                      raised |-> job.raised, next |-> 2, id |-> job.id, until |-> job.until,
                      outcome |-> job.outcome]
          BY <4>1, <5>1 DEF Jobs
        <5> HIDE DEF PubInv
        <5> QED
          BY <5>1, <5>2 DEF Jobs
      <4>5. job'.pc = "public" /\ job'.outcome = "none"
        BY <2>1, <4>4
      <4> QED
        BY <4>3, <4>4, <4>5
    <3>5. \/ public[n] = Central!Absent /\ job.next = 1 /\ ~ job.raised
          \/ job' = [job EXCEPT !.pc = "done", !.outcome = "failed"]
          \/ public[n] # Central!Absent /\ public[n] = job.data.art[n]
      BY <2>2
    <3> QED
      BY <3>1, <3>2, <3>3, <3>4, <3>5
  <2>4. PubTypes(f)'
    BY <2>1, <2>3 DEF PubTypes
  <2>5. CountInv(f)'
    BY <2>1, <2>3 DEF PubTypes, CountInv
  <2>6. IdInv'
    BY <2>1, <2>3 DEF PubTypes, IdInv
  <2>7. VerifiedInv'
    BY <2>1, <2>3 DEF PubTypes, VerifiedInv, Central!Valid
  <2>8. AnswerInv'
    <3>1. job'.outcome = "repository" => public = job.data.art /\ Everything
      <4> SUFFICES ASSUME job'.outcome = "repository" PROVE public = job.data.art /\ Everything
        OBVIOUS
      <4>1. \A m \in Central!Names : public[m] = job.data.art[m] /\ public[m] # Central!Absent
        BY <2>1, <2>3 DEF AnswerInv, Central!Names
      <4>2. /\ public \in [Central!Names -> Bytes \cup {Central!Absent}]
            /\ job.data.art \in [Central!Names -> Bytes]
        BY DEF PubTypes, Jobs, Central!Bundles
      <4> QED
        BY <4>1, <4>2 DEF Everything
    <3> QED
      BY <2>1, <2>3, <3>1 DEF AnswerInv, Everything
  <2> QED
    BY <2>4, <2>5, <2>6, <2>7, <2>8
<1>7. CASE Central!Upload
  <2>1. PubTypes(f)'
    <3>1. request' = Append(request, job.data) /\ Central!Goto("sent")
          /\ UNCHANGED <<bundle, runs, now, deployments, listing, dropped, public>>
      BY <1>7 DEF Central!Upload
    <3>2. job' \in Jobs(f) /\ job'.page = job.page
      BY <3>1 DEF Central!Goto, PubTypes, Jobs, Central!Positions
    <3>3. request' \in Seq(Central!Bundles)
      BY <3>1 DEF PubTypes, Jobs
    <3> QED
      BY <3>1, <3>2, <3>3 DEF PubTypes
  <2>2. CountInv(f)'
    BY <1>7 DEF Central!Upload, Central!Goto, PubTypes, CountInv
  <2>3. IdInv'
    BY <1>7 DEF Central!Upload, Central!Goto, PubTypes, IdInv
  <2>4. VerifiedInv'
    BY <1>7 DEF Central!Upload, Central!Goto, PubTypes, VerifiedInv, Central!Valid
  <2>5. AnswerInv'
    BY <1>7 DEF Central!Upload, Central!Goto, PubTypes, AnswerInv, Everything
  <2> QED
    BY <2>1, <2>2, <2>3, <2>4, <2>5
<1>8. CASE Central!Poll
  <2>1. /\ job.pc = "poll" /\ job.outcome = "none" /\ job.id # 0
        /\ UNCHANGED <<bundle, runs, now, request, deployments, listing, dropped, public>>
    BY <1>8 DEF Central!Poll, Central!central, AnswerInv, IdInv
  <2>2. \/ Central!Done("deployment") /\ deployments[job.id].state = "PUBLISHED"
        \/ Central!Done("failed")
        \/ job' = [job EXCEPT !.pc = "sleep", !.until = now + 1]
    BY <1>8 DEF Central!Poll
  <2>3. /\ job' \in Jobs(f) /\ job'.data = job.data /\ job'.page = job.page
        /\ job'.found = job.found /\ job'.next = job.next /\ job'.id = job.id
        /\ \/ /\ job'.pc = "done" /\ job'.outcome = "deployment"
              /\ deployments[job.id].state = "PUBLISHED"
           \/ job'.pc = "done" /\ job'.outcome = "failed"
           \/ job'.pc = "sleep" /\ job'.outcome = "none"
    <3>1. CASE job' = [job EXCEPT !.pc = "sleep", !.until = now + 1]
      <4>1. now + 1 \in Nat
        BY DEF PubTypes
      <4> QED
        BY <2>1, <3>1, <4>1 DEF PubTypes, Jobs, Central!Positions
    <3>2. CASE Central!Done("deployment") /\ deployments[job.id].state = "PUBLISHED"
      BY <3>2 DEF Central!Done, PubTypes, Jobs, Central!Positions, Central!Outcomes
    <3>3. CASE Central!Done("failed")
      BY <3>3 DEF Central!Done, PubTypes, Jobs, Central!Positions, Central!Outcomes
    <3> QED
      BY <2>2, <3>1, <3>2, <3>3
  <2>4. PubTypes(f)'
    BY <2>1, <2>3 DEF PubTypes
  <2>5. CountInv(f)'
    BY <2>1, <2>3 DEF PubTypes, CountInv
  <2>6. IdInv'
    BY <2>1, <2>3 DEF PubTypes, IdInv
  <2>7. VerifiedInv'
    BY <2>1, <2>3 DEF PubTypes, VerifiedInv, Central!Valid
  <2>8. AnswerInv'
    BY <2>1, <2>3 DEF PubTypes, AnswerInv, Everything
  <2> QED
    BY <2>4, <2>5, <2>6, <2>7, <2>8
<1>9. CASE Central!Wake
  <2>1. PubTypes(f)'
    BY <1>9 DEF Central!Wake, Central!central, Central!Goto, PubTypes, Jobs, Central!Positions,
       Central!Outcomes, Central!Ids, Central!None
  <2>2. CountInv(f)'
    BY <1>9 DEF Central!Wake, Central!central, Central!Goto, PubTypes, CountInv
  <2>3. IdInv'
    BY <1>9 DEF Central!Wake, Central!central, Central!Goto, PubTypes, IdInv
  <2>4. VerifiedInv'
    BY <1>9 DEF Central!Wake, Central!central, Central!Goto, PubTypes, VerifiedInv, Central!Valid
  <2>5. AnswerInv'
    BY <1>9 DEF Central!Wake, Central!central, Central!Goto, PubTypes, AnswerInv, Everything
  <2> QED
    BY <2>1, <2>2, <2>3, <2>4, <2>5
<1>10. CASE Central!Tick
  <2>1. PubTypes(f)'
    BY <1>10, SMTT(30) DEF Central!Tick, Central!central, PubTypes, Jobs, Central!Positions,
       Central!Outcomes, Central!Ids, Central!None
  <2>2. CountInv(f)'
    BY <1>10 DEF Central!Tick, Central!central, PubTypes, CountInv
  <2>3. IdInv'
    BY <1>10 DEF Central!Tick, Central!central, PubTypes, IdInv
  <2>4. VerifiedInv'
    BY <1>10 DEF Central!Tick, Central!central, PubTypes, VerifiedInv, Central!Valid
  <2>5. AnswerInv'
    BY <1>10 DEF Central!Tick, Central!central, PubTypes, AnswerInv, Everything
  <2> QED
    BY <2>1, <2>2, <2>3, <2>4, <2>5
<1>11. CASE Central!Breaks
  <2>1. PubTypes(f)'
    <3>1. /\ Central!Done("failed") /\ request' = <<>>
          /\ UNCHANGED <<bundle, runs, now, deployments, listing, dropped, public>>
      BY <1>11 DEF Central!Breaks
    <3>2. job' \in Jobs(f) /\ job'.page = job.page
      BY <3>1 DEF Central!Done, PubTypes, Jobs, Central!Positions, Central!Outcomes
    <3>3. request' \in Seq(Central!Bundles)
      BY <3>1
    <3> QED
      BY <3>1, <3>2, <3>3 DEF PubTypes
  <2>2. CountInv(f)'
    BY <1>11 DEF Central!Breaks, Central!Done, PubTypes, CountInv
  <2>3. IdInv'
    BY <1>11 DEF Central!Breaks, Central!Done, PubTypes, IdInv
  <2>4. VerifiedInv'
    BY <1>11 DEF Central!Breaks, Central!Done, PubTypes, VerifiedInv, Central!Valid
  <2>5. AnswerInv'
    BY <1>11 DEF Central!Breaks, Central!Done, PubTypes, AnswerInv, Everything
  <2> QED
    BY <2>1, <2>2, <2>3, <2>4, <2>5
<1>12. CASE Late!Breaks
  <2>1. PubTypes(f)'
    <3>1. /\ Late!Done("failed")
          /\ UNCHANGED <<bundle, runs, now, request, deployments, listing, dropped, public>>
      BY <1>12 DEF Late!Breaks
    <3>2. job' \in Jobs(f) /\ job'.page = job.page
      BY <3>1 DEF Late!Done, PubTypes, Jobs, Central!Positions, Central!Outcomes
    <3> QED
      BY <3>1, <3>2 DEF PubTypes
  <2>2. CountInv(f)'
    BY <1>12 DEF Late!Breaks, Late!Done, PubTypes, CountInv
  <2>3. IdInv'
    BY <1>12 DEF Late!Breaks, Late!Done, PubTypes, IdInv
  <2>4. VerifiedInv'
    BY <1>12 DEF Late!Breaks, Late!Done, PubTypes, VerifiedInv, Central!Valid
  <2>5. AnswerInv'
    BY <1>12 DEF Late!Breaks, Late!Done, PubTypes, AnswerInv, Everything
  <2> QED
    BY <2>1, <2>2, <2>3, <2>4, <2>5
<1>13. CASE Central!Accept
  <2>1. /\ request # <<>> /\ request[1] \in Central!Bundles
        /\ request' \in Seq(Central!Bundles) /\ Len(request') + 1 = Len(request)
        /\ \A i \in 1 .. Len(request') : request'[i] = request[i + 1]
        /\ deployments' \in Seq([data : Central!Bundles, state : Central!States])
        /\ Len(deployments') = Len(deployments) + 1
        /\ \A d \in 1 .. Len(deployments) : deployments'[d] = deployments[d]
        /\ deployments'[Len(deployments) + 1].data = request[1]
        /\ Len(listing') = Len(listing) + 1
        /\ \A i \in 1 .. Len(listing) : listing'[i] = listing[i]
        /\ listing'[Len(listing) + 1] = Len(deployments) + 1
        /\ listing' = Append(listing, Len(deployments) + 1)
        /\ UNCHANGED <<bundle, runs, dropped, public>>
    BY <1>13, AcceptFacts
  <2>2. /\ Len(deployments) \in Nat /\ Len(request) \in Nat /\ Len(listing) \in Nat
        /\ Len(request') \in Nat /\ Len(deployments) + 1 \in 1 .. MaxRuns
    BY <2>1, SMTT(30) DEF PubTypes, CountInv
  <2>3. /\ job' \in Jobs(f) /\ job'.data = job.data /\ job'.page = job.page
        /\ job'.found = job.found /\ job'.next = job.next
        /\ now' \in 0 .. Deadline + 1
        /\ \/ /\ job.pc = "sent" /\ job'.pc = "poll" /\ job'.id = Len(deployments) + 1
              /\ job'.outcome = "none"
           \/ job.pc = "sent" /\ job'.pc = "done" /\ job'.outcome = "failed" /\ job'.id = job.id
           \/ job' = job
    <3>1. CASE /\ job.pc = "sent"
               /\ job' = [job EXCEPT !.pc = "poll", !.id = Len(deployments) + 1] /\ now' = 0
      <4>1. job' \in Jobs(f)
        BY <2>2, <3>1 DEF PubTypes, Jobs, Central!Positions, Central!Ids
      <4>2. now' \in 0 .. Deadline + 1
        BY <3>1
      <4>3. /\ job'.pc = "poll" /\ job'.id = Len(deployments) + 1 /\ job'.outcome = "none"
            /\ job'.data = job.data /\ job'.page = job.page /\ job'.found = job.found
            /\ job'.next = job.next
        BY <3>1 DEF AnswerInv, PubTypes, Jobs
      <4> QED
        BY <3>1, <4>1, <4>2, <4>3
    <3>2. CASE /\ job.pc = "sent" /\ now' = now
               /\ job' = [job EXCEPT !.pc = "done", !.outcome = "failed"]
      BY <3>2 DEF PubTypes, Jobs, Central!Positions, Central!Outcomes
    <3>3. CASE job' = job /\ now' = now
      BY <3>3 DEF PubTypes
    <3> QED
      BY <1>13, <3>1, <3>2, <3>3 DEF Central!Accept
  <2>4. PubTypes(f)'
    <3>1. listing' \in Seq(Central!Ids \cup {0})
      BY <2>1, <2>2 DEF PubTypes, Central!Ids
    <3>2. job'.page = 0 \/ job'.page < f + Len(deployments')
      <4>1. job.page \in Nat /\ (job.page = 0 \/ job.page < f + Len(deployments))
        BY DEF PubTypes, Jobs
      <4>2. job'.page = job.page /\ Len(deployments') = Len(deployments) + 1
        BY <2>1, <2>3
      <4> QED
        BY <2>2, <4>1, <4>2
    <3>3. /\ bundle' \in Central!Bundles /\ runs' \in 0 .. MaxRuns /\ dropped' \subseteq Central!Ids
          /\ public' \in [Central!Names -> Bytes \cup {Central!Absent}]
      BY <2>1 DEF PubTypes
    <3> QED
      BY <2>1, <2>3, <3>1, <3>2, <3>3 DEF PubTypes
  <2>5. CountInv(f)'
    <3>1. \A i \in 1 .. Len(listing') : listing'[i] \in (1 .. Len(deployments')) \cup {0}
      BY <2>1, <2>2, SMTT(30) DEF CountInv
    <3>2. /\ Len(deployments') + Len(request') = Len(deployments) + Len(request)
          /\ Len(listing') <= f + Len(deployments')
      <4>1. /\ Len(deployments') = Len(deployments) + 1 /\ Len(request') + 1 = Len(request)
            /\ Len(listing') = Len(listing) + 1
        BY <2>1
      <4>2. Len(listing) <= f + Len(deployments)
        BY DEF CountInv
      <4> QED
        BY <2>2, <4>1, <4>2, SMTT(30)
    <3>3. job'.pc \in {"verify", "list", "public", "upload"} => job' = job
      BY <2>3
    <3> QED
      BY <2>1, <3>1, <3>2, <3>3 DEF CountInv
  <2>6. IdInv'
    BY <2>1, <2>2, <2>3, SMTT(30) DEF IdInv
  <2>7. VerifiedInv'
    <3>1. \A i \in 1 .. Len(request') : Central!Valid(request'[i])
      <4> SUFFICES ASSUME NEW i \in 1 .. Len(request') PROVE Central!Valid(request'[i])
        OBVIOUS
      <4>1. i + 1 \in 1 .. Len(request) /\ request'[i] = request[i + 1]
        BY <2>1, <2>2
      <4>2. Central!Valid(request[i + 1])
        BY <4>1 DEF VerifiedInv
      <4> QED
        BY <4>1, <4>2
    <3>2. Central!Valid(request[1])
      BY <2>1, <2>2 DEF VerifiedInv
    <3>3. \A d \in 1 .. Len(deployments') : Central!Valid(deployments'[d].data)
      <4> SUFFICES ASSUME NEW d \in 1 .. Len(deployments')
                   PROVE  Central!Valid(deployments'[d].data)
        OBVIOUS
      <4>1. CASE d = Len(deployments) + 1
        BY <2>1, <3>2, <4>1
      <4>2. CASE d # Len(deployments) + 1
        <5>1. d \in 1 .. Len(deployments) /\ deployments'[d] = deployments[d]
          BY <2>1, <2>2, <4>2
        <5> QED
          BY <5>1 DEF VerifiedInv
      <4> QED
        BY <4>1, <4>2
    <3>4. Central!Valid(job'.data)
      BY <2>3 DEF VerifiedInv
    <3> QED
      BY <3>1, <3>3, <3>4 DEF VerifiedInv
  <2>8. AnswerInv'
    <3>1. job.id \in 1 .. Len(deployments) => deployments'[job.id] = deployments[job.id]
      BY <2>1
    <3> QED
      BY <2>1, <2>3, <3>1 DEF IdInv, AnswerInv, Everything
  <2> QED
    BY <2>4, <2>5, <2>6, <2>7, <2>8
<1>14. ASSUME NEW d \in 1 .. Len(deployments), Central!Advance(d) PROVE PubInv(f)'
  <2>1. /\ deployments' \in Seq([data : Central!Bundles, state : Central!States])
        /\ Len(deployments') = Len(deployments)
        /\ \A e \in 1 .. Len(deployments) : deployments'[e].data = deployments[e].data
        /\ \A e \in 1 .. Len(deployments) :
             deployments[e].state = "PUBLISHED" => deployments'[e].state = "PUBLISHED"
        /\ UNCHANGED <<bundle, job, runs, now, request, listing, dropped, public>>
    BY <1>14, AdvanceFacts DEF PubTypes
  <2>2. PubTypes(f)'
    BY <2>1 DEF PubTypes
  <2>3. CountInv(f)'
    BY <2>1 DEF PubTypes, CountInv
  <2>4. IdInv'
    BY <2>1 DEF PubTypes, IdInv
  <2>5. VerifiedInv'
    <3>1. \A e \in 1 .. Len(deployments') : Central!Valid(deployments'[e].data)
      BY <2>1 DEF VerifiedInv
    <3> QED
      BY <2>1, <3>1 DEF VerifiedInv, Central!Valid
  <2>6. AnswerInv'
    BY <2>1 DEF IdInv, AnswerInv, Everything
  <2> QED
    BY <2>2, <2>3, <2>4, <2>5, <2>6
<1>15. ASSUME NEW d \in 1 .. Len(deployments), NEW n \in Central!Names, Central!Spread(d, n)
      PROVE  PubInv(f)'
  <2>1. PubTypes(f)'
    <3>1. deployments[d].data.art[n] \in Bytes
      <4>1. deployments[d] \in [data : Central!Bundles, state : Central!States]
        BY ElementOf DEF PubTypes
      <4>2. deployments[d].data \in Central!Bundles
        BY <4>1
      <4> QED
        BY <4>2 DEF Central!Bundles
    <3>2. public' \in [Central!Names -> Bytes \cup {Central!Absent}]
      BY <1>15, <3>1 DEF Central!Spread, PubTypes
    <3> QED
      BY <1>15, <3>2 DEF Central!Spread, PubTypes
  <2>2. CountInv(f)'
    BY <1>15 DEF Central!Spread, PubTypes, CountInv
  <2>3. IdInv'
    BY <1>15 DEF Central!Spread, PubTypes, IdInv
  <2>4. VerifiedInv'
    BY <1>15 DEF Central!Spread, PubTypes, VerifiedInv, Central!Valid
  <2>5. AnswerInv'
    BY <1>15 DEF Central!Spread, PubTypes, AnswerInv, Everything
  <2> QED
    BY <2>1, <2>2, <2>3, <2>4, <2>5
<1>16. ASSUME NEW d \in 1 .. Len(deployments), Central!Clean(d) PROVE PubInv(f)'
  <2>1. /\ listing' \in Seq(Central!Ids \cup {0}) /\ Len(listing') <= Len(listing)
        /\ \A k \in 1 .. Len(listing') : \E i \in 1 .. Len(listing) : listing'[k] = listing[i]
    BY <1>16, UnlistFacts DEF Central!Clean, PubTypes
  <2>2. /\ dropped' \subseteq Central!Ids
        /\ UNCHANGED <<bundle, job, runs, now, request, deployments, public>>
    BY <1>16 DEF Central!Clean, PubTypes
  <2>3. PubTypes(f)'
    BY <2>1, <2>2 DEF PubTypes
  <2>4. CountInv(f)'
    <3>1. \A k \in 1 .. Len(listing') : listing'[k] \in (1 .. Len(deployments)) \cup {0}
      BY <2>1 DEF CountInv
    <3>2. Len(listing') <= f + Len(deployments)
      BY <2>1 DEF CountInv, PubTypes
    <3> QED
      BY <2>2, <3>1, <3>2 DEF CountInv
  <2>5. IdInv'
    BY <2>1, <2>2 DEF PubTypes, IdInv
  <2>6. VerifiedInv'
    BY <2>1, <2>2 DEF PubTypes, VerifiedInv, Central!Valid
  <2>7. AnswerInv'
    BY <2>1, <2>2 DEF PubTypes, AnswerInv, Everything
  <2> QED
    BY <2>3, <2>4, <2>5, <2>6, <2>7
<1>17. ASSUME NEW d \in 1 .. Len(deployments), Central!DropFailed(d) PROVE PubInv(f)'
  <2>1. /\ listing' \in Seq(Central!Ids \cup {0}) /\ Len(listing') <= Len(listing)
        /\ \A k \in 1 .. Len(listing') : \E i \in 1 .. Len(listing) : listing'[k] = listing[i]
    BY <1>17, UnlistFacts DEF Central!DropFailed, PubTypes
  <2>2. /\ dropped' \subseteq Central!Ids
        /\ UNCHANGED <<bundle, job, runs, now, request, deployments, public>>
    <3>1. Len(deployments) \in Nat /\ Len(deployments) <= MaxRuns
      BY DEF PubTypes, CountInv
    <3> QED
      BY <1>17, <3>1 DEF Central!DropFailed, PubTypes, Central!Ids
  <2>3. PubTypes(f)'
    BY <2>1, <2>2 DEF PubTypes
  <2>4. CountInv(f)'
    <3>1. \A k \in 1 .. Len(listing') : listing'[k] \in (1 .. Len(deployments)) \cup {0}
      BY <2>1 DEF CountInv
    <3>2. Len(listing') <= f + Len(deployments)
      BY <2>1 DEF CountInv, PubTypes
    <3> QED
      BY <2>2, <3>1, <3>2 DEF CountInv
  <2>5. IdInv'
    BY <2>1, <2>2 DEF PubTypes, IdInv
  <2>6. VerifiedInv'
    BY <2>1, <2>2 DEF PubTypes, VerifiedInv, Central!Valid
  <2>7. AnswerInv'
    BY <2>1, <2>2 DEF PubTypes, AnswerInv, Everything
  <2> QED
    BY <2>3, <2>4, <2>5, <2>6, <2>7
<1> QED
  BY <1>1, <1>2, <1>3, <1>4, <1>5, <1>6, <1>7, <1>8, <1>9, <1>10, <1>11, <1>12, <1>13, <1>14,
   <1>15, <1>16, <1>17 DEF Central!Next, Central!Publisher, Central!Central

(* Nor does a step of the publisher whose uploads die with their request     *)
(* let a retry miss what an earlier run left.                                *)
LEMMA OneKept ==
  ASSUME Central!PublishAssumption, PubInv(Foreign), OneInv, Central!Next
  PROVE  OneInv'
<1> USE DEF Central!PublishAssumption
<1>0. /\ Undropped = (1 .. Len(deployments)) \ dropped /\ Len(deployments) \in Nat
      /\ Len(listing) \in Nat /\ Len(request) \in Nat
  BY DEF Undropped, PubInv, PubTypes
<1>a. ASSUME UNCHANGED <<request, deployments, listing, dropped, public>>,
             job'.pc \notin {"list", "public", "upload", "sent"},
             request # <<>> => FALSE
      PROVE  OneInv'
  BY <1>a DEF OneInv, Undropped, Everything, Central!Listed
<1>1. CASE Central!BuildBundle
  <2>1. /\ UNCHANGED <<request, deployments, listing, dropped, public>>
        /\ job'.pc = "verify" /\ job.pc # "sent"
    BY <1>1 DEF Central!BuildBundle, Central!central, PubInv, PubTypes, Jobs
  <2> QED
    BY <1>a, <2>1 DEF OneInv
<1>2. CASE Central!Rewrite
  BY <1>2 DEF Central!Rewrite, Central!central, OneInv, Undropped, Everything, Central!Listed
<1>3. CASE Central!Verify
  <2>1. /\ UNCHANGED <<request, deployments, listing, dropped, public>>
        /\ job.pc = "verify" /\ request = <<>> /\ job'.page = 0 /\ job'.pc \in {"list", "done"}
    BY <1>3 DEF Central!Verify, Central!central, OneInv, PubInv, PubTypes, Jobs, IdInv
  <2>2. \A d \in Undropped : \/ Everything
                             \/ \E i \in 1 .. Len(listing) : listing[i] = d /\ 0 * PageSize < i
    BY <1>0 DEF OneInv, Central!Listed
  <2> QED
    BY <2>1, <2>2 DEF OneInv, Undropped, Everything, Central!Listed
<1>4. CASE Central!ListPage
  <2> DEFINE found == job.found \cup (Central!Entries(job.page) \ {0})
  <2>1. /\ job.pc = "list" /\ request = <<>>
        /\ UNCHANGED <<request, deployments, listing, dropped, public>>
    BY <1>4 DEF Central!ListPage, Central!central, OneInv
  <2>2. job' = IF Central!LastPage(job.page) THEN Central!Decided(found)
               ELSE [job EXCEPT !.found = found, !.page = @ + 1]
    BY <1>4 DEF Central!ListPage, Central!None
  <2>3. /\ job \in Jobs(Foreign) /\ job.page \in Nat
        /\ \A d \in Undropped : d # 0
    BY <1>0 DEF PubInv, PubTypes, Jobs
  <2>4. \A d \in Undropped : \/ Everything \/ d \in found
          \/ \E i \in 1 .. Len(listing) : listing[i] = d /\ (job.page + 1) * PageSize < i
    <3> SUFFICES ASSUME NEW d \in Undropped, ~ Everything, d \notin found
                 PROVE  \E i \in 1 .. Len(listing) :
                          listing[i] = d /\ (job.page + 1) * PageSize < i
      OBVIOUS
    <3>1. PICK i \in 1 .. Len(listing) : listing[i] = d /\ job.page * PageSize < i
      BY <2>1 DEF OneInv
    <3>2. ~ (i <= (job.page + 1) * PageSize)
      BY <2>3, <3>1 DEF Central!Entries
    <3>3. (job.page + 1) * PageSize \in Nat
      BY <2>3
    <3> QED
      BY <3>1, <3>2, <3>3
  <2> HIDE DEF found
  <2>5. CASE ~ Central!LastPage(job.page)
    <3>1. job'.pc = "list" /\ job'.found = found /\ job'.page = job.page + 1
      BY <2>1, <2>2, <2>3, <2>5 DEF Jobs
    <3> QED
      BY <2>1, <2>4, <3>1 DEF OneInv, Undropped, Everything, Central!Listed
  <2>6. CASE Central!LastPage(job.page) /\ found # {}
    <3>1. job'.pc \in {"poll", "done"}
      BY <2>2, <2>3, <2>6 DEF Central!Decided, Jobs
    <3> QED
      BY <1>a, <2>1, <3>1
  <2>7. CASE Central!LastPage(job.page) /\ found = {}
    <3>1. job'.pc = "public"
      BY <2>2, <2>3, <2>7 DEF Central!Decided, Jobs
    <3>2. ~ \E i \in 1 .. Len(listing) : (job.page + 1) * PageSize < i
      <4>1. (job.page + 1) * PageSize \in Nat /\ Len(listing) <= (job.page + 1) * PageSize
        BY <2>3, <2>7 DEF Central!LastPage
      <4> QED
        BY <1>0, <4>1
    <3>3. \A d \in Undropped : Everything
      BY <2>4, <2>7, <3>2
    <3> QED
      BY <2>1, <3>1, <3>3 DEF OneInv, Undropped, Everything, Central!Listed
  <2> QED
    BY <2>5, <2>6, <2>7
<1>5. CASE Central!ListFails
  <2>1. /\ UNCHANGED <<request, deployments, listing, dropped, public>>
        /\ request = <<>> /\ job'.pc = "public" /\ job'.raised
    BY <1>5 DEF Central!ListFails, Central!central, OneInv, PubInv, PubTypes, Jobs
  <2> QED
    BY <2>1 DEF OneInv, Undropped, Everything, Central!Listed
<1>6. CASE Central!ReadPublic
  <2>1. /\ UNCHANGED <<request, deployments, listing, dropped, public>>
        /\ job.pc = "public" /\ request = <<>> /\ job \in Jobs(Foreign)
    BY <1>6 DEF Central!ReadPublic, Central!central, OneInv, PubInv, PubTypes
  <2>2. \/ job'.pc = "upload" /\ ~ job.raised /\ public["pom"] = Central!Absent
        \/ job'.pc = "done"
        \/ job'.pc = "public" /\ job'.raised = job.raised
    <3>1. \/ Central!Goto("upload") /\ ~ job.raised /\ public["pom"] = Central!Absent
          \/ \E o \in {"failed", "repository"} : Central!Done(o)
          \/ job' = [job EXCEPT !.next = @ + 1]
      BY <1>6 DEF Central!ReadPublic, Central!Artifacts
    <3> QED
      BY <2>1, <3>1 DEF Central!Goto, Central!Done, Jobs
  <2>3. job'.pc = "upload" => Undropped = {}
    BY <2>1, <2>2 DEF OneInv, Everything, Central!Names
  <2> QED
    BY <2>1, <2>2, <2>3 DEF OneInv, Undropped, Everything, Central!Listed
<1>7. CASE Central!Upload
  <2>1. /\ UNCHANGED <<deployments, listing, dropped, public>>
        /\ job.pc = "upload" /\ request = <<>> /\ request' = Append(request, job.data)
        /\ job'.pc = "sent"
    BY <1>7 DEF Central!Upload, Central!Goto, OneInv, PubInv, PubTypes, Jobs
  <2>2. Len(request') = 1
    BY <2>1
  <2> QED
    BY <2>1, <2>2 DEF OneInv, Undropped, Everything, Central!Listed
<1>8. CASE Central!Poll
  <2>1. /\ UNCHANGED <<request, deployments, listing, dropped, public>>
        /\ request = <<>> /\ job'.pc \in {"done", "sleep"}
    BY <1>8 DEF Central!Poll, Central!central, Central!Done, OneInv, PubInv, PubTypes, Jobs
  <2> QED
    BY <1>a, <2>1
<1>9. CASE Central!Wake
  <2>1. /\ UNCHANGED <<request, deployments, listing, dropped, public>>
        /\ request = <<>> /\ job'.pc = "poll"
    BY <1>9 DEF Central!Wake, Central!central, Central!Goto, OneInv, PubInv, PubTypes, Jobs
  <2> QED
    BY <1>a, <2>1
<1>10. CASE Central!Tick
  BY <1>10 DEF Central!Tick, Central!central, OneInv, Undropped, Everything, Central!Listed
<1>11. CASE Central!Breaks
  <2>1. /\ UNCHANGED <<deployments, listing, dropped, public>>
        /\ request' = <<>> /\ job'.pc = "done"
    BY <1>11 DEF Central!Breaks, Central!Done, PubInv, PubTypes, Jobs
  <2> QED
    BY <2>1 DEF OneInv, Undropped, Everything, Central!Listed
<1>12. CASE Central!Accept
  <2>1. /\ request # <<>> /\ job.pc = "sent" /\ Len(request) = 1 /\ Undropped = {}
    BY <1>12 DEF Central!Accept, OneInv
  <2>2. /\ Len(request') + 1 = Len(request) /\ request' \in Seq(Central!Bundles)
        /\ Len(deployments') = Len(deployments) + 1
        /\ Len(listing') = Len(listing) + 1
        /\ listing'[Len(listing) + 1] = Len(deployments) + 1
        /\ UNCHANGED dropped
    BY <1>12, AcceptFacts DEF PubInv
  <2>3. job'.pc \in {"poll", "done"}
    BY <1>12, <2>1 DEF Central!Accept, PubInv, PubTypes, Jobs
  <2>4. request' = <<>>
    BY <2>1, <2>2
  <2>5. \A d \in Undropped' : d = Len(deployments) + 1
    BY <1>0, <2>1, <2>2 DEF Undropped
  <2>6. \A d \in Undropped' : Central!Listed(d)'
    BY <1>0, <2>2, <2>5 DEF Central!Listed
  <2> QED
    BY <2>3, <2>4, <2>5, <2>6 DEF OneInv
<1>13. ASSUME NEW d \in 1 .. Len(deployments), Central!Advance(d) PROVE OneInv'
  <2>1. /\ Len(deployments') = Len(deployments)
        /\ UNCHANGED <<job, request, listing, dropped, public>>
    BY <1>13, AdvanceFacts DEF PubInv, PubTypes
  <2> QED
    BY <2>1 DEF OneInv, Undropped, Everything, Central!Listed
<1>14. ASSUME NEW d \in 1 .. Len(deployments), NEW n \in Central!Names, Central!Spread(d, n)
       PROVE  OneInv'
  <2>1. ~ Everything /\ UNCHANGED <<job, request, deployments, listing, dropped>>
    BY <1>14 DEF Central!Spread, Everything
  <2> QED
    BY <2>1 DEF OneInv, Undropped, Central!Listed
<1>15. ASSUME NEW d \in 1 .. Len(deployments), Central!Clean(d) PROVE OneInv'
  <2>1. Everything /\ UNCHANGED <<job, request, deployments, dropped, public>>
    BY <1>15 DEF Central!Clean, Everything
  <2>2. Everything'
    BY <2>1 DEF Everything
  <2> QED
    BY <2>1, <2>2 DEF OneInv, Undropped
<1>16. ASSUME NEW d \in 1 .. Len(deployments), Central!DropFailed(d) PROVE OneInv'
  <2>1. /\ job.pc \in {"idle", "done"} /\ dropped' = dropped \cup {d}
        /\ UNCHANGED <<job, request, deployments, public>>
    BY <1>16 DEF Central!DropFailed
  <2>2. \A i \in 1 .. Len(listing) : listing[i] # d =>
          \E k \in 1 .. Len(listing') : listing'[k] = listing[i]
    BY <1>16, UnlistFacts DEF Central!DropFailed, PubInv, PubTypes
  <2>3. Undropped' \subseteq Undropped /\ d \notin Undropped'
    BY <2>1 DEF Undropped
  <2>4. \A e \in Undropped' : Everything \/ Central!Listed(e)'
    BY <2>2, <2>3 DEF OneInv, Central!Listed
  <2> QED
    BY <2>1, <2>3, <2>4 DEF OneInv, Everything
<1> QED
  BY <1>1, <1>2, <1>3, <1>4, <1>5, <1>6, <1>7, <1>8, <1>9, <1>10, <1>11, <1>12, <1>13, <1>14,
     <1>15, <1>16 DEF Central!Next, Central!Publisher, Central!Central

(* The other publisher makes the same steps, but for what becomes of an      *)
(* upload when its job ends.                                                 *)
LEMMA LateSteps == Late!Next => Central!Next \/ Late!Breaks
<1>1. /\ Late!BuildBundle => Central!BuildBundle
      /\ Late!Rewrite => Central!Rewrite
      /\ Late!Tick => Central!Tick
  BY DEF Late!BuildBundle, Central!BuildBundle, Late!Rewrite, Central!Rewrite, Late!Tick,
     Central!Tick, Late!Names, Central!Names, Late!central, Central!central, Late!None,
     Central!None
<1>2. Late!Verify => Central!Verify
  BY DEF Late!Verify, Central!Verify, Late!Valid, Central!Valid, Late!Names, Central!Names,
     Late!central, Central!central
<1>3. Late!ListPage => Central!ListPage
  <2>1. \A found : Late!Decided(found) = Central!Decided(found)
    BY DEF Late!Decided, Central!Decided, Late!Cardinality, Central!Cardinality
  <2>2. \A page : /\ Late!Entries(page) = Central!Entries(page)
                  /\ Late!LastPage(page) = Central!LastPage(page)
    BY DEF Late!Entries, Central!Entries, Late!LastPage, Central!LastPage
  <2> QED
    BY <2>1, <2>2 DEF Late!ListPage, Central!ListPage, Late!None, Central!None, Late!central,
       Central!central
<1>4. Late!ListFails => Central!ListFails
  BY DEF Late!ListFails, Central!ListFails, Late!central, Central!central
<1>5. Late!ReadPublic => Central!ReadPublic
  BY DEF Late!ReadPublic, Central!ReadPublic, Late!Artifacts, Central!Artifacts, Late!Absent,
     Central!Absent, Late!Goto, Central!Goto, Late!Done, Central!Done, Late!central,
     Central!central
<1>6. /\ Late!Upload => Central!Upload
      /\ Late!Wake => Central!Wake
  BY DEF Late!Upload, Central!Upload, Late!Wake, Central!Wake, Late!Goto, Central!Goto,
     Late!central, Central!central
<1>7. Late!Poll => Central!Poll
  BY DEF Late!Poll, Central!Poll, Late!Listed, Central!Listed, Late!Done, Central!Done,
     Late!central, Central!central
<1>8. Late!Central => Central!Central
  <2>1. Late!Accept => Central!Accept
    BY DEF Late!Accept, Central!Accept
  <2>2. ASSUME NEW d \in 1 .. Len(deployments)
        PROVE  /\ Late!Advance(d) => Central!Advance(d)
               /\ Late!Clean(d) => Central!Clean(d)
               /\ Late!DropFailed(d) => Central!DropFailed(d)
               /\ \A n \in Central!Names : Late!Spread(d, n) => Central!Spread(d, n)
    BY DEF Late!Advance, Central!Advance, Late!Clean, Central!Clean, Late!DropFailed,
       Central!DropFailed, Late!Spread, Central!Spread, Late!Unlist, Central!Unlist,
       Late!Names, Central!Names, Late!Absent, Central!Absent
  <2> QED
    BY <2>1, <2>2 DEF Late!Central, Central!Central, Late!Names, Central!Names
<1> QED
  BY <1>1, <1>2, <1>3, <1>4, <1>5, <1>6, <1>7, <1>8 DEF Late!Next, Central!Next,
     Late!Publisher, Central!Publisher

(* Both publishers start so.                                                 *)
LEMMA PubStarts ==
  /\ Central!PublishAssumption /\ Central!Init => PubInv(Foreign) /\ OneInv
  /\ Central!PublishAssumption /\ Late!Init => PubInv(0)
<1>1. ASSUME Central!PublishAssumption, NEW f \in Nat,
             bundle \in {[art |-> a, asc |-> a, sum |-> a] : a \in [Central!Names -> Bytes]},
             job = [pc |-> "idle", data |-> bundle, page |-> 0, found |-> {},
                    raised |-> FALSE, next |-> 1, id |-> 0, until |-> 0, outcome |-> "none"],
             runs = 0, now = 0, request = <<>>, deployments = <<>>,
             listing = [i \in 1 .. f |-> 0], dropped = {},
             public = [n \in Central!Names |-> Central!Absent]
      PROVE  PubInv(f) /\ OneInv
  <2>1. bundle \in Central!Bundles /\ Central!Valid(bundle)
    BY <1>1 DEF Central!Bundles, Central!Valid
  <2>2. job \in Jobs(f)
    BY <1>1, <2>1 DEF Jobs, Central!Positions, Central!Outcomes, Central!PublishAssumption
  <2>3. listing \in Seq(Central!Ids \cup {0}) /\ Len(listing) = f
    BY <1>1
  <2>4. /\ deployments \in Seq([data : Central!Bundles, state : Central!States])
        /\ request \in Seq(Central!Bundles) /\ Len(deployments) = 0 /\ Len(request) = 0
    BY <1>1
  <2>5. PubTypes(f)
    <3>1. runs \in 0 .. MaxRuns /\ now \in 0 .. Deadline + 1 /\ dropped \subseteq Central!Ids
          /\ public \in [Central!Names -> Bytes \cup {Central!Absent}] /\ job.page = 0
      BY <1>1 DEF Central!PublishAssumption
    <3> QED
      BY <2>1, <2>2, <2>3, <2>4, <3>1 DEF PubTypes
  <2>6. CountInv(f)
    BY <1>1, <2>3, <2>4 DEF CountInv
  <2>7. IdInv /\ AnswerInv
    BY <1>1 DEF IdInv, AnswerInv
  <2>8. VerifiedInv
    BY <1>1, <2>1, <2>4 DEF VerifiedInv
  <2>9. OneInv
    BY <1>1, <2>4 DEF OneInv, Undropped
  <2> QED
    BY <2>5, <2>6, <2>7, <2>8, <2>9 DEF PubInv
<1>2. ASSUME Central!PublishAssumption, Central!Init PROVE PubInv(Foreign) /\ OneInv
  BY <1>1, <1>2 DEF Central!Init, Central!PublishAssumption, Central!None
<1>3. ASSUME Central!PublishAssumption, Late!Init PROVE PubInv(0)
  BY <1>1, <1>3 DEF Late!Init, Late!None, Late!Names, Late!Absent, Central!Names,
     Central!Absent
<1>4. QED
  BY <1>2, <1>3

(* Steps of other programs leave a publisher alone.                          *)
LEMMA PubIdle ==
  ASSUME NEW f, UNCHANGED publisher
  PROVE  (PubInv(f) => PubInv(f)') /\ (OneInv => OneInv')
<1>1. UNCHANGED <<bundle, job, runs, now, request, deployments, listing, dropped, public>>
  BY DEF publisher
<1>2. PubTypes(f) => PubTypes(f)'
  BY <1>1 DEF PubTypes
<1>3. (CountInv(f) => CountInv(f)') /\ (IdInv => IdInv') /\ (AnswerInv => AnswerInv')
  BY <1>1 DEF CountInv, IdInv, AnswerInv, Everything
<1>4. VerifiedInv => VerifiedInv'
  BY <1>1 DEF VerifiedInv
<1>5. OneInv => OneInv'
  BY <1>1 DEF OneInv, Undropped, Everything, Central!Listed
<1>6. QED
  BY <1>2, <1>3, <1>4, <1>5 DEF PubInv

(* What both keep is the type, that only verified bytes reach Central, and   *)
(* that success means published.                                             *)
LEMMA PubInvSound ==
  /\ Central!PublishAssumption /\ PubInv(Foreign) =>
       Central!TypeOK /\ Central!UploadedIsVerified /\ Central!SuccessIsPublished
  /\ PubInv(0) => Late!TypeOK /\ Late!UploadedIsVerified /\ Late!SuccessIsPublished
<1>1. ASSUME PubInv(Foreign)
      PROVE  Central!TypeOK /\ Central!UploadedIsVerified /\ Central!SuccessIsPublished
  <2>1. Central!TypeOK
    BY <1>1 DEF PubInv, PubTypes, Jobs, Central!TypeOK, Central!Artifacts, Central!None
  <2>2. Central!UploadedIsVerified
    BY <1>1 DEF PubInv, VerifiedInv, Central!UploadedIsVerified
  <2>3. Central!SuccessIsPublished
    BY <1>1 DEF PubInv, AnswerInv, Central!SuccessIsPublished
  <2> QED
    BY <2>1, <2>2, <2>3
<1>2. ASSUME PubInv(0)
      PROVE  Late!TypeOK /\ Late!UploadedIsVerified /\ Late!SuccessIsPublished
  <2>1. /\ Late!Bundles = Central!Bundles /\ Late!Positions = Central!Positions
        /\ Late!Ids = Central!Ids /\ Late!Outcomes = Central!Outcomes
        /\ Late!States = Central!States /\ Late!Names = Central!Names
        /\ Late!Absent = Central!Absent /\ Late!None = 0 /\ Len(Late!Artifacts) = 2
    BY DEF Late!Bundles, Central!Bundles, Late!Positions, Central!Positions, Late!Ids,
       Central!Ids, Late!Outcomes, Central!Outcomes, Late!States, Central!States,
       Late!Names, Central!Names, Late!Absent, Central!Absent, Late!None, Late!Artifacts
  <2>2. Late!TypeOK
    BY <1>2, <2>1 DEF PubInv, PubTypes, Jobs, Late!TypeOK
  <2>3. Late!UploadedIsVerified
    BY <1>2, <2>1 DEF PubInv, VerifiedInv, Late!UploadedIsVerified, Late!Valid, Central!Valid
  <2>4. Late!SuccessIsPublished
    BY <1>2 DEF PubInv, AnswerInv, Late!SuccessIsPublished
  <2> QED
    BY <2>2, <2>3, <2>4
<1>3. QED
  BY <1>1, <1>2

(* One deployment that was not dropped is at most one.                       *)
LEMMA OneInvSound == OneInv => Central!OneDeployment
<1> SUFFICES ASSUME OneInv PROVE Central!OneDeployment
  OBVIOUS
<1>1. Undropped = {} \/ \E d \in Undropped : Undropped = {d}
  BY DEF OneInv
<1>2. Cardinality(Undropped) \in {0, 1}
  BY <1>1, FS_EmptySet, FS_Singleton
<1>3. Central!Cardinality(Undropped) = Cardinality(Undropped)
  BY Zenon DEF Central!Cardinality, Cardinality
<1>4. Central!Cardinality(Undropped) <= 1
  BY <1>2, <1>3
<1>5. QED
  BY <1>4 DEF Undropped, Central!OneDeployment

(* A release is deployed once, from verified bytes, and a job that succeeds  *)
(* has published it, whatever answer was lost and however often the job is   *)
(* retried (java-central.py, publish_bundle).                                *)
THEOREM PublishCorrect == Central!Spec => [](Central!TypeOK /\ Central!ReleaseIsSound)
<1> DEFINE Kept == PubInv(Foreign) /\ OneInv
<1>1. Central!PublishAssumption
  BY InstancesAssumption
<1>2. Central!Init => Kept
  BY <1>1, PubStarts
<1>3. Kept /\ [Central!Next]_(Central!vars) => Kept'
  <2> SUFFICES ASSUME Kept, [Central!Next]_(Central!vars) PROVE Kept'
    OBVIOUS
  <2>1. CASE Central!Next
    BY <1>1, <2>1, PubKept, OneKept DEF Central!PublishAssumption
  <2>2. CASE UNCHANGED Central!vars
    BY <2>2, PubIdle DEF Central!vars, publisher
  <2> QED
    BY <2>1, <2>2
<1>4. Kept => Central!TypeOK /\ Central!ReleaseIsSound
  BY <1>1, PubInvSound, OneInvSound DEF Central!ReleaseIsSound
<1>5. QED
  BY <1>2, <1>3, <1>4, PTL DEF Central!Spec

(* Both publishers of the run, the one whose uploads may outlive their       *)
(* request among them.                                                       *)
THEOREM ReleasePublishedCorrect == MCSpec => []ReleasePublished
<1> DEFINE Kept == /\ who = "central" => PubInv(Foreign) /\ OneInv
                   /\ who = "late" => PubInv(0)
<1>1. Central!PublishAssumption /\ Foreign \in Nat /\ 0 \in Nat
  BY InstancesAssumption DEF Central!PublishAssumption
<1>2. MCInit => Kept
  BY <1>1, PubStarts DEF MCInit, Started
<1>3. Kept /\ [MCNext]_all => Kept'
  <2> SUFFICES ASSUME Kept, [MCNext]_all PROVE Kept'
    OBVIOUS
  <2>1. CASE CentralNext
    <3>1. CASE who = "central" /\ Central!Next
      BY <1>1, <2>1, <3>1, PubKept, OneKept DEF CentralNext
    <3>2. CASE who = "late" /\ Late!Next
      BY <1>1, <2>1, <3>2, PubKept, LateSteps DEF CentralNext
    <3> QED
      BY <2>1, <3>1, <3>2 DEF CentralNext
  <2>2. CASE ~ CentralNext
    <3>1. UNCHANGED <<who, publisher>>
      BY <2>2 DEF MCNext, ActionNext, PilotNext, WireNext, all
    <3> QED
      BY <3>1, PubIdle
  <2> QED
    BY <2>1, <2>2
<1>4. Kept => ReleasePublished
  BY <1>1, PubInvSound, OneInvSound DEF ReleasePublished, Central!ReleaseIsSound
<1>5. QED
  BY <1>2, <1>3, <1>4, PTL DEF MCSpec


-----------------------------------------------------------------------------
(* The guard of the wire vectors: the two instances of WireHistory.           *)

(* The theorems about the guard, for the histories of one worker.             *)
Reused == INSTANCE WireHistoryProofs WITH
            Inv <- Invocations, Worker <- {"w"}, Points <- {}, Missing <- "missing",
            MaxArrival <- 1, Capacity <- 1, Facts <- {Returned},
            Errors <- {"nil"}, Cases <- {}

(* Both instances of the module, with and without its proofs, say the same.   *)
LEMMA ReuseIsReused ==
  /\ Reuse!HistoryAssumption = Reused!HistoryAssumption
  /\ Reuse!Init = Reused!Init
  /\ Reuse!Next = Reused!Next
  /\ Reuse!vars = Reused!vars
  /\ Reuse!TypeOK = Reused!TypeOK
  /\ Reuse!HistoryIsSound = Reused!HistoryIsSound
  /\ Reuse!StepIsSound = Reused!StepIsSound
<1>1. Reuse!HistoryAssumption = Reused!HistoryAssumption
  BY DEF Reuse!HistoryAssumption, Reused!HistoryAssumption, Reuse!Arrival, Reused!Arrival,
     Reuse!Bodies, Reused!Bodies
<1>2. Reuse!Init = Reused!Init /\ Reuse!vars = Reused!vars
  BY DEF Reuse!Init, Reused!Init, Reuse!vars, Reused!vars
<1>3. Reuse!TypeOK = Reused!TypeOK
  BY DEF Reuse!TypeOK, Reused!TypeOK, Reuse!Arrival, Reused!Arrival, Reuse!Bodies,
     Reused!Bodies
<1>4. Reuse!StepIsSound = Reused!StepIsSound
  BY DEF Reuse!StepIsSound, Reused!StepIsSound, Reuse!EndsReleased, Reused!EndsReleased,
     Reuse!FatalIsPermanent, Reused!FatalIsPermanent
<1>5. Reuse!HistoryIsSound = Reused!HistoryIsSound
  BY DEF Reuse!HistoryIsSound, Reused!HistoryIsSound,
     Reuse!OneLiveInvocation, Reused!OneLiveInvocation,
     Reuse!ReleasesFit, Reused!ReleasesFit,
     Reuse!FaultsAreRefused, Reused!FaultsAreRefused
<1>6. Reuse!LocalStep = Reused!LocalStep
  <2>1. Reuse!Arrival = Reused!Arrival
    BY DEF Reuse!Arrival, Reused!Arrival
  <2>2. ASSUME NEW i, NEW w PROVE Reuse!InvokeCall(i, w) = Reused!InvokeCall(i, w)
    BY DEF Reuse!InvokeCall, Reused!InvokeCall, Reuse!Judged, Reused!Judged
  <2>3. ASSUME NEW w PROVE Reuse!InvokeRejected(w) = Reused!InvokeRejected(w)
    BY Zenon DEF Reuse!InvokeRejected, Reused!InvokeRejected, Reuse!Judged,
       Reused!Judged, Reuse!Cardinality, Reused!Cardinality
  <2>4. ASSUME NEW i, NEW a PROVE Reuse!WorkerArrives(i, a) = Reused!WorkerArrives(i, a)
    BY DEF Reuse!WorkerArrives, Reused!WorkerArrives, Reuse!Judged, Reused!Judged
  <2>5. ASSUME NEW i PROVE Reuse!ExhaustArrivals(i) = Reused!ExhaustArrivals(i)
    BY DEF Reuse!ExhaustArrivals, Reused!ExhaustArrivals, Reuse!Judged, Reused!Judged
  <2>6. ASSUME NEW i PROVE Reuse!CommandException(i) = Reused!CommandException(i)
    BY DEF Reuse!CommandException, Reused!CommandException, Reuse!Judged, Reused!Judged
  <2>7. ASSUME NEW i PROVE Reuse!CancelContext(i) = Reused!CancelContext(i)
    BY DEF Reuse!CancelContext, Reused!CancelContext, Reuse!Judged, Reused!Judged
  <2>8. ASSUME NEW i, NEW a, NEW result PROVE Reuse!RuntimeArriveReturns(i, a, result) = Reused!RuntimeArriveReturns(i, a, result)
    BY DEF Reuse!RuntimeArriveReturns, Reused!RuntimeArriveReturns, Reuse!Judged, Reused!Judged
  <2>9. ASSUME NEW i, NEW facts PROVE Reuse!Completion(i, facts) = Reused!Completion(i, facts)
    BY DEF Reuse!Completion, Reused!Completion, Reuse!Judged, Reused!Judged
  <2>10. QED
    BY Zenon, <2>1, <2>2, <2>3, <2>4, <2>5, <2>6, <2>7, <2>8, <2>9 DEF Reuse!LocalStep, Reused!LocalStep
<1>7. Reuse!Exchange = Reused!Exchange
  BY DEF Reuse!Exchange, Reused!Exchange, Reuse!ReceiveStart, Reused!ReceiveStart,
     Reuse!ReceiveReady, Reused!ReceiveReady, Reuse!ReceiveStop, Reused!ReceiveStop,
     Reuse!ReceiveStopped, Reused!ReceiveStopped, Reuse!ReceiveFatal,
     Reused!ReceiveFatal, Reuse!ReceiveInvoke, Reused!ReceiveInvoke,
     Reuse!ReceiveAccepted, Reused!ReceiveAccepted, Reuse!ReceiveArrive,
     Reused!ReceiveArrive, Reuse!ReceiveRelease, Reused!ReceiveRelease,
     Reuse!ReceiveCancel, Reused!ReceiveCancel, Reuse!ReceiveTerminal,
     Reused!ReceiveTerminal, Reuse!Normal, Reused!Normal, Reuse!Fits, Reused!Fits,
     Reuse!Bound, Reused!Bound, Reuse!TerminalFits, Reused!TerminalFits, Reuse!Judged,
     Reused!Judged, Reuse!Frames, Reused!Frames, Reuse!Frame, Reused!Frame,
     Reuse!Arrival, Reused!Arrival, Reuse!Bodies, Reused!Bodies
<1>8. Reuse!Injected = Reused!Injected
  BY DEF Reuse!Injected, Reused!Injected, Reuse!Inject, Reused!Inject,
     Reuse!RetiredTerminal, Reused!RetiredTerminal, Reuse!InjectFatal,
     Reused!InjectFatal, Reuse!OutOfTurn, Reused!OutOfTurn, Reuse!Premise,
     Reused!Premise, Reuse!Bound, Reused!Bound, Reuse!Normal, Reused!Normal,
     Reuse!Judged, Reused!Judged, Reuse!Frames, Reused!Frames, Reuse!Frame,
     Reused!Frame, Reuse!Arrival, Reused!Arrival, Reuse!Bodies, Reused!Bodies
<1>9. Reuse!Next = Reused!Next
  BY <1>6, <1>7, <1>8 DEF Reuse!Next, Reused!Next
<1>10. QED
  BY <1>1, <1>2, <1>3, <1>4, <1>5, <1>9

(* Neither a history of the first instance nor one of the second is accepted  *)
(* that the protocol forbids, and no step of them does what it forbids.       *)
THEOREM HistoriesSoundCorrect == MCSpec => HistoriesSound
<1> DEFINE Accepted == /\ who = "wire" => WireInv
                       /\ who = "reuse" => Reused!WireInv
           Sound == /\ who = "wire" => TypeOK /\ HistoryIsSound
                    /\ who = "reuse" => Reuse!TypeOK /\ Reuse!HistoryIsSound
           Steps == /\ who = "wire" => StepIsSound
                    /\ who = "reuse" => Reuse!StepIsSound
<1>1. Reused!HistoryAssumption /\ Cases \subseteq WireFaults
  BY InstancesAssumption, ReuseIsReused
<1>2. MCInit => Accepted
  BY <1>1, WireStarts, Reused!WireStarts, ReuseIsReused DEF MCInit
<1>3. Accepted /\ [MCNext]_all => Accepted' /\ Steps
  <2> SUFFICES ASSUME Accepted, [MCNext]_all PROVE Accepted' /\ Steps
    OBVIOUS
  <2>1. /\ who' = who
        /\ who = "wire" => [Next]_vars
        /\ who = "reuse" => [Reuse!Next]_(Reuse!vars)
    BY DEF MCNext, CentralNext, ActionNext, PilotNext, WireNext, all, vars, Reuse!vars
  <2>2. who = "wire" => WireInv' /\ StepIsSound
    BY <2>1, WireKept, WireSteps
  <2>3. who = "reuse" => Reused!WireInv' /\ Reused!StepIsSound
    <3> SUFFICES ASSUME who = "reuse" PROVE Reused!WireInv' /\ Reused!StepIsSound
      OBVIOUS
    <3>1. [Reused!Next]_(Reused!vars)
      <4>1. Reuse!Next \/ UNCHANGED Reuse!vars
        BY <2>1
      <4>2. Reuse!Next = Reused!Next /\ Reuse!vars = Reused!vars
        BY ReuseIsReused
      <4>3. UNCHANGED Reuse!vars => UNCHANGED Reused!vars
        BY DEF Reuse!vars, Reused!vars
      <4>4. QED
        BY Zenon, <4>1, <4>2, <4>3
    <3>2. QED
      BY <1>1, <3>1, Reused!WireKept, Reused!WireSteps
  <2>4. QED
    BY <2>1, <2>2, <2>3, ReuseIsReused
<1>4. Accepted => Sound
  <2>1. WireInv => TypeOK /\ HistoryIsSound
    BY <1>1, WireInvSafe, FaultsRefused DEF HistoryIsSound
  <2>2. Reused!WireInv => Reused!TypeOK /\ Reused!HistoryIsSound
    BY <1>1, Reused!WireInvSafe, Reused!FaultsRefused DEF Reused!HistoryIsSound
  <2>3. QED
    BY <2>1, <2>2, ReuseIsReused
<1>5. MCSpec => []Sound /\ [][Steps]_all
  BY <1>2, <1>3, <1>4, PTL DEF MCSpec
<1>6. QED
  BY <1>5 DEF HistoriesSound
=============================================================================
