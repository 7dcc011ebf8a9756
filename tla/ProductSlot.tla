----------------------------- MODULE ProductSlot -----------------------------
(***************************************************************************)
(* One product slot (arms T-R and T-E) of the control comparison: the      *)
(* command `weavegate run` explores or replays (cmd/weavegate/execute.go,  *)
(* internal/orchestrator/explore.go and replay.go), decides its verdict    *)
(* and publishes one run; product and reduce_slot of runner/analyze.py     *)
(* then rebuild from that run alone what happened and when.                *)
(*                                                                         *)
(* An outcome of a run stands for its fingerprint.  The reduction does not *)
(* trust the command: Deviant lists ways in which a changed command could  *)
(* depart from the registered search, and the reduction must notice.       *)
(* Traces are not modelled; a run is published whole or not at all.        *)
(***************************************************************************)
EXTENDS SlotEvidence, Sequences, SequencesExt

CONSTANTS
  Candidates, \* the registered schedules, in their frozen order
  Passes,     \* registered exploration passes
  Repeat,     \* registered repetitions of a replay
  Outcomes,   \* the outcomes a run may have, see DomainRows
  Deviant,    \* departures of the command from the registered search
  MaxTime

ProductAssumption ==
  /\ Passes \in Nat \ {0} /\ Repeat \in Nat \ {0} /\ MaxTime \in Nat
  /\ Len(Candidates) > 0
  /\ Outcomes \subseteq {"clean", "domain", "domain'", "rows", "receipt"}
  /\ Deviant \subseteq {"order", "short", "other", "fewer"}

VARIABLES
  slot,       \* the arm and the variant
  now, origin, \* the collector's clock; when the command's clock began
  phase,      \* explore, replay, publish, ended
  pass,       \* the pass under way
  runs,       \* the executions: [pass (0 in a replay), schedule, outcome, at]
  saved,      \* the schedule replayed, or Unknown
  timeout,    \* the cap expired
  published,  \* the retained run, or Unknown
  command,    \* the receipt of the command, or Unknown
  row

vars == <<slot, now, origin, phase, pass, runs, saved, timeout, published, command, row>>

\* The rows of the domain assertion an outcome violates, if any.
DomainRows(o) ==
  CASE o \in {"domain", "domain'"} -> {"expected"}
    [] o = "rows" -> {"different"}
    [] OTHER -> {}
Violates(o) == o # "clean"

Times == 0..MaxTime
Range2(s) == {s[i] : i \in DOMAIN s}
Runs == [pass : 0..Passes, schedule : Range2(Candidates), outcome : Outcomes, at : Times]

TypeOK ==
  /\ slot \in [arm : {"T-R", "T-E"}, variant : {"vulnerable", "fixed"}]
  /\ now \in Times /\ origin \in Times \cup {Unknown}
  /\ phase \in {"spawned", "explore", "replay", "publish", "ended"}
  /\ pass \in 0..Passes
  /\ runs \in Seq(Runs) /\ Len(runs) <= Passes * Len(Candidates) + Repeat
  /\ saved \in Range2(Candidates) \cup {Unknown}
  /\ timeout \in BOOLEAN
  /\ published = Unknown
       \/ (published.passes \in 0..Passes /\ published.elapsed \in Times)
  /\ command = Unknown
       \/ (command.exit \in {"0", "2", "3", "4", "5", "130", "signal"} /\ command.seconds \in Times)
  /\ row = Unknown \/ row.status \in Statuses

Init ==
  /\ slot \in [arm : {"T-R", "T-E"}, variant : {"vulnerable", "fixed"}]
  /\ now = 0 /\ origin = Unknown
  /\ phase = "spawned" /\ pass = 0 /\ runs = <<>>
  /\ saved = Unknown /\ timeout = FALSE
  /\ published = Unknown /\ command = Unknown /\ row = Unknown

-----------------------------------------------------------------------------
(* The command.                                                             *)

Begin ==
  /\ phase = "spawned"
  /\ origin' = now
  /\ IF slot.arm = "T-E"
     THEN phase' = "explore" /\ pass' = 1 /\ UNCHANGED saved
     ELSE phase' = "replay" /\ saved' = Candidates[1] /\ UNCHANGED pass
  /\ UNCHANGED <<slot, now, runs, timeout, published, command, row>>

InPass(p) == SelectSeq(runs, LAMBDA r : r.pass = p)

\* The next candidate of the pass is run.  A violation ends the search and is
\* replayed; the last candidate ends the pass, and the last pass the search.
ExploreNext(schedule, outcome) ==
  LET index == Len(InPass(pass)) + 1
      last == index = Len(Candidates) \/ "short" \in Deviant
  IN
  /\ phase = "explore"
  /\ schedule = Candidates[index] \/ "order" \in Deviant
  /\ runs' = Append(runs, [pass |-> pass, schedule |-> schedule, outcome |-> outcome, at |-> now])
  /\ \/ /\ Violates(outcome)
        /\ saved' = schedule /\ phase' = "replay" /\ UNCHANGED pass
     \/ /\ ~Violates(outcome) /\ index < Len(Candidates)
        /\ UNCHANGED <<saved, phase, pass>>
     \/ /\ ~Violates(outcome) /\ last /\ pass < Passes
        /\ pass' = pass + 1 /\ UNCHANGED <<saved, phase>>
     \/ /\ ~Violates(outcome) /\ last /\ pass = Passes
        /\ phase' = "publish" /\ UNCHANGED <<saved, pass>>
  /\ UNCHANGED <<slot, now, origin, timeout, published, command, row>>

ReplayNext(schedule, outcome) ==
  LET done == Len(InPass(0)) + 1 IN
  /\ phase = "replay"
  /\ schedule = saved \/ "other" \in Deviant
  /\ runs' = Append(runs, [pass |-> 0, schedule |-> schedule, outcome |-> outcome, at |-> now])
  /\ \/ done < Repeat /\ UNCHANGED phase
     \/ (done = Repeat \/ "fewer" \in Deviant) /\ phase' = "publish"
  /\ UNCHANGED <<slot, now, origin, pass, saved, timeout, published, command, row>>

Outcome(s) == {r.outcome : r \in Range2(s)}
Explored == SelectSeq(runs, LAMBDA r : r.pass # 0)
Replayed == InPass(0)

\* The run exploration found violating.
Discovery == IF slot.arm = "T-E" /\ saved # Unknown THEN Last(Explored).outcome ELSE Unknown

\* Flaky takes priority: replays that differ, or one that is not the discovery.
ComputeVerdict ==
  [flaky |-> /\ saved # Unknown
             /\ \/ Cardinality(Outcome(Replayed)) > 1
                \/ slot.arm = "T-E" /\ Outcome(Replayed) # {Discovery},
   violations |-> Len(SelectSeq(Replayed, LAMBDA r : Violates(r.outcome)))]

ExitCode(verdict, cleaned) ==
  CASE verdict.flaky -> "3"
    [] ~verdict.flaky /\ verdict.violations > 0 -> "2"
    [] ~verdict.flaky /\ verdict.violations = 0 /\ ~cleaned -> "4"
    [] OTHER -> "0"

\* The outcomes whose violations are retained: of the replays and of the discovery.
EvidenceOutcomes ==
  Outcome(Replayed) \cup (IF Discovery = Unknown THEN {} ELSE {Discovery})

Published(cleaned) ==
  LET verdict == ComputeVerdict IN
  [explored |-> Len(Explored), passes |-> pass, repeat |-> Repeat,
   flaky |-> verdict.flaky, violationRuns |-> verdict.violations,
   fingerprints |-> [o \in Outcome(Replayed) |->
                       Len(SelectSeq(Replayed, LAMBDA r : r.outcome = o))],
   discovery |-> Discovery,
   rows |-> UNION {DomainRows(o) : o \in EvidenceOutcomes},
   receipt |-> "receipt" \in EvidenceOutcomes,
   cleaned |-> cleaned, elapsed |-> now - origin]

\* Teardown, then the report, then the exit by the verdict.
Publish(cleaned) ==
  /\ phase = "publish"
  /\ published' = Published(cleaned)
  /\ phase' = "ended"
  /\ command' = [seconds |-> now, exit |-> ExitCode(ComputeVerdict, cleaned)]
  /\ UNCHANGED <<slot, now, origin, pass, runs, saved, timeout, row>>

\* Without a run: canceled by the cap, killed after it, or an execution failed
\* (4 in the fixture, 5 elsewhere).
EndsEarly(exit) ==
  /\ phase # "ended"
  /\ \/ timeout /\ exit \in {"130", "signal"}
     \/ phase \in {"explore", "replay"} /\ exit \in {"4", "5"}
  /\ phase' = "ended"
  /\ command' = [seconds |-> now, exit |-> exit]
  /\ UNCHANGED <<slot, now, origin, pass, runs, saved, timeout, published, row>>

CapExpires ==
  /\ phase # "ended" /\ now >= Cap /\ ~timeout
  /\ timeout' = TRUE
  /\ UNCHANGED <<slot, now, origin, phase, pass, runs, saved, published, command, row>>

\* The collector still takes time to read and check the run that ended.
Tick ==
  /\ row = Unknown /\ now < MaxTime
  /\ now' = now + 1
  /\ UNCHANGED <<slot, origin, phase, pass, runs, saved, timeout, published, command, row>>

-----------------------------------------------------------------------------
(* The reduction: from the retained run, its spans and the exit code.       *)

Domain == published.rows # {}
ReplayStable ==
  /\ published.repeat = Repeat /\ ~published.flaky
  /\ \E o \in DOMAIN published.fingerprints :
       published.fingerprints = [p \in {o} |-> Repeat]
Wanted == IF slot.variant = "vulnerable" THEN Repeat ELSE 0
Unwanted == published.violationRuns # Wanted \/ (Wanted > 0) # Domain
\* A fixed control that fully reproduces a violation is unexpected, not invalid.
Reproduced == slot.variant = "fixed" /\ Domain /\ published.violationRuns = Repeat

\* Each pass visits the candidates in their frozen order, and all of them
\* unless it is the last pass of a search that found something.
Traversed ==
  \A p \in 1..published.passes :
    LET visited == [i \in DOMAIN InPass(p) |-> InPass(p)[i].schedule] IN
    /\ IsPrefix(visited, Candidates)
    /\ saved = Unknown \/ p < published.passes => visited = Candidates

ReplaysSaved == Len(Replayed) = Repeat /\ \A r \in Range2(Replayed) : r.schedule = saved
Mapped ==
  /\ Explored # <<>> /\ Len(Explored) = published.explored
  /\ Last(Explored).pass = published.passes /\ Last(Explored).schedule = saved
Confirmed == published.discovery \in DOMAIN published.fingerprints

QualityReasons ==
  {r \in {"receipt", "flaky", "repeat", "outcome", "undiscovered", "rows", "search",
          "confirmation", "unclean", "exit", "count", "order", "replayed", "mapping",
          "fingerprint"} :
     CASE r = "receipt" -> published.receipt
       [] r = "flaky" -> published.flaky \/ command.exit = "3"
       [] r = "repeat" -> saved # Unknown /\ ~ReplayStable
       [] r = "outcome" -> saved # Unknown /\ Unwanted /\ ~Reproduced
       [] r = "undiscovered" -> saved # Unknown /\ slot.arm = "T-E" /\ ~Domain
       [] r = "rows" -> saved # Unknown /\ Domain /\ published.rows # {"expected"}
       [] r = "search" -> saved = Unknown /\ (\/ published.explored # Passes * Len(Candidates)
                                              \/ published.passes # Passes)
       [] r = "confirmation" -> saved = Unknown /\ DOMAIN published.fingerprints # {}
       [] r = "unclean" -> saved = Unknown /\ (published.violationRuns # 0 \/ Domain
                                               \/ published.flaky \/ command.exit # "0")
       [] r = "exit" -> \/ command.exit = "0" /\ (Domain \/ published.flaky)
                        \/ command.exit = "2" /\ (~Domain \/ published.flaky)
       [] r = "count" -> Len(runs) # published.explored + (IF saved = Unknown THEN 0 ELSE Repeat)
       [] r = "order" -> ~Traversed
       [] r = "replayed" -> saved # Unknown /\ ~ReplaysSaved
       [] r = "mapping" -> saved # Unknown /\ slot.arm = "T-E" /\ ~Mapped
       [] r = "fingerprint" -> saved # Unknown /\ slot.arm = "T-E" /\ ~Confirmed}

OutcomeReasons ==
  IF Domain /\ slot.variant = "fixed" THEN {"fixed domain violation"} ELSE {}

\* Discovery is reported for a finished search whatever happened afterwards.
Stable ==
  /\ slot.arm = "T-E" /\ saved # Unknown
  /\ ReplayStable /\ Domain /\ published.violationRuns = Repeat
  /\ ReplaysSaved /\ Mapped /\ Confirmed
  /\ QualityReasons = {}

\* The first domain event: the first replay of an unambiguous replay, or the
\* discovery when the retained rows can be attributed to it.
FirstEvent ==
  LET known(at) == Bound(at - origin, published.elapsed, command.seconds) IN
  CASE /\ slot.arm = "T-R" /\ Domain /\ Replayed # <<>>
       /\ Cardinality(DOMAIN published.fingerprints) = 1 /\ ~published.flaky
         -> known(Replayed[1].at)
    [] /\ slot.arm = "T-E" /\ saved # Unknown /\ Mapped /\ Domain
       /\ Confirmed \/ published.violationRuns = 0
         -> known(Last(Explored).at)
    [] OTHER -> Unknown

\* The command ended by the cap before it could publish.
Absent == published = Unknown /\ timeout /\ command.exit = "130"

Operational(released) ==
  {r \in {"missing", "cleanup", "exit", "allocation"} :
     CASE r = "missing" -> published = Unknown /\ ~Absent
       [] r = "cleanup" -> published # Unknown /\ ~published.cleaned
       [] r = "exit" -> published # Unknown /\ command.exit \notin {"0", "2", "3"} /\ ~timeout
       [] r = "allocation" -> ~released}

\* Fault: the receipt is taken as usable when the command ends.
Reduce_AtExit(released) ==
  LET read == published # Unknown
      quality == IF read THEN QualityReasons ELSE {}
      first == IF read THEN FirstEvent ELSE Unknown
      usable == IF read /\ quality = {} THEN At(command.seconds) ELSE Unknown
  IN
  /\ phase = "ended" /\ row = Unknown
  /\ row' = [status |-> Status(Operational(released),
                               quality \cup (IF read THEN OutcomeReasons ELSE {}),
                               timeout \/ command.seconds > Cap),
             quality |-> quality, first |-> first,
             stable |-> read /\ Stable,
             detected |-> Detected(first, usable), usable |-> usable,
             miss |-> /\ read /\ slot = [arm |-> "T-E", variant |-> "vulnerable"]
                      /\ saved = Unknown /\ quality = {} /\ published.cleaned]
  /\ UNCHANGED <<slot, now, origin, phase, pass, runs, saved, timeout, published, command>>

\* The receipt is usable at the instant the collector has validated it.
Reduce(released) ==
  LET read == published # Unknown
      quality == IF read THEN QualityReasons ELSE {}
      first == IF read THEN FirstEvent ELSE Unknown
      usable == IF read /\ quality = {} THEN At(now) ELSE Unknown
  IN
  /\ phase = "ended" /\ row = Unknown
  /\ row' = [status |-> Status(Operational(released),
                               quality \cup (IF read THEN OutcomeReasons ELSE {}),
                               timeout \/ command.seconds > Cap),
             quality |-> quality, first |-> first,
             stable |-> read /\ Stable,
             detected |-> Detected(first, usable), usable |-> usable,
             miss |-> /\ read /\ slot = [arm |-> "T-E", variant |-> "vulnerable"]
                      /\ saved = Unknown /\ quality = {} /\ published.cleaned]
  /\ UNCHANGED <<slot, now, origin, phase, pass, runs, saved, timeout, published, command>>

Next ==
  \/ Begin \/ Tick \/ CapExpires
  \/ \E s \in Range2(Candidates), o \in Outcomes : ExploreNext(s, o) \/ ReplayNext(s, o)
  \/ \E b \in BOOLEAN : Publish(b) \/ Reduce(b)
  \/ \E exit \in {"130", "signal", "4", "5"} : EndsEarly(exit)

Spec == Init /\ [][Next]_vars

-----------------------------------------------------------------------------
\* The run a reported time is attributed to: the discovery in an exploration.
EventIsOfTheRun ==
  \E r \in Range2(runs) :
    /\ DomainRows(r.outcome) # {} /\ row.first.lo <= r.at /\ r.at <= row.first.hi
    /\ slot.arm = "T-E" => r = Last(Explored)

\* The interval a valid row reports for its first domain event holds the end of
\* a run that did violate the domain assertion, wherever in the invocation the
\* command's clock began - in an exploration the end of the discovery itself.
BoundHoldsDiscovery ==
  row # Unknown /\ row.first # Unknown /\ row.quality = {} => EventIsOfTheRun

\* The protocol's rule for any row: when only a different replay has the domain
\* evidence, the time of the discovery is unknown and not that replay's.
TimingIsOfTheDiscovery ==
  row # Unknown /\ row.first # Unknown => EventIsOfTheRun

\* A detection is never late, nor is its evidence: some run had violated the
\* domain assertion by the cap, and the collector was done validating by then.
DetectedIsInTime ==
  row # Unknown /\ row.detected =>
    /\ \E r \in Range2(runs) : DomainRows(r.outcome) # {} /\ r.at <= Cap
    /\ now <= Cap

\* A search that kept to the registered order, whose replays all equal its
\* discovery and show the expected rows, is never called a quality failure.
HonestIsValid ==
  row # Unknown /\ published # Unknown /\ slot.arm = "T-E" /\ saved # Unknown
    /\ Discovery \in {"domain", "domain'"} /\ Outcome(Replayed) = {Discovery}
    /\ Deviant = {} => row.quality = {}

\* A stable confirmation means what it says, even of a command that departs
\* from the search it was given: every registered replay ran the discovered
\* schedule and repeated the discovery, with the expected domain rows, and
\* every pass before it had gone through all candidates in order.
StableIsReproduced ==
  row # Unknown /\ row.stable =>
    /\ Len(Replayed) = Repeat
    /\ \A r \in Range2(Replayed) : r.outcome = Last(Explored).outcome
                                     /\ r.schedule = Last(Explored).schedule
    /\ DomainRows(Last(Explored).outcome) = {"expected"}
    /\ \A p \in 1..pass - 1 : [i \in DOMAIN InPass(p) |-> InPass(p)[i].schedule] = Candidates

\* A search is reported as an unexpected miss only when every candidate was
\* run in every registered pass and none violated anything.
MissIsReal ==
  row # Unknown /\ row.miss =>
    /\ \A p \in 1..Passes : [i \in DOMAIN InPass(p) |-> InPass(p)[i].schedule] = Candidates
    /\ \A r \in Range2(runs) : ~Violates(r.outcome)

\* The row of a product slot claims neither more nor less than its search showed.
RowIsTrue ==
  BoundHoldsDiscovery /\ DetectedIsInTime /\ HonestIsValid /\ StableIsReproduced /\ MissIsReal

\* The discovery is scanned for violated assertions only when the replays never
\* reproduced its violation.
ReproducedEvidence ==
  published # Unknown /\ published.violationRuns > 0 =>
    published.rows = UNION {DomainRows(o) : o \in Outcome(Replayed)}
=============================================================================
