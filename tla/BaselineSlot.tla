---------------------------- MODULE BaselineSlot ----------------------------
(***************************************************************************)
(* One baseline slot (arms B1 and B2) of the control comparison, from the  *)
(* spawn of its driver to the row the analysis reduces it to.              *)
(*                                                                         *)
(* The driver (experiments/control-comparison/driver) evaluates Planned    *)
(* executions one after the other and keeps one file for each, at last its *)
(* own receipt run.json.  The stream monitor of the collector sees the     *)
(* files appear.  At the cap the collector cancels the driver, and kills   *)
(* it if it does not end.  baseline and reduce_slot of runner/analyze.py   *)
(* then read the files alone.                                              *)
(*                                                                         *)
(* An execution is clean, violating (its named assertion has rows), dirty  *)
(* (violating, but its JVM or its connections did not close), failed (no   *)
(* evaluation), canceled, or unreset: canceled in the reset, before it had *)
(* a JVM.  Every file is whole: the driver renames it into place.          *)
(***************************************************************************)
EXTENDS SlotEvidence, Sequences, SequencesExt

CONSTANTS
  Planned,    \* executions the arm plans
  MaxTime,    \* the last instant of the model
  Fixed,      \* the variant of the slot is the fixed one
  Faults      \* failures of the environment, besides the cap

ASSUME BaselineAssumption ==
  /\ Planned \in Nat \ {0}
  /\ MaxTime \in Nat /\ MaxTime > Cap
  /\ Fixed \in BOOLEAN
  /\ Faults \subseteq {"dirty", "failed", "teardown", "spawn", "containment", "allocation"}

VARIABLES
  now,        \* the collector's clock
  proc,       \* the driver: spawned, running, ending, or ended
  origin,     \* when the driver's own clock began
  log,        \* the execution files: [kind, at]
  final,      \* run.json, or Unknown
  command,    \* the collector's receipt of the command, or Unknown
  timeout,    \* the cap expired while the command ran
  seen,       \* execution -> when the monitor received its file
  occurred,   \* the failures that did occur
  row         \* the reduced row, or Unknown

vars == <<now, proc, origin, log, final, command, timeout, seen, occurred, row>>

Kinds == {"clean", "violating", "dirty", "failed", "canceled", "unreset"}
Evaluated == {"clean", "violating", "dirty"}
Violating == {"violating", "dirty"}
Valid == {"clean", "violating"}
Times == 0..MaxTime
Receipts == [executions : 0..Planned, elapsed : Times, clean : BOOLEAN,
             error : {"none", "canceled", "failed"}]
Commands == [seconds : Times, exit : {"zero", "one", "signal"}, started : BOOLEAN,
             contained : BOOLEAN]
Spans == [lo : Times, hi : Nat]
Rows == [status : Statuses, first : Spans \cup {Unknown}, detected : BOOLEAN,
         valid : 0..Planned, violations : 0..Planned]

\* None of the values it stands in for.
ASSUME UnknownAssumption ==
  Unknown \notin Nat /\ Unknown \notin Receipts \cup Commands \cup Spans \cup Rows

TypeOK ==
  /\ now \in Times
  /\ proc \in {"spawned", "running", "ending", "ended"}
  /\ origin \in Times \cup {Unknown}
  /\ log \in Seq([kind : Kinds, at : Times]) /\ Len(log) <= Planned
  /\ final \in Receipts \cup {Unknown}
  /\ command \in Commands \cup {Unknown}
  /\ timeout \in BOOLEAN
  /\ seen \in [1..Planned -> Times \cup {Unknown}]
  /\ occurred \subseteq Faults
  /\ row \in Rows \cup {Unknown}

Init ==
  /\ now = 0 /\ proc = "spawned" /\ origin = Unknown
  /\ log = <<>> /\ final = Unknown /\ command = Unknown /\ timeout = FALSE
  /\ seen = [i \in 1..Planned |-> Unknown]
  /\ occurred = {} /\ row = Unknown

-----------------------------------------------------------------------------
(* The driver, as the analysis relies on it.                                *)

Begin ==
  /\ proc = "spawned"
  /\ proc' = "running" /\ origin' = now
  /\ UNCHANGED <<now, log, final, command, timeout, seen, occurred, row>>

\* The last file of a driver that stops early is that of its failure.
Stopped == log # <<>> /\ Last(log).kind \notin Valid

Execute(kind) ==
  /\ proc = "running" /\ Len(log) < Planned /\ ~Stopped
  /\ kind \in {"canceled", "unreset"} => timeout
  /\ kind \in {"dirty", "failed"} => kind \in Faults
  /\ log' = Append(log, [kind |-> kind, at |-> now])
  /\ occurred' = IF kind \in {"dirty", "failed"} THEN occurred \cup {kind} ELSE occurred
  /\ UNCHANGED <<now, proc, origin, final, command, timeout, seen, row>>

\* All executions are done, one of them failed, or the loop saw the
\* cancellation: the fixture is torn down and run.json published.
Publish(clean) ==
  /\ proc = "running"
  /\ Len(log) = Planned \/ Stopped \/ timeout
  /\ ~clean => "teardown" \in Faults
  /\ final' = [executions |-> Len(log), elapsed |-> now - origin, clean |-> clean,
               error |-> CASE ~clean \/ (Stopped /\ Last(log).kind \in {"dirty", "failed"}) -> "failed"
                           [] clean /\ (Stopped \/ Len(log) < Planned)
                                /\ ~(Stopped /\ Last(log).kind \in {"dirty", "failed"}) -> "canceled"
                           [] OTHER -> "none"]
  /\ proc' = "ending"
  /\ occurred' = IF clean THEN occurred ELSE occurred \cup {"teardown"}
  /\ UNCHANGED <<now, origin, log, command, timeout, seen, row>>

-----------------------------------------------------------------------------
(* The collector: the clock, the stream monitor, the cap, the receipt.      *)

Tick ==
  /\ proc # "ended" /\ now < MaxTime
  /\ now' = now + 1
  /\ UNCHANGED <<proc, origin, log, final, command, timeout, seen, occurred, row>>

\* One scan of the monitor receives every evaluation it has not received yet.
Scanned ==
  [i \in 1..Planned |->
     IF seen[i] = Unknown /\ i <= Len(log) /\ log[i].kind \in Evaluated
     THEN now ELSE seen[i]]

Scan ==
  /\ proc # "ended" /\ Scanned # seen
  /\ seen' = Scanned
  /\ UNCHANGED <<now, proc, origin, log, final, command, timeout, occurred, row>>

CapExpires ==
  /\ proc # "ended" /\ now >= Cap /\ ~timeout
  /\ timeout' = TRUE
  /\ UNCHANGED <<now, proc, origin, log, final, command, seen, occurred, row>>

\* The command is reaped and its receipt kept; leaving the monitor scans once
\* more.  A driver still running is one the collector killed.
Reap(exit, contained) ==
  /\ \/ proc = "ending" /\ exit = (IF final.error = "none" THEN "zero" ELSE "one")
     \/ proc \in {"spawned", "running", "ending"} /\ timeout /\ exit = "signal"
  /\ ~contained => "containment" \in Faults
  /\ proc' = "ended"
  /\ command' = [seconds |-> now, exit |-> exit, started |-> TRUE, contained |-> contained]
  /\ seen' = Scanned
  /\ occurred' = IF contained THEN occurred ELSE occurred \cup {"containment"}
  /\ UNCHANGED <<now, origin, log, final, timeout, row>>

SpawnFails ==
  /\ proc = "spawned" /\ "spawn" \in Faults
  /\ proc' = "ended"
  /\ command' = [seconds |-> now, exit |-> "one", started |-> FALSE, contained |-> TRUE]
  /\ occurred' = occurred \cup {"spawn"}
  /\ UNCHANGED <<now, origin, log, final, timeout, seen, row>>

-----------------------------------------------------------------------------
(* The reduction.                                                           *)

Indices(kinds) == {i \in DOMAIN log : log[i].kind \in kinds}

\* A killed driver cannot publish its receipt: its absence is then expected.
CapKilled ==
  /\ final = Unknown /\ timeout
  /\ command.exit = "signal" /\ command.started /\ command.contained

Interval(i) ==
  IF final = Unknown THEN Unknown
  ELSE Bound(log[i].at - origin, final.elapsed, command.seconds)

FirstEvent ==
  LET known == {i \in Indices({"violating"}) : Interval(i) # Unknown} IN
  IF known = {} THEN Unknown
  ELSE Interval(CHOOSE i \in known : \A j \in known : i <= j)

UsableEvent ==
  LET received == {i \in Indices({"violating"}) : seen[i] # Unknown} IN
  IF received = {} THEN Unknown
  ELSE At(seen[CHOOSE i \in received : \A j \in received : i <= j])

\* Why an execution is incomplete: a clean cancellation by the cap, whose JVM
\* was reaped and whose connections closed, is not.
Incomplete(i) == log[i].kind \notin Valid /\ ~(timeout /\ log[i].kind = "canceled")

Operational(released) ==
  {r \in {"receipt", "cleanup", "error", "exit", "execution", "evidence", "planned",
          "command", "allocation"} :
     CASE r = "receipt" -> final = Unknown /\ ~CapKilled
       [] r = "cleanup" -> ~CapKilled /\ (final = Unknown \/ ~final.clean)
       [] r = "error" -> /\ final # Unknown /\ final.error # "none"
                         /\ ~(timeout /\ final.error = "canceled")
       [] r = "exit" -> command.exit # "zero" /\ ~timeout
       [] r = "execution" -> \E i \in DOMAIN log : Incomplete(i)
       [] r = "evidence" -> final # Unknown /\ final.executions # Len(log)
       [] r = "planned" -> Len(log) # Planned /\ ~timeout
       [] r = "command" -> ~command.started \/ ~command.contained
       [] r = "allocation" -> ~released}

Quality == IF Fixed /\ Indices(Violating) # {} THEN {"fixed domain violation"} ELSE {}

Reduce(released) ==
  /\ proc = "ended" /\ row = Unknown
  /\ ~released => "allocation" \in Faults
  /\ row' = [status |-> Status(Operational(released), Quality,
                               timeout \/ command.seconds > Cap),
             first |-> FirstEvent,
             detected |-> Detected(FirstEvent, UsableEvent),
             valid |-> Cardinality(Indices(Valid)),
             violations |-> Cardinality(Indices({"violating"}))]
  /\ occurred' = IF released THEN occurred ELSE occurred \cup {"allocation"}
  /\ UNCHANGED <<now, proc, origin, log, final, command, timeout, seen>>

Next ==
  \/ Begin \/ Tick \/ Scan \/ CapExpires \/ SpawnFails
  \/ \E kind \in Kinds : Execute(kind)
  \/ \E b \in BOOLEAN :
       \/ Publish(b) \/ Reduce(b)
       \/ \E exit \in {"zero", "one", "signal"} : Reap(exit, b)

Spec == Init /\ [][Next]_vars

-----------------------------------------------------------------------------
\* The interval of the first domain event holds the true time of an event that
\* did happen, wherever in the invocation the driver's clock began.
BoundHoldsEvent ==
  row # Unknown /\ row.first # Unknown =>
    \E i \in Indices({"violating"}) : row.first.lo <= log[i].at /\ log[i].at <= row.first.hi

\* A detection is never late: a valid violating execution had ended by the
\* cap, and the collector had received such an execution by the cap.
DetectedIsInTime ==
  row # Unknown /\ row.detected =>
    /\ \E i \in Indices({"violating"}) : log[i].at <= Cap
    /\ \E i \in Indices({"violating"}) : seen[i] # Unknown /\ seen[i] <= Cap

\* A slot is complete only when the driver evaluated every planned execution,
\* nothing failed, the invocation ended within its budget, and a fixed variant
\* showed no violation.
CompleteIsEarned ==
  row # Unknown /\ row.status = "complete" =>
    /\ row.valid = Planned /\ occurred = {}
    /\ command.seconds <= Cap /\ ~timeout
    /\ Fixed => row.violations = 0

\* A kill does not erase what the driver had already evaluated.
EvidenceKept ==
  row # Unknown => row.valid >= Cardinality({i \in 1..Planned : seen[i] # Unknown})
                                - Cardinality(Indices({"dirty"}))

\* The cap alone is no failure: when nothing else went wrong, and it did not
\* land in a reset, the slot is not operationally failed.
CapIsNoFailure ==
  row # Unknown /\ occurred = {} /\ Indices({"unreset"}) = {}
    => row.status # "operational_failed"

\* The row of a baseline slot claims neither more nor less than happened.
RowIsTrue ==
  TypeOK /\ BoundHoldsEvent /\ DetectedIsInTime /\ CompleteIsEarned /\ EvidenceKept /\ CapIsNoFailure

\* The protocol's rule without that exception: a clean cancellation caused only
\* by the collection cap is budget-exhausted, not an operational failure.
CleanCancellationIsExhausted ==
  row # Unknown /\ occurred = {} => row.status # "operational_failed"
=============================================================================
