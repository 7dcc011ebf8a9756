---------------------------- MODULE HarnessProofs ----------------------------
(* Theorems about the harness of the experiments.  The row of a baseline     *)
(* slot: for every number of planned executions, every cap, every length of  *)
(* the clock, both variants and every set of failures of the environment.    *)
(* One call of the collector's execute: for every number of signals and      *)
(* whatever the hook does to its receipt.                                    *)
EXTENDS BaselineSlot, CommandRun, FiniteSetTheorems, TLAPS

-----------------------------------------------------------------------------
(* What the row rests on: the two receipts, the files and the failures that  *)
(* occurred agree with one another before anything is reduced.               *)

\* How far the driver and its clock have come.
PhaseInv ==
  /\ proc = "spawned" => log = <<>>
  /\ proc \in {"spawned", "running"} => final = Unknown
  /\ proc = "ending" => final # Unknown
  /\ proc \in {"running", "ending"} => origin # Unknown
  /\ origin # Unknown => origin <= now
  /\ row # Unknown => proc = "ended"

\* The driver's receipt covers its files and a part of the invocation, and
\* admits why it stopped early.
FinalInv ==
  final # Unknown =>
    /\ origin # Unknown /\ origin + final.elapsed <= now
    /\ final.executions = Len(log)
    /\ final.error = "failed" => occurred # {}
    /\ final.error = "canceled" => timeout \/ occurred # {}
    /\ Len(log) = Planned \/ timeout \/ occurred # {}

\* The collector's receipt covers the whole invocation, and an exit that is
\* not the driver's own is a failed spawn or a kill at the cap.
CommandInv ==
  proc = "ended" =>
    /\ command # Unknown /\ command.seconds = now
    /\ \/ ~ command.started
       \/ command.exit = "signal" /\ timeout
       \/ final # Unknown /\ command.exit = (IF final.error = "none" THEN "zero" ELSE "one")

\* No file without its cause, and nothing received that was not written.
LogInv ==
  /\ \A i \in DOMAIN log : /\ log[i].kind \in {"canceled", "unreset"} => timeout
                           /\ log[i].kind \in {"dirty", "failed"} => log[i].kind \in occurred
  /\ \A i \in 1 .. Planned : seen[i] # Unknown => i <= Len(log) /\ log[i].kind \in Evaluated

\* Every failure that occurred left its mark.
OccurredInv ==
  /\ \A k \in {"dirty", "failed"} : k \in occurred => \E i \in DOMAIN log : log[i].kind = k
  /\ "teardown" \in occurred <=> final # Unknown /\ ~ final.clean
  /\ "containment" \in occurred <=> proc = "ended" /\ ~ command.contained
  /\ "spawn" \in occurred <=> proc = "ended" /\ ~ command.started
  /\ "allocation" \in occurred => row # Unknown

SlotInv == TypeOK /\ PhaseInv /\ FinalInv /\ CommandInv /\ LogInv /\ OccurredInv

-----------------------------------------------------------------------------
(* Lemmas about numbers, sequences and records.                              *)

(* A nonempty set of numbers has a least one.                                *)
LEMMA LeastOf ==
  ASSUME NEW S, S \subseteq Nat, S # {}
  PROVE  \E i \in S : \A j \in S : i <= j
<1> DEFINE T == {0 .. i : i \in S}
           R == StrictSubsetOrdering(Nat)
<1>1. T \subseteq FiniteSubsetsOf(Nat)
  <2>1. ASSUME NEW i \in S PROVE 0 .. i \subseteq Nat /\ IsFiniteSet(0 .. i)
    <3>1. i \in Int /\ 0 \in Int
      BY <2>1
    <3>2. QED
      BY <3>1, FS_Interval
  <2>2. QED
    BY <2>1 DEF FiniteSubsetsOf
<1>2. IsWellFoundedOn(R, FiniteSubsetsOf(Nat))
  BY FS_StrictSubsetOrderingWellFounded
<1>3. T # {}
  OBVIOUS
<1> HIDE DEF R
<1>4. PICK x \in T : \A y \in T : <<y, x>> \notin R
  BY <1>1, <1>2, <1>3, WFMin
<1>5. PICK i \in S : x = 0 .. i
  OBVIOUS
<1>6. ASSUME NEW j \in S, ~ i <= j PROVE FALSE
  <2>1. 0 .. j \subseteq 0 .. i /\ 0 .. j \subseteq Nat /\ 0 .. i \subseteq Nat
    BY <1>6
  <2>2. i \in 0 .. i /\ i \notin 0 .. j
    BY <1>6
  <2>3. 0 .. j # 0 .. i
    BY <2>2
  <2>4. <<0 .. j, 0 .. i>> \in R
    BY <2>1, <2>3 DEF R, StrictSubsetOrdering
  <2>5. QED
    BY <1>4, <1>5, <2>4
<1>7. QED
  BY <1>6

(* What a file appended to the log changes.                                  *)
LEMMA Appended ==
  ASSUME NEW S, NEW s \in Seq(S), NEW e \in S
  PROVE  /\ Append(s, e) \in Seq(S) /\ Len(Append(s, e)) = Len(s) + 1
         /\ DOMAIN s = 1 .. Len(s) /\ DOMAIN Append(s, e) = 1 .. Len(s) + 1
         /\ Len(s) \in Nat
         /\ \A i \in 1 .. Len(s) : Append(s, e)[i] = s[i]
         /\ Append(s, e)[Len(s) + 1] = e
OBVIOUS

(* What a sequence is.                                                       *)
LEMMA Elements ==
  ASSUME NEW S, NEW s \in Seq(S)
  PROVE  /\ DOMAIN s = 1 .. Len(s) /\ Len(s) \in Nat
         /\ \A i \in DOMAIN s : s[i] \in S
OBVIOUS

(* The types that the values of the variables have, whatever Unknown is.     *)
LEMMA Shapes ==
  ASSUME TypeOK
  PROVE  /\ now \in Nat /\ Len(log) \in Nat /\ DOMAIN log = 1 .. Len(log)
         /\ \A i \in DOMAIN log : log[i].kind \in Kinds /\ log[i].at \in Nat /\ log[i].at <= MaxTime
         /\ origin # Unknown => origin \in Nat
         /\ final # Unknown =>
              /\ final \in Receipts /\ final.elapsed \in Nat /\ final.elapsed <= MaxTime
              /\ final.clean \in BOOLEAN /\ final.error \in {"none", "canceled", "failed"}
              /\ final.executions \in Nat
         /\ command # Unknown =>
              /\ command \in Commands /\ command.seconds \in Nat
              /\ command.exit \in {"zero", "one", "signal"}
              /\ command.started \in BOOLEAN /\ command.contained \in BOOLEAN
         /\ \A i \in 1 .. Planned : seen[i] # Unknown => seen[i] \in Nat
         /\ MaxTime \in Nat /\ Planned \in Nat /\ Cap \in Nat
<1>1. MaxTime \in Nat /\ Planned \in Nat /\ Cap \in Nat
  BY BaselineAssumption, EvidenceAssumption
<1>2. DOMAIN log = 1 .. Len(log) /\ Len(log) \in Nat
      /\ \A i \in DOMAIN log : log[i] \in [kind : Kinds, at : Times]
  <2>1. log \in Seq([kind : Kinds, at : Times])
    BY DEF TypeOK
  <2>2. QED
    BY <2>1, Elements
<1>3. final # Unknown => final \in Receipts
  BY DEF TypeOK
<1>4. command # Unknown => command \in Commands
  BY DEF TypeOK
<1>5. \A i \in DOMAIN log : log[i].kind \in Kinds /\ log[i].at \in Nat /\ log[i].at <= MaxTime
  BY <1>1, <1>2 DEF Times
<1>6. final # Unknown =>
        /\ final.elapsed \in Nat /\ final.elapsed <= MaxTime
        /\ final.clean \in BOOLEAN /\ final.error \in {"none", "canceled", "failed"}
        /\ final.executions \in Nat
  BY <1>1, <1>3 DEF Receipts, Times
<1>7. command # Unknown =>
        /\ command.seconds \in Nat /\ command.exit \in {"zero", "one", "signal"}
        /\ command.started \in BOOLEAN /\ command.contained \in BOOLEAN
  BY <1>1, <1>4 DEF Commands, Times
<1>8. now \in Nat /\ (origin # Unknown => origin \in Nat)
      /\ \A i \in 1 .. Planned : seen[i] # Unknown => seen[i] \in Nat
  BY <1>1 DEF TypeOK, Times
<1>9. QED
  BY <1>1, <1>2, <1>3, <1>4, <1>5, <1>6, <1>7, <1>8

(* The results of Publish and of the reaping are receipts, not Unknown.      *)
LEMMA Known ==
  /\ \A r \in Receipts : r # Unknown
  /\ \A c \in Commands : c # Unknown
  /\ \A s \in Spans : s # Unknown
  /\ \A x \in Rows : x # Unknown
  /\ \A t \in Nat : t # Unknown
BY UnknownAssumption

-----------------------------------------------------------------------------
(* The invariant holds when a slot starts.                                   *)
LEMMA SlotInit == Init => SlotInv
<1> SUFFICES ASSUME Init PROVE SlotInv
  OBVIOUS
<1>1. log = <<>> /\ Len(log) = 0 /\ DOMAIN log = {}
  BY DEF Init
<1>2. log \in Seq([kind : Kinds, at : Times]) /\ Len(log) <= Planned
  BY <1>1, BaselineAssumption
<1>3. 0 \in Times
  BY BaselineAssumption DEF Times
<1>4. TypeOK
  BY <1>2, <1>3 DEF Init, TypeOK
<1>5. PhaseInv /\ FinalInv /\ CommandInv /\ OccurredInv
  BY <1>1 DEF Init, PhaseInv, FinalInv, CommandInv, OccurredInv
<1>6. LogInv
  BY <1>1 DEF Init, LogInv
<1>7. QED
  BY <1>4, <1>5, <1>6 DEF SlotInv

(* Begin starts the driver's clock.                                          *)
LEMMA BeginStep ==
  ASSUME SlotInv, Begin
  PROVE  TypeOK' /\ PhaseInv' /\ FinalInv' /\ CommandInv' /\ LogInv' /\ OccurredInv'
<1> USE DEF SlotInv, Begin
<1>1. now \in Nat /\ now # Unknown
  BY Shapes, Known
<1>2. TypeOK'
  BY DEF TypeOK
<1>3. PhaseInv'
  BY <1>1 DEF PhaseInv
<1>4. FinalInv' /\ CommandInv'
  BY DEF PhaseInv, FinalInv, CommandInv
<1>5. LogInv'
  BY DEF LogInv
<1>6. OccurredInv'
  BY DEF OccurredInv
<1>7. QED
  BY <1>2, <1>3, <1>4, <1>5, <1>6

(* Tick and CapExpires move the collector's clock and its decision.          *)
LEMMA ClockStep ==
  ASSUME SlotInv, Tick \/ CapExpires
  PROVE  TypeOK' /\ PhaseInv' /\ FinalInv' /\ CommandInv' /\ LogInv' /\ OccurredInv'
<1>1. now' \in Times /\ now' >= now /\ proc # "ended" /\ (timeout => timeout') /\ timeout' \in BOOLEAN
  <2>1. now \in 0 .. MaxTime /\ timeout \in BOOLEAN /\ MaxTime \in Nat
    BY BaselineAssumption DEF SlotInv, TypeOK, Times
  <2>2. CASE Tick
    BY <2>1, <2>2 DEF Tick, Times
  <2>3. CASE CapExpires
    BY <2>1, <2>3 DEF CapExpires, Times
  <2>4. QED
    BY <2>2, <2>3
<1>2. UNCHANGED <<proc, origin, log, final, command, seen, occurred, row>>
  BY DEF Tick, CapExpires
<1>3. now \in Nat /\ now' \in Nat
      /\ (origin # Unknown => origin \in Nat) /\ (final # Unknown => final.elapsed \in Nat)
  BY <1>1, Shapes, BaselineAssumption DEF SlotInv, Times
<1>4. TypeOK'
  BY <1>1, <1>2 DEF SlotInv, TypeOK
<1>5. PhaseInv'
  BY <1>1, <1>2, <1>3 DEF SlotInv, PhaseInv
<1>6. FinalInv'
  BY <1>1, <1>2, <1>3 DEF SlotInv, FinalInv
<1>7. CommandInv'
  BY <1>1, <1>2 DEF CommandInv
<1>8. LogInv'
  BY <1>1, <1>2 DEF SlotInv, LogInv
<1>9. OccurredInv'
  BY <1>1, <1>2 DEF SlotInv, OccurredInv
<1>10. QED
  BY <1>4, <1>5, <1>6, <1>7, <1>8, <1>9

(* Execute adds the file of one execution.                                   *)
LEMMA ExecuteStep ==
  ASSUME SlotInv, NEW kind \in Kinds, Execute(kind)
  PROVE  TypeOK' /\ PhaseInv' /\ FinalInv' /\ CommandInv' /\ LogInv' /\ OccurredInv'
<1> DEFINE File == [kind : Kinds, at : Times]
<1>1. PICK e \in File : e = [kind |-> kind, at |-> now]
  BY DEF SlotInv, TypeOK
<1>2. log' = Append(log, e) /\ log \in Seq(File) /\ e.kind = kind
  BY <1>1 DEF Execute, SlotInv, TypeOK
<1>3. /\ log' \in Seq(File) /\ Len(log') = Len(log) + 1
      /\ DOMAIN log = 1 .. Len(log) /\ DOMAIN log' = 1 .. Len(log) + 1
      /\ Len(log) \in Nat /\ \A i \in 1 .. Len(log) : log'[i] = log[i]
      /\ log'[Len(log) + 1] = e
  <2> HIDE DEF File
  <2>1. QED
    BY <1>2, Appended
<1>4. \A i \in DOMAIN log' : i \in DOMAIN log \/ log'[i] = e
  BY <1>3
<1>5. /\ occurred \subseteq occurred' /\ occurred' \subseteq Faults
      /\ (kind \in {"dirty", "failed"} => kind \in occurred')
      /\ occurred' \subseteq occurred \cup ({kind} \cap {"dirty", "failed"})
  BY DEF Execute, SlotInv, TypeOK
<1>6. TypeOK'
  <2>1. Len(log') <= Planned
    BY <1>3, Shapes DEF Execute, SlotInv
  <2>2. QED
    BY <1>3, <1>5, <2>1 DEF Execute, SlotInv, TypeOK
<1>7. PhaseInv'
  BY DEF Execute, SlotInv, PhaseInv
<1>8. FinalInv' /\ CommandInv'
  BY DEF Execute, SlotInv, PhaseInv, FinalInv, CommandInv
<1>9. LogInv'
  <2>1. ASSUME NEW i \in DOMAIN log'
        PROVE  /\ log'[i].kind \in {"canceled", "unreset"} => timeout'
               /\ log'[i].kind \in {"dirty", "failed"} => log'[i].kind \in occurred'
    <3>1. CASE i \in DOMAIN log
      BY <1>3, <1>5, <3>1 DEF SlotInv, LogInv, Execute
    <3>2. CASE log'[i] = e
      BY <1>2, <1>5, <3>2 DEF Execute
    <3>3. QED
      BY <1>4, <3>1, <3>2
  <2>2. ASSUME NEW i \in 1 .. Planned, seen'[i] # Unknown
        PROVE  i <= Len(log') /\ log'[i].kind \in Evaluated
    <3>1. seen[i] # Unknown
      BY <2>2 DEF Execute
    <3>2. i <= Len(log) /\ log[i].kind \in Evaluated
      BY <3>1 DEF SlotInv, LogInv
    <3>3. i \in 1 .. Len(log) /\ i <= Len(log) + 1
      BY <1>3, <3>2, BaselineAssumption
    <3>4. QED
      BY <1>3, <3>2, <3>3
  <2>3. QED
    BY <2>1, <2>2 DEF LogInv
<1>10. OccurredInv'
  <2>1. ASSUME NEW k \in {"dirty", "failed"}, k \in occurred'
        PROVE  \E i \in DOMAIN log' : log'[i].kind = k
    <3>1. CASE k \in occurred
      <4>1. PICK i \in DOMAIN log : log[i].kind = k
        BY <3>1 DEF SlotInv, OccurredInv
      <4>2. i \in DOMAIN log' /\ log'[i] = log[i]
        BY <1>3
      <4>3. QED
        BY <4>1, <4>2
    <3>2. CASE k = kind
      BY <1>2, <1>3, <3>2
    <3>3. QED
      BY <1>5, <2>1, <3>1, <3>2
  <2>2. \A k \in {"teardown", "containment", "spawn", "allocation"} :
          k \in occurred' <=> k \in occurred
    BY <1>5
  <2>3. QED
    BY <2>1, <2>2 DEF SlotInv, OccurredInv, Execute
<1>11. QED
  BY <1>6, <1>7, <1>8, <1>9, <1>10

(* Publish keeps the driver's receipt of what it did and of why it stopped.  *)
LEMMA PublishStep ==
  ASSUME SlotInv, NEW clean \in BOOLEAN, Publish(clean)
  PROVE  TypeOK' /\ PhaseInv' /\ FinalInv' /\ CommandInv' /\ LogInv' /\ OccurredInv'
<1>1. /\ proc = "running" /\ proc' = "ending" /\ occurred' = IF clean THEN occurred ELSE occurred \cup {"teardown"}
      /\ UNCHANGED <<now, origin, log, command, timeout, seen, row>>
      /\ Len(log) = Planned \/ Stopped \/ timeout
      /\ ~ clean => "teardown" \in Faults
  BY DEF Publish
<1>2. /\ final = Unknown /\ origin # Unknown /\ origin <= now
      /\ origin \in Nat /\ now \in Nat /\ now <= MaxTime
      /\ Len(log) \in Nat /\ Len(log) <= Planned /\ Planned \in Nat /\ MaxTime \in Nat
  <2>1. now \in 0 .. MaxTime /\ Len(log) <= Planned
    BY DEF SlotInv, TypeOK, Times
  <2>2. QED
    BY <1>1, <2>1, Shapes DEF SlotInv, PhaseInv
<1>3. Stopped => \/ Last(log).kind \in {"dirty", "failed"} /\ Last(log).kind \in occurred
                 \/ Last(log).kind \in {"canceled", "unreset"} /\ timeout
  <2>1. ASSUME Stopped PROVE Len(log) \in DOMAIN log /\ Last(log) = log[Len(log)]
    <3>1. log \in Seq([kind : Kinds, at : Times]) /\ log # <<>>
      BY <2>1 DEF SlotInv, TypeOK, Stopped
    <3>2. QED
      BY <3>1 DEF Last
  <2>2. ASSUME Stopped PROVE Last(log).kind \in Kinds \ Valid
    BY <2>1, <2>2, Shapes DEF SlotInv, Stopped
  <2>3. QED
    BY <2>1, <2>2 DEF SlotInv, LogInv, Kinds, Valid
<1>4. PICK error \in {"none", "canceled", "failed"} :
        /\ final' = [executions |-> Len(log), elapsed |-> now - origin, clean |-> clean,
                     error |-> error]
        /\ error = "failed" => ~ clean \/ (Stopped /\ Last(log).kind \in {"dirty", "failed"})
        /\ error = "canceled" => /\ Stopped \/ Len(log) < Planned
                                 /\ ~ (Stopped /\ Last(log).kind \in {"dirty", "failed"})
  <2> DEFINE Failed == Stopped /\ Last(log).kind \in {"dirty", "failed"}
             e == CASE ~ clean \/ Failed -> "failed"
                    [] clean /\ (Stopped \/ Len(log) < Planned) /\ ~ Failed -> "canceled"
                    [] OTHER -> "none"
  <2>1. final' = [executions |-> Len(log), elapsed |-> now - origin, clean |-> clean, error |-> e]
    BY DEF Publish
  <2>2. /\ e \in {"none", "canceled", "failed"}
        /\ e = "failed" => ~ clean \/ Failed
        /\ e = "canceled" => (Stopped \/ Len(log) < Planned) /\ ~ Failed
    <3> HIDE DEF Failed
    <3>1. QED
      OBVIOUS
  <2>3. QED
    BY <2>1, <2>2
<1>5. /\ final' \in Receipts /\ final'.executions = Len(log) /\ final'.elapsed = now - origin
      /\ final'.clean = clean /\ final'.error = error
  <2>1. now - origin \in Times /\ Len(log) \in 0 .. Planned
    BY <1>2 DEF Times
  <2>2. QED
    BY <1>4, <2>1 DEF Receipts
<1>6. final' # Unknown
  BY <1>5, Known
<1>7. TypeOK'
  BY <1>1, <1>5 DEF SlotInv, TypeOK
<1>8. PhaseInv'
  BY <1>1, <1>6 DEF SlotInv, PhaseInv
<1>9. FinalInv'
  <2>1. origin' + final'.elapsed <= now'
    BY <1>1, <1>2, <1>5
  <2>2. final'.error = "failed" => occurred' # {}
    BY <1>1, <1>3, <1>4, <1>5
  <2>3. Len(log) < Planned => Len(log) # Planned
    BY <1>2
  <2>4. final'.error = "canceled" => timeout \/ occurred # {}
    BY <1>1, <1>3, <1>4, <1>5, <2>3
  <2>5. Len(log) = Planned \/ timeout \/ occurred # {}
    BY <1>1, <1>3
  <2>6. QED
    BY <1>1, <1>2, <1>5, <2>1, <2>2, <2>4, <2>5 DEF FinalInv
<1>10. CommandInv'
  BY <1>1 DEF CommandInv
<1>11. LogInv'
  BY <1>1 DEF SlotInv, LogInv
<1>12. OccurredInv'
  <2>1. "teardown" \notin occurred
    BY <1>2 DEF SlotInv, OccurredInv
  <2>2. "teardown" \in occurred' <=> ~ clean
    BY <1>1, <2>1
  <2>3. \A k \in {"dirty", "failed", "containment", "spawn", "allocation"} :
          k \in occurred' <=> k \in occurred
    BY <1>1
  <2>4. QED
    BY <1>1, <1>5, <1>6, <2>2, <2>3 DEF SlotInv, OccurredInv
<1>13. QED
  BY <1>7, <1>8, <1>9, <1>10, <1>11, <1>12

(* A scan receives files that are there, and forgets none.                   *)
LEMMA ScanReceives ==
  ASSUME SlotInv
  PROVE  /\ Scanned \in [1 .. Planned -> Times \cup {Unknown}]
         /\ \A i \in 1 .. Planned : Scanned[i] # Unknown =>
               i <= Len(log) /\ log[i].kind \in Evaluated
<1>1. now \in Times /\ seen \in [1 .. Planned -> Times \cup {Unknown}]
  BY DEF SlotInv, TypeOK
<1>2. QED
  BY <1>1 DEF SlotInv, LogInv, Scanned

(* Scan only receives.                                                       *)
LEMMA ScanStep ==
  ASSUME SlotInv, Scan
  PROVE  TypeOK' /\ PhaseInv' /\ FinalInv' /\ CommandInv' /\ LogInv' /\ OccurredInv'
<1>1. seen' = Scanned
      /\ UNCHANGED <<now, proc, origin, log, final, command, timeout, occurred, row>>
  BY DEF Scan
<1>2. TypeOK'
  BY <1>1, ScanReceives DEF SlotInv, TypeOK
<1>3. PhaseInv' /\ FinalInv'
  BY <1>1 DEF SlotInv, PhaseInv, FinalInv
<1>4. CommandInv' /\ OccurredInv'
  BY <1>1 DEF SlotInv, CommandInv, OccurredInv
<1>5. LogInv'
  BY <1>1, ScanReceives DEF SlotInv, LogInv
<1>6. QED
  BY <1>2, <1>3, <1>4, <1>5

(* Reap keeps the collector's receipt and scans once more.                   *)
LEMMA ReapStep ==
  ASSUME SlotInv, NEW exit \in {"zero", "one", "signal"}, NEW contained \in BOOLEAN,
         Reap(exit, contained)
  PROVE  TypeOK' /\ PhaseInv' /\ FinalInv' /\ CommandInv' /\ LogInv' /\ OccurredInv'
<1>1. /\ proc # "ended" /\ proc' = "ended" /\ seen' = Scanned
      /\ occurred' = (IF contained THEN occurred ELSE occurred \cup {"containment"})
      /\ ~ contained => "containment" \in Faults
      /\ UNCHANGED <<now, origin, log, final, timeout, row>>
  BY DEF Reap
<1>2. /\ command' = [seconds |-> now, exit |-> exit, started |-> TRUE, contained |-> contained]
      /\ \/ proc = "ending" /\ exit = (IF final.error = "none" THEN "zero" ELSE "one")
         \/ timeout /\ exit = "signal"
  BY DEF Reap
<1>3. /\ command' \in Commands /\ command'.seconds = now /\ command'.exit = exit
      /\ command'.started = TRUE /\ command'.contained = contained
  <2>1. now \in Times
    BY DEF SlotInv, TypeOK
  <2>2. QED
    BY <1>2, <2>1 DEF Commands
<1>4. command' # Unknown
  BY <1>3, Known
<1>5. TypeOK'
  BY <1>1, <1>3, ScanReceives DEF SlotInv, TypeOK
<1>6. PhaseInv'
  BY <1>1 DEF SlotInv, PhaseInv
<1>7. FinalInv'
  BY <1>1 DEF SlotInv, FinalInv
<1>8. CommandInv'
  BY <1>1, <1>2, <1>3, <1>4 DEF SlotInv, PhaseInv, CommandInv
<1>9. LogInv'
  BY <1>1, ScanReceives DEF SlotInv, LogInv
<1>10. OccurredInv'
  <2>1. "containment" \notin occurred /\ "spawn" \notin occurred
    BY <1>1 DEF SlotInv, OccurredInv
  <2>2. "containment" \in occurred' <=> ~ contained
    BY <1>1, <2>1
  <2>3. \A k \in {"dirty", "failed", "teardown", "spawn", "allocation"} :
          k \in occurred' <=> k \in occurred
    BY <1>1
  <2>4. QED
    BY <1>1, <1>3, <2>1, <2>2, <2>3 DEF SlotInv, OccurredInv
<1>11. QED
  BY <1>5, <1>6, <1>7, <1>8, <1>9, <1>10

(* SpawnFails keeps a receipt of a command that never started.               *)
LEMMA SpawnStep ==
  ASSUME SlotInv, SpawnFails
  PROVE  TypeOK' /\ PhaseInv' /\ FinalInv' /\ CommandInv' /\ LogInv' /\ OccurredInv'
<1>1. /\ proc = "spawned" /\ proc' = "ended" /\ "spawn" \in Faults
      /\ occurred' = occurred \cup {"spawn"}
      /\ command' = [seconds |-> now, exit |-> "one", started |-> FALSE, contained |-> TRUE]
      /\ UNCHANGED <<now, origin, log, final, timeout, seen, row>>
  BY DEF SpawnFails
<1>2. /\ command' \in Commands /\ command'.seconds = now
      /\ command'.started = FALSE /\ command'.contained = TRUE
  <2>1. now \in Times
    BY DEF SlotInv, TypeOK
  <2>2. QED
    BY <1>1, <2>1 DEF Commands
<1>3. command' # Unknown
  BY <1>2, Known
<1>4. TypeOK'
  BY <1>1, <1>2 DEF SlotInv, TypeOK
<1>5. PhaseInv'
  BY <1>1 DEF SlotInv, PhaseInv
<1>6. FinalInv' /\ CommandInv'
  BY <1>1, <1>2, <1>3 DEF SlotInv, PhaseInv, FinalInv, CommandInv
<1>7. LogInv'
  BY <1>1 DEF SlotInv, LogInv
<1>8. OccurredInv'
  <2>1. "containment" \notin occurred
    BY <1>1 DEF SlotInv, OccurredInv
  <2>2. "spawn" \in occurred'
        /\ \A k \in {"dirty", "failed", "teardown", "containment", "allocation"} :
              k \in occurred' <=> k \in occurred
    BY <1>1
  <2>3. QED
    BY <1>1, <1>2, <2>1, <2>2 DEF SlotInv, OccurredInv
<1>9. QED
  BY <1>4, <1>5, <1>6, <1>7, <1>8

-----------------------------------------------------------------------------
(* What the reduction computes from the files and the two receipts.          *)

(* The status is the failures' when there are any, and complete only without *)
(* any reason against it.                                                    *)
LEMMA StatusIs ==
  ASSUME NEW operational, NEW quality, NEW expired \in BOOLEAN
  PROVE  /\ Status(operational, quality, expired) \in Statuses
         /\ Status(operational, quality, expired) = "complete" =>
              operational = {} /\ quality = {} /\ ~ expired
         /\ Status(operational, quality, expired) = "operational_failed" => operational # {}
<1>1. CASE operational # {}
  BY <1>1 DEF Status, Statuses
<1>2. CASE operational = {} /\ quality # {}
  BY <1>2 DEF Status, Statuses
<1>3. CASE operational = {} /\ quality = {} /\ expired
  BY <1>3 DEF Status, Statuses
<1>4. CASE operational = {} /\ quality = {} /\ ~ expired
  BY <1>4 DEF Status, Statuses
<1>5. QED
  BY <1>1, <1>2, <1>3, <1>4

(* Files of some kinds are files, and no more than were planned.             *)
LEMMA IndicesAre ==
  ASSUME SlotInv, NEW kinds
  PROVE  /\ Indices(kinds) \subseteq 1 .. Len(log) /\ Indices(kinds) \subseteq Nat
         /\ IsFiniteSet(Indices(kinds))
         /\ Cardinality(Indices(kinds)) \in 0 .. Planned
<1>1. Len(log) \in Nat /\ DOMAIN log = 1 .. Len(log) /\ Planned \in Nat /\ Len(log) <= Planned
  BY Shapes DEF SlotInv, TypeOK
<1>2. Indices(kinds) \subseteq 1 .. Len(log)
  BY <1>1 DEF Indices
<1>3. IsFiniteSet(1 .. Len(log)) /\ Cardinality(1 .. Len(log)) = Len(log)
  <2>1. PICK n \in Nat : n = Len(log)
    BY <1>1
  <2>2. Cardinality(1 .. n) = IF 1 > n THEN 0 ELSE n - 1 + 1
    BY FS_Interval
  <2>3. IsFiniteSet(1 .. n) /\ Cardinality(1 .. n) = n
    BY <2>2, FS_Interval
  <2>4. QED
    BY <2>1, <2>3, SMTT(30)
<1>4. /\ IsFiniteSet(Indices(kinds)) /\ Cardinality(Indices(kinds)) <= Len(log)
      /\ Cardinality(Indices(kinds)) \in Nat
  BY <1>2, <1>3, FS_Subset, FS_CardinalityType
<1>5. QED
  BY <1>1, <1>2, <1>4

(* The interval of an event covers its true time: the driver's clock began   *)
(* within the invocation, and its receipt ends within it.                    *)
LEMMA IntervalHolds ==
  ASSUME SlotInv, proc = "ended", NEW i \in DOMAIN log, Interval(i) # Unknown
  PROVE  /\ Interval(i) \in Spans
         /\ Interval(i).lo <= log[i].at /\ log[i].at <= Interval(i).hi
         /\ Interval(i).hi \in Nat
<1>1. final # Unknown /\ command # Unknown /\ command.seconds = now
      /\ origin # Unknown /\ origin + final.elapsed <= now
  BY DEF SlotInv, FinalInv, CommandInv, Interval
<1>2. /\ origin \in Nat /\ final.elapsed \in Nat /\ final.elapsed <= MaxTime /\ now \in Nat
      /\ log[i].at \in Nat /\ MaxTime \in Nat
  BY <1>1, Shapes DEF SlotInv
<1>3. PICK at \in Nat, spent \in Nat :
        at = log[i].at /\ spent = final.elapsed
  BY <1>2
<1>4. /\ 0 <= at - origin /\ at - origin <= spent
      /\ Interval(i) = [lo |-> at - origin, hi |-> at - origin + now - spent]
  BY <1>1, <1>3 DEF Interval, Bound
<1>5. at - origin \in 0 .. MaxTime /\ at - origin + now - spent \in Nat
      /\ at - origin <= at /\ at <= at - origin + now - spent
  BY <1>1, <1>2, <1>3, <1>4
<1>6. QED
  BY <1>3, <1>4, <1>5 DEF Spans, Times

(* The first event is that of a valid violating execution.                   *)
LEMMA FirstIs ==
  ASSUME SlotInv, proc = "ended", FirstEvent # Unknown
  PROVE  \E i \in Indices({"violating"}) : FirstEvent = Interval(i)
<1> DEFINE known == {i \in Indices({"violating"}) : Interval(i) # Unknown}
<1>1. known # {} /\ FirstEvent = Interval(CHOOSE i \in known : \A j \in known : i <= j)
  BY DEF FirstEvent
<1>2. known \subseteq Nat /\ known \subseteq Indices({"violating"})
  BY IndicesAre
<1> HIDE DEF known
<1>3. (CHOOSE i \in known : \A j \in known : i <= j) \in known
  BY <1>1, <1>2, LeastOf
<1>4. QED
  BY <1>1, <1>2, <1>3

(* The usable event is the reception of a valid violating execution.         *)
LEMMA UsableIs ==
  ASSUME SlotInv, UsableEvent # Unknown
  PROVE  \E i \in Indices({"violating"}) :
           seen[i] # Unknown /\ seen[i] \in Nat /\ UsableEvent = [lo |-> seen[i], hi |-> seen[i]]
<1> DEFINE received == {i \in Indices({"violating"}) : seen[i] # Unknown}
<1>1. /\ received # {}
      /\ UsableEvent = At(seen[CHOOSE i \in received : \A j \in received : i <= j])
  BY DEF UsableEvent
<1>2. received \subseteq Nat /\ \A i \in received : i \in Indices({"violating"}) /\ seen[i] # Unknown
  BY IndicesAre
<1>3. \A i \in Indices({"violating"}) : i \in 1 .. Planned
  BY IndicesAre, Shapes DEF SlotInv, TypeOK
<1> HIDE DEF received
<1>4. PICK i \in received : i = CHOOSE k \in received : \A j \in received : k <= j
  BY <1>1, <1>2, LeastOf
<1>5. i \in Indices({"violating"}) /\ seen[i] # Unknown /\ UsableEvent = At(seen[i])
  BY <1>1, <1>2, <1>4
<1>6. seen[i] \in Nat
  BY <1>3, <1>5, Shapes DEF SlotInv
<1>7. QED
  BY <1>5, <1>6 DEF At

(* Only an interval that ends within the cap is in the budget.               *)
LEMMA InBudget ==
  ASSUME NEW interval, Membership(interval) = "in_budget"
  PROVE  interval # Unknown /\ interval.hi <= Cap
<1>1. CASE interval = Unknown
  BY <1>1 DEF Membership
<1>2. CASE interval # Unknown /\ interval.hi <= Cap
  BY <1>2
<1>3. CASE interval # Unknown /\ ~ interval.hi <= Cap /\ interval.lo > Cap
  BY <1>3 DEF Membership
<1>4. CASE interval # Unknown /\ ~ interval.hi <= Cap /\ ~ interval.lo > Cap
  BY <1>4 DEF Membership
<1>5. QED
  BY <1>1, <1>2, <1>3, <1>4

(* What a detection rests on: an event and its reception, both by the cap.   *)
LEMMA DetectionIs ==
  ASSUME SlotInv, proc = "ended", Detected(FirstEvent, UsableEvent)
  PROVE  /\ \E i \in Indices({"violating"}) : log[i].at <= Cap
         /\ \E i \in Indices({"violating"}) : seen[i] # Unknown /\ seen[i] <= Cap
<1>1. /\ FirstEvent # Unknown /\ FirstEvent.hi <= Cap
      /\ UsableEvent # Unknown /\ UsableEvent.hi <= Cap
  BY InBudget DEF Detected
<1>2. PICK i \in Indices({"violating"}) : FirstEvent = Interval(i)
  BY <1>1, FirstIs
<1>3. log[i].at <= Cap
  <2>1. i \in DOMAIN log
    BY DEF Indices
  <2>2. log[i].at <= Interval(i).hi /\ Interval(i).hi \in Nat /\ Interval(i).hi <= Cap
    BY <1>1, <1>2, <2>1, IntervalHolds
  <2>3. log[i].at \in Nat /\ Cap \in Nat
    BY <2>1, Shapes DEF SlotInv
  <2>4. QED
    BY <2>2, <2>3
<1>4. PICK k \in Indices({"violating"}) :
        seen[k] # Unknown /\ UsableEvent = [lo |-> seen[k], hi |-> seen[k]]
  BY <1>1, UsableIs
<1>5. QED
  BY <1>1, <1>3, <1>4

(* Nothing speaks against a slot only when every planned execution was valid *)
(* and nothing failed.                                                       *)
LEMMA NoReason ==
  ASSUME SlotInv, proc = "ended", NEW released \in BOOLEAN, Operational(released) = {}, ~ timeout
  PROVE  /\ released /\ Len(log) = Planned /\ occurred \subseteq {"allocation"}
         /\ \A i \in DOMAIN log : log[i].kind \in Valid
<1>1. \A r \in {"receipt", "cleanup", "error", "exit", "execution", "evidence", "planned",
                "command", "allocation"} : r \notin Operational(released)
  OBVIOUS
<1>2. ~ CapKilled
  BY DEF CapKilled
<1>3. final # Unknown /\ final.clean
  BY <1>1, <1>2 DEF Operational
<1>4. Len(log) = Planned /\ command.started /\ command.contained /\ released
  BY <1>1 DEF Operational
<1>5. \A i \in DOMAIN log : ~ Incomplete(i)
  <2>1. "execution" \notin Operational(released)
    BY <1>1
  <2>2. QED
    BY <2>1 DEF Operational
<1>6. \A i \in DOMAIN log : log[i].kind \in Valid
  BY <1>5 DEF Incomplete
<1>7. "dirty" \notin occurred /\ "failed" \notin occurred
  BY <1>6 DEF SlotInv, OccurredInv, Valid
<1>8. "teardown" \notin occurred /\ "containment" \notin occurred /\ "spawn" \notin occurred
  BY <1>3, <1>4 DEF SlotInv, OccurredInv
<1>9. occurred \subseteq {"dirty", "failed", "teardown", "spawn", "containment", "allocation"}
  BY BaselineAssumption DEF SlotInv, TypeOK
<1>10. QED
  BY <1>4, <1>6, <1>7, <1>8, <1>9

(* The cap alone is no reason: it only cancels, and the driver says so, or   *)
(* only kills, and the collector says so.                                    *)
LEMMA OnlyTheCap ==
  ASSUME SlotInv, proc = "ended", occurred = {}, Indices({"unreset"}) = {}
  PROVE  Operational(TRUE) = {}
<1>1. command.started /\ command.contained
  BY Shapes DEF SlotInv, OccurredInv, CommandInv
<1>2. \A i \in DOMAIN log : ~ Incomplete(i)
  <2>1. \A i \in DOMAIN log : log[i].kind \in Kinds /\ log[i].kind # "unreset"
    BY Shapes DEF SlotInv, Indices
  <2>2. QED
    BY <2>1 DEF SlotInv, LogInv, Incomplete, Kinds, Valid
<1>3. CASE final = Unknown
  <2>1. CapKilled
    BY <1>1, <1>3 DEF SlotInv, CommandInv, CapKilled
  <2>2. timeout
    BY <2>1 DEF CapKilled
  <2>3. ASSUME NEW r \in Operational(TRUE) PROVE FALSE
    BY <1>1, <1>2, <1>3, <2>1, <2>2, <2>3 DEF Operational
  <2>4. QED
    BY <2>3
<1>4. CASE final # Unknown
  <2>1. final.clean
    BY <1>4 DEF SlotInv, OccurredInv
  <2>2. /\ final.error \in {"none", "canceled"} /\ (final.error = "canceled" => timeout)
        /\ final.executions = Len(log) /\ (Len(log) = Planned \/ timeout)
    BY <1>4, Shapes DEF SlotInv, FinalInv
  <2>3. command.exit # "zero" => timeout
    BY <1>1, <1>4, <2>2 DEF SlotInv, CommandInv
  <2>4. ASSUME NEW r \in Operational(TRUE) PROVE FALSE
    BY <1>1, <1>2, <1>4, <2>1, <2>2, <2>3, <2>4 DEF Operational
  <2>5. QED
    BY <2>4
<1>5. QED
  BY <1>3, <1>4

(* What was received is what was evaluated, so it is valid or dirty.         *)
LEMMA ReceivedCounts ==
  ASSUME SlotInv
  PROVE  Cardinality(Indices(Valid)) >= Cardinality({i \in 1 .. Planned : seen[i] # Unknown})
                                        - Cardinality(Indices({"dirty"}))
<1> DEFINE received == {i \in 1 .. Planned : seen[i] # Unknown}
<1>1. received \subseteq Indices(Valid) \cup Indices({"dirty"})
  <2>1. \A i \in received : i \in DOMAIN log /\ log[i].kind \in Evaluated
    BY Shapes DEF SlotInv, LogInv
  <2>2. QED
    BY <2>1 DEF Indices, Evaluated, Valid
<1> HIDE DEF received
<1>2. /\ IsFiniteSet(Indices(Valid)) /\ Cardinality(Indices(Valid)) \in Nat
      /\ IsFiniteSet(Indices({"dirty"})) /\ Cardinality(Indices({"dirty"})) \in Nat
  <2>1. Planned \in Nat
    BY BaselineAssumption
  <2>2. QED
    BY <2>1, IndicesAre
<1> DEFINE v == Indices(Valid)
           d == Indices({"dirty"})
<1> HIDE DEF v, d
<1>3. IsFiniteSet(v) /\ IsFiniteSet(d) /\ Cardinality(v) \in Nat /\ Cardinality(d) \in Nat
      /\ received \subseteq v \cup d
  BY <1>1, <1>2 DEF v, d
<1>4. /\ IsFiniteSet(v \cup d)
      /\ Cardinality(v \cup d) = Cardinality(v) + Cardinality(d) - Cardinality(v \cap d)
  BY <1>3, FS_Union
<1>5. IsFiniteSet(v \cap d) /\ Cardinality(v \cap d) \in Nat
  BY <1>3, FS_Intersection, FS_CardinalityType
<1>6. /\ Cardinality(received) <= Cardinality(v \cup d)
      /\ Cardinality(received) \in Nat /\ Cardinality(v \cup d) \in Nat
  BY <1>3, <1>4, FS_Subset, FS_CardinalityType
<1>7. Cardinality(v) >= Cardinality(received) - Cardinality(d)
  BY <1>3, <1>4, <1>5, <1>6
<1>8. QED
  BY <1>7 DEF v, d, received

(* An index is valid when its file is, so all are when all files are.        *)
LEMMA AllValid ==
  ASSUME SlotInv, Len(log) = Planned, \A i \in DOMAIN log : log[i].kind \in Valid
  PROVE  Cardinality(Indices(Valid)) = Planned
<1>1. Planned \in Nat /\ DOMAIN log = 1 .. Planned
  BY Shapes DEF SlotInv
<1>2. Indices(Valid) = 1 .. Planned
  BY <1>1 DEF Indices
<1>3. Cardinality(1 .. Planned) = IF 1 > Planned THEN 0 ELSE Planned - 1 + 1
  BY <1>1, FS_Interval
<1>4. QED
  BY <1>1, <1>2, <1>3

-----------------------------------------------------------------------------
(* The reduction.                                                            *)

(* The row has the fields the reduction computed.                            *)
LEMMA RowReduced ==
  ASSUME SlotInv, NEW released \in BOOLEAN, Reduce(released)
  PROVE  /\ row' \in Rows
         /\ row'.first = FirstEvent /\ row'.detected = Detected(FirstEvent, UsableEvent)
         /\ row'.valid = Cardinality(Indices(Valid))
         /\ row'.violations = Cardinality(Indices({"violating"}))
         /\ row'.status = Status(Operational(released), Quality,
                                 timeout \/ command.seconds > Cap)
<1>1. proc = "ended"
  BY DEF Reduce
<1>2. FirstEvent \in Spans \cup {Unknown}
  <2>1. ASSUME FirstEvent # Unknown PROVE FirstEvent \in Spans
    <3>1. PICK i \in Indices({"violating"}) : FirstEvent = Interval(i)
      BY <1>1, <2>1, FirstIs
    <3>2. i \in DOMAIN log
      BY DEF Indices
    <3>3. QED
      BY <1>1, <2>1, <3>1, <3>2, IntervalHolds
  <2>2. QED
    BY <2>1
<1>3. Detected(FirstEvent, UsableEvent) \in BOOLEAN
  BY DEF Detected
<1>4. /\ Cardinality(Indices(Valid)) \in 0 .. Planned
      /\ Cardinality(Indices({"violating"})) \in 0 .. Planned
  BY IndicesAre
<1>5. Status(Operational(released), Quality, timeout \/ command.seconds > Cap) \in Statuses
  BY StatusIs
<1> DEFINE status == Status(Operational(released), Quality, timeout \/ command.seconds > Cap)
           first == FirstEvent
           detected == Detected(FirstEvent, UsableEvent)
           valid == Cardinality(Indices(Valid))
           violations == Cardinality(Indices({"violating"}))
<1>6. row' = [status |-> status, first |-> first, detected |-> detected, valid |-> valid,
              violations |-> violations]
  BY DEF Reduce
<1>7. /\ status \in Statuses /\ first \in Spans \cup {Unknown} /\ detected \in BOOLEAN
      /\ valid \in 0 .. Planned /\ violations \in 0 .. Planned
  BY <1>2, <1>3, <1>4, <1>5
<1> HIDE DEF status, first, detected, valid, violations
<1>8. /\ row' \in Rows /\ row'.first = first /\ row'.detected = detected
      /\ row'.valid = valid /\ row'.violations = violations /\ row'.status = status
  BY <1>6, <1>7 DEF Rows
<1>9. QED
  BY <1>8 DEF status, first, detected, valid, violations

(* The claims of the row.                                                    *)
Claims ==
  BoundHoldsEvent /\ DetectedIsInTime /\ CompleteIsEarned /\ EvidenceKept /\ CapIsNoFailure

(* The row the reduction writes claims only what happened.                   *)
LEMMA ReducedIsTrue ==
  ASSUME SlotInv, NEW released \in BOOLEAN, Reduce(released)
  PROVE  Claims'
<1>1. /\ proc = "ended" /\ row = Unknown
      /\ occurred' = IF released THEN occurred ELSE occurred \cup {"allocation"}
      /\ UNCHANGED <<now, proc, origin, log, final, command, timeout, seen>>
  BY DEF Reduce
<1>2. \A kinds : Indices(kinds)' = Indices(kinds)
  BY <1>1 DEF Indices
<1>3. command # Unknown /\ command.seconds \in Nat /\ Cap \in Nat /\ timeout \in BOOLEAN
  BY <1>1, Shapes DEF SlotInv, CommandInv, TypeOK
<1>4. BoundHoldsEvent'
  <2>1. ASSUME FirstEvent # Unknown
        PROVE  \E i \in Indices({"violating"}) :
                 FirstEvent.lo <= log[i].at /\ log[i].at <= FirstEvent.hi
    <3>1. PICK i \in Indices({"violating"}) : FirstEvent = Interval(i)
      BY <1>1, <2>1, FirstIs
    <3>2. i \in DOMAIN log
      BY DEF Indices
    <3>3. QED
      BY <1>1, <2>1, <3>1, <3>2, IntervalHolds
  <2>2. row'.first = FirstEvent
    BY RowReduced
  <2>3. QED
    BY <1>1, <1>2, <2>1, <2>2 DEF BoundHoldsEvent
<1>5. DetectedIsInTime'
  <2>1. row'.detected = Detected(FirstEvent, UsableEvent)
    BY RowReduced
  <2>2. QED
    BY <1>1, <1>2, <2>1, DetectionIs DEF DetectedIsInTime
<1>6. CompleteIsEarned'
  <2>1. SUFFICES ASSUME row'.status = "complete"
                 PROVE  /\ row'.valid = Planned /\ occurred' = {}
                        /\ command.seconds <= Cap /\ ~ timeout
                        /\ Fixed => row'.violations = 0
    BY <1>1 DEF CompleteIsEarned
  <2>2. /\ Operational(released) = {} /\ Quality = {}
        /\ ~ (timeout \/ command.seconds > Cap)
    <3>1. Status(Operational(released), Quality, timeout \/ command.seconds > Cap) = "complete"
      BY <2>1, RowReduced
    <3>2. QED
      BY <3>1, StatusIs
  <2>3. ~ timeout /\ command.seconds <= Cap
    BY <1>3, <2>2
  <2>4. /\ released /\ Len(log) = Planned /\ occurred \subseteq {"allocation"}
        /\ \A i \in DOMAIN log : log[i].kind \in Valid
    BY <1>1, <2>2, <2>3, NoReason
  <2>5. occurred' = {}
    BY <1>1, <2>4 DEF SlotInv, OccurredInv
  <2>6. row'.valid = Planned
    BY <2>4, AllValid, RowReduced
  <2>7. Fixed => row'.violations = 0
    <3>1. Fixed => Indices({"violating"}) = {}
      BY <2>2 DEF Quality, Indices, Violating
    <3>2. row'.violations = Cardinality(Indices({"violating"}))
      BY RowReduced
    <3>3. QED
      BY <3>1, <3>2, FS_EmptySet
  <2>8. QED
    BY <2>3, <2>5, <2>6, <2>7
<1>7. EvidenceKept'
  <2>1. row'.valid = Cardinality(Indices(Valid))
    BY RowReduced
  <2>2. QED
    BY <1>1, <1>2, <2>1, ReceivedCounts DEF EvidenceKept
<1>8. CapIsNoFailure'
  <2>1. SUFFICES ASSUME occurred' = {}, Indices({"unreset"}) = {}
                 PROVE  row'.status # "operational_failed"
    BY <1>2 DEF CapIsNoFailure
  <2>2. released = TRUE /\ occurred = {}
    BY <1>1, <2>1
  <2>3. Operational(released) = {}
    BY <1>1, <2>1, <2>2, OnlyTheCap
  <2>4. Status(Operational(released), Quality, timeout \/ command.seconds > Cap)
          # "operational_failed"
    BY <2>3, StatusIs
  <2>5. QED
    BY <2>4, RowReduced
<1>9. QED
  BY <1>4, <1>5, <1>6, <1>7, <1>8 DEF Claims

(* Reduce adds the row, and the last failure there can be.                   *)
LEMMA ReduceStep ==
  ASSUME SlotInv, NEW released \in BOOLEAN, Reduce(released)
  PROVE  TypeOK' /\ PhaseInv' /\ FinalInv' /\ CommandInv' /\ LogInv' /\ OccurredInv'
<1>1. /\ proc = "ended"
      /\ occurred' = (IF released THEN occurred ELSE occurred \cup {"allocation"})
      /\ ~ released => "allocation" \in Faults
      /\ UNCHANGED <<now, proc, origin, log, final, command, timeout, seen>>
  BY DEF Reduce
<1>2. row' \in Rows /\ row' # Unknown
  BY RowReduced, Known
<1>3. TypeOK'
  BY <1>1, <1>2 DEF SlotInv, TypeOK
<1>4. PhaseInv'
  BY <1>1 DEF SlotInv, PhaseInv
<1>5. FinalInv' /\ CommandInv'
  BY <1>1 DEF SlotInv, FinalInv, CommandInv
<1>6. LogInv'
  BY <1>1 DEF SlotInv, LogInv
<1>7. OccurredInv'
  <2>1. \A k \in {"dirty", "failed", "teardown", "containment", "spawn"} :
          k \in occurred' <=> k \in occurred
    BY <1>1
  <2>2. QED
    BY <1>1, <1>2, <2>1 DEF SlotInv, OccurredInv
<1>8. QED
  BY <1>3, <1>4, <1>5, <1>6, <1>7

(* Every step keeps what the row rests on.                                   *)
LEMMA SlotStep == SlotInv /\ [Next]_vars => SlotInv'
<1> SUFFICES ASSUME SlotInv, [Next]_vars PROVE SlotInv'
  OBVIOUS
<1>1. CASE UNCHANGED vars
  BY <1>1 DEF vars, SlotInv, TypeOK, PhaseInv, FinalInv, CommandInv, LogInv, OccurredInv
<1>2. CASE Begin
  BY <1>2, BeginStep DEF SlotInv
<1>3. CASE Tick \/ CapExpires
  BY <1>3, ClockStep DEF SlotInv
<1>4. CASE Scan
  BY <1>4, ScanStep DEF SlotInv
<1>5. CASE SpawnFails
  BY <1>5, SpawnStep DEF SlotInv
<1>6. ASSUME NEW kind \in Kinds, Execute(kind) PROVE SlotInv'
  BY <1>6, ExecuteStep DEF SlotInv
<1>7. ASSUME NEW b \in BOOLEAN, Publish(b) PROVE SlotInv'
  BY <1>7, PublishStep DEF SlotInv
<1>8. ASSUME NEW b \in BOOLEAN, Reduce(b) PROVE SlotInv'
  BY <1>8, ReduceStep DEF SlotInv
<1>9. ASSUME NEW b \in BOOLEAN, NEW exit \in {"zero", "one", "signal"}, Reap(exit, b)
      PROVE  SlotInv'
  BY <1>9, ReapStep DEF SlotInv
<1>10. QED
  BY <1>1, <1>2, <1>3, <1>4, <1>5, <1>6, <1>7, <1>8, <1>9 DEF Next

(* Nothing changes what a row claims once it is there: only the reduction    *)
(* follows the end of the invocation, and it is done once.                   *)
LEMMA ClaimsStep == SlotInv /\ Claims /\ [Next]_vars => Claims'
<1> SUFFICES ASSUME SlotInv, Claims, [Next]_vars PROVE Claims'
  OBVIOUS
<1>1. CASE \E b \in BOOLEAN : Reduce(b)
  BY <1>1, ReducedIsTrue
<1>2. CASE ~ \E b \in BOOLEAN : Reduce(b)
  <2>1. row' = row
    BY <1>2 DEF Next, vars, Begin, Tick, Scan, CapExpires, SpawnFails, Execute, Publish, Reap
  <2>2. CASE row = Unknown
    BY <2>1, <2>2 DEF Claims, BoundHoldsEvent, DetectedIsInTime, CompleteIsEarned,
       EvidenceKept, CapIsNoFailure
  <2>3. CASE row # Unknown
    <3>1. proc = "ended"
      BY <2>3 DEF SlotInv, PhaseInv
    <3>2. UNCHANGED vars
      BY <1>2, <3>1 DEF Next, Begin, Tick, Scan, CapExpires, SpawnFails, Execute, Publish, Reap
    <3>3. QED
      BY <3>2 DEF vars, Claims, BoundHoldsEvent, DetectedIsInTime, CompleteIsEarned,
         EvidenceKept, CapIsNoFailure, Indices
  <2>4. QED
    BY <2>2, <2>3
<1>3. QED
  BY <1>1, <1>2

(* The row of a baseline slot is true: its interval holds an event that did  *)
(* happen, a detection was in time, a complete slot is one where nothing     *)
(* failed and every execution was evaluated, no evaluation is lost to a      *)
(* kill, and the cap alone is not taken for a failure.                       *)
THEOREM RowCorrect == Spec => []RowIsTrue
<1>1. Init => Claims
  BY DEF Init, Claims, BoundHoldsEvent, DetectedIsInTime, CompleteIsEarned, EvidenceKept,
     CapIsNoFailure
<1>2. SlotInv /\ Claims => RowIsTrue
  BY DEF SlotInv, Claims, RowIsTrue
<1>3. QED
  BY <1>1, <1>2, SlotInit, SlotStep, ClaimsStep, PTL DEF Spec

-----------------------------------------------------------------------------
(* One call of execute.                                                      *)

(* What containment rests on.  Execute never believes that a group is gone   *)
(* before it is, no receipt says so before a process was even started, and a *)
(* result is answered last, with the receipt of the memory it was built from *)
(* unless the hook replaced it.                                              *)
ContainedInv ==
  /\ memory.contained => Gone
  /\ disk.finished /\ disk.contained => Gone
  /\ pc \in {"enter", "launch"} => ~ memory.finished /\ ~ disk.finished
  /\ pc = "group" => leader = "reaped"
  /\ answer = "result" => pc = "done" /\ (Gone \/ ~ disk.contained \/ disk = Foreign)

(* The receipts the collector did not write claim nothing.                   *)
LEMMA ForeignClaims ==
  /\ Fresh \in Flags /\ Absent \in Flags /\ Foreign \in Flags
  /\ ~ Fresh.finished /\ ~ Absent.finished /\ ~ Foreign.finished
BY DEF Fresh, Absent, Foreign, Flags

(* A receipt on disk is the one that was there, the memory's, or a foreign.  *)
LEMMA DiskMoves ==
  ASSUME [ExecuteNext]_executeVars
  PROVE  disk' = disk \/ (disk' = memory /\ ~ Launch) \/ disk' = Foreign
BY DEF ExecuteNext, Collector, Hook, executeVars, Reserve, Launch, LaunchFails, CheckReserved, WriteStarted,
   LeaderReaped, GroupChecked, BudgetEnds, Terminate, GraceEnds, Kill, KillEnds, Verify,
   CheckFinal, WriteFinal, Interrupt, Crash, LeaderExits, RestExits, Spawns, RewritesReceipt

(* A result with one or more flags set anew is a result.                     *)
LEMMA FlagsSet ==
  ASSUME NEW m \in Flags, NEW b \in BOOLEAN, NEW c \in BOOLEAN
  PROVE  /\ [m EXCEPT !.exit = b] \in Flags /\ [m EXCEPT !.contained = b] \in Flags
         /\ [m EXCEPT !.timeout = b] \in Flags
         /\ [m EXCEPT !.started = b, !.contained = c] \in Flags
         /\ [m EXCEPT !.exit = b, !.contained = c] \in Flags
         /\ [m EXCEPT !.interrupted = b, !.finished = c] \in Flags
         /\ [m EXCEPT !.exit = TRUE, !.contained = TRUE, !.error = b] \in Flags
         /\ [m EXCEPT !.finished = TRUE, !.error = b, !.interrupted = c] \in Flags
BY DEF Flags

(* The variables have their types when a call starts, and every step keeps   *)
(* them.                                                                     *)
LEMMA TypeInit == ExecuteInit => ExecuteTypeOK
<1> SUFFICES ASSUME ExecuteInit PROVE ExecuteTypeOK
  OBVIOUS
<1>1. signals \in 0 .. MaxSignals
  BY SignalsAssumption DEF ExecuteInit
<1>2. memory \in Flags /\ disk \in Flags /\ own \subseteq Flags
  BY ForeignClaims DEF ExecuteInit
<1>3. QED
  BY <1>1, <1>2 DEF ExecuteInit, ExecuteTypeOK, Positions

LEMMA TypeStep == ExecuteTypeOK /\ [ExecuteNext]_executeVars => ExecuteTypeOK'
<1> SUFFICES ASSUME ExecuteTypeOK, [ExecuteNext]_executeVars PROVE ExecuteTypeOK'
  OBVIOUS
<1> USE DEF ExecuteTypeOK, Positions
<1>1. memory' \in Flags
  <2>1. ASSUME NEW b \in BOOLEAN, NEW c \in BOOLEAN,
               \/ memory' = [memory EXCEPT !.exit = b]
               \/ memory' = [memory EXCEPT !.contained = b]
               \/ memory' = [memory EXCEPT !.timeout = b]
               \/ memory' = [memory EXCEPT !.started = b, !.contained = c]
               \/ memory' = [memory EXCEPT !.exit = b, !.contained = c]
               \/ memory' = [memory EXCEPT !.interrupted = b, !.finished = c]
               \/ memory' = [memory EXCEPT !.exit = TRUE, !.contained = TRUE, !.error = b]
               \/ memory' = [memory EXCEPT !.finished = TRUE, !.error = b, !.interrupted = c]
               \/ memory' = memory
        PROVE  memory' \in Flags
    BY <2>1, FlagsSet, ZenonT(60)
  <2>2. CASE Launch
    BY <2>1, <2>2 DEF Launch
  <2>3. CASE LeaderReaped \/ GroupChecked \/ BudgetEnds
    BY <2>1, <2>3 DEF LeaderReaped, GroupChecked, BudgetEnds
  <2>4. CASE GraceEnds
    <3>1. PICK b \in BOOLEAN, c \in BOOLEAN :
            b = (leader = "exited") /\ c = (leader = "exited" /\ ~ rest)
      OBVIOUS
    <3>2. memory' = [memory EXCEPT !.exit = b, !.contained = c]
      BY <2>4, <3>1, Zenon DEF GraceEnds
    <3>3. QED
      BY <2>1, <3>2
  <2>5. CASE KillEnds
    <3>1. PICK b \in BOOLEAN : b = (memory.error \/ killing = "wait")
      OBVIOUS
    <3>2. \/ memory' = [memory EXCEPT !.exit = TRUE, !.contained = TRUE, !.error = b]
          \/ memory' = memory
      BY <2>5, <3>1, Zenon DEF KillEnds
    <3>3. QED
      BY <2>1, <3>2
  <2>6. CASE Verify
    <3>1. PICK b \in BOOLEAN, c \in BOOLEAN :
            /\ b = (memory.error \/ (killing = "failed" /\ answer' = "none"))
            /\ c = (answer' # "none")
      OBVIOUS
    <3>2. memory' = [memory EXCEPT !.finished = TRUE, !.error = b, !.interrupted = c]
      BY <2>6, <3>1, Zenon DEF Verify
    <3>3. QED
      BY <2>1, <3>2
  <2>7. CASE Interrupt
    BY <2>1, <2>7 DEF Interrupt
  <2>8. CASE UNCHANGED memory
    BY <2>8
  <2>9. QED
    BY <2>2, <2>3, <2>4, <2>5, <2>6, <2>7, <2>8 DEF ExecuteNext, Collector, Hook, executeVars, Reserve,
       LaunchFails, CheckReserved, WriteStarted, Terminate, Kill, CheckFinal, WriteFinal, Crash,
       LeaderExits, RestExits, Spawns, RewritesReceipt
<1>2. disk' \in Flags
  BY DiskMoves, ForeignClaims
<1>3. CASE UNCHANGED executeVars
  BY <1>3 DEF executeVars, process
<1>4. CASE Interrupt
  <2>1. signals' \in 0 .. MaxSignals
    BY <1>4, SignalsAssumption DEF Interrupt
  <2>2. QED
    BY <1>1, <1>2, <1>4, <2>1 DEF Interrupt, process
<1>5. CASE Reserve \/ Launch \/ LaunchFails \/ CheckReserved \/ WriteStarted \/ LeaderReaped
  BY <1>1, <1>2, <1>5 DEF Reserve, Launch, LaunchFails, CheckReserved, WriteStarted,
     LeaderReaped, process
<1>6. CASE GroupChecked \/ BudgetEnds \/ Terminate \/ GraceEnds
  BY <1>1, <1>2, <1>6 DEF GroupChecked, BudgetEnds, Terminate, GraceEnds, process
<1>7. CASE Kill \/ KillEnds
  BY <1>1, <1>2, <1>7 DEF Kill, KillEnds
<1>8. CASE Verify \/ CheckFinal \/ WriteFinal \/ Crash
  BY <1>1, <1>2, <1>8 DEF Verify, CheckFinal, WriteFinal, Crash, process
<1>9. CASE Hook
  BY <1>1, <1>2, <1>9 DEF Hook, LeaderExits, RestExits, Spawns, RewritesReceipt, process
<1>10. QED
  BY <1>3, <1>4, <1>5, <1>6, <1>7, <1>8, <1>9 DEF ExecuteNext, Collector

(* A group that is gone stays gone, but for the launch of another.           *)
LEMMA GoneStays ==
  ASSUME ExecuteTypeOK, [ExecuteNext]_executeVars, Gone, ~ Launch
  PROVE  Gone'
<1> USE DEF Gone, GroupRunning
<1>1. CASE UNCHANGED process \/ Crash \/ Hook
  BY <1>1 DEF process, Crash, Hook, LeaderExits, RestExits, Spawns, RewritesReceipt
<1>2. CASE LeaderReaped \/ GraceEnds
  BY <1>2 DEF LeaderReaped, GraceEnds
<1>3. CASE Kill
  <2>1. rest \in BOOLEAN /\ ~ rest
    BY DEF ExecuteTypeOK
  <2>2. leader' = leader /\ rest' = FALSE
    BY <1>3, <2>1 DEF Kill
  <2>3. QED
    BY <2>2
<1>4. CASE KillEnds
  BY <1>4 DEF KillEnds
<1>5. QED
  BY <1>1, <1>2, <1>3, <1>4 DEF ExecuteNext, Collector, executeVars, Reserve, LaunchFails, CheckReserved,
     WriteStarted, GroupChecked, BudgetEnds, Terminate, Verify, CheckFinal, WriteFinal, Interrupt

(* Containment is believed only when the group was seen to be gone.          *)
LEMMA ContainedMoves ==
  ASSUME ExecuteTypeOK, ContainedInv, [ExecuteNext]_executeVars, memory'.contained
  PROVE  Gone'
<1> USE DEF ExecuteTypeOK, Flags, Gone, GroupRunning
<1>1. CASE Launch
  BY <1>1 DEF Launch
<1>2. CASE GroupChecked
  <2>1. CASE GroupRunning
    BY <1>2, <2>1, GoneStays DEF GroupChecked, ContainedInv, Launch
  <2>2. CASE ~ GroupRunning
    BY <1>2, <2>2 DEF GroupChecked, ContainedInv, process
  <2>3. QED
    BY <2>1, <2>2
<1>3. CASE GraceEnds
  BY <1>3 DEF GraceEnds
<1>4. CASE KillEnds
  <2>1. CASE leader' # "running" /\ ~ rest
    BY <1>4, <2>1 DEF KillEnds
  <2>2. CASE ~ (leader' # "running" /\ ~ rest)
    BY <1>4, <2>2, GoneStays DEF KillEnds, ContainedInv, Launch
  <2>3. QED
    BY <2>1, <2>2
<1>5. CASE ~ Launch /\ ~ GroupChecked /\ ~ GraceEnds /\ ~ KillEnds
  <2>1. memory.contained
    BY <1>5 DEF ExecuteNext, Collector, Hook, executeVars, Reserve, LaunchFails, CheckReserved, WriteStarted,
       LeaderReaped, BudgetEnds, Terminate, Kill, Verify, CheckFinal, WriteFinal, Interrupt,
       Crash, LeaderExits, RestExits, Spawns, RewritesReceipt
  <2>2. QED
    BY <1>5, <2>1, GoneStays DEF ContainedInv
<1>6. QED
  BY <1>1, <1>2, <1>3, <1>4, <1>5

(* Every step keeps it.                                                      *)
LEMMA ContainedStep == ExecuteTypeOK /\ ContainedInv /\ [ExecuteNext]_executeVars => ContainedInv'
<1> SUFFICES ASSUME ExecuteTypeOK, ContainedInv, [ExecuteNext]_executeVars PROVE ContainedInv'
  OBVIOUS
<1>1. memory'.contained => Gone'
  BY ContainedMoves
<1>2. ASSUME disk'.finished, disk'.contained PROVE Gone'
  <2>1. CASE disk' = disk
    <3>1. Gone /\ ~ Launch
      BY <1>2, <2>1 DEF ContainedInv, Launch
    <3>2. QED
      BY <3>1, GoneStays
  <2>2. CASE disk' = memory /\ ~ Launch
    <3>1. Gone
      BY <1>2, <2>2 DEF ContainedInv
    <3>2. QED
      BY <2>2, <3>1, GoneStays
  <2>3. CASE disk' = Foreign
    BY <1>2, <2>3, ForeignClaims
  <2>4. QED
    BY <2>1, <2>2, <2>3, DiskMoves
<1>3. ASSUME pc' \in {"enter", "launch"} PROVE ~ memory'.finished /\ ~ disk'.finished
  <2>1. pc \in {"enter", "launch"} /\ memory' = memory
    BY <1>3 DEF ExecuteNext, Collector, Hook, executeVars, Reserve, Launch, LaunchFails, CheckReserved,
       WriteStarted, LeaderReaped, GroupChecked, BudgetEnds, Terminate, GraceEnds, Kill,
       KillEnds, Verify, CheckFinal, WriteFinal, Interrupt, Crash, LeaderExits, RestExits,
       Spawns, RewritesReceipt
  <2>2. QED
    BY <2>1, DiskMoves, ForeignClaims DEF ContainedInv
<1>4. ASSUME pc' = "group" PROVE leader' = "reaped"
  BY <1>4 DEF ContainedInv, ExecuteNext, Collector, Hook, executeVars, process, Reserve, Launch, LaunchFails,
     CheckReserved, WriteStarted, LeaderReaped, GroupChecked, BudgetEnds, Terminate, GraceEnds,
     Kill, KillEnds, Verify, CheckFinal, WriteFinal, Interrupt, Crash, LeaderExits, RestExits,
     Spawns, RewritesReceipt
<1>5. ASSUME answer' = "result"
      PROVE  pc' = "done" /\ (Gone' \/ ~ disk'.contained \/ disk' = Foreign)
  <2>1. CASE WriteFinal
    <3>1. disk' = memory /\ pc' = "done" /\ ~ Launch
      BY <2>1 DEF WriteFinal, Launch
    <3>2. QED
      BY <3>1, GoneStays DEF ContainedInv
  <2>2. CASE ~ WriteFinal
    <3>1. answer = "result"
      BY <1>5, <2>2 DEF ExecuteNext, Collector, Hook, executeVars, Reserve, Launch, LaunchFails,
         CheckReserved, WriteStarted, LeaderReaped, GroupChecked, BudgetEnds, Terminate,
         GraceEnds, Kill, KillEnds, Verify, CheckFinal, Interrupt, Crash, LeaderExits,
         RestExits, Spawns, RewritesReceipt
    <3>2. pc = "done" /\ ~ Launch
      BY <3>1 DEF ContainedInv, Launch
    <3>3. pc' = "done" /\ (disk' = disk \/ disk' = Foreign)
      BY <2>2, <3>2 DEF ExecuteNext, Collector, Hook, executeVars, Reserve, Launch, LaunchFails,
         CheckReserved, WriteStarted, LeaderReaped, GroupChecked, BudgetEnds, Terminate,
         GraceEnds, Kill, KillEnds, Verify, CheckFinal, Interrupt, Crash, LeaderExits,
         RestExits, Spawns, RewritesReceipt
    <3>4. QED
      BY <3>1, <3>2, <3>3, GoneStays DEF ContainedInv
  <2>3. QED
    BY <2>1, <2>2
<1>6. QED
  BY <1>1, <1>2, <1>3, <1>4, <1>5 DEF ContainedInv

(* What a hook started is accounted for, wherever signals interrupt the call *)
(* and whenever the collector is killed: a receipt that says finished and    *)
(* contained is true, and a group that outlives the call shows in the answer *)
(* or in the receipt.                                                        *)
THEOREM ProcessesCorrect == ExecuteSpec => []ProcessesAccounted
<1>1. ExecuteInit => ContainedInv
  BY ForeignClaims DEF ExecuteInit, ContainedInv, Gone, GroupRunning
<1>2. ExecuteTypeOK /\ ContainedInv => ProcessesAccounted
  BY DEF ContainedInv, ProcessesAccounted, ContainedIsGone, LeftBehindIsKnown
<1>3. QED
  BY <1>1, <1>2, TypeInit, TypeStep, ContainedStep, PTL DEF ExecuteSpec
=============================================================================
