---------------------------- MODULE SlotEvidence ----------------------------
(***************************************************************************)
(* What the analysis of the control comparison concludes from the times    *)
(* and the failures of one slot (runner/analyze.py): the interval of an    *)
(* event known only on the clock of the measured process, whether it is in *)
(* the budget, and the one status of the slot.                             *)
(*                                                                         *)
(* Times are whole units of the collector's clock, from the spawn of the   *)
(* measured command.                                                       *)
(***************************************************************************)
EXTENDS Integers, FiniteSets

CONSTANTS
  Cap,        \* the collection cap of the arm
  Unknown     \* a time, a record or a row that does not exist

ASSUME EvidenceAssumption == Cap \in Nat \ {0}

Statuses == {"complete", "quality_failed", "operational_failed", "budget_exhausted"}
Memberships == {"unknown", "in_budget", "late", "budget_membership_unknown"}

\* Fault: the part of the invocation outside the local clock is left out.
Bound_Aligned(localEnd, localDuration, whole) ==
  IF 0 <= localEnd /\ localEnd <= localDuration /\ localDuration <= whole
  THEN [lo |-> localEnd, hi |-> localEnd]
  ELSE Unknown

\* The local clock began somewhere in the part of the invocation it does not
\* cover, so an event of that clock is known up to the length of that part.
Bound(localEnd, localDuration, whole) ==
  IF 0 <= localEnd /\ localEnd <= localDuration /\ localDuration <= whole
  THEN [lo |-> localEnd, hi |-> localEnd + whole - localDuration]
  ELSE Unknown

At(time) == IF time = Unknown THEN Unknown ELSE [lo |-> time, hi |-> time]

Membership(interval) ==
  CASE interval = Unknown -> "unknown"
    [] interval # Unknown /\ interval.hi <= Cap -> "in_budget"
    [] interval # Unknown /\ interval.lo > Cap -> "late"
    [] OTHER -> "budget_membership_unknown"

\* A detection needs the event and its usable evidence within the budget.
Detected(first, usable) ==
  Membership(first) = "in_budget" /\ Membership(usable) = "in_budget"

\* One status, by precedence; the reasons are kept beside it.
Status(operational, quality, expired) ==
  CASE operational # {} -> "operational_failed"
    [] operational = {} /\ quality # {} -> "quality_failed"
    [] operational = {} /\ quality = {} /\ expired -> "budget_exhausted"
    [] OTHER -> "complete"
=============================================================================
