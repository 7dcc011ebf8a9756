---------------------------- MODULE CampaignPlan ----------------------------
(***************************************************************************)
(* The frozen plan of a campaign (harness/plan.py, common.order): what     *)
(* validate_manifest accepts, and the slots and arm orders that follow     *)
(* from it.  A plan is reduced to the references between its parts; that a *)
(* field has the right JSON type is left out.                              *)
(***************************************************************************)
EXTENDS Integers, Sequences, FiniteSets, FiniteSetsExt

CONSTANTS
    Workloads,       \* names a manifest may use
    Programs,        \* executables a command may name
    Sampling,        \* the strata registered for the phases of E1 and E2
    BasePlans,       \* manifests an author starts from
    MaxEdits         \* how many parts an author changes

PlanAssumption == MaxEdits \in Nat

Arms == {"baseline", "candidate"}
Steps == {"prepare", "run", "observe", "check", "cleanup"}

VARIABLES
    plan,            \* the manifest
    edits,           \* changes made to it
    verdict,         \* "draft", "refused" or "accepted"
    todo,            \* strata whose slots are not assigned
    rows             \* the assigned slots

vars == <<plan, edits, verdict, todo, rows>>

-----------------------------------------------------------------------------
(* validate_manifest.                                                      *)

\* validate_shapes and the inventories: each table covers exactly the registered
\* workloads, both arms and all five hooks.
Covers(p) ==
    /\ DOMAIN p.strata # {}
    /\ p.commands = (DOMAIN p.strata) \X Arms \X Steps
    /\ p.exits = (DOMAIN p.strata) \X Arms
    /\ p.facts = (DOMAIN p.strata) \X Arms

Counted(p) == \A w \in DOMAIN p.strata:
    p.strata[w] # <<>> /\ \A d \in DOMAIN p.strata[w]: p.strata[w][d] >= 1

\* Date slots are distinct and increasing, and as many as the longest stratum.
Dated(p) ==
    /\ p.dates # <<>>
    /\ \A i, j \in DOMAIN p.dates: i < j => p.dates[i] < p.dates[j]
    /\ Max({Len(p.strata[w]): w \in DOMAIN p.strata}) = Len(p.dates)

\* Every executable is pinned; only a cleanup hook may name pins of its own, and
\* they are registered ones that include its executable.
PinsOf(p, step) == IF step = "cleanup" /\ p.own # {} THEN p.own ELSE p.pinned

Pinned(p) ==
    /\ p.pinned # {}
    /\ p.own \subseteq p.pinned
    /\ \A step \in Steps: p.program[step] \in PinsOf(p, step)

\* Registered experiments use the published sample; later ones bring their own.
Registered(p) == p.experiment = "registered" => p.strata \in Sampling

ValidManifest(p) ==
    Covers(p) /\ Counted(p) /\ Registered(p) /\ Dated(p) /\ Pinned(p)

-----------------------------------------------------------------------------
(* order.                                                                  *)

\* Fault: the odd block of every date starts with the candidate.
Half_Down(count, date) == count \div 2

\* How many blocks of a date start with the baseline.
Half(count, date) == (count \div 2) + IF date % 2 = 1 THEN count % 2 ELSE 0

\* The published hash ranks the blocks of a stratum.  Two rankings stand for it:
\* the properties count blocks and compare names.
Rankings(count) == {[i \in 1 .. count |-> i], [i \in 1 .. count |-> count + 1 - i]}

Assign(p, w, date, rank) ==
    LET count == p.strata[w][date]
    IN  {[workload |-> w, slot |-> date, block |-> b, date |-> p.dates[date],
          first |-> IF rank[b] <= Half(count, date) THEN "baseline" ELSE "candidate"]:
           b \in 1 .. count}

-----------------------------------------------------------------------------
(* An author writes a manifest, freeze validates it and assigns its slots. *)

Init ==
    /\ plan \in BasePlans
    /\ edits = 0
    /\ verdict = "draft"
    /\ todo = {}
    /\ rows = {}

\* External: the author changes one part.
Edit(p) ==
    /\ verdict = "draft"
    /\ edits < MaxEdits
    /\ edits' = edits + 1
    /\ plan' = p
    /\ UNCHANGED <<verdict, todo, rows>>

Drop(S) == {S \ {x}: x \in S}

EditPlan ==
    \/ \E w \in Workloads, n \in {<<>>, <<0>>, <<1>>, <<2, 1>>, <<1, 2, 1>>}:
          Edit([plan EXCEPT !.strata = [v \in DOMAIN @ \cup {w} |-> IF v = w THEN n ELSE @[v]]])
    \/ \E d \in {<<>>, <<1>>, <<1, 2>>, <<2, 1>>, <<1, 1>>}: Edit([plan EXCEPT !.dates = d])
    \/ \E S \in Drop(plan.commands) \cup {plan.commands \cup {w} \X Arms \X Steps: w \in Workloads}:
          Edit([plan EXCEPT !.commands = S])
    \/ \E S \in Drop(plan.exits) \cup {plan.exits \cup {w} \X Arms: w \in Workloads}:
          Edit([plan EXCEPT !.exits = S])
    \/ \E S \in Drop(plan.facts) \cup {plan.facts \cup {w} \X Arms: w \in Workloads}:
          Edit([plan EXCEPT !.facts = S])
    \/ \E S \in SUBSET Programs: Edit([plan EXCEPT !.pinned = S])
    \/ \E S \in SUBSET Programs: Edit([plan EXCEPT !.own = S])
    \/ \E step \in Steps, e \in Programs: Edit([plan EXCEPT !.program[step] = e])

Validate ==
    /\ verdict = "draft"
    /\ verdict' = IF ValidManifest(plan) THEN "accepted" ELSE "refused"
    /\ todo' = IF ValidManifest(plan)
               THEN UNION {{w} \X (DOMAIN plan.strata[w]): w \in DOMAIN plan.strata} ELSE {}
    /\ UNCHANGED <<plan, edits, rows>>

AssignStratum(w, date) ==
    /\ <<w, date>> \in todo
    /\ \A t \in todo: t[2] >= date
    /\ todo' = todo \ {<<w, date>>}
    /\ \E rank \in Rankings(plan.strata[w][date]):
          rows' = rows \cup Assign(plan, w, date, rank)
    /\ UNCHANGED <<plan, edits, verdict>>

Next ==
    \/ EditPlan
    \/ Validate
    \/ \E t \in todo: AssignStratum(t[1], t[2])

Spec == Init /\ [][Next]_vars

Assigned == verdict = "accepted" /\ todo = {}

-----------------------------------------------------------------------------
(* Properties.                                                             *)

TypeOK ==
    /\ edits \in 0 .. MaxEdits
    /\ verdict \in {"draft", "refused", "accepted"}
    /\ \A t \in todo: t[1] \in DOMAIN plan.strata
    /\ \A r \in rows: r.first \in Arms /\ r.slot \in Nat /\ r.block \in Nat

\* An accepted plan cannot fail in the middle of a campaign for want of an entry:
\* every lookup of collect, verify_execution_pins and trial is defined, whatever
\* combination of parts the author left out.
AcceptedIsCollectable ==
    verdict = "accepted" =>
        \A w \in DOMAIN plan.strata:
            /\ \A d \in DOMAIN plan.strata[w]: d \in DOMAIN plan.dates
            /\ \A a \in Arms: /\ <<w, a>> \in plan.exits /\ <<w, a>> \in plan.facts
                              /\ \A step \in Steps: <<w, a, step>> \in plan.commands
            /\ \A step \in Steps: plan.program[step] \in plan.pinned
            /\ plan.own # {} => plan.program["cleanup"] \in plan.own

\* Every block is assigned once, and blocks of a later slot have a later date.
SlotsInOrder ==
    /\ \A q, r \in rows:
          /\ q.slot < r.slot => q.date < r.date
          /\ q.workload = r.workload /\ q.slot = r.slot /\ q.block = r.block => q = r
    /\ Assigned => \A w \in DOMAIN plan.strata: \A d \in DOMAIN plan.strata[w]:
          Cardinality({r \in rows: r.workload = w /\ r.slot = d}) = plan.strata[w][d]

First(w, arm) == Cardinality({r \in rows: r.workload = w /\ r.first = arm})

\* Over a registered campaign each arm goes first in half of a workload's blocks,
\* although odd dates are split unevenly.
Counterbalanced ==
    Assigned /\ plan.experiment = "registered" =>
        \A w \in DOMAIN plan.strata: First(w, "baseline") = First(w, "candidate")

\* In any accepted plan the arms of one date differ by one block at most.
DatesBalanced ==
    Assigned => \A w \in DOMAIN plan.strata: \A d \in DOMAIN plan.strata[w]:
        LET of(arm) == Cardinality({r \in rows: r.workload = w /\ r.slot = d
                                                  /\ r.first = arm})
        IN  of("baseline") - of("candidate") \in {-1, 0, 1}

\* An accepted plan is a campaign that can be run and analysed: nothing it needs is
\* missing, every block has its slot, and the arm orders are balanced.
PlanIsSound == AcceptedIsCollectable /\ SlotsInOrder /\ DatesBalanced /\ Counterbalanced
=============================================================================
