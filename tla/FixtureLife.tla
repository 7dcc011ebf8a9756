----------------------------- MODULE FixtureLife -----------------------------
(***************************************************************************)
(* The MySQL fixture: one container, its database and the handle a caller  *)
(* uses it through.  Every method holds one mutex, so a call is one step;  *)
(* what makes it hard is that a call can fail at each of its steps and the *)
(* next call has to cope with what is left.  A container, the handle that  *)
(* Provision returns for it and the connection descriptor in the handle    *)
(* share one number.  The caller is the orchestrator: a run asks Ready,    *)
(* resets, and works; a session that it could not stop goes on writing,    *)
(* and the fixture is quarantined for it.  Containers do not end by        *)
(* themselves.                                                             *)
(***************************************************************************)
EXTENDS Naturals

CONSTANT Containers      \* bound: containers that are ever started
FixtureAssumption == Containers \in Nat \ {0}

VARIABLES
    made,            \* containers started so far
    live,            \* external: the containers that run
    data,            \* external: their database: "absent", "partial", "seeded", "used"
    container,       \* f.container, 0 for nil
    provisioned,
    db,              \* f.db, 0 for nil
    pool,            \* f.db.SQL is an open pool
    valid,           \* the descriptors that were not invalidated
    quarantined,     \* f.quarantined # nil
    tornDown,        \* f.quarantineTeardownSucceeded
    session,         \* the container the current run works in, 0 without a run
    strays           \* containers with a session that could not be stopped

vars == <<made, live, data, container, provisioned, db, pool, valid, quarantined,
          tornDown, session, strays>>

Ids == 1..Containers
Nobody == 0

TypeOK ==
    /\ made \in 0..Containers
    /\ live \subseteq 1..made /\ valid \subseteq 1..made /\ strays \subseteq 1..made
    /\ data \in [Ids -> {"absent", "partial", "seeded", "used"}]
    /\ {container, db, session} \subseteq 0..made
    /\ {provisioned, pool, quarantined, tornDown} \subseteq BOOLEAN

Init ==
    /\ made = 0 /\ live = {} /\ valid = {} /\ strays = {}
    /\ data = [c \in Ids |-> "absent"]
    /\ container = Nobody /\ db = Nobody /\ session = Nobody
    /\ provisioned = FALSE /\ pool = FALSE /\ quarantined = FALSE /\ tornDown = FALSE

-----------------------------------------------------------------------------
(* Provision.                                                              *)

MayProvision ==
    /\ ~ provisioned
    /\ container = Nobody
    /\ quarantined => tornDown
    /\ made < Containers

\* Terminate ends the container, or reports a failure and may have ended it.
Terminated(c, failed) ==
    /\ live' \in IF failed THEN {live, live \ {c}} ELSE {live \ {c}}
    /\ strays' = strays \cap live'

Provision ==
    /\ MayProvision
    /\ made' = made + 1
    /\ live' = live \cup {made'}
    /\ data' = [data EXCEPT ![made'] = "seeded"]
    /\ valid' = valid \cup {made'}
    /\ container' = made' /\ db' = made'
    /\ provisioned' = TRUE /\ pool' = TRUE
    /\ quarantined' = FALSE /\ tornDown' = FALSE
    /\ UNCHANGED <<session, strays>>

\* A step behind the start of the container fails, in the last one the SQL was
\* applied in part: cleanupFailedProvision keeps a container it cannot end.  A start
\* that leaves no container changes nothing.
ProvisionFails ==
    /\ MayProvision
    /\ made' = made + 1
    /\ \E failed \in BOOLEAN :
         /\ live' \in IF failed THEN {live, live \cup {made'}} ELSE {live}
         /\ container' = IF failed THEN made' ELSE Nobody
    /\ \E left \in {"absent", "partial"} : data' = [data EXCEPT ![made'] = left]
    /\ UNCHANGED <<provisioned, db, pool, valid, quarantined, tornDown, session, strays>>

-----------------------------------------------------------------------------
(* Ready and Reset, by a run.                                              *)

Ready(h) == ~ quarantined /\ provisioned /\ h # Nobody /\ h = db /\ h \in valid

\* A run that was let through resets the database and starts to work in it.  h is the
\* handle of the orchestrator, which may be an old one.
MayReset == ~ quarantined /\ provisioned /\ db \in valid

Reset(h) ==
    /\ session = Nobody
    /\ Ready(h) /\ MayReset
    /\ data' = [data EXCEPT ![db] = "seeded"]
    /\ pool' = TRUE
    /\ session' = h
    /\ UNCHANGED <<made, live, container, provisioned, db, valid, quarantined, tornDown,
                   strays>>

\* The pool does not close; or the database is dropped and not created, or created and
\* not opened, or the SQL fails half way, each with the pool gone.
ResetFails_StaysValid(h) ==
    /\ session = Nobody
    /\ Ready(h) /\ MayReset
    /\ \/ pool' = pool /\ data' = data
       \/ /\ pool' = FALSE
          /\ \E left \in {data[db], "absent", "partial"} : data' = [data EXCEPT ![db] = left]
    /\ UNCHANGED <<made, live, container, provisioned, db, valid, quarantined, tornDown,
                   session, strays>>
ResetFails(h) ==
    /\ session = Nobody
    /\ Ready(h) /\ MayReset
    /\ \/ pool' = pool /\ data' = data
       \/ /\ pool' = FALSE
          /\ \E left \in {data[db], "absent", "partial"} : data' = [data EXCEPT ![db] = left]
    /\ valid' = valid \ {db}
    /\ UNCHANGED <<made, live, container, provisioned, db, quarantined, tornDown, session,
                   strays>>

\* Somebody writes: the session of the run, or one that was left over.
Write ==
    /\ \E c \in ({session} \cup strays) \cap live :
         /\ data[c] # "absent"
         /\ data' = [data EXCEPT ![c] = IF data[c] = "partial" THEN "partial" ELSE "used"]
    /\ UNCHANGED <<made, live, container, provisioned, db, pool, valid, quarantined,
                   tornDown, session, strays>>

-----------------------------------------------------------------------------
(* The end of a run, Quarantine and Teardown.                              *)

EndRun ==
    /\ session # Nobody
    /\ session' = Nobody
    /\ UNCHANGED <<made, live, data, container, provisioned, db, pool, valid, quarantined,
                   tornDown, strays>>

\* The session of a run, if there is one, could not be stopped; the latch stays until
\* a new Provision.
Quarantine ==
    /\ strays' = IF session = Nobody THEN strays ELSE strays \cup {session}
    /\ session' = Nobody
    /\ quarantined' = TRUE
    /\ tornDown' = FALSE
    /\ valid' = valid \ {db}
    /\ UNCHANGED <<made, live, data, container, provisioned, db, pool>>

\* A session that was left over ends after all.
StrayEnds(c) ==
    /\ c \in strays
    /\ strays' = strays \ {c}
    /\ UNCHANGED <<made, live, data, container, provisioned, db, pool, valid, quarantined,
                   tornDown, session>>

NothingToTearDown == ~ provisioned /\ container = Nobody /\ db = Nobody

TeardownOfNothing ==
    /\ NothingToTearDown
    /\ tornDown' = TRUE
    /\ UNCHANGED <<made, live, data, container, provisioned, db, pool, valid, quarantined,
                   session, strays>>

\* The pools close, or one of them is given up after its share of the time; what
\* decides is whether the container ended.
Teardown ==
    /\ session = Nobody
    /\ ~ NothingToTearDown
    /\ valid' = valid \ {db}
    /\ pool' = FALSE
    /\ \E abandoned, failed \in BOOLEAN :
         /\ Terminated(container, failed)
         /\ IF failed
            THEN UNCHANGED <<container, provisioned, db, tornDown>>
            ELSE /\ container' = Nobody /\ db' = Nobody
                 /\ provisioned' = FALSE
                 /\ tornDown' = (tornDown \/ ~ abandoned)
    /\ UNCHANGED <<made, data, quarantined, session>>

Next ==
    \/ Provision \/ ProvisionFails
    \/ \E h \in Ids : Reset(h) \/ ResetFails(h)
    \/ Write \/ EndRun \/ Quarantine
    \/ \E c \in Ids : StrayEnds(c)
    \/ TeardownOfNothing \/ Teardown

Spec == Init /\ [][Next]_vars

-----------------------------------------------------------------------------
(* A handle that Ready accepts leads to the whole database of a running    *)
(* container in which nobody of an earlier run works any more, whatever    *)
(* failed before: provisioning, a reset, a teardown, a session that did    *)
(* not stop.  A run works in such a database alone.                        *)
Usable(c) ==
    /\ c \in live \ strays
    /\ data[c] \in {"seeded", "used"}
    /\ pool

(* Every container that runs is the one the fixture has on record, so that *)
(* Teardown can end it: none is lost by a failed start, a failed teardown  *)
(* or a second Provision.  What was quarantined comes back only with the   *)
(* container it was quarantined for gone.                                  *)
FixtureSafe ==
    /\ TypeOK
    /\ \A h \in Ids : Ready(h) => Usable(h)
    /\ session # Nobody => Usable(session) /\ Ready(session)
    /\ live \subseteq {container}
    /\ strays # {} => quarantined
=============================================================================
