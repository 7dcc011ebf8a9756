-------------------------- MODULE ProviderEvidence --------------------------
(***************************************************************************)
(* E2's provider evidence (harness/ci.py): snapshot retains the run and    *)
(* every page of its jobs, one request after the other, and endpoint       *)
(* derives the workflow's durations and peak concurrency from what was     *)
(* retained.  The provider goes on while pages are fetched.  Left out: the *)
(* identities of run, attempt and revision, and the cap on the whole run.  *)
(***************************************************************************)
EXTENDS Integers, Sequences, FiniteSets, FiniteSetsExt

CONSTANTS
    JobIds,          \* job IDs the provider may create
    Required,        \* the jobs of the frozen acceptance bundle
    PageSize,        \* jobs on a full page (100)
    Horizon          \* the last instant

ProviderAssumption ==
    PageSize \in Nat \ {0} /\ Horizon \in Nat /\ Required \subseteq JobIds

Instants == 0 .. Horizon
Jobs == [id: JobIds, start: Instants, end: Instants,
         conclusion: {"success", "failure", "skipped"}]

VARIABLES
    listing,         \* the provider's jobs, in the order it lists them
    complete,        \* the provider reports the run as completed
    pc,              \* "run", "pages", "check", "sweep", "accepted" or "refused"
    run,             \* the retained status of the run: completed or not
    pages,           \* the retained pages
    events,          \* interval bounds the sweep has not met
    active,          \* jobs on a runner, in the sweep
    peak             \* the most there were

vars == <<listing, complete, pc, run, pages, events, active, peak>>

-----------------------------------------------------------------------------
(* The provider (external): it adds jobs until the run is completed, newest *)
(* first, so a listing moves while it is paged.                            *)

AddJob(j) ==
    /\ ~complete
    /\ \A i \in DOMAIN listing: listing[i].id # j.id
    /\ j.start <= j.end
    /\ listing' = <<j>> \o listing
    /\ UNCHANGED <<complete, pc, run, pages, events, active, peak>>

CompleteRun ==
    /\ ~complete
    /\ complete' = TRUE
    /\ UNCHANGED <<listing, pc, run, pages, events, active, peak>>

-----------------------------------------------------------------------------
(* snapshot.                                                               *)

Init ==
    /\ listing = <<>>
    /\ complete = FALSE
    /\ pc = "run"
    /\ run = FALSE
    /\ pages = <<>>
    /\ events = {}
    /\ active = 0
    /\ peak = 0

FetchRun ==
    /\ pc = "run"
    /\ run' = complete
    /\ pc' = "pages"
    /\ UNCHANGED <<listing, complete, pages, events, active, peak>>

Page(n) == [total |-> Len(listing),
            jobs |-> SubSeq(listing, (n - 1) * PageSize + 1,
                            Min({n * PageSize, Len(listing)}))]

\* A short page is the last one.
FetchPage ==
    /\ pc = "pages"
    /\ LET page == Page(Len(pages) + 1)
       IN  /\ pages' = Append(pages, page)
           /\ pc' = IF Len(page.jobs) < PageSize THEN "check" ELSE "pages"
    /\ UNCHANGED <<listing, complete, run, events, active, peak>>

-----------------------------------------------------------------------------
(* endpoint.                                                               *)

Retained == UNION {{pages[i].jobs[k]: k \in DOMAIN pages[i].jobs}: i \in DOMAIN pages}

\* How many jobs the pages carry, with repetition.
Carried == MapThenSumSet(LAMBDA i: Len(pages[i].jobs), DOMAIN pages)

Whole ==
    /\ \A i \in DOMAIN pages: pages[i].total = pages[1].total
    /\ Carried = pages[1].total
    /\ Cardinality({j.id: j \in Retained}) = Carried

\* Jobs of the bundle succeeded; only jobs that were not skipped used a runner.
BundleDone == \A r \in Required:
    Cardinality({j \in Retained: j.id = r}) = 1
    /\ \A j \in Retained: j.id = r => j.conclusion = "success"

Used == {j \in Retained: j.conclusion # "skipped"}
FirstStart == Min({j.start: j \in Used})
BundleEnd == Max({j.end: j \in {k \in Used: k.id \in Required}})

Check ==
    /\ pc = "check"
    /\ IF run /\ Whole /\ BundleDone /\ Required # {} /\ BundleEnd >= FirstStart
       THEN /\ pc' = "sweep"
            /\ events' = UNION {{<<j.start, 1, j.id>>, <<j.end, -1, j.id>>}:
                                  j \in {k \in Used: k.end > k.start}}
       ELSE pc' = "refused" /\ UNCHANGED events
    /\ UNCHANGED <<listing, complete, run, pages, active, peak>>

\* The order of Python's tuples: by time, and an end before a start.
Before(e, f) == e[1] < f[1] \/ (e[1] = f[1] /\ e[2] <= f[2])

Sweep ==
    /\ pc = "sweep"
    /\ \E e \in events:
          /\ \A f \in events: Before(e, f)
          /\ events' = events \ {e}
          /\ active' = active + e[2]
          /\ peak' = Max({peak, active + e[2]})
    /\ UNCHANGED <<listing, complete, pc, run, pages>>

Finish ==
    /\ pc = "sweep"
    /\ events = {}
    /\ pc' = "accepted"
    /\ UNCHANGED <<listing, complete, run, pages, events, active, peak>>

Snapshot == FetchRun \/ FetchPage \/ Check \/ Sweep \/ Finish

Next ==
    \/ \E j \in Jobs: AddJob(j)
    \/ CompleteRun
    \/ Snapshot

Spec == Init /\ [][Next]_vars /\ WF_vars(Snapshot)

-----------------------------------------------------------------------------
(* Properties.                                                             *)

TypeOK ==
    /\ complete \in BOOLEAN /\ run \in BOOLEAN
    /\ pc \in {"run", "pages", "check", "sweep", "accepted", "refused"}
    /\ \A i \in DOMAIN pages: Len(pages[i].jobs) <= PageSize
    /\ active \in 0 .. Cardinality(JobIds)
    /\ peak \in 0 .. Cardinality(JobIds)

\* Evidence is accepted only when it holds every job of the attempt exactly once,
\* although the listing may grow between two pages.
AcceptedIsWhole ==
    pc \in {"sweep", "accepted"} =>
        /\ Retained = {listing[i]: i \in DOMAIN listing}
        /\ Carried = Len(listing)

\* The reference: the largest number of jobs that hold a runner at one instant.
Concurrent(t) == Cardinality({j \in Used: j.start <= t /\ t < j.end})

\* The sweep finds it, with jobs that start when others end, or that take no time.
PeakIsRight ==
    pc = "accepted" => active = 0 /\ peak = Max({Concurrent(t): t \in Instants})

\* Accepted evidence is the whole attempt, and its peak is the true one.
EvidenceIsSound == AcceptedIsWhole /\ PeakIsRight

=============================================================================
