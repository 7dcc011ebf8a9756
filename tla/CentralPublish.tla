--------------------------- MODULE CentralPublish ---------------------------
(***************************************************************************)
(* scripts/java-central.py: one release is assembled, verified and         *)
(* published to Maven Central, by a job that may be retried.  A coordinate *)
(* is immutable, so a retry must find what an earlier run left behind: an  *)
(* upload whose answer was lost, a deployment still in progress, a failed  *)
(* one, or a published coordinate whose deployment is no longer listed.    *)
(*                                                                         *)
(* The workflow runs the jobs of one tag one after another.  Central and   *)
(* the public repository are modelled from how the script reads them.      *)
(***************************************************************************)
EXTENDS Naturals, Sequences, FiniteSets

CONSTANTS
    Bytes,           \* contents an artifact can have
    Foreign,         \* listed deployments with another name
    PageSize,        \* deployments on one page of the listing
    Deadline,        \* sleeps until the wait for publication is given up
    MaxRuns,         \* runs of the job
    Late             \* uploads may arrive after their sender has given up

PublishAssumption ==
    /\ Bytes # {}
    /\ {Foreign, Deadline} \subseteq Nat
    /\ {PageSize, MaxRuns} \subseteq Nat \ {0}
    /\ Late \in BOOLEAN

Artifacts == <<"pom", "jar">>
Absent == "absent"
Names == {"pom", "jar"}
None == 0
Ids == 1 .. MaxRuns

VARIABLES
    bundle,          \* the ZIP file on disk
    job,             \* locals of the running job
    runs,            \* jobs started so far
    now,             \* time in wait_for_publication
    request,         \* uploads on their way
    deployments,     \* what Central accepted, in order
    listing,         \* ids Central lists; None is another release
    dropped,         \* failed deployments an operator dropped
    public           \* public[a]: artifact a in the public repository

vars == <<bundle, job, runs, now, request, deployments, listing, dropped, public>>
central == <<request, deployments, listing, dropped, public>>

\* art: contents; asc: contents the signature covers; sum: contents the digests cover.
Bundles == [art: [Names -> Bytes], asc: [Names -> Bytes], sum: [Names -> Bytes]]

States == {"PENDING", "PUBLISHING", "PUBLISHED", "FAILED"}
Positions == {"idle", "verify", "list", "public", "upload", "sent", "poll", "sleep", "done"}
Outcomes == {"none", "repository", "deployment", "failed"}

Listed(d) == \E i \in 1 .. Len(listing): listing[i] = d

TypeOK ==
    /\ bundle \in Bundles
    /\ job \in [pc: Positions, data: Bundles, page: 0 .. Foreign + MaxRuns,
                found: SUBSET Ids, raised: BOOLEAN, next: 1 .. Len(Artifacts),
                id: Ids \cup {None}, until: Nat, outcome: Outcomes]
    /\ job.page = 0 \/ job.page < Foreign + Len(deployments)
    /\ runs \in 0 .. MaxRuns
    /\ now \in 0 .. Deadline + 1
    /\ request \in Seq(Bundles)
    /\ deployments \in Seq([data: Bundles, state: States])
    /\ listing \in Seq(Ids \cup {None})
    /\ dropped \subseteq Ids
    /\ public \in [Names -> Bytes \cup {Absent}]

Init ==
    /\ bundle \in {[art |-> a, asc |-> a, sum |-> a]: a \in [Names -> Bytes]}
    /\ job = [pc |-> "idle", data |-> bundle, page |-> 0, found |-> {}, raised |-> FALSE,
              next |-> 1, id |-> None, until |-> 0, outcome |-> "none"]
    /\ runs = 0
    /\ now = 0
    /\ request = <<>>
    /\ deployments = <<>>
    /\ listing = [i \in 1 .. Foreign |-> None]
    /\ dropped = {}
    /\ public = [n \in Names |-> Absent]

-----------------------------------------------------------------------------

\* The bundle holds what it says: digests and signatures cover the artifacts.
Valid(data) == \A n \in Names: /\ data.sum[n] = data.art[n]
                               /\ data.asc[n] = data.art[n]

Done(outcome) == job' = [job EXCEPT !.pc = "done", !.outcome = outcome]

Goto(pc) == job' = [job EXCEPT !.pc = pc]

\* build-bundle: digests are computed from what is packed; the signatures are
\* those Maven left, which may cover earlier contents.
BuildBundle ==
    /\ job.pc \in {"idle", "done"}
    /\ runs < MaxRuns
    /\ runs' = runs + 1
    /\ \E art, asc \in [Names -> Bytes]:
        bundle' = [art |-> art, asc |-> asc, sum |-> art]
    /\ job' = [job EXCEPT !.pc = "verify", !.page = 0, !.found = {}, !.raised = FALSE,
                          !.next = 1, !.id = None, !.outcome = "none"]
    /\ UNCHANGED <<now, central>>

\* The build is repeated, or the file damaged, while the job runs.
Rewrite ==
    /\ job.pc \in {"verify", "list", "public", "upload"}
    /\ \E n \in Names, b \in Bytes: bundle' = [bundle EXCEPT !.art[n] = b]
    /\ UNCHANGED <<job, runs, now, central>>

Verify ==
    /\ job.pc = "verify"
    /\ job' = IF Valid(bundle)
                THEN [job EXCEPT !.data = bundle, !.pc = "list"]
                ELSE [job EXCEPT !.pc = "done", !.outcome = "failed"]
    /\ UNCHANGED <<bundle, runs, now, central>>

Entries(page) ==
    {listing[i]: i \in {k \in 1 .. Len(listing): page * PageSize < k /\ k <= (page + 1) * PageSize}}
LastPage(page) == Len(listing) <= (page + 1) * PageSize

\* Where the matches of the whole listing lead.
Decided(found) ==
    IF found = {} THEN [job EXCEPT !.found = {}, !.pc = "public"]
    ELSE IF Cardinality(found) = 1
      THEN [job EXCEPT !.found = found, !.pc = "poll", !.id = CHOOSE d \in found: TRUE]
      ELSE [job EXCEPT !.found = found, !.pc = "done", !.outcome = "failed"]

ListPage ==
    /\ job.pc = "list"
    /\ LET found == job.found \cup (Entries(job.page) \ {None})
       IN job' = IF LastPage(job.page)
                   THEN Decided(found)
                   ELSE [job EXCEPT !.found = found, !.page = @ + 1]
    /\ now' = 0
    /\ UNCHANGED <<bundle, runs, central>>

\* Fault: a listing that failed counts as an empty one.
ListFails_Empty ==
    /\ job.pc = "list"
    /\ job' = [job EXCEPT !.pc = "public"]
    /\ UNCHANGED <<bundle, runs, now, central>>

\* A failed request: a published coordinate is still accepted, nothing is uploaded.
ListFails ==
    /\ job.pc = "list"
    /\ job' = [job EXCEPT !.pc = "public", !.raised = TRUE]
    /\ UNCHANGED <<bundle, runs, now, central>>

\* published_coordinate: only a missing POM says that nothing is published.
ReadPublic ==
    /\ job.pc = "public"
    /\ LET n == Artifacts[job.next]
       IN IF public[n] = Absent
            THEN IF job.next = 1 /\ ~job.raised THEN Goto("upload") ELSE Done("failed")
          ELSE IF public[n] # job.data.art[n] THEN Done("failed")
          ELSE IF job.next = Len(Artifacts) THEN Done("repository")
          ELSE job' = [job EXCEPT !.next = @ + 1]
    /\ UNCHANGED <<bundle, runs, now, central>>

Upload ==
    /\ job.pc = "upload"
    /\ request' = Append(request, job.data)
    /\ Goto("sent")
    /\ UNCHANGED <<bundle, runs, now, deployments, listing, dropped, public>>

\* wait_for_publication: the state is judged before the deadline is.
Poll ==
    /\ job.pc = "poll"
    /\ Listed(job.id)
    /\ LET state == deployments[job.id].state
       IN IF state = "PUBLISHED" THEN Done("deployment")
          ELSE IF state = "FAILED" \/ now >= Deadline THEN Done("failed")
          ELSE job' = [job EXCEPT !.pc = "sleep", !.until = now + 1]
    /\ UNCHANGED <<bundle, runs, now, central>>

Wake ==
    /\ job.pc = "sleep"
    /\ now >= job.until
    /\ Goto("poll")
    /\ UNCHANGED <<bundle, runs, now, central>>

Tick ==
    /\ job.pc \in {"poll", "sleep"}
    /\ now <= Deadline
    /\ now' = now + 1
    /\ UNCHANGED <<bundle, job, runs, central>>

\* A request fails, an answer has the wrong shape, or the job is canceled.
Breaks ==
    /\ job.pc \notin {"idle", "done"}
    /\ Done("failed")
    /\ request' = IF Late THEN request ELSE <<>>
    /\ UNCHANGED <<bundle, runs, now, deployments, listing, dropped, public>>

-----------------------------------------------------------------------------

\* Central accepts an upload; its answer reaches the job, or is lost.
Accept ==
    /\ request # <<>>
    /\ request' = Tail(request)
    /\ deployments' = Append(deployments, [data |-> Head(request), state |-> "PENDING"])
    /\ listing' = Append(listing, Len(deployments) + 1)
    /\ \/ /\ job.pc = "sent" /\ Len(request) = 1
          /\ job' = [job EXCEPT !.pc = "poll", !.id = Len(deployments) + 1]
          /\ now' = 0
       \/ /\ job' = IF job.pc = "sent" /\ Len(request) = 1
                      THEN [job EXCEPT !.pc = "done", !.outcome = "failed"] ELSE job
          /\ now' = now
    /\ UNCHANGED <<bundle, runs, dropped, public>>

\* Validation may fail; a coordinate that is published is never replaced.
Advance(d) ==
    /\ \/ /\ deployments[d].state \in {"PENDING", "PUBLISHING"}
          /\ deployments' = [deployments EXCEPT ![d].state = "FAILED"]
       \/ /\ deployments[d].state = "PENDING"
          /\ \A e \in 1 .. Len(deployments): deployments[e].state \notin {"PUBLISHING", "PUBLISHED"}
          /\ deployments' = [deployments EXCEPT ![d].state = "PUBLISHING"]
       \/ /\ deployments[d].state = "PUBLISHING"
          /\ deployments' = [deployments EXCEPT ![d].state = "PUBLISHED"]
    /\ UNCHANGED <<bundle, job, runs, now, request, listing, dropped, public>>

\* The artifacts of a published deployment become visible one by one.
Spread(d, n) ==
    /\ deployments[d].state = "PUBLISHED"
    /\ public[n] = Absent
    /\ public' = [public EXCEPT ![n] = deployments[d].data.art[n]]
    /\ UNCHANGED <<bundle, job, runs, now, request, deployments, listing, dropped>>

\* The entry of d leaves the listing.
Unlist(d) ==
    \E i \in 1 .. Len(listing):
        /\ listing[i] = d
        /\ listing' = [k \in 1 .. Len(listing) - 1 |-> listing[IF k < i THEN k ELSE k + 1]]

\* Published deployments disappear from the Portal once everything is visible.
Clean(d) ==
    /\ deployments[d].state = "PUBLISHED"
    /\ Absent \notin {public[n]: n \in Names}
    /\ Unlist(d)
    /\ UNCHANGED <<bundle, job, runs, now, request, deployments, dropped, public>>

\* An operator drops a failed deployment, to let a later run upload again.
DropFailed(d) ==
    /\ job.pc \in {"idle", "done"}
    /\ deployments[d].state = "FAILED"
    /\ d \notin dropped
    /\ dropped' = dropped \cup {d}
    /\ Unlist(d)
    /\ UNCHANGED <<bundle, job, runs, now, request, deployments, public>>

Central ==
    \/ Accept
    \/ \E d \in 1 .. Len(deployments):
        \/ Advance(d) \/ Clean(d) \/ DropFailed(d)
        \/ \E n \in Names: Spread(d, n)

Publisher ==
    \/ Verify \/ ListPage \/ ListFails \/ ReadPublic \/ Upload \/ Poll \/ Wake

Next == BuildBundle \/ Rewrite \/ Publisher \/ Breaks \/ Tick \/ Central

\* Every request has a timeout of 60 s, after which the job fails; time passes.
Spec == /\ Init /\ [][Next]_vars
        /\ WF_vars(Publisher) /\ WF_vars(Breaks /\ job.pc = "sent") /\ WF_vars(Tick)
        /\ WF_vars(Breaks /\ job.pc = "poll" /\ ~Listed(job.id))

-----------------------------------------------------------------------------

\* At most one deployment is made for the release, whatever was lost and however
\* often the job is retried, unless an operator dropped a failed one: retries of
\* publish_bundle resume or accept what an earlier run left behind.
OneDeployment == Cardinality((1 .. Len(deployments)) \ dropped) <= 1

\* Only verified bytes reach Central: publish_bundle uploads the data it
\* verified, whatever becomes of the file in the meantime.
UploadedIsVerified ==
    \A d \in 1 .. Len(deployments): Valid(deployments[d].data)

\* A job that succeeds has published: its deployment is published, or every
\* public artifact has the bytes this run verified.
SuccessIsPublished ==
    /\ job.outcome = "deployment" => deployments[job.id].state = "PUBLISHED"
    /\ job.outcome = "repository" => public = job.data.art

\* A release is published once, from verified bytes, and success means published.
ReleaseIsSound == OneDeployment /\ UploadedIsVerified /\ SuccessIsPublished

=============================================================================
