# Weavegate: TLA+ models and proofs

Weavegate runs a system under test against a real database while a coordinator
decides in which order concurrent workers pass named sync points. A *schedule*
is a total order of worker-and-point intents; the coordinator parks each worker
at its point and releases it when the schedule says so. Around this core stand
two adapters for the system under test, a MySQL fixture, a command line with
verdicts and reports, the harnesses of two measurement campaigns, and the
scripts that publish releases and gate pull requests. This directory holds TLA+
models of the parts where order, failure or bounds can go wrong, TLC runs on
small instances, and TLAPS proofs for every value of the constants.

Run everything from this directory: `tlc -workers 2 -config X.cfg M` for a run
(the table below has the names), `tlapm XProofs.tla` for the proofs.

## The system

Sources are below `src/` in `PROJECT.json`.

| Component | State | Operations | Interacts with |
| --- | --- | --- | --- |
| Sync-point runtime, `internal/syncpoint/runtime.go` | per worker: state, point, active arrival, active wait; closed flag; a broadcast channel | Register, Arrive, WaitArrive, Release, Finish, Close, Snapshot | called by the coordinator, by collectors, and by every worker; one mutex |
| Schedule execution, `internal/orchestrator/run.go` (`runCoordinator`), `outcome.go` | saved steps, preObserved and pending sets, executions, trace | register, invoke and bootstrap each worker; traverse; drain; collect | runtime; SUT handle; one collector goroutine per worker |
| Run, `internal/orchestrator/run.go` (`Run`), `orchestrator.go` | run gate, quarantine, cleanup results | reset, observe, start, execute, clean up, finalize evidence | fixture, adapter, runtime, Oracle, collectors, fault watcher |
| Exploration and replay, `explore.go`, `replay.go` | summaries, first violation, repeated runs | Explore, Replay | Run, schedule sequence |
| Go-native adapter, `internal/sut/gonative/gonative.go` | per worker lifecycle, active map, session fault latch | Start, Invoke, Stop, worker completion | application code, runtime, parent context |
| External adapter, `internal/sut/external/` | phase, invocations, arrivals, outgoing queue, child process | start, invoke, cancel, bridge arrivals, stop | child process over a framed stream, runtime |
| Java SDK peer, `sdk/java/.../Peer.java` | phase, invocations, parked arrivals, watchdogs | start, invoke, arrive, release, cancel, stop | the external adapter, application threads, transactions |
| MySQL fixture, `internal/fixture/mysql.go` | container, pools, provisioned flag, quarantine | Provision, Ready, Reset, Quarantine, Teardown | Docker, MySQL |
| Scenario and schedules, `internal/scenario/` | position of the walk | validate, count and enumerate schedules | execution, exploration, CLI |
| CLI, verdict, exit code, report, `cmd/weavegate/`, `internal/ci/`, `internal/report/` | run results, exit code, report directory | run, explore, replay, confirm, write | everything above |
| Timing recorder, `internal/timing/`, with its two reducers | a tree of spans | start, finish, snapshot, decompose | every part that is measured |
| Gate-performance harness, `experiments/gate-performance/harness/` | a sealed bundle of blocks, arms, receipts and views | collect, execute hooks, seal, recover, analyze | hook processes, the hosting provider |
| Local pilot, `experiments/gate-performance/local-pilot/` | a bundle of paired trials | collect, run a gate, analyze | the gate under test, containers, JVMs |
| Control comparison, `experiments/control-comparison/` | registered slots, checkpoints, execution files | collect, drive executions, reduce to rows | the driver, JVMs, the product's command |
| Maven Central publication, `scripts/java-central.py` | bundle, deployments, public coordinate | assemble, verify, look up, upload, wait | Central, a job that is retried |
| Gate of a pull request, `scripts/actions-gate.py`, `action.yml` | evidence directory, outcomes of steps | prepare, install, run, record, comment, decide | the release, the workflow runner |
| External wire vectors, `scripts/check-external-sut-vectors.py` | what a history has shown so far | lint a history | the vectors' authors |
| Oracle, diagnostics, configuration, redaction, records | none of their own | evaluate, derive, parse, compare | run results |

### What is hard here, and what makes each part correct

* **Runtime.** A release, a cancellation, a timeout, a result and `Close` can
  all reach one worker between two instructions of its goroutine. Correct means:
  each stopped caller is the one the runtime has on record; a released caller
  passes and no other does; no change is missed by a waiter; nothing recorded is
  overwritten by a late timer; `Close` leaves nobody blocked.
* **Schedule execution.** Arrivals come before, during or after the wait for
  them, or never; results come at any time. Correct means: the saved order is a
  barrier while it is traversed; the trace tells what workers did; execution
  does not ask the runtime for something it must refuse; it ends.
* **Run and cleanup.** A run returns an evaluation only from a clean session,
  reports every failure of `Stop` and of a collector, loses no outcome to the
  order of cancellation and reads, and never shares the database.
* **Adapters and peer.** Each invocation has one outcome and then a closed
  stream, whoever ends it: the worker, cancellation, stop, a session fault or
  the end of the process. Neither side of the pipes takes the other for one that
  breaks the protocol, and an outcome is the truth about the transaction.
* **Fixture.** A database that was not fully reset, or in which a session of an
  earlier run may still work, is never used; no container is lost.
* **Schedules.** Enumeration gives each valid schedule once, the count agrees
  with it, and the early stop of the count is exact.
* **CLI and report.** Exit codes never claim more than the runs have shown; a
  report is whole or absent, also for a reader while it is written.
* **Campaigns.** Hooks fail, escape or rewrite evidence, and collectors are
  interrupted or killed anywhere. What is sealed was earned, no slot is
  attempted twice, no allocation is shared, a stop is final.
* **Reductions.** Rows and claims say neither more nor less than the evidence:
  a clock that starts somewhere in the invocation, a cap that lands anywhere, a
  pair that failed, a search that departs from the registered one.
* **Publication and gate.** A lost answer, a retry or a step that is cut off
  leads neither to a second deployment nor to a green gate that was not earned.

`PROJECT.json` lists the hazards at their lines, with the properties that cover
them.

## Modules

| Module | Models |
| --- | --- |
| `PointGate` | what the runtime promises: a gate for each worker |
| `SyncPoint` | `runtime.go`, all of it but `Snapshot` |
| `Coordinator` | `runCoordinator.execute` and its collectors, over `SyncPoint` |
| `OutcomeStream` | what an adapter promises: the contract of `internal/sut` |
| `GoNative` | the Go-native adapter |
| `ExternalEngine` | the external adapter: Start, Invoke, Stop, writer, reader, bridges, watchers, with any child |
| `JavaPeer` | `Peer.java` with its threads, with any engine |
| `ExternalWire` | both over the pipes of a child that may die |
| `RunCleanup` | `Orchestrator.Run` around `execute`: gate, faults, collectors, cleanup |
| `FixtureLife` | the MySQL fixture with a failure at each step |
| `ScheduleSpace` | `CandidateCount` and the exhaustive walk |
| `VerdictRun` | the run command: exploration, replay, verdict, teardown, report, exit code |
| `TimingTree` | the recorder of spans and the reducers of the pilot and of the comparison |
| `CommandRun` | one hook of the harness: process group, budget, signals, receipt |
| `GateCampaign` | the campaign collector, its bundle, its seals and its recovery |
| `CampaignPlan` | what a plan must hold, and the slots and arm orders that follow |
| `ProviderEvidence` | the snapshot of the hosting provider and the sweep for its peak |
| `CampaignAnalysis` | accounting, estimates, intervals and the decision of a campaign |
| `PilotCampaign` | the local pilot |
| `SlotCampaign` | the collector of the control comparison |
| `SlotEvidence` | intervals, membership in the budget and status of a slot |
| `BaselineSlot`, `ProductSlot` | one slot of each kind, from its command to its row |
| `CentralPublish` | the publication to Maven Central over retried jobs |
| `ActionGate` | the steps of the action, each of which may be cut off |
| `WireHistory` | the guard of the wire protocol's histories |

`MCSyncPoint`, `MCCoordinator`, `MCAdapters`, `MCRuns`, `MCCampaigns`, `MCTools`,
`MCEvidence` and `MCEnds` instantiate them. The proofs are in `SyncPointProofs`,
`CoordinatorProofs`, `ExternalWireProofs` (the external adapter, the peer and the
pipes), `AdaptersProofs` (the Go-native adapter, and the sum `MCAdapters`),
`RunCleanupProofs`, `HarnessProofs` (`CommandRun` and `BaselineSlot`),
`WireHistoryProofs` and `ToolsProofs`.

### How the modules are composed

Three compositions are real: `Coordinator` calls the actions of `SyncPoint`,
`ExternalWire` joins `ExternalEngine` and `JavaPeer` over two ordered pipes, and
the slots build on `SlotEvidence`. Elsewhere a module stands for another by the
promise that one is shown to keep: `Coordinator` and `RunCleanup` take result
streams that do what `OutcomeStream` allows, which both adapters refine;
`RunCleanup` abstracts `execute` to the ways it can end; `GateCampaign` and
`SlotCampaign` abstract a hook to what `CommandRun` can answer.

`MCAdapters`, `MCRuns`, `MCCampaigns`, `MCTools`, `MCEvidence` and `MCEnds` are
sums: the variable `who` says which part a behaviour belongs to, the variables
of the others hold `Unused`, and the state space is the union of theirs. The
parts of a sum never interact; one run asks the same question of each of them.
The part that a module EXTENDS keeps the first values of its variables when
another one runs.

### PointGate and SyncPoint

`SyncPoint` has the runtime's fields as variables (`closed`; `state`, `point`,
`arrival`, `waitPoint` per worker) and its blocked calls: `arrive[c]` is a call
of `Arrive` from the moment it parked until it returns, `wait[v]` a call of
`WaitArrive`. `arrive[c].released` and `.shut` are the fields of the Go
`arrival` object, whose identity is the caller `c`: an arrival belongs to one
call. Each action is one critical section under `runtime.mu`. A call that blocks
is two actions, the part before it parks (`ArriveBlocks`, `WaitBlocks`) and the
part after it woke (`ArriveReleased`, `ArriveClosed`, `ArriveCanceled`;
`WaitAwake`, `WaitAgain`, `WaitTimerAnswered`, `WaitTimeout`). Cancellation of a
context (`CancelArrive`, `CancelWait`) and expiry of a timer are steps of the
environment. The broadcast channel is a flag per waiter, `notified`, which every
`signalChangedLocked` sets and which a waiter clears when it fetches the current
channel under the lock. A refused call changes nothing and is the negation of a
guard (`CanArrive`, `CanRelease`, `CanFinish`).

`PointGate` says what this amounts to: a worker's gate holds at most one caller,
which leaves by a grant, by its own withdrawal or because the gate was shut, and
gets the answer that fits. `SyncPoint` implements it under the mapping
`GateHolder`, `GateEnded`, `GateProgress`, `GateAnswer`.

### Coordinator

`Coordinator` instantiates `SyncPoint` with one arrival call per worker and the
coordinator as its only waiter. `pc` is where the coordinator goroutine is;
`mode`, `turn` and `cur` say in which loop of `execute` and at which worker and
step. An action ends where the goroutine makes the next call that races with
another goroutine, so bookkeeping around a call is part of that call's action:

| Actions | Code |
| --- | --- |
| `RegisterWorker`, `InvokeWorker`, `InvokeRefused` | the first two loops of `execute`, `invoke` |
| `ChooseStep`: `BootstrapStep`, `TraverseStep`, `DrainStep` | `bootstrap`, `traverse`, `drainPending` up to their wait |
| `EnterWait`, `WaitSeesCancel`, `WaitGoesOn`, `WaitAwakes`, `WaitExpires` | `WaitArrive` |
| `ObserveArrived`, `ObserveTimeout`, `ObserveEnd`, `ObserveError`, `Settle` | `recordObservation` and the same switch in `drainPending` |
| `BeginRelease`, `ReleaseStep`, `ReleaseRefused` | `release`, `releasePending` |
| `FinalCollect`, `Complete` | the last loop of `execute` |
| `CollectResult`, `CollectFault`, `CollectClosed`, `CollectorCancels` | `collectInvocation` |
| `Cancel` | run timeout, caller, or session fault |
| `AppArrives` ... `AppEnds` | external: application goroutines and the adapter's stream |

`fate` is the part of the trace the properties need: the release and skip events
of each step. `Emit` lets the trace observer refuse an event anywhere.
The application may hang at any place, end at any place, and fail when its
`Arrive` fails; workers in `Deviant` may stop at any point in any order.

### OutcomeStream and GoNative

`OutcomeStream` states what `internal/sut` asks of an adapter: each stream
carries one outcome and is then closed, or is closed without one after the
session fault was latched; a `Stop` that returns nil leaves no stream open and
no fault, and nothing happens after it.

In `GoNative` an invocation is one `activeWorker` object. `phase` is where its
goroutine `startWorker` is: `connecting` (db.Conn), `entering` (before
`accept`), `running` (the command), `faulting` (before `failSession`),
`completing` (before `completeWorker`), `complete`. `cause` is `cancelErr`,
reduced to whether it is the failure of the run (`parent`) or the generic
cancellation of `Stop` and `completeWorker` (`wakeup`); `conn` says whether the
invocation holds a connection, `cleanup` whether returning it failed. Each action
is one critical section of the adapter's or the worker's mutex. `Stop` is a
sequence of such sections: it takes the active workers (`BeginStop`), asks each
(`AskToStop`), waits for each or for its deadline (`StopCollects`,
`StopExpires`), and reads the fault last (`StopReturns`). The reports of a
command are the four cases of `runWorker`. `GoNative` implements `OutcomeStream`
under the mapping `StreamOf`, `StopAnswer`.

### ExternalEngine, JavaPeer and ExternalWire

`ExternalEngine` has the fields under the adapter's mutex in the record `mu` and
a step per critical section of each goroutine: `StartStep`, `WriterStep`,
`ReaderStep`, `CleanupStep`, and per invocation `Invoke`, `WatchContext` and
`BridgeStep`. `writing` is the frame the writer holds outside the lock; the
outgoing queue is bounded by `QueueLimit` and the append that exceeds it faults
the session, as `enqueueLocked` does. A deadline may pass whenever it is waited
for. `AnyChild` is a child that sends any frame and ends whenever it likes.

`JavaPeer` has the state under the peer's monitor in the record `peer`; `Receive`
is `receive` with the handler of each frame, `WorkerStep` the milestones of an
invocation (task, lease of the connection, begin of the transaction, arrivals,
body, completion, return of the lease, exit of the proxy), and `StartupEnds`, `CloseHost`, `DrainedExit`,
`WatchdogExpires` the other threads. `EngineSays` is an engine that sends any
frame. `ExternalWire` is their product over `toPeer` and `fromPeer`, with
`ChildDies` at any time. What the child wrote can still be read then; its memory
is lost (`Remains`). The child never reads an end of its input there: cleanup kills
it before it closes the pipes, or, behind an expired Stop, with it. The pipes are unbounded; sequence numbers, digests and stale
identities are left out, since frames are neither lost nor reordered on a pipe
and `WireHistory` has the protocol of sequences.

### RunCleanup

`RunCleanup` has several calls of `Run` on one orchestrator. `pc` is the position
of each call, from the gate through set-up, execution, evaluation and the
deferred functions in the order Go runs them: `BeginCleanup`, `Stop`,
`JoinCollectors`, `CloseRuntime` for the cleanup function, then `Boundary` for
the run context and the gate, `Leave` for the operation context. The three
nested contexts are one number, `ctx`, since they end from the inside outwards.
`errs` is the set of causes joined in `returnErr`; `wakeup` is the error of an
execution whose context merely ended. The execution itself is abstracted to
invoking workers and ending well (all outcomes collected) or in one of three
ways that `rebuildCollectionErrors` tells apart. A collector reads its stream
(`reading`), then probes for the closure (`probing`), with the read budget of
`receiveOutcome` once the collectors' context is canceled. Sessions do what
`OutcomeStream` allows, with publication and closure of a stream as two steps,
and go on after a `Stop` that failed.

### FixtureLife, ScheduleSpace and VerdictRun

Every method of the fixture holds one mutex, so a call is one step of
`FixtureLife`; what is hard is what a failed call leaves for the next one.
`ProvisionFails` and `ResetFails` stop after each of their steps, `Teardown` may
fail to terminate the container, and the caller keeps handles of containers that
are gone. A container, its handle and its descriptor share a number. The caller
is the orchestrator: a run asks `Ready`, resets and works, and a session it could
not stop (`strays`) goes on writing.

`ScheduleSpace` counts with the partial products of `CandidateCount`
(`CountStep`, `CountDone`) and walks with the recursion of `exhaustiveSequence`
made explicit: `steps` is the path, `try` the loop variable of the deepest call,
`Descend`, `Ascend`, `Yield`, `YieldStops` its moves.

`VerdictRun` follows `runScenario`: `Plan`, `Provision`, `ExploreRun`,
`ReplayRun`, `Teardown`, `Leave`, `Diagnose`, then the report (`Stage`,
`WriteFile`, `Publish`) and the code (`Show`). A run is its fingerprint. The
first signal cancels, the second one ends the process wherever it is.

### Measurement campaigns

`CommandRun` is `execute`: positions between its statements, at which a signal is
delivered unless `defer_interrupts` covers it, the group with its leader and
descendants, and the receipt in memory and on disk. `GateCampaign` and
`SlotCampaign` are the collectors: `me` holds the locals of the running one,
`disk`/`bundle` what a later one finds, `host` what hooks left behind, and
`history` only what properties remember. Every write that is an atomic
replacement is one step, so a crash falls between any two of them. `Faults` and
`Mishaps` choose what goes wrong. `PilotCampaign` is `run_command`, `collect` and
`analyze` in the same manner, where interrupts are swallowed into receipts.

`CampaignPlan` lets an author leave out or change parts of a plan (`EditPlan`),
validates it, and assigns its blocks. `ProviderEvidence` retains one page after
the other while jobs appear. `CampaignAnalysis` computes with fractions: the
geometric mean of ratios is compared through products, and the bootstrap's
resamples are any. `BaselineSlot` and `ProductSlot` run the measured command in
whole units of time, the local clock starting anywhere in the invocation, and
reduce what is left on disk to a row as `analyze.py` does, with
`SlotEvidence` for intervals and status. `TimingTree` records spans of two
goroutines and reduces the retained list twice.

### Publication, gate and wire histories

`CentralPublish` has one job at a time (`job`), its requests on their way
(`request`) and what Central and the public repository hold. `Breaks` loses an
answer or fails a request; with `Late` an upload arrives after its sender gave
up. `ActionGate` runs the steps of `action.yml` under their conditions, with the
positions inside each step at which `Cut` ends it. `WireHistory` offers every
step in every state and keeps what the guard has seen in `h`: the open states
are those that some accepted history reaches.

## Runs

| Run | Module, cfg | What it shows |
| --- | --- | --- |
| `sync` | `MCSyncPoint`, `MCSyncPoint.cfg` | the runtime's records, blocked callers and wakeups agree in every interleaving, and it implements `PointGate` |
| `sync_drain` | `MCSyncPoint`, `MCSyncPointDrain.cfg` | after `Close` every blocked call returns |
| `execute` | `MCCoordinator`, `MCCoordinator.cfg` | the saved order is a barrier, the steps are accounted for, and protocol errors have a cause |
| `execute_ends` | `MCCoordinator`, `MCCoordinatorEnds.cfg` | `execute` ends, or waits for a worker that never ends |
| `pending_conflict` | `MCCoordinator`, `MCCoordinatorPending.cfg` | **violated**: `PendingStaysPending` |
| `adapters` | `MCAdapters`, `MCAdapters.cfg` | both adapters implement `OutcomeStream`; adapter and peer agree; outcomes are true |
| `runs` | `MCRuns`, `MCRuns.cfg` | runs never share a database and report what happened; fixture, schedules and verdicts are sound; everything returns |
| `campaigns` | `MCCampaigns`, `MCCampaigns.cfg` | plans, commands, collectors, snapshots and timings keep their promises |
| `gate_alarm` | `MCCampaigns`, `MCCampaignsAlarm.cfg` | **violated**: `NoFalseAlarm` |
| `tools` | `MCTools`, `MCTools.cfg` | one deployment of verified bytes, an earned gate, comparable pairs, sound histories |
| `evidence` | `MCEvidence`, `MCEvidence.cfg` | rows and claims are what the evidence supports |
| `ends` | `MCEnds`, `MCEnds.cfg` | commands, collections, pilots, publications, gates and snapshots come to their end |

### Bounds, and why they are enough

* `sync`: two workers, points, arrival calls and waits, all symmetric. Two of
  each kind are what the properties compare: a worker with another one, a point
  with the next, an arrival with an overlapping one of its worker, a wait with a
  concurrent wait. A call identity is reused after it returned, so histories of
  any length are covered; nothing in `SyncPoint` is bounded but the sets, and
  the proofs remove that bound.
* `execute`: all six schedules of two workers and two points, one deviant
  worker, an observer that may refuse; `execute_ends` has one point.
* `adapters`: three Go invocations over two workers, so that the third reuses
  the ID of an earlier one (two of the three are interchangeable, which is the
  symmetry TLC uses); over the wire one invocation with one arrival, or two
  invocations of one worker, with a queue of three frames that these can exhaust
  (two with an arbitrary child). With two invocations the context of the run does
  not end; with one it does. An arbitrary child that was found at fault says one
  more thing, which nobody looks at. Two concurrent workers over the wire are
  beyond TLC; invocations share only the queue, the fault and the end of the
  session, which a single one reaches as well.
* `runs`: two runs of one worker each (the proofs hold for any number); four
  containers, one to lose, one to quarantine and others to come back with;
  spaces of one to ninety candidates with limits below, at and above their
  number; two candidates, two passes, two replays, two ways to pass and two to
  violate, since disagreement needs two.
* `campaigns`: one or two blocks of two arms, three slots (done, current,
  ahead), up to three signals (one in a call, one in its handler, one more), one collector
  after the other; three jobs on pages of two; four spans of two goroutines. The
  faults, and the mishaps of each hook, are divided among instances that each
  reach one kind of damage.
* `tools`: two runs of a job and a listing of two pages; two cuts; two blocks in
  opposite orders with two signals; one invocation with two arrivals, or two of
  one worker.
* `evidence`: two executions with a cap of three in five units of time, so that
  each may end before, at and after the cap; two candidates, passes and
  repetitions; two dates of two blocks, the fewest with an interval.

The constants of `MCTools` and the containers of `MCRuns` are given in their
configurations; those of the other sums are in the instances themselves.

Deadlock is not checked anywhere: executions, adapters, runs and jobs end, and
some wait for a worker that hangs. `CHECK_DEADLOCK FALSE` in each cfg says so;
that they end where they must is what the liveness properties are for.

In `tools` the instance with late uploads checks `UploadedIsVerified` and
`SuccessIsPublished` only: an upload that arrives after its sender gave up makes
a second deployment possible, which the script cannot see.

### Fairness

`SyncPoint`: a blocked call whose channel is ready wakes up (weak fairness of the
wake actions); nothing forces a caller, a cancellation or a timer.
`Coordinator`: the coordinator, its wait timers and the collectors are weakly
fair, because goroutines are scheduled and `time.Timer` fires; the application
and cancellation are not. `MCRuns`: one weak fairness of the union of a part's
own threads: runs, their timers and collectors; the goroutines of the adapters,
whose launches return, whose living child takes what is written to it, and whose
deadlines and watchdogs pass; the peer's reader. This assumes less than fairness
of each thread, and is enough because none of the behaviours is infinite.
Application code, the body of a command and the session of a run may stop for
ever. `MCEnds`: the steps of the collector, publisher, runner or snapshot that is
running, time, and the end of a request that is under way (`Breaks`: every
request has a timeout). Nothing is assumed of signals, crashes, hosts and
providers.

### The violated properties

`PendingStaysPending` states what `execute` says of its loops (run.go:366-368,
375-376): an unavailable step stays pending instead of blocking other workers.
`drainPending` lacks the check `traverse` has (`hasPendingPredecessor`): with two
pending steps of one worker, when the wait for the first times out the runtime
records the worker as blocked at that point, and the wait for the second, in the
same pass, is a point mismatch. `execute` then fails with a protocol error
before the pending steps of later workers are looked at. `ProtocolKept`
is what does hold: this is the only way to a protocol error that neither
cancellation nor a worker that breaks its declared order explains.

`NoFalseAlarm` states what the harness says of its deferred signals
(harness/README.md:262-264): a collector's write cannot be mistaken for a hook's.
The receipt of a hook is in the bundle when `execute` returns, but owned only
after `command_complete` (collector.py:262). A signal in the checks between the
two leaves it unowned, and the next look at the arm calls it tampering although
no hook wrote anything.

### Further disagreements met while modelling

These definitions stay in their modules, where a cfg that names them refutes them, and
are not part of the runs above.

| Definition | Code | Against |
| --- | --- | --- |
| `CommandRun.SignalsInterrupt` | execution.py:192: the handler of a signal kills the group; when that fails, its error replaces the interrupt and `execute` returns an ordinary result | harness/README.md:260-261, signals interrupt the collection |
| `SlotCampaign.InterruptionIsSealed` | tool.py:391: between the two deferrals, and in the except clause (340-344), a signal leaves the slot without a sealed stop | runner/README.md:397-399 |
| `SlotCampaign.OneAttempt` with the fault `remove` | tool.py:233: retained slots are compared with the checkpoint once on entry, and a slot removed later is measured again | runner/README.md:454-456 |
| `ActionGate.ReplayStepsWork` | actions-gate.py:186: the schedule is recorded before it is copied, so the comment may name a file the artifact lacks | docs/howto/ci-gate.md:104-105 |
| `PilotCampaign.OneGate` with `Orphans` | pilot.py:72: an interrupt inside `Popen` after its fork leaves a gate that no receipt names | local-pilot/README.md:58-59 |
| `WireHistory.FaultsAreRefused` with the case of a retired invocation | check-external-sut-vectors.py:348: the binding of an invocation outlives its terminal | docs/reference/external-sut-conformance.md:154-155 |
| `BaselineSlot.CleanCancellationIsExhausted` (`CancellationIsExhaustion` of `MCEvidence`, part `clean`) | analyze.py:169: an execution canceled in its reset never had a JVM, and counts as a failure of the environment | control-comparison/README.md:357-359 |
| `ProductSlot.ReproducedEvidence` | cmd/weavegate/run.go:383: the discovery is always appended to the evidence | the function's comment, run.go:375-377 |
| `ProductSlot.TimingIsOfTheDiscovery` | analyze.py:389: a discovery without the domain event is timed by a replay's | control-comparison/README.md:300-302 |

## Proofs

The assumptions are that `Nil` and `Unknown` lie outside the sets they are told
apart from (`NilAssumption` of `SyncPoint`, `GoNative`, `RunCleanup`;
`UnknownAssumption` of `BaselineSlot`, `HistoryAssumption` of `WireHistory`,
`EngineAssumption` of `ExternalEngine`, which also says that its counts are numbers
and its invocations finitely many), that the instances of a sum have constants as
their modules assume them (`InstancesAssumption` of `MCAdapters`, `MCRuns` and
`MCTools`, which names `EngineAssumption`, `FixtureAssumption`, `SpaceAssumption`,
`VerdictAssumption`, `GateAssumption`, `PilotAssumption`, `PublishAssumption` and
`HistoryAssumption`), that a scenario names at least one worker and one point and
none twice, as its validation requires (`ListAssumption` of `Coordinator`;
internal/scenario/scenario.go:66, 85), and that counts and times are numbers of
the right sign (`SignalsAssumption`, `BaselineAssumption`, `EvidenceAssumption`). The
sets are otherwise arbitrary. The inductive invariants were checked by TLC on
small instances before they were proved.

`SyncPointProofs`, for any workers, points, callers and waiters:

* `TypeCorrect`: `Spec => []TypeOK`.
* `ArrivalsCorrect`: `Spec => []ArrivalsKept`, whose parts are `ParkedCorrect` and
  `SlotCorrect`. Neither part is inductive alone: that a released caller is no
  longer parked for its worker needs the slot to name only callers that are
  blocked for that worker, and this is kept by a withdrawal only because the
  recorded caller is the parked one. `SlotInv` is their conjunction with
  `TypeOK`, and is inductive. One lemma says that actions which leave arrivals
  alone keep it, one that a leaving caller does, and one that each step does.
* `GateRefinement`: `Spec => ImplementsGate`. Every step under `SlotInv` maps
  to a step of `PointGate` or leaves its variables unchanged (`GateStep`).

* `WaitsCorrect`: `Spec => []WaitsKept`. A worker has one wait at most, its
  awaited point stays, and no waiter sleeps through a change that answers it.
  The three are inductive together (`WaitInv`): one wait per worker says which
  point a worker may arrive at, so the awaited one, and only then a waiter that
  was not notified would still be told to wait. Lemmas follow the ways an action
  touches waits: it returns one, begins one, signals all, or leaves them.
* `FactsCorrect`: `Spec => RecordedFactsStay`, an action property.

`CoordinatorProofs`, for any lists of workers and points, all schedules, any
deviant workers, and an observer that refuses or not:

* `RuntimeCalled`: `Spec => RT!Spec`. Coordinator, collectors and applications
  together are a client the runtime allows, one case per action (`RuntimeStep`).
* `RuntimeKept`: hence the theorems of `SyncPointProofs` hold of the runtime of
  every execution; they are cited, not proved again.
* `CoordinatorTypeCorrect`: `Spec => []TypeOK`, from `CoInv`: the type invariant,
  with the current step within the schedule while `execute` waits or releases, and
  an application parked only where it has points left. Without these two `cur` and
  `visits` leave their ranges.
* `BarrierCorrect`: `Spec => BarrierKept`, an action property. `ControlInv` says
  which loop `pc` can be in, and `CoverInv` that each step behind the current one
  is settled or pending.
* `AccountsCorrect`: `Spec => []StepsAccounted`, by `CoverInv` at the end of the
  drain passes (none is pending, so all are settled), `InvokeInv` (a worker and
  its collector start together, after registration) and `ResultInv` (what a
  collector vouches for is in the runtime's state of its worker; a skipped step
  and the last loop stand on such a result).

Its second half is about how the trace of an execution relates to what the
applications did. Each invariant uses those before it, and the promises of the
runtime (`RuntimeKept`).

* `PlanInv` (no step is waited for, pending or current after its release, none
  behind a pending one of its worker in `traverse`), `PlaceInv` and `CallInv`
  (application and coordinator are inside their runtime calls exactly when the
  runtime says so, the coordinator for the current step), `KnownInv` (every
  worker is registered before the first invocation, and its state is final only
  by its collector).
* `RecordsCorrect`: `Spec => []RecordsFit`. `TraceInv` says that a step is
  released in the trace exactly when its worker has passed its point. That no
  worker passes a step left pending is `StuckInv`: such a worker is blocked there
  or has ended. The number of released steps of a worker is then the number of
  its points passed, by a bijection between the two sets of indices.
* `ProtocolCorrect`: `Spec => []ProtocolKept`. `PointInv` relates a worker's state
  in the runtime to the points it passed, so that a worker that keeps its order
  is never at a point other than its next; `SeenInv` says that what was observed
  still holds at the release, or the context has ended.

`AdaptersProofs`, of the Go-native adapter: `NativeInv` is the type invariant with `Progress` (what an
invocation holds and knows in each phase), `StopKnows` (what `Stop` has still to wait for) and
`OneInvocationPerWorker`; each conjunct has its own step lemma.

* `InvocationsCorrect`: `Spec => []InvocationsKept`.
* `CauseIsFirst`: `Spec => RunFailureIsTheCause`.
* `StreamRefinement`: `Spec => ImplementsStream`, one case per action.

`ExternalWireProofs`, for any invocations, workers, capacity, arrivals and queue. A
frame is a tuple, a pipe a sequence: `In`, `Before` and `Once` say what is in a
pipe and in which order, and the first lemmas say what an append, a read, a
concatenation and a loss do to them. `Walk` is the one lemma about
`CanceledIn`: what holds of a state and is kept by the cancellation of one
invocation holds after the cancellation of all.

* `EngineAlwaysSafe`: `EngineSpec => []EngineSafe`, with any child. The claims are
  about a stream, the queue and a pipe at once, so `EngineInv` says what a record of
  an invocation may hold (`Regular`, `Bridged`), that a cancellation stands behind
  the releases of its invocation and is still to be read as long as one of them is
  (`Orderly`, over the pipe and the queue together), that start comes first
  (`Begun`, `Starting`), and from what was seen before each position of `Stop` has its
  proof (`Ending`, `Stopping`). One lemma per method under the lock says what it
  comes to (`Smooth`, `Fades`, `Accepts`); one per action uses them.
* `PeerAlwaysTruthful`: `Peer!PeerSpec => []Peer!PeerIsTruthful`, with any engine.
  `PeerInv` says what a thread may hold (`Sane`), that everybody who is live when
  admission closes was told (`Shut`), and that all that was said and not read yet is
  true and in order (`Told`, `Meant`). `Speaks` is the promise of a method of the
  peer, and is transitive; each method and then each step is shown to keep it.
* `OutcomeAlwaysTrue`: `WireSpec => [](OutcomeIsTrue /\ EngineSafe)`. Over the pipes
  both invariants hold together, and `Vouched`, that a terminal the adapter holds
  is true of the peer, is carried from `Told` by the step that reads it; the truth
  about a retired invocation stays, also when the process ends (`Stays`).

`AdaptersProofs`, of the sum that is model-checked, for every set of invocations of
its parts:

* `OutcomeCorrect`: `MCSpec => []OutcomeIsTrue`, and `SidesCorrect`:
  `MCSpec => []SidesAreSafe`. `PartInv` is the invariant of the part a behaviour
  belongs to. The lemmas before it show, definition by definition, that an instance
  of `ExternalWire`, `ExternalEngine` or `JavaPeer` in `MCAdapters` and the instance of
  `ExternalWireProofs` with the same constants mean the same.

`RunCleanupProofs`, for any runs and workers:

* `RunTypeCorrect`: `Spec => []TypeOK`.
* `RunsSeparated`: `Spec => []RunsApart`, from `RunsAlone` (inductive as it
  stands) and `SessionsApart`. The second speaks of a run in its session and of
  another that left, so the invariant `SessionInv` follows a run through its
  cleanup: nothing is open behind `Stop` unless it failed (`AfterStop`), nothing
  is open behind the close of the runtime unless the fixture is quarantined
  (`AfterClose`), and no run is in its session then (`OutOfSession`). Only
  `CloseRuntime` sets the quarantine, and `OneRunAtATime` says that no other run
  is in a session at that moment.

* `OwnFailureCorrect`: `Spec => OwnFailureKept`. `Rebuilt` says which causes can
  stand in an error that is going to be rebuilt.
* `ReportCorrect`: `Spec => []ReportIsTrue`. A run's answer depends on its
  collectors, streams and contexts in turn, so the proof is a chain of
  invariants, each of which may use those before it: `Stands` (what each position
  of a run implies of its adapter and of `Stop`), `Concludes` (a run ends with
  evidence or with errors, a failed `Stop` among them), `Budgeted` (a collector
  that probes has a read left), `Joined` (all collectors are done behind the
  join), `AllShut` (a `Stop` that succeeded shut every stream), `Delivered` (a
  collector that is done then agrees with its stream), `Evaluated` (evidence
  comes only with all outcomes), `Told` (what a collector found wrong is among
  the causes) and `Woken` (so is the reason why an execution was woken up).
  `CleanRun`, `OutcomesKept` and `FailuresReported` follow from them.

Its second part is the fixture: `FixtureCorrect` proves `FixtureSafe` for any
number of containers, and `FixtureIsSafeCorrect: MCSpec => []FixtureIsSafe` for
the sum. The property speaks of the handle `Ready` accepts, and `Ready` fails
under the quarantine; `FixtureInv` says the same of every valid descriptor of a
provisioned fixture, and that sessions left over are in a running container
under quarantine. One lemma per operation.

`HarnessProofs`, of `CommandRun`, for any number of signals:

* `ProcessesCorrect`: `ExecuteSpec => []ProcessesAccounted`. A receipt that says finished
  and contained, in memory or on disk, must be true wherever a signal or a crash
  cuts the call, so `ContainedInv` says so of both, and that no receipt claims
  anything before a process was started: the group grows only by `Launch` and by
  a process that still runs, so what is gone stays gone (`GoneStays`).

And of `BaselineSlot`, for any plan, cap, clock, variant and failures:

* `RowCorrect`: `Spec => []RowIsTrue`. The row is computed once from files and
  receipts, so `SlotInv` says how these agree before it is: the driver's receipt
  lies within the collector's clock and counts its files (`FinalInv`), the
  collector's ends the invocation and explains its exit (`CommandInv`), every file
  and every reception has its cause (`LogInv`), and every failure left a mark the
  reduction looks at (`OccurredInv`). `IntervalHolds`, `DetectionIs`, `NoReason`,
  `OnlyTheCap` and `ReceivedCounts` then derive one claim each. `LeastOf`, that a
  nonempty set of numbers has a least one, follows from the well-founded order of
  finite sets and needs no induction over an operator.

`WireHistoryProofs`, for any invocations, workers, numbers and facts:

* `HistoryCorrect`: `Spec => [](TypeOK /\ HistoryIsSound) /\ [][StepIsSound]_vars`.
  What the guard records of an invocation is spread over many maps, and
  `HistoryIsSound` relates some of them only. `OwnerInv` says who holds a worker,
  `ArrivalInv` that the arrival an invocation waits with lies beyond everything
  it was released from or answered for, `TallyInv` that it was released at
  every point but the one it waits at. One lemma per kind of message, and one
  for each thing a step must leave alone.

`ToolsProofs`, for every choice of constants:

* `GateCorrect`, and `GateEarnedCorrect: MCSpec => []GateEarned`. A step may be cut
  off anywhere, so each claim is followed back to where it was earned: which
  steps can have ended (`PhaseInv`), what was verified so far of the archive
  (`InstallInv`), what backs a status under way or written (`StatusInv`), and
  that comment, summary and gate claim what was uploaded (`ClaimInv`).
* `PilotCorrect`, and `PairsComparableCorrect: MCSpec => []PairsComparable`. The two
  trials of a block are compared only if host and order agree, which a signal
  can prevent between any two writes: `HostInv` (which snapshot is current),
  `PairInv` (what of a pair is on disk), `HitInv` (what a signal leaves) and `SealInv`.
* `PublishCorrect`, and `ReleasePublishedCorrect: MCSpec => []ReleasePublished`, for
  any number of foreign deployments listed before. A retried job looks for the
  deployment of its predecessor over pages that shrink while it reads, so
  `CountInv` bounds what a listing may hold, `IdInv` says which deployment a job
  may know, `VerifiedInv` and `AnswerInv` what it may claim, and `OneInv`, for
  uploads that die with their request, that a second upload starts only when the
  first has left nothing behind. `LateSteps` shows that the instance with late uploads
  makes the same steps and one more.
* `HistoriesSoundCorrect: MCSpec => HistoriesSound`, by the lemmas of
  `WireHistoryProofs`, instantiated for each part of the sum.

Only model-checked: every liveness property, which is beyond the prover; that the
external adapter and its peer never blame each other (`SidesAgree`), which needs
an invariant of both pipes together, and that this adapter refines its stream;
schedules and sums of times (a product or a sum
over a recursion, where induction over data is out of reach), the verdict (the
same, of a filtered sequence), the campaigns with their plans, providers and
collectors, the reductions of product slots, and the analysis.

## Not modelled, and why

* External wire codec, JSON, statement cancellation and the JDBC wrappers of the
  Java support: data of single messages. The parker, the transaction manager and
  the lease are steps in `JavaPeer`.
* Oracle evaluation and diagnostics: pure functions of one result or one trace.
* Configuration and planning of the CLI: parsing and path handling.
* Redaction, argument parsing and the demonstration of the harness; the
  publication of finished pilot results; startup measurements; the preparation of
  the control comparison; conformance records; the other scripts: straight-line
  programs without state that survives a step, checked by digests or comparisons.
* The launcher of the comparison: external; a collector sees a process with an
  outcome.
* Partly modelled: the analysis of campaigns (secondary tables and plots are left
  out), the comparison's collector (the checks of manifests and the staging of
  sources), its reduction (the printed tables) and the guard of wire vectors
  (single frames: schema and encodings).
* Docker, MySQL, the JVM, Central and the hosting provider are external and are
  modelled as far as the code sees them.
