----------------------------- MODULE WireHistory -----------------------------
(***************************************************************************)
(* The guard that lints the constructed histories of the external wire     *)
(* protocol (scripts/check-external-sut-vectors.py, function history).  A  *)
(* history is a list of steps: events local to one peer, frames exchanged  *)
(* by compliant peers, and invalid frames injected into a receiver.  The   *)
(* guard walks the list, keeps what it has seen in the record h, and       *)
(* refuses the whole file at the first step that does not fit.             *)
(*                                                                         *)
(* Any list of steps is a possible input, so every step is offered in      *)
(* every state: the open states are those some accepted history reaches.   *)
(*                                                                         *)
(* Abstracted: a command is not told apart; the numbers of frames are (in  *)
(* order, repeated, or out of order); effect labels are kept only where a  *)
(* check of the lifecycle reads them; both peers are targets of the case.  *)
(* releases is not in the code: it counts the release frames a history     *)
(* exchanged.                                                              *)
(***************************************************************************)
EXTENDS Naturals, FiniteSets

CONSTANTS
  Inv, Worker,        \* invocation and worker names
  Points,             \* the points the start frame registers
  Missing,            \* a point it does not
  MaxArrival,         \* the last arrival number (100000 in the code)
  Capacity,           \* how many invocations the start frame allows
  Facts,              \* the completion facts a local event may report
  Errors,             \* the errors a terminal may report
  Cases,              \* the injected faults considered, by the id of their case
  Nil

Arrival == [w : Worker, p : Points \cup {Missing}, n : 1..MaxArrival]

\* What frame_shape lets a terminal frame report.
Bodies ==
  {b \in [transaction : {"committed", "rolled_back", "not_started"},
          lease : {"returned", "not_acquired"}, error : Errors] :
     /\ b.lease = "not_acquired" => b.transaction = "not_started"
     /\ b.error = "nil" => b.transaction = "committed" /\ b.lease = "returned"}

ASSUME HistoryAssumption ==
  /\ MaxArrival \in Nat \ {0}
  /\ Capacity \in Nat \ {0}
  /\ Missing \notin Points
  /\ Errors \subseteq {"nil", "context", "stop", "failed"}
  /\ Nil \notin Inv \cup Worker
  /\ Nil \notin Arrival /\ Nil \notin Arrival \X {"nil", "cancelled"} /\ Nil \notin Bodies

VARIABLES
  verdict,            \* "open", or "refused" once a check failed
  h                   \* what the guard has seen

vars == <<verdict, h>>

Frame(types, ids, bodies) ==
  [type : types, inv : Inv, w : Worker, id : ids, body : bodies]
Frames ==
  Frame({"invoke", "accepted", "cancel"}, {Nil}, {Nil})
    \cup {f \in Frame({"arrive", "release"}, Arrival, {Nil}) : f.id.w = f.w}
    \cup Frame({"terminal"}, {Nil}, Bodies)

TypeOK ==
  /\ verdict \in {"open", "refused"}
  /\ h.worker \in [Inv -> Worker \cup {Nil}]
  /\ h.active \in [Worker -> Inv \cup {Nil}]
  /\ \A g \in {h.pending, h.outstanding, h.bridges} : g \in [Inv -> Arrival \cup {Nil}]
  /\ h.returned \in [Inv -> (Arrival \X {"nil", "cancelled"}) \cup {Nil}]
  /\ h.last \in [Inv -> 0..MaxArrival]
  /\ h.releases \in [Inv -> 0..MaxArrival]
  /\ h.reason \in [Inv -> {"context", "stop", Nil}]
  /\ h.cleanup \in [Inv -> Facts \cup {Nil}]
  /\ h.terminal \in [Inv -> Bodies \cup {Nil}]
  /\ \A s \in {h.accepted, h.completed, h.canceled, h.exhausted, h.sources} : s \subseteq Inv
  /\ {h.begun, h.fatal} \subseteq BOOLEAN

Init ==
  LET none == [i \in Inv |-> Nil] IN
  /\ verdict = "open"
  /\ h = [worker |-> none, active |-> [w \in Worker |-> Nil],
          pending |-> none, outstanding |-> none, bridges |-> none, returned |-> none,
          last |-> [i \in Inv |-> 0], releases |-> [i \in Inv |-> 0],
          reason |-> none, cleanup |-> none, terminal |-> none,
          accepted |-> {}, completed |-> {}, canceled |-> {}, exhausted |-> {},
          sources |-> {}, begun |-> FALSE, fatal |-> FALSE]

\* A step is taken when its checks hold; otherwise the file is refused.
Judged(fits, after) ==
  /\ verdict = "open"
  /\ verdict' = IF fits THEN "open" ELSE "refused"
  /\ h' = IF fits THEN after ELSE h

-----------------------------------------------------------------------------
(* Events local to a peer.                                                  *)

InvokeCall(i, w) ==
  Judged(h.worker[i] = Nil /\ h.active[w] = Nil,
         [h EXCEPT !.worker[i] = w, !.active[w] = i])

InvokeRejected(w) ==
  Judged(/\ h.begun
         /\ h.active[w] = Nil
         /\ Cardinality({v \in Worker : h.active[v] # Nil}) >= Capacity, h)

WorkerArrives(i, a) ==
  Judged(/\ h.worker[i] = a.w
         /\ h.outstanding[i] = Nil /\ h.pending[i] = Nil
         /\ a.n = h.last[i] + 1,
         [h EXCEPT !.pending[i] = a])

ExhaustArrivals(i) ==
  Judged(h.worker[i] # Nil,
         [h EXCEPT !.last[i] = MaxArrival, !.exhausted = @ \cup {i}])

CommandException(i) == Judged(TRUE, [h EXCEPT !.sources = @ \cup {i}])

CancelContext(i) == Judged(h.worker[i] # Nil, [h EXCEPT !.canceled = @ \cup {i}])

RuntimeArriveReturns(i, a, result) ==
  Judged(h.outstanding[i] = a /\ h.bridges[i] = a,
         [h EXCEPT !.bridges[i] = Nil, !.returned[i] = <<a, result>>])

Completion(i, facts) == Judged(i \in h.accepted, [h EXCEPT !.cleanup[i] = facts])

-----------------------------------------------------------------------------
(* Frames exchanged by compliant peers.                                     *)

Bound(f) == h.worker[f.inv] = f.w

\* Fault: the context of the invocation being canceled excuses an outstanding
\* arrival, though no cancel frame was sent.
TerminalFits_Canceled(i, b) ==
  LET facts == h.cleanup[i] IN
  /\ i \in h.accepted /\ h.terminal[i] = Nil
  /\ h.bridges[i] = Nil /\ h.pending[i] = Nil
  /\ h.outstanding[i] # Nil => i \in h.canceled
  /\ facts # Nil
  /\ facts.transaction = b.transaction /\ facts.lease = b.lease
  /\ b.transaction = "not_started" \/ facts.exited
  /\ b.error \in {"context", "stop"} => h.reason[i] = b.error
  /\ b.error = "failed" => i \in h.sources

TerminalFits(i, b) ==
  LET facts == h.cleanup[i] IN
  /\ i \in h.accepted /\ h.terminal[i] = Nil
  /\ h.bridges[i] = Nil /\ h.pending[i] = Nil
  /\ h.outstanding[i] # Nil => h.reason[i] # Nil
  /\ facts # Nil
  /\ facts.transaction = b.transaction /\ facts.lease = b.lease
  /\ b.transaction = "not_started" \/ facts.exited
  /\ b.error \in {"context", "stop"} => h.reason[i] = b.error
  /\ b.error = "failed" => i \in h.sources

\* The checks of one exchanged frame, by its type.
Fits(f) ==
  LET i == f.inv IN
  \/ f.type \in {"invoke", "cancel"} /\ Bound(f)
  \/ f.type = "accepted" /\ Bound(f) /\ i \notin h.accepted
  \/ /\ f.type = "arrive" /\ Bound(f)
     /\ h.pending[i] = f.id /\ h.outstanding[i] = Nil
     /\ i \in h.accepted
  \/ f.type = "release" /\ h.outstanding[i] = f.id /\ h.returned[i] = <<f.id, "nil">>
  \/ f.type = "terminal" /\ Bound(f) /\ TerminalFits(i, f.body)

\* No frame but another fatal, or a stop that expects no answer, follows a fatal.
Normal == ~h.fatal

ReceiveStart == Judged(Normal, [h EXCEPT !.begun = TRUE])
ReceiveReady(matches) == Judged(Normal /\ (h.begun => matches), h)
ReceiveStop(unanswered) == Judged(Normal \/ unanswered, h)
ReceiveStopped == Judged(Normal, h)
ReceiveFatal == Judged(TRUE, [h EXCEPT !.fatal = TRUE])

ReceiveInvoke(f) == f.type = "invoke" /\ Judged(Normal /\ Fits(f), h)

ReceiveAccepted(f) ==
  /\ f.type = "accepted"
  /\ Judged(Normal /\ Fits(f), [h EXCEPT !.accepted = @ \cup {f.inv}])

ReceiveArrive(f) ==
  LET i == f.inv IN
  /\ f.type = "arrive"
  /\ Judged(Normal /\ Fits(f),
            [h EXCEPT !.outstanding[i] = f.id, !.bridges[i] = f.id,
                      !.last[i] = f.id.n, !.pending[i] = Nil])

ReceiveRelease(f) ==
  /\ f.type = "release"
  /\ Judged(Normal /\ Fits(f),
            [h EXCEPT !.outstanding[f.inv] = Nil, !.releases[f.inv] = @ + 1])

ReceiveCancel(f, reason) ==
  /\ f.type = "cancel"
  /\ Judged(Normal /\ Fits(f),
            [h EXCEPT !.canceled = @ \cup {f.inv},
                      !.reason[f.inv] = IF @ = Nil THEN reason ELSE @])

\* closes: the step declares the effect close_result_channel, which retires
\* the invocation and frees its worker.
ReceiveTerminal(f, closes) ==
  LET i == f.inv IN
  /\ f.type = "terminal"
  /\ Judged(Normal /\ Fits(f),
            [h EXCEPT !.terminal[i] = f.body,
                      !.outstanding[i] = Nil,
                      !.active[f.w] = IF closes THEN Nil ELSE @,
                      !.completed = IF closes THEN @ \cup {i} ELSE @])

-----------------------------------------------------------------------------
(* Frames injected into a receiver: each case declares one fault, and its   *)
(* frame must meet the premise of that fault.  It changes nothing.          *)

Premise(c, f) ==
  LET i == f.inv
      current == h.outstanding[i]
      arrives == f.type = "arrive"
      releases == f.type = "release"
      open == h.worker[i] # Nil /\ i \notin h.completed /\ current = Nil
      next == f.id.n = h.last[i] + 1
      like(fields) == current # Nil /\ \A k \in fields : f.id[k] = current[k]
  IN
  CASE c = "go_unknown_point" -> arrives /\ open /\ Bound(f) /\ next /\ f.id.p = Missing
    [] c = "go_immutable_worker" ->
         arrives /\ open /\ ~Bound(f) /\ h.begun /\ f.id.p \in Points /\ next
    [] c = "go_arrival_sequence_exhausted" ->
         /\ arrives /\ open /\ Bound(f) /\ h.begun /\ f.id.p \in Points
         /\ i \in h.exhausted /\ f.id.n = MaxArrival
    [] c = "go_released_arrival_duplicate" ->
         arrives /\ current = Nil /\ h.returned[i] = <<f.id, "nil">>
    [] c = "java_released_arrival_duplicate" ->
         releases /\ current = Nil /\ h.returned[i] = <<f.id, "nil">>
    [] c = "java_immutable_worker" ->
         f.type = "cancel" /\ h.worker[i] # Nil /\ ~Bound(f)
    [] c = "java_retired_cancel" -> f.type = "cancel" /\ i \in h.completed /\ Bound(f)
    [] c = "semantic_duplicate_invoke" -> f.type = "invoke" /\ Bound(f)
    [] c = "cancel_racing_release" -> releases /\ i \in h.canceled /\ current = f.id
    [] c = "late_arrival_after_cancel" -> arrives /\ i \in h.canceled /\ Bound(f)
    [] c = "retired_invocation_worker_reuse" ->
         (arrives \/ releases) /\ i \in h.completed /\ Bound(f)
    [] c = "unknown_invocation" -> h.worker[i] = Nil
    [] c = "future_release" -> releases /\ like({"w", "p"}) /\ f.id.n > current.n
    [] c = "wrong_point_release" -> releases /\ like({"w", "n"}) /\ f.id.p # current.p
    [] c = "release_before_arrival" -> releases /\ Bound(f) /\ current = Nil
    [] c = "terminal_while_arrived" -> f.type = "terminal" /\ current # Nil /\ Bound(f)

\* A terminal of a retired invocation is a case of its own: identical to the
\* first one and consumed, or different and fatal.
RetiredTerminal(f, identical, marked) ==
  /\ f.type = "terminal" /\ f.inv \in h.completed
  /\ Judged(Normal /\ (f.body = h.terminal[f.inv]) = identical /\ marked, h)

Inject(c, f) ==
  /\ ~(f.type = "terminal" /\ f.inv \in h.completed)
  /\ Judged(Normal /\ Premise(c, f), h)

\* The fault of case fatal_after_terminals: it does latch the fatal state.
InjectFatal ==
  Judged(/\ \E i \in Inv : h.worker[i] # Nil
         /\ \A i \in Inv : h.worker[i] # Nil => i \in h.completed,
         [h EXCEPT !.fatal = TRUE])

\* A frame out of order, of another session or another version must be an
\* injected one, and marked with the effect the receiver owes it.
OutOfTurn(injected, marked) == Judged(injected /\ marked, h)

LocalStep ==
  \/ \E i \in Inv :
       \/ \E w \in Worker : InvokeCall(i, w)
       \/ \E a \in Arrival :
            \/ WorkerArrives(i, a)
            \/ \E result \in {"nil", "cancelled"} : RuntimeArriveReturns(i, a, result)
       \/ ExhaustArrivals(i) \/ CommandException(i) \/ CancelContext(i)
       \/ \E facts \in Facts : Completion(i, facts)
  \/ \E w \in Worker : InvokeRejected(w)

Exchange ==
  \/ ReceiveStart \/ ReceiveStopped \/ ReceiveFatal
  \/ \E b \in BOOLEAN : ReceiveReady(b) \/ ReceiveStop(b)
  \/ \E f \in Frames :
       \/ ReceiveInvoke(f) \/ ReceiveAccepted(f) \/ ReceiveArrive(f) \/ ReceiveRelease(f)
       \/ \E reason \in {"context", "stop"} : ReceiveCancel(f, reason)
       \/ \E closes \in BOOLEAN : ReceiveTerminal(f, closes)

Injected ==
  \/ \E f \in Frames :
       \/ \E c \in Cases : Inject(c, f)
       \/ \E same, marked \in BOOLEAN : RetiredTerminal(f, same, marked)
  \/ InjectFatal
  \/ \E injected, marked \in BOOLEAN : OutOfTurn(injected, marked)

Next == LocalStep \/ Exchange \/ Injected

Spec == Init /\ [][Next]_vars

-----------------------------------------------------------------------------
\* The bindings hold together: no accepted history has two unretired
\* invocations on one worker, whatever arrivals, cancels and terminals came
\* between the two calls.
OneLiveInvocation ==
  \A i, j \in Inv \ h.completed :
    i # j /\ h.worker[i] # Nil => h.worker[i] # h.worker[j]

\* Every release answers an arrival of its own: at no time has an invocation
\* been released more often than it arrived, and the arrival still awaiting
\* its release is not yet counted.
ReleasesFit ==
  \A i \in Inv :
    h.releases[i] + (IF h.outstanding[i] # Nil THEN 1 ELSE 0) <= h.last[i]

\* An invocation that ends without a cancel frame was released at every point
\* it arrived at: its terminal cannot hide a worker still parked at a gate.
EndsReleased ==
  \A i \in Inv :
    h.terminal[i] # h'.terminal[i] /\ h.reason[i] = Nil /\ i \notin h.exhausted
      => h.releases[i] = h.last[i]

\* A fatal frame is permanent: afterwards no history exchanges an acceptance,
\* an arrival, a release or a terminal.
FatalIsPermanent ==
  h.fatal => /\ h'.accepted = h.accepted /\ h'.releases = h.releases
             /\ h'.outstanding = h.outstanding /\ h'.terminal = h.terminal

\* The faults no compliant peer may send: a frame of another case may also be one that
\* compliant peers exchange in the same place.
WireFaults ==
  {"go_immutable_worker", "java_immutable_worker",
   "go_released_arrival_duplicate", "java_released_arrival_duplicate",
   "unknown_invocation", "future_release", "wrong_point_release",
   "release_before_arrival"}

\* An invalid input cannot also be a compliant output: what meets the premise
\* of an injected fault, the guard refuses as an exchange in the same place.
FaultsAreRefused ==
  Normal => \A c \in Cases, f \in Frames : Premise(c, f) => ~Fits(f)

\* The guard admits no history the protocol forbids, in any state and at any step.
HistoryIsSound == OneLiveInvocation /\ ReleasesFit /\ FaultsAreRefused
StepIsSound == EndsReleased /\ FatalIsPermanent
=============================================================================
