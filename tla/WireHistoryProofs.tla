-------------------------- MODULE WireHistoryProofs --------------------------
(* Theorems about the guard of the wire protocol's histories, for any names,  *)
(* numbers and facts.                                                         *)
EXTENDS WireHistory, TLAPS

(* What the guard keeps, field by field.                                      *)
History ==
  [worker : [Inv -> Worker \cup {Nil}], active : [Worker -> Inv \cup {Nil}],
   pending : [Inv -> Arrival \cup {Nil}], outstanding : [Inv -> Arrival \cup {Nil}],
   bridges : [Inv -> Arrival \cup {Nil}],
   returned : [Inv -> (Arrival \X {"nil", "cancelled"}) \cup {Nil}],
   last : [Inv -> 0..MaxArrival], releases : [Inv -> 0..MaxArrival],
   reason : [Inv -> {"context", "stop", Nil}], cleanup : [Inv -> Facts \cup {Nil}],
   terminal : [Inv -> Bodies \cup {Nil}],
   accepted : SUBSET Inv, completed : SUBSET Inv, canceled : SUBSET Inv,
   exhausted : SUBSET Inv, sources : SUBSET Inv, begun : BOOLEAN, fatal : BOOLEAN]

(* The invocation that a worker was given last holds it until it is retired,  *)
(* and only a terminal retires one.                                           *)
OwnerInv ==
  /\ \A i \in Inv \ h.completed : h.worker[i] # Nil => h.active[h.worker[i]] = i
  /\ \A i \in h.completed : h.terminal[i] # Nil

(* The arrival an invocation waits with, and the one it announced, are behind *)
(* everything it was released from or answered for.                           *)
ArrivalInv ==
  \A i \in Inv :
    /\ h.outstanding[i] # Nil =>
         h.worker[i] # Nil /\ h.pending[i] = Nil /\ h.outstanding[i].n <= h.last[i]
    /\ h.returned[i] # Nil => h.returned[i][1].n <= h.last[i]
    /\ h.pending[i] # Nil =>
         /\ h.releases[i] < h.pending[i].n
         /\ h.returned[i] # Nil => h.returned[i][1].n < h.pending[i].n

(* An invocation that neither ended nor ran out of numbers was released at    *)
(* every point it arrived at but the one it waits at.                         *)
Awaited(i) == IF h.outstanding[i] # Nil THEN 1 ELSE 0
TallyInv ==
  \A i \in Inv :
    /\ h.releases[i] + Awaited(i) <= h.last[i]
    /\ i \notin h.exhausted =>
         /\ h.pending[i] # Nil => h.pending[i].n = h.last[i] + 1
         /\ h.terminal[i] = Nil => h.releases[i] + Awaited(i) = h.last[i]

WireInv ==
  /\ verdict \in {"open", "refused"} /\ h \in History
  /\ OwnerInv /\ ArrivalInv /\ TallyInv

-----------------------------------------------------------------------------
(* Steps that leave the bindings, the arrivals and their numbers alone.       *)

(* The part of a history that the invariant reads.                            *)
Read(g) ==
  <<g.worker, g.active, g.pending, g.outstanding, g.returned, g.last, g.releases,
    g.terminal, g.completed, g.exhausted>>

(* A step that changes none of it keeps the invariant.                        *)
LEMMA QuietKeeps ==
  ASSUME WireInv, verdict' \in {"open", "refused"}, h' \in History, Read(h') = Read(h)
  PROVE  WireInv'
<1>1. /\ h'.worker = h.worker /\ h'.active = h.active /\ h'.pending = h.pending
      /\ h'.outstanding = h.outstanding /\ h'.returned = h.returned
      /\ h'.last = h.last /\ h'.releases = h.releases
      /\ h'.terminal = h.terminal /\ h'.completed = h.completed
      /\ h'.exhausted = h.exhausted
  BY DEF Read
<1>2. OwnerInv' /\ ArrivalInv'
  BY <1>1 DEF WireInv, OwnerInv, ArrivalInv
<1>3. TallyInv'
  BY <1>1 DEF WireInv, TallyInv, Awaited
<1>4. QED
  BY <1>2, <1>3 DEF WireInv

(* A step whose checks decide and that notes nothing: a call that is turned   *)
(* away, a frame that changes no binding, an injected fault.                  *)
LEMMA CheckKeeps ==
  ASSUME WireInv,
         \/ \E w \in Worker : InvokeRejected(w)
         \/ \E b \in BOOLEAN : ReceiveReady(b) \/ ReceiveStop(b)
         \/ ReceiveStopped
         \/ \E f \in Frames :
              \/ ReceiveInvoke(f)
              \/ \E c \in Cases : Inject(c, f)
              \/ \E same, marked \in BOOLEAN : RetiredTerminal(f, same, marked)
         \/ \E injected, marked \in BOOLEAN : OutOfTurn(injected, marked)
         \/ UNCHANGED vars
  PROVE  WireInv' /\ h' = h
<1>1. verdict' \in {"open", "refused"} /\ h' = h
  BY Zenon DEF InvokeRejected, ReceiveReady, ReceiveStop, ReceiveStopped, ReceiveInvoke,
     Inject, RetiredTerminal, OutOfTurn, Judged, vars, WireInv
<1>2. QED
  BY <1>1, QuietKeeps DEF WireInv, Read

(* What a frame carries, by its type.                                         *)
LEMMA FrameFacts ==
  ASSUME NEW f \in Frames
  PROVE  /\ f.inv \in Inv /\ f.w \in Worker
         /\ f.type \in {"arrive", "release"} => f.id \in Arrival /\ f.id.w = f.w
         /\ f.type = "terminal" => f.body \in Bodies
BY DEF Frames, Frame

(* Sources, cancellations and completion facts of an invocation.              *)
LEMMA NoteKeeps ==
  ASSUME WireInv, NEW i \in Inv,
         \/ CommandException(i) \/ CancelContext(i)
         \/ \E facts \in Facts : Completion(i, facts)
  PROVE  WireInv'
<1>1. verdict' \in {"open", "refused"}
  BY DEF CommandException, CancelContext, Completion, Judged
<1>2. h' \in History /\ Read(h') = Read(h)
  <2>1. CASE h' = h
    BY <2>1 DEF WireInv
  <2>2. CASE h' = [h EXCEPT !.sources = @ \cup {i}]
    BY <2>2 DEF WireInv, History, Read
  <2>3. CASE h' = [h EXCEPT !.canceled = @ \cup {i}]
    BY <2>3 DEF WireInv, History, Read
  <2>4. ASSUME NEW facts \in Facts, h' = [h EXCEPT !.cleanup[i] = facts]
        PROVE  h' \in History /\ Read(h') = Read(h)
    BY <2>4 DEF WireInv, History, Read
  <2>5. QED
    BY <2>1, <2>2, <2>3, <2>4 DEF CommandException, CancelContext, Completion, Judged
<1>3. QED
  BY <1>1, <1>2, QuietKeeps

(* Acceptances and cancels.                                                   *)
LEMMA AnswerKeeps ==
  ASSUME WireInv, NEW f \in Frames,
         \/ ReceiveAccepted(f)
         \/ \E reason \in {"context", "stop"} : ReceiveCancel(f, reason)
  PROVE  WireInv'
<1>1. verdict' \in {"open", "refused"}
  BY DEF ReceiveAccepted, ReceiveCancel, Judged
<1>2. f.inv \in Inv
  BY FrameFacts
<1>3. h' \in History /\ Read(h') = Read(h)
  <2>1. CASE h' = h
    BY <2>1 DEF WireInv
  <2>2. CASE h' = [h EXCEPT !.accepted = @ \cup {f.inv}]
    BY <1>2, <2>2 DEF WireInv, History, Read
  <2>3. ASSUME NEW reason \in {"context", "stop"},
               h' = [h EXCEPT !.canceled = @ \cup {f.inv},
                              !.reason[f.inv] = IF @ = Nil THEN reason ELSE @]
        PROVE  h' \in History /\ Read(h') = Read(h)
    BY <1>2, <2>3, ZenonT(60) DEF WireInv, History, Read
  <2>4. QED
    BY <2>1, <2>2, <2>3 DEF ReceiveAccepted, ReceiveCancel, Judged
<1>4. QED
  BY <1>1, <1>3, QuietKeeps

(* The start of a session, and its fatal end.                                 *)
LEMMA SessionKeeps ==
  ASSUME WireInv, ReceiveStart \/ ReceiveFatal \/ InjectFatal
  PROVE  WireInv'
<1>1. verdict' \in {"open", "refused"}
  BY DEF ReceiveStart, ReceiveFatal, InjectFatal, Judged
<1>2. \/ h' = h \/ h' = [h EXCEPT !.begun = TRUE] \/ h' = [h EXCEPT !.fatal = TRUE]
  BY DEF ReceiveStart, ReceiveFatal, InjectFatal, Judged
<1>3. h' \in History /\ Read(h') = Read(h)
  <2>1. CASE h' = h
    BY <2>1 DEF WireInv
  <2>2. CASE h' = [h EXCEPT !.begun = TRUE]
    BY <2>2 DEF WireInv, History, Read
  <2>3. CASE h' = [h EXCEPT !.fatal = TRUE]
    BY <2>3 DEF WireInv, History, Read
  <2>4. QED
    BY <1>2, <2>1, <2>2, <2>3
<1>4. QED
  BY <1>1, <1>3, QuietKeeps

-----------------------------------------------------------------------------
(* Steps that bind, announce, arrive, release and end.                        *)

(* The types the steps below need.                                            *)
LEMMA HistoryFacts ==
  ASSUME h \in History
  PROVE  /\ h.worker \in [Inv -> Worker \cup {Nil}]
         /\ h.active \in [Worker -> Inv \cup {Nil}]
         /\ h.pending \in [Inv -> Arrival \cup {Nil}]
         /\ h.outstanding \in [Inv -> Arrival \cup {Nil}]
         /\ h.returned \in [Inv -> (Arrival \X {"nil", "cancelled"}) \cup {Nil}]
         /\ h.last \in [Inv -> 0..MaxArrival]
         /\ h.releases \in [Inv -> 0..MaxArrival]
         /\ h.terminal \in [Inv -> Bodies \cup {Nil}]
         /\ h.completed \subseteq Inv
BY DEF History

(* A call binds an invocation to a worker that holds none.                    *)
LEMMA CallKeeps ==
  ASSUME WireInv, NEW i \in Inv, NEW w \in Worker, InvokeCall(i, w)
  PROVE  WireInv'
<1>1. verdict' \in {"open", "refused"}
  BY DEF InvokeCall, Judged
<1>2. CASE h' = h
  BY <1>1, <1>2, QuietKeeps DEF WireInv, Read
<1>3. CASE h' = [h EXCEPT !.worker[i] = w, !.active[w] = i]
          /\ h.worker[i] = Nil /\ h.active[w] = Nil
  <2>1. /\ h' \in History
        /\ h'.worker = [h.worker EXCEPT ![i] = w]
        /\ h'.active = [h.active EXCEPT ![w] = i]
        /\ h'.pending = h.pending /\ h'.outstanding = h.outstanding
        /\ h'.returned = h.returned /\ h'.last = h.last
        /\ h'.releases = h.releases /\ h'.terminal = h.terminal
        /\ h'.completed = h.completed /\ h'.exhausted = h.exhausted
    BY <1>3 DEF WireInv, History
  <2>2. OwnerInv'
    BY <1>3, <2>1, HistoryFacts, HistoryAssumption DEF WireInv, OwnerInv
  <2>3. ArrivalInv'
    BY <2>1, HistoryFacts, HistoryAssumption DEF WireInv, ArrivalInv
  <2>4. TallyInv'
    BY <2>1 DEF WireInv, TallyInv, Awaited
  <2>5. QED
    BY <1>1, <2>1, <2>2, <2>3, <2>4 DEF WireInv
<1>4. QED
  BY <1>2, <1>3 DEF InvokeCall, Judged

(* An announced arrival has a number no earlier one had.                      *)
LEMMA AnnounceKeeps ==
  ASSUME WireInv, NEW i \in Inv, NEW a \in Arrival, WorkerArrives(i, a)
  PROVE  WireInv'
<1>1. verdict' \in {"open", "refused"}
  BY DEF WorkerArrives, Judged
<1>2. CASE h' = h
  BY <1>1, <1>2, QuietKeeps DEF WireInv, Read
<1>3. CASE h' = [h EXCEPT !.pending[i] = a]
          /\ h.outstanding[i] = Nil /\ a.n = h.last[i] + 1
  <2>1. /\ h' \in History
        /\ h'.pending = [h.pending EXCEPT ![i] = a]
        /\ h'.worker = h.worker /\ h'.active = h.active
        /\ h'.outstanding = h.outstanding
        /\ h'.returned = h.returned /\ h'.last = h.last
        /\ h'.releases = h.releases /\ h'.terminal = h.terminal
        /\ h'.completed = h.completed /\ h'.exhausted = h.exhausted
    BY <1>3, ZenonT(60) DEF WireInv, History
  <2>2. OwnerInv'
    BY <2>1 DEF WireInv, OwnerInv
  <2>3. a # Nil /\ h.last[i] \in Nat /\ h.releases[i] \in Nat
    BY HistoryFacts, HistoryAssumption DEF WireInv
  <2>4. h.releases[i] <= h.last[i]
    BY <1>3, <2>3 DEF WireInv, TallyInv, Awaited
  <2>5. \A j \in Inv : h.returned[j] # Nil => h.returned[j][1].n \in Nat
    BY HistoryFacts DEF WireInv, Arrival
  <2>6. ArrivalInv'
    BY <1>3, <2>1, <2>3, <2>4, <2>5, HistoryFacts DEF WireInv, ArrivalInv
  <2>7. TallyInv'
    BY <1>3, <2>1, <2>3, HistoryFacts DEF WireInv, TallyInv, Awaited
  <2>8. QED
    BY <1>1, <2>1, <2>2, <2>6, <2>7 DEF WireInv
<1>4. QED
  BY <1>2, <1>3 DEF WorkerArrives, Judged

(* An invocation whose numbers ran out is taken from the exact count.         *)
LEMMA ExhaustKeeps ==
  ASSUME WireInv, NEW i \in Inv, ExhaustArrivals(i)
  PROVE  WireInv'
<1>1. verdict' \in {"open", "refused"}
  BY DEF ExhaustArrivals, Judged
<1>2. CASE h' = h
  BY <1>1, <1>2, QuietKeeps DEF WireInv, Read
<1>3. CASE h' = [h EXCEPT !.last[i] = MaxArrival, !.exhausted = @ \cup {i}]
  <2>. MaxArrival \in 0..MaxArrival
    BY HistoryAssumption
  <2>1. /\ h' \in History
        /\ h'.last = [h.last EXCEPT ![i] = MaxArrival]
        /\ h'.exhausted = h.exhausted \cup {i}
        /\ h'.worker = h.worker /\ h'.active = h.active
        /\ h'.pending = h.pending /\ h'.outstanding = h.outstanding
        /\ h'.returned = h.returned
        /\ h'.releases = h.releases /\ h'.terminal = h.terminal
        /\ h'.completed = h.completed
    BY <1>3 DEF WireInv, History
  <2>2. OwnerInv'
    BY <2>1 DEF WireInv, OwnerInv
  <2>3. /\ h.last[i] \in 0..MaxArrival
        /\ h.outstanding[i] # Nil => h.outstanding[i].n \in 1..MaxArrival
        /\ h.returned[i] # Nil => h.returned[i][1].n \in 1..MaxArrival
    BY HistoryFacts DEF WireInv, Arrival
  <2>4. ArrivalInv'
    BY <2>1, <2>3, HistoryFacts, HistoryAssumption DEF WireInv, ArrivalInv
  <2>5. TallyInv'
    BY <2>1, <2>3, HistoryFacts, HistoryAssumption DEF WireInv, TallyInv, Awaited
  <2>6. QED
    BY <1>1, <2>1, <2>2, <2>4, <2>5 DEF WireInv
<1>4. QED
  BY <1>2, <1>3 DEF ExhaustArrivals, Judged

(* The call that returns is the one that waits.                               *)
LEMMA ReturnKeeps ==
  ASSUME WireInv, NEW i \in Inv, NEW a \in Arrival, NEW result \in {"nil", "cancelled"},
         RuntimeArriveReturns(i, a, result)
  PROVE  WireInv'
<1>1. verdict' \in {"open", "refused"}
  BY DEF RuntimeArriveReturns, Judged
<1>2. CASE h' = h
  BY <1>1, <1>2, QuietKeeps DEF WireInv, Read
<1>3. CASE h' = [h EXCEPT !.bridges[i] = Nil, !.returned[i] = <<a, result>>]
          /\ h.outstanding[i] = a
  <2>1. /\ h' \in History
        /\ h'.returned = [h.returned EXCEPT ![i] = <<a, result>>]
        /\ h'.worker = h.worker /\ h'.active = h.active
        /\ h'.pending = h.pending /\ h'.outstanding = h.outstanding
        /\ h'.last = h.last /\ h'.exhausted = h.exhausted
        /\ h'.releases = h.releases /\ h'.terminal = h.terminal
        /\ h'.completed = h.completed
    BY <1>3, ZenonT(60) DEF WireInv, History
  <2>2. OwnerInv' /\ TallyInv'
    BY <2>1 DEF WireInv, OwnerInv, TallyInv, Awaited
  <2>3. a # Nil /\ h.pending[i] = Nil /\ a.n <= h.last[i]
    BY <1>3, HistoryAssumption DEF WireInv, ArrivalInv
  <2>4. ArrivalInv'
    BY <2>1, <2>3, HistoryFacts DEF WireInv, ArrivalInv
  <2>5. QED
    BY <1>1, <2>1, <2>2, <2>4 DEF WireInv
<1>4. QED
  BY <1>2, <1>3 DEF RuntimeArriveReturns, Judged

(* An arrival is the announced one, and its number becomes the last.          *)
LEMMA ArriveKeeps ==
  ASSUME WireInv, NEW f \in Frames, ReceiveArrive(f)
  PROVE  WireInv'
<1> DEFINE i == f.inv
<1>1. verdict' \in {"open", "refused"}
  BY DEF ReceiveArrive, Judged
<1>2. i \in Inv /\ f.id \in Arrival /\ f.w \in Worker
  BY FrameFacts DEF ReceiveArrive
<1>3. CASE h' = h
  BY <1>1, <1>3, QuietKeeps DEF WireInv, Read
<1>4. CASE /\ h' = [h EXCEPT !.outstanding[i] = f.id, !.bridges[i] = f.id,
                             !.last[i] = f.id.n, !.pending[i] = Nil]
           /\ h.worker[i] = f.w /\ h.pending[i] = f.id /\ h.outstanding[i] = Nil
  <2>1. f.id # Nil /\ f.id.n \in 1..MaxArrival /\ h.worker[i] # Nil /\ h.releases[i] \in Nat
        /\ h.last[i] \in Nat
    BY <1>2, <1>4, HistoryFacts, HistoryAssumption DEF WireInv, Arrival
  <2>. f.id.n \in 0..MaxArrival
    BY <2>1, HistoryAssumption
  <2>2. /\ h' \in History
        /\ h'.outstanding = [h.outstanding EXCEPT ![i] = f.id]
        /\ h'.last = [h.last EXCEPT ![i] = f.id.n]
        /\ h'.pending = [h.pending EXCEPT ![i] = Nil]
        /\ h'.worker = h.worker /\ h'.active = h.active
        /\ h'.returned = h.returned /\ h'.exhausted = h.exhausted
        /\ h'.releases = h.releases /\ h'.terminal = h.terminal
        /\ h'.completed = h.completed
    BY <1>2, <1>4, <2>1, ZenonT(60) DEF WireInv, History
  <2>3. OwnerInv'
    BY <2>2 DEF WireInv, OwnerInv
  <2>4. /\ h.releases[i] < f.id.n
        /\ h.returned[i] # Nil => h.returned[i][1].n < f.id.n
        /\ h.returned[i] # Nil => h.returned[i][1].n \in Nat
    BY <1>2, <1>4, <2>1, HistoryFacts DEF WireInv, ArrivalInv, Arrival
  <2>5. ArrivalInv'
    BY <1>2, <2>1, <2>2, <2>4, HistoryFacts DEF WireInv, ArrivalInv
  <2>6. i \notin h.exhausted =>
          f.id.n = h.last[i] + 1 /\ (h.terminal[i] = Nil => h.releases[i] = h.last[i])
    BY <1>2, <1>4, <2>1 DEF WireInv, TallyInv, Awaited
  <2>7. TallyInv'
    BY <1>2, <2>1, <2>2, <2>4, <2>6, HistoryFacts DEF WireInv, TallyInv, Awaited
  <2>8. QED
    BY <1>1, <2>2, <2>3, <2>5, <2>7 DEF WireInv
<1>5. QED
  BY <1>3, <1>4 DEF ReceiveArrive, Judged, Fits, Bound

(* A release is counted for the arrival it ends.                              *)
LEMMA ReleaseKeeps ==
  ASSUME WireInv, NEW f \in Frames, ReceiveRelease(f)
  PROVE  WireInv'
<1> DEFINE i == f.inv
<1>1. verdict' \in {"open", "refused"}
  BY DEF ReceiveRelease, Judged
<1>2. i \in Inv /\ f.id \in Arrival
  BY FrameFacts DEF ReceiveRelease
<1>3. CASE h' = h
  BY <1>1, <1>3, QuietKeeps DEF WireInv, Read
<1>4. CASE /\ h' = [h EXCEPT !.outstanding[i] = Nil, !.releases[i] = @ + 1]
           /\ h.outstanding[i] = f.id
  <2>1. /\ h.outstanding[i] # Nil /\ h.pending[i] = Nil
        /\ h.releases[i] \in Nat /\ h.last[i] \in 0..MaxArrival
        /\ h.releases[i] + 1 <= h.last[i]
    BY <1>2, <1>4, HistoryFacts, HistoryAssumption
       DEF WireInv, ArrivalInv, TallyInv, Awaited
  <2>2. h.releases[i] + 1 \in 0..MaxArrival
    BY <2>1, HistoryAssumption
  <2>3. /\ h' \in History
        /\ h'.outstanding = [h.outstanding EXCEPT ![i] = Nil]
        /\ h'.releases = [h.releases EXCEPT ![i] = h.releases[i] + 1]
        /\ h'.last = h.last /\ h'.pending = h.pending
        /\ h'.worker = h.worker /\ h'.active = h.active
        /\ h'.returned = h.returned /\ h'.exhausted = h.exhausted
        /\ h'.terminal = h.terminal /\ h'.completed = h.completed
    BY <1>2, <1>4, <2>2 DEF WireInv, History
  <2>4. OwnerInv'
    BY <2>3 DEF WireInv, OwnerInv
  <2>5. ArrivalInv'
    BY <1>2, <2>1, <2>3, HistoryFacts DEF WireInv, ArrivalInv
  <2>6. TallyInv'
    BY <1>2, <2>1, <2>3, HistoryFacts DEF WireInv, TallyInv, Awaited
  <2>7. QED
    BY <1>1, <2>3, <2>4, <2>5, <2>6 DEF WireInv
<1>5. QED
  BY <1>3, <1>4 DEF ReceiveRelease, Judged, Fits

(* A terminal ends an invocation once, and retires only the holder of its     *)
(* worker.                                                                    *)
LEMMA TerminalKeeps ==
  ASSUME WireInv, NEW f \in Frames, NEW closes \in BOOLEAN, ReceiveTerminal(f, closes)
  PROVE  WireInv'
<1> DEFINE i == f.inv
<1>1. verdict' \in {"open", "refused"}
  BY DEF ReceiveTerminal, Judged
<1>2. i \in Inv /\ f.w \in Worker /\ f.body \in Bodies /\ f.body # Nil
  BY FrameFacts, HistoryAssumption DEF ReceiveTerminal
<1>3. CASE h' = h
  BY <1>1, <1>3, QuietKeeps DEF WireInv, Read
<1>4. CASE /\ h' = [h EXCEPT !.terminal[i] = f.body,
                             !.outstanding[i] = Nil,
                             !.active[f.w] = IF closes THEN Nil ELSE @,
                             !.completed = IF closes THEN @ \cup {i} ELSE @]
           /\ h.worker[i] = f.w /\ h.terminal[i] = Nil /\ h.pending[i] = Nil
  <2>1. /\ h' \in History
        /\ h'.terminal = [h.terminal EXCEPT ![i] = f.body]
        /\ h'.outstanding = [h.outstanding EXCEPT ![i] = Nil]
        /\ h'.active = [h.active EXCEPT ![f.w] = IF closes THEN Nil ELSE h.active[f.w]]
        /\ h'.completed = IF closes THEN h.completed \cup {i} ELSE h.completed
        /\ h'.releases = h.releases
        /\ h'.last = h.last /\ h'.pending = h.pending
        /\ h'.worker = h.worker
        /\ h'.returned = h.returned /\ h'.exhausted = h.exhausted
    BY <1>2, <1>4, ZenonT(60) DEF WireInv, History
  <2>2. i \notin h.completed /\ h.worker[i] # Nil
    BY <1>2, <1>4, HistoryAssumption DEF WireInv, OwnerInv
  <2>3. h.active[f.w] = i
    BY <1>2, <1>4, <2>2 DEF WireInv, OwnerInv
  <2>4. OwnerInv'
    BY <1>2, <1>4, <2>1, <2>3, HistoryFacts, HistoryAssumption DEF WireInv, OwnerInv
  <2>5. ArrivalInv'
    BY <1>2, <2>1, HistoryFacts DEF WireInv, ArrivalInv
  <2>6. TallyInv'
    BY <1>2, <2>1, HistoryFacts DEF WireInv, TallyInv, Awaited
  <2>7. QED
    BY <1>1, <2>1, <2>4, <2>5, <2>6 DEF WireInv
<1>5. QED
  BY <1>3, <1>4 DEF ReceiveTerminal, Judged, Fits, Bound, TerminalFits

-----------------------------------------------------------------------------
(* The guard.                                                                 *)

(* Nothing was seen.                                                          *)
LEMMA WireStarts ==
  ASSUME Init
  PROVE  WireInv
<1>1. verdict = "open" /\ h \in History
  BY HistoryAssumption DEF Init, History
<1>2. /\ \A i \in Inv : /\ h.worker[i] = Nil /\ h.pending[i] = Nil
                        /\ h.outstanding[i] = Nil /\ h.returned[i] = Nil
                        /\ h.last[i] = 0 /\ h.releases[i] = 0
      /\ h.completed = {}
  BY DEF Init
<1>3. QED
  BY <1>1, <1>2 DEF WireInv, OwnerInv, ArrivalInv, TallyInv, Awaited

(* Every step keeps the invariant, whatever the list of steps holds.          *)
LEMMA WireKept ==
  ASSUME WireInv, [Next]_vars
  PROVE  WireInv'
<1>1. CASE LocalStep
  BY <1>1, CheckKeeps, NoteKeeps, CallKeeps, AnnounceKeeps, ExhaustKeeps, ReturnKeeps
     DEF LocalStep
<1>2. CASE Exchange
  BY <1>2, CheckKeeps, AnswerKeeps, SessionKeeps, ArriveKeeps, ReleaseKeeps, TerminalKeeps
     DEF Exchange
<1>3. CASE Injected
  BY <1>3, CheckKeeps, SessionKeeps DEF Injected
<1>4. CASE UNCHANGED vars
  BY <1>4, CheckKeeps
<1>5. QED
  BY <1>1, <1>2, <1>3, <1>4 DEF Next

(* The fields have their types, and no two invocations hold one worker.       *)
LEMMA WireInvSafe ==
  ASSUME WireInv
  PROVE  TypeOK /\ OneLiveInvocation /\ ReleasesFit
<1>1. TypeOK
  BY DEF WireInv, History, TypeOK
<1>2. OneLiveInvocation
  BY DEF WireInv, OwnerInv, OneLiveInvocation
<1>3. ReleasesFit
  BY DEF WireInv, TallyInv, Awaited, ReleasesFit
<1>4. QED
  BY <1>1, <1>2, <1>3

(* A frame with one of these faults contradicts a binding or the numbers of   *)
(* its invocation, so its exchange is refused.                                *)
LEMMA FaultsRefused ==
  ASSUME WireInv, Cases \subseteq WireFaults
  PROVE  FaultsAreRefused
<1> SUFFICES ASSUME NEW c \in WireFaults, NEW f \in Frames, Premise(c, f), Fits(f)
             PROVE  FALSE
  BY DEF FaultsAreRefused
<1> DEFINE i == f.inv
<1>1. /\ i \in Inv /\ f.w \in Worker
      /\ f.type \in {"arrive", "release"} => f.id \in Arrival
  BY FrameFacts
<1>2. f.type = "arrive" => /\ Bound(f) /\ h.pending[i] = f.id /\ f.id # Nil
                           /\ f.id.n \in Nat
  BY <1>1, HistoryAssumption DEF Fits, Arrival
<1>3. f.type = "release" => /\ h.outstanding[i] = f.id /\ f.id # Nil
                            /\ h.worker[i] # Nil /\ f.id.n \in Nat
  BY <1>1, HistoryAssumption DEF Fits, WireInv, ArrivalInv, Arrival
<1>4. f.type # "release" => Bound(f) /\ h.worker[i] # Nil
  BY <1>1, HistoryAssumption DEF Fits, Bound
<1>5. f.type = "arrive" => h.returned[i] # <<f.id, "nil">>
  <2> SUFFICES ASSUME f.type = "arrive", h.returned[i] = <<f.id, "nil">> PROVE FALSE
    OBVIOUS
  <2>1. h.returned[i] # Nil
    BY <1>1, HistoryAssumption
  <2>2. h.returned[i][1].n < h.pending[i].n
    BY <1>1, <1>2, <2>1 DEF WireInv, ArrivalInv
  <2>3. QED
    BY <1>2, <2>2
<1>6. CASE c \in {"go_immutable_worker", "java_immutable_worker"}
  BY <1>4, <1>6 DEF Premise
<1>7. CASE c \in {"go_released_arrival_duplicate", "java_released_arrival_duplicate"}
  BY <1>3, <1>5, <1>7 DEF Premise
<1>8. CASE c = "unknown_invocation"
  BY <1>3, <1>4, <1>8 DEF Premise
<1>9. CASE c \in {"future_release", "wrong_point_release", "release_before_arrival"}
  <2>1. c = "release_before_arrival" => f.type = "release" /\ h.outstanding[i] = Nil
    BY DEF Premise
  <2>2. c = "wrong_point_release" => f.type = "release" /\ f.id.p # h.outstanding[i].p
    BY DEF Premise
  <2>3. c = "future_release" => f.type = "release" /\ f.id.n > h.outstanding[i].n
    BY DEF Premise
  <2>4. QED
    BY <1>3, <1>9, <2>1, <2>2, <2>3
<1>10. QED
  BY <1>6, <1>7, <1>8, <1>9 DEF WireFaults

-----------------------------------------------------------------------------
(* What a step may do to an end, an acceptance, an arrival and a release.     *)

Progress(g) == <<g.accepted, g.releases, g.outstanding, g.terminal>>

(* Events local to a peer exchange nothing.                                   *)
LEMMA LocalLeaves ==
  ASSUME h \in History, LocalStep
  PROVE  Progress(h') = Progress(h)
<1>1. ASSUME NEW i \in Inv, NEW w \in Worker, InvokeCall(i, w)
      PROVE  Progress(h') = Progress(h)
  BY <1>1 DEF InvokeCall, Judged, History, Progress
<1>2. ASSUME NEW i \in Inv, NEW a \in Arrival, WorkerArrives(i, a)
      PROVE  Progress(h') = Progress(h)
  BY <1>2 DEF WorkerArrives, Judged, History, Progress
<1>3. ASSUME NEW i \in Inv, NEW a \in Arrival, NEW result \in {"nil", "cancelled"},
             RuntimeArriveReturns(i, a, result)
      PROVE  Progress(h') = Progress(h)
  BY <1>3 DEF RuntimeArriveReturns, Judged, History, Progress
<1>4. ASSUME NEW i \in Inv, ExhaustArrivals(i)
      PROVE  Progress(h') = Progress(h)
  BY <1>4 DEF ExhaustArrivals, Judged, History, Progress
<1>5. ASSUME NEW i \in Inv, CommandException(i) \/ CancelContext(i)
      PROVE  Progress(h') = Progress(h)
  BY <1>5 DEF CommandException, CancelContext, Judged, History, Progress
<1>6. ASSUME NEW i \in Inv, NEW facts \in Facts, Completion(i, facts)
      PROVE  Progress(h') = Progress(h)
  BY <1>6 DEF Completion, Judged, History, Progress
<1>7. ASSUME NEW w \in Worker, InvokeRejected(w)
      PROVE  Progress(h') = Progress(h)
  BY <1>7 DEF InvokeRejected, Judged, Progress
<1>8. QED
  BY <1>1, <1>2, <1>3, <1>4, <1>5, <1>6, <1>7 DEF LocalStep

(* An injected frame changes nothing, and the fatal one only that.            *)
LEMMA InjectedLeaves ==
  ASSUME WireInv, Injected
  PROVE  Progress(h') = Progress(h)
<1>1. CASE InjectFatal
  BY <1>1 DEF WireInv, InjectFatal, Judged, History, Progress
<1>2. QED
  BY <1>1, CheckKeeps DEF Injected, Progress

(* A frame that is exchanged is not preceded by a fatal one, unless it is     *)
(* fatal or a stop itself; and only a terminal ends an invocation.            *)
LEMMA ExchangeLeaves ==
  ASSUME WireInv, Exchange
  PROVE  /\ ~ Normal => Progress(h') = Progress(h)
         /\ \/ h'.terminal = h.terminal
            \/ \E f \in Frames, closes \in BOOLEAN : ReceiveTerminal(f, closes)
<1>1. ~ Normal => h' = h \/ h' = [h EXCEPT !.fatal = TRUE]
  BY CheckKeeps DEF Exchange, ReceiveStart, ReceiveFatal, ReceiveAccepted, ReceiveArrive,
     ReceiveRelease, ReceiveCancel, ReceiveTerminal, Judged
<1>2. ~ Normal => Progress(h') = Progress(h)
  BY <1>1 DEF WireInv, History, Progress
<1>3. CASE ReceiveStart \/ ReceiveFatal
  BY <1>2, <1>3 DEF WireInv, History, ReceiveStart, ReceiveFatal, Judged
<1>4. ASSUME NEW f \in Frames, ReceiveAccepted(f) \/ ReceiveArrive(f) \/ ReceiveRelease(f)
      PROVE  h'.terminal = h.terminal
  BY <1>4 DEF WireInv, History, ReceiveAccepted, ReceiveArrive, ReceiveRelease, Judged
<1>5. ASSUME NEW f \in Frames, NEW reason \in {"context", "stop"}, ReceiveCancel(f, reason)
      PROVE  h'.terminal = h.terminal
  BY <1>5 DEF WireInv, History, ReceiveCancel, Judged
<1>6. QED
  BY <1>2, <1>3, <1>4, <1>5, CheckKeeps DEF Exchange

(* An accepted terminal without a cancel leaves no arrival unreleased.        *)
LEMMA TerminalReleases ==
  ASSUME WireInv, NEW f \in Frames, NEW closes \in BOOLEAN, ReceiveTerminal(f, closes)
  PROVE  EndsReleased
<1> SUFFICES ASSUME NEW i \in Inv, h.terminal[i] # h'.terminal[i], h.reason[i] = Nil,
                    i \notin h.exhausted
             PROVE  h.releases[i] = h.last[i]
  BY DEF EndsReleased
<1>1. h' # h
  OBVIOUS
<1>2. h' = [h EXCEPT !.terminal[f.inv] = f.body,
                     !.outstanding[f.inv] = Nil,
                     !.active[f.w] = IF closes THEN Nil ELSE @,
                     !.completed = IF closes THEN @ \cup {f.inv} ELSE @]
  BY <1>1 DEF ReceiveTerminal, Judged
<1>3. f.inv = i
  BY <1>2 DEF WireInv, History
<1>4. h.terminal[i] = Nil /\ h.outstanding[i] = Nil
  BY <1>1, <1>3 DEF ReceiveTerminal, Judged, Fits, TerminalFits
<1>5. h.releases[i] \in Nat
  BY HistoryFacts DEF WireInv
<1>6. QED
  BY <1>4, <1>5 DEF WireInv, TallyInv, Awaited

(* Both properties of a step.                                                 *)
LEMMA WireSteps ==
  ASSUME WireInv, [Next]_vars
  PROVE  StepIsSound
<1>1. CASE LocalStep \/ Injected
  <2>1. Progress(h') = Progress(h)
    BY <1>1, LocalLeaves, InjectedLeaves DEF WireInv
  <2>2. QED
    BY <2>1 DEF Progress, StepIsSound, EndsReleased, FatalIsPermanent
<1>2. CASE Exchange
  <2>1. FatalIsPermanent
    BY <1>2, ExchangeLeaves DEF Normal, Progress, FatalIsPermanent
  <2>2. EndsReleased
    BY <1>2, ExchangeLeaves, TerminalReleases DEF EndsReleased
  <2>3. QED
    BY <2>1, <2>2 DEF StepIsSound
<1>3. CASE UNCHANGED vars
  BY <1>3 DEF vars, StepIsSound, EndsReleased, FatalIsPermanent
<1>4. QED
  BY <1>1, <1>2, <1>3 DEF Next

(* In every history the guard accepts, a worker has one open invocation,      *)
(* every release answers an arrival of its own, and no frame with one of the  *)
(* faults passes as an exchange; an invocation that ends without a cancel was *)
(* released wherever it arrived, and nothing is exchanged behind a fatal      *)
(* frame.                                                                     *)
THEOREM HistoryCorrect ==
  ASSUME Cases \subseteq WireFaults
  PROVE  Spec => [](TypeOK /\ HistoryIsSound) /\ [][StepIsSound]_vars
<1>1. Init => WireInv
  BY WireStarts
<1>2. WireInv /\ [Next]_vars => WireInv'
  BY WireKept
<1>3. WireInv => TypeOK /\ HistoryIsSound
  BY WireInvSafe, FaultsRefused DEF HistoryIsSound
<1>4. WireInv /\ [Next]_vars => [StepIsSound]_vars
  BY WireSteps
<1>5. QED
  BY <1>1, <1>2, <1>3, <1>4, PTL DEF Spec
==============================================================================
