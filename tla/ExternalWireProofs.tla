-------------------------- MODULE ExternalWireProofs --------------------------
(* Theorems about the external adapter and the Java peer, alone and over     *)
(* their pipes, for any invocations, workers, capacity and queue.            *)
EXTENDS ExternalWire, SequenceTheorems, FiniteSetTheorems, TLAPS

-----------------------------------------------------------------------------
(* Pipes.                                                                    *)

(* What is in a pipe, what precedes what, and what is in it once at most.    *)
In(S) == {S[n] : n \in 1 .. Len(S)}
Before(S, A, B) == \A m, n \in 1 .. Len(S) : S[m] \in A /\ S[n] \in B => m < n
Once(S, A) == \A m, n \in 1 .. Len(S) : S[m] \in A /\ S[n] \in A => m = n

(* A frame is added at the end.                                              *)
LEMMA PipeAppend ==
  ASSUME NEW X, NEW S \in Seq(X), NEW f \in X
  PROVE  /\ Append(S, f) \in Seq(X) /\ In(Append(S, f)) = In(S) \cup {f}
         /\ In(S) \subseteq X /\ Append(S, f) # <<>>
         /\ \A A, B : Before(S, A, B) /\ (f \in A => f \notin B /\ In(S) \cap B = {}) =>
              Before(Append(S, f), A, B)
         /\ \A A : Once(S, A) /\ (f \in A => In(S) \cap A = {}) => Once(Append(S, f), A)
<1> DEFINE s == Append(S, f)
<1>1. /\ s \in Seq(X) /\ Len(s) = Len(S) + 1 /\ Len(S) \in Nat
      /\ \A n \in 1 .. Len(S) : s[n] = S[n] /\ S[n] \in X
      /\ s[Len(s)] = f
  BY AppendProperties, ElementOfSeq, LenProperties
<1>2. 1 .. Len(s) = (1 .. Len(S)) \cup {Len(s)}
  BY <1>1
<1> HIDE DEF s
<1>3. In(s) = In(S) \cup {f} /\ In(S) \subseteq X /\ s # <<>>
  BY <1>1, <1>2 DEF In
<1>4. ASSUME NEW A, NEW B, Before(S, A, B), f \in A => f \notin B /\ In(S) \cap B = {}
      PROVE  Before(s, A, B)
  <2> SUFFICES ASSUME NEW m \in 1 .. Len(s), NEW n \in 1 .. Len(s), s[m] \in A, s[n] \in B
               PROVE  m < n
    BY DEF Before
  <2>1. CASE m = Len(s)
    <3>1. f \in A
      BY <1>1, <2>1
    <3>2. CASE n = Len(s)
      BY <1>1, <1>4, <3>1, <3>2
    <3>3. CASE n \in 1 .. Len(S)
      BY <1>1, <1>4, <3>1, <3>3 DEF In
    <3> QED
      BY <1>2, <3>2, <3>3
  <2>2. CASE m \in 1 .. Len(S)
    BY <1>1, <1>2, <1>4, <2>2 DEF Before
  <2> QED
    BY <1>2, <2>1, <2>2
<1>5. ASSUME NEW A, Once(S, A), f \in A => In(S) \cap A = {}
      PROVE  Once(s, A)
  <2> SUFFICES ASSUME NEW m \in 1 .. Len(s), NEW n \in 1 .. Len(s), s[m] \in A, s[n] \in A
               PROVE  m = n
    BY DEF Once
  <2>1. \A k \in 1 .. Len(S) : f \in A => s[k] \notin A
    BY <1>1, <1>5 DEF In
  <2> QED
    BY <1>1, <1>2, <1>5, <2>1 DEF Once
<1> QED
  BY <1>1, <1>3, <1>4, <1>5 DEF s

(* The first frame is taken.                                                 *)
LEMMA PipeTail ==
  ASSUME NEW X, NEW S \in Seq(X), S # <<>>
  PROVE  /\ Tail(S) \in Seq(X) /\ Head(S) \in X /\ In(S) = {Head(S)} \cup In(Tail(S))
         /\ \A A, B : Before(S, A, B) =>
              /\ Before(Tail(S), A, B)
              /\ Head(S) \in B => In(S) \cap A = {}
         /\ \A A : Once(S, A) =>
              /\ Once(Tail(S), A)
              /\ Head(S) \in A => In(Tail(S)) \cap A = {}
<1> DEFINE t == Tail(S)
           h == Head(S)
<1>1. /\ t \in Seq(X) /\ h \in X /\ h = S[1] /\ Len(S) \in Nat \ {0} /\ Len(t) = Len(S) - 1
      /\ \A n \in 1 .. Len(t) : n + 1 \in 1 .. Len(S) /\ t[n] = S[n + 1]
  BY HeadTailProperties, LenProperties, EmptySeq
<1>2. \A n \in 1 .. Len(S) : n = 1 \/ (n - 1 \in 1 .. Len(t) /\ t[n - 1] = S[n])
  BY <1>1
<1> HIDE DEF t, h
<1>3. In(S) = {h} \cup In(t)
  <2>1. In(S) \subseteq {h} \cup In(t)
    BY <1>1, <1>2 DEF In
  <2>2. {h} \cup In(t) \subseteq In(S)
    BY <1>1 DEF In
  <2> QED
    BY <2>1, <2>2
<1>4. ASSUME NEW A, NEW B, Before(S, A, B)
      PROVE  Before(t, A, B) /\ (h \in B => In(S) \cap A = {})
  <2>1. Before(t, A, B)
    <3> SUFFICES ASSUME NEW m \in 1 .. Len(t), NEW n \in 1 .. Len(t), t[m] \in A, t[n] \in B
                 PROVE  m < n
      BY DEF Before
    <3>1. m + 1 < n + 1
      BY <1>1, <1>4 DEF Before
    <3> QED
      BY <3>1
  <2>2. h \in B => In(S) \cap A = {}
    BY <1>1, <1>4 DEF Before, In
  <2> QED
    BY <2>1, <2>2
<1>5. ASSUME NEW A, Once(S, A)
      PROVE  Once(t, A) /\ (h \in A => In(t) \cap A = {})
  <2>1. Once(t, A)
    BY <1>1, <1>5 DEF Once
  <2>2. ASSUME h \in A, NEW n \in 1 .. Len(t), t[n] \in A PROVE FALSE
    BY <1>1, <1>5, <2>2 DEF Once
  <2> QED
    BY <2>1, <2>2 DEF In
<1> QED
  BY <1>1, <1>3, <1>4, <1>5 DEF t, h

(* Two pipes, one behind the other.                                          *)
LEMMA PipeConcat ==
  ASSUME NEW X, NEW S \in Seq(X), NEW Q \in Seq(X)
  PROVE  /\ S \o Q \in Seq(X) /\ In(S \o Q) = In(S) \cup In(Q)
         /\ \A A, B : Before(S \o Q, A, B) =>
              /\ Before(S, A, B) /\ Before(Q, A, B)
              /\ In(S) \cap B # {} => In(Q) \cap A = {}
         /\ \A A : Once(S \o Q, A) =>
              /\ Once(S, A) /\ Once(Q, A)
              /\ In(S) \cap A = {} \/ In(Q) \cap A = {}
<1> DEFINE s == S \o Q
<1>1. /\ s \in Seq(X) /\ Len(s) = Len(S) + Len(Q) /\ Len(S) \in Nat /\ Len(Q) \in Nat
      /\ \A n \in 1 .. Len(S) : n \in 1 .. Len(s) /\ s[n] = S[n]
      /\ \A n \in 1 .. Len(Q) : Len(S) + n \in 1 .. Len(s) /\ s[Len(S) + n] = Q[n]
      /\ \A n \in 1 .. Len(s) : n \in 1 .. Len(S) \/ n - Len(S) \in 1 .. Len(Q)
  BY ConcatProperties, LenProperties
<1>2. \A n \in 1 .. Len(s) :
        n \notin 1 .. Len(S) => n - Len(S) \in 1 .. Len(Q) /\ s[n] = Q[n - Len(S)]
  BY <1>1
<1> HIDE DEF s
<1>3. In(s) = In(S) \cup In(Q)
  <2>1. In(s) \subseteq In(S) \cup In(Q)
    BY <1>1, <1>2 DEF In
  <2>2. In(S) \cup In(Q) \subseteq In(s)
    BY <1>1 DEF In
  <2> QED
    BY <2>1, <2>2
<1>4. ASSUME NEW A, NEW B, Before(s, A, B)
      PROVE  /\ Before(S, A, B) /\ Before(Q, A, B)
             /\ In(S) \cap B # {} => In(Q) \cap A = {}
  <2>1. Before(S, A, B)
    BY <1>1, <1>4 DEF Before
  <2>2. Before(Q, A, B)
    <3> SUFFICES ASSUME NEW m \in 1 .. Len(Q), NEW n \in 1 .. Len(Q), Q[m] \in A, Q[n] \in B
                 PROVE  m < n
      BY DEF Before
    <3>1. Len(S) + m < Len(S) + n
      BY <1>1, <1>4 DEF Before
    <3> QED
      BY <1>1, <3>1
  <2>3. In(S) \cap B # {} => In(Q) \cap A = {}
    <3> SUFFICES ASSUME NEW m \in 1 .. Len(S), S[m] \in B, NEW n \in 1 .. Len(Q), Q[n] \in A
                 PROVE  FALSE
      BY DEF In
    <3> QED
      BY <1>1, <1>4 DEF Before
  <2> QED
    BY <2>1, <2>2, <2>3
<1>5. ASSUME NEW A, Once(s, A)
      PROVE  /\ Once(S, A) /\ Once(Q, A)
             /\ In(S) \cap A = {} \/ In(Q) \cap A = {}
  <2>1. Once(S, A)
    BY <1>1, <1>5 DEF Once
  <2>2. Once(Q, A)
    <3> SUFFICES ASSUME NEW m \in 1 .. Len(Q), NEW n \in 1 .. Len(Q), Q[m] \in A, Q[n] \in A
                 PROVE  m = n
      BY DEF Once
    <3>1. Len(S) + m = Len(S) + n
      BY <1>1, <1>5 DEF Once
    <3> QED
      BY <1>1, <3>1
  <2>3. In(S) \cap A = {} \/ In(Q) \cap A = {}
    <3> SUFFICES ASSUME NEW m \in 1 .. Len(S), S[m] \in A, NEW n \in 1 .. Len(Q), Q[n] \in A
                 PROVE  FALSE
      BY DEF In
    <3> QED
      BY <1>1, <1>5 DEF Once
  <2> QED
    BY <2>1, <2>2, <2>3
<1> QED
  BY <1>1, <1>3, <1>4, <1>5 DEF s

(* The end of a pipe is lost.                                                *)
LEMMA PipePrefix ==
  ASSUME NEW X, NEW S \in Seq(X), NEW k \in 0 .. Len(S)
  PROVE  LET s == SubSeq(S, 1, k) IN
         /\ s \in Seq(X) /\ In(s) \subseteq In(S) /\ Len(s) = k
         /\ \A n \in 1 .. k : s[n] = S[n]
         /\ \A A, B : Before(S, A, B) =>
              /\ Before(s, A, B)
              /\ In(s) \cap B # {} => In(S) \cap A \subseteq In(s)
         /\ \A A : Once(S, A) => Once(s, A)
<1> DEFINE s == SubSeq(S, 1, k)
<1>1. /\ s \in Seq(X) /\ Len(s) = k /\ Len(S) \in Nat
      /\ \A n \in 1 .. k : n \in 1 .. Len(S) /\ s[n] = S[n]
  BY SubSeqProperties, LenProperties, ElementOfSeq
<1> HIDE DEF s
<1>2. In(s) \subseteq In(S)
  BY <1>1 DEF In
<1>3. ASSUME NEW A, NEW B, Before(S, A, B)
      PROVE  Before(s, A, B) /\ (In(s) \cap B # {} => In(S) \cap A \subseteq In(s))
  <2>1. Before(s, A, B)
    BY <1>1, <1>3 DEF Before
  <2>2. ASSUME NEW n \in 1 .. k, s[n] \in B, NEW m \in 1 .. Len(S), S[m] \in A
        PROVE  S[m] \in In(s)
    <3>1. m < n
      BY <1>1, <1>3, <2>2 DEF Before
    <3> QED
      BY <1>1, <3>1 DEF In
  <2> QED
    BY <1>1, <2>1, <2>2 DEF In
<1>4. ASSUME NEW A, Once(S, A) PROVE Once(s, A)
  BY <1>1, <1>4 DEF Once
<1> QED
  BY <1>1, <1>2, <1>3, <1>4 DEF s

(* A frame that is queued, and one that goes from the queue into the pipe.   *)
LEMMA PipeMoves ==
  ASSUME NEW X, NEW S \in Seq(X), NEW Q \in Seq(X)
  PROVE  /\ \A f \in X : S \o Append(Q, f) = Append(S \o Q, f)
         /\ Q # <<>> => Append(S, Head(Q)) \o Tail(Q) = S \o Q
         /\ S # <<>> => Tail(S) \o Q = Tail(S \o Q) /\ Head(S \o Q) = Head(S) /\ S \o Q # <<>>
         /\ <<>> \o Q = Q /\ S \o <<>> = S /\ In(<<>>) = {}
<1>1. ASSUME NEW f \in X PROVE S \o Append(Q, f) = Append(S \o Q, f)
  OBVIOUS
<1>2. Q # <<>> => Append(S, Head(Q)) \o Tail(Q) = S \o Q
  OBVIOUS
<1>3. S # <<>> => Tail(S) \o Q = Tail(S \o Q) /\ Head(S \o Q) = Head(S) /\ S \o Q # <<>>
  OBVIOUS
<1>4. <<>> \o Q = Q /\ S \o <<>> = S /\ In(<<>>) = {}
  BY ConcatEmptySeq DEF In
<1> QED
  BY <1>1, <1>2, <1>3, <1>4

(* Something is done for the members of a finite set, one after the other,   *)
(* in an order that names the last of every subset.                          *)
Walkable(S, Good, M, h, last) ==
  /\ IsFiniteSet(S) /\ M \in Good /\ h \in [Good \X S -> Good]
  /\ last \in [(SUBSET S) \ {{}} -> S] /\ \A T \in (SUBSET S) \ {{}} : last[T] \in T

Walk(S, Good, M, h, last, g) ==
  /\ g \in [SUBSET S -> Good]
  /\ \A T \in SUBSET S : g[T] = IF T = {} THEN M ELSE h[<<g[T \ {last[T]}], last[T]>>]

LEMMA WalkExists ==
  ASSUME NEW S, NEW Good, NEW M, NEW h, NEW last, Walkable(S, Good, M, h, last)
  PROVE  \E g : Walk(S, Good, M, h, last, g)
<1> USE DEF Walkable
<1> DEFINE Complete(R) ==
             /\ <<{}, M>> \in R
             /\ \A T \in (SUBSET S) \ {{}}, v \in Good :
                  <<T \ {last[T]}, v>> \in R => <<T, h[<<v, last[T]>>]>> \in R
           G == {p \in (SUBSET S) \X Good :
                   \A R \in SUBSET ((SUBSET S) \X Good) : Complete(R) => p \in R}
<1>1. \A T \in (SUBSET S) \ {{}}, v \in Good : /\ T \ {last[T]} \in SUBSET S /\ last[T] \in S
                                           /\ h[<<v, last[T]>>] \in Good
  OBVIOUS
<1>2. Complete(G)
  <2>1. <<{}, M>> \in G
    OBVIOUS
  <2>2. ASSUME NEW T \in (SUBSET S) \ {{}}, NEW v \in Good, <<T \ {last[T]}, v>> \in G
        PROVE  <<T, h[<<v, last[T]>>]>> \in G
    <3>1. <<T, h[<<v, last[T]>>]>> \in (SUBSET S) \X Good
      BY <1>1
    <3>2. ASSUME NEW R \in SUBSET ((SUBSET S) \X Good), Complete(R)
          PROVE  <<T, h[<<v, last[T]>>]>> \in R
      <4>1. <<T \ {last[T]}, v>> \in R
        BY <2>2, <3>2
      <4> QED
        BY <3>2, <4>1
    <3> HIDE DEF Complete
    <3> QED
      BY <3>1, <3>2
  <2> QED
    BY <2>1, <2>2
<1>3. \A R \in SUBSET ((SUBSET S) \X Good) : Complete(R) => G \subseteq R
  <2> HIDE DEF Complete
  <2> QED
    OBVIOUS
<1>4. G \subseteq (SUBSET S) \X Good
  <2> HIDE DEF Complete
  <2> QED
    OBVIOUS
<1> HIDE DEF G
<1>5. \A v : <<{}, v>> \in G => v = M
  <2> DEFINE R == {p \in G : p[1] = {} => p[2] = M}
  <2>1. Complete(R)
    <3>1. ASSUME NEW T \in (SUBSET S) \ {{}}, NEW v \in Good, <<T \ {last[T]}, v>> \in R
          PROVE  <<T, h[<<v, last[T]>>]>> \in R
      <4>1. <<T, h[<<v, last[T]>>]>> \in G
        BY <1>2, <3>1
      <4> QED
        BY <3>1, <4>1
    <3> QED
      BY <1>2, <3>1
  <2>2. G \subseteq R
    BY <1>3, <1>4, <2>1
  <2> QED
    BY <2>2
<1>6. \A T \in (SUBSET S) \ {{}}, v \in Good : <<T, v>> \in G =>
        \E u \in Good : <<T \ {last[T]}, u>> \in G /\ v = h[<<u, last[T]>>]
  <2> DEFINE R == {p \in G : p[1] # {} =>
                     \E u \in Good : <<p[1] \ {last[p[1]]}, u>> \in G /\ p[2] = h[<<u, last[p[1]]>>]}
  <2>1. Complete(R)
    <3>1. ASSUME NEW T \in (SUBSET S) \ {{}}, NEW v \in Good, <<T \ {last[T]}, v>> \in R
          PROVE  <<T, h[<<v, last[T]>>]>> \in R
      <4>1. <<T, h[<<v, last[T]>>]>> \in G
        BY <1>2, <3>1
      <4> QED
        BY <3>1, <4>1
    <3> QED
      BY <1>2, <3>1
  <2>2. G \subseteq R
    BY <1>3, <1>4, <2>1
  <2> QED
    BY <2>2
<1> HIDE DEF Complete
<1> DEFINE Unique(T) == \E v \in Good : <<T, v>> \in G /\ \A w \in Good : <<T, w>> \in G => w = v
<1>7. \A T \in SUBSET S : Unique(T)
  <2> DEFINE B == {T \in SUBSET S : ~ Unique(T)}
  <2> SUFFICES ASSUME B # {} PROVE FALSE
    OBVIOUS
  <2>1. IsWellFoundedOn(StrictSubsetOrdering(S), SUBSET S)
    <3>1. FiniteSubsetsOf(S) = SUBSET S
      BY FS_FiniteSubsetsOfFinite
    <3>2. IsWellFoundedOn(StrictSubsetOrdering(S), FiniteSubsetsOf(S))
      BY FS_StrictSubsetOrderingWellFounded
    <3> QED
      BY <3>1, <3>2
  <2>2. B \subseteq SUBSET S
    OBVIOUS
  <2>3. PICK T \in B : \A U \in B : ~ (<<U, T>> \in StrictSubsetOrdering(S))
    <3> HIDE DEF B
    <3> QED
      BY <2>1, <2>2, WFMin
  <2>4. CASE T = {}
    <3>1. <<{}, M>> \in G
      BY <1>2 DEF Complete
    <3> QED
      BY <1>5, <2>3, <2>4, <3>1
  <2>5. CASE T # {}
    <3> DEFINE U == T \ {last[T]}
    <3>1. T \in (SUBSET S) \ {{}} /\ U \in SUBSET S /\ last[T] \in T /\ U \subseteq T /\ U # T
      BY <2>3, <2>5
    <3>2. <<U, T>> \in StrictSubsetOrdering(S)
      BY <3>1 DEF StrictSubsetOrdering
    <3>3. Unique(U)
      BY <2>3, <3>1, <3>2
    <3>4. PICK u \in Good : <<U, u>> \in G /\ \A w \in Good : <<U, w>> \in G => w = u
      BY <3>3
    <3>5. <<T, h[<<u, last[T]>>]>> \in G
      BY <1>2, <3>1, <3>4 DEF Complete
    <3>6. \A w \in Good : <<T, w>> \in G => w = h[<<u, last[T]>>]
      BY <1>6, <3>1, <3>4
    <3>7. Unique(T)
      BY <1>1, <3>1, <3>5, <3>6
    <3> QED
      BY <2>3, <3>7
  <2> QED
    BY <2>4, <2>5
<1> DEFINE g == [T \in SUBSET S |-> CHOOSE v \in Good : <<T, v>> \in G]
<1>8. \A T \in SUBSET S : g[T] \in Good /\ <<T, g[T]>> \in G /\ \A w \in Good : <<T, w>> \in G => w = g[T]
  BY <1>7
<1>9. g \in [SUBSET S -> Good]
  BY <1>8
<1> HIDE DEF g
<1>10. ASSUME NEW T \in SUBSET S
       PROVE  g[T] = IF T = {} THEN M ELSE h[<<g[T \ {last[T]}], last[T]>>]
  <2>1. CASE T = {}
    BY <1>5, <1>8, <2>1
  <2>2. CASE T # {}
    <3>1. <<T \ {last[T]}, g[T \ {last[T]}]>> \in G /\ g[T \ {last[T]}] \in Good
      BY <1>1, <1>8, <2>2
    <3>2. <<T, h[<<g[T \ {last[T]}], last[T]>>]>> \in G
      BY <1>2, <2>2, <3>1 DEF Complete
    <3> QED
      BY <1>1, <1>8, <2>2, <3>1, <3>2
  <2> QED
    BY <2>1, <2>2
<1> QED
  BY <1>9, <1>10 DEF Walk

-----------------------------------------------------------------------------
(* The state of the adapter under its mutex.                                 *)

Flags ==
  {"stopping", "launched", "parent", "fault", "protocol", "startSent", "stopSent",
   "writerCanceled", "pipesClosed", "written", "read", "eof", "ready", "stopped",
   "exit", "exitErr"}
Streams ==
  [stream : {"none", "open", "closed"}, reason : {Nil, "context", "stop"},
   sending : BOOLEAN, accepted : BOOLEAN, arrival : Nat, outstanding : BOOLEAN,
   bridges : Nat, terminal : Terminals \cup {Nil}]
Engines == [latch : SUBSET Flags, queue : Seq(ToChild), inv : [Invocation -> Streams]]

Unused ==
  [stream |-> "none", reason |-> Nil, sending |-> FALSE, accepted |-> FALSE,
   arrival |-> 0, outstanding |-> FALSE, bridges |-> 0, terminal |-> Nil]

(* An invocation, as long as the session has no fault and after it.          *)
Regular(v, L) ==
  /\ v.stream = "none" => v = Unused
  /\ v.bridges \in {0, 1}
  /\ v.outstanding =>
       /\ v.stream = "open" /\ v.bridges = 1 /\ v.reason = Nil /\ v.terminal = Nil
       /\ v.arrival >= 1 /\ "fault" \notin L
  /\ v.stream = "closed" => v.bridges = 0 /\ (v.terminal = Nil => "fault" \in L)
  /\ v.terminal # Nil => v.accepted
  /\ v.accepted => v.sending

(* A bridge whose arrival was neither released nor given up has it.          *)
Bridged(v, L) == v.bridges = 1 /\ v.reason = Nil /\ "fault" \notin L => v.outstanding

Tidy(M) == M \in Engines /\ \A i \in Invocation : Regular(M.inv[i], M.latch)
Sound(M) == Tidy(M) /\ \A i \in Invocation : Bridged(M.inv[i], M.latch)

(* A step of another kind leaves the flags, but for a fault, and opens no    *)
(* stream.                                                                   *)
Mild(M, C) ==
  /\ M.latch \subseteq C.latch /\ C.latch \subseteq M.latch \cup {"fault", "protocol"}
  /\ \A i \in Invocation :
       /\ C.inv[i].stream = M.inv[i].stream \/ (M.inv[i].stream = "open" /\ C.inv[i].stream = "closed")
       /\ C.inv[i].reason = M.inv[i].reason \/ (M.inv[i].stream = "open" /\ M.inv[i].reason = Nil)
       /\ C.inv[i].sending = M.inv[i].sending

(* A fault ends what it can, and after it only fatal is sent.                *)
Fades(M, C) ==
  /\ Mild(M, C) /\ Faulted(C)
  /\ \/ C.queue = M.queue
     \/ "startSent" \in M.latch /\ C.queue = Append(M.queue, <<"fatal">>)
  /\ \A i \in Invocation :
       /\ C.inv[i].accepted = M.inv[i].accepted /\ C.inv[i].arrival = M.inv[i].arrival
       /\ C.inv[i].bridges = M.inv[i].bridges /\ C.inv[i].terminal = M.inv[i].terminal

(* The types of the parts.                                                   *)
LEMMA EngineParts ==
  ASSUME NEW M \in Engines
  PROVE  /\ M.latch \subseteq Flags /\ M.queue \in Seq(ToChild)
         /\ M.inv \in [Invocation -> Streams]
         /\ M = [latch |-> M.latch, queue |-> M.queue, inv |-> M.inv]
         /\ Faulted(M) \in BOOLEAN
         /\ \A i \in Invocation : M.inv[i] \in Streams
BY DEF Engines, Faulted

(* An update of one part is a state of the adapter.                          *)
LEMMA EngineUpdates ==
  ASSUME NEW M \in Engines
  PROVE  /\ \A X \in SUBSET Flags : [M EXCEPT !.latch = X] \in Engines
         /\ \A q \in Seq(ToChild) : [M EXCEPT !.queue = q] \in Engines
         /\ \A i \in Invocation, v \in Streams : [M EXCEPT !.inv[i] = v] \in Engines
BY DEF Engines

(* What a fault leaves of an invocation.                                     *)
Dropped(v) ==
  IF v.stream # "open" THEN v
  ELSE [v EXCEPT !.outstanding = FALSE, !.stream = IF v.bridges = 0 THEN "closed" ELSE "open"]

(* failLocked.                                                               *)
LEMMA FailFacts ==
  ASSUME EngineAssumption, NEW M, Tidy(M), NEW flags \in SUBSET {"protocol"},
         NEW send \in BOOLEAN
  PROVE  LET C == Fail(M, flags, send) IN
         /\ Faulted(M) => C = M
         /\ Fades(M, C) /\ Sound(C)
         /\ flags = {} => C.latch = M.latch \cup {"fault"}
<1> DEFINE C == Fail(M, flags, send)
<1>1. /\ M \in Engines /\ M.latch \subseteq Flags /\ M.queue \in Seq(ToChild)
      /\ \A i \in Invocation : M.inv[i] \in Streams /\ Regular(M.inv[i], M.latch)
  BY EngineParts DEF Tidy
<1>2. CASE Faulted(M)
  <2>1. C = M /\ M.latch = M.latch \cup {"fault"}
    BY <1>1, <1>2 DEF Fail, Faulted
  <2>2. \A i \in Invocation : Bridged(M.inv[i], M.latch)
    BY <1>2 DEF Bridged, Faulted
  <2>3. Mild(M, M)
    BY <1>1 DEF Mild
  <2>4. Fades(M, M)
    BY <1>2, <2>3 DEF Fades
  <2> QED
    BY <1>1, <1>2, <2>1, <2>2, <2>4 DEF Sound, Tidy
<1>3. CASE ~ Faulted(M)
  <2> DEFINE queue == IF send /\ "startSent" \in M.latch /\ Len(M.queue) < QueueLimit
                      THEN Append(M.queue, <<"fatal">>) ELSE M.queue
  <2>1. C = [latch |-> M.latch \cup {"fault"} \cup flags, queue |-> queue,
             inv |-> [i \in Invocation |-> Dropped(M.inv[i])]]
    BY <1>3 DEF Fail, Dropped
  <2>2. queue \in Seq(ToChild)
    BY <1>1 DEF ToChild
  <2>3. queue = M.queue \/ ("startSent" \in M.latch /\ queue = Append(M.queue, <<"fatal">>))
    OBVIOUS
  <2> HIDE DEF queue, C
  <2>4. /\ C.latch = M.latch \cup {"fault"} \cup flags /\ C.queue = queue
        /\ \A i \in Invocation : C.inv[i] = Dropped(M.inv[i])
        /\ C = [latch |-> C.latch, queue |-> C.queue, inv |-> C.inv]
        /\ C.inv = [i \in Invocation |-> C.inv[i]]
    BY <2>1
  <2>5. "fault" \notin M.latch /\ "fault" \in C.latch
    BY <1>3, <2>4 DEF Faulted
  <2>6. ASSUME NEW v \in Streams, Regular(v, M.latch)
        PROVE  /\ Dropped(v) \in Streams /\ Regular(Dropped(v), C.latch)
               /\ Dropped(v).stream = v.stream \/ (v.stream = "open" /\ Dropped(v).stream = "closed")
               /\ Dropped(v).reason = v.reason
               /\ Dropped(v).sending = v.sending /\ Dropped(v).accepted = v.accepted
               /\ Dropped(v).arrival = v.arrival /\ Dropped(v).bridges = v.bridges
               /\ Dropped(v).terminal = v.terminal
    BY <2>5, <2>6 DEF Streams, Regular, Dropped
  <2>7. ASSUME NEW i \in Invocation PROVE C.inv[i] \in Streams /\ Regular(C.inv[i], C.latch)
    <3>1. C.inv[i] = Dropped(M.inv[i]) /\ M.inv[i] \in Streams /\ Regular(M.inv[i], M.latch)
      BY <1>1, <2>4
    <3> QED
      BY <2>6, <3>1
  <2>8. C \in Engines
    BY <1>1, <2>2, <2>4, <2>7 DEF Engines, Flags
  <2>9. \A i \in Invocation : Bridged(C.inv[i], C.latch)
    BY <2>5 DEF Bridged
  <2>10. Mild(M, C)
    BY <1>1, <2>4, <2>6 DEF Mild
  <2>11. Fades(M, C)
    BY <1>1, <2>3, <2>4, <2>5, <2>6, <2>10 DEF Fades, Faulted
  <2>12. flags = {} => C.latch = M.latch \cup {"fault"}
    BY <2>4
  <2> QED
    BY <1>3, <2>7, <2>8, <2>9, <2>11, <2>12 DEF Sound, Tidy, C
<1> QED
  BY <1>2, <1>3

(* enqueueLocked.                                                            *)
Queued(M, C, f) ==
  C.latch = M.latch /\ C.queue = Append(M.queue, f) /\ C.inv = M.inv

LEMMA EnqueueFacts ==
  ASSUME EngineAssumption, NEW M, Tidy(M), NEW f \in ToChild
  PROVE  LET C == Enqueue(M, f) IN
         /\ Tidy(C) /\ Mild(M, C) /\ (Sound(M) => Sound(C))
         /\ Queued(M, C, f) \/ (Fades(M, C) /\ Sound(C))
         /\ C.latch \subseteq M.latch \cup {"fault"}
<1> DEFINE C == Enqueue(M, f)
<1>1. M \in Engines /\ M.latch \subseteq Flags /\ M.queue \in Seq(ToChild)
  BY EngineParts DEF Tidy
<1>2. CASE Len(M.queue) < QueueLimit
  <2>1. C = [M EXCEPT !.queue = Append(M.queue, f)]
    BY <1>2 DEF Enqueue
  <2>2. Append(M.queue, f) \in Seq(ToChild)
    BY <1>1
  <2>3. C \in Engines /\ Queued(M, C, f)
    BY <1>1, <2>1, <2>2 DEF Engines, Queued
  <2> HIDE DEF C
  <2>4. Tidy(C) /\ (Sound(M) => Sound(C)) /\ Mild(M, C) /\ C.latch \subseteq M.latch \cup {"fault"}
    BY <2>3 DEF Tidy, Sound, Mild, Queued
  <2> QED
    BY <2>3, <2>4 DEF C
<1>3. CASE ~ (Len(M.queue) < QueueLimit)
  <2>1. C = Fail(M, {}, FALSE)
    BY <1>3 DEF Enqueue
  <2>2. Fades(M, C) /\ Sound(C) /\ C.latch = M.latch \cup {"fault"}
    BY <2>1, FailFacts
  <2> QED
    BY <2>2 DEF Fades, Sound
<1> QED
  BY <1>2, <1>3

(* cancelLocked.                                                             *)
Canceled(M, C, i) ==
  /\ M.inv[i].stream = "open" /\ M.inv[i].reason = Nil /\ ~ Faulted(M)
  /\ C.inv[i].reason \in {"context", "stop"}
  /\ C.latch = M.latch /\ C.queue = Append(M.queue, <<"cancel", i, C.inv[i].reason>>)
  /\ \A j \in Invocation \ {i} : C.inv[j] = M.inv[j]
  /\ C.inv[i] = [M.inv[i] EXCEPT !.reason = C.inv[i].reason, !.outstanding = FALSE]

LEMMA CancelFacts ==
  ASSUME EngineAssumption, NEW M, Sound(M), NEW i \in Invocation, NEW why \in {"context", "stop"}
  PROVE  LET C == Cancel(M, i, why) IN
         /\ Sound(C) /\ Mild(M, C) /\ C.latch \subseteq M.latch \cup {"fault"}
         /\ \/ C = M /\ (M.inv[i].stream # "open" \/ M.inv[i].reason # Nil)
            \/ Canceled(M, C, i)
            \/ Fades(M, C)
         /\ M.inv[i].stream = "open" => C.inv[i].reason # Nil
<1> DEFINE C == Cancel(M, i, why)
<1>1. /\ M \in Engines /\ M.latch \subseteq Flags /\ M.queue \in Seq(ToChild)
      /\ M.inv \in [Invocation -> Streams] /\ M.inv[i] \in Streams
      /\ \A j \in Invocation : M.inv[j] \in Streams /\ Regular(M.inv[j], M.latch)
      /\ \A j \in Invocation : Bridged(M.inv[j], M.latch)
  BY EngineParts DEF Sound, Tidy
<1>2. CASE M.inv[i].stream # "open" \/ M.inv[i].reason # Nil
  <2>1. C = M
    BY <1>2 DEF Cancel
  <2>2. Mild(M, M)
    BY <1>1 DEF Mild
  <2> QED
    BY <1>2, <2>1, <2>2
<1>3. CASE ~ (M.inv[i].stream # "open" \/ M.inv[i].reason # Nil)
  <2> DEFINE reason == IF "parent" \in M.latch THEN "context" ELSE why
             w == [M.inv[i] EXCEPT !.reason = reason, !.outstanding = FALSE]
             D == [M EXCEPT !.inv[i].reason = reason, !.inv[i].outstanding = FALSE]
  <2>1. reason \in {"context", "stop"} /\ reason # Nil
    BY DEF EngineAssumption
  <2>2. D = [M EXCEPT !.inv[i] = w]
    BY <1>1 DEF Engines, Streams
  <2>3. w \in Streams /\ Regular(w, M.latch) /\ Bridged(w, M.latch)
    BY <1>1, <1>3, <2>1 DEF Streams, Regular, Bridged
  <2>4. C = IF Faulted(M) THEN D ELSE Enqueue(D, <<"cancel", i, reason>>)
    BY <1>3 DEF Cancel
  <2>5. w.stream = "open" /\ w.reason = reason /\ w.sending = M.inv[i].sending
        /\ w.accepted = M.inv[i].accepted /\ w.arrival = M.inv[i].arrival
        /\ w.bridges = M.inv[i].bridges /\ w.terminal = M.inv[i].terminal
    BY <1>1, <1>3 DEF Streams
  <2> HIDE DEF reason, D
  <2>6. /\ D \in Engines /\ D.latch = M.latch /\ D.queue = M.queue /\ D.inv[i] = w
        /\ \A j \in Invocation \ {i} : D.inv[j] = M.inv[j]
    BY <1>1, <2>2, <2>3 DEF Engines
  <2>7. Sound(D)
    BY <1>1, <2>3, <2>6 DEF Sound, Tidy
  <2>8. Mild(M, D)
    BY <1>3, <2>5, <2>6 DEF Mild
  <2>9. CASE Faulted(M)
    <3>1. C = D /\ Faulted(D)
      BY <2>4, <2>6, <2>9 DEF Faulted
    <3>2. Fades(M, D)
      BY <2>5, <2>6, <2>8, <3>1 DEF Fades
    <3> QED
      BY <2>1, <2>5, <2>6, <2>7, <2>8, <3>1, <3>2
  <2>10. CASE ~ Faulted(M)
    <3>1. C = Enqueue(D, <<"cancel", i, reason>>) /\ <<"cancel", i, reason>> \in ToChild
      BY <2>1, <2>4, <2>10 DEF ToChild
    <3>2. /\ Sound(C) /\ Mild(D, C) /\ C.latch \subseteq M.latch \cup {"fault"}
          /\ Queued(D, C, <<"cancel", i, reason>>) \/ Fades(D, C)
      BY <2>6, <2>7, <3>1, EnqueueFacts DEF Sound
    <3> HIDE DEF C, w
    <3>3. CASE Queued(D, C, <<"cancel", i, reason>>)
      <4>1. C.inv[i] = w /\ w = [M.inv[i] EXCEPT !.reason = reason, !.outstanding = FALSE]
        BY <2>6, <3>3 DEF Queued, w
      <4>2. Canceled(M, C, i)
        BY <1>3, <2>1, <2>5, <2>6, <2>10, <3>3, <4>1 DEF Queued, Canceled
      <4>3. Mild(M, C)
        BY <1>3, <2>5, <2>6, <3>3 DEF Queued, Mild
      <4> QED
        BY <2>1, <2>5, <3>2, <4>1, <4>2, <4>3 DEF C
    <3>4. CASE Fades(D, C)
      <4>1. Mild(M, C)
        BY <1>3, <2>5, <2>6, <3>4 DEF Fades, Mild
      <4>2. Fades(M, C)
        BY <1>3, <2>5, <2>6, <3>4, <4>1 DEF Fades
      <4>3. C.inv[i].reason # Nil
        BY <2>1, <2>5, <2>6, <3>4 DEF Fades, Mild
      <4> QED
        BY <3>2, <4>1, <4>2, <4>3 DEF C
    <3> QED
      BY <3>2, <3>3, <3>4
  <2> QED
    BY <2>9, <2>10
<1> QED
  BY <1>2, <1>3

(* All invocations are canceled, in some order.                              *)
LEMMA CanceledInGood ==
  ASSUME NEW S, IsFiniteSet(S), NEW last \in Orders(S), NEW Good, NEW M \in Good,
         \A Q \in Good, i \in S : Cancel(Q, i, "stop") \in Good
  PROVE  CanceledIn(M, S, last) \in Good
<1> DEFINE h == [p \in Good \X S |-> Cancel(p[1], p[2], "stop")]
<1>1. last \in [(SUBSET S) \ {{}} -> S] /\ \A T \in (SUBSET S) \ {{}} : last[T] \in T
  BY DEF Orders
<1>2. h \in [Good \X S -> Good] /\ \A Q \in Good, i \in S : h[<<Q, i>>] = Cancel(Q, i, "stop")
  OBVIOUS
<1> HIDE DEF h
<1>3. PICK g : Walk(S, Good, M, h, last, g)
  <2>1. Walkable(S, Good, M, h, last)
    BY <1>1, <1>2 DEF Walkable
  <2> QED
    BY <2>1, WalkExists
<1>4. ASSUME NEW f, f = [T \in SUBSET S |->
                           IF T = {} THEN M ELSE Cancel(f[T \ {last[T]}], last[T], "stop")]
      PROVE  f[S] \in Good
  <2> DEFINE B == {T \in SUBSET S : f[T] \notin Good}
  <2> SUFFICES ASSUME B # {} PROVE FALSE
    OBVIOUS
  <2>1. IsWellFoundedOn(StrictSubsetOrdering(S), SUBSET S)
    <3>1. FiniteSubsetsOf(S) = SUBSET S
      BY FS_FiniteSubsetsOfFinite
    <3>2. IsWellFoundedOn(StrictSubsetOrdering(S), FiniteSubsetsOf(S))
      BY FS_StrictSubsetOrderingWellFounded
    <3> QED
      BY <3>1, <3>2
  <2>2. PICK T \in B : \A U \in B : ~ (<<U, T>> \in StrictSubsetOrdering(S))
    <3>1. B \subseteq SUBSET S
      OBVIOUS
    <3> HIDE DEF B
    <3> QED
      BY <2>1, <3>1, WFMin
  <2>3. f[T] = IF T = {} THEN M ELSE Cancel(f[T \ {last[T]}], last[T], "stop")
    BY <1>4
  <2>4. CASE T = {}
    BY <2>2, <2>3, <2>4
  <2>5. CASE T # {}
    <3> DEFINE U == T \ {last[T]}
    <3>1. U \in SUBSET S /\ last[T] \in S /\ last[T] \in T /\ U \subseteq T /\ U # T
      BY <1>1, <2>2, <2>5
    <3>2. <<U, T>> \in StrictSubsetOrdering(S)
      BY <3>1 DEF StrictSubsetOrdering
    <3>3. f[U] \in Good
      BY <2>2, <3>1, <3>2
    <3> QED
      BY <2>2, <2>3, <2>5, <3>1, <3>3
  <2> QED
    BY <2>4, <2>5
<1> DEFINE R == CHOOSE f : f = [T \in SUBSET S |->
                   IF T = {} THEN M ELSE Cancel(f[T \ {last[T]}], last[T], "stop")]
<1>5. R = [T \in SUBSET S |-> IF T = {} THEN M ELSE Cancel(R[T \ {last[T]}], last[T], "stop")]
  <2>1. \A T \in (SUBSET S) \ {{}} : T \ {last[T]} \in SUBSET S /\ last[T] \in S
    BY <1>1
  <2>2. ASSUME NEW T \in SUBSET S
        PROVE  g[T] = IF T = {} THEN M ELSE Cancel(g[T \ {last[T]}], last[T], "stop")
    <3>1. CASE T = {}
      BY <1>3, <3>1 DEF Walk
    <3>2. CASE T # {}
      <4>1. g[T \ {last[T]}] \in Good /\ last[T] \in S
        BY <1>3, <2>1, <3>2 DEF Walk
      <4> QED
        BY <1>2, <1>3, <3>2, <4>1 DEF Walk
    <3> QED
      BY <3>1, <3>2
  <2>3. g = [T \in SUBSET S |-> g[T]]
    BY <1>3 DEF Walk
  <2>4. g = [T \in SUBSET S |-> IF T = {} THEN M ELSE Cancel(g[T \ {last[T]}], last[T], "stop")]
    BY <2>2, <2>3, Zenon
  <2> QED
    BY <2>4
<1>6. R[S] \in Good
  <2> HIDE DEF R
  <2> QED
    BY <1>4, <1>5
<1>7. CanceledIn(M, S, last) = R[S]
  BY DEF CanceledIn
<1> QED
  BY <1>6, <1>7

(* The context of an invocation is looked at.                                *)
LEMMA ObservedFacts ==
  ASSUME EngineAssumption, NEW M, Sound(M), NEW i \in Invocation
  PROVE  LET C == Observed(M, i) IN
         /\ Sound(C) /\ Mild(M, C) /\ C.latch \subseteq M.latch \cup {"fault"}
         /\ C = M \/ Canceled(M, C, i) \/ Fades(M, C)
         /\ M.inv[i].stream = "open" /\ C.inv[i].reason = Nil => C = M
<1>1. CASE "parent" \in M.latch
  BY <1>1, CancelFacts DEF Observed
<1>2. CASE "parent" \notin M.latch
  <2>1. Observed(M, i) = M
    BY <1>2 DEF Observed
  <2>2. Mild(M, M)
    BY DEF Mild
  <2> QED
    BY <2>1, <2>2
<1> QED
  BY <1>1, <1>2

(* A bridge has ended, with its arrival released or given up.                *)
Unwound(M, C, i) ==
  /\ C.latch = M.latch /\ C.queue = M.queue
  /\ \A j \in Invocation \ {i} : C.inv[j] = M.inv[j]
  /\ C.inv[i] = [M.inv[i] EXCEPT
                   !.bridges = 0,
                   !.stream = IF @ = "open" /\ (M.inv[i].terminal # Nil \/ Faulted(M))
                              THEN "closed" ELSE @]

LEMMA BridgeEndsFacts ==
  ASSUME EngineAssumption, NEW M, Tidy(M), NEW i \in Invocation,
         \A j \in Invocation \ {i} : Bridged(M.inv[j], M.latch),
         M.inv[i].bridges > 0, ~ M.inv[i].outstanding
  PROVE  LET C == BridgeEnds(M, i) IN
         /\ Sound(C) /\ Mild(M, C) /\ Unwound(M, C, i)
<1> DEFINE C == BridgeEnds(M, i)
           w == [M.inv[i] EXCEPT
                   !.bridges = 0,
                   !.stream = IF @ = "open" /\ (M.inv[i].terminal # Nil \/ Faulted(M))
                              THEN "closed" ELSE @]
<1>1. /\ M \in Engines /\ M.inv \in [Invocation -> Streams] /\ M.inv[i] \in Streams
      /\ \A j \in Invocation : M.inv[j] \in Streams /\ Regular(M.inv[j], M.latch)
      /\ M.inv[i].bridges = 1
  BY EngineParts DEF Tidy, Regular
<1>2. w \in Streams /\ Regular(w, M.latch) /\ Bridged(w, M.latch)
  <2>1. M.inv[i].stream # "none"
    <3>1. M.inv[i] # Unused
      BY <1>1 DEF Unused
    <3> QED
      BY <1>1, <3>1 DEF Regular
  <2>2. CASE M.inv[i].stream = "open" /\ (M.inv[i].terminal # Nil \/ Faulted(M))
    <3>1. w = [M.inv[i] EXCEPT !.bridges = 0, !.stream = "closed"]
      BY <2>2
    <3> HIDE DEF w
    <3>2. /\ w \in Streams /\ w.bridges = 0 /\ w.stream = "closed"
          /\ w.outstanding = M.inv[i].outstanding /\ w.terminal = M.inv[i].terminal
          /\ w.accepted = M.inv[i].accepted /\ w.sending = M.inv[i].sending
      BY <1>1, <3>1 DEF Streams
    <3> QED
      BY <1>1, <2>2, <3>2 DEF Regular, Bridged, Faulted
  <2>3. CASE ~ (M.inv[i].stream = "open" /\ (M.inv[i].terminal # Nil \/ Faulted(M)))
    <3>1. w = [M.inv[i] EXCEPT !.bridges = 0]
      BY <1>1, <2>3 DEF Streams
    <3> HIDE DEF w
    <3> QED
      BY <1>1, <2>1, <2>3, <3>1 DEF Streams, Regular, Bridged, Faulted
  <2> QED
    BY <2>2, <2>3
<1>3. C = [M EXCEPT !.inv[i] = w]
  <2>1. M.inv[i].bridges - 1 = 0
    BY <1>1
  <2> DEFINE B == [M EXCEPT !.inv[i].bridges = 0]
  <2>2. /\ B.inv[i].bridges = 0 /\ B.inv[i].stream = M.inv[i].stream
        /\ B.inv[i].terminal = M.inv[i].terminal /\ Faulted(B) = Faulted(M)
    BY <1>1 DEF Engines, Streams, Faulted
  <2>3. C = IF M.inv[i].stream = "open" /\ (M.inv[i].terminal # Nil \/ Faulted(M))
            THEN Finish(B, i) ELSE B
    BY <2>1, <2>2 DEF BridgeEnds
  <2>4. CASE M.inv[i].stream = "open" /\ (M.inv[i].terminal # Nil \/ Faulted(M))
    <3>1. C = [B EXCEPT !.inv[i].stream = "closed"]
      BY <2>3, <2>4 DEF Finish
    <3>2. B = [M EXCEPT !.inv[i] = [M.inv[i] EXCEPT !.bridges = 0]]
      BY <1>1 DEF Engines
    <3>3. w = [M.inv[i] EXCEPT !.bridges = 0, !.stream = "closed"]
      BY <2>4
    <3> HIDE DEF w
    <3> QED
      BY <1>1, <3>1, <3>2, <3>3 DEF Engines, Streams
  <2>5. CASE ~ (M.inv[i].stream = "open" /\ (M.inv[i].terminal # Nil \/ Faulted(M)))
    BY <1>1, <2>3, <2>5 DEF Engines, Streams
  <2> QED
    BY <2>4, <2>5
<1> HIDE DEF C
<1>4. /\ C \in Engines /\ C.latch = M.latch /\ C.queue = M.queue /\ C.inv[i] = w
      /\ \A j \in Invocation \ {i} : C.inv[j] = M.inv[j]
  BY <1>1, <1>2, <1>3 DEF Engines
<1>5. Unwound(M, C, i)
  BY <1>4 DEF Unwound
<1>6. /\ w.stream = M.inv[i].stream \/ (M.inv[i].stream = "open" /\ w.stream = "closed")
      /\ w.reason = M.inv[i].reason /\ w.sending = M.inv[i].sending
  BY <1>1 DEF Streams
<1> HIDE DEF w
<1>7. Sound(C)
  BY <1>1, <1>2, <1>4 DEF Sound, Tidy
<1>8. Mild(M, C)
  BY <1>1, <1>4, <1>6 DEF Mild
<1> QED
  BY <1>5, <1>7, <1>8 DEF C

(* What the child says.                                                      *)
LEMMA FromForms ==
  ASSUME NEW f \in FromChild
  PROVE  /\ f[1] \in {"ready", "stopped", "fatal", "bad", "accepted", "arrive", "terminal"}
         /\ f[1] \in {"accepted", "arrive", "terminal"} => f[2] \in Invocation
         /\ f[1] = "ready" => f = <<"ready">>
         /\ f[1] = "stopped" => f = <<"stopped">>
         /\ f[1] = "fatal" => f = <<"fatal">>
         /\ f[1] = "bad" => f = <<"bad">>
         /\ f[1] = "accepted" => f = <<"accepted", f[2]>>
         /\ f[1] = "arrive" => f = <<"arrive", f[2], f[3]>> /\ f[3] \in Nat
         /\ f[1] = "terminal" => f \in Terminals
<1>1. CASE f \in {<<"ready">>, <<"stopped">>, <<"fatal">>, <<"bad">>}
  BY <1>1
<1>2. CASE f \in {"accepted"} \X Invocation
  BY <1>2
<1>3. CASE f \in {"arrive"} \X Invocation \X Nat
  BY <1>3
<1>4. CASE f \in Terminals
  <2>1. f[1] = "terminal" /\ f[2] \in Invocation
    BY <1>4 DEF Terminals
  <2> QED
    BY <1>4, <2>1
<1> QED
  BY <1>1, <1>2, <1>3, <1>4 DEF FromChild

(* receiveLocked, on a session without a fault.                              *)
Refuses(M, f) ==
  CASE f[1] = "fatal" -> FALSE
    [] f[1] = "ready" -> M.latch \cap {"ready", "stopped"} # {} \/ "startSent" \notin M.latch
    [] f[1] = "stopped" -> \/ "stopSent" \notin M.latch \/ "stopped" \in M.latch
                           \/ \E i \in Open(M) : M.inv[i].terminal = Nil
    [] f[1] = "bad" -> TRUE
    [] OTHER ->
         LET v == M.inv[f[2]] IN
         \/ "ready" \notin M.latch \/ "stopped" \in M.latch \/ v.stream = "none"
         \/ /\ v.terminal # Nil \/ v.stream = "closed"
            /\ f[1] # "arrive" /\ f # v.terminal
         \/ /\ v.terminal = Nil /\ v.stream # "closed"
            /\ CASE f[1] = "accepted" ->
                       v.accepted \/ ~ v.sending \/ ~ Sent(<<"invoke", f[2]>>)
                 [] f[1] = "arrive" ->
                       \/ ~ v.accepted
                       \/ v.reason = Nil /\ (v.outstanding \/ f[3] # v.arrival + 1)
                 [] OTHER ->
                       \/ v.outstanding \/ ~ v.accepted
                       \/ f[4] \in {"context", "stop"} /\ f[4] # v.reason

(* What is accepted.                                                         *)
Accepts(M, f, C) ==
  LET i == f[2] IN
  \/ f[1] = "ready" /\ C = [M EXCEPT !.latch = @ \cup {"ready"}] /\ "startSent" \in M.latch
  \/ f[1] = "stopped" /\ C = [M EXCEPT !.latch = @ \cup {"stopped"}]
  \/ /\ f[1] \in {"accepted", "arrive", "terminal"} /\ M.inv[i].terminal # Nil
     /\ C = M
  \/ /\ f[1] \in {"accepted", "arrive", "terminal"} /\ M.inv[i].terminal = Nil
     /\ M.inv[i].stream = "open"
     /\ \/ f[1] = "accepted" /\ C = [M EXCEPT !.inv[i] = [@ EXCEPT !.accepted = TRUE]]
        \/ f[1] = "arrive" /\ (C = M \/ Canceled(M, C, i)) /\ C.inv[i].reason # Nil
        \/ /\ f[1] = "arrive" /\ M.inv[i].reason = Nil
           /\ C = [M EXCEPT !.inv[i] = [@ EXCEPT !.arrival = f[3], !.outstanding = TRUE,
                                                 !.bridges = 1]]
        \/ /\ f[1] = "terminal"
           /\ C = [M EXCEPT !.inv[i] = [@ EXCEPT !.terminal = f,
                                                 !.stream = IF M.inv[i].bridges = 0
                                                            THEN "closed" ELSE "open"]]

LEMMA AcceptsLive ==
  ASSUME EngineAssumption, NEW M, Sound(M), ~ Faulted(M), NEW f \in FromChild,
         f[1] \in {"accepted", "arrive", "terminal"},
         M.inv[f[2]].stream = "open", M.inv[f[2]].terminal = Nil
  PROVE  LET C == ReceivedOf(M, f) IN
         /\ Sound(C) /\ (Fades(M, C) \/ Accepts(M, f, C))
         /\ Refuses(M, f) \/ "ready" \notin M.latch \/ "stopped" \in M.latch
              \/ C.latch \subseteq M.latch \cup {"fault"}
<1> DEFINE i == f[2]
           v == M.inv[i]
           C == ReceivedOf(M, f)
<1>1. /\ M \in Engines /\ M.latch \subseteq Flags /\ M.queue \in Seq(ToChild)
      /\ M.inv \in [Invocation -> Streams] /\ i \in Invocation /\ v \in Streams
      /\ \A j \in Invocation : M.inv[j] \in Streams /\ Regular(M.inv[j], M.latch)
                               /\ Bridged(M.inv[j], M.latch)
      /\ v.stream = "open" /\ v.terminal = Nil /\ "fault" \notin M.latch
  BY EngineParts, FromForms DEF Sound, Tidy, Faulted
<1>2. LET R == Reject(M) IN Fades(M, R) /\ Sound(R)
  BY FailFacts DEF Reject, Sound
<1>3. ASSUME NEW w \in Streams, Regular(w, M.latch), Bridged(w, M.latch)
      PROVE  LET W == [M EXCEPT !.inv[i] = w] IN Sound(W) /\ W.latch = M.latch
  <2> DEFINE W == [M EXCEPT !.inv[i] = w]
  <2>1. /\ W \in Engines /\ W.latch = M.latch /\ W.inv[i] = w
        /\ \A j \in Invocation \ {i} : W.inv[j] = M.inv[j]
    BY <1>1, <1>3 DEF Engines
  <2> HIDE DEF W
  <2>2. Sound(W)
    BY <1>1, <1>3, <2>1 DEF Sound, Tidy
  <2> QED
    BY <2>1, <2>2 DEF W
<1>4. CASE f[1] = "accepted"
  <2> DEFINE w == [v EXCEPT !.accepted = TRUE]
  <2>1. C = IF v.accepted \/ ~ v.sending \/ ~ Sent(<<"invoke", i>>) THEN Reject(M)
            ELSE [M EXCEPT !.inv[i].accepted = TRUE]
    BY <1>4 DEF ReceivedOf
  <2>2. CASE v.accepted \/ ~ v.sending \/ ~ Sent(<<"invoke", i>>)
    <3>1. Refuses(M, f)
      BY <1>1, <1>4, <2>2 DEF Refuses
    <3> QED
      BY <1>2, <2>1, <2>2, <3>1
  <2>3. CASE ~ (v.accepted \/ ~ v.sending \/ ~ Sent(<<"invoke", i>>))
    <3>1. C = [M EXCEPT !.inv[i] = w]
      BY <1>1, <2>1, <2>3 DEF Engines
    <3>2. w \in Streams /\ Regular(w, M.latch) /\ Bridged(w, M.latch)
      BY <1>1, <2>3 DEF Streams, Regular, Bridged
    <3>3. Accepts(M, f, C)
      BY <1>1, <1>4, <3>1 DEF Accepts
    <3> QED
      BY <1>3, <3>1, <3>2, <3>3
  <2> QED
    BY <2>2, <2>3
<1>5. CASE f[1] = "arrive"
  <2> DEFINE O == Observed(M, i)
             w == [v EXCEPT !.arrival = f[3], !.outstanding = TRUE, !.bridges = 1]
  <2>1. C = IF ~ v.accepted THEN Reject(M)
            ELSE IF O.inv[i].reason # Nil THEN O
            ELSE IF v.outstanding \/ f[3] # v.arrival + 1 THEN Reject(O)
            ELSE [O EXCEPT !.inv[i].arrival = f[3], !.inv[i].outstanding = TRUE,
                           !.inv[i].bridges = @ + 1]
    BY <1>5 DEF ReceivedOf
  <2>2. /\ Sound(O) /\ O.latch \subseteq M.latch \cup {"fault"}
        /\ O = M \/ Canceled(M, O, i) \/ Fades(M, O)
        /\ O.inv[i].reason = Nil => O = M
    BY <1>1, ObservedFacts
  <2> HIDE DEF O
  <2>3. CASE ~ v.accepted
    <3>1. Refuses(M, f)
      BY <1>1, <1>5, <2>3 DEF Refuses
    <3> QED
      BY <1>2, <2>1, <2>3, <3>1
  <2>4. CASE v.accepted /\ O.inv[i].reason # Nil
    <3>1. C = O
      BY <2>1, <2>4
    <3>2. Fades(M, O) \/ Accepts(M, f, O)
      BY <1>1, <1>5, <2>2, <2>4 DEF Accepts
    <3> QED
      BY <2>2, <3>1, <3>2
  <2>5. CASE v.accepted /\ O.inv[i].reason = Nil /\ (v.outstanding \/ f[3] # v.arrival + 1)
    <3>1. C = Reject(M) /\ v.reason = Nil
      BY <2>1, <2>2, <2>5
    <3>2. Refuses(M, f)
      BY <1>1, <1>5, <2>5, <3>1 DEF Refuses
    <3> QED
      BY <1>2, <3>1, <3>2
  <2>6. CASE v.accepted /\ O.inv[i].reason = Nil /\ ~ (v.outstanding \/ f[3] # v.arrival + 1)
    <3>1. v.reason = Nil /\ v.bridges = 0 /\ f[3] = v.arrival + 1 /\ f[3] \in Nat /\ f[3] >= 1
      BY <1>1, <2>2, <2>6 DEF Regular, Bridged, Streams
    <3>2. C = [M EXCEPT !.inv[i].arrival = f[3], !.inv[i].outstanding = TRUE,
                        !.inv[i].bridges = @ + 1]
      BY <2>1, <2>2, <2>6
    <3>3. C = [M EXCEPT !.inv[i] = w]
      <4>1. C = [M EXCEPT !.inv[i].arrival = f[3], !.inv[i].outstanding = TRUE,
                          !.inv[i].bridges = 1]
        BY <1>1, <3>1, <3>2 DEF Engines
      <4> QED
        BY <1>1, <4>1 DEF Engines
    <3>4. w \in Streams /\ Regular(w, M.latch) /\ Bridged(w, M.latch)
      BY <1>1, <2>6, <3>1 DEF Streams, Regular, Bridged
    <3>5. Accepts(M, f, C)
      BY <1>1, <1>5, <3>1, <3>3 DEF Accepts
    <3> QED
      BY <1>3, <3>3, <3>4, <3>5
  <2> QED
    BY <2>3, <2>4, <2>5, <2>6
<1>6. CASE f[1] = "terminal"
  <2> DEFINE Bad == \/ v.outstanding \/ ~ v.accepted
                    \/ f[4] \in {"context", "stop"} /\ f[4] # v.reason
             Done == [M EXCEPT !.inv[i].terminal = f]
             w == [v EXCEPT !.terminal = f,
                            !.stream = IF v.bridges = 0 THEN "closed" ELSE "open"]
  <2>1. C = IF Bad THEN Reject(M) ELSE IF v.bridges = 0 THEN Finish(Done, i) ELSE Done
    BY <1>6 DEF ReceivedOf
  <2>2. CASE Bad
    <3>1. Refuses(M, f)
      BY <1>1, <1>6, <2>2 DEF Refuses
    <3> QED
      BY <1>2, <2>1, <2>2, <3>1
  <2>3. CASE ~ Bad
    <3>1. f \in Terminals /\ f # Nil
      BY <1>6, FromForms DEF EngineAssumption
    <3>2. C = [M EXCEPT !.inv[i] = w]
      <4>1. CASE v.bridges = 0
        <5>1. C = [Done EXCEPT !.inv[i].stream = "closed"]
          BY <2>1, <2>3, <4>1 DEF Finish
        <5>2. w = [v EXCEPT !.terminal = f, !.stream = "closed"]
          BY <4>1
        <5> DEFINE u == [v EXCEPT !.terminal = f]
        <5>3. Done = [M EXCEPT !.inv[i] = u] /\ w = [u EXCEPT !.stream = "closed"]
          BY <1>1, <5>2 DEF Engines
        <5> HIDE DEF Done, u, w
        <5>4. C = [Done EXCEPT !.inv[i] = [Done.inv[i] EXCEPT !.stream = "closed"]]
          BY <1>1, <5>1, <5>3 DEF Engines
        <5> QED
          BY <1>1, <5>3, <5>4 DEF Engines
      <4>2. CASE v.bridges # 0
        <5>1. w = [v EXCEPT !.terminal = f]
          BY <1>1, <4>2 DEF Streams
        <5> HIDE DEF w
        <5> QED
          BY <1>1, <2>1, <2>3, <4>2, <5>1 DEF Engines, Streams
      <4> QED
        BY <4>1, <4>2
    <3>3. w \in Streams /\ Regular(w, M.latch) /\ Bridged(w, M.latch)
      <4>1. /\ w \in Streams /\ w.terminal = f /\ w.bridges = v.bridges /\ w.reason = v.reason
            /\ w.accepted = v.accepted /\ w.sending = v.sending
            /\ w.outstanding = v.outstanding
            /\ \/ w.stream = "open" /\ v.bridges # 0
               \/ w.stream = "closed" /\ v.bridges = 0
        <5>1. CASE v.bridges = 0
          <6>1. w = [v EXCEPT !.terminal = f, !.stream = "closed"]
            BY <5>1
          <6> HIDE DEF w
          <6> QED
            BY <1>1, <3>1, <5>1, <6>1 DEF Streams
        <5>2. CASE v.bridges # 0
          <6>1. w = [v EXCEPT !.terminal = f, !.stream = "open"]
            BY <5>2
          <6>2. v.bridges = w.bridges /\ w.stream = "open" /\ w.terminal = f
            BY <1>1, <6>1 DEF Streams
          <6> HIDE DEF w
          <6>3. w \in Streams
            BY <1>1, <3>1, <6>1 DEF Streams
          <6> QED
            BY <1>1, <5>2, <6>1, <6>2, <6>3 DEF Streams
        <5> QED
          BY <5>1, <5>2
      <4> HIDE DEF w
      <4> QED
        BY <1>1, <2>3, <3>1, <4>1 DEF Regular, Bridged
    <3>4. Accepts(M, f, C)
      BY <1>1, <1>6, <3>2 DEF Accepts
    <3> QED
      BY <1>3, <3>2, <3>3, <3>4
  <2> QED
    BY <2>2, <2>3
<1> QED
  BY <1>4, <1>5, <1>6

LEMMA ReceivedFacts ==
  ASSUME EngineAssumption, NEW M, Sound(M), ~ Faulted(M), NEW f \in FromChild
  PROVE  LET C == Received(M, f) IN
         /\ Sound(C) /\ (Fades(M, C) \/ Accepts(M, f, C))
         /\ Refuses(M, f) \/ C.latch \subseteq M.latch \cup {"fault", "ready", "stopped"}
<1> DEFINE C == Received(M, f)
<1>1. M \in Engines /\ M.latch \subseteq Flags
  BY EngineParts DEF Sound, Tidy
<1>2. LET R == Reject(M) IN Fades(M, R) /\ Sound(R)
  BY FailFacts DEF Reject, Sound
<1>3. CASE f[1] = "fatal"
  <2>1. C = Fail(M, {}, FALSE)
    BY <1>3 DEF Received
  <2> QED
    BY <2>1, FailFacts DEF Sound
<1>4. ASSUME NEW x \in {"ready", "stopped"}
      PROVE  LET L == Latch(M, {x}) IN
             /\ Sound(L) /\ L = [M EXCEPT !.latch = @ \cup {x}]
             /\ L.latch \subseteq M.latch \cup {"fault", "ready", "stopped"}
  <2> DEFINE L == Latch(M, {x})
  <2>1. L = [M EXCEPT !.latch = M.latch \cup {x}]
    BY DEF Latch
  <2>2. M.latch \cup {x} \in SUBSET Flags
    BY <1>1, <1>4 DEF Flags
  <2>3. L \in Engines /\ L.latch = M.latch \cup {x} /\ L.inv = M.inv
    BY <1>1, <2>1, <2>2 DEF Engines
  <2> HIDE DEF L
  <2>4. Sound(L)
    BY <1>4, <2>3 DEF Sound, Tidy, Regular, Bridged
  <2> QED
    BY <1>4, <2>1, <2>3, <2>4 DEF L
<1>5. CASE f[1] = "ready"
  <2>1. CASE M.latch \cap {"ready", "stopped"} # {} \/ "startSent" \notin M.latch
    <3>1. C = Reject(M) /\ Refuses(M, f)
      BY <1>5, <2>1 DEF Received, Refuses
    <3> QED
      BY <1>2, <3>1
  <2>2. CASE ~ (M.latch \cap {"ready", "stopped"} # {} \/ "startSent" \notin M.latch)
    <3>1. C = Latch(M, {"ready"})
      BY <1>5, <2>2 DEF Received
    <3>2. Accepts(M, f, C)
      BY <1>4, <1>5, <2>2, <3>1 DEF Accepts
    <3> QED
      BY <1>4, <3>1, <3>2
  <2> QED
    BY <2>1, <2>2
<1>6. CASE f[1] = "stopped"
  <2> DEFINE Bad == \/ "stopSent" \notin M.latch \/ "stopped" \in M.latch
                    \/ \E i \in Open(M) : M.inv[i].terminal = Nil
  <2>1. CASE Bad
    <3>1. C = Reject(M) /\ Refuses(M, f)
      BY <1>6, <2>1 DEF Received, Refuses
    <3> QED
      BY <1>2, <3>1
  <2>2. CASE ~ Bad
    <3>1. C = Latch(M, {"stopped"})
      BY <1>6, <2>2 DEF Received
    <3>2. Accepts(M, f, C)
      BY <1>4, <1>6, <3>1 DEF Accepts
    <3> QED
      BY <1>4, <3>1, <3>2
  <2> QED
    BY <2>1, <2>2
<1>7. CASE f[1] = "bad"
  <2>1. C = Reject(M) /\ Refuses(M, f)
    BY <1>7 DEF Received, Refuses
  <2> QED
    BY <1>2, <2>1
<1>8. CASE f[1] \in {"accepted", "arrive", "terminal"}
  <2> DEFINE i == f[2]
             v == M.inv[i]
             Bad == "ready" \notin M.latch \/ "stopped" \in M.latch \/ v.stream = "none"
  <2>1. i \in Invocation /\ v \in Streams /\ Regular(v, M.latch) /\ "fault" \notin M.latch
    BY <1>8, EngineParts, FromForms DEF Sound, Tidy, Faulted
  <2>2. C = IF Bad THEN Reject(M)
            ELSE IF v.terminal # Nil \/ v.stream = "closed"
            THEN IF f[1] = "arrive" \/ f = v.terminal THEN M ELSE Reject(M)
            ELSE ReceivedOf(M, f)
    BY <1>8 DEF Received
  <2>3. CASE Bad
    <3>1. Refuses(M, f)
      BY <1>8, <2>3 DEF Refuses
    <3> QED
      BY <1>2, <2>2, <2>3, <3>1
  <2>4. CASE ~ Bad /\ (v.terminal # Nil \/ v.stream = "closed")
    <3>1. v.terminal # Nil
      BY <2>1, <2>4 DEF Regular
    <3>2. CASE f[1] = "arrive" \/ f = v.terminal
      <4>1. C = M
        BY <2>2, <2>4, <3>2
      <4>2. Accepts(M, f, M)
        BY <1>8, <3>1 DEF Accepts
      <4> QED
        BY <4>1, <4>2
    <3>3. CASE ~ (f[1] = "arrive" \/ f = v.terminal)
      <4>1. Refuses(M, f)
        BY <1>8, <3>1, <3>3 DEF Refuses
      <4> QED
        BY <1>2, <2>2, <2>4, <3>3, <4>1
    <3> QED
      BY <3>2, <3>3
  <2>5. CASE ~ Bad /\ ~ (v.terminal # Nil \/ v.stream = "closed")
    <3>1. C = ReceivedOf(M, f) /\ v.stream = "open" /\ v.terminal = Nil
      BY <2>1, <2>2, <2>5 DEF Streams
    <3>2. /\ Sound(C) /\ (Fades(M, C) \/ Accepts(M, f, C))
          /\ Refuses(M, f) \/ C.latch \subseteq M.latch \cup {"fault"}
      BY <1>8, <2>5, <3>1, AcceptsLive
    <3> QED
      BY <3>2
  <2> QED
    BY <2>3, <2>4, <2>5
<1> QED
  BY <1>3, <1>5, <1>6, <1>7, <1>8, FromForms

-----------------------------------------------------------------------------
(* The frames of the adapter.                                                *)

Of(kind, i) == {f \in ToChild : f[1] = kind /\ f[2] = i}
Release(i) == Of("release", i)
CancelOf(i) == Of("cancel", i)

LEMMA ToForms ==
  /\ \A f \in {<<"start">>, <<"stop">>, <<"fatal">>} : f \in ToChild /\
       \A j \in Invocation : f \notin Release(j) /\ f \notin CancelOf(j)
  /\ \A i \in Invocation : <<"invoke", i>> \in ToChild /\
       \A j \in Invocation : <<"invoke", i>> \notin Release(j) /\ <<"invoke", i>> \notin CancelOf(j)
  /\ \A i \in Invocation, r \in {"context", "stop"} : <<"cancel", i, r>> \in ToChild /\
       \A j \in Invocation : /\ <<"cancel", i, r>> \notin Release(j)
                            /\ <<"cancel", i, r>> \in CancelOf(j) <=> j = i
  /\ \A i \in Invocation, n \in Nat : <<"release", i, n>> \in ToChild /\
       \A j \in Invocation : /\ <<"release", i, n>> \in Release(j) <=> j = i
                            /\ <<"release", i, n>> \notin CancelOf(j)
<1>1. \A f \in {<<"start">>, <<"stop">>, <<"fatal">>} : f \in ToChild /\
       \A j \in Invocation : f \notin Release(j) /\ f \notin CancelOf(j)
  BY DEF ToChild, Release, CancelOf, Of
<1>2. \A i \in Invocation : <<"invoke", i>> \in ToChild /\
       \A j \in Invocation : <<"invoke", i>> \notin Release(j) /\ <<"invoke", i>> \notin CancelOf(j)
  BY DEF ToChild, Release, CancelOf, Of
<1>3. ASSUME NEW i \in Invocation, NEW r \in {"context", "stop"}
      PROVE  <<"cancel", i, r>> \in ToChild /\
       \A j \in Invocation : /\ <<"cancel", i, r>> \notin Release(j)
                            /\ <<"cancel", i, r>> \in CancelOf(j) <=> j = i
  <2>1. <<"cancel", i, r>> \in ToChild
    BY DEF ToChild
  <2> QED
    BY <2>1 DEF Release, CancelOf, Of
<1>4. ASSUME NEW i \in Invocation, NEW n \in Nat
      PROVE  <<"release", i, n>> \in ToChild /\
       \A j \in Invocation : /\ <<"release", i, n>> \in Release(j) <=> j = i
                            /\ <<"release", i, n>> \notin CancelOf(j)
  <2>1. <<"release", i, n>> \in ToChild
    BY DEF ToChild
  <2> QED
    BY <2>1 DEF Release, CancelOf, Of
<1> QED
  BY <1>1, <1>2, <1>3, <1>4

(* A cancellation is sent once there is a reason, after every release; and   *)
(* it is still behind a release that waits, unless there was a fault.        *)
Orderly(M, F) ==
  /\ F \in Seq(ToChild)
  /\ \A i \in Invocation :
       /\ Before(F, Release(i), CancelOf(i))
       /\ In(F) \cap CancelOf(i) # {} => M.inv[i].reason # Nil
       /\ In(F) \cap Release(i) # {} /\ M.inv[i].reason # Nil =>
            "fault" \in M.latch \/ In(F) \cap CancelOf(i) # {}

(* A step that gives no reason, unless there is a fault.                     *)
LEMMA OrderlyMild ==
  ASSUME NEW M, NEW C, NEW F, Orderly(M, F), Mild(M, C),
         Faulted(C) \/ \A i \in Invocation : C.inv[i].reason = M.inv[i].reason
  PROVE  /\ Orderly(C, F)
         /\ \A f \in ToChild :
              (\A i \in Invocation : f \notin Release(i) /\ f \notin CancelOf(i)) =>
                Orderly(C, Append(F, f))
<1>1. Orderly(C, F)
  BY DEF Orderly, Mild, Faulted
<1>2. ASSUME NEW f \in ToChild, \A i \in Invocation : f \notin Release(i) /\ f \notin CancelOf(i)
      PROVE  Orderly(C, Append(F, f))
  <2>1. /\ Append(F, f) \in Seq(ToChild) /\ In(Append(F, f)) = In(F) \cup {f}
        /\ \A i \in Invocation : Before(Append(F, f), Release(i), CancelOf(i))
    BY <1>1, <1>2, PipeAppend DEF Orderly
  <2>2. \A i \in Invocation : /\ In(Append(F, f)) \cap CancelOf(i) = In(F) \cap CancelOf(i)
                             /\ In(Append(F, f)) \cap Release(i) = In(F) \cap Release(i)
    BY <1>2, <2>1
  <2> QED
    BY <1>1, <2>1, <2>2 DEF Orderly
<1> QED
  BY <1>1, <1>2

LEMMA CancelForm ==
  ASSUME NEW i \in Invocation, NEW r \in {"context", "stop"}, NEW f, f = <<"cancel", i, r>>
  PROVE  f \in ToChild /\ \A j \in Invocation : f \notin Release(j) /\ (f \in CancelOf(j) <=> j = i)
<1>1. f \in ToChild
  BY DEF ToChild
<1> QED
  BY <1>1 DEF Release, CancelOf, Of

LEMMA OrderlyCanceled ==
  ASSUME EngineAssumption, NEW M, NEW C, NEW F, Orderly(M, F), NEW i \in Invocation,
         Canceled(M, C, i)
  PROVE  Orderly(C, Append(F, <<"cancel", i, C.inv[i].reason>>))
<1> DEFINE f == <<"cancel", i, C.inv[i].reason>>
<1>1. C.inv[i].reason \in {"context", "stop"} /\ C.inv[i].reason # Nil /\ M.inv[i].reason = Nil
  BY DEF Canceled, EngineAssumption
<1>2. f \in ToChild /\ \A j \in Invocation : f \notin Release(j) /\ (f \in CancelOf(j) <=> j = i)
  BY <1>1, CancelForm
<1> HIDE DEF f
<1>3. In(F) \cap CancelOf(i) = {}
  BY <1>1 DEF Orderly
<1>4. /\ Append(F, f) \in Seq(ToChild) /\ In(Append(F, f)) = In(F) \cup {f}
      /\ \A j \in Invocation : Before(Append(F, f), Release(j), CancelOf(j))
  BY <1>2, <1>3, PipeAppend DEF Orderly
<1>5. \A j \in Invocation : In(Append(F, f)) \cap Release(j) = In(F) \cap Release(j)
  BY <1>2, <1>4
<1>6. \A j \in Invocation \ {i} : /\ In(Append(F, f)) \cap CancelOf(j) = In(F) \cap CancelOf(j)
                                  /\ C.inv[j] = M.inv[j]
  BY <1>2, <1>4 DEF Canceled
<1>7. C.latch = M.latch
  BY DEF Canceled
<1>8. f \in In(Append(F, f)) \cap CancelOf(i)
  BY <1>2, <1>4
<1>9. Orderly(C, Append(F, f))
  BY <1>1, <1>4, <1>5, <1>6, <1>7, <1>8 DEF Orderly
<1> QED
  BY <1>9 DEF f

LEMMA OrderlyReleased ==
  ASSUME NEW M, NEW C, NEW F, Orderly(M, F), NEW i \in Invocation, NEW n \in Nat,
         Mild(M, C), \A j \in Invocation : C.inv[j].reason = M.inv[j].reason,
         M.inv[i].reason = Nil
  PROVE  Orderly(C, Append(F, <<"release", i, n>>))
<1> DEFINE f == <<"release", i, n>>
<1>1. f \in ToChild /\ \A j \in Invocation : f \notin CancelOf(j) /\ (f \in Release(j) <=> j = i)
  BY ToForms
<1> HIDE DEF f
<1>2. In(F) \cap CancelOf(i) = {}
  BY DEF Orderly
<1>3. /\ Append(F, f) \in Seq(ToChild) /\ In(Append(F, f)) = In(F) \cup {f}
      /\ \A j \in Invocation : Before(Append(F, f), Release(j), CancelOf(j))
  BY <1>1, <1>2, PipeAppend DEF Orderly
<1>4. \A j \in Invocation : In(Append(F, f)) \cap CancelOf(j) = In(F) \cap CancelOf(j)
  BY <1>1, <1>3
<1>5. \A j \in Invocation \ {i} : In(Append(F, f)) \cap Release(j) = In(F) \cap Release(j)
  BY <1>1, <1>3
<1>6. \A j \in Invocation : C.inv[j].reason = M.inv[j].reason
  OBVIOUS
<1>7. "fault" \in M.latch => "fault" \in C.latch
  BY DEF Mild
<1>8. Orderly(C, Append(F, f))
  BY <1>3, <1>4, <1>5, <1>6, <1>7 DEF Orderly
<1> QED
  BY <1>8 DEF f

(* Frames leave at the head; the pipe is lost; or the queue is.              *)
LEMMA OrderlyLoses ==
  ASSUME NEW M, NEW S \in Seq(ToChild), NEW Q \in Seq(ToChild), Orderly(M, S \o Q)
  PROVE  /\ S # <<>> => Orderly(M, Tail(S) \o Q)
         /\ Orderly(M, Q)
         /\ "fault" \in M.latch \/ S = <<>> => Orderly(M, S)
<1> DEFINE F == S \o Q
<1>1. F \in Seq(ToChild) /\ In(F) = In(S) \cup In(Q)
  BY PipeConcat
<1>2. ASSUME S # <<>> PROVE Orderly(M, Tail(S) \o Q)
  <2>1. Tail(S) \o Q = Tail(F) /\ F # <<>>
    BY <1>2, PipeMoves
  <2> HIDE DEF F
  <2>2. /\ Tail(F) \in Seq(ToChild) /\ In(F) = {Head(F)} \cup In(Tail(F))
        /\ \A A, B : Before(F, A, B) => /\ Before(Tail(F), A, B)
                                       /\ (Head(F) \in B => In(F) \cap A = {})
    BY <1>1, <2>1, PipeTail
  <2>3. Orderly(M, F)
    BY DEF F
  <2>4. ASSUME NEW i \in Invocation
        PROVE  /\ Before(Tail(F), Release(i), CancelOf(i))
               /\ In(Tail(F)) \cap CancelOf(i) # {} => M.inv[i].reason # Nil
               /\ In(Tail(F)) \cap Release(i) # {} /\ M.inv[i].reason # Nil =>
                    "fault" \in M.latch \/ In(Tail(F)) \cap CancelOf(i) # {}
    <3>1. /\ Before(F, Release(i), CancelOf(i))
          /\ In(F) \cap CancelOf(i) # {} => M.inv[i].reason # Nil
          /\ In(F) \cap Release(i) # {} /\ M.inv[i].reason # Nil =>
               "fault" \in M.latch \/ In(F) \cap CancelOf(i) # {}
      BY <2>3 DEF Orderly
    <3>2. Head(F) \in CancelOf(i) => In(F) \cap Release(i) = {}
      BY <2>2, <3>1
    <3> QED
      BY <2>2, <3>1, <3>2
  <2>5. Orderly(M, Tail(F))
    BY <2>2, <2>4 DEF Orderly
  <2> QED
    BY <2>1, <2>5
<1>3. Orderly(M, Q)
  <2> SUFFICES ASSUME NEW i \in Invocation
               PROVE  /\ Before(Q, Release(i), CancelOf(i))
                      /\ In(Q) \cap CancelOf(i) # {} => M.inv[i].reason # Nil
                      /\ In(Q) \cap Release(i) # {} /\ M.inv[i].reason # Nil =>
                           "fault" \in M.latch \/ In(Q) \cap CancelOf(i) # {}
    BY DEF Orderly
  <2>1. /\ Before(F, Release(i), CancelOf(i))
        /\ In(F) \cap CancelOf(i) # {} => M.inv[i].reason # Nil
        /\ In(F) \cap Release(i) # {} /\ M.inv[i].reason # Nil =>
             "fault" \in M.latch \/ In(F) \cap CancelOf(i) # {}
    BY DEF Orderly
  <2>2. /\ Before(Q, Release(i), CancelOf(i))
        /\ In(S) \cap CancelOf(i) # {} => In(Q) \cap Release(i) = {}
    BY <2>1, PipeConcat
  <2> HIDE DEF F
  <2>3. In(Q) \subseteq In(F) /\ (In(F) \cap CancelOf(i) # {} =>
          In(S) \cap CancelOf(i) # {} \/ In(Q) \cap CancelOf(i) # {})
    BY <1>1
  <2> QED
    BY <2>1, <2>2, <2>3
<1>4. ASSUME "fault" \in M.latch PROVE Orderly(M, S)
  <2>1. \A i \in Invocation : Before(S, Release(i), CancelOf(i))
    BY PipeConcat DEF Orderly
  <2> QED
    BY <1>1, <1>4, <2>1 DEF Orderly
<1>5. ASSUME S = <<>> PROVE Orderly(M, S)
  <2>1. In(S) = {} /\ \A A, B : Before(S, A, B)
    BY <1>5 DEF In, Before
  <2> QED
    BY <2>1 DEF Orderly
<1> QED
  BY <1>2, <1>3, <1>4, <1>5

(* What a step adds to the queue: start and invoke are queued by their own.  *)
Later == {f \in ToChild : f[1] \in {"stop", "fatal", "release", "cancel"}}

Grows(M, C) ==
  /\ "startSent" \notin M.latch => C.queue = M.queue
  /\ In(C.queue) \subseteq In(M.queue) \cup Later

Started(M) == \A i \in Invocation : M.inv[i].stream # "none" => "startSent" \in M.latch

(* A step under the mutex that opens nothing, and leaves the frames in order *)
(* behind whatever is in the pipe.                                           *)
Smooth(M, C) ==
  /\ Sound(C) /\ Mild(M, C) /\ Grows(M, C)
  /\ \A S \in Seq(ToChild) : Orderly(M, S \o M.queue) => Orderly(C, S \o C.queue)

LEMMA SmoothChain ==
  ASSUME NEW M, NEW C, NEW D, Smooth(M, C), Smooth(C, D)
  PROVE  Smooth(M, D)
<1>1. Mild(M, D)
  BY DEF Smooth, Mild
<1>2. Grows(M, D)
  BY DEF Smooth, Mild, Grows
<1> QED
  BY <1>1, <1>2 DEF Smooth

LEMMA StartedMild ==
  ASSUME NEW M, NEW C, Started(M), Mild(M, C)
  PROVE  Started(C)
BY DEF Started, Mild

LEMMA SmoothSame ==
  ASSUME NEW M, Sound(M)
  PROVE  Smooth(M, M)
BY DEF Smooth, Mild, Grows

(* One frame is queued.                                                      *)
LEMMA GrowsOne ==
  ASSUME NEW M, Tidy(M), NEW C, NEW f \in Later, "startSent" \in M.latch,
         C.queue = Append(M.queue, f)
  PROVE  Grows(M, C)
<1>1. M.queue \in Seq(ToChild) /\ f \in ToChild
  BY EngineParts DEF Tidy, Later
<1>2. In(Append(M.queue, f)) = In(M.queue) \cup {f}
  BY <1>1, PipeAppend
<1> QED
  BY <1>2 DEF Grows

LEMMA LaterForms ==
  /\ <<"fatal">> \in Later /\ <<"stop">> \in Later
  /\ \A i \in Invocation, r \in {"context", "stop"} : <<"cancel", i, r>> \in Later
  /\ \A i \in Invocation, n \in Nat : <<"release", i, n>> \in Later
BY DEF Later, ToChild

LEMMA SmoothFades ==
  ASSUME EngineAssumption, NEW M, Sound(M), NEW C, Sound(C), Fades(M, C)
  PROVE  Smooth(M, C)
<1>1. Mild(M, C) /\ Faulted(C)
  BY DEF Fades
<1>2. CASE C.queue = M.queue
  <2>1. Grows(M, C)
    BY <1>2 DEF Grows
  <2>2. \A S \in Seq(ToChild) : Orderly(M, S \o M.queue) => Orderly(C, S \o C.queue)
    BY <1>1, <1>2, OrderlyMild
  <2> QED
    BY <1>1, <2>1, <2>2 DEF Smooth
<1>3. CASE "startSent" \in M.latch /\ C.queue = Append(M.queue, <<"fatal">>)
  <2>1. Grows(M, C)
    BY <1>3, GrowsOne, LaterForms DEF Sound
  <2>2. M.queue \in Seq(ToChild)
    BY EngineParts DEF Sound, Tidy
  <2>3. <<"fatal">> \in ToChild
    BY DEF ToChild
  <2>4. \A i \in Invocation : <<"fatal">> \notin Release(i) /\ <<"fatal">> \notin CancelOf(i)
    BY DEF Release, CancelOf, Of
  <2>5. ASSUME NEW S \in Seq(ToChild), Orderly(M, S \o M.queue)
        PROVE  Orderly(C, S \o C.queue)
    <3>1. Orderly(C, Append(S \o M.queue, <<"fatal">>))
      BY <1>1, <2>3, <2>4, <2>5, OrderlyMild
    <3>2. S \o Append(M.queue, <<"fatal">>) = Append(S \o M.queue, <<"fatal">>)
      BY <2>2, <2>3, PipeMoves
    <3> QED
      BY <1>3, <3>1, <3>2
  <2> QED
    BY <1>1, <2>1, <2>5 DEF Smooth
<1> QED
  BY <1>2, <1>3 DEF Fades

LEMMA SmoothCanceled ==
  ASSUME EngineAssumption, NEW M, Sound(M), Started(M), NEW C, Sound(C), Mild(M, C),
         NEW i \in Invocation, Canceled(M, C, i)
  PROVE  Smooth(M, C)
<1>1. /\ C.inv[i].reason \in {"context", "stop"} /\ M.inv[i].stream = "open"
      /\ C.queue = Append(M.queue, <<"cancel", i, C.inv[i].reason>>)
  BY DEF Canceled
<1>2. "startSent" \in M.latch
  BY <1>1 DEF Started
<1>3. <<"cancel", i, C.inv[i].reason>> \in Later
  BY <1>1, LaterForms
<1>4. Grows(M, C)
  BY <1>1, <1>2, <1>3, GrowsOne DEF Sound
<1>5. M.queue \in Seq(ToChild) /\ <<"cancel", i, C.inv[i].reason>> \in ToChild
  BY <1>3, EngineParts DEF Sound, Tidy, Later
<1>6. ASSUME NEW S \in Seq(ToChild), Orderly(M, S \o M.queue)
      PROVE  Orderly(C, S \o C.queue)
  <2>1. Orderly(C, Append(S \o M.queue, <<"cancel", i, C.inv[i].reason>>))
    BY <1>6, OrderlyCanceled
  <2>2. S \o Append(M.queue, <<"cancel", i, C.inv[i].reason>>)
          = Append(S \o M.queue, <<"cancel", i, C.inv[i].reason>>)
    BY <1>5, PipeMoves
  <2> QED
    BY <1>1, <2>1, <2>2
<1> QED
  BY <1>4, <1>6 DEF Smooth

(* The methods under the mutex.                                              *)
LEMMA SmoothFail ==
  ASSUME EngineAssumption, NEW M, Sound(M), NEW send \in BOOLEAN
  PROVE  Smooth(M, Fail(M, {}, send)) /\ Smooth(M, Reject(M))
<1>1. LET C == Fail(M, {}, send) IN Fades(M, C) /\ Sound(C)
  BY FailFacts DEF Sound
<1>2. LET C == Reject(M) IN Fades(M, C) /\ Sound(C)
  BY FailFacts DEF Sound, Reject
<1> QED
  BY <1>1, <1>2, SmoothFades

LEMMA SmoothCancel ==
  ASSUME EngineAssumption, NEW M, Sound(M), Started(M), NEW i \in Invocation,
         NEW why \in {"context", "stop"}
  PROVE  Smooth(M, Cancel(M, i, why)) /\ Smooth(M, Observed(M, i))
<1>1. ASSUME NEW C, Sound(C), Mild(M, C), C = M \/ Canceled(M, C, i) \/ Fades(M, C)
      PROVE  Smooth(M, C)
  BY <1>1, SmoothSame, SmoothCanceled, SmoothFades
<1>2. LET C == Cancel(M, i, why) IN
      Sound(C) /\ Mild(M, C) /\ (C = M \/ Canceled(M, C, i) \/ Fades(M, C))
  BY CancelFacts
<1>3. LET C == Observed(M, i) IN
      Sound(C) /\ Mild(M, C) /\ (C = M \/ Canceled(M, C, i) \/ Fades(M, C))
  BY ObservedFacts
<1> QED
  BY <1>1, <1>2, <1>3

LEMMA SmoothEnqueue ==
  ASSUME EngineAssumption, NEW M, Sound(M), NEW f \in Later, "startSent" \in M.latch,
         \A i \in Invocation : f \notin CancelOf(i) /\ (f \in Release(i) => M.inv[i].reason = Nil)
  PROVE  Smooth(M, Enqueue(M, f))
<1> DEFINE C == Enqueue(M, f)
<1>1. f \in ToChild /\ M.queue \in Seq(ToChild)
  BY EngineParts DEF Sound, Tidy, Later
<1>2. Sound(C) /\ Mild(M, C) /\ (Queued(M, C, f) \/ Fades(M, C))
  BY <1>1, EnqueueFacts DEF Sound
<1> HIDE DEF C
<1>3. ASSUME Queued(M, C, f) PROVE Smooth(M, C)
  <2>1. Grows(M, C)
    BY <1>3, GrowsOne DEF Queued, Sound
  <2>2. \A i \in Invocation : C.inv[i].reason = M.inv[i].reason
    BY <1>3 DEF Queued
  <2>3. ASSUME NEW S \in Seq(ToChild), Orderly(M, S \o M.queue)
        PROVE  Orderly(C, S \o C.queue)
    <3>1. Orderly(C, Append(S \o M.queue, f))
      <4>1. CASE \A i \in Invocation : f \notin Release(i)
        BY <1>1, <1>2, <2>2, <2>3, <4>1, OrderlyMild
      <4>2. CASE \E i \in Invocation : f \in Release(i)
        <5>1. PICK i \in Invocation : f \in Release(i)
          BY <4>2
        <5>2. \E n \in Nat : f = <<"release", i, n>>
          BY <5>1 DEF Release, Of, ToChild
        <5> QED
          BY <1>2, <2>2, <2>3, <5>1, <5>2, OrderlyReleased
      <4> QED
        BY <4>1, <4>2
    <3>2. S \o Append(M.queue, f) = Append(S \o M.queue, f)
      BY <1>1, PipeMoves
    <3> QED
      BY <1>3, <3>1, <3>2 DEF Queued
  <2> QED
    BY <1>2, <2>1, <2>3 DEF Smooth
<1>4. ASSUME Fades(M, C) PROVE Smooth(M, C)
  BY <1>2, <1>4, SmoothFades
<1> QED
  BY <1>2, <1>3, <1>4 DEF C

LEMMA SmoothCanceledIn ==
  ASSUME EngineAssumption, NEW M, Sound(M), Started(M), NEW last \in Orders(Open(M))
  PROVE  Smooth(M, CanceledIn(M, Open(M), last))
<1> DEFINE Good == {D \in Engines : Smooth(M, D)}
<1>1. IsFiniteSet(Open(M))
  BY FS_Subset DEF Open, EngineAssumption
<1>2. M \in Good
  BY SmoothSame DEF Sound, Tidy
<1>3. ASSUME NEW D \in Good, NEW i \in Open(M) PROVE Cancel(D, i, "stop") \in Good
  <2>1. Sound(D) /\ Started(D) /\ i \in Invocation
    BY StartedMild DEF Smooth, Open
  <2>2. Smooth(D, Cancel(D, i, "stop"))
    BY <2>1, SmoothCancel
  <2>3. Smooth(M, Cancel(D, i, "stop"))
    BY <2>2, SmoothChain
  <2> QED
    BY <2>3 DEF Smooth, Sound, Tidy
<1> HIDE DEF Good
<1>4. CanceledIn(M, Open(M), last) \in Good
  BY <1>1, <1>2, <1>3, CanceledInGood
<1> QED
  BY <1>4 DEF Good

-----------------------------------------------------------------------------
(* The adapter, with any child.                                              *)

Typed(M, T, F, c) ==
  /\ Sound(M) /\ T \in Seq(ToChild) /\ F \in Seq(FromChild)
  /\ c \in {"none", "alive", "ok", "bad"}

(* Start is the first frame, and nothing is opened before it was answered.   *)
Begun(M, T) ==
  /\ "startSent" \notin M.latch => T = <<>> /\ In(M.queue) \subseteq {<<"start">>}
  /\ <<"start">> \in In(M.queue) => "startSent" \notin M.latch /\ Once(M.queue, {<<"start">>})
  /\ \A i \in Invocation : <<"invoke", i>> \in In(M.queue) => M.inv[i].stream # "none"
  /\ \A i \in Invocation : M.inv[i].stream # "none" => "ready" \in M.latch
  /\ "ready" \in M.latch => "startSent" \in M.latch

(* The child is launched by Start, which Stop may forestall.                 *)
Starting(M, s, c) ==
  /\ s \in {"new", "launching"} => c = "none"
  /\ s = "launching" => "launched" \notin M.latch
  /\ s = "new" /\ "launched" \in M.latch => "stopping" \in M.latch
  /\ c = "none" => M.queue = <<>> /\ "startSent" \notin M.latch
  /\ c # "none" => "launched" \in M.latch

(* What ends, ends in order, and for a reason.                               *)
Ending(M, w, T, c) ==
  /\ "written" \in M.latch => w = Nil
  /\ "eof" \in M.latch => {"read", "stopped"} \subseteq M.latch /\ c \in {"ok", "bad"}
  /\ "exit" \in M.latch => c \in {"ok", "bad"} /\ (c = "bad" => "fault" \in M.latch)
  /\ c \in {"ok", "bad"} => T = <<>>
  /\ "writerCanceled" \in M.latch => "fault" \in M.latch \/ "eof" \in M.latch

(* Stop has its proof from what was seen before.                             *)
Stopping(M, t, s, c) ==
  /\ t # "idle" => "stopping" \in M.latch
  /\ t \in {"grace", "abort", "reap"} => c # "none"
  /\ t = "reap" /\ "fault" \notin M.latch =>
       {"stopped", "eof"} \subseteq M.latch /\ Open(M) = {}
  /\ t = "ok" /\ c = "none" => "launched" \in M.latch /\ s # "launching"
  /\ t = "ok" /\ c # "none" =>
       /\ c = "ok" /\ Open(M) = {}
       /\ {"read", "written", "exit", "stopped", "eof"} \subseteq M.latch

Eng(M, w, s, t, T, F, c) ==
  /\ Typed(M, T, F, c) /\ Orderly(M, T \o M.queue) /\ Begun(M, T)
  /\ Starting(M, s, c) /\ Ending(M, w, T, c) /\ Stopping(M, t, s, c)

EngineInv == Eng(mu, writing, start, stop, toPeer, fromPeer, child)

LEMMA EngSmooth ==
  ASSUME NEW M, NEW w, NEW s, NEW t, NEW T, NEW F, NEW c, Eng(M, w, s, t, T, F, c),
         NEW C, Smooth(M, C)
  PROVE  Eng(C, w, s, t, T, F, c)
<1>1. /\ Sound(C) /\ M.latch \subseteq C.latch /\ C.latch \subseteq M.latch \cup {"fault", "protocol"}
      /\ \A i \in Invocation :
            C.inv[i].stream = M.inv[i].stream \/ (M.inv[i].stream = "open" /\ C.inv[i].stream = "closed")
      /\ "startSent" \notin M.latch => C.queue = M.queue
      /\ In(C.queue) \subseteq In(M.queue) \cup Later
  BY DEF Smooth, Mild, Grows
<1>2. Open(C) \subseteq Open(M)
  BY <1>1 DEF Open
<1>3. <<"start">> \notin Later /\ \A i \in Invocation : <<"invoke", i>> \notin Later
  BY DEF Later
<1>4. Typed(C, T, F, c) /\ Orderly(C, T \o C.queue)
  BY <1>1 DEF Eng, Typed, Smooth
<1>5. Begun(C, T)
  BY <1>1, <1>3 DEF Eng, Begun
<1>6. Starting(C, s, c)
  BY <1>1 DEF Eng, Starting
<1>7. Ending(C, w, T, c)
  BY <1>1 DEF Eng, Ending
<1>8. Stopping(C, t, s, c)
  BY <1>1, <1>2 DEF Eng, Stopping
<1> QED
  BY <1>4, <1>5, <1>6, <1>7, <1>8 DEF Eng

(* Flags are set.                                                            *)
LEMMA LatchFacts ==
  ASSUME NEW M, Sound(M), NEW X \in SUBSET (Flags \ {"fault"})
  PROVE  LET C == Latch(M, X) IN
         /\ Sound(C) /\ C.latch = M.latch \cup X /\ C.queue = M.queue /\ C.inv = M.inv
         /\ Open(C) = Open(M)
<1> DEFINE C == Latch(M, X)
<1>1. M \in Engines /\ M.latch \subseteq Flags
  BY EngineParts DEF Sound, Tidy
<1>2. C \in Engines /\ C.latch = M.latch \cup X /\ C.queue = M.queue /\ C.inv = M.inv
  BY <1>1 DEF Engines, Latch
<1> HIDE DEF C
<1>3. "fault" \in C.latch <=> "fault" \in M.latch
  BY <1>2
<1>4. \A i \in Invocation : Regular(M.inv[i], C.latch) /\ Bridged(M.inv[i], C.latch)
  BY <1>3 DEF Sound, Tidy, Regular, Bridged
<1> QED
  BY <1>2, <1>4 DEF Sound, Tidy, Open, C

LEMMA EngFlags ==
  ASSUME NEW M, NEW w, NEW s, NEW t, NEW T, NEW F, NEW c, Eng(M, w, s, t, T, F, c),
         NEW X \in SUBSET (Flags \ {"fault"}),
         "startSent" \notin X, "ready" \in X => "startSent" \in M.latch,
         "launched" \in X => s # "launching" /\ (s = "new" => "stopping" \in X),
         "written" \in X => w = Nil,
         "eof" \in X => {"read", "stopped"} \subseteq M.latch \cup X /\ c \in {"ok", "bad"},
         "exit" \in X => c \in {"ok", "bad"} /\ (c = "bad" => "fault" \in M.latch),
         "writerCanceled" \in X => "fault" \in M.latch \/ "eof" \in M.latch
  PROVE  Eng(Latch(M, X), w, s, t, T, F, c)
<1> DEFINE C == Latch(M, X)
<1>1. /\ Sound(C) /\ C.latch = M.latch \cup X /\ C.queue = M.queue /\ C.inv = M.inv
      /\ Open(C) = Open(M)
  BY LatchFacts DEF Eng, Typed
<1> HIDE DEF C
<1>2. "fault" \in C.latch <=> "fault" \in M.latch
  BY <1>1
<1>3. Typed(C, T, F, c) /\ Orderly(C, T \o C.queue)
  BY <1>1, <1>2 DEF Eng, Typed, Orderly
<1>4. Begun(C, T)
  BY <1>1 DEF Eng, Begun
<1>5. Starting(C, s, c)
  BY <1>1 DEF Eng, Starting
<1>6. Ending(C, w, T, c)
  BY <1>1 DEF Eng, Ending
<1>7. Stopping(C, t, s, c)
  BY <1>1 DEF Eng, Stopping
<1> QED
  BY <1>3, <1>4, <1>5, <1>6, <1>7 DEF Eng, C

(* The child reads, or is gone, with what was on the way to it.              *)
LEMMA EngChild ==
  ASSUME NEW M, NEW w, NEW s, NEW t, NEW T, NEW F, NEW c, Eng(M, w, s, t, T, F, c),
         NEW T2, NEW F2 \in Seq(FromChild), NEW c2,
         c2 = c \/ (c = "alive" /\ c2 \in {"ok", "bad"}),
         T2 = T \/ (T # <<>> /\ T2 = Tail(T)) \/ T2 = <<>>,
         c2 \in {"ok", "bad"} => T2 = <<>>
  PROVE  Eng(M, w, s, t, T2, F2, c2)
<1>1. T \in Seq(ToChild) /\ M.queue \in Seq(ToChild) /\ Orderly(M, T \o M.queue)
  BY EngineParts DEF Eng, Typed, Sound, Tidy
<1>2. Typed(M, T2, F2, c2)
  <2>1. T2 \in Seq(ToChild)
    <3>1. T # <<>> => Tail(T) \in Seq(ToChild)
      BY <1>1, PipeTail
    <3>2. <<>> \in Seq(ToChild)
      OBVIOUS
    <3> QED
      BY <1>1, <3>1, <3>2
  <2> QED
    BY <2>1 DEF Eng, Typed
<1>3. Orderly(M, T2 \o M.queue)
  <2>1. CASE T2 = <<>>
    <3>1. <<>> \o M.queue = M.queue
      BY <1>1, PipeMoves
    <3> QED
      BY <1>1, <2>1, <3>1, OrderlyLoses
  <2>2. CASE T # <<>> /\ T2 = Tail(T)
    BY <1>1, <2>2, OrderlyLoses
  <2> QED
    BY <1>1, <2>1, <2>2
<1>4. Begun(M, T2)
  BY DEF Eng, Begun
<1>5. Starting(M, s, c2)
  BY DEF Eng, Starting
<1>6. Ending(M, w, T2, c2)
  BY DEF Eng, Ending
<1>7. Stopping(M, t, s, c2)
  BY DEF Eng, Stopping
<1> QED
  BY <1>2, <1>3, <1>4, <1>5, <1>6, <1>7 DEF Eng

(* The writer takes a frame.                                                 *)
LEMMA EngWrites ==
  ASSUME EngineAssumption, NEW M, NEW w, NEW s, NEW t, NEW T, NEW F, NEW c,
         Eng(M, w, s, t, T, F, c), M.queue # <<>>, c # "none", "written" \notin M.latch
  PROVE  LET f == Head(M.queue) IN
         Eng(Marked([M EXCEPT !.queue = Tail(@)], f), f, s, t,
             IF c \in {"ok", "bad"} THEN T ELSE Append(T, f), F, c)
<1> DEFINE f == Head(M.queue)
           N == [M EXCEPT !.queue = Tail(@)]
           C == Marked(N, f)
           T2 == IF c \in {"ok", "bad"} THEN T ELSE Append(T, f)
<1>1. /\ M \in Engines /\ M.queue \in Seq(ToChild) /\ M.latch \subseteq Flags
      /\ \A i \in Invocation : M.inv[i] \in Streams /\ Regular(M.inv[i], M.latch)
                               /\ Bridged(M.inv[i], M.latch)
      /\ T \in Seq(ToChild) /\ F \in Seq(FromChild) /\ Orderly(M, T \o M.queue)
  BY EngineParts DEF Eng, Typed, Sound, Tidy
<1>2. /\ Tail(M.queue) \in Seq(ToChild) /\ f \in ToChild
      /\ In(M.queue) = {f} \cup In(Tail(M.queue))
      /\ \A A : Once(M.queue, A) =>
           Once(Tail(M.queue), A) /\ (f \in A => In(Tail(M.queue)) \cap A = {})
  BY <1>1, PipeTail
<1>3. /\ N \in Engines /\ N.queue = Tail(M.queue) /\ N.latch = M.latch /\ N.inv = M.inv
  BY <1>1, <1>2 DEF Engines
<1>4. T2 \o Tail(M.queue) = T \o M.queue \/ (T2 = <<>> /\ T = <<>>)
  <2>1. CASE c \in {"ok", "bad"}
    BY <2>1 DEF Eng, Ending
  <2>2. CASE c \notin {"ok", "bad"}
    <3>1. T2 = Append(T, Head(M.queue))
      BY <2>2
    <3> HIDE DEF T2
    <3>2. Append(T, Head(M.queue)) \o Tail(M.queue) = T \o M.queue
      BY <1>1, PipeMoves
    <3> QED
      BY <3>1, <3>2
  <2> HIDE DEF f, N, C, T2
  <2> QED
    BY <2>1, <2>2
<1>5. T2 \in Seq(ToChild)
  BY <1>1, <1>2, PipeAppend
<1> HIDE DEF f, N, T2
<1>6. /\ C \in Engines /\ C.queue = Tail(M.queue)
      /\ C.latch = M.latch \cup (IF f = <<"start">> THEN {"startSent"} ELSE {})
                           \cup (IF f = <<"stop">> THEN {"stopSent"} ELSE {})
      /\ \A i \in Invocation :
           C.inv[i] = IF f = <<"invoke", i>> THEN [M.inv[i] EXCEPT !.sending = TRUE] ELSE M.inv[i]
  <2>1. ASSUME NEW x \in {"startSent", "stopSent"}
        PROVE  LET L == Latch(N, {x}) IN
               L \in Engines /\ L.queue = N.queue /\ L.inv = N.inv /\ L.latch = N.latch \cup {x}
    <3>1. N.latch \cup {x} \in SUBSET Flags
      BY <1>1, <1>3 DEF Flags
    <3> QED
      BY <1>3, <3>1 DEF Latch, Engines
  <2>4. CASE f = <<"start">>
    <3>1. C = Latch(N, {"startSent"})
      BY <2>4 DEF Marked
    <3> HIDE DEF C
    <3> QED
      BY <1>3, <2>1, <2>4, <3>1
  <2>5. CASE f = <<"stop">>
    <3>1. C = Latch(N, {"stopSent"})
      BY <2>5 DEF Marked
    <3> HIDE DEF C
    <3> QED
      BY <1>3, <2>1, <2>5, <3>1
  <2>2. CASE f \in {"invoke"} \X Invocation
    <3>1. C = [N EXCEPT !.inv[f[2]].sending = TRUE] /\ f[2] \in Invocation
      BY <2>2 DEF Marked
    <3>2. [M.inv[f[2]] EXCEPT !.sending = TRUE] \in Streams
      BY <1>1, <3>1 DEF Streams
    <3> DEFINE u == [M.inv[f[2]] EXCEPT !.sending = TRUE]
    <3>3. C = [N EXCEPT !.inv[f[2]] = u]
      BY <1>1, <1>3, <3>1 DEF Engines
    <3> HIDE DEF u, C
    <3>4. /\ C \in Engines /\ C.queue = N.queue /\ C.latch = N.latch
          /\ C.inv = [N.inv EXCEPT ![f[2]] = u]
      BY <1>3, <3>1, <3>2, <3>3 DEF Engines, u
    <3>5. \A i \in Invocation : C.inv[i] = IF i = f[2] THEN u ELSE M.inv[i]
      BY <1>1, <1>3, <3>1, <3>4 DEF Engines
    <3>6. \A i \in Invocation : f = <<"invoke", i>> <=> i = f[2]
      BY <2>2
    <3>7. f # <<"start">> /\ f # <<"stop">>
      BY <2>2
    <3> QED
      BY <1>3, <3>4, <3>5, <3>6, <3>7 DEF u
  <2>3. CASE f[1] \notin {"start", "stop", "invoke"}
    BY <1>3, <2>3 DEF Marked
  <2> QED
    BY <1>2, <2>2, <2>3, <2>4, <2>5 DEF ToChild
<1> HIDE DEF C
<1>7. ASSUME NEW i \in Invocation
      PROVE  /\ Regular(C.inv[i], C.latch) /\ Bridged(C.inv[i], C.latch)
             /\ C.inv[i].stream = M.inv[i].stream /\ C.inv[i].reason = M.inv[i].reason
  <2>1. f = <<"invoke", i>> => M.inv[i].stream # "none"
    BY <1>2 DEF Eng, Begun
  <2>2. "fault" \in C.latch <=> "fault" \in M.latch
    BY <1>6
  <2>3. CASE f = <<"invoke", i>>
    <3>1. C.inv[i] = [M.inv[i] EXCEPT !.sending = TRUE]
      BY <1>6, <2>3
    <3> QED
      BY <1>1, <2>1, <2>2, <2>3, <3>1 DEF Streams, Regular, Bridged
  <2>4. CASE f # <<"invoke", i>>
    BY <1>1, <1>6, <2>2, <2>4 DEF Regular, Bridged
  <2> QED
    BY <2>3, <2>4
<1>8. Typed(C, T2, F, c)
  BY <1>1, <1>5, <1>6, <1>7 DEF Eng, Typed, Sound, Tidy
<1>9. Orderly(C, T2 \o C.queue)
  <2>1. Orderly(M, T2 \o C.queue)
    <3>1. CASE T2 = <<>> /\ T = <<>>
      <4>1. M.queue \o <<>> = M.queue /\ Tail(M.queue) \o <<>> = Tail(M.queue)
            /\ <<>> \o M.queue = M.queue /\ <<>> \o Tail(M.queue) = Tail(M.queue)
        BY <1>1, <1>2, PipeMoves
      <4>2. Orderly(M, Tail(M.queue) \o <<>>)
        BY <1>1, <3>1, <4>1, OrderlyLoses
      <4> QED
        BY <1>6, <3>1, <4>1, <4>2
    <3> QED
      BY <1>1, <1>4, <1>6, <3>1
  <2>2. "fault" \in M.latch => "fault" \in C.latch
    BY <1>6
  <2> QED
    BY <1>7, <2>1, <2>2 DEF Orderly
<1>10. Begun(C, T2)
  <2>1. "startSent" \notin C.latch => FALSE
    BY <1>2, <1>6 DEF Eng, Begun
  <2>2. <<"start">> \notin In(C.queue)
    BY <1>2, <1>6 DEF Eng, Begun
  <2>3. \A i \in Invocation : <<"invoke", i>> \in In(C.queue) => C.inv[i].stream # "none"
    BY <1>2, <1>6, <1>7 DEF Eng, Begun
  <2>4. \A i \in Invocation : C.inv[i].stream # "none" => "ready" \in C.latch
    BY <1>6, <1>7 DEF Eng, Begun
  <2> QED
    BY <2>1, <2>2, <2>3, <2>4 DEF Begun
<1>11. Starting(C, s, c)
  BY <1>6 DEF Eng, Starting
<1>12. Ending(C, f, T2, c)
  <2>1. c \in {"ok", "bad"} => T2 = <<>>
    BY DEF Eng, Ending, T2
  <2> QED
    BY <1>6, <2>1 DEF Eng, Ending
<1>13. Stopping(C, t, s, c)
  <2>1. Open(C) = Open(M)
    BY <1>7 DEF Open
  <2> QED
    BY <1>6, <2>1 DEF Eng, Stopping
<1> QED
  BY <1>8, <1>9, <1>10, <1>11, <1>12, <1>13 DEF Eng, C, N, T2, f

(* The writer is gone, and with it the queue.                                *)
LEMMA EngWriterEnds ==
  ASSUME NEW M, NEW s, NEW t, NEW T, NEW F, NEW c, Eng(M, Nil, s, t, T, F, c),
         "fault" \in M.latch \/ T = <<>>
  PROVE  Eng(Latch([M EXCEPT !.queue = <<>>], {"written"}), Nil, s, t, T, F, c)
<1> DEFINE N == [M EXCEPT !.queue = <<>>]
<1>1. M \in Engines /\ T \in Seq(ToChild) /\ M.queue \in Seq(ToChild) /\ Orderly(M, T \o M.queue)
  BY EngineParts DEF Eng, Typed, Sound, Tidy
<1>2. N \in Engines /\ N.queue = <<>> /\ N.latch = M.latch /\ N.inv = M.inv
  <2>1. <<>> \in Seq(ToChild)
    OBVIOUS
  <2> QED
    BY <1>1, <2>1 DEF Engines
<1> HIDE DEF N
<1>3. T \o <<>> = T /\ In(<<>>) = {}
  BY <1>1, PipeMoves
<1>4. Sound(N)
  BY <1>2 DEF Eng, Typed, Sound, Tidy
<1>5. Orderly(N, T \o N.queue)
  <2>1. Orderly(M, T)
    BY <1>1, OrderlyLoses DEF Faulted
  <2> QED
    BY <1>2, <1>3, <2>1 DEF Orderly
<1>6. Open(N) = Open(M)
  BY <1>2 DEF Open
<1>7. Typed(N, T, F, c) /\ Begun(N, T)
  BY <1>2, <1>3, <1>4 DEF Eng, Typed, Begun
<1>8. Starting(N, s, c) /\ Ending(N, Nil, T, c)
  BY <1>2 DEF Eng, Starting, Ending
<1>9. Stopping(N, t, s, c)
  BY <1>2, <1>6 DEF Eng, Stopping
<1>10. Eng(N, Nil, s, t, T, F, c)
  BY <1>5, <1>7, <1>8, <1>9 DEF Eng
<1>11. Eng(Latch(N, {"written"}), Nil, s, t, T, F, c)
  BY <1>10, EngFlags DEF Flags
<1> QED
  BY <1>11 DEF N

(* What bridges do.                                                          *)
LEMMA UnwoundSmooth ==
  ASSUME NEW M, NEW C, NEW i \in Invocation, Sound(C), Mild(M, C), Unwound(M, C, i), M \in Engines
  PROVE  Smooth(M, C)
<1>1. Grows(M, C)
  BY DEF Grows, Unwound
<1>2. \A j \in Invocation : C.inv[j].reason = M.inv[j].reason
  <2>1. C.inv[i].reason = M.inv[i].reason
    <3>1. M.inv[i] \in Streams
      BY EngineParts
    <3> QED
      BY <3>1 DEF Unwound, Streams
  <2> QED
    BY <2>1 DEF Unwound
<1>3. C.queue = M.queue /\ C.latch = M.latch
  BY DEF Unwound
<1>4. \A S \in Seq(ToChild) : Orderly(M, S \o M.queue) => Orderly(C, S \o C.queue)
  BY <1>2, <1>3 DEF Orderly
<1> QED
  BY <1>1, <1>4 DEF Smooth

LEMMA SmoothUnwinds ==
  ASSUME EngineAssumption, NEW M, Sound(M), NEW i \in Invocation, M.inv[i].bridges > 0,
         M.inv[i].reason # Nil \/ "fault" \in M.latch
  PROVE  Smooth(M, BridgeEnds(M, i))
<1>1. Tidy(M) /\ M \in Engines /\ Regular(M.inv[i], M.latch)
      /\ \A j \in Invocation : Bridged(M.inv[j], M.latch)
  BY DEF Sound, Tidy
<1>2. ~ M.inv[i].outstanding
  BY <1>1 DEF Regular
<1>3. LET C == BridgeEnds(M, i) IN Sound(C) /\ Mild(M, C) /\ Unwound(M, C, i)
  BY <1>1, <1>2, BridgeEndsFacts
<1> QED
  BY <1>1, <1>3, UnwoundSmooth

LEMMA SmoothReleases ==
  ASSUME EngineAssumption, NEW M, Sound(M), Started(M), NEW i \in Invocation,
         M.inv[i].bridges > 0, M.inv[i].reason = Nil, "fault" \notin M.latch
  PROVE  Smooth(M, BridgeEnds([Enqueue(M, <<"release", i, M.inv[i].arrival>>)
                                 EXCEPT !.inv[i].outstanding = FALSE], i))
<1> DEFINE f == <<"release", i, M.inv[i].arrival>>
           D == Enqueue(M, f)
           N == [D EXCEPT !.inv[i].outstanding = FALSE]
           C == BridgeEnds(N, i)
<1>1. M \in Engines /\ M.inv[i] \in Streams /\ Regular(M.inv[i], M.latch) /\ Tidy(M)
  BY EngineParts DEF Sound, Tidy
<1>2. M.inv[i].stream # "none" /\ M.inv[i].arrival \in Nat
  BY <1>1 DEF Regular, Unused, Streams
<1>3. "startSent" \in M.latch
  BY <1>2 DEF Started
<1>4. f \in Later /\ f \in ToChild
  BY <1>2, LaterForms DEF Later
<1>5. \A j \in Invocation : f \notin CancelOf(j) /\ (f \in Release(j) => M.inv[j].reason = Nil)
  BY <1>2 DEF CancelOf, Release, Of
<1> HIDE DEF f
<1>6. Smooth(M, D)
  BY <1>3, <1>4, <1>5, SmoothEnqueue
<1>7. Queued(M, D, f) \/ Fades(M, D)
  BY <1>1, <1>4, EnqueueFacts
<1> HIDE DEF D
<1>8. /\ D \in Engines /\ D.inv[i] \in Streams /\ D.inv[i].bridges > 0
      /\ Sound(D) /\ \A j \in Invocation : Regular(D.inv[j], D.latch) /\ Bridged(D.inv[j], D.latch)
  BY <1>6, <1>7, EngineParts DEF Smooth, Sound, Tidy, Queued, Fades
<1> DEFINE u == [D.inv[i] EXCEPT !.outstanding = FALSE]
<1>9. u \in Streams /\ Regular(u, D.latch) /\ ~ u.outstanding /\ u.bridges > 0
      /\ u.reason = D.inv[i].reason /\ u.stream = D.inv[i].stream /\ u.sending = D.inv[i].sending
  BY <1>8 DEF Streams, Regular, Unused
<1>10. N = [D EXCEPT !.inv[i] = u]
  BY <1>8 DEF Engines
<1> HIDE DEF u, N
<1>11. /\ N \in Engines /\ N.latch = D.latch /\ N.queue = D.queue /\ N.inv[i] = u
       /\ \A j \in Invocation \ {i} : N.inv[j] = D.inv[j]
  BY <1>8, <1>9, <1>10 DEF Engines
<1>12. Tidy(N)
  BY <1>8, <1>9, <1>11 DEF Tidy
<1>13. Sound(C) /\ Mild(N, C) /\ Unwound(N, C, i)
  BY <1>8, <1>9, <1>11, <1>12, BridgeEndsFacts
<1> HIDE DEF C
<1>14. Mild(D, C) 
  BY <1>9, <1>11, <1>13 DEF Mild
<1>15. \A j \in Invocation : C.inv[j].reason = D.inv[j].reason
  <2>1. C.inv[i].reason = D.inv[i].reason
    BY <1>9, <1>11, <1>13 DEF Unwound, Streams
  <2> QED
    BY <1>11, <1>13, <2>1 DEF Unwound
<1>16. C.queue = D.queue /\ C.latch = D.latch
  BY <1>11, <1>13 DEF Unwound
<1>17. Smooth(D, C)
  <2>1. \A S \in Seq(ToChild) : Orderly(D, S \o D.queue) => Orderly(C, S \o C.queue)
    BY <1>15, <1>16 DEF Orderly
  <2> QED
    BY <1>13, <1>14, <1>16, <2>1 DEF Smooth, Grows
<1> QED
  BY <1>6, <1>17, SmoothChain DEF C, N, D, f

(* What is received.                                                         *)
LEMMA SmoothAccepts ==
  ASSUME EngineAssumption, NEW M, Sound(M), Started(M), NEW f \in FromChild, NEW C, Sound(C),
         Accepts(M, f, C), f[1] \notin {"ready", "stopped"}
  PROVE  Smooth(M, C)
<1> DEFINE i == f[2]
<1>1. M \in Engines /\ M.inv \in [Invocation -> Streams]
  BY EngineParts DEF Sound, Tidy
<1>2. CASE C = M
  BY <1>2, SmoothSame
<1>3. CASE C # M /\ Canceled(M, C, i)
  <2>1. i \in Invocation
    BY <1>3, FromForms DEF Accepts
  <2>2. M.inv[i] \in Streams
    BY <1>1, <2>1
  <2>3. C.inv[i].stream = M.inv[i].stream /\ C.inv[i].sending = M.inv[i].sending
    BY <1>3, <2>2 DEF Canceled, Streams
  <2>4. Mild(M, C)
    BY <1>3, <2>1, <2>3 DEF Canceled, Mild
  <2> QED
    BY <1>3, <2>1, <2>4, SmoothCanceled
<1>4. CASE C # M /\ ~ Canceled(M, C, i)
  <2>1. i \in Invocation /\ M.inv[i].stream = "open"
    BY <1>4, FromForms DEF Accepts
  <2>2. M.inv[i] \in Streams
    BY <1>1, <2>1
  <2>3. PICK u : /\ C = [M EXCEPT !.inv[i] = u] /\ u.reason = M.inv[i].reason
                 /\ u.sending = M.inv[i].sending /\ u.stream \in {"open", "closed"}
    <3>1. CASE C = [M EXCEPT !.inv[i] = [@ EXCEPT !.accepted = TRUE]]
      <4> DEFINE v == [M.inv[i] EXCEPT !.accepted = TRUE]
      <4>1. C = [M EXCEPT !.inv[i] = v]
        BY <3>1
      <4>2. v.reason = M.inv[i].reason /\ v.sending = M.inv[i].sending
            /\ v.stream \in {"open", "closed"}
        BY <2>1, <2>2 DEF Streams
      <4> HIDE DEF v
      <4> QED
        BY <4>1, <4>2
    <3>2. CASE C = [M EXCEPT !.inv[i] = [@ EXCEPT !.arrival = f[3], !.outstanding = TRUE,
                                                 !.bridges = 1]]
      <4> DEFINE v == [M.inv[i] EXCEPT !.arrival = f[3], !.outstanding = TRUE, !.bridges = 1]
      <4>1. C = [M EXCEPT !.inv[i] = v]
        BY <3>2
      <4>2. v.reason = M.inv[i].reason /\ v.sending = M.inv[i].sending
            /\ v.stream \in {"open", "closed"}
        BY <2>1, <2>2 DEF Streams
      <4> HIDE DEF v
      <4> QED
        BY <4>1, <4>2
    <3>3. CASE C = [M EXCEPT !.inv[i] = [@ EXCEPT !.terminal = f,
                                                 !.stream = IF M.inv[i].bridges = 0
                                                            THEN "closed" ELSE "open"]]
      <4> DEFINE v == [M.inv[i] EXCEPT !.terminal = f,
                           !.stream = IF M.inv[i].bridges = 0 THEN "closed" ELSE "open"]
      <4>1. C = [M EXCEPT !.inv[i] = v]
        BY <3>3
      <4>2. v.reason = M.inv[i].reason /\ v.sending = M.inv[i].sending
            /\ v.stream \in {"open", "closed"}
        BY <2>1, <2>2 DEF Streams
      <4> HIDE DEF v
      <4> QED
        BY <4>1, <4>2
    <3> QED
      BY <1>4, <3>1, <3>2, <3>3 DEF Accepts
  <2>4. /\ C.latch = M.latch /\ C.queue = M.queue /\ C.inv[i] = u
        /\ \A j \in Invocation \ {i} : C.inv[j] = M.inv[j]
    BY <1>1, <2>1, <2>3 DEF Engines
  <2>5. Mild(M, C)
    BY <2>1, <2>3, <2>4 DEF Mild
  <2>6. \A j \in Invocation : C.inv[j].reason = M.inv[j].reason
    BY <2>3, <2>4
  <2>7. \A S \in Seq(ToChild) : Orderly(M, S \o M.queue) => Orderly(C, S \o C.queue)
    BY <2>4, <2>6 DEF Orderly
  <2> QED
    BY <2>4, <2>5, <2>7 DEF Smooth, Grows
<1> QED
  BY <1>2, <1>3, <1>4

(* A frame is queued that is not one of a cancellation or release.           *)
LEMMA EngQueued ==
  ASSUME NEW M, NEW w, NEW s, NEW t, NEW T, NEW F, NEW c, Eng(M, w, s, t, T, F, c),
         NEW C, Sound(C), NEW f \in ToChild, Queued(M, C, f), c # "none",
         \/ f = <<"start">> /\ M.queue = <<>> /\ "startSent" \notin M.latch
         \/ \E i \in Invocation : f = <<"invoke", i>> /\ M.inv[i].stream # "none"
  PROVE  Eng(C, w, s, t, T, F, c)
<1>1. /\ T \in Seq(ToChild) /\ M.queue \in Seq(ToChild) /\ Orderly(M, T \o M.queue)
      /\ C.latch = M.latch /\ C.queue = Append(M.queue, f) /\ C.inv = M.inv
  BY EngineParts DEF Eng, Typed, Sound, Tidy, Queued
<1>2. In(C.queue) = In(M.queue) \cup {f}
  BY <1>1, PipeAppend
<1>3. Typed(C, T, F, c)
  BY DEF Eng, Typed
<1>4. Orderly(C, T \o C.queue)
  <2>1. T \o C.queue = Append(T \o M.queue, f)
    BY <1>1, PipeMoves
  <2>2. Mild(M, C)
    BY <1>1 DEF Mild
  <2>3. \A i \in Invocation : f \notin Release(i) /\ f \notin CancelOf(i)
    BY DEF Release, CancelOf, Of
  <2> QED
    BY <1>1, <2>1, <2>2, <2>3, OrderlyMild
<1>5. Begun(C, T)
  <2>1. CASE f = <<"start">> /\ M.queue = <<>> /\ "startSent" \notin M.latch
    <3>1. In(M.queue) = {}
      BY <1>1, <2>1, PipeMoves
    <3>2. Once(C.queue, {<<"start">>})
      <4>1. Once(M.queue, {<<"start">>})
        BY <2>1 DEF Once
      <4> QED
        BY <1>1, <3>1, <4>1, PipeAppend
    <3> QED
      BY <1>1, <1>2, <2>1, <3>1, <3>2 DEF Eng, Begun
  <2>2. CASE \E i \in Invocation : f = <<"invoke", i>> /\ M.inv[i].stream # "none"
    <3>1. "startSent" \in M.latch /\ f # <<"start">>
      BY <2>2 DEF Eng, Begun
    <3> QED
      BY <1>1, <1>2, <2>2, <3>1 DEF Eng, Begun
  <2> QED
    BY <2>1, <2>2
<1>6. Open(C) = Open(M)
  BY <1>1 DEF Open
<1>7. Starting(C, s, c) /\ Ending(C, w, T, c)
  BY <1>1 DEF Eng, Starting, Ending
<1>8. Stopping(C, t, s, c)
  BY <1>1, <1>6 DEF Eng, Stopping
<1> QED
  BY <1>3, <1>4, <1>5, <1>7, <1>8 DEF Eng

LEMMA EngStarted ==
  ASSUME NEW M, NEW w, NEW s, NEW t, NEW T, NEW F, NEW c, Eng(M, w, s, t, T, F, c)
  PROVE  Sound(M) /\ Started(M) /\ Tidy(M) /\ M \in Engines
BY DEF Eng, Typed, Begun, Started, Sound, Tidy

(* Start moves on.                                                           *)
LEMMA EngMoves ==
  ASSUME NEW M, NEW w, NEW s, NEW t, NEW T, NEW F, NEW c, Eng(M, w, s, t, T, F, c)
  PROVE  /\ \A s2 \in {"ok", "failed"} : Eng(M, w, s2, t, T, F, c)
         /\ c # "none" => Eng(M, w, "waiting", t, T, F, c)
         /\ s = "new" /\ "stopping" \notin M.latch => Eng(M, w, "launching", t, T, F, c)
         /\ Eng(M, Nil, s, t, T, F, c)
         /\ \A t2 : Stopping(M, t2, s, c) => Eng(M, w, s, t2, T, F, c)
<1>1. ASSUME NEW s2 \in {"ok", "failed"} PROVE Eng(M, w, s2, t, T, F, c)
  <2>1. Starting(M, s2, c) /\ Stopping(M, t, s2, c)
    BY DEF Eng, Starting, Stopping
  <2> QED
    BY <2>1 DEF Eng
<1>2. ASSUME c # "none" PROVE Eng(M, w, "waiting", t, T, F, c)
  <2>1. Starting(M, "waiting", c) /\ Stopping(M, t, "waiting", c)
    BY <1>2 DEF Eng, Starting, Stopping
  <2> QED
    BY <2>1 DEF Eng
<1>3. ASSUME s = "new", "stopping" \notin M.latch PROVE Eng(M, w, "launching", t, T, F, c)
  <2>1. Starting(M, "launching", c) /\ Stopping(M, t, "launching", c)
    BY <1>3 DEF Eng, Starting, Stopping
  <2> QED
    BY <2>1 DEF Eng
<1>4. Eng(M, Nil, s, t, T, F, c)
  <2>1. Ending(M, Nil, T, c)
    BY DEF Eng, Ending
  <2> QED
    BY <2>1 DEF Eng
<1>5. ASSUME NEW t2, Stopping(M, t2, s, c) PROVE Eng(M, w, s, t2, T, F, c)
  BY <1>5 DEF Eng
<1> QED
  BY <1>1, <1>2, <1>3, <1>4, <1>5

LEMMA EngFail ==
  ASSUME EngineAssumption,
         NEW M, NEW w, NEW s, NEW t, NEW T, NEW F, NEW c, Eng(M, w, s, t, T, F, c),
         NEW send \in BOOLEAN
  PROVE  LET C == Fail(M, {}, send) IN
         /\ Eng(C, w, s, t, T, F, c) /\ "fault" \in C.latch /\ M.latch \subseteq C.latch
<1>1. Sound(M) /\ Tidy(M)
  BY EngStarted
<1>2. LET C == Fail(M, {}, send) IN Smooth(M, C) /\ Fades(M, C)
  BY <1>1, SmoothFail, FailFacts
<1> QED
  BY <1>2, EngSmooth DEF Fades, Mild, Faulted

(* The process is launched.                                                  *)
LEMMA EngLaunched ==
  ASSUME EngineAssumption,
         NEW M, NEW w, NEW t, NEW T, NEW F, Eng(M, w, "launching", t, T, F, "none")
  PROVE  LET L == Latch(M, {"launched"}) IN
         /\ Eng(L, w, "waiting", t, T, F, "alive")
         /\ Eng(Enqueue(L, <<"start">>), w, "waiting", t, T, F, "alive")
         /\ Eng(L, w, "failed", t, T, F, "none")
<1> DEFINE L == Latch(M, {"launched"})
<1>1. Sound(L) /\ L.latch = M.latch \cup {"launched"} /\ L.queue = M.queue /\ L.inv = M.inv
      /\ Open(L) = Open(M)
  BY EngStarted, LatchFacts DEF Flags
<1> HIDE DEF L
<1>2. /\ M.queue = <<>> /\ "startSent" \notin M.latch /\ "launched" \notin M.latch
      /\ t \notin {"grace", "abort", "reap", "ok"}
      /\ "eof" \notin M.latch /\ "exit" \notin M.latch
  BY DEF Eng, Starting, Stopping, Ending
<1>3. ASSUME NEW s \in {"waiting", "failed"}, NEW c \in {"alive", "none"},
             s = "waiting" => c = "alive"
      PROVE  Eng(L, w, s, t, T, F, c)
  <2>1. Typed(L, T, F, c)
    BY <1>1, <1>3 DEF Eng, Typed
  <2>2. Orderly(L, T \o L.queue) /\ Begun(L, T)
    BY <1>1 DEF Eng, Orderly, Begun
  <2>3. Starting(L, s, c)
    BY <1>1, <1>2, <1>3 DEF Starting
  <2>4. Ending(L, w, T, c)
    BY <1>1, <1>2, <1>3 DEF Eng, Ending
  <2>5. Stopping(L, t, s, c)
    BY <1>1, <1>2 DEF Eng, Stopping
  <2> QED
    BY <2>1, <2>2, <2>3, <2>4, <2>5 DEF Eng
<1>4. Eng(L, w, "waiting", t, T, F, "alive") /\ Eng(L, w, "failed", t, T, F, "none")
  BY <1>3
<1> DEFINE C == Enqueue(L, <<"start">>)
<1>5. <<"start">> \in ToChild
  BY DEF ToChild
<1>6. Sound(C) /\ (Queued(L, C, <<"start">>) \/ Fades(L, C))
  BY <1>1, <1>5, EnqueueFacts DEF Sound
<1> HIDE DEF C
<1>7. ASSUME Queued(L, C, <<"start">>) PROVE Eng(C, w, "waiting", t, T, F, "alive")
  BY <1>1, <1>2, <1>4, <1>5, <1>6, <1>7, EngQueued
<1>8. ASSUME Fades(L, C) PROVE Eng(C, w, "waiting", t, T, F, "alive")
  BY <1>1, <1>4, <1>6, <1>8, SmoothFades, EngSmooth
<1> QED
  BY <1>4, <1>6, <1>7, <1>8 DEF L, C

(* A stream is opened.                                                       *)
LEMMA EngInvoke ==
  ASSUME EngineAssumption,
         NEW M, NEW w, NEW s, NEW t, NEW T, NEW F, NEW c, Eng(M, w, s, t, T, F, c),
         NEW i \in Invocation, M.inv[i].stream = "none",
         "ready" \in M.latch, "stopping" \notin M.latch
  PROVE  Eng(Enqueue([M EXCEPT !.inv[i].stream = "open"], <<"invoke", i>>), w, s, t, T, F, c)
<1> DEFINE u == [M.inv[i] EXCEPT !.stream = "open"]
           N == [M EXCEPT !.inv[i].stream = "open"]
           C == Enqueue(N, <<"invoke", i>>)
<1>1. /\ M \in Engines /\ M.inv[i] = Unused /\ Unused \in Streams
      /\ \A j \in Invocation : M.inv[j] \in Streams /\ Regular(M.inv[j], M.latch)
                               /\ Bridged(M.inv[j], M.latch)
  <2>1. Unused \in Streams
    BY DEF Unused, Streams
  <2> QED
    BY <2>1, EngStarted, EngineParts DEF Sound, Tidy, Regular
<1>2. u \in Streams /\ Regular(u, M.latch) /\ Bridged(u, M.latch) /\ u.stream = "open"
      /\ u.reason = M.inv[i].reason
  BY <1>1 DEF Unused, Streams, Regular, Bridged
<1>3. N = [M EXCEPT !.inv[i] = u]
  BY <1>1 DEF Engines
<1> HIDE DEF u, N
<1>4. /\ N \in Engines /\ N.latch = M.latch /\ N.queue = M.queue /\ N.inv[i] = u
      /\ \A j \in Invocation \ {i} : N.inv[j] = M.inv[j]
  BY <1>1, <1>2, <1>3 DEF Engines
<1>5. Sound(N)
  BY <1>1, <1>2, <1>4 DEF Sound, Tidy
<1>6. \A j \in Invocation : N.inv[j].reason = M.inv[j].reason
  BY <1>2, <1>4
<1>7. \A j \in Invocation : M.inv[j].stream # "none" => N.inv[j].stream # "none"
  BY <1>2, <1>4
<1>8. Typed(N, T, F, c) /\ Orderly(N, T \o N.queue)
  BY <1>4, <1>5, <1>6 DEF Eng, Typed, Orderly
<1>9. Begun(N, T)
  BY <1>4, <1>7 DEF Eng, Begun
<1>10. Starting(N, s, c) /\ Ending(N, w, T, c) /\ c # "none"
  BY <1>4 DEF Eng, Starting, Ending, Begun
<1>11. Stopping(N, t, s, c)
  BY <1>4 DEF Eng, Stopping
<1>12. Eng(N, w, s, t, T, F, c)
  BY <1>8, <1>9, <1>10, <1>11 DEF Eng
<1>13. <<"invoke", i>> \in ToChild
  BY DEF ToChild
<1>14. Sound(C) /\ (Queued(N, C, <<"invoke", i>>) \/ Fades(N, C))
  BY <1>5, <1>13, EnqueueFacts DEF Sound
<1> HIDE DEF C
<1>15. N.inv[i].stream # "none"
  BY <1>2, <1>4
<1>16. ASSUME Queued(N, C, <<"invoke", i>>) PROVE Eng(C, w, s, t, T, F, c)
  BY <1>10, <1>12, <1>13, <1>14, <1>15, <1>16, EngQueued
<1>17. ASSUME Fades(N, C) PROVE Eng(C, w, s, t, T, F, c)
  BY <1>5, <1>12, <1>14, <1>17, SmoothFades, EngSmooth
<1> QED
  BY <1>14, <1>16, <1>17 DEF C, N

(* Start and Invoke.                                                         *)
LEMMA StartKeeps ==
  ASSUME EngineAssumption, EngineInv, StartStep
  PROVE  EngineInv'
<1> USE DEF EngineInv, Call
<1>1. CASE StartBegins
  BY <1>1, EngMoves DEF StartBegins, Has
<1>2. CASE Launched
  <2>1. child = "none"
    BY <1>2 DEF Launched, Eng, Starting
  <2>2. mu' = Latch(mu, {"launched"}) \/ mu' = Enqueue(Latch(mu, {"launched"}), <<"start">>)
    BY <1>2 DEF Launched
  <2> QED
    BY <1>2, <2>1, <2>2, EngLaunched DEF Launched
<1>3. CASE LaunchFails
  <2>1. child = "none"
    BY <1>3 DEF LaunchFails, Eng, Starting
  <2>2. Eng(Latch(mu, {"launched"}), writing, "failed", stop, toPeer, fromPeer, "none")
    BY <1>3, <2>1, EngLaunched DEF LaunchFails
  <2>3. Eng(Fail(Latch(mu, {"launched"}), {}, FALSE), writing, "failed", stop, toPeer, fromPeer, "none")
    BY <2>2, EngFail
  <2> QED
    BY <1>3, <2>1, <2>3 DEF LaunchFails
<1>4. CASE StartReturns
  BY <1>4, EngMoves DEF StartReturns
<1>5. CASE StartFails
  <2>1. mu' = mu \/ mu' = Fail(mu, {}, TRUE)
    BY <1>5 DEF StartFails
  <2>2. Eng(mu', writing, start, stop, toPeer, fromPeer, child)
    BY <2>1, EngFail
  <2> QED
    BY <1>5, <2>2, EngMoves DEF StartFails
<1> QED
  BY <1>1, <1>2, <1>3, <1>4, <1>5 DEF StartStep

LEMMA InvokeKeeps ==
  ASSUME EngineAssumption, EngineInv, NEW i \in Invocation, Invoke(i) \/ WatchContext(i)
  PROVE  EngineInv'
<1> USE DEF EngineInv, Call
<1>1. CASE Invoke(i)
  BY <1>1, EngInvoke DEF Invoke, Has
<1>2. CASE WatchContext(i)
  <2>1. Smooth(mu, mu')
    BY <1>2, EngStarted, SmoothCancel DEF WatchContext
  <2> QED
    BY <1>2, <2>1, EngSmooth DEF WatchContext
<1> QED
  BY <1>1, <1>2

(* writeLoop.                                                                *)
LEMMA WriterKeeps ==
  ASSUME EngineAssumption, EngineInv, WriterStep
  PROVE  EngineInv'
<1> USE DEF EngineInv, Call
<1>1. CASE WriteBegins
  <2>1. mu.queue # <<>> /\ child # "none" /\ "written" \notin mu.latch
    BY <1>1 DEF WriteBegins, Writes, Has
  <2> QED
    BY <1>1, <2>1, EngWrites DEF WriteBegins, Exited
<1>2. CASE WriteReturns
  BY <1>2, EngMoves DEF WriteReturns
<1>3. CASE WriteFails
  <2>1. Eng(mu, Nil, start, stop, toPeer, fromPeer, child)
    BY EngMoves
  <2>2. Eng(Latch(mu, {"written"}), Nil, start, stop, toPeer, fromPeer, child)
    BY <2>1, EngFlags DEF Flags
  <2>3. Eng(Fail(Latch(mu, {"written"}), {}, FALSE), Nil, start, stop, toPeer, fromPeer, child)
    BY <2>2, EngFail
  <2> QED
    BY <1>3, <2>3 DEF WriteFails
<1>4. CASE WriterEnds
  <2> DEFINE W == Latch([mu EXCEPT !.queue = <<>>], {"written"})
  <2>1. writing = Nil
    BY <1>4 DEF WriterEnds, Writes
  <2>2. \/ mu' = W /\ Has("writerCanceled")
        \/ mu' = W /\ mu.queue # <<>> /\ Head(mu.queue) = <<"start">>
        \/ mu' = Fail(W, {}, FALSE)
    BY <1>4 DEF WriterEnds
  <2>3. CASE mu' = W
    <3>1. "fault" \in mu.latch \/ toPeer = <<>>
      <4>1. CASE Has("writerCanceled")
        BY <4>1 DEF Has, Eng, Ending
      <4>2. CASE mu.queue # <<>> /\ Head(mu.queue) = <<"start">>
        <5>1. <<"start">> \in In(mu.queue)
          <6>1. mu.queue \in Seq(ToChild)
            BY EngStarted, EngineParts
          <6> QED
            BY <4>2, <6>1, PipeTail
        <5> QED
          BY <5>1 DEF Eng, Begun
      <4>3. CASE mu' = Fail(W, {}, FALSE)
        <5>1. "fault" \in W.latch => "fault" \in mu.latch
          <6>1. mu \in Engines
            BY EngStarted
          <6> QED
            BY <6>1 DEF Latch, Engines
        <5>2. "fault" \in mu'.latch
          <6> HIDE DEF W
          <6> QED
            BY <4>3 DEF Fail, Faulted
        <5> QED
          BY <2>3, <5>1, <5>2
      <4> QED
        BY <2>2, <4>1, <4>2, <4>3
    <3>2. Eng(W, Nil, start, stop, toPeer, fromPeer, child)
      BY <2>1, <3>1, EngWriterEnds
    <3> QED
      BY <1>4, <2>1, <2>3, <3>2 DEF WriterEnds
  <2>4. CASE mu' = Fail(W, {}, FALSE)
    <3> DEFINE D == Fail(mu, {}, FALSE)
               V == Latch([D EXCEPT !.queue = <<>>], {"written"})
    <3>1. Eng(D, Nil, start, stop, toPeer, fromPeer, child) /\ "fault" \in D.latch
      BY <2>1, EngFail
    <3>2. Eng(V, Nil, start, stop, toPeer, fromPeer, child)
      <4> HIDE DEF D
      <4> QED
        BY <3>1, EngWriterEnds
    <3>3. V = Fail(W, {}, FALSE)
      <4>1. mu \in Engines
        BY EngStarted
      <4>2. /\ W.latch = mu.latch \cup {"written"} /\ W.queue = <<>> /\ W.inv = mu.inv
            /\ W \in [latch : SUBSET Flags, queue : Seq(ToChild), inv : [Invocation -> Streams]]
        <5>1. mu.latch \cup {"written"} \in SUBSET Flags /\ <<>> \in Seq(ToChild)
          BY <4>1, EngineParts DEF Flags
        <5> QED
          BY <4>1, <5>1 DEF Latch, Engines
      <4>3. CASE "fault" \in mu.latch
        <5>1. D = mu
          BY <4>3 DEF Fail, Faulted
        <5>2. Fail(W, {}, FALSE) = W
          <6> HIDE DEF W
          <6> QED
            BY <4>2, <4>3 DEF Fail, Faulted
        <5> QED
          BY <5>1, <5>2
      <4>4. CASE "fault" \notin mu.latch
        <5>1. D = [latch |-> mu.latch \cup {"fault"}, queue |-> mu.queue,
                   inv |-> [i \in Invocation |-> Dropped(mu.inv[i])]]
          <6>1. mu.latch \cup {"fault"} \cup {} = mu.latch \cup {"fault"}
            OBVIOUS
          <6> QED
            BY <4>4, <6>1 DEF Fail, Faulted, Dropped
        <5>2. Fail(W, {}, FALSE)
                = [latch |-> mu.latch \cup {"written"} \cup {"fault"}, queue |-> <<>>,
                   inv |-> [i \in Invocation |-> Dropped(mu.inv[i])]]
          <6>1. W.latch \cup {"fault"} \cup {} = mu.latch \cup {"written"} \cup {"fault"}
            BY <4>2
          <6>2. "fault" \notin W.latch
            BY <4>2, <4>4
          <6> HIDE DEF W
          <6> QED
            BY <4>2, <6>1, <6>2 DEF Fail, Faulted, Dropped
        <5>3. V = [latch |-> mu.latch \cup {"fault"} \cup {"written"}, queue |-> <<>>,
                   inv |-> [i \in Invocation |-> Dropped(mu.inv[i])]]
          <6> DEFINE E == [D EXCEPT !.queue = <<>>]
          <6> HIDE DEF D
          <6> DEFINE I == [i \in Invocation |-> Dropped(mu.inv[i])]
                     A == mu.latch \cup {"fault"}
          <6> HIDE DEF I, A
          <6>3. D = [latch |-> A, queue |-> mu.queue, inv |-> I]
            BY <5>1 DEF I, A
          <6>1. E = [latch |-> A, queue |-> <<>>, inv |-> I]
            BY <6>3
          <6>2. V = [E EXCEPT !.latch = E.latch \cup {"written"}]
            BY DEF Latch
          <6> HIDE DEF E, V
          <6>4. V = [latch |-> A \cup {"written"}, queue |-> <<>>, inv |-> I]
            BY <6>1, <6>2
          <6> QED
            BY <6>4 DEF I, A
        <5>4. mu.latch \cup {"fault"} \cup {"written"} = mu.latch \cup {"written"} \cup {"fault"}
          OBVIOUS
        <5> QED
          BY <5>2, <5>3, <5>4
      <4> QED
        BY <4>3, <4>4
    <3> HIDE DEF V, D, W
    <3> QED
      BY <1>4, <2>1, <2>4, <3>2, <3>3 DEF WriterEnds
  <2> QED
    BY <2>2, <2>3, <2>4
<1> QED
  BY <1>1, <1>2, <1>3, <1>4 DEF WriterStep

(* readLoop and watchExit.                                                   *)
LEMMA ReaderKeeps ==
  ASSUME EngineAssumption, EngineInv, ReaderStep
  PROVE  EngineInv'
<1> USE DEF EngineInv, Call
<1>0. /\ Eng(mu, writing, start, stop, toPeer, fromPeer, child)
      /\ toPeer \in Seq(ToChild) /\ fromPeer \in Seq(FromChild)
      /\ child \in {"none", "alive", "ok", "bad"}
      /\ Sound(mu) /\ Started(mu)
  BY EngStarted DEF Eng, Typed
<1>1. CASE ReadFrame
  <2> DEFINE f == Head(fromPeer)
             C == Received(mu, f)
  <2>1. f \in FromChild /\ Tail(fromPeer) \in Seq(FromChild)
    BY <1>0, <1>1, PipeTail DEF ReadFrame
  <2>2. Eng(mu, writing, start, stop, toPeer, Tail(fromPeer), child)
    BY <1>0, <2>1, EngChild DEF Eng, Ending
  <2>3. CASE Faulted(mu)
    BY <1>1, <2>2, <2>3 DEF ReadFrame
  <2>4. CASE ~ Faulted(mu)
    <3>1. mu' = C /\ fromPeer' = Tail(fromPeer)
          /\ UNCHANGED <<writing, start, stop, toPeer, child>>
      BY <1>1, <2>4 DEF ReadFrame
    <3>2. Sound(C) /\ (Fades(mu, C) \/ Accepts(mu, f, C))
      BY <1>0, <2>1, <2>4, ReceivedFacts
    <3> HIDE DEF C, f
    <3>3. ASSUME Smooth(mu, C) PROVE EngineInv'
      BY <2>2, <3>1, <3>3, EngSmooth
    <3>4. CASE Fades(mu, C)
      BY <1>0, <3>2, <3>3, <3>4, SmoothFades
    <3>5. CASE Accepts(mu, f, C) /\ f[1] \notin {"ready", "stopped"}
      BY <1>0, <2>1, <3>2, <3>3, <3>5, SmoothAccepts
    <3>6. CASE Accepts(mu, f, C) /\ f[1] = "ready"
      <4>1. C = Latch(mu, {"ready"}) /\ "startSent" \in mu.latch
        BY <3>6 DEF Accepts, Latch
      <4>2. Eng(C, writing, start, stop, toPeer, Tail(fromPeer), child)
        BY <2>2, <4>1, EngFlags DEF Flags
      <4> QED
        BY <3>1, <4>2
    <3>7. CASE Accepts(mu, f, C) /\ f[1] = "stopped"
      <4>1. C = Latch(mu, {"stopped"})
        BY <3>7 DEF Accepts, Latch
      <4>2. Eng(C, writing, start, stop, toPeer, Tail(fromPeer), child)
        BY <2>2, <4>1, EngFlags DEF Flags
      <4> QED
        BY <3>1, <4>2
    <3> QED
      BY <3>2, <3>4, <3>5, <3>6, <3>7
  <2> QED
    BY <2>3, <2>4
<1>2. CASE ReadEnds
  <2>1. CASE Exited /\ Has("stopped") /\ mu' = Latch(mu, {"read", "eof"})
    <3>1. Eng(mu', writing, start, stop, toPeer, fromPeer, child)
      BY <1>0, <2>1, EngFlags DEF Flags, Exited, Has
    <3> QED
      BY <1>2, <3>1 DEF ReadEnds
  <2>2. CASE mu' = Fail(Latch(mu, {"read"}), {}, FALSE)
    <3>1. Eng(Latch(mu, {"read"}), writing, start, stop, toPeer, fromPeer, child)
      BY <1>0, EngFlags DEF Flags
    <3>2. Eng(mu', writing, start, stop, toPeer, fromPeer, child)
      BY <2>2, <3>1, EngFail
    <3> QED
      BY <1>2, <3>2 DEF ReadEnds
  <2> QED
    BY <1>2, <2>1, <2>2 DEF ReadEnds
<1>3. CASE SeeExit
  <2> DEFINE X == {"exit"} \cup (IF child = "bad" THEN {"exitErr"} ELSE {})
  <2>1. X \in SUBSET (Flags \ {"fault"}) /\ X \subseteq {"exit", "exitErr"}
    BY DEF Flags
  <2>2. child \in {"ok", "bad"}
    BY <1>3 DEF SeeExit, Exited
  <2> HIDE DEF X
  <2>3. CASE child # "bad"
    <3>1. Eng(Latch(mu, X), writing, start, stop, toPeer, fromPeer, child)
      BY <1>0, <2>1, <2>2, <2>3, EngFlags
    <3>2. mu' = Latch(mu, X) \/ mu' = Fail(Latch(mu, X), {}, FALSE)
      BY <1>3 DEF SeeExit, X
    <3>3. Eng(mu', writing, start, stop, toPeer, fromPeer, child)
      BY <3>1, <3>2, EngFail
    <3> QED
      BY <1>3, <3>3 DEF SeeExit
  <2>4. CASE child = "bad"
    <3> DEFINE D == Fail(mu, {}, FALSE)
               L == Latch(mu, X)
    <3>1. mu' = Fail(L, {}, FALSE)
      BY <1>3, <2>4 DEF SeeExit, X
    <3>2. Eng(D, writing, start, stop, toPeer, fromPeer, child) /\ "fault" \in D.latch
      BY <1>0, EngFail
    <3> HIDE DEF D
    <3>3. Eng(Latch(D, X), writing, start, stop, toPeer, fromPeer, child)
      BY <2>1, <2>2, <3>2, EngFlags
    <3>4. Fail(L, {}, FALSE) = Latch(D, X)
      <4>1. mu \in Engines
        BY EngStarted
      <4>2. L = [latch |-> mu.latch \cup X, queue |-> mu.queue, inv |-> mu.inv]
        <5>1. mu = [latch |-> mu.latch, queue |-> mu.queue, inv |-> mu.inv]
          BY <4>1, EngineParts
        <5>2. L = [mu EXCEPT !.latch = mu.latch \cup X]
          BY DEF Latch
        <5> QED
          BY <5>1, <5>2
      <4> HIDE DEF L
      <4>3. CASE "fault" \in mu.latch
        <5>1. D = mu
          BY <4>3 DEF Fail, Faulted, D
        <5>2. Fail(L, {}, FALSE) = L
          BY <4>2, <4>3 DEF Fail, Faulted
        <5> QED
          BY <5>1, <5>2 DEF L
      <4>4. CASE "fault" \notin mu.latch
        <5>1. D = [latch |-> mu.latch \cup {"fault"}, queue |-> mu.queue,
                   inv |-> [i \in Invocation |-> Dropped(mu.inv[i])]]
          <6>1. mu.latch \cup {"fault"} \cup {} = mu.latch \cup {"fault"}
            OBVIOUS
          <6> QED
            BY <4>4, <6>1 DEF Fail, Faulted, Dropped, D
        <5>2. Fail(L, {}, FALSE)
                = [latch |-> mu.latch \cup {"fault"} \cup X, queue |-> mu.queue,
                   inv |-> [i \in Invocation |-> Dropped(mu.inv[i])]]
          <6>1. L.latch \cup {"fault"} \cup {} = mu.latch \cup {"fault"} \cup X
            BY <4>2
          <6>2. "fault" \notin L.latch
            BY <2>1, <4>2, <4>4
          <6> QED
            BY <4>2, <6>1, <6>2 DEF Fail, Faulted, Dropped
        <5>3. Latch(D, X) = [D EXCEPT !.latch = D.latch \cup X]
          BY DEF Latch
        <5> QED
          BY <5>1, <5>2, <5>3
      <4> QED
        BY <4>3, <4>4
    <3> QED
      BY <1>3, <3>1, <3>3, <3>4 DEF SeeExit
  <2> QED
    BY <2>3, <2>4
<1> QED
  BY <1>1, <1>2, <1>3 DEF ReaderStep

(* The bridges.                                                              *)
LEMMA BridgeKeeps ==
  ASSUME EngineAssumption, EngineInv, NEW i \in Invocation, BridgeStep(i)
  PROVE  EngineInv'
<1> USE DEF EngineInv, Call
<1> DEFINE C == Observed(mu, i)
<1>1. Sound(mu) /\ Started(mu) /\ mu.inv[i].bridges > 0
  BY EngStarted DEF BridgeStep, BridgeReleases, BridgeUnwinds, BridgeRefused
<1>2. Smooth(mu, C) /\ Sound(C) /\ Started(C) /\ C.inv[i].bridges = mu.inv[i].bridges
  <2>1. Smooth(mu, C) /\ (C = mu \/ Canceled(mu, C, i) \/ Fades(mu, C))
    BY <1>1, SmoothCancel, ObservedFacts
  <2>2. Started(C) /\ Sound(C)
    BY <1>1, <2>1, StartedMild DEF Smooth
  <2>3. C.inv[i].bridges = mu.inv[i].bridges
    <3>1. mu.inv[i] \in Streams
      BY EngStarted, EngineParts
    <3> HIDE DEF C
    <3> QED
      BY <2>1, <3>1 DEF Canceled, Fades, Streams
  <2> QED
    BY <2>1, <2>2, <2>3
<1> HIDE DEF C
<1>3. ASSUME NEW D, Smooth(C, D), mu' = D,
             UNCHANGED <<writing, start, stop, toPeer, fromPeer, child>>
      PROVE  EngineInv'
  <2>1. Smooth(mu, D)
    BY <1>2, <1>3, SmoothChain
  <2> QED
    BY <1>3, <2>1, EngSmooth
<1>4. CASE BridgeReleases(i)
  <2>1. CASE C.inv[i].reason = Nil /\ ~ Faulted(C)
    <3> DEFINE D == BridgeEnds([Enqueue(C, <<"release", i, C.inv[i].arrival>>)
                                  EXCEPT !.inv[i].outstanding = FALSE], i)
    <3>1. Smooth(C, D)
      BY <1>1, <1>2, <2>1, SmoothReleases DEF Faulted
    <3>2. mu' = D /\ UNCHANGED <<writing, start, stop, toPeer, fromPeer, child>>
      BY <1>4, <2>1 DEF BridgeReleases, C
    <3> HIDE DEF D
    <3> QED
      BY <1>3, <3>1, <3>2
  <2>2. CASE ~ (C.inv[i].reason = Nil /\ ~ Faulted(C))
    <3>1. Smooth(C, BridgeEnds(C, i))
      BY <1>1, <1>2, <2>2, SmoothUnwinds DEF Faulted
    <3>2. mu' = BridgeEnds(C, i) /\ UNCHANGED <<writing, start, stop, toPeer, fromPeer, child>>
      BY <1>4, <2>2 DEF BridgeReleases, C
    <3> QED
      BY <1>3, <3>1, <3>2
  <2> QED
    BY <2>1, <2>2
<1>5. CASE BridgeUnwinds(i)
  <2>1. mu.inv[i].reason # Nil \/ "fault" \in mu.latch
    BY <1>5 DEF BridgeUnwinds, ContextDone, Faulted
  <2>2. C.inv[i].reason # Nil \/ "fault" \in C.latch
    BY <1>2, <2>1 DEF Smooth, Mild
  <2>3. Smooth(C, BridgeEnds(C, i))
    BY <1>1, <1>2, <2>2, SmoothUnwinds
  <2>4. mu' = BridgeEnds(C, i) /\ UNCHANGED <<writing, start, stop, toPeer, fromPeer, child>>
    BY <1>5 DEF BridgeUnwinds, C
  <2> QED
    BY <1>3, <2>3, <2>4
<1>6. CASE BridgeRefused(i)
  <2> DEFINE D == Fail(C, {}, TRUE)
  <2>1. Smooth(C, D) /\ Fades(C, D)
    BY <1>2, SmoothFail, FailFacts DEF Sound
  <2>2. Sound(D) /\ D.inv[i].bridges > 0 /\ "fault" \in D.latch
    BY <1>1, <1>2, <2>1 DEF Smooth, Fades, Faulted
  <2>3. mu' = BridgeEnds(D, i) /\ UNCHANGED <<writing, start, stop, toPeer, fromPeer, child>>
    BY <1>6 DEF BridgeRefused, C
  <2> HIDE DEF D
  <2>4. Smooth(D, BridgeEnds(D, i))
    BY <2>2, SmoothUnwinds
  <2>5. Smooth(C, BridgeEnds(D, i))
    BY <2>1, <2>4, SmoothChain
  <2> QED
    BY <1>3, <2>3, <2>5
<1> QED
  BY <1>4, <1>5, <1>6 DEF BridgeStep

(* Stop and cleanup.                                                         *)
LEMMA KillKeeps ==
  ASSUME NEW M, NEW w, NEW s, NEW t, Eng(M, w, s, t, toPeer, fromPeer, child),
         child # "none", Kill
  PROVE  Eng(M, w, s, t, toPeer', fromPeer, child')
<1>1. child \in {"alive", "ok", "bad"} /\ fromPeer \in Seq(FromChild)
  BY DEF Eng, Typed
<1>2. toPeer' = <<>> /\ (child' = child \/ (child = "alive" /\ child' = "bad"))
  BY <1>1 DEF Kill, Exited
<1> QED
  BY <1>1, <1>2, EngChild

LEMMA CleanupKeeps ==
  ASSUME EngineAssumption, EngineInv, BeginStop \/ CleanupStep
  PROVE  EngineInv'
<1> USE DEF EngineInv, Call
<1>0. /\ Eng(mu, writing, start, stop, toPeer, fromPeer, child)
      /\ Sound(mu) /\ Started(mu) /\ mu \in Engines
  BY EngStarted
<1>1. CASE BeginStop
  <2> DEFINE X == {"stopping"} \cup (IF start = "new" THEN {"launched"} ELSE {})
  <2>1. X \in SUBSET (Flags \ {"fault"}) /\ X \subseteq {"stopping", "launched"}
        /\ "stopping" \in X /\ ("launched" \in X => start = "new")
    BY DEF Flags
  <2> HIDE DEF X
  <2>2. Eng(Latch(mu, X), writing, start, stop, toPeer, fromPeer, child)
    BY <1>0, <2>1, EngFlags
  <2>3. "stopping" \in Latch(mu, X).latch
    <3>1. Latch(mu, X).latch = mu.latch \cup X
      BY <1>0, <2>1, LatchFacts
    <3> QED
      BY <2>1, <3>1
  <2>4. Stopping(Latch(mu, X), "launch", start, child)
    BY <2>3 DEF Stopping
  <2>5. Eng(Latch(mu, X), writing, start, "launch", toPeer, fromPeer, child)
    BY <2>2, <2>4, EngMoves
  <2> QED
    BY <1>1, <2>5 DEF BeginStop, X
<1>2. CASE LaunchOutlasts
  <2>1. Stopping(mu, "error", start, child)
    BY <1>2 DEF LaunchOutlasts, Eng, Stopping
  <2> QED
    BY <1>2, <2>1, EngMoves DEF LaunchOutlasts
<1>3. CASE KillLate
  <2>1. Eng(Latch(mu, {"pipesClosed"}), writing, start, stop, toPeer, fromPeer, child)
    BY <1>0, EngFlags DEF Flags
  <2> QED
    BY <1>3, <2>1, KillKeeps DEF KillLate
<1>4. CASE StopWithoutChild
  <2>1. Stopping(mu, Answer(mu), start, child)
    BY <1>4 DEF StopWithoutChild, Eng, Stopping, Starting, Answer, Has
  <2> QED
    BY <1>4, <2>1, EngMoves DEF StopWithoutChild
<1>5. CASE CancelAll
  <2>1. PICK last \in Orders(Open(mu)) :
          LET C == CanceledIn(mu, Open(mu), last)
          IN IF Has("startSent")
             THEN Call(Enqueue(C, <<"stop">>)) /\ stop' = "grace"
             ELSE Call(C) /\ stop' = "abort"
    BY <1>5 DEF CancelAll
  <2> DEFINE C == CanceledIn(mu, Open(mu), last)
  <2>2. Smooth(mu, C)
    BY <1>0, SmoothCanceledIn
  <2>3. UNCHANGED <<writing, start, toPeer, fromPeer, child>> /\ child # "none" /\ stop = "launch"
    BY <1>5 DEF CancelAll
  <2>4. \/ mu' = Enqueue(C, <<"stop">>) /\ stop' = "grace" /\ "startSent" \in mu.latch
        \/ mu' = C /\ stop' = "abort"
    BY <2>1 DEF Has
  <2> HIDE DEF C
  <2>5. Smooth(mu, mu')
    <3>1. CASE mu' = C
      BY <2>2, <3>1
    <3>2. CASE mu' = Enqueue(C, <<"stop">>) /\ "startSent" \in mu.latch
      <4>1. Sound(C) /\ "startSent" \in C.latch
        BY <2>2, <3>2 DEF Smooth, Mild
      <4>2. <<"stop">> \in Later
        BY LaterForms
      <4>3. \A i \in Invocation : <<"stop">> \notin CancelOf(i) /\ <<"stop">> \notin Release(i)
        BY DEF CancelOf, Release, Of
      <4>4. Smooth(C, Enqueue(C, <<"stop">>))
        BY <4>1, <4>2, <4>3, SmoothEnqueue
      <4> QED
        BY <2>2, <3>2, <4>4, SmoothChain
    <3> QED
      BY <2>4, <3>1, <3>2
  <2>6. Eng(mu', writing, start, stop, toPeer, fromPeer, child)
    BY <1>0, <2>5, EngSmooth
  <2>7. Stopping(mu', stop', start, child)
    BY <2>3, <2>4, <2>6 DEF Eng, Stopping
  <2>8. Eng(mu', writing, start, stop', toPeer, fromPeer, child)
    BY <2>6, <2>7, EngMoves
  <2> QED
    BY <2>3, <2>8
<1>6. ASSUME NEW normal \in BOOLEAN, EndGrace(normal), stop \in {"grace", "abort"},
             normal => Proven
      PROVE  EngineInv'
  <2> DEFINE X == {"writerCanceled", "pipesClosed"}
  <2>1. child # "none" /\ "stopping" \in mu.latch
    BY <1>0, <1>6 DEF Eng, Stopping
  <2>2. UNCHANGED <<writing, start, fromPeer>> /\ stop' = "reap"
    BY <1>6 DEF EndGrace
  <2>3. CASE normal = TRUE
    <3>1. mu' = Latch(mu, X) /\ UNCHANGED <<child, toPeer>>
      BY <1>6, <2>3 DEF EndGrace
    <3>2. {"stopped", "eof"} \subseteq mu.latch /\ Open(mu) = {}
      BY <1>6, <2>3 DEF Proven
    <3>3. Eng(Latch(mu, X), writing, start, stop, toPeer, fromPeer, child)
      BY <1>0, <3>2, EngFlags DEF Flags
    <3>4. LET L == Latch(mu, X) IN L.latch = mu.latch \cup X /\ Open(L) = Open(mu)
      BY <1>0, LatchFacts DEF Flags
    <3>5. Stopping(mu', "reap", start, child)
      BY <2>1, <3>1, <3>2, <3>4 DEF Stopping
    <3>6. Eng(mu', writing, start, "reap", toPeer, fromPeer, child)
      BY <3>1, <3>3, <3>5, EngMoves
    <3> QED
      BY <2>2, <3>1, <3>6
  <2>4. CASE normal = FALSE
    <3> DEFINE D == Fail(mu, {}, FALSE)
    <3>1. mu' = Latch(D, X) /\ Kill
      BY <1>6, <2>4 DEF EndGrace
    <3>2. Eng(D, writing, start, stop, toPeer, fromPeer, child) /\ "fault" \in D.latch
          /\ mu.latch \subseteq D.latch
      BY <1>0, EngFail
    <3> HIDE DEF D
    <3>3. Eng(Latch(D, X), writing, start, stop, toPeer, fromPeer, child)
      BY <3>2, EngFlags DEF Flags
    <3>4. Latch(D, X).latch = D.latch \cup X
      BY <3>2, EngStarted, LatchFacts DEF Flags
    <3>5. Stopping(mu', "reap", start, child)
      BY <2>1, <3>1, <3>2, <3>4 DEF Stopping
    <3>6. Eng(mu', writing, start, "reap", toPeer, fromPeer, child)
      BY <3>1, <3>3, <3>5, EngMoves
    <3>7. Eng(mu', writing, start, "reap", toPeer', fromPeer, child')
      BY <2>1, <3>1, <3>6, KillKeeps
    <3> QED
      BY <2>2, <3>7
  <2> QED
    BY <2>3, <2>4
<1>7. CASE GraceEnds
  <2>1. Proven \in BOOLEAN
    BY DEF Proven
  <2> QED
    BY <1>6, <1>7, <2>1 DEF GraceEnds
<1>8. CASE StopReturns
  <2>1. Stopping(mu, Answer(mu), start, child)
    <3>1. CASE "fault" \in mu.latch
      <4>1. Answer(mu) = "error"
        BY <3>1 DEF Answer, Faulted
      <4> QED
        BY <1>0, <1>8, <4>1 DEF StopReturns, Eng, Stopping
    <3>2. CASE "fault" \notin mu.latch
      <4>1. child \in {"ok", "bad"} /\ child # "bad"
        BY <1>0, <1>8, <3>2 DEF StopReturns, Joined, Eng, Ending
      <4>2. {"read", "exit", "written", "stopped", "eof", "stopping"} \subseteq mu.latch
            /\ Open(mu) = {}
        BY <1>0, <1>8, <3>2 DEF StopReturns, Joined, Has, Eng, Stopping
      <4>3. Answer(mu) = "ok"
        BY <3>2 DEF Answer, Faulted
      <4> QED
        BY <4>1, <4>2, <4>3 DEF Stopping
    <3> QED
      BY <3>1, <3>2
  <2> QED
    BY <1>0, <1>8, <2>1, EngMoves DEF StopReturns
<1>9. CASE ReapExpires
  <2>1. Stopping(mu, "error", start, child)
    BY <1>0, <1>9 DEF ReapExpires, Eng, Stopping
  <2> QED
    BY <1>0, <1>9, <2>1, EngMoves DEF ReapExpires
<1> QED
  BY <1>1, <1>2, <1>3, <1>4, <1>5, <1>7, <1>8, <1>9 DEF CleanupStep

(* Every step of the adapter.                                                *)
LEMMA EngineKeeps ==
  ASSUME EngineAssumption, EngineInv, EngineStep
  PROVE  EngineInv'
<1>1. CASE ParentEnds
  <2>1. Eng(Latch(mu, {"parent"}), writing, start, stop, toPeer, fromPeer, child)
    BY EngFlags DEF EngineInv, Flags
  <2> QED
    BY <1>1, <2>1 DEF ParentEnds, EngineInv, Call
<1> QED
  BY <1>1, StartKeeps, InvokeKeeps, WriterKeeps, ReaderKeeps, BridgeKeeps, CleanupKeeps
     DEF EngineStep

(* A step of the child, whatever it is.                                      *)
ChildMoves ==
  /\ UNCHANGED <<mu, writing, start, stop>>
  /\ fromPeer' \in Seq(FromChild)
  /\ child' = child \/ (child = "alive" /\ child' \in {"ok", "bad"})
  /\ toPeer' = toPeer \/ (toPeer # <<>> /\ toPeer' = Tail(toPeer)) \/ toPeer' = <<>>
  /\ child' \in {"ok", "bad"} => toPeer' = <<>>

LEMMA ChildKeeps ==
  ASSUME EngineInv, ChildMoves
  PROVE  EngineInv'
BY EngChild DEF EngineInv, ChildMoves

LEMMA EngineStarts ==
  ASSUME EngineAssumption, EngineInit
  PROVE  EngineInv
<1>1. mu.latch = {} /\ mu.queue = <<>> /\ \A i \in Invocation : mu.inv[i] = Unused
  BY DEF EngineInit, NewEngine, Unused
<1>2. mu \in Engines
  <2>1. Unused \in Streams
    BY DEF Unused, Streams
  <2>2. <<>> \in Seq(ToChild) /\ {} \in SUBSET Flags
    OBVIOUS
  <2> QED
    BY <2>1, <2>2 DEF EngineInit, NewEngine, Unused, Engines
<1>3. Sound(mu)
  <2>1. Regular(Unused, {}) /\ Bridged(Unused, {})
    BY DEF Regular, Bridged, Unused
  <2> QED
    BY <1>1, <1>2, <2>1 DEF Sound, Tidy
<1>4. toPeer = <<>> /\ fromPeer = <<>> /\ child = "none" /\ start = "new" /\ stop = "idle"
      /\ writing = Nil
  BY DEF EngineInit
<1>5. In(<<>>) = {} /\ \A A, B : Before(<<>>, A, B)
  BY DEF In, Before
<1>6. <<>> \o <<>> = <<>> /\ <<>> \in Seq(ToChild) /\ <<>> \in Seq(FromChild)
  OBVIOUS
<1>7. Typed(mu, toPeer, fromPeer, child)
  BY <1>3, <1>4, <1>6 DEF Typed
<1>8. Orderly(mu, toPeer \o mu.queue)
  BY <1>1, <1>4, <1>5, <1>6 DEF Orderly
<1>9. Begun(mu, toPeer)
  BY <1>1, <1>4, <1>5 DEF Begun, Unused
<1>10. Starting(mu, start, child) /\ Ending(mu, writing, toPeer, child)
       /\ Stopping(mu, stop, start, child)
  BY <1>1, <1>4 DEF Starting, Ending, Stopping
<1> QED
  BY <1>7, <1>8, <1>9, <1>10 DEF EngineInv, Eng

(* What is promised, follows.                                                *)
LEMMA EngineIsSafe ==
  ASSUME EngineAssumption, EngineInv
  PROVE  EngineSafe
<1>0. Eng(mu, writing, start, stop, toPeer, fromPeer, child)
  BY DEF EngineInv
<1>1. CancelIsLast
  <2> DEFINE frames == toPeer \o mu.queue
             CancelAt(i) == {n \in DOMAIN frames : frames[n][1] = "cancel" /\ frames[n][2] = i}
  <2>1. /\ frames \in Seq(ToChild) /\ DOMAIN frames = 1 .. Len(frames)
        /\ \A n \in 1 .. Len(frames) : frames[n] \in ToChild
        /\ Orderly(mu, frames)
    <3>1. Orderly(mu, frames) /\ frames \in Seq(ToChild)
      BY <1>0 DEF Eng, Orderly
    <3> HIDE DEF frames
    <3> QED
      BY <3>1, LenProperties, ElementOfSeq
  <2> HIDE DEF frames
  <2>2. ASSUME NEW n \in DOMAIN frames, frames[n][1] = "release"
        PROVE  LET i == frames[n][2] IN
               /\ \A m \in CancelAt(i) : n < m
               /\ mu.inv[i].reason # Nil => Faulted(mu) \/ CancelAt(i) # {}
    <3> DEFINE i == frames[n][2]
    <3>1. n \in 1 .. Len(frames) /\ frames[n] \in ToChild
      BY <2>1, <2>2
    <3>2. i \in Invocation
      <4>1. \A g \in ToChild : g[1] = "release" => g[2] \in Invocation
        BY DEF ToChild
      <4> QED
        BY <2>2, <3>1, <4>1
    <3>3. frames[n] \in Release(i)
      BY <2>2, <3>1 DEF Release, Of
    <3> HIDE DEF i
    <3>4. \A m \in CancelAt(i) : m \in 1 .. Len(frames) /\ frames[m] \in CancelOf(i)
      BY <2>1 DEF CancelOf, Of
    <3>5. \A m \in CancelAt(i) : n < m
      BY <2>1, <3>1, <3>2, <3>3, <3>4 DEF Orderly, Before
    <3>6. mu.inv[i].reason # Nil => Faulted(mu) \/ CancelAt(i) # {}
      <4> SUFFICES ASSUME mu.inv[i].reason # Nil, "fault" \notin mu.latch
                   PROVE  CancelAt(i) # {}
        BY DEF Faulted
      <4>1. In(frames) \cap Release(i) # {}
        BY <3>1, <3>3 DEF In
      <4>2. In(frames) \cap CancelOf(i) # {}
        BY <2>1, <3>2, <4>1 DEF Orderly
      <4>3. PICK m \in 1 .. Len(frames) : frames[m] \in CancelOf(i)
        BY <4>2 DEF In
      <4>4. m \in CancelAt(i)
        BY <2>1, <4>3 DEF CancelOf, Of
      <4> QED
        BY <4>4
    <3> QED
      BY <3>5, <3>6 DEF i
  <2> QED
    BY <2>2 DEF CancelIsLast, frames
<1>2. BridgesKept
  <2>1. \A i \in Invocation : Regular(mu.inv[i], mu.latch)
    BY <1>0, EngStarted DEF Sound, Tidy
  <2> QED
    BY <2>1 DEF BridgesKept, Regular
<1>3. StopIsProven
  BY <1>0 DEF StopIsProven, Eng, Stopping, Ending
<1> QED
  BY <1>1, <1>2, <1>3 DEF EngineSafe

(* No step of the adapter, alone with any child, breaks its invariant.       *)
LEMMA EngineStays ==
  ASSUME EngineAssumption, EngineInv, [EngineStep \/ AnyChild]_engineVars
  PROVE  EngineInv'
<1>0. fromPeer \in Seq(FromChild) /\ toPeer \in Seq(ToChild)
  BY DEF EngineInv, Eng, Typed
<1>1. CASE EngineStep
  BY <1>1, EngineKeeps
<1>2. CASE PeerSays
  <2>1. \A f \in {<<"bad">>} \cup PeerFrames : <<f>> \in Seq(FromChild)
    <3>1. {<<"bad">>} \cup PeerFrames \subseteq FromChild
      BY DEF PeerFrames, FromChild, Terminals, EngineAssumption
    <3> QED
      BY <3>1
  <2>2. ChildMoves
    BY <1>2, <2>1 DEF PeerSays, ChildMoves
  <2> QED
    BY <2>2, ChildKeeps
<1>3. CASE PeerReads
  <2>1. ChildMoves
    BY <1>0, <1>3 DEF PeerReads, ChildMoves
  <2> QED
    BY <2>1, ChildKeeps
<1>4. CASE PeerEnds
  <2>1. ChildMoves
    BY <1>0, <1>4 DEF PeerEnds, ChildMoves
  <2> QED
    BY <2>1, ChildKeeps
<1>5. CASE UNCHANGED engineVars
  BY <1>5 DEF engineVars, EngineInv
<1> QED
  BY <1>1, <1>2, <1>3, <1>4, <1>5 DEF AnyChild

(* Whatever its child says and however it ends, the adapter sends no release *)
(* after a cancellation, keeps its bridges, and proves what Stop claims      *)
(* (external.go:346, stop.go:138).                                           *)
THEOREM EngineAlwaysSafe ==
  ASSUME EngineAssumption
  PROVE  EngineSpec => []EngineSafe
<1>1. EngineInit => EngineInv
  BY EngineStarts
<1>2. EngineInv /\ [EngineStep \/ AnyChild]_engineVars => EngineInv'
  BY EngineStays
<1>3. EngineInv => EngineSafe
  BY EngineIsSafe
<1> QED
  BY <1>1, <1>2, <1>3, PTL DEF EngineSpec

-----------------------------------------------------------------------------
(* The peer under its monitor.                                               *)

Threads ==
  [life : {"none", "live", "retired"}, arrivals : Nat, gate : Nat,
   reason : {Nil, "context", "stop", "fatal"},
   proxy : {"outside", "inside", "exited", "skipped"},
   transaction : {"none", "active", "committed", "rolled_back", "unknown"},
   lease : {"none", "held", "returned", "failed"},
   source : {Nil, "application", "cancelled"}, first : BOOLEAN]

(* It never sends what cannot be read.                                       *)
Said == FromChild \ {<<"bad">>}

Peers ==
  [phase : {"await", "starting", "ready", "stopping", "failed"},
   startupDone : BOOLEAN, stopArmed : BOOLEAN,
   cleanup : {"none", "closing", "stopped", "failed"}, blames : BOOLEAN,
   out : Seq(Said), inv : [Invocation -> Threads]]

NewThread ==
  [life |-> "none", arrivals |-> 0, gate |-> 0, reason |-> Nil, proxy |-> "outside",
   transaction |-> "none", lease |-> "none", source |-> Nil, first |-> FALSE]

(* An invocation runs inside the proxy, and has left it when it is retired.  *)
Sane(v) ==
  /\ v.life = "none" => v = NewThread
  /\ v.life = "retired" => Peer!Settled(v)
  /\ v.proxy = "outside" =>
       v.transaction = "none" /\ v.lease = "none" /\ v.gate = 0 /\ v.source = Nil /\ v.arrivals = 0
  /\ v.proxy = "skipped" => v.transaction = "none" /\ v.lease = "none"
  /\ v.proxy = "inside" => v.life = "live"
  /\ v.gate # 0 =>
       v.life = "live" /\ v.proxy = "inside" /\ v.reason = Nil /\ v.gate = v.arrivals

Loose(P) ==
  /\ P \in Peers
  /\ \A i \in Invocation : Sane(P.inv[i])
  /\ P.phase \in {"await", "starting"} => \A i \in Invocation : P.inv[i].life = "none"
  /\ P.phase = "ready" => P.startupDone
  /\ P.phase = "await" => ~ P.startupDone
  /\ P.cleanup # "none" =>
       P.phase \in {"stopping", "failed"} /\ Peer!Live(P) = {} /\ P.startupDone

(* Whoever is live when admission is closed, was told.                       *)
Shut(P) ==
  P.phase \in {"stopping", "failed"} => \A i \in Invocation :
    P.inv[i].life = "live" => P.inv[i].reason # Nil

TalkOf(i) == {f \in FromChild : f[1] \in {"accepted", "arrive"} /\ f[2] = i}
EndOf(i) == {f \in FromChild : f[1] = "terminal" /\ f[2] = i}

True(f, v) ==
  /\ v.life = "retired" /\ Peer!Settled(v) /\ f[3] = Peer!Truth(v)
  /\ f[4] = "none" => v.transaction = "committed"

(* What was said is true, and in order.                                      *)
Told(F, P) ==
  /\ F \in Seq(Said)
  /\ \A i \in Invocation :
       /\ Before(F, TalkOf(i), EndOf(i)) /\ Once(F, EndOf(i))
       /\ \A f \in In(F) \cap EndOf(i) : True(f, P.inv[i])
  /\ Before(F, Said \ {<<"fatal">>}, {<<"fatal">>}) /\ Once(F, {<<"fatal">>})
  /\ <<"stopped">> \in In(F) => Peer!Live(P) = {} /\ Peer!Leased(P) = {}

Ends(F) == F = <<>> \/ F[Len(F)] = <<"stopped">>

(* What was said is what the peer knows it has said.                         *)
Meant(F, P) ==
  /\ <<"fatal">> \in In(F) => P.phase = "failed"
  /\ <<"stopped">> \in In(F) => P.cleanup = "stopped"
  /\ P.cleanup = "stopped" /\ P.phase # "failed" => Ends(F)

PeerFit(P, F, c) ==
  /\ P \in Peers /\ P.out = <<>> /\ Told(F, P)
  /\ c \in {"none", "alive"} => Loose(P) /\ Shut(P) /\ Meant(F, P)
  /\ c = "none" => P = Peer!NewPeer
  /\ c = "ok" => Ends(F) /\ Peer!Leased(P) = {}
  /\ c \in {"ok", "bad"} => \A i \in Invocation : P.inv[i].gate = 0

PeerInv == PeerFit(peer, fromPeer, child) /\ child \in {"none", "alive", "ok", "bad"}

LEMMA PeerParts ==
  ASSUME NEW P \in Peers
  PROVE  /\ P.inv \in [Invocation -> Threads] /\ P.out \in Seq(Said)
         /\ \A i \in Invocation : P.inv[i] \in Threads
BY DEF Peers

LEMMA NothingLeased ==
  ASSUME NEW P, Loose(P), Peer!Live(P) = {}
  PROVE  Peer!Leased(P) = {}
<1>1. ASSUME NEW i \in Invocation PROVE P.inv[i].lease \notin {"held", "failed"}
  <2>1. P.inv[i] \in Threads /\ Sane(P.inv[i]) /\ P.inv[i].life # "live"
    BY PeerParts DEF Loose, Peer!Live
  <2>2. P.inv[i].life = "none" \/ P.inv[i].life = "retired"
    BY <2>1 DEF Threads
  <2>3. CASE P.inv[i].life = "none"
    BY <2>1, <2>3 DEF Sane, NewThread
  <2>4. CASE P.inv[i].life = "retired"
    BY <2>1, <2>4 DEF Sane, Peer!Settled, Peer!Unstarted
  <2> QED
    BY <2>2, <2>3, <2>4
<1> QED
  BY <1>1 DEF Peer!Leased

(* Its good end was said, as long as nobody reads.                           *)
Heralds(F, P) == P.cleanup = "stopped" /\ P.phase # "failed" => <<"stopped">> \in In(F)

(* A method of the peer: what it adds to what was said is true and in order, *)
(* and what was retired stays as it was.                                     *)
Speaks(P, Q) ==
  /\ Loose(Q)
  /\ \A i \in Invocation : P.inv[i].life = "retired" => Q.inv[i] = P.inv[i]
  /\ \A F \in Seq(Said) : Told(F \o P.out, P) /\ Meant(F \o P.out, P) =>
                           Told(F \o Q.out, Q) /\ Meant(F \o Q.out, Q)
  /\ \A F \in Seq(Said) : Heralds(F \o P.out, P) => Heralds(F \o Q.out, Q)

(* It admits nothing, and takes no reason back.                              *)
Keeps(P, Q) ==
  \A i \in Invocation : Q.inv[i].life = "live" =>
    /\ P.inv[i].life = "live"
    /\ P.inv[i].reason # Nil => Q.inv[i].reason # Nil

LEMMA SpeaksChain ==
  ASSUME NEW P, NEW Q, NEW R, Speaks(P, Q), Speaks(Q, R)
  PROVE  Speaks(P, R) /\ (Keeps(P, Q) /\ Keeps(Q, R) => Keeps(P, R))
<1>1. \A i \in Invocation : P.inv[i].life = "retired" => R.inv[i] = P.inv[i]
  BY DEF Speaks
<1>2. Keeps(P, Q) /\ Keeps(Q, R) => Keeps(P, R)
  BY DEF Keeps
<1> QED
  BY <1>1, <1>2 DEF Speaks

LEMMA SpeaksSame ==
  ASSUME NEW P, Loose(P)
  PROVE  Speaks(P, P) /\ Keeps(P, P)
BY DEF Speaks, Keeps

(* Nothing is said.                                                          *)
LEMMA SpeaksNothing ==
  ASSUME NEW P, Loose(P), NEW Q, Loose(Q), Q.out = P.out,
         \A i \in Invocation : P.inv[i].life = "retired" => Q.inv[i] = P.inv[i],
         P.phase = "failed" => Q.phase = "failed",
         P.cleanup = "stopped" <=> Q.cleanup = "stopped",
         Q.phase # "failed" => P.phase # "failed"
  PROVE  Speaks(P, Q)
<1>1. ASSUME NEW F \in Seq(Said), Told(F \o P.out, P), Meant(F \o P.out, P)
      PROVE  Told(F \o Q.out, Q) /\ Meant(F \o Q.out, Q)
  <2> DEFINE G == F \o P.out
  <2>1. G = F \o Q.out /\ Told(G, P) /\ Meant(G, P)
    BY <1>1
  <2> HIDE DEF G
  <2>2. <<"stopped">> \in In(G) => Peer!Live(Q) = {} /\ Peer!Leased(Q) = {}
    BY <2>1, NothingLeased DEF Meant, Loose
  <2>3. \A i \in Invocation : \A f \in In(G) \cap EndOf(i) : True(f, Q.inv[i])
    BY <2>1 DEF Told, True
  <2>4. Told(G, Q)
    BY <2>1, <2>2, <2>3 DEF Told
  <2>5. Meant(G, Q)
    BY <2>1 DEF Meant
  <2> QED
    BY <2>1, <2>4, <2>5
<1>2. \A F \in Seq(Said) : Heralds(F \o P.out, P) => Heralds(F \o Q.out, Q)
  BY DEF Heralds
<1> QED
  BY <1>1, <1>2 DEF Speaks

(* The kinds of frames.                                                      *)
LEMMA SaidForms ==
  ASSUME NEW f \in Said, NEW i \in Invocation
  PROVE  /\ f \in TalkOf(i) => f \notin EndOf(i) /\ f # <<"fatal">> /\ f # <<"stopped">>
         /\ f \in EndOf(i) => f # <<"fatal">> /\ f # <<"stopped">>
BY DEF TalkOf, EndOf

(* One frame is said.                                                        *)
LEMMA SpeaksOne ==
  ASSUME NEW P, Loose(P), NEW Q, Loose(Q), NEW f \in Said, Q.out = Append(P.out, f),
         P.phase # "failed",
         \A i \in Invocation : P.inv[i].life = "retired" => Q.inv[i] = P.inv[i],
         f # <<"fatal">> => P.cleanup # "stopped",
         f = <<"fatal">> => Q.phase = "failed",
         Q.cleanup = "stopped" <=> (P.cleanup = "stopped" \/ f = <<"stopped">>),
         \A i \in Invocation : f \in TalkOf(i) \cup EndOf(i) => P.inv[i].life # "retired",
         \A i \in Invocation : f \in EndOf(i) => True(f, Q.inv[i])
  PROVE  Speaks(P, Q)
<1>1. ASSUME NEW F \in Seq(Said), Told(F \o P.out, P), Meant(F \o P.out, P)
      PROVE  Told(F \o Q.out, Q) /\ Meant(F \o Q.out, Q)
  <2> DEFINE G == F \o P.out
             H == Append(G, f)
  <2>1. /\ G \in Seq(Said) /\ F \o Q.out = H /\ P.out \in Seq(Said)
    <3>1. P.out \in Seq(Said)
      BY DEF Loose, Peers
    <3> QED
      BY <3>1, PipeMoves, PipeConcat
  <2>2. Told(G, P) /\ Meant(G, P)
    BY <1>1
  <2> HIDE DEF G
  <2>3. /\ H \in Seq(Said) /\ In(H) = In(G) \cup {f} /\ In(G) \subseteq Said
        /\ \A A, B : Before(G, A, B) /\ (f \in A => f \notin B /\ In(G) \cap B = {}) =>
              Before(H, A, B)
        /\ \A A : Once(G, A) /\ (f \in A => In(G) \cap A = {}) => Once(H, A)
    BY <2>1, PipeAppend
  <2>4. <<"fatal">> \notin In(G)
    BY <2>2 DEF Meant
  <2>5. ASSUME NEW i \in Invocation
        PROVE  /\ Before(H, TalkOf(i), EndOf(i)) /\ Once(H, EndOf(i))
               /\ \A g \in In(H) \cap EndOf(i) : True(g, Q.inv[i])
    <3>1. /\ Before(G, TalkOf(i), EndOf(i)) /\ Once(G, EndOf(i))
          /\ \A g \in In(G) \cap EndOf(i) : True(g, P.inv[i])
      BY <2>2 DEF Told
    <3>2. f \in TalkOf(i) \cup EndOf(i) => In(G) \cap EndOf(i) = {}
      BY <3>1 DEF True
    <3>3. f \in TalkOf(i) => f \notin EndOf(i)
      BY SaidForms
    <3>4. Before(H, TalkOf(i), EndOf(i)) /\ Once(H, EndOf(i))
      BY <2>3, <3>1, <3>2, <3>3
    <3>5. \A g \in In(G) \cap EndOf(i) : True(g, Q.inv[i])
      BY <3>1 DEF True
    <3> QED
      BY <2>3, <3>4, <3>5
  <2>6. /\ Before(H, Said \ {<<"fatal">>}, {<<"fatal">>}) /\ Once(H, {<<"fatal">>})
    BY <2>2, <2>3, <2>4 DEF Told
  <2>7. <<"stopped">> \in In(H) => Q.cleanup = "stopped"
    BY <2>2, <2>3 DEF Meant
  <2>8. Q.cleanup = "stopped" => Peer!Live(Q) = {} /\ Peer!Leased(Q) = {}
    BY NothingLeased DEF Loose
  <2>9. Told(H, Q)
    BY <2>3, <2>5, <2>6, <2>7, <2>8 DEF Told
  <2>10. Q.cleanup = "stopped" /\ Q.phase # "failed" => Ends(H)
    <3>1. Q.cleanup = "stopped" /\ Q.phase # "failed" => f = <<"stopped">>
      OBVIOUS
    <3>2. H[Len(H)] = f
      BY <2>1, AppendProperties
    <3> QED
      BY <3>1, <3>2 DEF Ends
  <2>11. Meant(H, Q)
    BY <2>3, <2>4, <2>7, <2>10 DEF Meant
  <2> QED
    BY <2>1, <2>9, <2>11
<1>2. ASSUME NEW F \in Seq(Said), Heralds(F \o P.out, P) PROVE Heralds(F \o Q.out, Q)
  <2>1. In(F \o Q.out) = In(F \o P.out) \cup {f}
    <3>1. P.out \in Seq(Said)
      BY DEF Loose, Peers
    <3>2. F \o P.out \in Seq(Said) /\ F \o Q.out = Append(F \o P.out, f)
      BY <3>1, PipeMoves, PipeConcat
    <3> DEFINE G == F \o P.out
    <3>3. G \in Seq(Said) /\ F \o Q.out = Append(G, f)
      BY <3>2
    <3> HIDE DEF G
    <3>4. In(Append(G, f)) = In(G) \cup {f}
      BY <3>3, PipeAppend
    <3> QED
      BY <3>3, <3>4 DEF G
  <2> QED
    BY <1>2, <2>1 DEF Heralds
<1> QED
  BY <1>1, <1>2 DEF Speaks

-----------------------------------------------------------------------------
(* The methods of the peer.                                                  *)

LEMMA FinishSpeaks ==
  ASSUME NEW P, Loose(P)
  PROVE  LET Q == Peer!FinishCleanup(P) IN
         /\ Speaks(P, Q) /\ Keeps(P, Q) /\ Q.phase = P.phase /\ Q.inv = P.inv
         /\ Q.out = P.out
<1> DEFINE Q == Peer!FinishCleanup(P)
<1>1. CASE Q = P
  BY <1>1, SpeaksSame
<1>2. CASE Q # P
  <2>1. /\ P.phase \in {"stopping", "failed"} /\ P.cleanup = "none"
        /\ Peer!Live(P) = {} /\ P.startupDone
        /\ Q = [P EXCEPT !.cleanup = "closing"]
    BY <1>2 DEF Peer!FinishCleanup
  <2> HIDE DEF Q
  <2>2. /\ Q \in Peers /\ Q.phase = P.phase /\ Q.inv = P.inv /\ Q.out = P.out
        /\ Q.cleanup = "closing" /\ Q.startupDone = P.startupDone
    BY <2>1 DEF Loose, Peers
  <2>3. Loose(Q)
    BY <2>1, <2>2 DEF Loose, Peer!Live
  <2>4. Speaks(P, Q)
    BY <2>1, <2>2, <2>3, SpeaksNothing
  <2> QED
    BY <2>2, <2>4 DEF Keeps, Q
<1> QED
  BY <1>1, <1>2

(* What a failure leaves of an invocation.                                   *)
Woken(v) ==
  IF v.life # "live" \/ v.reason # Nil THEN v
  ELSE LET c == [v EXCEPT !.reason = "fatal", !.gate = 0] IN
       IF Peer!Settled(c) THEN [c EXCEPT !.life = "retired"] ELSE c

LEMMA WokenFacts ==
  ASSUME EngineAssumption, NEW v \in Threads, Sane(v)
  PROVE  /\ Woken(v) \in Threads /\ Sane(Woken(v)) /\ Woken(v).gate = 0
         /\ v.life = "retired" => Woken(v) = v
         /\ v.life = "none" <=> Woken(v).life = "none"
         /\ Woken(v).life = "live" => v.life = "live" /\ Woken(v).reason # Nil
<1>1. CASE v.life # "live" \/ v.reason # Nil
  <2>1. Woken(v) = v
    BY <1>1 DEF Woken
  <2>2. v.gate = 0
    BY <1>1 DEF Sane, Threads, NewThread
  <2> QED
    BY <1>1, <2>1, <2>2
<1>2. CASE v.life = "live" /\ v.reason = Nil
  <2> DEFINE c == [v EXCEPT !.reason = "fatal", !.gate = 0]
  <2>1. /\ c \in Threads /\ c.life = "live" /\ c.reason = "fatal" /\ c.gate = 0
        /\ c.proxy = v.proxy /\ c.transaction = v.transaction /\ c.lease = v.lease
        /\ c.source = v.source /\ c.arrivals = v.arrivals
    BY <1>2 DEF Threads
  <2> HIDE DEF c
  <2>2. Sane(c) /\ "fatal" # Nil
    BY <2>1 DEF Sane, EngineAssumption
  <2>3. CASE Peer!Settled(c)
    <3> DEFINE d == [c EXCEPT !.life = "retired"]
    <3>1. Woken(v) = d
      BY <1>2, <2>3 DEF Woken, c
    <3>2. /\ d \in Threads /\ d.life = "retired" /\ d.gate = 0 /\ d.proxy = c.proxy
          /\ d.transaction = c.transaction /\ d.lease = c.lease
          /\ d.source = c.source /\ d.arrivals = c.arrivals
      BY <2>1 DEF Threads
    <3> HIDE DEF d
    <3>3. Peer!Settled(d) /\ d.proxy # "inside"
      BY <2>3, <3>2 DEF Peer!Settled, Peer!Unstarted
    <3>4. Sane(d)
      BY <2>1, <2>2, <3>2, <3>3 DEF Sane
    <3> QED
      BY <1>2, <3>1, <3>2, <3>4
  <2>4. CASE ~ Peer!Settled(c)
    <3>1. Woken(v) = c
      BY <1>2, <2>4 DEF Woken, c
    <3> QED
      BY <1>2, <2>1, <2>2, <3>1
  <2> QED
    BY <2>3, <2>4
<1> QED
  BY <1>1, <1>2 DEF Threads

LEMMA PeerFails ==
  ASSUME EngineAssumption, NEW P, Loose(P), NEW kind, NEW send \in BOOLEAN
  PROVE  LET Q == Peer!Fail(P, kind, send) IN
         /\ Speaks(P, Q) /\ Keeps(P, Q) /\ Q.phase = "failed"
         /\ P.phase # "failed" => Shut(Q) /\ \A i \in Invocation : Q.inv[i].gate = 0
         /\ P.phase = "failed" => Q = P
<1> DEFINE Q == Peer!Fail(P, kind, send)
<1>1. CASE P.phase = "failed"
  <2>1. Q = P
    BY <1>1 DEF Peer!Fail
  <2> QED
    BY <1>1, <2>1, SpeaksSame
<1>2. CASE P.phase # "failed"
  <2> DEFINE D == [P EXCEPT !.phase = "failed", !.blames = (kind = "protocol"),
                            !.inv = [i \in Invocation |-> Woken(P.inv[i])]]
             E == IF send THEN Peer!Send(D, <<"fatal">>) ELSE D
  <2>1. Q = Peer!FinishCleanup(E)
    BY <1>2 DEF Peer!Fail, Woken
  <2>2. \A i \in Invocation : P.inv[i] \in Threads /\ Sane(P.inv[i])
    BY PeerParts DEF Loose
  <2>3. \A i \in Invocation :
          LET v == P.inv[i] IN
          /\ Woken(v) \in Threads /\ Sane(Woken(v)) /\ Woken(v).gate = 0
          /\ v.life = "retired" => Woken(v) = v
          /\ v.life = "none" <=> Woken(v).life = "none"
          /\ Woken(v).life = "live" => v.life = "live" /\ Woken(v).reason # Nil
    BY <2>2, WokenFacts
  <2>4. (kind = "protocol") \in BOOLEAN
    OBVIOUS
  <2>5. /\ D \in Peers /\ D.phase = "failed" /\ D.out = P.out /\ D.cleanup = P.cleanup
        /\ D.startupDone = P.startupDone
        /\ \A i \in Invocation : D.inv[i] = Woken(P.inv[i])
    <3> DEFINE I == [i \in Invocation |-> Woken(P.inv[i])]
               b == (kind = "protocol")
    <3>1. I \in [Invocation -> Threads] /\ \A i \in Invocation : I[i] = Woken(P.inv[i])
      BY <2>3
    <3> HIDE DEF I, b
    <3>2. D = [P EXCEPT !.phase = "failed", !.blames = b, !.inv = I]
      BY DEF I, b
    <3>3. b \in BOOLEAN
      BY <2>4 DEF b
    <3> HIDE DEF D
    <3> QED
      BY <3>1, <3>2, <3>3 DEF Loose, Peers
  <2> HIDE DEF D
  <2>6. Loose(D) /\ Shut(D) /\ \A i \in Invocation : D.inv[i].gate = 0
    <3>1. Peer!Live(P) = {} => Peer!Live(D) = {}
      BY <2>3, <2>5 DEF Peer!Live
    <3>2. Shut(D) /\ \A i \in Invocation : D.inv[i].gate = 0
      BY <2>3, <2>5 DEF Shut
    <3> QED
      BY <2>3, <2>5, <3>1, <3>2 DEF Loose
  <2>7. Keeps(P, D)
    BY <2>3, <2>5 DEF Keeps
  <2>8. /\ Speaks(P, E) /\ E.phase = "failed" /\ E.inv = D.inv
    <3>1. CASE send = TRUE
      <4>1. E = [D EXCEPT !.out = Append(D.out, <<"fatal">>)]
        BY <3>1 DEF Peer!Send
      <4>2. <<"fatal">> \in Said
        BY DEF Said, FromChild
      <4>3. /\ E \in Peers /\ E.phase = "failed" /\ E.out = Append(P.out, <<"fatal">>)
            /\ E.cleanup = P.cleanup /\ E.startupDone = D.startupDone /\ E.inv = D.inv
        <5> DEFINE f == <<"fatal">>
        <5>1. D.out \in Seq(Said)
          BY <2>5, PeerParts
        <5>2. f \in Said
          BY <4>2
        <5> HIDE DEF f
        <5>3. Append(D.out, f) \in Seq(Said)
          BY <5>1, <5>2, PipeAppend
        <5> DEFINE o == Append(D.out, f)
        <5>4. E = [D EXCEPT !.out = o] /\ o \in Seq(Said) /\ o = Append(P.out, f)
          BY <2>5, <4>1, <5>3 DEF f
        <5> HIDE DEF o, E
        <5>5. /\ E \in Peers /\ E.phase = "failed" /\ E.out = o
              /\ E.cleanup = P.cleanup /\ E.startupDone = D.startupDone /\ E.inv = D.inv
          BY <2>5, <5>4 DEF Peers
        <5> QED
          BY <5>4, <5>5 DEF f
      <4> HIDE DEF E
      <4>4. Loose(E)
        BY <2>5, <2>6, <4>3 DEF Loose, Peer!Live
      <4>5. \A i \in Invocation : P.inv[i].life = "retired" => E.inv[i] = P.inv[i]
        BY <2>3, <2>5, <4>3
      <4>6. \A i \in Invocation : <<"fatal">> \notin TalkOf(i) \cup EndOf(i)
        BY DEF TalkOf, EndOf
      <4>7. <<"fatal">> # <<"stopped">>
        OBVIOUS
      <4>8. Speaks(P, E)
        <5> DEFINE f == <<"fatal">>
        <5>1. f \in Said /\ f = <<"fatal">> /\ f # <<"stopped">>
              /\ E.out = Append(P.out, f) /\ \A i \in Invocation : f \notin TalkOf(i) \cup EndOf(i)
          BY <4>2, <4>3, <4>6, <4>7
        <5> HIDE DEF f
        <5> QED
          BY <1>2, <4>3, <4>4, <4>5, <5>1, SpeaksOne
      <4> QED
        BY <4>3, <4>8
    <3>2. CASE send = FALSE
      <4>1. E = D
        BY <3>2
      <4>2. Speaks(P, D)
        <5>1. D.phase # "failed" => P.phase # "failed"
          BY <2>5
        <5>2. \A i \in Invocation : P.inv[i].life = "retired" => D.inv[i] = P.inv[i]
          BY <2>3, <2>5
        <5> QED
          BY <2>5, <2>6, <5>1, <5>2, SpeaksNothing
      <4> QED
        BY <2>5, <4>1, <4>2
    <3> QED
      BY <3>1, <3>2
  <2> HIDE DEF E, Q
  <2>9. Loose(E) /\ Keeps(P, E)
    BY <2>7, <2>8 DEF Speaks, Keeps
  <2>10. Speaks(E, Q) /\ Keeps(E, Q) /\ Q.phase = E.phase /\ Q.inv = E.inv
    BY <2>1, <2>9, FinishSpeaks
  <2>11. Speaks(P, Q) /\ Keeps(P, Q)
    BY <2>8, <2>9, <2>10, SpeaksChain
  <2>12. Shut(Q) /\ \A i \in Invocation : Q.inv[i].gate = 0
    BY <2>5, <2>6, <2>8, <2>10 DEF Shut
  <2> QED
    BY <1>2, <2>8, <2>10, <2>11, <2>12 DEF Q
<1> QED
  BY <1>1, <1>2

(* The peer with another record of one invocation.                           *)
Threaded(P, Q, i, d) ==
  /\ Q \in Peers /\ Q.inv[i] = d
  /\ \A j \in Invocation : j # i => Q.inv[j] = P.inv[j]
  /\ Q.phase = P.phase /\ Q.out = P.out /\ Q.cleanup = P.cleanup
  /\ Q.startupDone = P.startupDone

LEMMA ThreadSet ==
  ASSUME NEW P \in Peers, NEW i \in Invocation, NEW d \in Threads
  PROVE  Threaded(P, [P EXCEPT !.inv[i] = d], i, d)
<1> DEFINE I == [P.inv EXCEPT ![i] = d]
           Q == [P EXCEPT !.inv = I]
<1>1. I \in [Invocation -> Threads] /\ I[i] = d /\ \A j \in Invocation : j # i => I[j] = P.inv[j]
  BY PeerParts
<1> HIDE DEF I
<1>2. /\ Q \in Peers /\ Q.inv = I /\ Q.phase = P.phase /\ Q.out = P.out
      /\ Q.cleanup = P.cleanup /\ Q.startupDone = P.startupDone
  BY <1>1 DEF Peers
<1>3. [P EXCEPT !.inv[i] = d] = Q
  BY DEF I
<1> QED
  BY <1>1, <1>2, <1>3 DEF Threaded

LEMMA ThreadMoves ==
  ASSUME NEW P, Loose(P), NEW i \in Invocation, NEW d \in Threads, Sane(d), NEW Q,
         Threaded(P, Q, i, d), P.inv[i].life # "retired",
         d.life = P.inv[i].life \/ (P.inv[i].life = "live" /\ d.life = "retired"),
         P.inv[i].reason # Nil => d.reason # Nil
  PROVE  Loose(Q) /\ Speaks(P, Q) /\ Keeps(P, Q)
<1> USE DEF Threaded
<1>1. \A j \in Invocation : Sane(Q.inv[j])
  BY DEF Loose
<1>2. Peer!Live(Q) \subseteq Peer!Live(P)
  BY DEF Peer!Live
<1>3. Q.phase \in {"await", "starting"} => \A j \in Invocation : Q.inv[j].life = "none"
  BY DEF Loose
<1>4. Loose(Q)
  BY <1>1, <1>2, <1>3 DEF Loose
<1>5. \A j \in Invocation : P.inv[j].life = "retired" => Q.inv[j] = P.inv[j]
  OBVIOUS
<1>6. Speaks(P, Q)
  BY <1>4, <1>5, SpeaksNothing
<1>7. Keeps(P, Q)
  <2> SUFFICES ASSUME NEW j \in Invocation, Q.inv[j].life = "live"
               PROVE  /\ P.inv[j].life = "live"
                      /\ P.inv[j].reason # Nil => Q.inv[j].reason # Nil
    BY DEF Keeps
  <2>1. CASE j = i
    BY <2>1
  <2>2. CASE j # i
    BY <2>2
  <2> QED
    BY <2>1, <2>2
<1> QED
  BY <1>4, <1>6, <1>7

LEMMA Sends ==
  ASSUME NEW P \in Peers, NEW f \in Said
  PROVE  LET Q == Peer!Send(P, f) IN
         /\ Q \in Peers /\ Q.inv = P.inv /\ Q.phase = P.phase /\ Q.cleanup = P.cleanup
         /\ Q.startupDone = P.startupDone /\ Q.out = Append(P.out, f)
<1> DEFINE o == Append(P.out, f)
<1>1. o \in Seq(Said)
  BY PeerParts, PipeAppend
<1> HIDE DEF o
<1>2. LET Q == [P EXCEPT !.out = o] IN
      /\ Q \in Peers /\ Q.inv = P.inv /\ Q.phase = P.phase /\ Q.cleanup = P.cleanup
      /\ Q.startupDone = P.startupDone /\ Q.out = o
  BY <1>1 DEF Peers
<1> QED
  BY <1>2 DEF Peer!Send, o

(* A method goes on with the session, or fails it.                           *)
Advances(P, Q) ==
  /\ Speaks(P, Q) /\ Keeps(P, Q)
  /\ Q.phase # P.phase => Q.phase = "failed" /\ Shut(Q)

LEMMA AdvancesChain ==
  ASSUME NEW P, NEW Q, NEW R, Advances(P, Q), Advances(Q, R)
  PROVE  Advances(P, R)
<1>1. Speaks(P, R) /\ Keeps(P, R)
  BY SpeaksChain DEF Advances
<1>2. Shut(Q) /\ R.phase = Q.phase => Shut(R)
  BY DEF Advances, Keeps, Shut
<1> QED
  BY <1>1, <1>2 DEF Advances

LEMMA AdvancesShut ==
  ASSUME NEW P, NEW Q, Advances(P, Q), Shut(P)
  PROVE  Shut(Q)
BY DEF Advances, Keeps, Shut

LEMMA FailAdvances ==
  ASSUME EngineAssumption, NEW P, Loose(P), NEW kind, NEW send \in BOOLEAN
  PROVE  Advances(P, Peer!Fail(P, kind, send)) /\ Peer!Fail(P, kind, send).phase = "failed"
<1> DEFINE Q == Peer!Fail(P, kind, send)
<1>1. /\ Speaks(P, Q) /\ Keeps(P, Q) /\ Q.phase = "failed"
      /\ P.phase # "failed" => Shut(Q)
  BY PeerFails
<1> HIDE DEF Q
<1>2. Advances(P, Q) /\ Q.phase = "failed"
  BY <1>1 DEF Advances
<1> QED
  BY <1>2 DEF Q

LEMMA FinishAdvances ==
  ASSUME NEW P, Loose(P)
  PROVE  /\ Advances(P, Peer!FinishCleanup(P)) /\ Peer!FinishCleanup(P).inv = P.inv
         /\ Peer!FinishCleanup(P).phase = P.phase
<1> DEFINE Q == Peer!FinishCleanup(P)
<1>1. Speaks(P, Q) /\ Keeps(P, Q) /\ Q.phase = P.phase /\ Q.inv = P.inv
  BY FinishSpeaks
<1> HIDE DEF Q
<1>2. Advances(P, Q)
  BY <1>1 DEF Advances
<1> QED
  BY <1>1, <1>2 DEF Q

(* The last frame of an invocation.                                          *)
LEMMA TerminalFacts ==
  ASSUME EngineAssumption, NEW i \in Invocation, NEW v \in Threads, v.life = "live",
         Sane(v), Peer!Settled(v), v.transaction # "unknown"
  PROVE  LET f == <<"terminal", i, Peer!Truth(v), Peer!ErrorOf(v)>>
             d == [v EXCEPT !.life = "retired"]
         IN
         /\ f \in Said /\ f # <<"stopped">> /\ f # <<"fatal">> /\ f \in EndOf(i)
         /\ \A j \in Invocation : f \in TalkOf(j) \cup EndOf(j) => j = i
         /\ d \in Threads /\ Sane(d) /\ d.life = "retired" /\ d.reason = v.reason /\ d.gate = v.gate
         /\ True(f, d)
<1> DEFINE t == Peer!Truth(v)
           e == Peer!ErrorOf(v)
           d == [v EXCEPT !.life = "retired"]
<1>0. v.transaction # "active"
  BY DEF Peer!Settled, Peer!Unstarted
<1>1. t \in {"committed", "rolled_back", "not_started"}
  BY <1>0 DEF Peer!Truth, Threads
<1>2. e \in {"none", "application", "context", "stop"} /\ (e = "none" => v.transaction = "committed")
  BY DEF Peer!ErrorOf, Threads
<1>3. /\ d \in Threads /\ d.life = "retired" /\ d.gate = v.gate /\ d.proxy = v.proxy
      /\ d.transaction = v.transaction /\ d.lease = v.lease /\ d.reason = v.reason
      /\ d.source = v.source /\ d.arrivals = v.arrivals
  BY DEF Threads
<1> HIDE DEF d
<1>4. Peer!Settled(d) /\ d.proxy \in {"exited", "skipped"} /\ Peer!Truth(d) = t
  BY <1>3 DEF Peer!Settled, Peer!Unstarted, Peer!Truth
<1> HIDE DEF t, e
<1> DEFINE f == <<"terminal", i, t, e>>
<1>5. /\ f \in Said /\ f # <<"stopped">> /\ f # <<"fatal">> /\ f \in EndOf(i)
      /\ \A j \in Invocation : f \in TalkOf(j) \cup EndOf(j) => j = i
  BY <1>1, <1>2 DEF Said, FromChild, Terminals, EndOf, TalkOf
<1>6. True(f, d)
  BY <1>2, <1>3, <1>4 DEF True
<1>7. Sane(d)
  BY <1>3, <1>4 DEF Sane
<1> QED
  BY <1>3, <1>5, <1>6, <1>7 DEF t, e, d

(* A thread that is retired after its terminal.                              *)
LEMMA EndAdvances ==
  ASSUME EngineAssumption, NEW P, Loose(P), NEW i \in Invocation,
         P.inv[i].life # "retired", Peer!Settled(P.inv[i]),
         P.inv[i].transaction # "unknown", P.phase # "failed"
  PROVE  LET f == <<"terminal", i, Peer!Truth(P.inv[i]), Peer!ErrorOf(P.inv[i])>>
             Q == Peer!Retire(Peer!Send(P, f), i)
         IN  Advances(P, Q) /\ Q.inv[i].life = "retired" /\ Q.phase = P.phase
<1> DEFINE v == P.inv[i]
           f == <<"terminal", i, Peer!Truth(v), Peer!ErrorOf(v)>>
           d == [v EXCEPT !.life = "retired"]
           S == Peer!Send(P, f)
           E == [S EXCEPT !.inv[i] = d]
<1>1. v \in Threads /\ Sane(v) /\ P \in Peers /\ Peer!Settled(v) /\ v.life # "retired"
  BY PeerParts DEF Loose
<1>2. v.life = "live"
  <2>1. v.life = "none" => v.proxy = "outside"
    BY <1>1 DEF Sane, NewThread
  <2> QED
    BY <1>1, <2>1 DEF Threads, Peer!Settled, Peer!Unstarted
<1>3. /\ f \in Said /\ f # <<"stopped">> /\ f # <<"fatal">> /\ f \in EndOf(i)
      /\ \A j \in Invocation : f \in TalkOf(j) \cup EndOf(j) => j = i
  BY <1>1, <1>2, TerminalFacts
<1>4. d \in Threads /\ Sane(d) /\ d.life = "retired" /\ d.reason = v.reason
  BY <1>1, <1>2, TerminalFacts
<1>5. True(f, d)
  BY <1>1, <1>2, TerminalFacts
<1>6. Peer!Retire(S, i) = Peer!FinishCleanup(E)
  <2>1. S.inv = P.inv
    BY <1>1, <1>3, Sends
  <2>2. [S EXCEPT !.inv[i].life = "retired"] = [S EXCEPT !.inv[i] = [S.inv[i] EXCEPT !.life = "retired"]]
    OBVIOUS
  <2>3. [S EXCEPT !.inv[i].life = "retired"] = E
    BY <2>1, <2>2
  <2> HIDE DEF E, S
  <2> QED
    BY <2>3 DEF Peer!Retire
<1> HIDE DEF f, d
<1>7. /\ S \in Peers /\ S.inv = P.inv /\ S.phase = P.phase /\ S.cleanup = P.cleanup
      /\ S.startupDone = P.startupDone /\ S.out = Append(P.out, f)
  BY <1>1, <1>3, Sends
<1> HIDE DEF S
<1>8. Threaded(S, E, i, d)
  BY <1>4, <1>7, ThreadSet
<1> HIDE DEF E
<1> USE DEF Threaded
<1>9. Peer!Live(E) \subseteq Peer!Live(P)
  BY <1>2, <1>4, <1>7, <1>8 DEF Peer!Live
<1>10. i \in Peer!Live(P)
  BY <1>2 DEF Peer!Live
<1>11. Loose(E)
  <2>1. \A j \in Invocation : Sane(E.inv[j])
    BY <1>4, <1>7, <1>8 DEF Loose
  <2>2. P.phase \notin {"await", "starting"} /\ P.cleanup = "none"
    BY <1>2, <1>10 DEF Loose
  <2>3. P.phase = "ready" => P.startupDone
    BY DEF Loose
  <2> QED
    BY <1>7, <1>8, <2>1, <2>2, <2>3 DEF Loose
<1>12. P.cleanup # "stopped"
  BY <1>10 DEF Loose
<1>13. Speaks(P, E)
  <2>1. \A j \in Invocation : P.inv[j].life = "retired" => E.inv[j] = P.inv[j]
    BY <1>1, <1>7, <1>8
  <2>2. \A j \in Invocation : f \in TalkOf(j) \cup EndOf(j) => P.inv[j].life # "retired"
    BY <1>1, <1>3
  <2>3. \A j \in Invocation : f \in EndOf(j) => True(f, E.inv[j])
    BY <1>3, <1>5, <1>8
  <2>4. E.out = Append(P.out, f) /\ E.cleanup = P.cleanup /\ E.phase = P.phase
    BY <1>7, <1>8
  <2> QED
    BY <1>3, <1>11, <1>12, <2>1, <2>2, <2>3, <2>4, SpeaksOne
<1>14. Keeps(P, E)
  <2> SUFFICES ASSUME NEW j \in Invocation, E.inv[j].life = "live"
               PROVE  /\ P.inv[j].life = "live"
                      /\ P.inv[j].reason # Nil => E.inv[j].reason # Nil
    BY DEF Keeps
  <2>1. j # i
    BY <1>4, <1>8
  <2> QED
    BY <1>7, <1>8, <2>1
<1>15. Advances(P, E)
  BY <1>7, <1>8, <1>13, <1>14 DEF Advances
<1> DEFINE Q == Peer!FinishCleanup(E)
<1>16. Advances(E, Q) /\ Q.inv = E.inv /\ Q.phase = E.phase
  BY <1>11, FinishAdvances
<1> HIDE DEF Q
<1>17. Advances(P, Q)
  BY <1>15, <1>16, AdvancesChain
<1>18. Q.inv[i].life = "retired" /\ Q.phase = P.phase
  BY <1>4, <1>7, <1>8, <1>16
<1> QED
  BY <1>6, <1>17, <1>18 DEF Q, S, f

(* A thread that is retired in a session that failed.                        *)
LEMMA RetireAdvances ==
  ASSUME NEW P, Loose(P), NEW i \in Invocation,
         P.inv[i].life # "retired", Peer!Settled(P.inv[i])
  PROVE  LET Q == Peer!Retire(P, i) IN Advances(P, Q) /\ Q.inv[i].life = "retired"
<1> DEFINE v == P.inv[i]
           d == [v EXCEPT !.life = "retired"]
           E == [P EXCEPT !.inv[i] = d]
           Q == Peer!FinishCleanup(E)
<1>1. v \in Threads /\ Sane(v) /\ P \in Peers /\ Peer!Settled(v) /\ v.life # "retired"
  BY PeerParts DEF Loose
<1>2. v.life = "live"
  <2>1. v.life = "none" => v.proxy = "outside"
    BY <1>1 DEF Sane, NewThread
  <2> QED
    BY <1>1, <2>1 DEF Threads, Peer!Settled, Peer!Unstarted
<1>3. /\ d \in Threads /\ d.life = "retired" /\ d.gate = v.gate /\ d.proxy = v.proxy
      /\ d.transaction = v.transaction /\ d.lease = v.lease /\ d.reason = v.reason
      /\ d.source = v.source /\ d.arrivals = v.arrivals
  BY <1>1 DEF Threads
<1>4. Peer!Retire(P, i) = Q
  BY DEF Peer!Retire
<1> HIDE DEF d
<1>5. Peer!Settled(d) /\ d.proxy \in {"exited", "skipped"}
  BY <1>1, <1>3 DEF Peer!Settled, Peer!Unstarted
<1>6. Sane(d)
  BY <1>1, <1>3, <1>5 DEF Sane
<1>7. Threaded(P, E, i, d)
  BY <1>1, <1>3, ThreadSet
<1> HIDE DEF E
<1>8. Loose(E) /\ Speaks(P, E) /\ Keeps(P, E)
  <2>1. P.inv[i].life # "retired" /\ P.inv[i].life = "live" /\ P.inv[i].reason = d.reason
    BY <1>1, <1>2, <1>3
  <2> HIDE DEF v
  <2> QED
    BY <1>3, <1>6, <1>7, <2>1, ThreadMoves
<1>9. Advances(P, E) /\ E.inv[i].life = "retired"
  BY <1>3, <1>7, <1>8 DEF Advances, Threaded
<1>10. Advances(E, Q) /\ Q.inv = E.inv
  BY <1>8, FinishAdvances
<1> HIDE DEF Q
<1>11. Advances(P, Q)
  BY <1>9, <1>10, AdvancesChain
<1> QED
  BY <1>4, <1>9, <1>10, <1>11

LEMMA ProgressAdvances ==
  ASSUME EngineAssumption, NEW P, Loose(P), NEW i \in Invocation
  PROVE  Advances(P, Peer!Progress(P, i))
<1> DEFINE v == P.inv[i]
           Q == Peer!Progress(P, i)
           f == <<"terminal", i, Peer!Truth(v), Peer!ErrorOf(v)>>
<1>0. Advances(P, P)
  BY SpeaksSame DEF Advances
<1>1. \/ Q = P
      \/ \E kind : Q = Peer!Fail(P, kind, TRUE)
      \/ /\ v.life # "retired" /\ Peer!Settled(v) /\ v.transaction # "unknown"
         /\ (P.phase = "failed" /\ Q = Peer!Retire(P, i))
              \/ (P.phase # "failed" /\ Q = Peer!Retire(Peer!Send(P, f), i))
  BY Zenon DEF Peer!Progress
<1> HIDE DEF Q
<1>2. ASSUME NEW kind, Q = Peer!Fail(P, kind, TRUE) PROVE Advances(P, Q)
  BY <1>2, FailAdvances
<1>3. ASSUME v.life # "retired", Peer!Settled(v), Q = Peer!Retire(P, i)
      PROVE  Advances(P, Q)
  <2> DEFINE R == Peer!Retire(P, i)
  <2>1. Advances(P, R)
    BY <1>3, RetireAdvances
  <2> HIDE DEF R
  <2> QED
    BY <1>3, <2>1 DEF R
<1>4. ASSUME v.life # "retired", Peer!Settled(v), v.transaction # "unknown",
             P.phase # "failed", Q = Peer!Retire(Peer!Send(P, f), i)
      PROVE  Advances(P, Q)
  <2> DEFINE R == Peer!Retire(Peer!Send(P, f), i)
  <2>1. Advances(P, R)
    BY <1>4, EndAdvances
  <2> HIDE DEF R
  <2> QED
    BY <1>4, <2>1 DEF R
<1> HIDE DEF v, f
<1>5. ASSUME Q = P PROVE Advances(P, Q)
  BY <1>0, <1>5
<1>6. ASSUME \E kind : Q = Peer!Fail(P, kind, TRUE) PROVE Advances(P, Q)
  BY <1>2, <1>6
<1>7. Advances(P, Q)
  BY <1>1, <1>3, <1>4, <1>5, <1>6, Zenon
<1> QED
  BY <1>7 DEF Q

(* An invocation that was told has a reason.                                 *)
LEMMA CancelAdvances ==
  ASSUME EngineAssumption, NEW P, Loose(P), NEW i \in Invocation,
         NEW why \in {"context", "stop"}
  PROVE  LET Q == Peer!Cancel(P, i, why) IN
         Advances(P, Q) /\ (Q.inv[i].life = "live" => Q.inv[i].reason # Nil)
<1> DEFINE v == P.inv[i]
           d == [v EXCEPT !.reason = why, !.gate = 0]
           E == [P EXCEPT !.inv[i] = d]
           Q == Peer!Cancel(P, i, why)
<1>1. v \in Threads /\ Sane(v) /\ P \in Peers
  BY PeerParts DEF Loose
<1>2. CASE v.life # "live" \/ v.reason # Nil
  <2>1. Q = P
    BY <1>2 DEF Peer!Cancel
  <2>2. Advances(P, P)
    BY SpeaksSame DEF Advances
  <2> QED
    BY <1>2, <2>1, <2>2
<1>3. CASE v.life = "live" /\ v.reason = Nil
  <2>1. /\ d \in Threads /\ d.life = "live" /\ d.gate = 0 /\ d.proxy = v.proxy
        /\ d.transaction = v.transaction /\ d.lease = v.lease /\ d.reason = why
        /\ d.source = v.source /\ d.arrivals = v.arrivals
    BY <1>1, <1>3 DEF Threads
  <2>2. Q = Peer!Progress(E, i)
    BY <1>3 DEF Peer!Cancel
  <2> HIDE DEF d, Q
  <2>3. Sane(d) /\ why # Nil
    BY <1>1, <1>3, <2>1 DEF Sane, EngineAssumption
  <2>4. Threaded(P, E, i, d)
    BY <1>1, <2>1, ThreadSet
  <2> HIDE DEF E
  <2>5. Loose(E) /\ Speaks(P, E) /\ Keeps(P, E)
    <3>1. P.inv[i].life = "live" /\ P.inv[i].reason = Nil
      BY <1>3
    <3> HIDE DEF v
    <3> QED
      BY <2>1, <2>3, <2>4, <3>1, ThreadMoves
  <2>6. Advances(P, E) /\ E.inv[i].reason # Nil
    BY <2>1, <2>3, <2>4, <2>5 DEF Advances, Threaded
  <2>7. Advances(E, Q)
    BY <2>2, <2>5, ProgressAdvances
  <2>8. Q.inv[i].life = "live" => Q.inv[i].reason # Nil
    BY <2>6, <2>7 DEF Advances, Keeps
  <2> QED
    BY <2>6, <2>7, <2>8, AdvancesChain DEF Q
<1> QED
  BY <1>2, <1>3

(* All invocations are canceled, in some order, and each stays so.           *)
LEMMA PeerCanceledInGood ==
  ASSUME NEW S, IsFiniteSet(S), NEW last \in Peer!Orders(S), NEW Good, NEW M \in Good,
         NEW Done \in [S -> SUBSET Good],
         \A Q \in Good, i \in S : Peer!Cancel(Q, i, "stop") \in Done[i],
         \A Q \in Good, i, j \in S : Q \in Done[j] => Peer!Cancel(Q, i, "stop") \in Done[j]
  PROVE  /\ Peer!CanceledIn(M, S, last) \in Good
         /\ \A i \in S : Peer!CanceledIn(M, S, last) \in Done[i]
<1> DEFINE h == [p \in Good \X S |-> Peer!Cancel(p[1], p[2], "stop")]
<1>0. \A Q \in Good, i \in S : Peer!Cancel(Q, i, "stop") \in Good
  OBVIOUS
<1>1. last \in [(SUBSET S) \ {{}} -> S] /\ \A T \in (SUBSET S) \ {{}} : last[T] \in T
  BY DEF Peer!Orders
<1>2. h \in [Good \X S -> Good] /\ \A Q \in Good, i \in S : h[<<Q, i>>] = Peer!Cancel(Q, i, "stop")
  BY <1>0
<1> HIDE DEF h
<1>3. PICK g : Walk(S, Good, M, h, last, g)
  <2>1. Walkable(S, Good, M, h, last)
    BY <1>1, <1>2 DEF Walkable
  <2> QED
    BY <2>1, WalkExists
<1>4. ASSUME NEW f, f = [T \in SUBSET S |->
                  IF T = {} THEN M ELSE Peer!Cancel(f[T \ {last[T]}], last[T], "stop")]
      PROVE  f[S] \in Good /\ \A i \in S : f[S] \in Done[i]
  <2> DEFINE Fine(T) == f[T] \in Good /\ \A i \in T : f[T] \in Done[i]
             B == {T \in SUBSET S : ~ Fine(T)}
  <2> SUFFICES ASSUME B # {} PROVE FALSE
    OBVIOUS
  <2>1. IsWellFoundedOn(StrictSubsetOrdering(S), SUBSET S)
    <3>1. FiniteSubsetsOf(S) = SUBSET S
      BY FS_FiniteSubsetsOfFinite
    <3>2. IsWellFoundedOn(StrictSubsetOrdering(S), FiniteSubsetsOf(S))
      BY FS_StrictSubsetOrderingWellFounded
    <3> QED
      BY <3>1, <3>2
  <2>2. PICK T \in B : \A U \in B : ~ (<<U, T>> \in StrictSubsetOrdering(S))
    <3>1. B \subseteq SUBSET S
      OBVIOUS
    <3> HIDE DEF B
    <3> QED
      BY <2>1, <3>1, WFMin
  <2>3. f[T] = IF T = {} THEN M ELSE Peer!Cancel(f[T \ {last[T]}], last[T], "stop")
    BY <1>4
  <2>4. CASE T = {}
    BY <2>2, <2>3, <2>4
  <2>5. CASE T # {}
    <3> DEFINE U == T \ {last[T]}
               C == Peer!Cancel(f[U], last[T], "stop")
    <3>1. U \in SUBSET S /\ last[T] \in S /\ last[T] \in T /\ U \subseteq T /\ U # T
      BY <1>1, <2>2, <2>5
    <3>2. <<U, T>> \in StrictSubsetOrdering(S)
      BY <3>1 DEF StrictSubsetOrdering
    <3>3. f[U] \in Good /\ \A i \in U : f[U] \in Done[i]
      BY <2>2, <3>1, <3>2
    <3>4. C \in Good /\ C \in Done[last[T]]
      BY <1>0, <3>1, <3>3
    <3>5. \A i \in U : C \in Done[i]
      BY <3>1, <3>3
    <3>6. f[T] = C
      BY <2>3, <2>5
    <3> HIDE DEF C
    <3>7. f[T] \in Good /\ \A i \in T : f[T] \in Done[i]
      BY <3>4, <3>5, <3>6
    <3> QED
      BY <2>2, <3>7
  <2> QED
    BY <2>4, <2>5
<1> DEFINE R == CHOOSE f : f = [T \in SUBSET S |->
                   IF T = {} THEN M ELSE Peer!Cancel(f[T \ {last[T]}], last[T], "stop")]
<1>5. R = [T \in SUBSET S |->
             IF T = {} THEN M ELSE Peer!Cancel(R[T \ {last[T]}], last[T], "stop")]
  <2>1. \A T \in (SUBSET S) \ {{}} : T \ {last[T]} \in SUBSET S /\ last[T] \in S
    BY <1>1
  <2>2. ASSUME NEW T \in SUBSET S
        PROVE  g[T] = IF T = {} THEN M ELSE Peer!Cancel(g[T \ {last[T]}], last[T], "stop")
    <3>1. CASE T = {}
      BY <1>3, <3>1 DEF Walk
    <3>2. CASE T # {}
      <4>1. g[T \ {last[T]}] \in Good /\ last[T] \in S
        BY <1>3, <2>1, <3>2 DEF Walk
      <4> QED
        BY <1>2, <1>3, <3>2, <4>1 DEF Walk
    <3> QED
      BY <3>1, <3>2
  <2>3. g = [T \in SUBSET S |-> g[T]]
    BY <1>3 DEF Walk
  <2>4. g = [T \in SUBSET S |->
               IF T = {} THEN M ELSE Peer!Cancel(g[T \ {last[T]}], last[T], "stop")]
    BY <2>2, <2>3, Zenon
  <2> QED
    BY <2>4
<1>6. R[S] \in Good /\ \A i \in S : R[S] \in Done[i]
  <2> HIDE DEF R
  <2> QED
    BY <1>4, <1>5
<1>7. Peer!CanceledIn(M, S, last) = R[S]
  BY DEF Peer!CanceledIn
<1> QED
  BY <1>6, <1>7

LEMMA CanceledInAdvances ==
  ASSUME EngineAssumption, NEW P, Loose(P), NEW S, S = Peer!Live(P),
         NEW last \in Peer!Orders(S)
  PROVE  LET Q == Peer!CanceledIn(P, S, last) IN
         Advances(P, Q) /\ \A i \in Invocation : Q.inv[i].life = "live" => Q.inv[i].reason # Nil
<1> DEFINE Good == {D \in Peers : Advances(P, D)}
           Done == [i \in S |-> {D \in Good : D.inv[i].life = "live" => D.inv[i].reason # Nil}]
           Q == Peer!CanceledIn(P, S, last)
<1>1. IsFiniteSet(S) /\ S \subseteq Invocation
  BY FS_Subset DEF Peer!Live, EngineAssumption
<1>2. P \in Good
  BY SpeaksSame DEF Loose, Advances
<1>3. Done \in [S -> SUBSET Good]
  OBVIOUS
<1>4. ASSUME NEW D \in Good, NEW i \in S
      PROVE  /\ Peer!Cancel(D, i, "stop") \in Done[i]
             /\ \A j \in S : D \in Done[j] => Peer!Cancel(D, i, "stop") \in Done[j]
  <2> DEFINE C == Peer!Cancel(D, i, "stop")
  <2>1. Loose(D) /\ Advances(P, D) /\ i \in Invocation
    BY <1>1 DEF Advances, Speaks
  <2>2. Advances(D, C) /\ (C.inv[i].life = "live" => C.inv[i].reason # Nil)
    BY <2>1, CancelAdvances
  <2> HIDE DEF C
  <2>3. C \in Good
    <3>1. Advances(P, C)
      BY <2>1, <2>2, AdvancesChain
    <3> QED
      BY <3>1 DEF Advances, Speaks, Loose
  <2>4. ASSUME NEW j \in S, D \in Done[j] PROVE C \in Done[j]
    <3>1. D.inv[j].life = "live" => D.inv[j].reason # Nil
      BY <2>4
    <3>2. C.inv[j].life = "live" => C.inv[j].reason # Nil
      BY <1>1, <2>2, <3>1 DEF Advances, Keeps
    <3> QED
      BY <2>3, <3>2
  <2> QED
    BY <2>2, <2>3, <2>4 DEF C
<1>5. Q \in Good /\ \A i \in S : Q \in Done[i]
  <2> HIDE DEF Good, Done
  <2> QED
    BY <1>1, <1>2, <1>3, <1>4, PeerCanceledInGood
<1>6. Advances(P, Q) /\ \A i \in S : Q.inv[i].life = "live" => Q.inv[i].reason # Nil
  BY <1>5
<1> HIDE DEF Q
<1>7. ASSUME NEW i \in Invocation, Q.inv[i].life = "live" PROVE Q.inv[i].reason # Nil
  <2>1. i \in S
    BY <1>6, <1>7 DEF Advances, Keeps, Peer!Live
  <2> QED
    BY <1>6, <1>7, <2>1
<1> QED
  BY <1>6, <1>7 DEF Q

-----------------------------------------------------------------------------
(* What the peer does with a frame.                                          *)

Heard == ToChild \cup {<<"bad">>, Closed}

(* A step of the peer under its monitor.                                     *)
Serves(P, Q) == Speaks(P, Q) /\ Shut(Q)

LEMMA AdvancesServes ==
  ASSUME NEW P, Shut(P), NEW Q, Advances(P, Q)
  PROVE  Serves(P, Q)
BY AdvancesShut DEF Serves, Advances

LEMMA FailServes ==
  ASSUME EngineAssumption, NEW P, Loose(P), Shut(P), NEW kind, NEW send \in BOOLEAN
  PROVE  Serves(P, Peer!Fail(P, kind, send))
<1> DEFINE Q == Peer!Fail(P, kind, send)
<1>1. Advances(P, Q)
  BY FailAdvances
<1> HIDE DEF Q
<1>2. Serves(P, Q)
  BY <1>1, AdvancesServes
<1> QED
  BY <1>2 DEF Q

LEMMA StartServes ==
  ASSUME EngineAssumption, NEW P, Loose(P), Shut(P)
  PROVE  Serves(P, Peer!OnStart(P))
<1> DEFINE Q == [P EXCEPT !.phase = "starting"]
<1>1. CASE P.phase # "await"
  BY <1>1, FailServes DEF Peer!OnStart
<1>2. CASE P.phase = "await"
  <2>1. /\ Q \in Peers /\ Q.phase = "starting" /\ Q.inv = P.inv /\ Q.out = P.out
        /\ Q.cleanup = P.cleanup /\ Q.startupDone = P.startupDone
    BY DEF Loose, Peers
  <2>2. Peer!OnStart(P) = Q
    BY <1>2 DEF Peer!OnStart
  <2> HIDE DEF Q
  <2>3. Loose(Q) /\ Shut(Q)
    BY <1>2, <2>1 DEF Loose, Shut, Peer!Live
  <2>4. Speaks(P, Q)
    BY <1>2, <2>1, <2>3, SpeaksNothing
  <2> QED
    BY <2>2, <2>3, <2>4 DEF Serves
<1> QED
  BY <1>1, <1>2

LEMMA InvokeServes ==
  ASSUME EngineAssumption, NEW P, Loose(P), Shut(P), NEW i \in Invocation
  PROVE  Serves(P, Peer!OnInvoke(P, i))
<1> DEFINE v == P.inv[i]
           d == [v EXCEPT !.life = "live"]
           f == <<"accepted", i>>
           E == [P EXCEPT !.inv[i] = d]
           Q == Peer!Send(E, f)
<1>1. \/ Peer!OnInvoke(P, i) = Peer!Fail(P, "protocol", TRUE)
      \/ /\ P.phase = "ready" /\ v.life = "none"
         /\ Peer!OnInvoke(P, i) = Peer!Send([P EXCEPT !.inv[i].life = "live"], f)
  BY DEF Peer!OnInvoke
<1>2. ASSUME P.phase = "ready", v.life = "none" PROVE Serves(P, Q)
  <2>1. v = NewThread /\ P \in Peers /\ v \in Threads
    BY <1>2, PeerParts DEF Loose, Sane
  <2>2. /\ d \in Threads /\ d.life = "live" /\ d.gate = 0 /\ d.proxy = "outside"
        /\ d.transaction = "none" /\ d.lease = "none" /\ d.source = Nil /\ d.arrivals = 0
    <3>1. /\ d \in Threads /\ d.life = "live" /\ d.gate = v.gate /\ d.proxy = v.proxy
          /\ d.transaction = v.transaction /\ d.lease = v.lease /\ d.source = v.source
          /\ d.arrivals = v.arrivals
      BY <2>1 DEF Threads
    <3> HIDE DEF d, v
    <3> QED
      BY <2>1, <3>1 DEF NewThread
  <2> HIDE DEF d
  <2>3. Sane(d)
    BY <2>2 DEF Sane
  <2>4. Threaded(P, E, i, d)
    BY <2>1, <2>2, ThreadSet
  <2>5. f \in Said /\ f # <<"fatal">> /\ f # <<"stopped">>
    BY DEF Said, FromChild, Terminals
  <2>6. \A j \in Invocation : (f \in TalkOf(j) => j = i) /\ f \notin EndOf(j)
    BY DEF TalkOf, EndOf
  <2> HIDE DEF E, f
  <2>7. /\ Q \in Peers /\ Q.inv = E.inv /\ Q.phase = "ready" /\ Q.cleanup = P.cleanup
        /\ Q.startupDone = P.startupDone /\ Q.out = Append(P.out, f)
    <3>1. E \in Peers
      BY <2>4 DEF Threaded
    <3> QED
      BY <1>2, <2>4, <2>5, <3>1, Sends DEF Threaded
  <2> HIDE DEF Q
  <2>8. \A j \in Invocation : Q.inv[j] = IF j = i THEN d ELSE P.inv[j]
    BY <2>4, <2>7 DEF Threaded
  <2>9. P.cleanup = "none"
    BY <1>2 DEF Loose, Peers
  <2>10. Loose(Q)
    <3>1. \A j \in Invocation : Sane(Q.inv[j])
      BY <2>3, <2>8 DEF Loose
    <3> QED
      BY <1>2, <2>7, <2>9, <3>1 DEF Loose
  <2>11. Speaks(P, Q)
    <3>1. \A j \in Invocation : P.inv[j].life = "retired" => Q.inv[j] = P.inv[j]
      BY <1>2, <2>8
    <3>2. \A j \in Invocation : f \in TalkOf(j) \cup EndOf(j) => P.inv[j].life # "retired"
      BY <1>2, <2>6
    <3>3. \A j \in Invocation : f \in EndOf(j) => True(f, Q.inv[j])
      BY <2>6
    <3> QED
      BY <1>2, <2>5, <2>7, <2>9, <2>10, <3>1, <3>2, <3>3, SpeaksOne
  <2>12. Shut(Q)
    BY <2>7 DEF Shut
  <2> QED
    BY <2>11, <2>12 DEF Serves
<1>3. CASE Peer!OnInvoke(P, i) = Peer!Fail(P, "protocol", TRUE)
  BY <1>3, FailServes
<1>4. [P EXCEPT !.inv[i].life = "live"] = E
  OBVIOUS
<1>5. ASSUME P.phase = "ready", v.life = "none",
             Peer!OnInvoke(P, i) = Peer!Send([P EXCEPT !.inv[i].life = "live"], f)
      PROVE  Serves(P, Peer!OnInvoke(P, i))
  <2>1. Serves(P, Q)
    BY <1>2, <1>5
  <2>2. Peer!OnInvoke(P, i) = Q
    BY <1>4, <1>5
  <2> HIDE DEF Q
  <2> QED
    BY <2>1, <2>2
<1> QED
  BY <1>1, <1>3, <1>5

LEMMA ReleaseServes ==
  ASSUME EngineAssumption, NEW P, Loose(P), Shut(P), NEW i \in Invocation, NEW n
  PROVE  Serves(P, Peer!OnRelease(P, i, n))
<1> DEFINE v == P.inv[i]
           d == [v EXCEPT !.gate = 0]
           E == [P EXCEPT !.inv[i] = d]
<1>1. \/ Peer!OnRelease(P, i, n) = Peer!Fail(P, "protocol", TRUE)
      \/ Peer!OnRelease(P, i, n) = P
      \/ /\ v.life # "none" /\ v.life # "retired"
         /\ Peer!OnRelease(P, i, n) = [P EXCEPT !.inv[i].gate = 0]
  BY DEF Peer!OnRelease
<1>2. ASSUME v.life # "none", v.life # "retired" PROVE Serves(P, E)
  <2>1. v \in Threads /\ Sane(v) /\ P \in Peers
    BY PeerParts DEF Loose
  <2>2. /\ d \in Threads /\ d.life = v.life /\ d.gate = 0 /\ d.proxy = v.proxy
        /\ d.transaction = v.transaction /\ d.lease = v.lease /\ d.reason = v.reason
        /\ d.source = v.source /\ d.arrivals = v.arrivals
    BY <2>1 DEF Threads
  <2> HIDE DEF d
  <2>3. Sane(d)
    BY <1>2, <2>1, <2>2 DEF Sane
  <2>4. Threaded(P, E, i, d)
    BY <2>1, <2>2, ThreadSet
  <2> HIDE DEF E
  <2>5. Loose(E) /\ Speaks(P, E) /\ Keeps(P, E)
    <3>1. P.inv[i].life # "retired" /\ d.life = P.inv[i].life /\ d.reason = P.inv[i].reason
      BY <1>2, <2>2
    <3> HIDE DEF v
    <3> QED
      BY <2>2, <2>3, <2>4, <3>1, ThreadMoves
  <2>6. Advances(P, E)
    BY <2>4, <2>5 DEF Advances, Threaded
  <2> QED
    BY <2>6, AdvancesServes
<1>3. CASE Peer!OnRelease(P, i, n) = Peer!Fail(P, "protocol", TRUE)
  BY <1>3, FailServes
<1>4. CASE Peer!OnRelease(P, i, n) = P
  <2>1. Speaks(P, P)
    BY SpeaksSame
  <2> QED
    BY <1>4, <2>1 DEF Serves
<1>5. [P EXCEPT !.inv[i].gate = 0] = E
  OBVIOUS
<1>6. ASSUME v.life # "none", v.life # "retired",
             Peer!OnRelease(P, i, n) = [P EXCEPT !.inv[i].gate = 0]
      PROVE  Serves(P, Peer!OnRelease(P, i, n))
  <2>1. Serves(P, E)
    BY <1>2, <1>6
  <2>2. Peer!OnRelease(P, i, n) = E
    BY <1>5, <1>6
  <2> HIDE DEF E
  <2> QED
    BY <2>1, <2>2
<1> QED
  BY <1>1, <1>3, <1>4, <1>6

LEMMA CancelServes ==
  ASSUME EngineAssumption, NEW P, Loose(P), Shut(P), NEW i \in Invocation,
         NEW why \in {"context", "stop"}
  PROVE  Serves(P, Peer!OnCancel(P, i, why))
<1>1. CASE P.inv[i].life = "none"
  BY <1>1, FailServes DEF Peer!OnCancel
<1>2. CASE P.inv[i].life # "none"
  <2> DEFINE Q == Peer!Cancel(P, i, why)
  <2>1. Advances(P, Q)
    BY CancelAdvances
  <2> HIDE DEF Q
  <2>2. Serves(P, Q)
    BY <2>1, AdvancesServes
  <2> QED
    BY <1>2, <2>2 DEF Peer!OnCancel, Q
<1> QED
  BY <1>1, <1>2

(* After stop every invocation that is live was told.                        *)
LEMMA StopServes ==
  ASSUME EngineAssumption, NEW P, Loose(P), Shut(P), P.phase \notin {"await", "failed"},
         NEW last \in Peer!Orders(Peer!Live(P))
  PROVE  Serves(P, Peer!OnStop(P, last))
<1>1. CASE P.phase = "stopping"
  BY <1>1, FailServes DEF Peer!OnStop
<1>2. CASE P.phase # "stopping"
  <2> DEFINE A == [P EXCEPT !.phase = "stopping", !.stopArmed = TRUE]
             C == Peer!CanceledIn(A, Peer!Live(P), last)
             Q == Peer!FinishCleanup(C)
  <2>1. /\ A \in Peers /\ A.phase = "stopping" /\ A.inv = P.inv /\ A.out = P.out
        /\ A.cleanup = P.cleanup /\ A.startupDone = P.startupDone
    BY DEF Loose, Peers
  <2>2. Peer!OnStop(P, last) = Q
    BY <1>2 DEF Peer!OnStop
  <2> HIDE DEF A
  <2>3. Loose(A) /\ Peer!Live(A) = Peer!Live(P)
    BY <1>2, <2>1 DEF Loose, Peer!Live
  <2>4. Speaks(P, A)
    BY <1>2, <2>1, <2>3, SpeaksNothing
  <2>5. /\ Advances(A, C)
        /\ \A i \in Invocation : C.inv[i].life = "live" => C.inv[i].reason # Nil
    BY <2>3, CanceledInAdvances
  <2> HIDE DEF C
  <2>6. Loose(C) /\ Shut(C) /\ Speaks(P, C)
    BY <2>4, <2>5, SpeaksChain DEF Advances, Speaks, Shut
  <2>7. Advances(C, Q)
    BY <2>6, FinishAdvances
  <2> HIDE DEF Q
  <2>8. Shut(Q) /\ Speaks(P, Q)
    BY <2>6, <2>7, AdvancesShut, SpeaksChain DEF Advances
  <2> QED
    BY <2>2, <2>8 DEF Serves
<1> QED
  BY <1>1, <1>2

LEMMA HandleServes ==
  ASSUME EngineAssumption, NEW P, Loose(P), Shut(P), P.phase # "failed", NEW f \in Heard,
         NEW last \in Peer!Orders(Peer!Live(P))
  PROVE  Serves(P, Peer!Handle(P, f, last))
<1>1. CASE P.phase = "await" /\ f[1] # "start"
  BY <1>1, FailServes DEF Peer!Handle
<1>2. CASE f[1] = "start"
  BY <1>2, StartServes DEF Peer!Handle
<1>3. CASE P.phase # "await" /\ f[1] = "invoke"
  <2>1. f[2] \in Invocation
    BY <1>3 DEF Heard, ToChild, Closed
  <2>2. Peer!Handle(P, f, last) = Peer!OnInvoke(P, f[2])
    BY <1>3 DEF Peer!Handle
  <2> QED
    BY <2>1, <2>2, InvokeServes
<1>4. CASE P.phase # "await" /\ f[1] = "release"
  <2>1. f[2] \in Invocation
    BY <1>4 DEF Heard, ToChild, Closed
  <2>2. Peer!Handle(P, f, last) = Peer!OnRelease(P, f[2], f[3])
    BY <1>4 DEF Peer!Handle
  <2> QED
    BY <2>1, <2>2, ReleaseServes
<1>5. CASE P.phase # "await" /\ f[1] = "cancel"
  <2>1. f[2] \in Invocation /\ f[3] \in {"context", "stop"}
    BY <1>5 DEF Heard, ToChild, Closed
  <2>2. Peer!Handle(P, f, last) = Peer!OnCancel(P, f[2], f[3])
    BY <1>5 DEF Peer!Handle
  <2> QED
    BY <2>1, <2>2, CancelServes
<1>6. CASE P.phase # "await" /\ f[1] = "stop"
  <2>1. Peer!Handle(P, f, last) = Peer!OnStop(P, last)
    BY <1>6 DEF Peer!Handle
  <2> QED
    BY <1>6, <2>1, StopServes
<1>7. CASE P.phase # "await" /\ f[1] \notin {"start", "invoke", "release", "cancel", "stop"}
  <2>1. \/ Peer!Handle(P, f, last) = Peer!Fail(P, "engine", FALSE)
        \/ Peer!Handle(P, f, last) = Peer!Fail(P, "protocol", TRUE)
        \/ Peer!Handle(P, f, last) = Peer!Fail(P, "transport", TRUE)
    BY <1>7 DEF Peer!Handle
  <2> QED
    BY <2>1, FailServes
<1> QED
  BY <1>1, <1>2, <1>3, <1>4, <1>5, <1>6, <1>7

-----------------------------------------------------------------------------
(* The thread of an invocation.                                              *)

(* It goes on, and what the peer makes of that.                              *)
LEMMA RunServes ==
  ASSUME EngineAssumption, NEW P, Loose(P), Shut(P), NEW i \in Invocation,
         P.inv[i].life = "live", NEW d \in Threads, d.life = "live", d.gate = 0,
         d.reason = P.inv[i].reason, d.proxy # "outside",
         d.proxy = "skipped" => d.transaction = "none" /\ d.lease = "none"
  PROVE  LET E == [P EXCEPT !.inv[i] = d] IN
         Serves(P, E) /\ Serves(P, Peer!Progress(E, i))
<1> DEFINE E == [P EXCEPT !.inv[i] = d]
           Q == Peer!Progress(E, i)
<1>1. Sane(d)
  BY DEF Sane
<1>2. Threaded(P, E, i, d)
  BY ThreadSet DEF Loose
<1> HIDE DEF E
<1>3. Loose(E) /\ Speaks(P, E) /\ Keeps(P, E)
  BY <1>1, <1>2, ThreadMoves
<1>4. Advances(P, E)
  BY <1>2, <1>3 DEF Advances, Threaded
<1>5. Advances(E, Q)
  BY <1>3, ProgressAdvances
<1> HIDE DEF Q
<1>6. Advances(P, Q)
  BY <1>4, <1>5, AdvancesChain
<1>7. Serves(P, E) /\ Serves(P, Q)
  BY <1>4, <1>6, AdvancesServes
<1> QED
  BY <1>7 DEF E, Q

Served == \E Q : Serves(peer, Q) /\ Peer!Local(Q)

LEMMA TaskStartsServes ==
  ASSUME EngineAssumption, Loose(peer), Shut(peer), NEW i \in Invocation, Peer!TaskStarts(i)
  PROVE  Served
<1> DEFINE v == peer.inv[i]
           d == [v EXCEPT !.proxy = "skipped"]
           e == [v EXCEPT !.proxy = "inside"]
           D == [peer EXCEPT !.inv[i] = d]
           E == [peer EXCEPT !.inv[i] = e]
<1>1. v \in Threads /\ Sane(v) /\ v.life = "live" /\ v.proxy = "outside"
  BY PeerParts DEF Loose, Peer!TaskStarts
<1>2. /\ d \in Threads /\ d.life = "live" /\ d.gate = v.gate /\ d.reason = v.reason
      /\ d.proxy = "skipped" /\ d.transaction = v.transaction /\ d.lease = v.lease
      /\ e \in Threads /\ e.life = "live" /\ e.gate = v.gate /\ e.reason = v.reason
      /\ e.proxy = "inside"
  BY <1>1 DEF Threads
<1>3. Peer!Local(Peer!Progress(D, i)) \/ Peer!Local(E)
  BY DEF Peer!TaskStarts
<1> HIDE DEF d, e
<1>4. v.gate = 0 /\ v.transaction = "none" /\ v.lease = "none"
  BY <1>1 DEF Sane
<1>5. Serves(peer, Peer!Progress(D, i)) /\ Serves(peer, E)
  BY <1>1, <1>2, <1>4, RunServes
<1> HIDE DEF D, E
<1> QED
  BY <1>3, <1>5 DEF Served

LEMMA LeaseConnectionServes ==
  ASSUME EngineAssumption, Loose(peer), Shut(peer), NEW i \in Invocation, Peer!LeaseConnection(i)
  PROVE  Served
<1> DEFINE v == peer.inv[i]
           d == [v EXCEPT !.lease = "held"]
           D == [peer EXCEPT !.inv[i] = d]
<1>1. v \in Threads /\ v.life = "live" /\ v.proxy = "inside" /\ v.gate = 0
  BY PeerParts DEF Loose, Sane, Peer!LeaseConnection, Peer!Beginning, Peer!Runs
<1>2. /\ d \in Threads /\ d.life = "live" /\ d.gate = 0 /\ d.reason = v.reason
      /\ d.proxy = "inside"
  BY <1>1 DEF Threads
<1>3. Peer!Local(D)
  BY DEF Peer!LeaseConnection
<1> HIDE DEF d
<1>4. Serves(peer, D)
  BY <1>1, <1>2, RunServes
<1> HIDE DEF D
<1> QED
  BY <1>3, <1>4 DEF Served

LEMMA BeginServes ==
  ASSUME EngineAssumption, Loose(peer), Shut(peer), NEW i \in Invocation, Peer!Begin(i)
  PROVE  Served
<1> DEFINE v == peer.inv[i]
           d == [v EXCEPT !.transaction = "active"]
           D == [peer EXCEPT !.inv[i] = d]
<1>1. v \in Threads /\ v.life = "live" /\ v.proxy = "inside" /\ v.gate = 0
  BY PeerParts DEF Loose, Sane, Peer!Begin, Peer!Beginning, Peer!Runs
<1>2. /\ d \in Threads /\ d.life = "live" /\ d.gate = 0 /\ d.reason = v.reason
      /\ d.proxy = "inside"
  BY <1>1 DEF Threads
<1>3. Peer!Local(D)
  BY DEF Peer!Begin
<1> HIDE DEF d
<1>4. Serves(peer, D)
  BY <1>1, <1>2, RunServes
<1> HIDE DEF D
<1> QED
  BY <1>3, <1>4 DEF Served

LEMMA BeginFailsServes ==
  ASSUME EngineAssumption, Loose(peer), Shut(peer), NEW i \in Invocation, Peer!BeginFails(i)
  PROVE  Served
<1>1. Peer!Local(Peer!Thrown(peer, i, "application"))
  BY DEF Peer!BeginFails
<1> DEFINE v == peer.inv[i]
           b == (v.reason = Nil)
           d == [v EXCEPT !.source = "application", !.first = b]
           D == [peer EXCEPT !.inv[i] = d]
<1>2. v \in Threads /\ v.life = "live" /\ v.proxy = "inside" /\ v.gate = 0
  BY PeerParts DEF Loose, Sane, Peer!BeginFails, Peer!Beginning, Peer!Runs
<1>3. b \in BOOLEAN
  OBVIOUS
<1>4. Peer!Thrown(peer, i, "application") = D
  BY DEF Peer!Thrown
<1> HIDE DEF b
<1>5. /\ d \in Threads /\ d.life = "live" /\ d.gate = 0 /\ d.reason = v.reason
      /\ d.proxy = "inside"
  BY <1>2, <1>3 DEF Threads
<1>6. Peer!Local(D)
  BY <1>1, <1>4
<1> HIDE DEF d
<1>7. Serves(peer, D)
  BY <1>2, <1>5, RunServes
<1> HIDE DEF D
<1> QED
  BY <1>6, <1>7 DEF Served

LEMMA BodyThrowsServes ==
  ASSUME EngineAssumption, Loose(peer), Shut(peer), NEW i \in Invocation, Peer!BodyThrows(i)
  PROVE  Served
<1>1. PICK source \in {"application", "cancelled"} : Peer!Local(Peer!Thrown(peer, i, source))
  BY DEF Peer!BodyThrows
<1> DEFINE v == peer.inv[i]
           b == (v.reason = Nil)
           d == [v EXCEPT !.source = source, !.first = b]
           D == [peer EXCEPT !.inv[i] = d]
<1>2. v \in Threads /\ v.life = "live" /\ v.proxy = "inside" /\ v.gate = 0
  BY PeerParts DEF Loose, Sane, Peer!BodyThrows, Peer!Body, Peer!Runs
<1>3. b \in BOOLEAN
  OBVIOUS
<1>4. Peer!Thrown(peer, i, source) = D
  BY DEF Peer!Thrown
<1> HIDE DEF b
<1>5. /\ d \in Threads /\ d.life = "live" /\ d.gate = 0 /\ d.reason = v.reason
      /\ d.proxy = "inside"
  BY <1>2, <1>3 DEF Threads
<1>6. Peer!Local(D)
  BY <1>1, <1>4
<1> HIDE DEF d
<1>7. Serves(peer, D)
  BY <1>2, <1>5, RunServes
<1> HIDE DEF D
<1> QED
  BY <1>6, <1>7 DEF Served

LEMMA CompleteServes ==
  ASSUME EngineAssumption, Loose(peer), Shut(peer), NEW i \in Invocation, Peer!Complete(i)
  PROVE  Served
<1>1. PICK outcome \in {"committed", "rolled_back", "unknown"} :
        Peer!Local(Peer!Progress([peer EXCEPT !.inv[i].transaction = outcome], i))
  BY DEF Peer!Complete
<1> DEFINE v == peer.inv[i]
           d == [v EXCEPT !.transaction = outcome]
           D == [peer EXCEPT !.inv[i] = d]
<1>2. v \in Threads /\ v.life = "live" /\ v.proxy = "inside" /\ v.gate = 0
  BY PeerParts DEF Loose, Sane, Peer!Complete, Peer!Runs
<1>3. /\ d \in Threads /\ d.life = "live" /\ d.gate = 0 /\ d.reason = v.reason
      /\ d.proxy = "inside"
  BY <1>2 DEF Threads
<1>4. Peer!Local(Peer!Progress(D, i))
  BY <1>1
<1> HIDE DEF d
<1>5. Serves(peer, Peer!Progress(D, i))
  BY <1>2, <1>3, RunServes
<1> HIDE DEF D
<1> QED
  BY <1>4, <1>5 DEF Served

LEMMA ReturnLeaseServes ==
  ASSUME EngineAssumption, Loose(peer), Shut(peer), NEW i \in Invocation, Peer!ReturnLease(i)
  PROVE  Served
<1>1. PICK lease \in {"returned", "failed"} :
        Peer!Local(Peer!Progress([peer EXCEPT !.inv[i].lease = lease], i))
  BY DEF Peer!ReturnLease
<1> DEFINE v == peer.inv[i]
           d == [v EXCEPT !.lease = lease]
           D == [peer EXCEPT !.inv[i] = d]
<1>2. v \in Threads /\ v.life = "live" /\ v.proxy = "inside" /\ v.gate = 0
  BY PeerParts DEF Loose, Sane, Peer!ReturnLease, Peer!Runs
<1>3. /\ d \in Threads /\ d.life = "live" /\ d.gate = 0 /\ d.reason = v.reason
      /\ d.proxy = "inside"
  BY <1>2 DEF Threads
<1>4. Peer!Local(Peer!Progress(D, i))
  BY <1>1
<1> HIDE DEF d
<1>5. Serves(peer, Peer!Progress(D, i))
  BY <1>2, <1>3, RunServes
<1> HIDE DEF D
<1> QED
  BY <1>4, <1>5 DEF Served

LEMMA ProxyExitsServes ==
  ASSUME EngineAssumption, Loose(peer), Shut(peer), NEW i \in Invocation, Peer!ProxyExits(i)
  PROVE  Served
<1> DEFINE v == peer.inv[i]
           d == [v EXCEPT !.proxy = "exited"]
           D == [peer EXCEPT !.inv[i] = d]
<1>1. v \in Threads /\ v.life = "live" /\ v.proxy = "inside" /\ v.gate = 0
  BY PeerParts DEF Loose, Sane, Peer!ProxyExits, Peer!Runs
<1>2. /\ d \in Threads /\ d.life = "live" /\ d.gate = 0 /\ d.reason = v.reason
      /\ d.proxy = "exited"
  BY <1>1 DEF Threads
<1>3. Peer!Local(Peer!Progress(D, i))
  BY DEF Peer!ProxyExits
<1> HIDE DEF d
<1>4. Serves(peer, Peer!Progress(D, i))
  BY <1>1, <1>2, RunServes
<1> HIDE DEF D
<1> QED
  BY <1>3, <1>4 DEF Served

LEMMA ArriveServes ==
  ASSUME EngineAssumption, Loose(peer), Shut(peer), NEW i \in Invocation, Peer!Arrive(i)
  PROVE  Served
<1> DEFINE v == peer.inv[i]
           n == v.arrivals + 1
           f == <<"arrive", i, n>>
           d == [v EXCEPT !.arrivals = n, !.gate = n]
           E == [peer EXCEPT !.inv[i] = d]
           Q == Peer!Send(E, f)
<1>1. /\ v \in Threads /\ Sane(v) /\ peer \in Peers /\ v.life = "live" /\ v.proxy = "inside"
      /\ v.gate = 0 /\ v.reason = Nil /\ peer.phase # "failed"
  BY PeerParts DEF Loose, Sane, Peer!Arrive, Peer!Body, Peer!Runs
<1>2. n \in Nat \ {0}
  BY <1>1 DEF Threads
<1>3. Peer!Local(Q)
  BY DEF Peer!Arrive
<1> HIDE DEF n
<1>4. /\ d \in Threads /\ d.life = "live" /\ d.gate = n /\ d.arrivals = n /\ d.reason = Nil
      /\ d.proxy = "inside" /\ d.transaction = v.transaction /\ d.lease = v.lease
      /\ d.source = v.source
  BY <1>1, <1>2 DEF Threads
<1> HIDE DEF d
<1>5. Sane(d)
  BY <1>4 DEF Sane
<1>6. Threaded(peer, E, i, d)
  BY <1>1, <1>4, ThreadSet
<1>7. f \in Said /\ f # <<"fatal">> /\ f # <<"stopped">>
  BY <1>2 DEF Said, FromChild, Terminals
<1>8. \A j \in Invocation : (f \in TalkOf(j) => j = i) /\ f \notin EndOf(j)
  BY DEF TalkOf, EndOf
<1> HIDE DEF E, f
<1>9. /\ Q \in Peers /\ Q.inv = E.inv /\ Q.phase = peer.phase /\ Q.cleanup = peer.cleanup
      /\ Q.startupDone = peer.startupDone /\ Q.out = Append(peer.out, f)
  <2>1. E \in Peers
    BY <1>6 DEF Threaded
  <2> QED
    BY <1>6, <1>7, <2>1, Sends DEF Threaded
<1> HIDE DEF Q
<1>10. \A j \in Invocation : Q.inv[j] = IF j = i THEN d ELSE peer.inv[j]
  BY <1>6, <1>9 DEF Threaded
<1>11. peer.phase \notin {"await", "starting", "stopping", "failed"} /\ peer.cleanup = "none"
  BY <1>1 DEF Loose, Shut
<1>12. peer.phase = "ready" /\ peer.startupDone
  BY <1>1, <1>11 DEF Peers, Loose
<1>13. Loose(Q)
  <2>1. \A j \in Invocation : Sane(Q.inv[j])
    BY <1>5, <1>10 DEF Loose
  <2> QED
    BY <1>9, <1>11, <1>12, <2>1 DEF Loose
<1>14. Speaks(peer, Q)
  <2>1. \A j \in Invocation : peer.inv[j].life = "retired" => Q.inv[j] = peer.inv[j]
    BY <1>1, <1>10
  <2>2. \A j \in Invocation : f \in TalkOf(j) \cup EndOf(j) => peer.inv[j].life # "retired"
    BY <1>1, <1>8
  <2>3. \A j \in Invocation : f \in EndOf(j) => True(f, Q.inv[j])
    BY <1>8
  <2> QED
    BY <1>7, <1>9, <1>11, <1>13, <2>1, <2>2, <2>3, SpeaksOne
<1>15. Shut(Q)
  BY <1>9, <1>12 DEF Shut
<1> QED
  BY <1>3, <1>14, <1>15 DEF Served, Serves

LEMMA WorkerServes ==
  ASSUME EngineAssumption, Loose(peer), Shut(peer), NEW i \in Invocation, Peer!WorkerStep(i)
  PROVE  Served
BY TaskStartsServes, LeaseConnectionServes, BeginServes, BeginFailsServes, ArriveServes, BodyThrowsServes,
   CompleteServes, ReturnLeaseServes, ProxyExitsServes DEF Peer!WorkerStep

-----------------------------------------------------------------------------
(* Startup and cleanup.                                                      *)

LEMMA StartupServes ==
  ASSUME EngineAssumption, Loose(peer), Shut(peer), Peer!StartupEnds
  PROVE  Served
<1> DEFINE P == [peer EXCEPT !.startupDone = TRUE]
           R == [P EXCEPT !.phase = "ready"]
           Q == Peer!Send(R, <<"ready">>)
<1>1. /\ P \in Peers /\ P.phase = peer.phase /\ P.inv = peer.inv /\ P.out = peer.out
      /\ P.cleanup = peer.cleanup /\ P.startupDone = TRUE
  BY DEF Loose, Peers
<1>2. peer.phase # "await" /\ UNCHANGED <<toPeer, child>>
  BY DEF Peer!StartupEnds
<1>3. \/ peer.phase # "starting" /\ Peer!Becomes(Peer!FinishCleanup(P))
      \/ peer.phase = "starting" /\ Peer!Becomes(Q)
      \/ peer.phase = "starting" /\ Peer!Becomes(Peer!Fail(P, "startup", TRUE))
  BY DEF Peer!StartupEnds
<1> HIDE DEF P
<1>4. Loose(P) /\ Peer!Live(P) = Peer!Live(peer)
  BY <1>1, <1>2 DEF Loose, Peer!Live
<1>5. Speaks(peer, P) /\ Keeps(peer, P) /\ Shut(P)
  BY <1>1, <1>4, SpeaksNothing DEF Keeps, Shut
<1>6. Advances(peer, P)
  BY <1>1, <1>5 DEF Advances
<1>7. CASE Peer!Becomes(Peer!FinishCleanup(P))
  <2> DEFINE C == Peer!FinishCleanup(P)
  <2>1. Advances(P, C)
    BY <1>4, FinishAdvances
  <2>2. Peer!Becomes(C)
    BY <1>7
  <2> HIDE DEF C
  <2>3. Serves(peer, C)
    BY <1>6, <2>1, AdvancesChain, AdvancesServes
  <2> QED
    BY <1>2, <2>2, <2>3 DEF Served, Peer!Local
<1>8. CASE Peer!Becomes(Peer!Fail(P, "startup", TRUE))
  <2> DEFINE C == Peer!Fail(P, "startup", TRUE)
  <2>1. Advances(P, C)
    BY <1>4, FailAdvances
  <2>2. Peer!Becomes(C)
    BY <1>8
  <2> HIDE DEF C
  <2>3. Serves(peer, C)
    BY <1>6, <2>1, AdvancesChain, AdvancesServes
  <2> QED
    BY <1>2, <2>2, <2>3 DEF Served, Peer!Local
<1>9. CASE peer.phase = "starting" /\ Peer!Becomes(Q)
  <2> DEFINE f == <<"ready">>
  <2>1. f \in Said /\ f # <<"fatal">> /\ f # <<"stopped">>
    BY DEF Said, FromChild
  <2>2. \A j \in Invocation : f \notin TalkOf(j) \cup EndOf(j)
    BY DEF TalkOf, EndOf
  <2>3. /\ R \in Peers /\ R.phase = "ready" /\ R.inv = P.inv /\ R.out = P.out
        /\ R.cleanup = P.cleanup /\ R.startupDone = TRUE
    BY <1>1 DEF Peers
  <2> HIDE DEF R
  <2>4. /\ Q \in Peers /\ Q.phase = "ready" /\ Q.inv = P.inv /\ Q.cleanup = P.cleanup
        /\ Q.startupDone = TRUE /\ Q.out = Append(P.out, f)
    BY <2>1, <2>3, Sends
  <2>5. Peer!Becomes(Q)
    BY <1>9
  <2> HIDE DEF Q, f
  <2>6. P.cleanup = "none" /\ P.phase = "starting"
    BY <1>1, <1>4, <1>9 DEF Loose
  <2>7. Loose(Q)
    <3>1. \A i \in Invocation : Sane(Q.inv[i])
      BY <1>4, <2>4 DEF Loose
    <3> QED
      BY <2>4, <2>6, <3>1 DEF Loose
  <2>8. Speaks(P, Q)
    BY <1>4, <2>1, <2>2, <2>4, <2>6, <2>7, SpeaksOne
  <2>9. Serves(peer, Q)
    <3>1. Speaks(peer, Q)
      BY <1>5, <2>8, SpeaksChain
    <3> QED
      BY <2>4, <3>1 DEF Serves, Shut
  <2> QED
    BY <1>2, <2>5, <2>9 DEF Served, Peer!Local
<1> QED
  BY <1>3, <1>7, <1>8, <1>9

(* The host is closed when nothing is live, hence nothing leased.            *)
LEMMA CloseHostServes ==
  ASSUME EngineAssumption, Loose(peer), Shut(peer), Peer!CloseHost
  PROVE  Served
<1>1. peer.cleanup = "closing" /\ Peer!Live(peer) = {} /\ Peer!Leased(peer) = {}
  BY NothingLeased DEF Loose, Peer!CloseHost
<1> DEFINE R == [peer EXCEPT !.cleanup = "stopped"]
           Q == Peer!Send(R, <<"stopped">>)
           D == [peer EXCEPT !.cleanup = "failed"]
<1>2. \/ peer.phase = "stopping" /\ Peer!Local(Q)
      \/ peer.phase # "stopping" /\ Peer!Local(D)
  BY <1>1 DEF Peer!CloseHost
<1>3. CASE peer.phase = "stopping" /\ Peer!Local(Q)
  <2> DEFINE f == <<"stopped">>
  <2>1. f \in Said /\ f # <<"fatal">>
    BY DEF Said, FromChild
  <2>2. \A j \in Invocation : f \notin TalkOf(j) \cup EndOf(j)
    BY DEF TalkOf, EndOf
  <2>3. /\ R \in Peers /\ R.phase = peer.phase /\ R.inv = peer.inv /\ R.out = peer.out
        /\ R.cleanup = "stopped" /\ R.startupDone = peer.startupDone
    BY DEF Loose, Peers
  <2> HIDE DEF R
  <2>4. /\ Q \in Peers /\ Q.phase = peer.phase /\ Q.inv = peer.inv /\ Q.cleanup = "stopped"
        /\ Q.startupDone = peer.startupDone /\ Q.out = Append(peer.out, f)
    BY <2>1, <2>3, Sends
  <2>5. Peer!Local(Q)
    BY <1>3
  <2>6. f = <<"stopped">>
    OBVIOUS
  <2> HIDE DEF Q, f
  <2>7. Loose(Q) /\ Shut(Q)
    BY <1>1, <2>4 DEF Loose, Shut, Peer!Live
  <2>8. Speaks(peer, Q)
    BY <1>1, <1>3, <2>1, <2>2, <2>4, <2>6, <2>7, SpeaksOne
  <2> QED
    BY <2>5, <2>7, <2>8 DEF Served, Serves
<1>4. CASE peer.phase # "stopping" /\ Peer!Local(D)
  <2>1. /\ D \in Peers /\ D.phase = peer.phase /\ D.inv = peer.inv /\ D.out = peer.out
        /\ D.cleanup = "failed" /\ D.startupDone = peer.startupDone
    BY DEF Loose, Peers
  <2>2. Peer!Local(D)
    BY <1>4
  <2> HIDE DEF D
  <2>3. Loose(D) /\ Shut(D)
    BY <1>1, <2>1 DEF Loose, Shut, Peer!Live
  <2>4. Speaks(peer, D)
    BY <1>1, <2>1, <2>3, SpeaksNothing
  <2> QED
    BY <2>2, <2>3, <2>4 DEF Served, Serves
<1> QED
  BY <1>2, <1>3, <1>4

-----------------------------------------------------------------------------
(* A step of the peer, as the pipes see it.                                  *)

(* What is known of an invocation that was retired stays known.              *)
Stays(P, Q) ==
  \A i \in Invocation : P.inv[i].life = "retired" =>
    /\ Q.inv[i].life = "retired" /\ Q.inv[i].proxy = P.inv[i].proxy
    /\ Q.inv[i].transaction = P.inv[i].transaction /\ Q.inv[i].lease = P.inv[i].lease

LEMMA BecomesFits ==
  ASSUME NEW P, NEW F, PeerFit(P, F, "alive"), NEW Q, Serves(P, Q)
  PROVE  LET R == [Q EXCEPT !.out = <<>>] IN
         /\ PeerFit(R, F \o Q.out, "alive") /\ Stays(P, R)
         /\ Heralds(F, P) => Heralds(F \o Q.out, R)
<1> DEFINE R == [Q EXCEPT !.out = <<>>]
           G == F \o Q.out
<1>1. /\ P.out = <<>> /\ F \in Seq(Said) /\ Told(F, P) /\ Meant(F, P)
  BY DEF PeerFit, Told
<1>2. F \o P.out = F
  BY <1>1, PipeMoves
<1>3. Loose(Q) /\ Shut(Q) /\ Told(G, Q) /\ Meant(G, Q)
  BY <1>1, <1>2 DEF Serves, Speaks
<1>4. Heralds(F, P) => Heralds(G, Q)
  BY <1>1, <1>2 DEF Serves, Speaks
<1>5. \A i \in Invocation : P.inv[i].life = "retired" => Q.inv[i] = P.inv[i]
  BY DEF Serves, Speaks
<1>6. /\ R \in Peers /\ R.out = <<>> /\ R.phase = Q.phase /\ R.inv = Q.inv
      /\ R.cleanup = Q.cleanup /\ R.startupDone = Q.startupDone
  <2>1. <<>> \in Seq(Said)
    BY EmptySeq
  <2> DEFINE e == <<>>
  <2>2. e \in Seq(Said)
    BY <2>1
  <2> HIDE DEF e
  <2>3. LET S == [Q EXCEPT !.out = e] IN
        /\ S \in Peers /\ S.out = e /\ S.phase = Q.phase /\ S.inv = Q.inv
        /\ S.cleanup = Q.cleanup /\ S.startupDone = Q.startupDone
    BY <1>3, <2>2 DEF Loose, Peers
  <2> QED
    BY <2>3 DEF e
<1> HIDE DEF R, G
<1>7. Peer!Live(R) = Peer!Live(Q) /\ Peer!Leased(R) = Peer!Leased(Q)
  BY <1>6 DEF Peer!Live, Peer!Leased
<1>8. Loose(R) /\ Shut(R)
  BY <1>3, <1>6, <1>7 DEF Loose, Shut
<1>9. Told(G, R)
  BY <1>3, <1>6, <1>7 DEF Told
<1>10. Meant(G, R) /\ (Heralds(F, P) => Heralds(G, R))
  BY <1>3, <1>4, <1>6 DEF Meant, Heralds
<1>11. Stays(P, R)
  BY <1>5, <1>6 DEF Stays
<1>12. PeerFit(R, G, "alive")
  BY <1>6, <1>8, <1>9, <1>10 DEF PeerFit
<1> QED
  BY <1>10, <1>11, <1>12 DEF R, G

(* The peer when it was launched.                                            *)
LEMMA NewPeerFacts ==
  /\ Peer!NewPeer \in Peers /\ Peer!NewPeer.out = <<>>
  /\ \A i \in Invocation : Peer!NewPeer.inv[i] = NewThread
  /\ Peer!NewPeer.phase = "await" /\ Peer!NewPeer.cleanup = "none"
  /\ ~ Peer!NewPeer.startupDone
<1> DEFINE J == [i \in Invocation |-> NewThread]
           W == [phase |-> "await", startupDone |-> FALSE, stopArmed |-> FALSE,
                 cleanup |-> "none", blames |-> FALSE, out |-> <<>>, inv |-> J]
<1>1. Peer!NewPeer = W
  BY DEF Peer!NewPeer, NewThread
<1>2. J \in [Invocation -> Threads] /\ \A i \in Invocation : J[i] = NewThread
  BY DEF Threads, NewThread
<1>3. <<>> \in Seq(Said)
  BY EmptySeq
<1> HIDE DEF J
<1>4. /\ W \in Peers /\ W.out = <<>> /\ W.inv = J /\ W.phase = "await"
      /\ W.cleanup = "none" /\ W.startupDone = FALSE
  BY <1>2, <1>3 DEF Peers
<1> HIDE DEF W
<1> QED
  BY <1>1, <1>2, <1>4

(* What a process leaves is no less true.                                    *)
LEMMA RemainsFits ==
  ASSUME EngineAssumption, NEW P, Loose(P)
  PROVE  LET R == Peer!Remains(P) IN
         /\ R \in Peers /\ R.out = <<>> /\ Stays(P, R) /\ Peer!Leased(R) = Peer!Leased(P)
         /\ Peer!Live(R) = {} /\ \A i \in Invocation : R.inv[i].gate = 0
         /\ \A F : Told(F, P) => Told(F, R)
<1> DEFINE N(i) == IF P.inv[i].life = "retired"
                   THEN [NewThread EXCEPT !.life = "retired", !.proxy = P.inv[i].proxy,
                                          !.transaction = P.inv[i].transaction,
                                          !.lease = P.inv[i].lease]
                   ELSE [NewThread EXCEPT !.lease = P.inv[i].lease]
           I == [i \in Invocation |-> N(i)]
           R == [Peer!NewPeer EXCEPT !.blames = P.blames, !.inv = I]
<1>1. Peer!Remains(P) = R
  <2>1. Peer!NewPeer.inv = [i \in Invocation |-> NewThread]
    BY DEF Peer!NewPeer, NewThread
  <2>2. Peer!Remains(P) =
         [Peer!NewPeer EXCEPT !.blames = P.blames,
           !.inv = [i \in Invocation |->
                      IF P.inv[i].life = "retired"
                      THEN [Peer!NewPeer.inv[i] EXCEPT !.life = "retired",
                                  !.proxy = P.inv[i].proxy,
                                  !.transaction = P.inv[i].transaction,
                                  !.lease = P.inv[i].lease]
                      ELSE [Peer!NewPeer.inv[i] EXCEPT !.lease = P.inv[i].lease]]]
    BY DEF Peer!Remains
  <2>3. \A i \in Invocation : Peer!NewPeer.inv[i] = NewThread
    BY <2>1
  <2>4. I = [i \in Invocation |->
                      IF P.inv[i].life = "retired"
                      THEN [Peer!NewPeer.inv[i] EXCEPT !.life = "retired",
                                  !.proxy = P.inv[i].proxy,
                                  !.transaction = P.inv[i].transaction,
                                  !.lease = P.inv[i].lease]
                      ELSE [Peer!NewPeer.inv[i] EXCEPT !.lease = P.inv[i].lease]]
    BY <2>3
  <2> HIDE DEF I
  <2> QED
    BY <2>2, <2>4
<1>2. \A i \in Invocation : P.inv[i] \in Threads
  BY PeerParts DEF Loose
<1>3. ASSUME NEW i \in Invocation
      PROVE  LET n == N(i) IN
             /\ n \in Threads /\ n.gate = 0 /\ n.lease = P.inv[i].lease /\ n.life # "live"
             /\ P.inv[i].life = "retired" =>
                  /\ n.life = "retired" /\ n.proxy = P.inv[i].proxy
                  /\ n.transaction = P.inv[i].transaction
  <2> DEFINE v == P.inv[i]
             n == N(i)
  <2>1. v \in Threads
    BY <1>2
  <2>2. CASE v.life = "retired"
    <3>1. n = [life |-> "retired", arrivals |-> 0, gate |-> 0, reason |-> Nil,
               proxy |-> v.proxy, transaction |-> v.transaction, lease |-> v.lease,
               source |-> Nil, first |-> FALSE]
      BY <2>2 DEF NewThread
    <3> HIDE DEF n, v
    <3>2. /\ n \in Threads /\ n.gate = 0 /\ n.lease = v.lease /\ n.life = "retired"
          /\ n.proxy = v.proxy /\ n.transaction = v.transaction
      BY <2>1, <3>1 DEF Threads
    <3> QED
      BY <3>2 DEF n, v
  <2>3. CASE v.life # "retired"
    <3>1. n = [life |-> "none", arrivals |-> 0, gate |-> 0, reason |-> Nil,
               proxy |-> "outside", transaction |-> "none", lease |-> v.lease,
               source |-> Nil, first |-> FALSE]
      BY <2>3 DEF NewThread
    <3> HIDE DEF n, v
    <3>2. n \in Threads /\ n.gate = 0 /\ n.lease = v.lease /\ n.life = "none"
      BY <2>1, <3>1 DEF Threads
    <3>3. v.life # "retired"
      BY <2>3
    <3> QED
      BY <3>2, <3>3 DEF n, v
  <2> QED
    BY <2>2, <2>3
<1>4. I \in [Invocation -> Threads]
  BY <1>3
<1>5. \A i \in Invocation :
        /\ I[i].gate = 0 /\ I[i].lease = P.inv[i].lease /\ I[i].life # "live"
        /\ P.inv[i].life = "retired" =>
             /\ I[i].life = "retired" /\ I[i].proxy = P.inv[i].proxy
             /\ I[i].transaction = P.inv[i].transaction
  BY <1>3
<1> HIDE DEF I
<1>6. Peer!NewPeer \in Peers /\ Peer!NewPeer.out = <<>>
  BY NewPeerFacts
<1>7. P.blames \in BOOLEAN
  BY DEF Loose, Peers
<1>8. R \in Peers /\ R.out = <<>> /\ R.inv = I
  <2> DEFINE W == Peer!NewPeer
             b == P.blames
             S == [W EXCEPT !.blames = b, !.inv = I]
  <2>1. W \in Peers /\ W.out = <<>> /\ b \in BOOLEAN
    BY <1>6, <1>7
  <2> HIDE DEF W, b
  <2>2. S \in Peers /\ S.out = <<>> /\ S.inv = I
    BY <1>4, <2>1 DEF Peers
  <2> QED
    BY <2>2 DEF W, b
<1> HIDE DEF R
<1>9. /\ Peer!Leased(R) = Peer!Leased(P) /\ Peer!Live(R) = {} /\ Stays(P, R)
      /\ \A i \in Invocation : R.inv[i].gate = 0
  BY <1>5, <1>8 DEF Peer!Leased, Peer!Live, Stays
<1>10. ASSUME NEW f, NEW i \in Invocation, True(f, P.inv[i]) PROVE True(f, R.inv[i])
  BY <1>9, <1>10 DEF True, Stays, Peer!Settled, Peer!Unstarted, Peer!Truth
<1>11. ASSUME NEW F, Told(F, P) PROVE Told(F, R)
  BY <1>9, <1>10, <1>11 DEF Told
<1> QED
  BY <1>1, <1>8, <1>9, <1>11

LEMMA ToldPrefix ==
  ASSUME NEW P, NEW F, Told(F, P), NEW n \in 0 .. Len(F)
  PROVE  Told(SubSeq(F, 1, n), P)
<1> DEFINE s == SubSeq(F, 1, n)
<1>1. F \in Seq(Said)
  BY DEF Told
<1>2. /\ s \in Seq(Said) /\ In(s) \subseteq In(F)
      /\ \A A, B : Before(F, A, B) => Before(s, A, B)
      /\ \A A : Once(F, A) => Once(s, A)
  BY <1>1, PipePrefix
<1> HIDE DEF s
<1>3. Told(s, P)
  BY <1>2 DEF Told
<1> QED
  BY <1>3 DEF s

LEMMA ToldTail ==
  ASSUME NEW P, NEW F, Told(F, P), F # <<>>
  PROVE  Told(Tail(F), P)
<1> DEFINE s == Tail(F)
<1>1. F \in Seq(Said)
  BY DEF Told
<1>2. /\ s \in Seq(Said) /\ In(s) \subseteq In(F)
      /\ \A A, B : Before(F, A, B) => Before(s, A, B)
      /\ \A A : Once(F, A) => Once(s, A)
  BY <1>1, PipeTail
<1> HIDE DEF s
<1>3. Told(s, P)
  BY <1>2 DEF Told
<1> QED
  BY <1>3 DEF s

(* The end of a peer that nobody reads from.                                 *)
Voiced ==
  /\ child = "alive" => Heralds(fromPeer, peer)
  /\ child = "ok" => <<"stopped">> \in In(fromPeer)

(* What a step of the peer comes to.                                         *)
PeerGoes ==
  /\ PeerInv' /\ Stays(peer, peer') /\ fromPeer' \in Seq(Said)
  /\ child' = child \/ (child = "alive" /\ child' \in {"ok", "bad"})
  /\ toPeer' = toPeer \/ (toPeer # <<>> /\ toPeer' = Tail(toPeer)) \/ toPeer' = <<>>
  /\ child' \in {"ok", "bad"} => toPeer' = <<>>
  /\ Voiced => Voiced'

LEMMA ServedGoes ==
  ASSUME PeerInv, child = "alive", NEW Q, Serves(peer, Q), Peer!Becomes(Q), child' = child,
         toPeer' = toPeer \/ (toPeer # <<>> /\ toPeer' = Tail(toPeer))
  PROVE  PeerGoes
<1> DEFINE R == [Q EXCEPT !.out = <<>>]
           G == fromPeer \o Q.out
<1>1. PeerFit(peer, fromPeer, "alive")
  BY DEF PeerInv
<1>2. /\ PeerFit(R, G, "alive") /\ Stays(peer, R)
      /\ Heralds(fromPeer, peer) => Heralds(G, R)
  BY <1>1, BecomesFits
<1>3. peer' = R /\ fromPeer' = G
  BY DEF Peer!Becomes
<1> HIDE DEF R, G
<1>4. PeerInv' /\ Stays(peer, peer')
  BY <1>2, <1>3 DEF PeerInv
<1>5. fromPeer' \in Seq(Said)
  BY <1>2, <1>3 DEF PeerFit, Told
<1>6. Voiced => Voiced'
  BY <1>2, <1>3 DEF Voiced
<1> QED
  BY <1>4, <1>5, <1>6 DEF PeerGoes

LEMMA HaltsGoes ==
  ASSUME EngineAssumption, PeerInv, child = "alive", NEW P, Loose(P), Stays(peer, P),
         Told(fromPeer \o P.out, P), Peer!Halts(P, "bad")
  PROVE  PeerGoes
<1> DEFINE R == Peer!Remains(P)
           G == fromPeer \o P.out
<1>1. PICK n \in 0 .. Len(G) : fromPeer' = SubSeq(G, 1, n)
  BY DEF Peer!Halts
<1>2. peer' = R /\ child' = "bad" /\ toPeer' = <<>>
  BY DEF Peer!Halts
<1>3. /\ R \in Peers /\ R.out = <<>> /\ Stays(P, R)
      /\ \A i \in Invocation : R.inv[i].gate = 0
      /\ \A F : Told(F, P) => Told(F, R)
  BY RemainsFits
<1>4. Told(G, P)
  OBVIOUS
<1> HIDE DEF R, G
<1>5. Told(fromPeer', R)
  BY <1>1, <1>3, <1>4, ToldPrefix
<1>6. PeerFit(R, fromPeer', "bad")
  BY <1>3, <1>5 DEF PeerFit
<1>7. PeerInv' /\ fromPeer' \in Seq(Said)
  BY <1>2, <1>5, <1>6 DEF PeerInv, Told
<1>8. Stays(peer, peer')
  BY <1>2, <1>3 DEF Stays
<1>9. Voiced'
  BY <1>2 DEF Voiced
<1> QED
  BY <1>2, <1>7, <1>8, <1>9 DEF PeerGoes

LEMMA ForceExitGoes ==
  ASSUME EngineAssumption, PeerInv, child = "alive", Peer!ForceExit
  PROVE  PeerGoes
<1>1. /\ Loose(peer) /\ peer.out = <<>> /\ fromPeer \in Seq(Said)
      /\ Told(fromPeer, peer) /\ Meant(fromPeer, peer)
  BY DEF PeerInv, PeerFit, Told
<1>2. fromPeer \o peer.out = fromPeer
  BY <1>1, PipeMoves
<1>3. CASE peer.phase = "failed"
  <2>1. Peer!Halts(peer, "bad")
    BY <1>3 DEF Peer!ForceExit
  <2>2. Stays(peer, peer)
    BY DEF Stays
  <2> QED
    BY <1>1, <1>2, <2>1, <2>2, HaltsGoes
<1>4. CASE peer.phase # "failed"
  <2> DEFINE f == <<"fatal">>
             D == [peer EXCEPT !.phase = "failed"]
             Q == Peer!Send(D, f)
  <2>1. f \in Said
    BY DEF Said, FromChild
  <2>2. \A j \in Invocation : f \notin TalkOf(j) \cup EndOf(j)
    BY DEF TalkOf, EndOf
  <2>3. Peer!Halts(Q, "bad")
    BY <1>4 DEF Peer!ForceExit
  <2>4. /\ D \in Peers /\ D.phase = "failed" /\ D.inv = peer.inv /\ D.out = peer.out
        /\ D.cleanup = peer.cleanup /\ D.startupDone = peer.startupDone
    BY <1>1 DEF Loose, Peers
  <2> HIDE DEF D
  <2>5. /\ Q \in Peers /\ Q.phase = "failed" /\ Q.inv = peer.inv /\ Q.cleanup = peer.cleanup
        /\ Q.startupDone = peer.startupDone /\ Q.out = Append(peer.out, f)
    BY <2>1, <2>4, Sends
  <2>6. f = <<"fatal">> /\ f # <<"stopped">>
    OBVIOUS
  <2> HIDE DEF Q, f
  <2>7. Loose(Q)
    BY <1>1, <2>5 DEF Loose, Peer!Live
  <2>8. Speaks(peer, Q)
    BY <1>1, <1>4, <2>1, <2>2, <2>5, <2>6, <2>7, SpeaksOne
  <2>9. Told(fromPeer \o Q.out, Q)
    BY <1>1, <1>2, <2>8 DEF Speaks
  <2>10. Stays(peer, Q)
    BY <2>5 DEF Stays
  <2> QED
    BY <2>3, <2>7, <2>9, <2>10, HaltsGoes
<1> QED
  BY <1>3, <1>4

LEMMA DrainedExitGoes ==
  ASSUME EngineAssumption, PeerInv, Peer!DrainedExit
  PROVE  PeerGoes
<1> DEFINE R == Peer!Remains(peer)
           s == IF peer.cleanup = "stopped" /\ peer.phase # "failed" THEN "ok" ELSE "bad"
<1>1. /\ child = "alive" /\ peer.cleanup \in {"stopped", "failed"} /\ peer' = R
      /\ child' = s /\ toPeer' = <<>> /\ fromPeer' = fromPeer
  BY DEF Peer!DrainedExit, Peer!Gone
<1>2. /\ Loose(peer) /\ Told(fromPeer, peer) /\ Meant(fromPeer, peer)
  BY <1>1 DEF PeerInv, PeerFit
<1>3. /\ R \in Peers /\ R.out = <<>> /\ Stays(peer, R)
      /\ Peer!Leased(R) = Peer!Leased(peer)
      /\ \A i \in Invocation : R.inv[i].gate = 0
      /\ \A F : Told(F, peer) => Told(F, R)
  BY <1>2, RemainsFits
<1>4. s \in {"ok", "bad"} /\ (s = "ok" => peer.cleanup = "stopped" /\ peer.phase # "failed")
  OBVIOUS
<1> HIDE DEF R, s
<1>5. Peer!Leased(peer) = {}
  BY <1>1, <1>2, NothingLeased DEF Loose
<1>6. s = "ok" => Ends(fromPeer)
  BY <1>2, <1>4 DEF Meant
<1>7. PeerFit(R, fromPeer, s)
  BY <1>2, <1>3, <1>4, <1>5, <1>6 DEF PeerFit
<1>8. PeerInv' /\ fromPeer' \in Seq(Said)
  BY <1>1, <1>2, <1>4, <1>7 DEF PeerInv, Told
<1>9. Voiced => Voiced'
  BY <1>1, <1>4 DEF Voiced, Heralds
<1> QED
  BY <1>1, <1>3, <1>4, <1>8, <1>9 DEF PeerGoes

LEMMA ReceiveGoes ==
  ASSUME EngineAssumption, PeerInv, toPeer \in Seq(Heard), Peer!Receive
  PROVE  PeerGoes
<1>1. /\ child = "alive" /\ peer.phase # "failed" /\ toPeer # <<>>
  BY DEF Peer!Receive, Peer!Reading, Peer!Gone
<1>2. /\ Loose(peer) /\ Shut(peer) /\ peer.out = <<>> /\ fromPeer \in Seq(Said)
      /\ Told(fromPeer, peer) /\ Meant(fromPeer, peer)
  BY <1>1 DEF PeerInv, PeerFit, Told
<1>3. Head(toPeer) \in Heard
  BY <1>1, PipeTail
<1>4. PICK last \in Peer!Orders(Peer!Live(peer)) :
        LET P == Peer!Handle(peer, Head(toPeer), last) IN
        IF peer.phase = "await" /\ P.phase = "failed"
        THEN Peer!Halts(P, "bad")
        ELSE /\ Peer!Becomes(P)
             /\ toPeer' = IF Head(toPeer) = Peer!Closed THEN toPeer ELSE Tail(toPeer)
             /\ UNCHANGED child
  BY DEF Peer!Receive
<1> DEFINE Q == Peer!Handle(peer, Head(toPeer), last)
<1>5. Serves(peer, Q)
  BY <1>1, <1>2, <1>3, HandleServes
<1>6. \/ Peer!Halts(Q, "bad")
      \/ Peer!Becomes(Q) /\ child' = child /\ (toPeer' = toPeer \/ toPeer' = Tail(toPeer))
  BY <1>4
<1> HIDE DEF Q
<1>7. CASE Peer!Halts(Q, "bad")
  <2>1. fromPeer \o peer.out = fromPeer
    BY <1>2, PipeMoves
  <2>2. Loose(Q) /\ Stays(peer, Q) /\ Told(fromPeer \o Q.out, Q)
    BY <1>2, <1>5, <2>1 DEF Serves, Speaks, Stays
  <2> QED
    BY <1>1, <1>7, <2>2, HaltsGoes
<1>8. CASE Peer!Becomes(Q) /\ child' = child /\ (toPeer' = toPeer \/ toPeer' = Tail(toPeer))
  BY <1>1, <1>5, <1>8, ServedGoes
<1> QED
  BY <1>6, <1>7, <1>8

LEMMA PeerKeeps ==
  ASSUME EngineAssumption, PeerInv, toPeer \in Seq(Heard), Peer!PeerStep
  PROVE  PeerGoes
<1>1. child = "alive" => Loose(peer) /\ Shut(peer)
  BY DEF PeerInv, PeerFit
<1>2. ASSUME child = "alive", Served PROVE PeerGoes
  <2>1. PICK Q : Serves(peer, Q) /\ Peer!Local(Q)
    BY <1>2 DEF Served
  <2> QED
    BY <1>2, <2>1, ServedGoes DEF Peer!Local
<1>3. CASE Peer!Receive
  BY <1>3, ReceiveGoes
<1>4. CASE Peer!StartupEnds
  <2>1. child = "alive"
    BY <1>4 DEF Peer!StartupEnds, Peer!Gone
  <2> QED
    BY <1>1, <1>2, <1>4, <2>1, StartupServes
<1>5. CASE Peer!CloseHost
  <2>1. child = "alive"
    BY <1>5 DEF Peer!CloseHost, Peer!Gone
  <2> QED
    BY <1>1, <1>2, <1>5, <2>1, CloseHostServes
<1>6. CASE Peer!CloseHostFails \/ Peer!WatchdogExpires
  <2>1. child = "alive" /\ Peer!ForceExit
    BY <1>6 DEF Peer!CloseHostFails, Peer!WatchdogExpires, Peer!Gone
  <2> QED
    BY <2>1, ForceExitGoes
<1>7. CASE Peer!DrainedExit
  BY <1>7, DrainedExitGoes
<1>8. ASSUME NEW i \in Invocation, Peer!WorkerStep(i) PROVE PeerGoes
  <2>1. child = "alive"
    BY <1>8 DEF Peer!WorkerStep, Peer!TaskStarts, Peer!Beginning, Peer!LeaseConnection, Peer!Begin,
       Peer!BeginFails, Peer!Arrive,
       Peer!BodyThrows, Peer!Body, Peer!Complete, Peer!ReturnLease, Peer!ProxyExits,
       Peer!Runs, Peer!Gone
  <2> QED
    BY <1>1, <1>2, <1>8, <2>1, WorkerServes
<1> QED
  BY <1>3, <1>4, <1>5, <1>6, <1>7, <1>8 DEF Peer!PeerStep

-----------------------------------------------------------------------------
(* The peer alone.                                                           *)

AloneInv == PeerInv /\ Voiced /\ toPeer \in Seq(Heard)

LEMMA PeerStarts ==
  ASSUME EngineAssumption, NEW c \in {"none", "alive"}
  PROVE  PeerFit(Peer!NewPeer, <<>>, c)
<1> DEFINE P == Peer!NewPeer
           F == <<>>
<1>1. /\ P \in Peers /\ P.out = <<>> /\ \A i \in Invocation : P.inv[i] = NewThread
      /\ P.phase = "await" /\ P.cleanup = "none" /\ ~ P.startupDone
  BY NewPeerFacts
<1>2. F \in Seq(Said) /\ In(F) = {} /\ Len(F) = 0 /\ F = <<>>
  BY EmptySeq, PipeMoves
<1>3. P = Peer!NewPeer
  OBVIOUS
<1> HIDE DEF P, F
<1>4. \A A, B : Before(F, A, B) /\ Once(F, A)
  BY <1>2 DEF Before, Once
<1>5. Told(F, P) /\ Meant(F, P)
  BY <1>1, <1>2, <1>4 DEF Told, Meant
<1>6. Sane(NewThread) /\ NewThread.life = "none" /\ NewThread.gate = 0
  BY DEF Sane, NewThread
<1>7. Loose(P) /\ Shut(P)
  BY <1>1, <1>6 DEF Loose, Shut, NewThread
<1>8. PeerFit(P, F, c)
  BY <1>1, <1>3, <1>5, <1>6, <1>7 DEF PeerFit
<1> QED
  BY <1>8 DEF P, F

LEMMA FramesHeard ==
  Peer!EngineFrames \subseteq Heard
BY DEF Peer!EngineFrames, Heard, ToChild, Closed, Peer!Closed

(* Frames that are what they seem.                                           *)
LEMMA EndForms ==
  ASSUME NEW f \in Said
  PROVE  /\ f[1] = "terminal" => f[2] \in Invocation /\ f \in EndOf(f[2])
         /\ \A i \in Invocation :
              f \in TalkOf(i) \cup EndOf(i) \/ f[1] \in {"stopped", "fatal", "ready"} \/ f[2] # i
         /\ f[1] = "fatal" => f = <<"fatal">>
BY DEF Said, FromChild, Terminals, EndOf, TalkOf

LEMMA TruthfulByInv ==
  ASSUME EngineAssumption, PeerInv, Voiced
  PROVE  Peer!PeerIsTruthful
<1>1. Told(fromPeer, peer) /\ peer \in Peers /\ peer.out = <<>>
  BY DEF PeerInv, PeerFit
<1>2. fromPeer \in Seq(Said) /\ DOMAIN fromPeer = 1 .. Len(fromPeer) /\ Len(fromPeer) \in Nat
      /\ \A n \in 1 .. Len(fromPeer) : fromPeer[n] \in Said /\ fromPeer[n] \in In(fromPeer)
  BY <1>1, LenProperties, ElementOfSeq DEF Told, In
<1>3. ASSUME NEW n \in 1 .. Len(fromPeer), fromPeer[n][1] = "terminal"
      PROVE  LET i == fromPeer[n][2] IN
             /\ peer.inv[i].life = "retired" /\ Peer!Settled(peer.inv[i])
             /\ fromPeer[n][3] = Peer!Truth(peer.inv[i])
             /\ fromPeer[n][4] = "none" => peer.inv[i].transaction = "committed"
             /\ \A m \in n+1..Len(fromPeer) :
                  fromPeer[m][1] \in {"stopped", "fatal", "ready"} \/ fromPeer[m][2] # i
  <2> DEFINE f == fromPeer[n]
             i == f[2]
  <2>1. f \in Said /\ f \in In(fromPeer) /\ i \in Invocation /\ f \in EndOf(i)
    BY <1>2, <1>3, EndForms
  <2>2. True(f, peer.inv[i])
    BY <1>1, <2>1 DEF Told
  <2>3. ASSUME NEW m \in n+1..Len(fromPeer)
        PROVE  fromPeer[m][1] \in {"stopped", "fatal", "ready"} \/ fromPeer[m][2] # i
    <3>1. m \in 1 .. Len(fromPeer) /\ n < m /\ fromPeer[m] \in Said
      BY <1>2
    <3>2. fromPeer[m] \notin TalkOf(i)
      <4>1. Before(fromPeer, TalkOf(i), EndOf(i))
        BY <1>1, <2>1 DEF Told
      <4> QED
        BY <2>1, <3>1, <4>1 DEF Before
    <3>3. fromPeer[m] \notin EndOf(i)
      <4>1. Once(fromPeer, EndOf(i))
        BY <1>1, <2>1 DEF Told
      <4> QED
        BY <2>1, <3>1, <4>1 DEF Once
    <3> QED
      BY <2>1, <3>1, <3>2, <3>3, EndForms
  <2> QED
    BY <2>2, <2>3 DEF True
<1>4. Peer!TerminalIsLast
  BY <1>2, <1>3 DEF Peer!TerminalIsLast
<1>5. ASSUME NEW n \in 1 .. Len(fromPeer), fromPeer[n] = <<"fatal">> PROVE n = Len(fromPeer)
  <2> DEFINE k == Len(fromPeer)
  <2>1. k \in 1 .. k /\ fromPeer[k] \in Said /\ n <= k
    BY <1>2
  <2>2. fromPeer[k] = <<"fatal">> => n = k
    BY <1>1, <1>5, <2>1 DEF Told, Once
  <2>3. fromPeer[k] # <<"fatal">> => k < n
    BY <1>1, <1>5, <2>1 DEF Told, Before
  <2>4. n \in Nat /\ k \in Nat
    BY <1>2
  <2> HIDE DEF k
  <2>5. n = k
    BY <2>1, <2>2, <2>3, <2>4
  <2> QED
    BY <2>5 DEF k
<1>6. Peer!Said(<<"stopped">>) => Peer!Live(peer) = {} /\ Peer!Leased(peer) = {}
  <2>1. Peer!Said(<<"stopped">>) => <<"stopped">> \in In(fromPeer)
    BY <1>2 DEF Peer!Said
  <2> QED
    BY <1>1, <2>1 DEF Told
<1>7. child = "ok" => fromPeer # <<>> /\ fromPeer[Len(fromPeer)] = <<"stopped">>
  <2> SUFFICES ASSUME child = "ok" PROVE fromPeer # <<>> /\ fromPeer[Len(fromPeer)] = <<"stopped">>
    OBVIOUS
  <2>1. fromPeer # <<>>
    <3>1. In(<<>>) = {}
      BY DEF In
    <3> QED
      BY <3>1 DEF Voiced
  <2>2. Ends(fromPeer)
    BY DEF PeerInv, PeerFit
  <2> QED
    BY <2>1, <2>2 DEF Ends
<1>8. Peer!FatalIsLast
  BY <1>2, <1>5, <1>6, <1>7 DEF Peer!FatalIsLast
<1>9. ASSUME NEW i \in Invocation, peer.inv[i].gate # 0
      PROVE  /\ peer.phase \in {"ready"} /\ peer.inv[i].reason = Nil
             /\ peer.inv[i].life = "live" /\ peer.inv[i].proxy = "inside"
             /\ peer.inv[i].gate = peer.inv[i].arrivals
  <2>1. Loose(peer) /\ Shut(peer)
    BY <1>9 DEF PeerInv, PeerFit
  <2>2. /\ peer.inv[i].reason = Nil /\ peer.inv[i].life = "live"
        /\ peer.inv[i].proxy = "inside" /\ peer.inv[i].gate = peer.inv[i].arrivals
    BY <1>9, <2>1 DEF Loose, Sane
  <2>3. peer.phase \notin {"await", "starting", "stopping", "failed"}
    BY <2>1, <2>2 DEF Loose, Shut
  <2> QED
    BY <1>1, <2>2, <2>3 DEF Peers
<1>10. Peer!GatesOpen
  BY <1>9 DEF Peer!GatesOpen
<1> QED
  BY <1>4, <1>8, <1>10 DEF Peer!PeerIsTruthful

LEMMA AloneStarts ==
  ASSUME EngineAssumption, Peer!PeerInit
  PROVE  AloneInv
<1>1. peer = Peer!NewPeer /\ toPeer = <<>> /\ fromPeer = <<>> /\ child = "alive"
  BY DEF Peer!PeerInit
<1>2. PeerFit(peer, fromPeer, child)
  BY <1>1, PeerStarts
<1>3. Voiced
  BY <1>1, NewPeerFacts DEF Voiced, Heralds
<1>4. toPeer \in Seq(Heard)
  BY <1>1, EmptySeq
<1> QED
  BY <1>1, <1>2, <1>3, <1>4 DEF AloneInv, PeerInv

LEMMA AloneKeeps ==
  ASSUME EngineAssumption, AloneInv, Peer!PeerStep \/ Peer!EngineSays
  PROVE  AloneInv'
<1>1. CASE Peer!PeerStep
  <2>1. PeerGoes
    BY <1>1, PeerKeeps DEF AloneInv
  <2>2. toPeer' \in Seq(Heard)
    <3>1. toPeer # <<>> => Tail(toPeer) \in Seq(Heard)
      BY PipeTail DEF AloneInv
    <3>2. <<>> \in Seq(Heard)
      BY EmptySeq
    <3> QED
      BY <2>1, <3>1, <3>2 DEF AloneInv, PeerGoes
  <2> QED
    BY <2>1, <2>2 DEF AloneInv, PeerGoes
<1>2. CASE Peer!EngineSays
  <2>1. PICK f \in Peer!EngineFrames : toPeer' = <<f>>
    BY <1>2 DEF Peer!EngineSays
  <2>2. toPeer' \in Seq(Heard)
    BY <2>1, FramesHeard
  <2>3. peer' = peer /\ fromPeer' = fromPeer /\ child' = child
    BY <1>2 DEF Peer!EngineSays
  <2> QED
    BY <2>2, <2>3 DEF AloneInv, PeerInv, Voiced
<1> QED
  BY <1>1, <1>2

(* The peer, with an engine that says anything in any order: a terminal is   *)
(* the truth about an invocation that left its command and returned its      *)
(* connection, and the last word on it; fatal is the last word of all, a     *)
(* process that exits well has said stopped with nothing live or leased; no  *)
(* gate is left waiting (Peer.java:168, 703).                                *)
THEOREM PeerAlwaysTruthful ==
  ASSUME EngineAssumption
  PROVE  Peer!PeerSpec => []Peer!PeerIsTruthful
<1>1. Peer!PeerInit => AloneInv
  BY AloneStarts
<1>2. AloneInv /\ [Peer!PeerStep \/ Peer!EngineSays]_Peer!peerVars => AloneInv'
  <2> SUFFICES ASSUME AloneInv, [Peer!PeerStep \/ Peer!EngineSays]_Peer!peerVars
               PROVE  AloneInv'
    OBVIOUS
  <2>1. CASE UNCHANGED Peer!peerVars
    BY <2>1 DEF Peer!peerVars, AloneInv, PeerInv, Voiced
  <2> QED
    BY <2>1, AloneKeeps
<1>3. AloneInv => Peer!PeerIsTruthful
  BY TruthfulByInv DEF AloneInv
<1> QED
  BY <1>1, <1>2, <1>3, PTL DEF Peer!PeerSpec

-----------------------------------------------------------------------------
(* The two of them, over their pipes.                                        *)

(* A step of the adapter: it reads a frame, launches its child or kills it.  *)
LEMMA EnginePipes ==
  ASSUME EngineInv, EngineStep
  PROVE  /\ fromPeer' = fromPeer \/ (fromPeer # <<>> /\ fromPeer' = Tail(fromPeer))
         /\ \/ child' = child
            \/ child = "none" /\ child' = "alive"
            \/ child = "alive" /\ child' = "bad"
<1>0. /\ child \in {"none", "alive", "ok", "bad"}
      /\ start = "launching" => child = "none"
      /\ stop \in {"grace", "abort"} => child # "none"
  BY DEF EngineInv, Eng, Typed, Starting, Stopping
<1>1. CASE StartStep
  BY <1>0, <1>1 DEF StartStep, StartBegins, Launched, LaunchFails, StartReturns, StartFails
<1>2. CASE ParentEnds \/ BeginStop
  BY <1>2 DEF ParentEnds, BeginStop
<1>3. CASE WriterStep
  BY <1>3 DEF WriterStep, WriteBegins, WriteReturns, WriteFails, WriterEnds
<1>4. CASE ReaderStep
  BY <1>4 DEF ReaderStep, ReadFrame, ReadEnds, SeeExit
<1>5. CASE CleanupStep
  <2>1. CASE LaunchOutlasts \/ StopWithoutChild \/ CancelAll \/ StopReturns \/ ReapExpires
    BY <2>1 DEF LaunchOutlasts, StopWithoutChild, CancelAll, StopReturns, ReapExpires
  <2>2. CASE KillLate
    BY <1>0, <2>2 DEF KillLate, Kill, Exited
  <2>3. CASE GraceEnds
    <3>1. PICK normal \in BOOLEAN : EndGrace(normal) /\ stop \in {"grace", "abort"}
      <4>1. Proven \in BOOLEAN
        BY DEF Proven
      <4> QED
        BY <2>3, <4>1 DEF GraceEnds
    <3>2. fromPeer' = fromPeer /\ (child' = child \/ Kill)
      BY <3>1 DEF EndGrace
    <3> QED
      BY <1>0, <3>1, <3>2 DEF Kill, Exited
  <2> QED
    BY <1>5, <2>1, <2>2, <2>3 DEF CleanupStep
<1>6. CASE \E i \in Invocation : Invoke(i) \/ WatchContext(i)
  BY <1>6 DEF Invoke, WatchContext
<1>7. CASE \E i \in Invocation : BridgeStep(i)
  BY <1>7 DEF BridgeStep, BridgeReleases, BridgeUnwinds, BridgeRefused
<1> QED
  BY <1>1, <1>2, <1>3, <1>4, <1>5, <1>6, <1>7 DEF EngineStep

(* The peer is read from, launched or killed.                                *)
LEMMA ReadFits ==
  ASSUME NEW P, NEW F, NEW c, PeerFit(P, F, c), F # <<>>
  PROVE  PeerFit(P, Tail(F), c)
<1> DEFINE s == Tail(F)
<1>1. F \in Seq(Said) /\ Told(F, P)
  BY DEF PeerFit, Told
<1>2. Told(s, P)
  BY <1>1, ToldTail
<1>3. In(s) \subseteq In(F)
  BY <1>1, PipeTail
<1>4. Ends(F) => Ends(s)
  BY <1>1 DEF Ends
<1> HIDE DEF s
<1>5. Meant(F, P) => Meant(s, P)
  BY <1>3, <1>4 DEF Meant
<1>6. PeerFit(P, s, c)
  BY <1>2, <1>4, <1>5 DEF PeerFit
<1> QED
  BY <1>6 DEF s

(* A step of the adapter leaves the peer what it was, or kills it.           *)
LEMMA EngineSpares ==
  ASSUME EngineAssumption, EngineInv, PeerInv, EngineMoves(EngineStep)
  PROVE  PeerInv' /\ Stays(peer, peer')
<1>0. EngineStep
  BY DEF EngineMoves
<1>1. /\ fromPeer' = fromPeer \/ (fromPeer # <<>> /\ fromPeer' = Tail(fromPeer))
      /\ \/ child' = child
         \/ child = "none" /\ child' = "alive"
         \/ child = "alive" /\ child' = "bad"
  BY <1>0, EnginePipes
<1>2. PeerFit(peer, fromPeer', child)
  BY <1>1, ReadFits DEF PeerInv
<1>3. CASE child' = child
  <2>1. peer' = peer
    BY <1>3 DEF EngineMoves
  <2> QED
    BY <1>2, <1>3, <2>1 DEF PeerInv, Stays
<1>4. CASE child = "none" /\ child' = "alive"
  <2>1. peer' = peer
    BY <1>4 DEF EngineMoves
  <2>2. PeerFit(peer, fromPeer', "alive")
    BY <1>2, <1>4 DEF PeerFit
  <2> QED
    BY <1>4, <2>1, <2>2 DEF PeerInv, Stays
<1>5. CASE child = "alive" /\ child' = "bad"
  <2> DEFINE R == Peer!Remains(peer)
  <2>1. peer' = R
    BY <1>5 DEF EngineMoves
  <2>2. Loose(peer) /\ Told(fromPeer', peer)
    BY <1>2, <1>5 DEF PeerFit
  <2>3. /\ R \in Peers /\ R.out = <<>> /\ Stays(peer, R)
        /\ \A i \in Invocation : R.inv[i].gate = 0
        /\ \A F : Told(F, peer) => Told(F, R)
    BY <2>2, RemainsFits
  <2> HIDE DEF R
  <2>4. PeerFit(R, fromPeer', "bad")
    BY <2>2, <2>3 DEF PeerFit
  <2> QED
    BY <1>5, <2>1, <2>3, <2>4 DEF PeerInv
<1> QED
  BY <1>1, <1>3, <1>4, <1>5

(* A step of the peer, or its end, leaves the adapter what it was.           *)
LEMMA PeerSpares ==
  ASSUME EngineAssumption, EngineInv, PeerInv, PeerMoves(Peer!PeerStep) \/ PeerMoves(ChildDies)
  PROVE  EngineInv' /\ PeerGoes
<1>1. toPeer \in Seq(Heard)
  <2>1. toPeer \in Seq(ToChild)
    BY DEF EngineInv, Eng, Typed
  <2>2. ToChild \subseteq Heard
    BY DEF Heard
  <2> QED
    BY <2>1, <2>2
<1>2. PeerGoes
  <2>1. CASE PeerMoves(Peer!PeerStep)
    BY <1>1, <2>1, PeerKeeps DEF PeerMoves
  <2>2. CASE PeerMoves(ChildDies)
    <3>1. child = "alive" /\ Peer!Halts(peer, "bad")
      BY <2>2 DEF PeerMoves, ChildDies
    <3>2. /\ Loose(peer) /\ peer.out = <<>> /\ fromPeer \in Seq(Said)
          /\ Told(fromPeer, peer)
      BY <3>1 DEF PeerInv, PeerFit, Told
    <3>3. fromPeer \o peer.out = fromPeer /\ Stays(peer, peer)
      BY <3>2, PipeMoves DEF Stays
    <3> QED
      BY <3>1, <3>2, <3>3, HaltsGoes
  <2> QED
    BY <2>1, <2>2
<1>3. fromPeer' \in Seq(FromChild)
  BY <1>2 DEF PeerGoes, Said
<1>4. ChildMoves
  BY <1>2, <1>3 DEF PeerGoes, ChildMoves, PeerMoves
<1> QED
  BY <1>2, <1>4, ChildKeeps

LEMMA WireKeeps ==
  ASSUME EngineAssumption, EngineInv, PeerInv, WireNext
  PROVE  EngineInv' /\ PeerInv' /\ Stays(peer, peer')
<1>1. CASE EngineMoves(EngineStep)
  BY <1>1, EngineKeeps, EngineSpares DEF EngineMoves
<1>2. CASE PeerMoves(Peer!PeerStep) \/ PeerMoves(ChildDies)
  BY <1>2, PeerSpares DEF PeerGoes
<1> QED
  BY <1>1, <1>2 DEF WireNext

LEMMA WireStarts ==
  ASSUME EngineAssumption, WireInit
  PROVE  EngineInv /\ PeerInv
<1>1. EngineInv
  BY EngineStarts DEF WireInit
<1>2. peer = Peer!NewPeer /\ fromPeer = <<>> /\ child = "none"
  BY DEF WireInit, EngineInit
<1> QED
  BY <1>1, <1>2, PeerStarts DEF PeerInv

(* What the adapter holds as the terminal of an invocation.                  *)
Recalls(M, C) == \A i \in Invocation : C.inv[i].terminal = M.inv[i].terminal

LEMMA RecallsCancel ==
  ASSUME EngineAssumption, NEW M, Sound(M), NEW i \in Invocation, NEW why \in {"context", "stop"}
  PROVE  Recalls(M, Cancel(M, i, why)) /\ Recalls(M, Observed(M, i))
<1>1. M.inv[i] \in Streams
  BY EngineParts DEF Sound, Tidy
<1>2. ASSUME NEW C, Canceled(M, C, i) PROVE Recalls(M, C)
  BY <1>1, <1>2 DEF Canceled, Recalls, Streams
<1>3. ASSUME NEW C, C = M \/ Canceled(M, C, i) \/ Fades(M, C) PROVE Recalls(M, C)
  BY <1>2, <1>3 DEF Fades, Recalls
<1>4. Recalls(M, Cancel(M, i, why))
  BY <1>3, CancelFacts
<1>5. Recalls(M, Observed(M, i))
  BY <1>3, ObservedFacts
<1> QED
  BY <1>4, <1>5

LEMMA RecallsFail ==
  ASSUME EngineAssumption, NEW M, Tidy(M), NEW send \in BOOLEAN
  PROVE  Recalls(M, Fail(M, {}, send)) /\ Tidy(Fail(M, {}, send))
<1> DEFINE C == Fail(M, {}, send)
<1>1. Fades(M, C) /\ Sound(C)
  BY FailFacts
<1> HIDE DEF C
<1>2. Recalls(M, C) /\ Tidy(C)
  BY <1>1 DEF Fades, Recalls, Sound
<1> QED
  BY <1>2 DEF C

LEMMA RecallsEnqueue ==
  ASSUME EngineAssumption, NEW M, Tidy(M), NEW f \in ToChild
  PROVE  Recalls(M, Enqueue(M, f)) /\ Tidy(Enqueue(M, f))
BY EnqueueFacts DEF Queued, Fades, Recalls

LEMMA RecallsLatch ==
  ASSUME NEW M, NEW X
  PROVE  Recalls(M, Latch(M, X))
<1> DEFINE L == M.latch \cup X
           I == M.inv
<1>1. M.inv = I
  OBVIOUS
<1> HIDE DEF I, L
<1>2. Latch(M, X).inv = I
  BY <1>1 DEF Latch
<1> QED
  BY <1>1, <1>2 DEF Recalls

LEMMA RecallsUnwound ==
  ASSUME NEW M, M \in Engines, NEW C, NEW i \in Invocation, Unwound(M, C, i)
  PROVE  Recalls(M, C)
<1>1. M.inv[i] \in Streams
  BY EngineParts
<1> QED
  BY <1>1 DEF Unwound, Recalls, Streams

LEMMA RecallsChain ==
  ASSUME NEW M, NEW C, NEW D, Recalls(M, C), Recalls(C, D)
  PROVE  Recalls(M, D)
BY DEF Recalls

(* A bridge that has ended.                                                  *)
LEMMA RecallsUnwinds ==
  ASSUME EngineAssumption, NEW M, Sound(M), NEW i \in Invocation, M.inv[i].bridges > 0,
         M.inv[i].reason # Nil \/ "fault" \in M.latch
  PROVE  Recalls(M, BridgeEnds(M, i))
<1>1. Tidy(M) /\ M \in Engines /\ Regular(M.inv[i], M.latch)
      /\ \A j \in Invocation : Bridged(M.inv[j], M.latch)
  BY DEF Sound, Tidy
<1>2. ~ M.inv[i].outstanding
  BY <1>1 DEF Regular
<1> QED
  BY <1>1, <1>2, BridgeEndsFacts, RecallsUnwound

LEMMA RecallsReleases ==
  ASSUME EngineAssumption, NEW M, Sound(M), NEW i \in Invocation,
         M.inv[i].bridges > 0, M.inv[i].reason = Nil, "fault" \notin M.latch
  PROVE  Recalls(M, BridgeEnds([Enqueue(M, <<"release", i, M.inv[i].arrival>>)
                                 EXCEPT !.inv[i].outstanding = FALSE], i))
<1> DEFINE f == <<"release", i, M.inv[i].arrival>>
           D == Enqueue(M, f)
           N == [D EXCEPT !.inv[i].outstanding = FALSE]
           C == BridgeEnds(N, i)
<1>1. M \in Engines /\ M.inv[i] \in Streams /\ Tidy(M)
  BY EngineParts DEF Sound, Tidy
<1>2. f \in ToChild
  BY <1>1 DEF Streams, ToChild
<1> HIDE DEF f
<1>3. Recalls(M, D) /\ Tidy(D) /\ Sound(D) /\ (Queued(M, D, f) \/ Fades(M, D))
  BY <1>1, <1>2, RecallsEnqueue, EnqueueFacts
<1> HIDE DEF D
<1>4. /\ D \in Engines /\ D.inv[i] \in Streams /\ D.inv[i].bridges > 0
      /\ \A j \in Invocation : Regular(D.inv[j], D.latch) /\ Bridged(D.inv[j], D.latch)
  BY <1>3, EngineParts DEF Sound, Tidy, Queued, Fades
<1> DEFINE u == [D.inv[i] EXCEPT !.outstanding = FALSE]
<1>5. u \in Streams /\ Regular(u, D.latch) /\ ~ u.outstanding /\ u.bridges > 0
      /\ u.terminal = D.inv[i].terminal
  BY <1>4 DEF Streams, Regular, Unused
<1>6. N = [D EXCEPT !.inv[i] = u]
  BY <1>4 DEF Engines
<1> HIDE DEF u, N
<1>7. /\ N \in Engines /\ N.latch = D.latch /\ N.inv[i] = u
      /\ \A j \in Invocation \ {i} : N.inv[j] = D.inv[j]
  BY <1>4, <1>5, <1>6 DEF Engines
<1>8. Tidy(N) /\ Recalls(D, N)
  BY <1>4, <1>5, <1>7 DEF Tidy, Recalls
<1>9. Unwound(N, C, i)
  BY <1>4, <1>5, <1>7, <1>8, BridgeEndsFacts
<1>10. Recalls(N, C)
  BY <1>7, <1>9, RecallsUnwound
<1> HIDE DEF C
<1>11. Recalls(M, C)
  BY <1>3, <1>8, <1>10, RecallsChain
<1> QED
  BY <1>11 DEF C, N, D, f

LEMMA RecallsCanceledIn ==
  ASSUME EngineAssumption, NEW M, Sound(M), NEW last \in Orders(Open(M))
  PROVE  Recalls(M, CanceledIn(M, Open(M), last))
<1> DEFINE Good == {D \in Engines : Sound(D) /\ Recalls(M, D)}
<1>1. IsFiniteSet(Open(M))
  BY FS_Subset DEF Open, EngineAssumption
<1>2. M \in Good
  BY DEF Sound, Tidy, Recalls
<1>3. ASSUME NEW D \in Good, NEW i \in Open(M) PROVE Cancel(D, i, "stop") \in Good
  <2>1. Sound(D) /\ i \in Invocation
    BY DEF Open
  <2>2. Recalls(D, Cancel(D, i, "stop"))
    BY <2>1, RecallsCancel
  <2>3. Recalls(M, Cancel(D, i, "stop"))
    BY <2>2, RecallsChain
  <2>4. Sound(Cancel(D, i, "stop"))
    BY <2>1, CancelFacts
  <2> QED
    BY <2>3, <2>4 DEF Sound, Tidy
<1> HIDE DEF Good
<1>4. CanceledIn(M, Open(M), last) \in Good
  BY <1>1, <1>2, <1>3, CanceledInGood
<1> QED
  BY <1>4 DEF Good

LEMMA RecallsFaults ==
  ASSUME EngineAssumption, NEW M, Sound(M), NEW X \in SUBSET (Flags \ {"fault"}),
         NEW send \in BOOLEAN
  PROVE  Recalls(M, Fail(Latch(M, X), {}, send))
<1> DEFINE L == Latch(M, X)
           C == Fail(L, {}, send)
<1>1. Recalls(M, L) /\ Tidy(L)
  BY RecallsLatch, LatchFacts DEF Sound
<1> HIDE DEF L
<1>2. Recalls(L, C)
  BY <1>1, RecallsFail
<1> HIDE DEF C
<1>3. Recalls(M, C)
  BY <1>1, <1>2, RecallsChain
<1> QED
  BY <1>3 DEF C, L

(* A part of the state that says nothing of terminals.                       *)
LEMMA RecallsPlain ==
  ASSUME EngineAssumption, NEW M, Sound(M)
  PROVE  /\ \A i \in Invocation : M.inv[i].stream = "none" =>
              Recalls(M, Enqueue([M EXCEPT !.inv[i].stream = "open"], <<"invoke", i>>))
         /\ LET N == [M EXCEPT !.queue = <<>>] IN Sound(N) /\ Recalls(M, N)
         /\ M.queue # <<>> => Recalls(M, Marked([M EXCEPT !.queue = Tail(@)], Head(M.queue)))
<1>1. M \in Engines /\ M.inv \in [Invocation -> Streams] /\ M.queue \in Seq(ToChild)
      /\ M.latch \in SUBSET Flags
  BY EngineParts DEF Sound, Tidy
<1>2. ASSUME NEW i \in Invocation, M.inv[i].stream = "none"
      PROVE  Recalls(M, Enqueue([M EXCEPT !.inv[i].stream = "open"], <<"invoke", i>>))
  <2> DEFINE u == [M.inv[i] EXCEPT !.stream = "open"]
             N == [M EXCEPT !.inv[i].stream = "open"]
             C == Enqueue(N, <<"invoke", i>>)
  <2>1. M.inv[i] = Unused /\ Unused \in Streams
    BY <1>1, <1>2 DEF Sound, Tidy, Regular
  <2>2. u \in Streams /\ Regular(u, M.latch) /\ u.terminal = M.inv[i].terminal
    <3> DEFINE w == M.inv[i]
    <3>1. w \in Streams /\ w = Unused
      BY <1>1, <2>1
    <3> HIDE DEF w
    <3>2. /\ ~ w.outstanding /\ w.bridges = 0 /\ w.terminal = Nil /\ ~ w.accepted
      BY <3>1 DEF Unused
    <3>3. LET x == [w EXCEPT !.stream = "open"] IN
          x \in Streams /\ Regular(x, M.latch) /\ x.terminal = w.terminal
      BY <3>1, <3>2 DEF Streams, Regular
    <3> QED
      BY <3>3 DEF w
  <2>3. N = [M EXCEPT !.inv[i] = u]
    BY <1>1 DEF Engines
  <2> HIDE DEF u, N
  <2>4. /\ N \in Engines /\ N.latch = M.latch /\ N.inv[i] = u
        /\ \A j \in Invocation \ {i} : N.inv[j] = M.inv[j]
    BY <1>1, <2>2, <2>3 DEF Engines
  <2>5. Tidy(N) /\ Recalls(M, N)
    BY <2>2, <2>4 DEF Sound, Tidy, Recalls
  <2>6. <<"invoke", i>> \in ToChild
    BY DEF ToChild
  <2>7. Recalls(N, C)
    BY <2>5, <2>6, RecallsEnqueue
  <2> HIDE DEF C
  <2>8. Recalls(M, C)
    BY <2>5, <2>7, RecallsChain
  <2> QED
    BY <2>8 DEF C, N
<1>3. LET N == [M EXCEPT !.queue = <<>>] IN Sound(N) /\ Recalls(M, N)
  <2> DEFINE e == <<>>
             N == [M EXCEPT !.queue = e]
  <2>1. e \in Seq(ToChild)
    BY EmptySeq
  <2> HIDE DEF e
  <2>2. N \in Engines /\ N.latch = M.latch /\ N.inv = M.inv
    BY <1>1, <2>1 DEF Engines
  <2> HIDE DEF N
  <2>3. Sound(N) /\ Recalls(M, N)
    BY <2>2 DEF Sound, Tidy, Recalls
  <2> QED
    BY <2>3 DEF N, e
<1>4. ASSUME M.queue # <<>>
      PROVE  Recalls(M, Marked([M EXCEPT !.queue = Tail(@)], Head(M.queue)))
  <2> DEFINE q == Tail(M.queue)
             f == Head(M.queue)
             N == [M EXCEPT !.queue = Tail(@)]
             C == Marked(N, f)
  <2>1. q \in Seq(ToChild) /\ f \in ToChild
    BY <1>1, <1>4, PipeTail
  <2>2. N = [M EXCEPT !.queue = q]
    BY <1>1 DEF Engines
  <2> HIDE DEF q, f, N
  <2>3. N \in Engines /\ N.inv = M.inv
    BY <1>1, <2>1, <2>2 DEF Engines
  <2>4. Recalls(M, N)
    BY <2>3 DEF Recalls
  <2>5. CASE f[1] \in {"start", "stop"}
    <3>1. \E X : C = Latch(N, X)
      BY <2>5 DEF Marked
    <3> HIDE DEF C
    <3>2. Recalls(N, C)
      BY <3>1, RecallsLatch
    <3> QED
      BY <2>4, <3>2, RecallsChain DEF C, N, f
  <2>6. CASE f[1] = "invoke"
    <3> DEFINE i == f[2]
               u == [N.inv[i] EXCEPT !.sending = TRUE]
    <3>1. i \in Invocation
      BY <2>1, <2>6 DEF ToChild
    <3>2. C = [N EXCEPT !.inv[i].sending = TRUE]
      BY <2>6 DEF Marked
    <3>3. N.inv[i] \in Streams
      BY <2>3, <3>1, EngineParts
    <3>4. C = [N EXCEPT !.inv[i] = u]
      BY <2>3, <3>1, <3>2 DEF Engines
    <3>5. u \in Streams /\ u.terminal = N.inv[i].terminal
      BY <3>3 DEF Streams
    <3> HIDE DEF C, u, i
    <3>6. C.inv[i] = u /\ \A j \in Invocation \ {i} : C.inv[j] = N.inv[j]
      BY <2>3, <3>1, <3>4, <3>5 DEF Engines
    <3>7. Recalls(N, C)
      BY <3>5, <3>6 DEF Recalls
    <3> QED
      BY <2>4, <3>7, RecallsChain DEF C, N, f
  <2>7. CASE f[1] \notin {"start", "stop", "invoke"}
    <3>1. C = N
      BY <2>7 DEF Marked
    <3> QED
      BY <2>4, <3>1 DEF C, N, f
  <2> QED
    BY <2>5, <2>6, <2>7
<1> QED
  BY <1>2, <1>3, <1>4

(* A step of the adapter keeps its terminals, but for the one it reads.      *)
Learns(M, C, F) ==
  \A i \in Invocation :
    \/ C.inv[i].terminal = M.inv[i].terminal
    \/ F # <<>> /\ C.inv[i].terminal = Head(F) /\ Head(F) \in EndOf(i)

LEMMA BridgeRecalls ==
  ASSUME EngineAssumption, EngineInv, NEW i \in Invocation, BridgeStep(i)
  PROVE  Recalls(mu, mu')
<1> USE DEF Call
<1> DEFINE C == Observed(mu, i)
<1>1. Sound(mu) /\ mu.inv[i].bridges > 0
  BY EngStarted DEF EngineInv, BridgeStep, BridgeReleases, BridgeUnwinds, BridgeRefused
<1>2. Recalls(mu, C) /\ Sound(C) /\ mu.latch \subseteq C.latch
      /\ C.inv[i].bridges = mu.inv[i].bridges
      /\ (mu.inv[i].reason # Nil => C.inv[i].reason # Nil)
  <2>1. Sound(C) /\ Mild(mu, C) /\ (C = mu \/ Canceled(mu, C, i) \/ Fades(mu, C))
    BY <1>1, ObservedFacts
  <2>2. Recalls(mu, C)
    BY <1>1, RecallsCancel
  <2>3. mu.inv[i] \in Streams
    BY <1>1, EngineParts DEF Sound, Tidy
  <2> HIDE DEF C
  <2>4. C.inv[i].bridges = mu.inv[i].bridges
    BY <2>1, <2>3 DEF Canceled, Fades, Streams
  <2> QED
    BY <2>1, <2>2, <2>4 DEF Mild
<1> HIDE DEF C
<1>3. CASE BridgeReleases(i)
  <2>1. CASE C.inv[i].reason = Nil /\ ~ Faulted(C)
    <3> DEFINE D == BridgeEnds([Enqueue(C, <<"release", i, C.inv[i].arrival>>)
                                  EXCEPT !.inv[i].outstanding = FALSE], i)
    <3>1. Recalls(C, D)
      BY <1>1, <1>2, <2>1, RecallsReleases DEF Faulted
    <3>2. mu' = D
      BY <1>3, <2>1 DEF BridgeReleases, C
    <3> HIDE DEF D
    <3> QED
      BY <1>2, <3>1, <3>2, RecallsChain
  <2>2. CASE ~ (C.inv[i].reason = Nil /\ ~ Faulted(C))
    <3>1. Recalls(C, BridgeEnds(C, i))
      BY <1>1, <1>2, <2>2, RecallsUnwinds DEF Faulted
    <3>2. mu' = BridgeEnds(C, i)
      BY <1>3, <2>2 DEF BridgeReleases, C
    <3> QED
      BY <1>2, <3>1, <3>2, RecallsChain
  <2> QED
    BY <2>1, <2>2
<1>4. CASE BridgeUnwinds(i)
  <2>1. mu.inv[i].reason # Nil \/ "fault" \in mu.latch
    BY <1>4 DEF BridgeUnwinds, ContextDone, Faulted
  <2>2. Recalls(C, BridgeEnds(C, i))
    BY <1>1, <1>2, <2>1, RecallsUnwinds
  <2>3. mu' = BridgeEnds(C, i)
    BY <1>4 DEF BridgeUnwinds, C
  <2> QED
    BY <1>2, <2>2, <2>3, RecallsChain
<1>5. CASE BridgeRefused(i)
  <2> DEFINE D == Fail(C, {}, TRUE)
  <2>1. Fades(C, D) /\ Sound(D)
    BY <1>2, FailFacts DEF Sound
  <2>2. mu' = BridgeEnds(D, i)
    BY <1>5 DEF BridgeRefused, C
  <2> HIDE DEF D
  <2>3. Recalls(C, D) /\ D.inv[i].bridges > 0 /\ "fault" \in D.latch
    BY <1>1, <1>2, <2>1 DEF Fades, Faulted, Recalls
  <2>4. Recalls(D, BridgeEnds(D, i))
    BY <2>1, <2>3, RecallsUnwinds
  <2> QED
    BY <1>2, <2>2, <2>3, <2>4, RecallsChain
<1> QED
  BY <1>3, <1>4, <1>5 DEF BridgeStep

LEMMA CleanupRecalls ==
  ASSUME EngineAssumption, EngineInv, BeginStop \/ CleanupStep
  PROVE  Recalls(mu, mu')
<1> USE DEF Call
<1>0. Sound(mu) /\ Tidy(mu) /\ Recalls(mu, mu)
  BY EngStarted DEF EngineInv, Sound, Recalls
<1>1. CASE BeginStop
  <2>1. \E X : mu' = Latch(mu, X)
    BY <1>1 DEF BeginStop
  <2> QED
    BY <2>1, RecallsLatch
<1>2. CASE KillLate
  BY <1>2, RecallsLatch DEF KillLate
<1>3. CASE LaunchOutlasts \/ StopWithoutChild \/ StopReturns \/ ReapExpires
  BY <1>0, <1>3 DEF LaunchOutlasts, StopWithoutChild, StopReturns, ReapExpires
<1>4. CASE CancelAll
  <2>1. PICK last \in Orders(Open(mu)) :
          LET C == CanceledIn(mu, Open(mu), last)
          IN IF Has("startSent")
             THEN Call(Enqueue(C, <<"stop">>)) /\ stop' = "grace"
             ELSE Call(C) /\ stop' = "abort"
    BY <1>4 DEF CancelAll
  <2> DEFINE C == CanceledIn(mu, Open(mu), last)
  <2>2. Recalls(mu, C) /\ Tidy(C)
    <3>1. Smooth(mu, C)
      BY EngStarted, SmoothCanceledIn DEF EngineInv
    <3> QED
      BY <1>0, <3>1, RecallsCanceledIn DEF Smooth, Sound
  <2>3. mu' = Enqueue(C, <<"stop">>) \/ mu' = C
    BY <2>1
  <2> HIDE DEF C
  <2>4. <<"stop">> \in ToChild
    BY DEF ToChild
  <2>5. Recalls(C, Enqueue(C, <<"stop">>))
    BY <2>2, <2>4, RecallsEnqueue
  <2> QED
    BY <2>2, <2>3, <2>5, RecallsChain
<1>5. CASE GraceEnds
  <2>1. PICK normal \in BOOLEAN : EndGrace(normal)
    <3>1. Proven \in BOOLEAN
      BY DEF Proven
    <3> QED
      BY <1>5, <3>1 DEF GraceEnds
  <2> DEFINE D == Fail(mu, {}, FALSE)
             X == {"writerCanceled", "pipesClosed"}
  <2>2. mu' = Latch(mu, X) \/ mu' = Latch(D, X)
    BY <2>1 DEF EndGrace
  <2>3. Recalls(mu, D)
    BY <1>0, RecallsFail
  <2> HIDE DEF D, X
  <2> QED
    BY <2>2, <2>3, RecallsLatch, RecallsChain
<1> QED
  BY <1>1, <1>2, <1>3, <1>4, <1>5 DEF CleanupStep

LEMMA StartRecalls ==
  ASSUME EngineAssumption, EngineInv, StartStep
  PROVE  Recalls(mu, mu')
<1> USE DEF Call
<1>0. Sound(mu) /\ Tidy(mu) /\ Recalls(mu, mu)
  BY EngStarted DEF EngineInv, Sound, Recalls
<1> DEFINE L == Latch(mu, {"launched"})
<1>1. \/ mu' = mu \/ mu' = L \/ mu' = Enqueue(L, <<"start">>) \/ mu' = Fail(L, {}, FALSE)
      \/ mu' = Fail(mu, {}, TRUE)
  BY DEF StartStep, StartBegins, Launched, LaunchFails, StartReturns, StartFails
<1>2. Recalls(mu, L) /\ Tidy(L)
  BY <1>0, RecallsLatch, LatchFacts DEF Flags, Sound
<1>3. Recalls(mu, Fail(L, {}, FALSE))
  BY <1>0, RecallsFaults DEF Flags
<1>4. Recalls(mu, Fail(mu, {}, TRUE))
  BY <1>0, RecallsFail
<1> HIDE DEF L
<1>5. Recalls(L, Enqueue(L, <<"start">>))
  BY <1>2, ToForms, RecallsEnqueue
<1> DEFINE D == Enqueue(L, <<"start">>)
<1> HIDE DEF D
<1>6. Recalls(L, D)
  BY <1>5 DEF D
<1>7. Recalls(mu, D)
  BY <1>2, <1>6, RecallsChain
<1> QED
  BY <1>0, <1>1, <1>2, <1>3, <1>4, <1>7 DEF D

LEMMA WriterRecalls ==
  ASSUME EngineAssumption, EngineInv, WriterStep
  PROVE  Recalls(mu, mu')
<1> USE DEF Call
<1>0. Sound(mu) /\ Tidy(mu) /\ Recalls(mu, mu)
  BY EngStarted DEF EngineInv, Sound, Recalls
<1>1. CASE WriteBegins
  BY <1>0, <1>1, RecallsPlain DEF WriteBegins
<1>2. CASE WriteReturns
  BY <1>0, <1>2 DEF WriteReturns
<1>3. CASE WriteFails
  <2>1. Recalls(mu, Fail(Latch(mu, {"written"}), {}, FALSE))
    BY <1>0, RecallsFaults DEF Flags
  <2> QED
    BY <1>3, <2>1 DEF WriteFails
<1>4. CASE WriterEnds
  <2> DEFINE N == [mu EXCEPT !.queue = <<>>]
             W == Latch(N, {"written"})
  <2>1. mu' = W \/ mu' = Fail(W, {}, FALSE)
    BY <1>4 DEF WriterEnds
  <2>2. Sound(N) /\ Recalls(mu, N)
    BY <1>0, RecallsPlain
  <2> HIDE DEF N
  <2>3. Recalls(N, W) /\ Recalls(N, Fail(W, {}, FALSE))
    BY <2>2, RecallsLatch, RecallsFaults DEF Flags
  <2> DEFINE D == Fail(W, {}, FALSE)
  <2> HIDE DEF W, D
  <2>4. Recalls(N, W) /\ Recalls(N, D)
    BY <2>3 DEF D
  <2>5. Recalls(mu, W) /\ Recalls(mu, D)
    BY <2>2, <2>4, RecallsChain
  <2> QED
    BY <2>1, <2>5 DEF D
<1> QED
  BY <1>1, <1>2, <1>3, <1>4 DEF WriterStep

(* A frame that is read.                                                     *)
LEMMA ReadLearns ==
  ASSUME EngineAssumption, EngineInv, ReaderStep
  PROVE  Learns(mu, mu', fromPeer)
<1> USE DEF Call
<1>0. /\ Sound(mu) /\ Tidy(mu) /\ mu \in Engines /\ fromPeer \in Seq(FromChild)
  BY EngStarted DEF EngineInv, Sound, Eng, Typed
<1>1. ASSUME Recalls(mu, mu') PROVE Learns(mu, mu', fromPeer)
  BY <1>1 DEF Learns, Recalls
<1>2. CASE ReadFrame
  <2> DEFINE f == Head(fromPeer)
             C == Received(mu, f)
  <2>1. f \in FromChild /\ fromPeer # <<>>
    BY <1>0, <1>2, PipeTail DEF ReadFrame
  <2>2. CASE Faulted(mu)
    BY <1>1, <1>2, <2>2 DEF ReadFrame, Recalls
  <2>3. CASE ~ Faulted(mu)
    <3>1. mu' = C
      BY <1>2, <2>3 DEF ReadFrame
    <3>2. Fades(mu, C) \/ Accepts(mu, f, C)
      BY <1>0, <2>1, <2>3, ReceivedFacts
    <3>0. f = Head(fromPeer)
      OBVIOUS
    <3> HIDE DEF C, f
    <3>3. CASE Fades(mu, C)
      BY <1>1, <3>1, <3>3 DEF Fades, Recalls
    <3>4. ASSUME C.inv = mu.inv PROVE Learns(mu, mu', fromPeer)
      BY <1>1, <3>1, <3>4 DEF Recalls
    <3>5. CASE Accepts(mu, f, C)
      <4> DEFINE i == f[2]
                 v == mu.inv[i]
      <4>1. CASE f[1] \in {"ready", "stopped"}
        <5>1. \E X : C = Latch(mu, X)
          BY <3>5, <4>1 DEF Accepts, Latch
        <5> QED
          BY <1>1, <3>1, <5>1, RecallsLatch
      <4>2. CASE C = mu
        BY <3>4, <4>2
      <4>3. CASE f[1] \notin {"ready", "stopped"} /\ C # mu
        <5>1. i \in Invocation /\ v \in Streams /\ mu.inv \in [Invocation -> Streams]
          BY <1>0, <2>1, <3>5, <4>3, FromForms, EngineParts DEF Accepts
        <5>2. CASE Canceled(mu, C, i)
          <6>1. Recalls(mu, C)
            BY <5>1, <5>2 DEF Canceled, Recalls, Streams
          <6> QED
            BY <1>1, <3>1, <6>1
        <5>3. ASSUME NEW u \in Streams, C = [mu EXCEPT !.inv[i] = u],
                     u.terminal = v.terminal \/ (u.terminal = f /\ f[1] = "terminal")
              PROVE  Learns(mu, mu', fromPeer)
          <6>1. C.inv[i] = u /\ \A j \in Invocation \ {i} : C.inv[j] = mu.inv[j]
            BY <1>0, <5>1, <5>3 DEF Engines
          <6>2. f[1] = "terminal" => f \in EndOf(i)
            BY <2>1 DEF EndOf
          <6> QED
            BY <2>1, <3>0, <3>1, <5>3, <6>1, <6>2 DEF Learns
        <5>4. CASE f[1] = "accepted" /\ C = [mu EXCEPT !.inv[i] = [@ EXCEPT !.accepted = TRUE]]
          <6> DEFINE u == [v EXCEPT !.accepted = TRUE]
          <6>1. u \in Streams /\ u.terminal = v.terminal
            BY <5>1 DEF Streams
          <6>2. C = [mu EXCEPT !.inv[i] = u]
            BY <5>4
          <6> HIDE DEF u, v
          <6> QED
            BY <5>3, <6>1, <6>2
        <5>5. CASE f[1] = "arrive" /\ C = [mu EXCEPT !.inv[i] =
                     [@ EXCEPT !.arrival = f[3], !.outstanding = TRUE, !.bridges = 1]]
          <6> DEFINE n == f[3]
                     u == [v EXCEPT !.arrival = n, !.outstanding = TRUE, !.bridges = 1]
          <6>0. n \in Nat
            BY <2>1, <5>5, FromForms
          <6>1. u \in Streams /\ u.terminal = v.terminal
            <7> HIDE DEF n
            <7> QED
              BY <5>1, <6>0 DEF Streams
          <6>2. C = [mu EXCEPT !.inv[i] = u]
            BY <5>5
          <6> HIDE DEF u, v
          <6> QED
            BY <5>3, <6>1, <6>2
        <5>6. CASE f[1] = "terminal" /\ C = [mu EXCEPT !.inv[i] =
                     [@ EXCEPT !.terminal = f,
                               !.stream = IF mu.inv[i].bridges = 0 THEN "closed" ELSE "open"]]
          <6> DEFINE s == IF mu.inv[i].bridges = 0 THEN "closed" ELSE "open"
                     u == [v EXCEPT !.terminal = f, !.stream = s]
          <6>0. s \in {"none", "open", "closed"} /\ f \in Terminals
            BY <2>1, <5>6, FromForms
          <6>1. u \in Streams /\ u.terminal = f
            <7> HIDE DEF s
            <7> QED
              BY <5>1, <6>0 DEF Streams
          <6>2. C = [mu EXCEPT !.inv[i] = u]
            BY <5>6
          <6> HIDE DEF u, v
          <6> QED
            BY <5>3, <5>6, <6>1, <6>2
        <5> QED
          BY <3>5, <4>3, <5>2, <5>4, <5>5, <5>6 DEF Accepts
      <4> QED
        BY <4>1, <4>2, <4>3
    <3> QED
      BY <3>2, <3>3, <3>5
  <2> QED
    BY <2>2, <2>3
<1>3. CASE ReadEnds
  <2>1. \/ \E X : mu' = Latch(mu, X)
        \/ mu' = Fail(Latch(mu, {"read"}), {}, FALSE)
    BY <1>3 DEF ReadEnds
  <2>2. Recalls(mu, Fail(Latch(mu, {"read"}), {}, FALSE))
    BY <1>0, RecallsFaults DEF Flags
  <2> QED
    BY <1>1, <2>1, <2>2, RecallsLatch
<1>4. CASE SeeExit
  <2> DEFINE X == {"exit"} \cup (IF child = "bad" THEN {"exitErr"} ELSE {})
  <2>1. X \in SUBSET (Flags \ {"fault"})
    BY DEF Flags
  <2>2. mu' = Latch(mu, X) \/ mu' = Fail(Latch(mu, X), {}, FALSE)
    BY <1>4 DEF SeeExit
  <2> HIDE DEF X
  <2> QED
    BY <1>0, <1>1, <2>1, <2>2, RecallsLatch, RecallsFaults
<1> QED
  BY <1>2, <1>3, <1>4 DEF ReaderStep

LEMMA EngineLearns ==
  ASSUME EngineAssumption, EngineInv, EngineStep
  PROVE  Learns(mu, mu', fromPeer)
<1>1. ASSUME Recalls(mu, mu') PROVE Learns(mu, mu', fromPeer)
  BY <1>1 DEF Learns, Recalls
<1>2. ASSUME NEW i \in Invocation, Invoke(i) \/ WatchContext(i) PROVE Recalls(mu, mu')
  <2>1. Sound(mu)
    BY EngStarted DEF EngineInv
  <2> QED
    BY <1>2, <2>1, RecallsPlain, RecallsCancel DEF Invoke, WatchContext, Call
<1>3. CASE ParentEnds
  BY <1>1, <1>3, RecallsLatch DEF ParentEnds, Call
<1> QED
  BY <1>1, <1>2, <1>3, StartRecalls, WriterRecalls, ReadLearns, BridgeRecalls, CleanupRecalls
     DEF EngineStep

(* The adapter holds no terminal but the truth.                              *)
Vouched ==
  \A i \in Invocation : mu.inv[i].terminal # Nil => True(mu.inv[i].terminal, peer.inv[i])

WireInv == EngineInv /\ PeerInv /\ Vouched

LEMMA TrueStays ==
  ASSUME NEW P, NEW Q, Stays(P, Q), NEW i \in Invocation, NEW f, True(f, P.inv[i])
  PROVE  True(f, Q.inv[i])
BY DEF True, Stays, Peer!Settled, Peer!Unstarted, Peer!Truth

LEMMA VouchedKeeps ==
  ASSUME EngineAssumption, WireInv, WireNext
  PROVE  Vouched'
<1>1. Stays(peer, peer')
  BY WireKeeps DEF WireInv
<1>2. Learns(mu, mu', fromPeer)
  <2>1. CASE EngineMoves(EngineStep)
    BY <2>1, EngineLearns DEF WireInv, EngineMoves
  <2>2. CASE PeerMoves(Peer!PeerStep) \/ PeerMoves(ChildDies)
    BY <2>2 DEF PeerMoves, Learns
  <2> QED
    BY <2>1, <2>2 DEF WireNext
<1>3. fromPeer \in Seq(Said) /\ Told(fromPeer, peer)
  BY DEF WireInv, PeerInv, PeerFit, Told
<1>4. ASSUME NEW i \in Invocation, mu'.inv[i].terminal # Nil
      PROVE  True(mu'.inv[i].terminal, peer'.inv[i])
  <2>1. True(mu'.inv[i].terminal, peer.inv[i])
    <3>1. CASE mu'.inv[i].terminal = mu.inv[i].terminal
      BY <1>4, <3>1 DEF WireInv, Vouched
    <3>2. CASE /\ fromPeer # <<>> /\ mu'.inv[i].terminal = Head(fromPeer)
               /\ Head(fromPeer) \in EndOf(i)
      <4>1. Head(fromPeer) \in In(fromPeer)
        BY <1>3, <3>2, PipeTail
      <4> QED
        BY <1>3, <3>2, <4>1 DEF Told
    <3> QED
      BY <1>2, <3>1, <3>2 DEF Learns
  <2> QED
    BY <1>1, <2>1, TrueStays
<1> QED
  BY <1>4 DEF Vouched

LEMMA WireInvKeeps ==
  ASSUME EngineAssumption, WireInv, [WireNext]_wireVars
  PROVE  WireInv'
<1>1. CASE WireNext
  BY <1>1, WireKeeps, VouchedKeeps DEF WireInv
<1>2. CASE UNCHANGED wireVars
  BY <1>2 DEF wireVars, engineVars, WireInv, EngineInv, PeerInv, Vouched
<1> QED
  BY <1>1, <1>2

LEMMA WireInvStarts ==
  ASSUME EngineAssumption, WireInit
  PROVE  WireInv
<1>1. EngineInv /\ PeerInv
  BY WireStarts
<1>2. \A i \in Invocation : mu.inv[i].terminal = Nil
  BY DEF WireInit, EngineInit, NewEngine
<1> QED
  BY <1>1, <1>2 DEF WireInv, Vouched

LEMMA OutcomeByInv ==
  ASSUME EngineAssumption, WireInv
  PROVE  OutcomeIsTrue
<1>1. ASSUME NEW i \in Invocation, mu.inv[i].terminal # Nil
      PROVE  /\ peer.inv[i].life = "retired" /\ Peer!Settled(peer.inv[i])
             /\ mu.inv[i].terminal[3] = Peer!Truth(peer.inv[i])
  BY <1>1 DEF WireInv, Vouched, True
<1>2. stop = "ok" => Peer!Leased(peer) = {}
  <2>1. stop = "ok" => child \in {"none", "ok"}
    BY DEF WireInv, EngineInv, Eng, Stopping
  <2>2. child = "ok" => Peer!Leased(peer) = {}
    BY DEF WireInv, PeerInv, PeerFit
  <2>3. child = "none" => Peer!Leased(peer) = {}
    <3>1. Peer!Leased(Peer!NewPeer) = {}
      BY NewPeerFacts DEF Peer!Leased, NewThread
    <3> QED
      BY <3>1 DEF WireInv, PeerInv, PeerFit
  <2> QED
    BY <2>1, <2>2, <2>3
<1> QED
  BY <1>1, <1>2 DEF OutcomeIsTrue

(* Over the pipes, with a peer that may be killed or die at any time, the    *)
(* adapter holds only terminals that are the truth about an invocation which *)
(* has returned its connection, and a Stop that succeeds leaves none leased; *)
(* and it keeps what it keeps with any child (external.go:565, stop.go:138). *)
THEOREM OutcomeAlwaysTrue ==
  ASSUME EngineAssumption
  PROVE  WireSpec => [](OutcomeIsTrue /\ EngineSafe)
<1>1. WireInit => WireInv
  BY WireInvStarts
<1>2. WireInv /\ [WireNext]_wireVars => WireInv'
  BY WireInvKeeps
<1>3. WireInv => OutcomeIsTrue /\ EngineSafe
  BY OutcomeByInv, EngineIsSafe DEF WireInv
<1> QED
  BY <1>1, <1>2, <1>3, PTL DEF WireSpec
====
