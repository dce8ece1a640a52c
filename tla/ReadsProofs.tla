----------------------------- MODULE ReadsProofs ------------------------------
(***************************************************************************)
(* Two results about what the client reads, for any number of tabs,        *)
(* versions and troubles.  The aggregator counts the requests that are not *)
(* answered yet: the number it keeps of a target is the requests for it on *)
(* their way to the server and the answers to such requests on their way   *)
(* back.  And what a target's token claims the client to have it has.      *)
(***************************************************************************)
EXTENDS Reads, FiniteSetTheorems, SequenceTheorems, TLAPS

(***************************************************************************)
(* Counting along a sequence.                                              *)
(***************************************************************************)

\* A sequence, of whatever it holds.
IsSeq(s) == s \in Seq({s[i] : i \in 1..Len(s)})

LEMMA SeqIsSeq ==
    ASSUME NEW S, NEW s \in Seq(S)
    PROVE  IsSeq(s)
<1>1. Len(s) \in Nat /\ s = [i \in 1..Len(s) |-> s[i]]
  OBVIOUS
<1>2. QED
  BY <1>1 DEF IsSeq

LEMMA Appended ==
    ASSUME NEW s, IsSeq(s), NEW x
    PROVE  /\ IsSeq(Append(s, x)) /\ Len(s) \in Nat /\ Len(Append(s, x)) = Len(s) + 1
           /\ Append(s, x)[Len(s) + 1] = x
           /\ \A i \in 1..Len(s) : Append(s, x)[i] = s[i]
<1> DEFINE S == {s[i] : i \in 1..Len(s)} \cup {x}
<1>1. s \in Seq(S) /\ x \in S
  BY DEF IsSeq
<1> HIDE DEF S
<1>2. Append(s, x) \in Seq(S)
  BY <1>1
<1>3. IsSeq(Append(s, x))
  BY <1>2, SeqIsSeq
<1>4. /\ Len(s) \in Nat /\ Len(Append(s, x)) = Len(s) + 1
      /\ Append(s, x)[Len(s) + 1] = x
      /\ \A i \in 1..Len(s) : Append(s, x)[i] = s[i]
  BY <1>1
<1>5. QED
  BY <1>3, <1>4

LEMMA Tailed ==
    ASSUME NEW s, IsSeq(s), s # <<>>
    PROVE  /\ IsSeq(Tail(s)) /\ Len(s) \in Nat \ {0} /\ Len(Tail(s)) = Len(s) - 1
           /\ Head(s) = s[1]
           /\ \A i \in 1..Len(Tail(s)) : Tail(s)[i] = s[i + 1]
<1> DEFINE S == {s[i] : i \in 1..Len(s)}
<1>1. s \in Seq(S)
  BY DEF IsSeq
<1> HIDE DEF S
<1>2. /\ Tail(s) \in Seq(S) /\ Len(s) \in Nat \ {0} /\ Len(Tail(s)) = Len(s) - 1
      /\ Head(s) = s[1] /\ \A i \in 1..Len(Tail(s)) : Tail(s)[i] = s[i + 1]
  BY <1>1
<1>3. QED
  BY <1>2, SeqIsSeq

LEMMA EmptyIsSeq == IsSeq(<<>>) /\ Len(<<>>) = 0
<1>1. <<>> \in Seq({}) /\ Len(<<>>) = 0
  OBVIOUS
<1>2. QED
  BY <1>1, SeqIsSeq

\* Numbers of places, and the same places one further on.
LEMMA Shifted ==
    ASSUME NEW J \in SUBSET Nat, IsFiniteSet(J)
    PROVE  /\ IsFiniteSet({j + 1 : j \in J})
           /\ Cardinality({j + 1 : j \in J}) = Cardinality(J)
<1> DEFINE T == {j + 1 : j \in J}
           f == [j \in J |-> j + 1]
<1>1. f \in Bijection(J, T)
  <2>1. f \in [J -> T] /\ \A i, j \in J : f[i] = f[j] => i = j
    OBVIOUS
  <2>2. \A y \in T : \E j \in J : f[j] = y
    OBVIOUS
  <2> HIDE DEF f, T
  <2>3. QED
    BY <2>1, <2>2 DEF Bijection, Injection, Surjection, IsInjective
<1> HIDE DEF f, T
<1>2. ExistsBijection(J, T)
  BY <1>1 DEF ExistsBijection
<1>3. QED
  BY <1>2, FS_Bijection DEF T

LEMMA PlacesAreFinite ==
    ASSUME NEW n \in Nat, NEW J \in SUBSET (1..n)
    PROVE  IsFiniteSet(J) /\ Cardinality(J) \in Nat /\ J \in SUBSET Nat
<1>1. IsFiniteSet(1..n)
  BY FS_Interval
<1>2. IsFiniteSet(J)
  BY <1>1, FS_Subset
<1>3. QED
  BY <1>2, FS_CardinalityType

\* The places of a longer sequence, where J are those of s and b says whether
\* the element appended counts.
LEMMA OneMore ==
    ASSUME NEW n \in Nat, NEW J \in SUBSET (1..n), NEW b \in BOOLEAN
    PROVE  Cardinality(IF b THEN J \cup {n + 1} ELSE J) = Cardinality(J) + (IF b THEN 1 ELSE 0)
<1>1. IsFiniteSet(J) /\ Cardinality(J) \in Nat
  BY PlacesAreFinite
<1> n + 1 \notin J
  OBVIOUS
<1>2. Cardinality(J \cup {n + 1}) = Cardinality(J) + 1
  BY <1>1, FS_AddElement
<1>3. QED
  BY <1>1, <1>2

\* And of a sequence whose first element, counting or not, is taken.
LEMMA OneLess ==
    ASSUME NEW n \in Nat, NEW J \in SUBSET (1..n), NEW b \in BOOLEAN
    PROVE  Cardinality({j + 1 : j \in J} \cup (IF b THEN {1} ELSE {}))
             = Cardinality(J) + (IF b THEN 1 ELSE 0)
<1> DEFINE T == {j + 1 : j \in J}
<1>1. IsFiniteSet(J) /\ Cardinality(J) \in Nat /\ J \in SUBSET Nat
  BY PlacesAreFinite
<1>2. 1 \notin T
  OBVIOUS
<1>3. IsFiniteSet(T) /\ Cardinality(T) = Cardinality(J)
  BY <1>1, Shifted
<1> HIDE DEF T
<1>4. Cardinality(T \cup {1}) = Cardinality(J) + 1 /\ T \cup {} = T
  BY <1>1, <1>2, <1>3, FS_AddElement
<1>5. Cardinality(T \cup (IF b THEN {1} ELSE {})) = Cardinality(J) + (IF b THEN 1 ELSE 0)
  <2>1. CASE b
    BY <1>4, <2>1
  <2>2. CASE ~b
    BY <1>1, <1>3, <1>4, <2>2
  <2>3. QED
    BY <2>1, <2>2
<1>6. QED
  BY <1>5 DEF T

\* Requests of t on their way, and answers to such requests.
Asked(s, t) == Cardinality({i \in 1..Len(s) : s[i].target = t})
Due(s, t)   == Cardinality({i \in 1..Len(s) : s[i].op \in {"added", "removed"} /\ s[i].target = t})

Counts(m, t) == m.op \in {"added", "removed"} /\ m.target = t

LEMMA AskedAppended ==
    ASSUME NEW s, IsSeq(s), NEW x, NEW t
    PROVE  /\ Asked(Append(s, x), t) = Asked(s, t) + (IF x.target = t THEN 1 ELSE 0)
           /\ Asked(s, t) \in Nat
<1> DEFINE J == {i \in 1..Len(s) : s[i].target = t}
           K == {i \in 1..Len(Append(s, x)) : Append(s, x)[i].target = t}
<1>1. K = IF x.target = t THEN J \cup {Len(s) + 1} ELSE J
  BY Appended
<1>2. J \in SUBSET (1..Len(s)) /\ Len(s) \in Nat
  BY Appended
<1> HIDE DEF J, K
<1>3. Cardinality(J) \in Nat
  BY <1>2, PlacesAreFinite
<1>4. Cardinality(K) = Cardinality(J) + (IF x.target = t THEN 1 ELSE 0)
  BY <1>1, <1>2, OneMore
<1>5. Asked(Append(s, x), t) = Cardinality(K) /\ Asked(s, t) = Cardinality(J)
  BY DEF J, K, Asked
<1>6. QED
  BY <1>3, <1>4, <1>5

LEMMA AskedTailed ==
    ASSUME NEW s, IsSeq(s), s # <<>>, NEW t
    PROVE  /\ Asked(s, t) = Asked(Tail(s), t) + (IF Head(s).target = t THEN 1 ELSE 0)
           /\ Asked(s, t) \in Nat /\ Asked(Tail(s), t) \in Nat
<1> DEFINE J == {i \in 1..Len(Tail(s)) : Tail(s)[i].target = t}
           K == {i \in 1..Len(s) : s[i].target = t}
<1>1. K = {j + 1 : j \in J} \cup (IF Head(s).target = t THEN {1} ELSE {})
  <2>1. \A i \in 1..Len(s) : i # 1 => i - 1 \in 1..Len(Tail(s)) /\ Tail(s)[i - 1] = s[i]
    BY Tailed
  <2>2. \A i \in K : i = 1 \/ (i - 1 \in J /\ i = (i - 1) + 1)
    BY <2>1
  <2>3. \A j \in J : j + 1 \in K
    BY Tailed
  <2>4. 1 \in K <=> Head(s).target = t
    BY Tailed
  <2>5. QED
    BY <2>2, <2>3, <2>4
<1>2. J \in SUBSET (1..Len(Tail(s))) /\ Len(Tail(s)) \in Nat
  BY Tailed
<1> HIDE DEF J, K
<1>3. Cardinality(J) \in Nat
  BY <1>2, PlacesAreFinite
<1>4. Cardinality(K) = Cardinality(J) + (IF Head(s).target = t THEN 1 ELSE 0)
  BY <1>1, <1>2, OneLess
<1>5. Asked(s, t) = Cardinality(K) /\ Asked(Tail(s), t) = Cardinality(J)
  BY DEF J, K, Asked
<1>6. QED
  BY <1>3, <1>4, <1>5

LEMMA DueAppended ==
    ASSUME NEW s, IsSeq(s), NEW x, NEW t
    PROVE  /\ Due(Append(s, x), t) = Due(s, t) + (IF Counts(x, t) THEN 1 ELSE 0)
           /\ Due(s, t) \in Nat
<1> DEFINE J == {i \in 1..Len(s) : Counts(s[i], t)}
           K == {i \in 1..Len(Append(s, x)) : Counts(Append(s, x)[i], t)}
<1>1. K = IF Counts(x, t) THEN J \cup {Len(s) + 1} ELSE J
  BY Appended
<1>2. J \in SUBSET (1..Len(s)) /\ Len(s) \in Nat
  BY Appended
<1> HIDE DEF J, K
<1>3. Cardinality(J) \in Nat
  BY <1>2, PlacesAreFinite
<1>4. Cardinality(K) = Cardinality(J) + (IF Counts(x, t) THEN 1 ELSE 0)
  BY <1>1, <1>2, OneMore DEF Counts
<1>5. Due(Append(s, x), t) = Cardinality(K) /\ Due(s, t) = Cardinality(J)
  BY DEF J, K, Due, Counts
<1>6. QED
  BY <1>3, <1>4, <1>5

LEMMA DueTailed ==
    ASSUME NEW s, IsSeq(s), s # <<>>, NEW t
    PROVE  /\ Due(s, t) = Due(Tail(s), t) + (IF Counts(Head(s), t) THEN 1 ELSE 0)
           /\ Due(s, t) \in Nat /\ Due(Tail(s), t) \in Nat
<1> DEFINE J == {i \in 1..Len(Tail(s)) : Counts(Tail(s)[i], t)}
           K == {i \in 1..Len(s) : Counts(s[i], t)}
<1>1. K = {j + 1 : j \in J} \cup (IF Counts(Head(s), t) THEN {1} ELSE {})
  <2>1. \A i \in 1..Len(s) : i # 1 => i - 1 \in 1..Len(Tail(s)) /\ Tail(s)[i - 1] = s[i]
    BY Tailed
  <2>2. \A i \in K : i = 1 \/ (i - 1 \in J /\ i = (i - 1) + 1)
    BY <2>1
  <2>3. \A j \in J : j + 1 \in K
    BY Tailed
  <2>4. 1 \in K <=> Counts(Head(s), t)
    BY Tailed
  <2>5. QED
    BY <2>2, <2>3, <2>4
<1>2. J \in SUBSET (1..Len(Tail(s))) /\ Len(Tail(s)) \in Nat
  BY Tailed
<1> HIDE DEF J, K
<1>3. Cardinality(J) \in Nat
  BY <1>2, PlacesAreFinite
<1>4. Cardinality(K) = Cardinality(J) + (IF Counts(Head(s), t) THEN 1 ELSE 0)
  BY <1>1, <1>2, OneLess DEF Counts
<1>5. Due(s, t) = Cardinality(K) /\ Due(Tail(s), t) = Cardinality(J)
  BY DEF J, K, Due, Counts
<1>6. QED
  BY <1>3, <1>4, <1>5

LEMMA EmptyCounts == \A t : Asked(<<>>, t) = 0 /\ Due(<<>>, t) = 0
<1>1. \A t : /\ {i \in 1..Len(<<>>) : <<>>[i].target = t} = {}
             /\ {i \in 1..Len(<<>>) : <<>>[i].op \in {"added", "removed"} /\ <<>>[i].target = t} = {}
  BY EmptyIsSeq
<1>2. QED
  BY <1>1, FS_EmptySet DEF Asked, Due

(***************************************************************************)
(* The record w.                                                           *)
(***************************************************************************)

Fields == {"listens", "state", "idle", "outgoing", "states", "updates", "online",
           "failing", "timer", "broken"}

IsTargetState(s) ==
    /\ DOMAIN s = {"outstanding", "pending", "change", "current", "token"}
    /\ s.outstanding \in Int

Shape(v) ==
    /\ DOMAIN v = Fields
    /\ IsFiniteSet(v.listens)
    /\ IsSeq(v.outgoing)
    /\ \A t \in DOMAIN v.states : IsTargetState(v.states[t])

\* Nothing of an RPC is left.
Closed(v) == ~IsOpen(v) /\ v.outgoing = <<>> /\ DOMAIN v.states = {}

Outstanding(v, t) == TargetState(v, t).outstanding

\* v is u but for what has nothing to do with requests.
Alike(u, v) ==
    Shape(v) /\ v.state = u.state /\ v.outgoing = u.outgoing /\ v.states = u.states

\* The same, with target states that count the same.
CountsAlike(u, v) ==
    /\ Shape(v) /\ v.state = u.state /\ v.outgoing = u.outgoing
    /\ \A t : Outstanding(v, t) = Outstanding(u, t)

LEMMA NoChangesCountsNothing == IsTargetState(NoChanges) /\ NoChanges.outstanding = 0
  BY DEF IsTargetState, NoChanges

LEMMA TargetStateShape ==
    ASSUME NEW v, Shape(v), NEW t
    PROVE  IsTargetState(TargetState(v, t)) /\ Outstanding(v, t) \in Int
  BY NoChangesCountsNothing DEF Shape, TargetState, Outstanding, IsTargetState

\* Setting the state of a target.
LEMMA SettingATargetState ==
    ASSUME NEW v, Shape(v), NEW t, NEW s, IsTargetState(s)
    PROVE  LET u == SetTargetState(v, t, s)
           IN  /\ Shape(u) /\ u.state = v.state /\ u.outgoing = v.outgoing
               /\ u.listens = v.listens
               /\ Outstanding(u, t) = s.outstanding
               /\ \A x : x # t => Outstanding(u, x) = Outstanding(v, x)
<1> DEFINE u == SetTargetState(v, t, s)
<1>1. /\ DOMAIN u = Fields /\ u.state = v.state /\ u.outgoing = v.outgoing
      /\ u.listens = v.listens /\ u.states = Put(v.states, t, s)
  BY DEF SetTargetState, Shape, Fields
<1> HIDE DEF u
<1>2. /\ DOMAIN u.states = DOMAIN v.states \cup {t} /\ u.states[t] = s
      /\ \A x \in DOMAIN v.states : x # t => u.states[x] = v.states[x]
  BY <1>1 DEF Put
<1>3. Shape(u)
  BY <1>1, <1>2 DEF Shape
<1>4. Outstanding(u, t) = s.outstanding
  BY <1>2 DEF Outstanding, TargetState
<1>5. \A x : x # t => Outstanding(u, x) = Outstanding(v, x)
  BY <1>2 DEF Outstanding, TargetState
<1>6. QED
  BY <1>1, <1>3, <1>4, <1>5 DEF u

\* The parts of RemoteStore that count nothing.
LEMMA AlikeSteps ==
    ASSUME NEW v, Shape(v), NEW b, NEW online
    PROVE  /\ Alike(v, Assert_(v, b)) /\ Assert_(v, b).listens = v.listens
           /\ Alike(v, UpdateState(v, online)) /\ UpdateState(v, online).listens = v.listens
  BY DEF Alike, Shape, Fields, Assert_, UpdateState

LEMMA AlikeTracker ==
    ASSUME NEW v, Shape(v)
    PROVE  /\ Alike(v, HandleWatchStreamStart(v)) /\ HandleWatchStreamStart(v).listens = v.listens
           /\ Alike(v, HandleWatchStreamFailure(v)) /\ HandleWatchStreamFailure(v).listens = v.listens
           /\ Alike(v, TimeOut(v))
  BY DEF Alike, Shape, Fields, Assert_, HandleWatchStreamStart, HandleWatchStreamFailure, TimeOut

\* Sending a request counts it.
LEMMA SendCounts ==
    ASSUME NEW v, Shape(v), NEW r, NEW t
    PROVE  LET u == Send(v, r)
           IN  /\ Shape(u) /\ u.state = v.state /\ u.listens = v.listens
               /\ u.outgoing = Append(v.outgoing, r)
               /\ Outstanding(u, t) - Asked(u.outgoing, t) = Outstanding(v, t) - Asked(v.outgoing, t)
<1> DEFINE s == [TargetState(v, r.target) EXCEPT !.outstanding = @ + 1]
           p == SetTargetState(v, r.target, s)
           u == Send(v, r)
<1>1. IsTargetState(s) /\ s.outstanding = Outstanding(v, r.target) + 1
  BY TargetStateShape DEF IsTargetState, Outstanding
<1>2. p = RecordPendingTargetRequest(v, r.target)
  BY DEF RecordPendingTargetRequest
<1> HIDE DEF s
<1>3. /\ Shape(p) /\ p.state = v.state /\ p.outgoing = v.outgoing /\ p.listens = v.listens
      /\ Outstanding(p, r.target) = Outstanding(v, r.target) + 1
      /\ \A x : x # r.target => Outstanding(p, x) = Outstanding(v, x)
  BY <1>1, SettingATargetState
<1> HIDE DEF p
<1>4. /\ DOMAIN u = Fields /\ u.state = p.state /\ u.listens = p.listens
      /\ u.outgoing = Append(p.outgoing, r) /\ u.states = p.states
  BY <1>2, <1>3 DEF Send, Assert_, Shape, Fields
<1> HIDE DEF u
<1>5. IsSeq(v.outgoing)
  BY DEF Shape
<1>6. Shape(u)
  <2>1. IsSeq(Append(v.outgoing, r))
    BY <1>5, Appended
  <2>2. QED
    BY <1>3, <1>4, <2>1 DEF Shape
<1>7. Outstanding(u, t) = Outstanding(p, t)
  BY <1>4 DEF Outstanding, TargetState
<1>8. /\ Asked(u.outgoing, t) = Asked(v.outgoing, t) + (IF r.target = t THEN 1 ELSE 0)
      /\ Asked(v.outgoing, t) \in Nat
  BY <1>3, <1>4, <1>5, AskedAppended
<1>9. Outstanding(v, t) \in Int
  BY TargetStateShape
<1>10. QED
  BY <1>3, <1>4, <1>6, <1>7, <1>8, <1>9 DEF u

\* A stream that starts has an aggregator of its own.
LEMMA StartIsClosed ==
    ASSUME NEW v, Shape(v), ~IsOpen(v), v.outgoing = <<>>
    PROVE  Shape(StartWatchStream(v)) /\ Closed(StartWatchStream(v))
<1> DEFINE u == [v EXCEPT !.states = <<>>, !.updates = <<>>,
                          !.state = IF @ = "Error" THEN "Backoff" ELSE "Starting"]
<1>1. /\ DOMAIN u = Fields /\ u.listens = v.listens /\ u.outgoing = <<>> /\ u.states = <<>>
      /\ u.state \in {"Backoff", "Starting"}
  BY DEF Shape, Fields
<1>2. StartWatchStream(v) = HandleWatchStreamStart(u)
  BY DEF StartWatchStream
<1> HIDE DEF u
<1>3. DOMAIN u.states = {}
  BY <1>1
<1>4. Shape(u)
  BY <1>1, <1>3 DEF Shape
<1>5. QED
  BY <1>1, <1>2, <1>3, <1>4, AlikeTracker DEF Alike, Closed, IsOpen

LEMMA TornDownIsClosed ==
    ASSUME NEW v, Shape(v), NEW state, state # "Open"
    PROVE  LET u == TornDown(v, state)
           IN  Shape(u) /\ Closed(u) /\ u.listens = v.listens /\ u.state = state
<1> DEFINE u == TornDown(v, state)
<1>1. /\ DOMAIN u = Fields /\ u.listens = v.listens /\ u.outgoing = <<>> /\ u.states = <<>>
      /\ u.state = state
  BY DEF Shape, Fields, TornDown
<1> HIDE DEF u
<1>2. DOMAIN u.states = {}
  BY <1>1
<1>3. Shape(u)
  BY <1>1, <1>2, EmptyIsSeq DEF Shape
<1>4. QED
  BY <1>1, <1>2, <1>3 DEF Closed, IsOpen, u

\* However a stream is ended, nothing of its RPC is left.
LEMMA StopIsClosed ==
    ASSUME NEW v, Shape(v), ~IsOpen(v) => Closed(v), NEW needed
    PROVE  Shape(Stop(v, needed)) /\ Closed(Stop(v, needed))
<1>1. CASE ~IsStarted(v)
  BY <1>1 DEF Stop, IsStarted, IsOpen
<1>2. CASE IsStarted(v)
  <2> DEFINE u == TornDown(v, "Initial")
             a == Assert_(u, ~(needed /\ v.listens # {}))
  <2>1. Shape(u) /\ Closed(u)
    BY TornDownIsClosed
  <2>2. Stop(v, needed) = UpdateState(a, "Unknown")
    BY <1>2 DEF Stop
  <2> HIDE DEF u
  <2>3. Alike(u, a)
    BY <2>1, AlikeSteps
  <2> HIDE DEF a
  <2>4. Alike(a, UpdateState(a, "Unknown"))
    BY <2>3, AlikeSteps DEF Alike
  <2>5. QED
    BY <2>1, <2>2, <2>3, <2>4 DEF Alike, Closed, IsOpen
<1>3. QED
  BY <1>1, <1>2

LEMMA BreakIsClosed ==
    ASSUME NEW v, Shape(v)
    PROVE  Shape(Break(v)) /\ Closed(Break(v))
<1> DEFINE u == TornDown(v, "Error")
           f == HandleWatchStreamFailure(u)
<1>1. Shape(u) /\ Closed(u)
  BY TornDownIsClosed
<1>2. Break(v) = IF u.listens # {} THEN StartWatchStream(f) ELSE UpdateState(u, "Unknown")
  BY DEF Break
<1> HIDE DEF u
<1>3. Alike(u, f) /\ Alike(u, UpdateState(u, "Unknown"))
  BY <1>1, AlikeSteps, AlikeTracker
<1> HIDE DEF f
<1>4. Shape(StartWatchStream(f)) /\ Closed(StartWatchStream(f))
  BY <1>1, <1>3, StartIsClosed DEF Alike, Closed, IsOpen
<1>5. Shape(UpdateState(u, "Unknown")) /\ Closed(UpdateState(u, "Unknown"))
  BY <1>1, <1>3 DEF Alike, Closed, IsOpen
<1>6. QED
  BY <1>2, <1>4, <1>5

LEMMA CredentialChangeIsClosed ==
    ASSUME NEW v, Shape(v), ~IsOpen(v) => Closed(v)
    PROVE  Shape(HandleCredentialChange(v)) /\ Closed(HandleCredentialChange(v))
<1> DEFINE p == Stop(v, FALSE)
           q == [p EXCEPT !.states = <<>>, !.updates = <<>>]
           d == UpdateState(q, "Unknown")
<1>1. Shape(p) /\ Closed(p)
  BY StopIsClosed
<1>2. HandleCredentialChange(v) = IF ShouldStartWatchStream(d) THEN StartWatchStream(d)
                                  ELSE UpdateState(d, "Unknown")
  BY DEF HandleCredentialChange
<1> HIDE DEF p
<1>3. /\ DOMAIN q = Fields /\ q.listens = p.listens /\ q.outgoing = <<>> /\ q.states = <<>>
      /\ q.state = p.state
  BY <1>1 DEF Shape, Fields, Closed
<1> HIDE DEF q
<1>4. DOMAIN q.states = {}
  BY <1>3
<1>5. Shape(q) /\ Closed(q)
  BY <1>1, <1>3, <1>4, EmptyIsSeq DEF Shape, Closed, IsOpen
<1>6. Alike(q, d)
  BY <1>5, AlikeSteps
<1> HIDE DEF d
<1>7. Shape(d) /\ Closed(d)
  BY <1>5, <1>6 DEF Alike, Closed, IsOpen
<1>8. Shape(StartWatchStream(d)) /\ Closed(StartWatchStream(d))
  BY <1>7, StartIsClosed DEF Closed
<1>9. Shape(UpdateState(d, "Unknown")) /\ Closed(UpdateState(d, "Unknown"))
  BY <1>7, AlikeSteps DEF Alike, Closed, IsOpen
<1>10. QED
  BY <1>2, <1>8, <1>9

(***************************************************************************)
(* Requests and what they are counted as.                                  *)
(***************************************************************************)

\* From u to v requests may have been sent, all of them counted; nothing was
\* sent without a stream.
Sends(u, v) ==
    /\ Shape(v)
    /\ ~IsOpen(u) => Closed(v)
    /\ IsOpen(u) =>
         /\ IsOpen(v)
         /\ \A t : Outstanding(v, t) - Asked(v.outgoing, t) = Outstanding(u, t) - Asked(u.outgoing, t)

LEMMA AlikeSends ==
    ASSUME NEW u, ~IsOpen(u) => Closed(u), NEW v, Alike(u, v)
    PROVE  Sends(u, v)
  BY DEF Alike, Sends, Closed, IsOpen, Outstanding, TargetState

LEMMA CountsAlikeSends ==
    ASSUME NEW u, IsOpen(u), NEW v, CountsAlike(u, v)
    PROVE  Sends(u, v)
  BY DEF CountsAlike, Sends, IsOpen

LEMMA SendSends ==
    ASSUME NEW v, Shape(v), IsOpen(v), NEW r
    PROVE  Sends(v, Send(v, r)) /\ Send(v, r).listens = v.listens
<1>1. ASSUME NEW t
      PROVE  LET u == Send(v, r)
             IN  /\ Shape(u) /\ u.state = v.state /\ u.listens = v.listens
                 /\ Outstanding(u, t) - Asked(u.outgoing, t) = Outstanding(v, t) - Asked(v.outgoing, t)
  BY SendCounts
<1>2. QED
  BY <1>1 DEF Sends, IsOpen

LEMMA SendsTransitive ==
    ASSUME NEW u, NEW v, NEW x, Alike(u, v), Sends(v, x)
    PROVE  Sends(u, x)
  BY DEF Alike, Sends, IsOpen, Outstanding, TargetState

LEMMA ListenSends ==
    ASSUME NEW u, Shape(u), ~IsOpen(u) => Closed(u), NEW t, NEW from
    PROVE  Sends(u, Listen(u, t, from))
<1> DEFINE a == [u EXCEPT !.listens = @ \cup {t}]
<1>1. CASE t \in u.listens
  BY <1>1, AlikeSends DEF Listen, Alike
<1>2. CASE t \notin u.listens
  <2>1. Alike(u, a)
    <3>1. IsFiniteSet(u.listens \cup {t})
      BY FS_AddElement DEF Shape
    <3>2. QED
      BY <3>1 DEF Alike, Shape, Fields
  <2>2. Listen(u, t, from) = IF ShouldStartWatchStream(a) THEN StartWatchStream(a)
                             ELSE IF IsOpen(u) THEN Send(a, WatchRequest(t, from))
                             ELSE a
    BY <1>2 DEF Listen
  <2> HIDE DEF a
  <2>3. CASE ShouldStartWatchStream(a)
    <3>1. ~IsOpen(a) /\ a.outgoing = <<>> /\ ~IsOpen(u)
      BY <2>1, <2>3 DEF ShouldStartWatchStream, IsStarted, IsOpen, Alike, Closed
    <3>2. Shape(StartWatchStream(a)) /\ Closed(StartWatchStream(a))
      BY <2>1, <3>1, StartIsClosed DEF Alike
    <3>3. QED
      BY <2>2, <2>3, <3>1, <3>2 DEF Sends
  <2>4. CASE ~ShouldStartWatchStream(a) /\ IsOpen(u)
    <3>1. Sends(a, Send(a, WatchRequest(t, from)))
      BY <2>1, <2>4, SendSends DEF Alike, IsOpen
    <3>2. QED
      BY <2>1, <2>2, <2>4, <3>1, SendsTransitive
  <2>5. CASE ~ShouldStartWatchStream(a) /\ ~IsOpen(u)
    BY <2>1, <2>2, <2>5, AlikeSends
  <2>6. QED
    BY <2>3, <2>4, <2>5
<1>3. QED
  BY <1>1, <1>2

LEMMA StopListeningSends ==
    ASSUME NEW u, Shape(u), ~IsOpen(u) => Closed(u), NEW t
    PROVE  Sends(u, StopListening(u, t))
<1> DEFINE a == Assert_(u, t \in u.listens)
           r == [a EXCEPT !.listens = @ \ {t}]
           d == IF IsOpen(u) THEN Send(r, UnwatchRequest(t)) ELSE r
<1>1. Alike(u, a)
  BY AlikeSteps
<1>2. StopListening(u, t) = IF d.listens # {} THEN d
                            ELSE IF IsOpen(u) THEN [d EXCEPT !.idle = TRUE]
                            ELSE UpdateState(d, "Unknown")
  BY DEF StopListening
<1> HIDE DEF a
<1>3. Alike(u, r)
  <2>1. IsFiniteSet(a.listens \ {t})
    BY <1>1, FS_RemoveElement DEF Alike, Shape
  <2>2. QED
    BY <1>1, <2>1 DEF Alike, Shape, Fields
<1> HIDE DEF r
<1>4. Sends(u, d)
  <2>1. CASE IsOpen(u)
    <3>1. Sends(r, Send(r, UnwatchRequest(t)))
      BY <1>3, <2>1, SendSends DEF Alike, IsOpen
    <3>2. QED
      BY <1>3, <2>1, <3>1, SendsTransitive
  <2>2. CASE ~IsOpen(u)
    BY <1>3, <2>2, AlikeSends
  <2>3. QED
    BY <2>1, <2>2
<1> HIDE DEF d
<1>5. CASE d.listens # {}
  BY <1>2, <1>4, <1>5
<1>6. CASE d.listens = {} /\ IsOpen(u)
  <2> DEFINE e == [d EXCEPT !.idle = TRUE]
  <2>1. Alike(d, e)
    BY <1>4 DEF Sends, Alike, Shape, Fields
  <2>2. StopListening(u, t) = e
    BY <1>2, <1>6
  <2> HIDE DEF e
  <2>3. QED
    BY <1>4, <1>6, <2>1, <2>2 DEF Sends, Alike, IsOpen, Outstanding, TargetState
<1>7. CASE d.listens = {} /\ ~IsOpen(u)
  <2>1. Alike(d, UpdateState(d, "Unknown"))
    BY <1>4, AlikeSteps DEF Sends
  <2>2. StopListening(u, t) = UpdateState(d, "Unknown")
    BY <1>2, <1>7
  <2>3. QED
    BY <1>4, <1>7, <2>1, <2>2 DEF Sends, Alike, Closed, IsOpen
<1>8. QED
  BY <1>5, <1>6, <1>7

\* When the stream opens each target is asked for once.
LEMMA OpenCounts ==
    ASSUME NEW u, Shape(u), Closed(u), NEW order \in SetToSeqs(u.listens), NEW from
    PROVE  LET v == OnWatchStreamOpen(u, order, from)
           IN  /\ Shape(v) /\ IsOpen(v)
               /\ \A t : Outstanding(v, t) = Asked(v.outgoing, t)
<1> DEFINE v == OnWatchStreamOpen(u, order, from)
           n == Cardinality(u.listens)
           sent == [i \in 1..n |-> WatchRequest(order[i], from[order[i]])]
<1>1. n \in Nat
  BY FS_CardinalityType DEF Shape
<1>2. order \in [1..n -> u.listens] /\ \A i, j \in 1..n : i # j => order[i] # order[j]
  BY DEF SetToSeqs
<1>3. DOMAIN order = 1..n /\ ToSet(order) = {order[i] : i \in 1..n}
  BY <1>2 DEF ToSet
<1> HIDE DEF n
<1>4. /\ sent \in Seq({sent[i] : i \in 1..n}) /\ Len(sent) = n
      /\ \A i \in 1..n : sent[i].target = order[i]
  BY <1>1 DEF WatchRequest
<1>5. /\ DOMAIN v = Fields /\ v.state = "Open" /\ v.listens = u.listens
      /\ v.outgoing = u.outgoing \o [i \in DOMAIN order |-> WatchRequest(order[i], from[order[i]])]
      /\ v.states = [t \in DOMAIN u.states \cup ToSet(order) |->
                       IF t \in ToSet(order)
                       THEN [TargetState(u, t) EXCEPT !.outstanding = @ + 1] ELSE u.states[t]]
  BY DEF OnWatchStreamOpen, Shape, Fields
<1>6. v.outgoing = sent
  <2>1. v.outgoing = <<>> \o sent
    BY <1>3, <1>5 DEF Closed
  <2> HIDE DEF sent
  <2>2. QED
    BY <1>4, <2>1
<1> HIDE DEF v, sent
<1>7. /\ DOMAIN v.states = ToSet(order)
      /\ \A t \in ToSet(order) : v.states[t] = [NoChanges EXCEPT !.outstanding = @ + 1]
  BY <1>5 DEF Closed, TargetState
<1>8. \A t \in ToSet(order) : IsTargetState(v.states[t]) /\ v.states[t].outstanding = 1
  BY <1>7, NoChangesCountsNothing DEF IsTargetState
<1>9. Shape(v)
  <2>1. IsSeq(v.outgoing)
    BY <1>4, <1>6, SeqIsSeq
  <2>2. QED
    BY <1>5, <1>7, <1>8, <2>1 DEF Shape
<1>10. ASSUME NEW t PROVE Outstanding(v, t) = Asked(v.outgoing, t)
  <2> DEFINE J == {i \in 1..Len(v.outgoing) : v.outgoing[i].target = t}
  <2>1. J = {i \in 1..n : order[i] = t}
    BY <1>4, <1>6
  <2> HIDE DEF J
  <2>2. CASE t \in ToSet(order)
    <3>1. PICK i \in 1..n : order[i] = t
      BY <1>3, <2>2
    <3>2. J = {i}
      BY <1>2, <2>1, <3>1
    <3>3. Cardinality(J) = 1
      BY <3>2, FS_Singleton
    <3>4. Outstanding(v, t) = 1
      BY <1>7, <1>8, <2>2 DEF Outstanding, TargetState
    <3>5. QED
      BY <3>3, <3>4 DEF Asked, J
  <2>3. CASE t \notin ToSet(order)
    <3>1. J = {}
      BY <1>3, <2>1, <2>3
    <3>2. Cardinality(J) = 0
      BY <3>1, FS_EmptySet
    <3>3. Outstanding(v, t) = 0
      BY <1>7, <2>3, NoChangesCountsNothing DEF Outstanding, TargetState
    <3>4. QED
      BY <3>2, <3>3 DEF Asked, J
  <2>4. QED
    BY <2>2, <2>3
<1>11. QED
  BY <1>5, <1>9, <1>10 DEF IsOpen, v

(***************************************************************************)
(* The aggregator.                                                         *)
(***************************************************************************)

\* What is left of v after an answer to a request for t.
Answered(u, v, t) ==
    /\ Shape(v) /\ v.state = u.state /\ v.outgoing = u.outgoing
    /\ Outstanding(v, t) = Outstanding(u, t) - 1
    /\ \A x : x # t => Outstanding(v, x) = Outstanding(u, x)

LEMMA RemovedStates ==
    ASSUME NEW v, Shape(v), NEW t
    PROVE  LET u == [v EXCEPT !.states = Restrict(@, DOMAIN @ \ {t})]
           IN  /\ Shape(u) /\ u.state = v.state /\ u.outgoing = v.outgoing
               /\ Outstanding(u, t) = 0
               /\ \A x : x # t => Outstanding(u, x) = Outstanding(v, x)
<1> DEFINE u == [v EXCEPT !.states = Restrict(@, DOMAIN @ \ {t})]
<1>1. /\ DOMAIN u = Fields /\ u.state = v.state /\ u.outgoing = v.outgoing
      /\ u.listens = v.listens /\ u.states = Restrict(v.states, DOMAIN v.states \ {t})
  BY DEF Shape, Fields
<1> HIDE DEF u
<1>2. /\ DOMAIN u.states = DOMAIN v.states \ {t}
      /\ \A x \in DOMAIN u.states : u.states[x] = v.states[x]
  BY <1>1 DEF Restrict
<1>3. Shape(u)
  BY <1>1, <1>2 DEF Shape
<1>4. Outstanding(u, t) = 0
  BY <1>2, NoChangesCountsNothing DEF Outstanding, TargetState
<1>5. \A x : x # t => Outstanding(u, x) = Outstanding(v, x)
  BY <1>2 DEF Outstanding, TargetState
<1>6. QED
  BY <1>1, <1>3, <1>4, <1>5 DEF u

LEMMA HandleRemovedAnswers ==
    ASSUME NEW v, Shape(v), NEW t
    PROVE  Answered(v, HandleRemoved(v, t), t)
<1> DEFINE left == TargetState(v, t).outstanding - 1
           s == [TargetState(v, t) EXCEPT !.outstanding = left]
<1>1. IsTargetState(TargetState(v, t)) /\ left = Outstanding(v, t) - 1 /\ left \in Int
  BY TargetStateShape DEF Outstanding
<1>2. IsTargetState(s) /\ s.outstanding = left
  BY <1>1 DEF IsTargetState
<1>3. HandleRemoved(v, t) = IF left # 0 THEN SetTargetState(v, t, s)
                            ELSE [v EXCEPT !.states = Restrict(@, DOMAIN @ \ {t})]
  BY DEF HandleRemoved
<1> HIDE DEF s, left
<1>4. CASE left # 0
  BY <1>1, <1>2, <1>3, <1>4, SettingATargetState DEF Answered
<1>5. CASE left = 0
  <2> DEFINE u == [v EXCEPT !.states = Restrict(@, DOMAIN @ \ {t})]
  <2>1. /\ Shape(u) /\ u.state = v.state /\ u.outgoing = v.outgoing
        /\ Outstanding(u, t) = 0
        /\ \A x : x # t => Outstanding(u, x) = Outstanding(v, x)
    BY RemovedStates
  <2>2. HandleRemoved(v, t) = u
    BY <1>3, <1>5
  <2> HIDE DEF u
  <2>3. QED
    BY <1>1, <1>5, <2>1, <2>2 DEF Answered
<1>6. QED
  BY <1>4, <1>5

LEMMA HandleAddedAnswers ==
    ASSUME NEW v, Shape(v), NEW t
    PROVE  Answered(v, HandleAdded(v, t), t)
<1> DEFINE left == TargetState(v, t).outstanding - 1
           c == [TargetState(v, t) EXCEPT !.outstanding = left]
           s == IF left # 0 THEN c ELSE [c EXCEPT !.pending = FALSE, !.change = "none"]
<1>1. IsTargetState(TargetState(v, t)) /\ left = Outstanding(v, t) - 1 /\ left \in Int
  BY TargetStateShape DEF Outstanding
<1>2. IsTargetState(s) /\ s.outstanding = left
  BY <1>1 DEF IsTargetState
<1>3. HandleAdded(v, t) = SetTargetState(v, t, s)
  BY DEF HandleAdded
<1> HIDE DEF s, left
<1>4. QED
  BY <1>1, <1>2, <1>3, SettingATargetState DEF Answered

\* A target state set to one that counts the same.
LEMMA SetAlike ==
    ASSUME NEW v, Shape(v), NEW t, NEW s, IsTargetState(s), s.outstanding = Outstanding(v, t)
    PROVE  CountsAlike(v, SetTargetState(v, t, s))
  BY SettingATargetState DEF CountsAlike

LEMMA HandleCurrentAlike ==
    ASSUME NEW v, Shape(v), NEW t
    PROVE  CountsAlike(v, HandleCurrent(v, t))
<1> DEFINE s == TargetState(v, t)
           p == [s EXCEPT !.pending = TRUE, !.current = TRUE]
<1>1. /\ IsTargetState(s) /\ s.outstanding = Outstanding(v, t)
      /\ IsTargetState(p) /\ p.outstanding = Outstanding(v, t)
  BY TargetStateShape DEF IsTargetState, Outstanding
<1>2. HandleCurrent(v, t) = IF IsActiveTarget(v, t) THEN SetTargetState(v, t, p)
                            ELSE SetTargetState(v, t, s)
  BY DEF HandleCurrent
<1> HIDE DEF s, p
<1>3. QED
  BY <1>1, <1>2, SetAlike

LEMMA HandleDocumentChangeAlike ==
    ASSUME NEW v, Shape(v), NEW t, NEW content, NEW known
    PROVE  CountsAlike(v, HandleDocumentChange(v, t, content, known))
<1> DEFINE change == IF content.exists
                     THEN IF t \in known THEN "modified" ELSE "added"
                     ELSE IF t \in known THEN "removed" ELSE "none"
           p == [TargetState(v, t) EXCEPT !.pending = TRUE, !.change = change]
           a == SetTargetState(v, t, p)
           u == [a EXCEPT !.updates = Put(@, t, content)]
<1>1. IsTargetState(p) /\ p.outstanding = Outstanding(v, t)
  BY TargetStateShape DEF IsTargetState, Outstanding
<1>2. HandleDocumentChange(v, t, content, known) = IF ~IsActiveTarget(v, t) THEN v ELSE u
  BY DEF HandleDocumentChange, AddDocumentChange
<1> HIDE DEF p
<1>3. CountsAlike(v, a)
  BY <1>1, SetAlike
<1> HIDE DEF a
<1>4. CountsAlike(v, u)
  BY <1>3 DEF CountsAlike, Shape, Fields, Outstanding, TargetState
<1> HIDE DEF u
<1>5. CountsAlike(v, v)
  BY DEF CountsAlike
<1>6. QED
  BY <1>2, <1>4, <1>5

\* Target states each replaced by one that counts the same.
LEMMA MappedAlike ==
    ASSUME NEW v, Shape(v), NEW u, DOMAIN u = Fields,
           u.listens = v.listens, u.state = v.state, u.outgoing = v.outgoing,
           DOMAIN u.states = DOMAIN v.states,
           \A t \in DOMAIN v.states :
              IsTargetState(u.states[t]) /\ u.states[t].outstanding = v.states[t].outstanding
    PROVE  CountsAlike(v, u) /\ u.listens = v.listens
<1>1. Shape(u)
  BY DEF Shape
<1>2. QED
  BY <1>1 DEF CountsAlike, Outstanding, TargetState

LEMMA HandleNoChangeAlike ==
    ASSUME NEW v, Shape(v), NEW version
    PROVE  CountsAlike(v, HandleNoChange(v, version))
<1> DEFINE u == HandleNoChange(v, version)
<1>1. /\ DOMAIN u = Fields /\ u.listens = v.listens /\ u.state = v.state
      /\ u.outgoing = v.outgoing
      /\ u.states = [t \in DOMAIN v.states |->
                       IF IsActiveTarget(v, t)
                       THEN [v.states[t] EXCEPT !.pending = TRUE, !.token = version]
                       ELSE v.states[t]]
  BY DEF HandleNoChange, Shape, Fields
<1> HIDE DEF u
<1>2. \A t \in DOMAIN v.states :
        IsTargetState(u.states[t]) /\ u.states[t].outstanding = v.states[t].outstanding
  BY <1>1 DEF Shape, IsTargetState
<1>3. QED
  BY <1>1, <1>2, MappedAlike DEF u

LEMMA AfterRemoteEventAlike ==
    ASSUME NEW v, Shape(v), NEW version, NEW known
    PROVE  CountsAlike(v, AfterRemoteEvent(v, version, known))
<1> DEFINE s == Synthesized(v, version, known)
           u == AfterRemoteEvent(v, version, known)
           M == {t \in Active(v) : /\ v.states[t].current /\ t \in DocumentQueries
                                   /\ t \notin DOMAIN v.updates /\ t \notin known}
<1>1. /\ DOMAIN s = Fields /\ s.listens = v.listens /\ s.state = v.state
      /\ s.outgoing = v.outgoing
      /\ s.states = [t \in DOMAIN v.states |->
                       IF t \in M THEN [v.states[t] EXCEPT !.pending = TRUE, !.change = "none"]
                       ELSE v.states[t]]
  BY DEF Synthesized, Shape, Fields
<1> HIDE DEF M, s
<1>2. \A t \in DOMAIN v.states :
        IsTargetState(s.states[t]) /\ s.states[t].outstanding = v.states[t].outstanding
  BY <1>1 DEF Shape, IsTargetState
<1>3. CountsAlike(v, s)
  BY <1>1, <1>2, MappedAlike
<1>4. /\ DOMAIN u = Fields /\ u.listens = s.listens /\ u.state = s.state
      /\ u.outgoing = s.outgoing
      /\ u.states = [t \in DOMAIN s.states |->
                       IF t \in Active(s)
                       THEN [s.states[t] EXCEPT !.pending = FALSE, !.change = "none"]
                       ELSE s.states[t]]
  BY <1>1 DEF AfterRemoteEvent, Fields, s
<1> HIDE DEF u
<1>5. \A t \in DOMAIN s.states :
        IsTargetState(u.states[t]) /\ u.states[t].outstanding = s.states[t].outstanding
  BY <1>3, <1>4 DEF CountsAlike, Shape, IsTargetState
<1>6. CountsAlike(s, u)
  BY <1>3, <1>4, <1>5, MappedAlike DEF CountsAlike
<1>7. QED
  BY <1>3, <1>6 DEF CountsAlike, u

LEMMA RemoveTargetCounts ==
    ASSUME NEW v, Shape(v), NEW t
    PROVE  LET u == RemoveTarget(v, t)
           IN  /\ Shape(u) /\ u.state = v.state /\ u.outgoing = v.outgoing
               /\ \A x : x # t => Outstanding(u, x) = Outstanding(v, x)
<1> DEFINE p == [v EXCEPT !.states = Restrict(@, DOMAIN @ \ {t})]
           u == RemoveTarget(v, t)
<1>1. /\ Shape(p) /\ p.state = v.state /\ p.outgoing = v.outgoing
      /\ \A x : x # t => Outstanding(p, x) = Outstanding(v, x)
  BY RemovedStates
<1>2. /\ DOMAIN u = Fields /\ u.state = p.state /\ u.outgoing = p.outgoing
      /\ u.listens = v.listens \ {t} /\ u.states = p.states
  BY DEF RemoveTarget, Shape, Fields
<1> HIDE DEF p, u
<1>3. IsFiniteSet(u.listens)
  BY <1>2, FS_RemoveElement DEF Shape
<1>4. Shape(u)
  BY <1>1, <1>2, <1>3 DEF Shape
<1>5. QED
  BY <1>1, <1>2, <1>4 DEF Outstanding, TargetState, u

(***************************************************************************)
(* The invariant.  OutstandingResponsesMatch is not inductive alone: the   *)
(* numbers are right when a stream opens because nothing is left of the    *)
(* one before, and a refusal, which takes a target's number away, must be  *)
(* of a target that is denied.                                             *)
(***************************************************************************)

RefusedAreDenied ==
    \A i \in 1..Len(answers) : answers[i].op = "refused" => answers[i].target \in denied

Inv ==
    /\ Shape(w) /\ IsSeq(answers)
    /\ ~IsOpen(w) => Closed(w) /\ answers = <<>> /\ serving = {}
    /\ RefusedAreDenied
    /\ OutstandingResponsesMatch

LEMMA MatchMeans ==
    OutstandingResponsesMatch <=>
      \A t \in Targets \ denied :
        IsOpen(w) => Outstanding(w, t) = Asked(w.outgoing, t) + Due(answers, t)
  BY DEF OutstandingResponsesMatch, Unanswered, Outstanding, Asked, Due

LEMMA AskedIsNat ==
    ASSUME NEW v, Shape(v), NEW t
    PROVE  Asked(v.outgoing, t) \in Nat /\ Outstanding(v, t) \in Int
  BY AskedAppended, TargetStateShape DEF Shape

LEMMA DueIsNat ==
    ASSUME NEW s, IsSeq(s), NEW t
    PROVE  Due(s, t) \in Nat
  BY DueAppended

\* Requests sent are counted.
LEMMA SendsKeepsInv ==
    ASSUME Inv, Sends(w, w'), UNCHANGED <<serving, answers, denied>>
    PROVE  Inv'
<1>1. Shape(w)' /\ IsSeq(answers)' /\ RefusedAreDenied'
  BY DEF Inv, Sends, RefusedAreDenied
<1>2. (~IsOpen(w) => Closed(w) /\ answers = <<>> /\ serving = {})'
  BY DEF Inv, Sends
<1>3. ASSUME NEW t \in Targets \ denied, IsOpen(w')
      PROVE  Outstanding(w', t) = Asked(w'.outgoing, t) + Due(answers, t)
  <2>1. IsOpen(w)
    BY <1>3 DEF Sends, Closed
  <2>2. Outstanding(w, t) = Asked(w.outgoing, t) + Due(answers, t)
    BY <2>1, MatchMeans DEF Inv
  <2>3. Outstanding(w', t) - Asked(w'.outgoing, t) = Outstanding(w, t) - Asked(w.outgoing, t)
    BY <2>1 DEF Sends
  <2>4. /\ Asked(w.outgoing, t) \in Nat /\ Outstanding(w, t) \in Int
        /\ Asked(w'.outgoing, t) \in Nat /\ Outstanding(w', t) \in Int
        /\ Due(answers, t) \in Nat
    BY <1>1, AskedIsNat, DueIsNat DEF Inv
  <2>5. QED
    BY <2>2, <2>3, <2>4
<1>4. OutstandingResponsesMatch'
  BY <1>3 DEF OutstandingResponsesMatch, Unanswered, Outstanding, Asked, Due
<1>5. QED
  BY <1>1, <1>2, <1>4 DEF Inv

\* With a stream's end everything that is counted ends.
LEMMA EndKeepsInv ==
    ASSUME Shape(w'), Closed(w'), Abandon
    PROVE  Inv'
<1>1. IsSeq(answers') /\ Len(answers') = 0 /\ answers' = <<>> /\ serving' = {}
  BY EmptyIsSeq DEF Abandon
<1>2. RefusedAreDenied'
  BY <1>1 DEF RefusedAreDenied
<1>3. OutstandingResponsesMatch'
  BY DEF OutstandingResponsesMatch, Closed
<1>4. QED
  BY <1>1, <1>2, <1>3 DEF Inv

\* A message that is no answer to a request, at the end of the answers.
Uncounted(m) == m.op \notin {"added", "removed"}

LEMMA AppendedAnswers ==
    ASSUME NEW a, IsSeq(a), NEW m, NEW D,
           \A i \in 1..Len(a) : a[i].op = "refused" => a[i].target \in D,
           m.op = "refused" => m.target \in D
    PROVE  /\ IsSeq(Append(a, m))
           /\ \A i \in 1..Len(Append(a, m)) :
                Append(a, m)[i].op = "refused" => Append(a, m)[i].target \in D
           /\ \A t : /\ Uncounted(m) => Due(Append(a, m), t) = Due(a, t)
                     /\ Due(Append(a, m), t) = Due(a, t) + (IF Counts(m, t) THEN 1 ELSE 0)
                     /\ Due(a, t) \in Nat
<1>1. /\ IsSeq(Append(a, m)) /\ Len(a) \in Nat /\ Len(Append(a, m)) = Len(a) + 1
      /\ Append(a, m)[Len(a) + 1] = m
      /\ \A i \in 1..Len(a) : Append(a, m)[i] = a[i]
  BY Appended
<1>2. \A i \in 1..(Len(a) + 1) : i \in 1..Len(a) \/ i = Len(a) + 1
  BY <1>1
<1>3. ASSUME NEW t
      PROVE  /\ Uncounted(m) => Due(Append(a, m), t) = Due(a, t)
             /\ Due(Append(a, m), t) = Due(a, t) + (IF Counts(m, t) THEN 1 ELSE 0)
             /\ Due(a, t) \in Nat
  BY DueAppended DEF Uncounted, Counts
<1>4. QED
  BY <1>1, <1>2, <1>3

\* The server takes a request, and answers it at once; whether what it sends
\* besides is a document, CURRENT or a snapshot is not counted.
LEMMA ServeKeepsInv ==
    ASSUME Inv, Serve
    PROVE  Inv'
<1> DEFINE r == Head(w.outgoing)
           t == r.target
<1>1. /\ IsOpen(w) /\ w.outgoing # <<>> /\ w' = [w EXCEPT !.outgoing = Tail(@)]
      /\ denied' = denied
  BY DEF Serve, Takes
<1>2. Shape(w) /\ IsSeq(answers) /\ RefusedAreDenied /\ IsSeq(w.outgoing)
  BY DEF Inv, Shape
<1>3. /\ DOMAIN w' = Fields /\ w'.outgoing = Tail(w.outgoing) /\ w'.listens = w.listens
      /\ w'.state = w.state /\ w'.states = w.states
  BY <1>1, <1>2 DEF Shape, Fields
<1>4. IsSeq(Tail(w.outgoing))
  BY <1>1, <1>2, Tailed
<1>5. Shape(w') /\ IsOpen(w')
  BY <1>1, <1>2, <1>3, <1>4 DEF Shape, IsOpen
<1>6. ASSUME NEW x \in Targets \ denied
      PROVE  /\ Outstanding(w', x) = Asked(w'.outgoing, x) + (IF t = x THEN 1 ELSE 0) + Due(answers, x)
             /\ Asked(w'.outgoing, x) \in Nat /\ Due(answers, x) \in Nat
  <2>1. Outstanding(w', x) = Outstanding(w, x)
    BY <1>3 DEF Outstanding, TargetState
  <2>2. Outstanding(w, x) = Asked(w.outgoing, x) + Due(answers, x)
    BY <1>1, MatchMeans DEF Inv
  <2>3. /\ Asked(w.outgoing, x) = Asked(w'.outgoing, x) + (IF t = x THEN 1 ELSE 0)
        /\ Asked(w'.outgoing, x) \in Nat
    BY <1>1, <1>2, <1>3, AskedTailed
  <2>4. Due(answers, x) \in Nat
    BY <1>2, DueIsNat
  <2>5. QED
    BY <2>1, <2>2, <2>3, <2>4
<1> DEFINE Good(a) == /\ IsSeq(a)
                      /\ \A i \in 1..Len(a) : a[i].op = "refused" => a[i].target \in denied
<1>7. Good(answers)
  BY <1>2 DEF RefusedAreDenied
<1>8. ASSUME NEW m, m.target = t, m.op \in {"added", "removed"}
      PROVE  /\ Good(Append(answers, m))
             /\ \A x : Due(Append(answers, m), x) = Due(answers, x) + (IF t = x THEN 1 ELSE 0)
  <2>1. \A x : Counts(m, x) <=> t = x
    BY <1>8 DEF Counts
  <2>2. QED
    BY <1>7, <1>8, <2>1, AppendedAnswers
<1>9. SUFFICES /\ Good(answers')
               /\ \A x \in Targets \ denied : Due(answers', x) = Due(answers, x) + (IF t = x THEN 1 ELSE 0)
  <2>1. ASSUME Good(answers'),
               \A x \in Targets \ denied : Due(answers', x) = Due(answers, x) + (IF t = x THEN 1 ELSE 0)
        PROVE  Inv'
    <3>1. ASSUME NEW x \in Targets \ denied
          PROVE  Outstanding(w', x) = Asked(w'.outgoing, x) + Due(answers', x)
      BY <1>6, <2>1
    <3>2. OutstandingResponsesMatch'
      BY <1>1, <3>1 DEF OutstandingResponsesMatch, Unanswered, Outstanding, Asked, Due
    <3>3. RefusedAreDenied'
      BY <1>1, <2>1 DEF RefusedAreDenied
    <3>4. QED
      BY <1>5, <2>1, <3>2, <3>3 DEF Inv
  <2>2. QED
    BY <2>1
<1>10. \/ answers' = Append(answers, [op |-> "removed", target |-> t])
       \/ /\ t \in denied
          /\ answers' = Append(answers, [op |-> "refused", target |-> t])
       \/ answers' = answers \o <<[op |-> "added", target |-> t]>>
                       \o <<Document(t)>> \o <<[op |-> "current", target |-> t], Snapshot>>
       \/ answers' = answers \o <<[op |-> "added", target |-> t]>>
                       \o <<>> \o <<[op |-> "current", target |-> t], Snapshot>>
  BY DEF Serve
<1> HIDE DEF t, r, Good
<1>11. CASE answers' = Append(answers, [op |-> "removed", target |-> t])
  BY <1>8, <1>11
<1>12. CASE /\ t \in denied
            /\ answers' = Append(answers, [op |-> "refused", target |-> t])
  <2> DEFINE m == [op |-> "refused", target |-> t]
  <2>1. m.op = "refused" /\ m.target = t /\ Uncounted(m)
    BY DEF Uncounted
  <2> HIDE DEF m
  <2>2. Good(Append(answers, m)) /\ \A x : Due(Append(answers, m), x) = Due(answers, x) /\ Due(answers, x) \in Nat
    BY <1>7, <1>12, <2>1, AppendedAnswers DEF Good
  <2>3. QED
    BY <1>12, <2>2 DEF m
<1>13. ASSUME NEW a, Good(a), NEW m, Uncounted(m), m.op # "refused"
       PROVE  Good(Append(a, m)) /\ \A x : Due(Append(a, m), x) = Due(a, x)
  BY <1>13, AppendedAnswers DEF Good
<1> DEFINE added == [op |-> "added", target |-> t]
           now   == [op |-> "current", target |-> t]
           first == Append(answers, added)
<1>14. added.op = "added" /\ added.target = t
  OBVIOUS
<1>15. Uncounted(now) /\ now.op # "refused"
  BY DEF Uncounted
<1>16. Uncounted(Snapshot) /\ Snapshot.op # "refused"
  BY DEF Uncounted, Snapshot
<1>17. Uncounted(Document(t)) /\ Document(t).op # "refused"
  BY DEF Uncounted, Document
<1>18. ASSUME NEW a, IsSeq(a), NEW m, NEW p, NEW q
       PROVE  /\ a \o <<m>> = Append(a, m)
              /\ a \o <<m>> \o <<>> \o <<p, q>> = Append(Append(Append(a, m), p), q)
  <2> DEFINE S == {a[i] : i \in 1..Len(a)} \cup {m, p, q}
  <2>1. a \in Seq(S) /\ m \in S /\ p \in S /\ q \in S
    BY <1>18 DEF IsSeq
  <2> HIDE DEF S
  <2>2. a \o <<m>> = Append(a, m) /\ Append(a, m) \in Seq(S)
    BY <2>1
  <2>3. Append(a, m) \o <<>> = Append(a, m)
    BY <2>2
  <2> DEFINE b == Append(a, m)
  <2>4. b \in Seq(S)
    BY <2>2
  <2> HIDE DEF b
  <2>5. b \o <<p, q>> = Append(Append(b, p), q)
    BY <2>1, <2>4
  <2>6. QED
    BY <2>2, <2>3, <2>5 DEF b
<1> HIDE DEF added, now
<1>19. Good(first) /\ \A x : Due(first, x) = Due(answers, x) + (IF t = x THEN 1 ELSE 0)
  BY <1>8, <1>14
<1> HIDE DEF first
<1>20. CASE answers' = answers \o <<added>> \o <<>> \o <<now, Snapshot>>
  <2>1. answers' = Append(Append(first, now), Snapshot)
    BY <1>2, <1>18, <1>20 DEF first
  <2>2. Good(Append(first, now)) /\ \A x : Due(Append(first, now), x) = Due(first, x)
    BY <1>13, <1>15, <1>19
  <2>3. Good(answers') /\ \A x : Due(answers', x) = Due(Append(first, now), x)
    BY <1>13, <1>16, <2>1, <2>2
  <2>4. QED
    BY <1>19, <2>2, <2>3
<1>21. CASE answers' = answers \o <<added>> \o <<Document(t)>> \o <<now, Snapshot>>
  <2> DEFINE second == Append(first, Document(t))
  <2>1. Good(second) /\ \A x : Due(second, x) = Due(first, x)
    BY <1>13, <1>17, <1>19
  <2>2. answers' = Append(Append(second, now), Snapshot)
    <3>1. answers \o <<added>> = first
      BY <1>2, <1>18 DEF first
    <3>2. IsSeq(first) /\ IsSeq(second)
      BY <1>19, <2>1 DEF Good
    <3>3. first \o <<Document(t)>> = second
      BY <1>18, <3>2
    <3> HIDE DEF second
    <3>4. second \o <<now, Snapshot>> = Append(Append(second, now), Snapshot)
      <4> DEFINE S == {second[i] : i \in 1..Len(second)} \cup {now, Snapshot}
      <4>1. second \in Seq(S) /\ now \in S /\ Snapshot \in S
        BY <3>2 DEF IsSeq
      <4> HIDE DEF S
      <4>2. QED
        BY <4>1
    <3>5. QED
      BY <1>21, <3>1, <3>3, <3>4
  <2> HIDE DEF second
  <2>3. Good(Append(second, now)) /\ \A x : Due(Append(second, now), x) = Due(second, x)
    BY <1>13, <1>15, <2>1
  <2>4. Good(answers') /\ \A x : Due(answers', x) = Due(Append(second, now), x)
    BY <1>13, <1>16, <2>2, <2>3
  <2>5. QED
    BY <1>19, <2>1, <2>3, <2>4
<1>22. QED
  BY <1>10, <1>11, <1>12, <1>20, <1>21 DEF added, now

\* A document changes: whoever watches it is told, which is not counted.
LEMMA ChangeKeepsInv ==
    ASSUME Inv, NEW t \in Targets, Change(t)
    PROVE  Inv'
<1>1. /\ w' = w /\ denied' = denied /\ serving' = serving
      /\ answers' = IF t \in serving THEN answers \o <<Document(t), Snapshot>> ELSE answers
  BY DEF Change, clientVars
<1>2. Sends(w, w')
  BY <1>1, AlikeSends DEF Inv, Alike
<1>3. CASE t \notin serving
  BY <1>1, <1>2, <1>3, SendsKeepsInv
<1>4. CASE t \in serving
  <2> DEFINE first == Append(answers, Document(t))
             D     == denied
  <2>1. IsOpen(w)
    BY <1>4 DEF Inv
  <2>2. /\ Uncounted(Document(t)) /\ Document(t).op # "refused"
        /\ Uncounted(Snapshot) /\ Snapshot.op # "refused"
    BY DEF Uncounted, Document, Snapshot
  <2>3. answers' = Append(first, Snapshot)
    <3> DEFINE S == {answers[i] : i \in 1..Len(answers)} \cup {Document(t), Snapshot}
    <3>1. answers \in Seq(S) /\ Document(t) \in S /\ Snapshot \in S
      BY DEF Inv, IsSeq
    <3> HIDE DEF S
    <3>2. answers \o <<Document(t), Snapshot>> = Append(first, Snapshot)
      BY <3>1
    <3>3. QED
      BY <1>1, <1>4, <3>2
  <2>4. /\ IsSeq(first)
        /\ \A i \in 1..Len(first) : first[i].op = "refused" => first[i].target \in D
        /\ \A x : Due(first, x) = Due(answers, x)
    BY <2>2, AppendedAnswers DEF Inv, RefusedAreDenied
  <2> HIDE DEF first, D
  <2>5. /\ IsSeq(answers')
        /\ \A i \in 1..Len(answers') : answers'[i].op = "refused" => answers'[i].target \in D
        /\ \A x : Due(answers', x) = Due(first, x)
    BY <2>2, <2>3, <2>4, AppendedAnswers, ZenonT(60)
  <2>6. OutstandingResponsesMatch'
    <3>1. ASSUME NEW x \in Targets \ denied
          PROVE  Outstanding(w, x) = Asked(w.outgoing, x) + Due(answers', x)
      BY <2>1, <2>4, <2>5, MatchMeans DEF Inv
    <3>2. QED
      BY <1>1, <3>1 DEF OutstandingResponsesMatch, Unanswered, Outstanding, Asked, Due
  <2>7. QED
    BY <1>1, <2>1, <2>5, <2>6 DEF Inv, RefusedAreDenied, D
<1>5. QED
  BY <1>3, <1>4

\* The first answer is read: of one to a request, one less is counted; of a
\* refusal the target, which is denied, is no longer counted; of anything else
\* nothing is.
LEMMA ReadAnswerKeepsInv ==
    ASSUME Inv, ReadAnswer
    PROVE  Inv'
<1> DEFINE m == Head(answers)
           v == UpdateState(w, "Online")
<1>1. answers # <<>> /\ answers' = Tail(answers) /\ denied' = denied /\ serving' = serving
  BY DEF ReadAnswer, worldVars
<1>2. Shape(w) /\ IsSeq(answers) /\ RefusedAreDenied /\ IsOpen(w)
  BY <1>1 DEF Inv
<1>3. \/ /\ m.op \in {"added", "removed", "current", "document"}
         /\ w' = CASE m.op = "added"    -> HandleAdded(v, m.target)
                   [] m.op = "removed"  -> HandleRemoved(v, m.target)
                   [] m.op = "current"  -> HandleCurrent(v, m.target)
                   [] m.op = "document" -> HandleDocumentChange(v, m.target, m.content, keys)
      \/ m.op = "snapshot" /\ \E e : RaiseWatchSnapshot(v, e, m.version)
      \/ /\ m.op = "refused"
         /\ w' = v \/ \E e : RejectListen(v, e, m.target)
  BY DEF ReadAnswer
<1>4. Alike(w, v)
  BY <1>2, AlikeSteps
<1> HIDE DEF m, v
<1>5. /\ Shape(v) /\ IsOpen(v) /\ v.outgoing = w.outgoing
      /\ \A x : Outstanding(v, x) = Outstanding(w, x)
  BY <1>2, <1>4 DEF Alike, IsOpen, Outstanding, TargetState
<1>6. /\ IsSeq(answers') /\ Len(answers) \in Nat
      /\ Len(answers') = Len(answers) - 1 /\ m = answers[1] /\ 1 \in 1..Len(answers)
      /\ \A i \in 1..Len(answers') : i + 1 \in 1..Len(answers) /\ answers'[i] = answers[i + 1]
  BY <1>1, <1>2, Tailed DEF m
<1>7. RefusedAreDenied'
  BY <1>1, <1>2, <1>6 DEF RefusedAreDenied
<1>8. ASSUME NEW x
      PROVE  /\ Due(answers, x) = Due(answers', x) + (IF Counts(m, x) THEN 1 ELSE 0)
             /\ Due(answers', x) \in Nat
             /\ Outstanding(v, x) \in Int
             /\ Asked(w.outgoing, x) \in Nat
  BY <1>1, <1>2, <1>5, DueTailed, AskedIsNat, TargetStateShape DEF m
<1>9. ASSUME NEW x \in Targets \ denied
      PROVE  Outstanding(v, x) = Asked(w.outgoing, x) + Due(answers, x)
  BY <1>2, <1>5, MatchMeans DEF Inv
<1>10. SUFFICES /\ Shape(w') /\ w'.state = v.state /\ w'.outgoing = v.outgoing
                /\ \A x \in Targets \ denied :
                     Outstanding(w', x) = Outstanding(v, x) - (IF Counts(m, x) THEN 1 ELSE 0)
  <2>1. ASSUME Shape(w'), w'.state = v.state, w'.outgoing = v.outgoing,
               \A x \in Targets \ denied :
                 Outstanding(w', x) = Outstanding(v, x) - (IF Counts(m, x) THEN 1 ELSE 0)
        PROVE  Inv'
    <3>1. ASSUME NEW x \in Targets \ denied
          PROVE  Outstanding(w', x) = Asked(w'.outgoing, x) + Due(answers', x)
      BY <1>5, <1>8, <1>9, <2>1
    <3>2. OutstandingResponsesMatch'
      BY <1>1, <3>1 DEF OutstandingResponsesMatch, Unanswered, Outstanding, Asked, Due
    <3>3. IsOpen(w')
      BY <1>5, <2>1 DEF IsOpen
    <3>4. QED
      BY <1>6, <1>7, <2>1, <3>2, <3>3 DEF Inv
  <2>2. QED
    BY <2>1
<1>11. ASSUME CountsAlike(v, w'), Uncounted(m)
       PROVE  /\ Shape(w') /\ w'.state = v.state /\ w'.outgoing = v.outgoing
              /\ \A x \in Targets \ denied :
                   Outstanding(w', x) = Outstanding(v, x) - (IF Counts(m, x) THEN 1 ELSE 0)
  BY <1>8, <1>11 DEF CountsAlike, Uncounted, Counts
<1>12. ASSUME Answered(v, w', m.target), m.op \in {"added", "removed"}
       PROVE  /\ Shape(w') /\ w'.state = v.state /\ w'.outgoing = v.outgoing
              /\ \A x \in Targets \ denied :
                   Outstanding(w', x) = Outstanding(v, x) - (IF Counts(m, x) THEN 1 ELSE 0)
  <2>1. ASSUME NEW x
        PROVE  Outstanding(w', x) = Outstanding(v, x) - (IF Counts(m, x) THEN 1 ELSE 0)
    <3>1. CASE x = m.target
      BY <1>12, <3>1 DEF Answered, Counts
    <3>2. CASE x # m.target
      BY <1>8, <1>12, <3>2 DEF Answered, Counts
    <3>3. QED
      BY <3>1, <3>2
  <2>2. QED
    BY <1>12, <2>1 DEF Answered
<1>13. CASE m.op = "added"
  <2>1. w' = HandleAdded(v, m.target)
    BY <1>3, <1>13
  <2>2. QED
    BY <1>5, <1>12, <1>13, <2>1, HandleAddedAnswers
<1>14. CASE m.op = "removed"
  <2>1. w' = HandleRemoved(v, m.target)
    BY <1>3, <1>14
  <2>2. QED
    BY <1>5, <1>12, <1>14, <2>1, HandleRemovedAnswers
<1>15. CASE m.op = "current"
  <2>1. w' = HandleCurrent(v, m.target)
    BY <1>3, <1>15
  <2>2. Uncounted(m)
    BY <1>15 DEF Uncounted
  <2>3. QED
    BY <1>5, <1>11, <2>1, <2>2, HandleCurrentAlike
<1>16. CASE m.op = "document"
  <2>1. w' = HandleDocumentChange(v, m.target, m.content, keys)
    BY <1>3, <1>16
  <2>2. Uncounted(m)
    BY <1>16 DEF Uncounted
  <2>3. QED
    BY <1>5, <1>11, <2>1, <2>2, HandleDocumentChangeAlike
<1>17. CASE m.op = "snapshot"
  <2>1. PICK e : RaiseWatchSnapshot(v, e, m.version)
    BY <1>3, <1>17
  <2> DEFINE u == HandleNoChange(v, m.version)
             z == AfterRemoteEvent(u, m.version, keys)
  <2>2. \E b : w' = Assert_(z, b)
    BY <2>1 DEF RaiseWatchSnapshot
  <2>3. CountsAlike(v, u)
    BY <1>5, HandleNoChangeAlike
  <2> HIDE DEF u
  <2>4. CountsAlike(u, z)
    BY <2>3, AfterRemoteEventAlike DEF CountsAlike
  <2> HIDE DEF z
  <2>5. Alike(z, w')
    BY <2>2, <2>4, AlikeSteps DEF CountsAlike
  <2>6. CountsAlike(v, w')
    BY <2>3, <2>4, <2>5 DEF CountsAlike, Alike, Outstanding, TargetState
  <2>7. Uncounted(m)
    BY <1>17 DEF Uncounted
  <2>8. QED
    BY <1>11, <2>6, <2>7
<1>18. CASE m.op = "refused"
  <2>1. m.target \in denied
    BY <1>2, <1>6, <1>18 DEF RefusedAreDenied
  <2>2. Uncounted(m)
    BY <1>18 DEF Uncounted
  <2>3. CASE w' = v
    BY <1>5, <1>11, <2>2, <2>3 DEF CountsAlike
  <2>4. CASE \E e : RejectListen(v, e, m.target)
    <3>1. w' = RemoveTarget(v, m.target)
      BY <2>4 DEF RejectListen
    <3>2. /\ Shape(w') /\ w'.state = v.state /\ w'.outgoing = v.outgoing
          /\ \A x : x # m.target => Outstanding(w', x) = Outstanding(v, x)
      BY <1>5, <3>1, RemoveTargetCounts
    <3>3. ASSUME NEW x \in Targets \ denied
          PROVE  Outstanding(w', x) = Outstanding(v, x) - (IF Counts(m, x) THEN 1 ELSE 0)
      BY <1>8, <2>1, <2>2, <3>2 DEF Uncounted, Counts
    <3>4. QED
      BY <3>2, <3>3
  <2>5. QED
    BY <1>3, <1>18, <2>3, <2>4
<1>19. QED
  BY <1>3, <1>13, <1>14, <1>15, <1>16, <1>17, <1>18

LEMMA StreamEndsKeepsInv ==
    ASSUME Inv, StreamEnds
    PROVE  Inv'
<1>1. w' = Break(w) /\ Abandon
  BY DEF StreamEnds, Ends
<1>2. Shape(w') /\ Closed(w')
  BY <1>1, BreakIsClosed DEF Inv
<1>3. QED
  BY <1>1, <1>2, EndKeepsInv

\* Every step keeps the invariant.
LEMMA NextKeepsInv ==
    ASSUME Inv, [Next]_vars
    PROVE  Inv'
<1>1. Shape(w) /\ (~IsOpen(w) => Closed(w))
  BY DEF Inv
<1>2. ASSUME Alike(w, w'), UNCHANGED <<serving, answers, denied>> PROVE Inv'
  BY <1>1, <1>2, AlikeSends, SendsKeepsInv
<1>3. CASE w' = w /\ UNCHANGED <<serving, answers, denied>>
  BY <1>1, <1>2, <1>3 DEF Alike
<1>4. CASE OpenTab
  BY <1>3, <1>4 DEF OpenTab, clientVars, streamVars, worldVars
<1>5. CASE RunEvent
  <2>1. UNCHANGED <<serving, answers, denied>> /\ (w' = w \/ \E b : w' = Assert_(w, b))
    BY <1>5 DEF RunEvent, streamVars, worldVars
  <2>2. QED
    BY <1>1, <1>2, <1>3, <2>1, AlikeSteps
<1>6. CASE TakeListen
  <2>1. /\ UNCHANGED <<serving, answers, denied>>
        /\ w' = w \/ \E t, from : w' = Listen(w, t, from)
    BY <1>6 DEF TakeListen, streamVars, worldVars
  <2>2. QED
    BY <1>1, <1>3, <2>1, ListenSends, SendsKeepsInv
<1>7. CASE TakeRemove
  <2>1. /\ UNCHANGED <<serving, answers, denied>>
        /\ w' = w \/ w' = StopListening(w, Profile)
    BY <1>7 DEF TakeRemove, streamVars, worldVars
  <2>2. QED
    BY <1>1, <1>3, <2>1, StopListeningSends, SendsKeepsInv
<1>8. CASE ReadAnswer
  BY <1>8, ReadAnswerKeepsInv
<1>9. CASE StreamOpens
  <2>1. PICK order \in SetToSeqs(w.listens) : w' = OnWatchStreamOpen(w, order, token)
    BY <1>9 DEF StreamOpens, Opens
  <2>2. w.state = "Starting" /\ UNCHANGED <<serving, answers, denied>>
    BY <1>9 DEF StreamOpens, Opens, streamVars, worldVars
  <2>3. Closed(w) /\ answers = <<>>
    BY <2>2 DEF Inv, IsOpen
  <2>4. Shape(w') /\ IsOpen(w') /\ \A t : Outstanding(w', t) = Asked(w'.outgoing, t)
    BY <1>1, <2>1, <2>3, OpenCounts
  <2>5. \A t : Due(answers', t) = 0 /\ Asked(w'.outgoing, t) \in Nat
    BY <2>2, <2>3, <2>4, EmptyCounts, AskedIsNat
  <2>6. OutstandingResponsesMatch'
    <3>1. \A t : Outstanding(w', t) = Asked(w'.outgoing, t) + Due(answers', t)
      BY <2>4, <2>5
    <3>2. QED
      BY <3>1 DEF OutstandingResponsesMatch, Unanswered, Outstanding, Asked, Due
  <2>7. QED
    BY <2>2, <2>4, <2>6 DEF Inv, RefusedAreDenied
<1>10. CASE BackoffElapses
  <2>1. w' = [w EXCEPT !.state = "Starting"] /\ w.state = "Backoff"
        /\ UNCHANGED <<serving, answers, denied>>
    BY <1>10 DEF BackoffElapses, Retries, streamVars, worldVars
  <2>2. /\ DOMAIN w' = Fields /\ w'.state = "Starting" /\ w'.outgoing = w.outgoing
        /\ w'.states = w.states /\ w'.listens = w.listens
    BY <1>1, <2>1 DEF Shape, Fields
  <2>3. Sends(w, w')
    BY <1>1, <2>1, <2>2 DEF Sends, Shape, Closed, IsOpen
  <2>4. QED
    BY <2>1, <2>3, SendsKeepsInv
<1>11. CASE RunOnlineTimer
  BY <1>1, <1>2, <1>11, AlikeTracker DEF RunOnlineTimer, streamVars, worldVars
<1>12. CASE RunIdleTimer
  <2>1. w' = Stop(w, TRUE) /\ Abandon
    BY <1>12 DEF RunIdleTimer
  <2>2. QED
    BY <1>1, <2>1, StopIsClosed, EndKeepsInv
<1>13. CASE Serve
  BY <1>13, ServeKeepsInv
<1>14. CASE StreamEnds
  BY <1>14, StreamEndsKeepsInv
<1>15. ASSUME NEW t \in Targets, Change(t) PROVE Inv'
  BY <1>15, ChangeKeepsInv
<1>16. CASE HandleCredential
  <2>1. w' = HandleCredentialChange(w) /\ Abandon
    BY <1>16 DEF HandleCredential
  <2>2. QED
    BY <1>1, <2>1, CredentialChangeIsClosed, EndKeepsInv
<1>17. CASE NetworkChanges
  <2>1. StreamEnds \/ (w' = w /\ UNCHANGED <<serving, answers, denied>>)
    BY <1>17 DEF NetworkChanges, clientVars, streamVars
  <2>2. QED
    BY <1>3, <1>14, <2>1
<1>18. CASE UNCHANGED vars
  BY <1>3, <1>18 DEF vars, clientVars, streamVars, worldVars
<1>19. QED
  BY <1>4, <1>5, <1>6, <1>7, <1>8, <1>9, <1>10, <1>11, <1>12, <1>13, <1>14, <1>15, <1>16,
     <1>17, <1>18 DEF Next, Task, NoNetwork, StreamBreaks

LEMMA InitInv ==
    ASSUME Init
    PROVE  Inv
<1>1. w = Nowhere /\ answers = <<>> /\ serving = {} /\ denied = {}
  BY DEF Init
<1>2. /\ DOMAIN w = Fields /\ w.state = "Initial" /\ w.outgoing = <<>> /\ w.states = <<>>
      /\ w.listens = {}
  BY <1>1 DEF Nowhere, Fields
<1>3. DOMAIN w.states = {} /\ IsFiniteSet(w.listens)
  BY <1>2, FS_EmptySet
<1>4. Shape(w) /\ Closed(w) /\ IsSeq(answers) /\ Len(answers) = 0
  BY <1>1, <1>2, <1>3, EmptyIsSeq DEF Shape, Closed, IsOpen
<1>5. QED
  BY <1>1, <1>4 DEF Inv, RefusedAreDenied, OutstandingResponsesMatch, Closed

(* The number of responses the aggregator waits for is, of every target    *)
(* that is not denied, the number of its requests that are not answered:   *)
(* whatever order listens, their ends, broken streams, changes of user and *)
(* messages come in, an answer meant for a listen that is over is known    *)
(* for one.                                                                *)
THEOREM ResponsesAreCounted == Spec => []OutstandingResponsesMatch
<1>1. Inv /\ [Next]_vars => Inv'
  BY NextKeepsInv
<1>2. Inv => OutstandingResponsesMatch
  BY DEF Inv
<1>3. QED
  BY InitInv, <1>1, <1>2, PTL DEF Spec

(***************************************************************************)
(* What the client misses of the server's documents: nothing.  Everything  *)
(* a target's token claims the client to have has come to it in the order  *)
(* the server sent it.  The parts of the invariant say what is on its way, *)
(* in which order, and what of it the client has already.                  *)
(***************************************************************************)

Places == 1..Len(answers)

IsDocument(m, t) == m.op = "document" /\ m.target = t
IsCurrent(m, t)  == m.op = "current" /\ m.target = t
IsSnapshot(m)    == m.op = "snapshot"

\* No answer to a request of t comes after place i of s.
Since(s, i, t) == \A k \in 1..Len(s) : k > i => ~Counts(s[k], t)

\* No request of t is on its way to the server.
Silent(t) == \A i \in 1..Len(w.outgoing) : w.outgoing[i].target # t

\* The server serves what the client wants of t, and they agree.
Settled(t) == t \in serving /\ t \in w.listens /\ Silent(t)

\* The client wants t, and every request of it has been answered.
InForce(t) == t \in w.listens /\ Silent(t) /\ Since(answers, 0, t)

\* c is or was the server's document of t.
Past(c, t) ==
    /\ c.at \in Nat /\ c.exists \in BOOLEAN
    /\ c.at <= server[t].at
    /\ c.at = server[t].at => c.exists = server[t].exists

Typed ==
    /\ \A t \in Targets : server[t].at \in Nat \ {0} /\ server[t].exists \in BOOLEAN
    /\ DOMAIN server = Targets /\ DOMAIN token = Targets /\ DOMAIN cache = Targets
    /\ w.listens \subseteq Targets /\ DOMAIN w.updates \subseteq Targets

Requests ==
    \A i \in 1..Len(w.outgoing) :
       /\ w.outgoing[i].op \in {"watch", "unwatch"} /\ w.outgoing[i].target \in Targets
       /\ w.outgoing[i].op = "watch" => w.outgoing[i].token = token[w.outgoing[i].target]

\* Of each target the version its token stands for has been the server's, and
\* a snapshot never goes back behind it.
Messages ==
    /\ \A t \in Targets : token[t] \in 0..LastVersion
    /\ \A i \in Places :
       \/ answers[i].op \in {"added", "removed", "current", "refused"} /\ answers[i].target \in Targets
       \/ /\ answers[i].op = "document" /\ answers[i].target \in Targets
          /\ Past(answers[i].content, answers[i].target)
       \/ /\ answers[i].op = "snapshot" /\ answers[i].version \in 1..LastVersion
          /\ \A t \in Targets : token[t] <= answers[i].version

\* All is denied or nothing is; denied, nothing is sent but refusals.
Denials ==
    /\ denied \in {{}, Targets}
    /\ denied # {} => /\ serving = {} /\ DOMAIN w.updates = {}
                      /\ \A i \in Places : answers[i].op \in {"refused", "removed"}
    /\ ~IsOpen(w) => DOMAIN w.updates = {}

\* The last request of a target asks for what the client wants; when none is on
\* its way the server serves it, and does not where it last said it does not.
Watched ==
    denied = {} /\ IsOpen(w) =>
      \A t \in Targets :
        /\ \A i \in 1..Len(w.outgoing) :
             /\ w.outgoing[i].target = t
             /\ \A k \in 1..Len(w.outgoing) : k > i => w.outgoing[k].target # t
             => (w.outgoing[i].op = "watch" <=> t \in w.listens)
        /\ Silent(t) => (t \in serving <=> t \in w.listens)
        /\ \A i \in Places : answers[i].op = "removed" /\ answers[i].target = t /\ Since(answers, i, t)
                             => t \notin serving

\* Documents come in the order of their versions, and snapshots and the token
\* claim what was sent before them and nothing that comes after.
InOrder ==
    /\ \A t \in Targets : \A i, j \in Places :
         i < j => /\ IsDocument(answers[i], t) /\ IsDocument(answers[j], t)
                     => answers[i].content.at <= answers[j].content.at
                  /\ IsDocument(answers[i], t) /\ IsSnapshot(answers[j])
                     => answers[i].content.at <= answers[j].version
                  /\ IsSnapshot(answers[i]) /\ IsDocument(answers[j], t) /\ Since(answers, i, t)
                     => answers[i].version < answers[j].content.at
    /\ \A i, j \in Places : i < j /\ IsSnapshot(answers[i]) /\ IsSnapshot(answers[j])
                     => answers[i].version <= answers[j].version
    /\ \A t \in Targets : \A i \in Places :
         IsDocument(answers[i], t) /\ Since(answers, i, t) => token[t] < answers[i].content.at

\* So do those the aggregator has.  The questions' are of a listen in force.
Updates ==
    \A t \in DOMAIN w.updates :
       /\ Past(w.updates[t], t) /\ token[t] < w.updates[t].at
       /\ \A i \in Places : /\ IsDocument(answers[i], t) => w.updates[t].at <= answers[i].content.at
                            /\ IsSnapshot(answers[i]) => w.updates[t].at <= answers[i].version
       /\ t = Questions => InForce(t)

\* Between a document and the next answer to a request there is a snapshot, so
\* that the aggregator has no document when it reads the answer.
Flushed ==
    /\ \A t, x \in Targets : \A i, j \in Places :
         i < j /\ IsDocument(answers[i], t) /\ Counts(answers[j], x)
         => \E k \in Places : i < k /\ k < j /\ IsSnapshot(answers[k])
    /\ \A t \in Targets : \A i \in Places :
         IsDocument(answers[i], t) => \E k \in Places : i < k /\ IsSnapshot(answers[k])
    /\ DOMAIN w.updates # {} =>
         /\ \E k \in Places : IsSnapshot(answers[k])
         /\ \A x \in Targets : \A j \in Places :
              Counts(answers[j], x) => \E k \in Places : k < j /\ IsSnapshot(answers[k])

ChangeFor(c, t) == IF c.exists THEN IF t \in keys THEN "modified" ELSE "added"
                   ELSE IF t \in keys THEN "removed" ELSE "none"

\* The aggregator's change of a target is that of the document it has of it.
Changes ==
    denied = {} =>
    \A t \in Targets : InForce(t) =>
       /\ t \in DOMAIN w.updates => t \in DOMAIN w.states /\ w.states[t].change = ChangeFor(w.updates[t], t)
       /\ t \notin DOMAIN w.updates /\ t \in DOMAIN w.states => w.states[t].change = "none"

\* Where the server's document of t is: on its way, with the aggregator, covered
\* by the token, or there is none and nothing to say of it.
Coming(t) == \E j \in Places : /\ Since(answers, j, t) /\ IsDocument(answers[j], t)
                               /\ answers[j].content.at = server[t].at
Pending(t) == /\ Since(answers, 0, t) /\ t \in DOMAIN w.states /\ t \in DOMAIN w.updates
              /\ w.updates[t].at = server[t].at
Covered(t) == token[t] >= server[t].at
Absent(t) ==
    /\ token[t] = 0 /\ ~server[t].exists
    /\ Since(answers, 0, t) => t \notin DOMAIN w.updates
    /\ \A i \in Places : Since(answers, i, t) =>
         /\ ~IsDocument(answers[i], t)
         /\ IsSnapshot(answers[i]) => answers[i].version >= server[t].at

Accounted == \A t \in Targets : Settled(t) => Coming(t) \/ Pending(t) \/ Covered(t) \/ Absent(t)

\* The server says CURRENT before its first snapshot.
SaidCurrent(t) ==
    \/ t \in DOMAIN w.states /\ w.states[t].current
    \/ \E j \in Places : /\ IsCurrent(answers[j], t) /\ Since(answers, j, t)
                         /\ \A i \in Places : i < j /\ IsSnapshot(answers[i]) => ~Since(answers, i, t)

CurrentFirst == \A t \in Targets : Settled(t) => SaidCurrent(t)

\* What is known, where the token covers the server's version: the keys and the
\* cache are the server's.  Of questions that are gone nothing need be known.
Knowledge ==
    /\ \A t \in Targets :
         /\ cache[t].at \in 0..LastVersion /\ cache[t].exists \in BOOLEAN
         /\ token[t] = 0 => t \notin keys
         /\ Covered(t) => (t \in keys <=> server[t].exists)
         /\ Covered(t) => \/ cache[t].at >= server[t].at
                          \/ t = Questions /\ ~cache[t].exists /\ ~server[t].exists
         /\ cache[t].at >= server[t].at => cache[t].exists = server[t].exists
    /\ token[Questions] = 0 => ~cache[Questions].exists

Truth ==
    /\ Inv
    /\ Typed /\ Requests /\ Messages /\ Denials /\ Watched /\ InOrder /\ Updates /\ Flushed
    /\ Changes /\ Accounted /\ CurrentFirst /\ Knowledge

LEMMA TruthTells ==
    ASSUME Typed, Knowledge
    PROVE  NothingIsMissed
  BY DEF Typed, Knowledge, NothingIsMissed, Covered

LEMMA Greatest ==
    ASSUME NEW s, \A t \in Targets : s[t].at \in Nat \ {0},
           NEW v, v = CHOOSE u \in {s[t].at : t \in Targets} : \A t \in Targets : s[t].at <= u
    PROVE  /\ v \in Nat \ {0}
           /\ \A t \in Targets : s[t].at <= v
           /\ \E t \in Targets : s[t].at = v
<1> DEFINE V == {s[t].at : t \in Targets}
<1>1. /\ s[Profile].at \in Nat \ {0} /\ s[Questions].at \in Nat \ {0}
      /\ V = {s[Profile].at, s[Questions].at}
  BY DEF Targets
<1>2. \E u \in V : \A t \in Targets : s[t].at <= u
  <2>1. CASE s[Profile].at <= s[Questions].at
    BY <1>1, <2>1 DEF Targets
  <2>2. CASE ~(s[Profile].at <= s[Questions].at)
    BY <1>1, <2>2 DEF Targets
  <2>3. QED
    BY <2>1, <2>2
<1>3. v \in V /\ \A t \in Targets : s[t].at <= v
  BY <1>2
<1>4. QED
  BY <1>1, <1>3

LEMMA LastVersionIsLast ==
    ASSUME Typed
    PROVE  /\ LastVersion \in Nat \ {0}
           /\ \A t \in Targets : server[t].at <= LastVersion
           /\ \E t \in Targets : server[t].at = LastVersion
  BY Greatest DEF Typed, LastVersion

LEMMA NextLastVersion ==
    ASSUME Typed'
    PROVE  /\ LastVersion' \in Nat \ {0}
           /\ \A t \in Targets : server'[t].at <= LastVersion'
           /\ \E t \in Targets : server'[t].at = LastVersion'
  BY Greatest DEF Typed, LastVersion

LEMMA SameLastVersion ==
    ASSUME server' = server
    PROVE  LastVersion' = LastVersion
  BY DEF LastVersion

(***************************************************************************)
(* Steps that leave the wire alone.                                        *)
(***************************************************************************)

worldParts == <<serving, answers, server, denied, token, cache, keys>>

\* Nothing of what the invariant is about changes.
LEMMA SameTruth ==
    ASSUME Truth, Inv', UNCHANGED worldParts,
           IsOpen(w') = IsOpen(w), w'.listens = w.listens, w'.outgoing = w.outgoing,
           w'.states = w.states, w'.updates = w.updates
    PROVE  Truth'
<1> USE DEF worldParts
<1>1. LastVersion' = LastVersion /\ Places' = Places
  BY SameLastVersion DEF Places
<1>2. \A t : (Silent(t)' <=> Silent(t)) /\ (Settled(t)' <=> Settled(t)) /\ (InForce(t)' <=> InForce(t))
  BY DEF Silent, Settled, InForce
<1>3. Typed'
  BY DEF Truth, Typed
<1>4. Requests'
  BY DEF Truth, Requests
<1>5. Messages'
  BY <1>1 DEF Truth, Messages, Past
<1>6. Denials'
  BY <1>1 DEF Truth, Denials
<1>7. Watched'
  BY <1>1, <1>2 DEF Truth, Watched
<1>8. InOrder'
  BY <1>1 DEF Truth, InOrder
<1>9. Updates'
  BY <1>1, <1>2 DEF Truth, Updates, Past
<1>10. Flushed'
  BY <1>1 DEF Truth, Flushed
<1>11. Changes'
  BY <1>2 DEF Truth, Changes, ChangeFor
<1>12. Accounted'
  BY <1>1, <1>2 DEF Truth, Accounted, Coming, Pending, Covered, Absent
<1>13. CurrentFirst'
  BY <1>1, <1>2 DEF Truth, CurrentFirst, SaidCurrent
<1>14. Knowledge'
  BY <1>1 DEF Truth, Knowledge, Covered
<1>15. QED
  BY <1>3, <1>4, <1>5, <1>6, <1>7, <1>8, <1>9, <1>10, <1>11, <1>12, <1>13, <1>14 DEF Truth

\* Nothing is on the wire: there is no stream, or it has just been opened and
\* what is listened to asked for.
LEMMA QuietTruth ==
    ASSUME Truth, Inv', UNCHANGED <<server, token, cache, keys>>,
           answers' = <<>>, serving' = {}, denied' \in {{}, Targets},
           w'.listens \subseteq Targets, DOMAIN w'.updates = {},
           \/ ~IsOpen(w')
           \/ /\ Requests'
              /\ \A i \in 1..Len(w'.outgoing) : w'.outgoing[i].op = "watch"
                                                /\ w'.outgoing[i].target \in w'.listens
              /\ \A t \in w'.listens : ~Silent(t)'
    PROVE  Truth'
<1>1. LastVersion' = LastVersion /\ Places' = {}
  BY SameLastVersion, EmptyIsSeq DEF Places
<1>2. \A t : ~Settled(t)'
  BY DEF Settled
<1>3. Typed'
  BY DEF Truth, Typed
<1>4. Requests'
  BY DEF Inv, Closed, Requests
<1>5. Messages'
  BY <1>1 DEF Truth, Messages
<1>6. Denials'
  BY <1>1 DEF Truth, Denials
<1>7. Watched'
  BY <1>1, <1>2 DEF Truth, Watched, Silent
<1>8. InOrder'
  BY <1>1 DEF Truth, InOrder
<1>9. Updates'
  BY <1>1 DEF Truth, Updates
<1>10. Flushed'
  BY <1>1 DEF Truth, Flushed
<1>11. Changes'
  <2>1. CASE ~IsOpen(w')
    <3>1. DOMAIN w'.states = {}
      BY <2>1 DEF Inv, Closed
    <3>2. QED
      BY <3>1 DEF Changes
  <2>2. CASE \A t \in w'.listens : ~Silent(t)'
    BY <2>2 DEF Changes, InForce
  <2>3. QED
    BY <2>1, <2>2
<1>12. Accounted'
  BY <1>2 DEF Accounted
<1>13. CurrentFirst'
  BY <1>2 DEF CurrentFirst
<1>14. Knowledge'
  BY <1>1 DEF Truth, Knowledge, Covered
<1>15. QED
  BY <1>3, <1>4, <1>5, <1>6, <1>7, <1>8, <1>9, <1>10, <1>11, <1>12, <1>13, <1>14 DEF Truth

\* A request of t is sent: nothing of t is settled or in force until it is
\* answered.
LEMMA SentTruth ==
    ASSUME Truth, Inv', UNCHANGED worldParts, IsOpen(w), IsOpen(w'),
           NEW t \in Targets, NEW r, r.target = t, r.op \in {"watch", "unwatch"},
           r.op = "watch" => r.token = token[t],
           r.op = "watch" <=> t \in w'.listens,
           \A x : x # t => (x \in w'.listens <=> x \in w.listens),
           t = Questions => t \notin w.listens,
           w'.outgoing = Append(w.outgoing, r), w'.updates = w.updates,
           DOMAIN w'.states = DOMAIN w.states \cup {t},
           \A x \in DOMAIN w.states : x # t => w'.states[x] = w.states[x]
    PROVE  Truth'
<1> USE DEF worldParts
<1> DEFINE n == Len(w.outgoing)
<1>1. LastVersion' = LastVersion /\ Places' = Places
  BY SameLastVersion DEF Places
<1>2. /\ n \in Nat /\ Len(w'.outgoing) = n + 1 /\ w'.outgoing[n + 1] = r
      /\ \A i \in 1..n : w'.outgoing[i] = w.outgoing[i]
  BY Appended DEF Truth, Inv, Shape
<1> HIDE DEF n
<1>3. ~Silent(t)' /\ \A x : x # t => (Silent(x)' <=> Silent(x))
  <2>1. n + 1 \in 1..Len(w'.outgoing) /\ \A i \in 1..Len(w'.outgoing) : i \in 1..n \/ i = n + 1
    BY <1>2
  <2>2. 1..n \subseteq 1..Len(w'.outgoing)
    BY <1>2
  <2>3. QED
    BY <1>2, <2>1, <2>2 DEF Silent, n
<1>4. ~Settled(t)' /\ \A x : x # t => (Settled(x)' <=> Settled(x))
  BY <1>3 DEF Settled
<1>5. ~InForce(t)' /\ \A x : x # t => (InForce(x)' <=> InForce(x))
  BY <1>3 DEF InForce
<1>6. Typed'
  BY DEF Truth, Typed
<1>7. Requests'
  <2>1. ASSUME NEW i \in 1..(n + 1)
        PROVE  /\ w'.outgoing[i].op \in {"watch", "unwatch"} /\ w'.outgoing[i].target \in Targets
               /\ w'.outgoing[i].op = "watch" => w'.outgoing[i].token = token[w'.outgoing[i].target]
    <3>1. CASE i = n + 1
      BY <1>2, <3>1
    <3>2. CASE i # n + 1
      <4>1. i \in 1..n
        BY <1>2, <3>2
      <4>2. QED
        BY <1>2, <4>1 DEF Truth, Requests, n
    <3>3. QED
      BY <3>1, <3>2
  <2>2. QED
    BY <1>2, <2>1 DEF Requests
<1>8. Messages'
  BY <1>1 DEF Truth, Messages, Past
<1>9. Denials'
  BY <1>1 DEF Truth, Denials
<1>10. Watched'
  <2> SUFFICES ASSUME denied = {}, NEW x \in Targets
               PROVE  /\ \A i \in 1..Len(w'.outgoing) :
                           /\ w'.outgoing[i].target = x
                           /\ \A k \in 1..Len(w'.outgoing) : k > i => w'.outgoing[k].target # x
                           => (w'.outgoing[i].op = "watch" <=> x \in w'.listens)
                      /\ Silent(x)' => (x \in serving <=> x \in w'.listens)
                      /\ \A i \in Places : /\ answers[i].op = "removed" /\ answers[i].target = x
                                           /\ Since(answers, i, x)
                                           => x \notin serving
    BY <1>1 DEF Watched
  <2>1. /\ \A i \in 1..n :
             /\ w.outgoing[i].target = x
             /\ \A k \in 1..n : k > i => w.outgoing[k].target # x
             => (w.outgoing[i].op = "watch" <=> x \in w.listens)
        /\ Silent(x) => (x \in serving <=> x \in w.listens)
        /\ \A i \in Places : answers[i].op = "removed" /\ answers[i].target = x /\ Since(answers, i, x)
                             => x \notin serving
    BY DEF Truth, Watched, n
  <2>2. Silent(x)' => (x \in serving <=> x \in w'.listens)
    BY <1>3, <2>1
  <2>3. ASSUME NEW i \in 1..(n + 1), w'.outgoing[i].target = x,
               \A k \in 1..(n + 1) : k > i => w'.outgoing[k].target # x
        PROVE  w'.outgoing[i].op = "watch" <=> x \in w'.listens
    <3>1. CASE i = n + 1
      BY <1>2, <2>3, <3>1
    <3>2. CASE i # n + 1
      <4>1. i \in 1..n /\ n + 1 \in 1..(n + 1) /\ n + 1 > i
        BY <1>2, <3>2
      <4>2. x # t
        BY <1>2, <2>3, <4>1
      <4>3. \A k \in 1..n : k \in 1..(n + 1) /\ w'.outgoing[k] = w.outgoing[k]
        BY <1>2
      <4>4. QED
        BY <2>1, <2>3, <4>1, <4>2, <4>3, ZenonT(60)
    <3>3. QED
      BY <3>1, <3>2
  <2>4. QED
    BY <1>2, <2>1, <2>2, <2>3
<1>11. InOrder'
  BY <1>1 DEF Truth, InOrder
<1>12. Updates'
  <2>1. Questions \in DOMAIN w.updates => Questions # t
    BY DEF Truth, Updates, InForce
  <2>2. QED
    BY <1>1, <1>5, <2>1 DEF Truth, Updates, Past
<1>13. Flushed'
  BY <1>1 DEF Truth, Flushed
<1>14. Changes'
  BY <1>5 DEF Truth, Changes, ChangeFor
<1>15. Accounted'
  BY <1>1, <1>4 DEF Truth, Accounted, Coming, Pending, Covered, Absent
<1>16. CurrentFirst'
  BY <1>1, <1>4 DEF Truth, CurrentFirst, SaidCurrent
<1>17. Knowledge'
  BY <1>1 DEF Truth, Knowledge, Covered
<1>18. QED
  BY <1>6, <1>7, <1>8, <1>9, <1>10, <1>11, <1>12, <1>13, <1>14, <1>15, <1>16, <1>17 DEF Truth

(***************************************************************************)
(* The server's steps.                                                     *)
(***************************************************************************)

\* Place i of the requests holds the last of x.
LastAsked(s, i, x) == s[i].target = x /\ \A k \in 1..Len(s) : k > i => s[k].target # x

\* The server takes a request.
LEMMA TakenRequest ==
    ASSUME Truth, Takes, token' = token,
           NEW r, r = Head(w.outgoing), NEW t, t = r.target
    PROVE  /\ IsOpen(w) /\ IsOpen(w') /\ w'.listens = w.listens /\ w'.states = w.states
           /\ w'.updates = w.updates
           /\ t \in Targets /\ r.op \in {"watch", "unwatch"}
           /\ r.op = "watch" => r.token = token[t]
           /\ Requests'
           /\ ~Silent(t) /\ \A x : x # t => (Silent(x)' <=> Silent(x))
           /\ denied = {} =>
                \A x \in Targets : \A i \in 1..Len(w'.outgoing) :
                  LastAsked(w'.outgoing, i, x) => (w'.outgoing[i].op = "watch" <=> x \in w.listens)
           /\ denied = {} /\ Silent(t)' => (r.op = "watch" <=> t \in w.listens)
<1> DEFINE n == Len(w.outgoing)
<1>1. IsOpen(w) /\ w.outgoing # <<>> /\ w' = [w EXCEPT !.outgoing = Tail(@)] /\ DOMAIN w = Fields
  BY DEF Takes, Truth, Inv, Shape
<1>2. /\ w'.outgoing = Tail(w.outgoing) /\ w'.listens = w.listens /\ w'.states = w.states
      /\ w'.updates = w.updates /\ IsOpen(w')
  BY <1>1 DEF Fields, IsOpen
<1>3. /\ n \in Nat \ {0} /\ Len(w'.outgoing) = n - 1 /\ r = w.outgoing[1]
      /\ \A i \in 1..(n - 1) : w'.outgoing[i] = w.outgoing[i + 1]
  BY <1>1, <1>2, Tailed DEF Truth, Inv, Shape
<1>4. /\ t \in Targets /\ r.op \in {"watch", "unwatch"}
      /\ r.op = "watch" => r.token = token[t]
  BY <1>3 DEF Truth, Requests
<1> HIDE DEF n
<1>5. \A i \in 1..(n - 1) : i + 1 \in 1..n
  BY <1>3
<1>6. \A i \in 1..n : i = 1 \/ (i - 1 \in 1..(n - 1) /\ w.outgoing[i] = w'.outgoing[i - 1])
  BY <1>3
<1>7. Requests'
  <2>1. \A i \in 1..n : /\ w.outgoing[i].op \in {"watch", "unwatch"} /\ w.outgoing[i].target \in Targets
                        /\ w.outgoing[i].op = "watch" => w.outgoing[i].token = token[w.outgoing[i].target]
    BY DEF Truth, Requests, n
  <2>2. ASSUME NEW i \in 1..Len(w'.outgoing)
        PROVE  /\ w'.outgoing[i].op \in {"watch", "unwatch"} /\ w'.outgoing[i].target \in Targets
               /\ w'.outgoing[i].op = "watch" => w'.outgoing[i].token = token[w'.outgoing[i].target]
    <3>1. i + 1 \in 1..n /\ w'.outgoing[i] = w.outgoing[i + 1]
      BY <1>3, <1>5
    <3>2. QED
      BY <2>1, <3>1
  <2>3. QED
    BY <2>2 DEF Requests
<1>8. ~Silent(t) /\ \A x : x # t => (Silent(x)' <=> Silent(x))
  <2>1. 1 \in 1..n /\ w.outgoing[1].target = r.target
    BY <1>3
  <2>2. ~Silent(t)
    BY <2>1 DEF Silent, n
  <2>3. ASSUME NEW x, x # t
        PROVE  Silent(x)' <=> Silent(x)
    <3>1. ASSUME Silent(x), NEW i \in 1..Len(w'.outgoing) PROVE w'.outgoing[i].target # x
      BY <1>3, <1>5, <3>1 DEF Silent, n
    <3>2. ASSUME Silent(x)', NEW i \in 1..n PROVE w.outgoing[i].target # x
      <4>1. CASE i = 1
        BY <2>1, <2>3, <4>1
      <4>2. CASE i # 1
        BY <1>3, <1>6, <3>2, <4>2 DEF Silent
      <4>3. QED
        BY <4>1, <4>2
    <3>3. QED
      BY <3>1, <3>2 DEF Silent, n
  <2>4. QED
    BY <2>2, <2>3
<1>9. ASSUME denied = {}, NEW x \in Targets, NEW i \in 1..Len(w'.outgoing), LastAsked(w'.outgoing, i, x)
      PROVE  w'.outgoing[i].op = "watch" <=> x \in w.listens
  <2>1. i \in 1..(n - 1) /\ i + 1 \in 1..n /\ w'.outgoing[i] = w.outgoing[i + 1]
    BY <1>3, <1>5
  <2>2. ASSUME NEW k \in 1..n, k > i + 1
        PROVE  w.outgoing[k].target # x
    <3>1. k - 1 \in 1..(n - 1) /\ w.outgoing[k] = w'.outgoing[k - 1] /\ k - 1 > i
      BY <1>3, <1>6, <2>1, <2>2
    <3>2. QED
      BY <1>3, <1>9, <3>1 DEF LastAsked
  <2>3. QED
    BY <1>1, <1>9, <2>1, <2>2 DEF LastAsked, Truth, Watched, n
<1>10. ASSUME denied = {}, Silent(t)'
       PROVE  r.op = "watch" <=> t \in w.listens
  <2>1. \A k \in 1..n : k > 1 => w.outgoing[k].target # t
    <3>1. ASSUME NEW k \in 1..n, k > 1
          PROVE  w.outgoing[k].target # t
      <4>1. k - 1 \in 1..Len(w'.outgoing) /\ w.outgoing[k] = w'.outgoing[k - 1]
        BY <1>3, <1>6, <3>1
      <4>2. QED
        BY <1>10, <4>1 DEF Silent
    <3>2. QED
      BY <3>1
  <2>2. 1 \in 1..n
    BY <1>3
  <2>3. QED
    BY <1>1, <1>3, <1>4, <1>10, <2>1, <2>2 DEF Truth, Watched, n
<1>11. QED
  BY <1>1, <1>2, <1>4, <1>7, <1>8, <1>9, <1>10

\* To who is denied everything nothing but refusals is sent, and nothing else is
\* true of it.
LEMMA DeniedTruth ==
    ASSUME Truth, Inv', UNCHANGED <<server, denied, token, cache, keys>>,
           denied # {}, serving' = {}, Requests',
           w'.listens \subseteq w.listens, w'.updates = w.updates,
           \A i \in 1..Len(answers') : answers'[i].op \in {"refused", "removed"}
                                       /\ answers'[i].target \in Targets
    PROVE  Truth'
<1>1. LastVersion' = LastVersion /\ denied \in {{}, Targets} /\ DOMAIN w'.updates = {}
  BY SameLastVersion DEF Truth, Denials
<1>2. \A i \in Places' : \A t : ~IsDocument(answers'[i], t) /\ ~IsSnapshot(answers'[i])
  BY DEF Places, IsDocument, IsSnapshot
<1>3. \A t : ~Settled(t)'
  BY DEF Settled
<1>4. Typed'
  BY DEF Truth, Typed
<1>5. Messages'
  BY <1>1 DEF Truth, Messages, Places
<1>6. Denials'
  BY <1>1 DEF Denials, Places
<1>7. Watched' /\ Changes'
  BY DEF Watched, Changes
<1>8. InOrder'
  BY <1>2 DEF InOrder
<1>9. Updates'
  BY <1>1 DEF Updates
<1>10. Flushed'
  BY <1>1, <1>2 DEF Flushed
<1>11. Accounted' /\ CurrentFirst'
  BY <1>3 DEF Accounted, CurrentFirst
<1>12. Knowledge'
  BY <1>1 DEF Truth, Knowledge, Covered
<1>13. QED
  BY <1>4, <1>5, <1>6, <1>7, <1>8, <1>9, <1>10, <1>11, <1>12 DEF Truth

\* A watch is served: the target is said to be added, its document sent unless
\* the token covers it, then CURRENT and a snapshot, where there were n answers.
AnswersWatch(t, n, z) ==
    /\ t = Head(w.outgoing).target /\ Head(w.outgoing).op = "watch"
    /\ serving' = serving \cup {t}
    /\ n = Len(answers) /\ n \in Nat /\ z = Len(answers') /\ z \in {n + 3, n + 4}
    /\ \A i \in 1..n : answers'[i] = answers[i]
    /\ answers'[n + 1] = [op |-> "added", target |-> t]
    /\ answers'[z - 1] = [op |-> "current", target |-> t]
    /\ answers'[z] = [op |-> "snapshot", version |-> LastVersion]
    /\ z = n + 4 => /\ answers'[n + 2] = [op |-> "document", target |-> t, content |-> server[t]]
                    /\ server[t].at > token[t]
    /\ z = n + 3 => server[t].at <= token[t] \/ (token[t] = 0 /\ ~server[t].exists)

LEMMA WatchServed ==
    ASSUME Truth, Inv', Takes, UNCHANGED <<server, denied, token, cache, keys>>, denied = {},
           NEW t, NEW n, NEW z, AnswersWatch(t, n, z)
    PROVE  Truth'
<1> USE DEF AnswersWatch
<1>1. /\ LastVersion' = LastVersion /\ LastVersion \in Nat \ {0}
      /\ \A x \in Targets : server[x].at <= LastVersion
  BY SameLastVersion, LastVersionIsLast DEF Truth
<1>2. /\ IsOpen(w) /\ IsOpen(w') /\ w'.listens = w.listens /\ w'.states = w.states
      /\ w'.updates = w.updates
      /\ t \in Targets /\ Requests'
      /\ ~Silent(t) /\ \A x : x # t => (Silent(x)' <=> Silent(x))
      /\ \A x \in Targets : \A i \in 1..Len(w'.outgoing) :
           LastAsked(w'.outgoing, i, x) => (w'.outgoing[i].op = "watch" <=> x \in w.listens)
      /\ Silent(t)' => t \in w.listens
  BY TakenRequest
<1>3. Places = 1..n /\ Places' = 1..z /\ 1..n \subseteq 1..z /\ n + 1 \in 1..z /\ z - 1 \in 1..z /\ z \in 1..z
  BY DEF Places
<1>4. \A i \in 1..z : \/ i \in 1..n \/ i = n + 1 \/ (z = n + 4 /\ i = n + 2)
                      \/ i = z - 1 \/ i = z
  OBVIOUS
<1>5. \A x : \A i \in 1..z :
        Counts(answers'[i], x) <=> (i \in 1..n /\ Counts(answers[i], x)) \/ (i = n + 1 /\ x = t)
  <2>1. \A x : \A i \in 1..n : Counts(answers'[i], x) <=> Counts(answers[i], x)
    OBVIOUS
  <2>2. \A x : Counts(answers'[n + 1], x) <=> x = t
    BY DEF Counts
  <2>3. \A x : ~Counts(answers'[z - 1], x) /\ ~Counts(answers'[z], x)
    BY DEF Counts
  <2>4. \A x : z = n + 4 => ~Counts(answers'[n + 2], x)
    BY DEF Counts
  <2>5. QED
    BY <1>4, <2>1, <2>2, <2>3, <2>4
<1>6. \A x : \A i \in 1..z :
        IsDocument(answers'[i], x) <=> (i \in 1..n /\ IsDocument(answers[i], x)) \/ (z = n + 4 /\ i = n + 2 /\ x = t)
  <2>1. \A x : \A i \in 1..n : IsDocument(answers'[i], x) <=> IsDocument(answers[i], x)
    OBVIOUS
  <2>2. \A x : z = n + 4 => (IsDocument(answers'[n + 2], x) <=> x = t)
    BY DEF IsDocument
  <2>3. \A x : /\ ~IsDocument(answers'[n + 1], x)
               /\ ~IsDocument(answers'[z - 1], x) /\ ~IsDocument(answers'[z], x)
    BY DEF IsDocument
  <2>4. QED
    BY <1>4, <2>1, <2>2, <2>3
<1>7. \A i \in 1..z :
        IsSnapshot(answers'[i]) <=> (i \in 1..n /\ IsSnapshot(answers[i])) \/ (i = z)
  <2>1. \A i \in 1..n : IsSnapshot(answers'[i]) <=> IsSnapshot(answers[i])
    OBVIOUS
  <2>2. /\ ~IsSnapshot(answers'[n + 1]) /\ ~IsSnapshot(answers'[z - 1]) /\ IsSnapshot(answers'[z])
        /\ z = n + 4 => ~IsSnapshot(answers'[n + 2])
    BY DEF IsSnapshot
  <2>3. QED
    BY <1>4, <2>1, <2>2
<1>8. /\ \A x : x # t => \A i \in 0..n : Since(answers', i, x) <=> Since(answers, i, x)
      /\ \A x : \A i \in 1..z : i > n => Since(answers', i, x)
      /\ \A i \in 0..n : ~Since(answers', i, t)
  <2>1. ASSUME NEW x, x # t, NEW i \in 0..n
        PROVE  Since(answers', i, x) <=> Since(answers, i, x)
    BY <1>3, <1>5, <2>1 DEF Since
  <2>2. ASSUME NEW x, NEW i \in 1..z, i > n PROVE Since(answers', i, x)
    <3>1. ASSUME NEW k \in 1..z, k > i PROVE ~Counts(answers'[k], x)
      <4>1. k \notin 1..n /\ k # n + 1
        BY <2>2, <3>1
      <4>2. QED
        BY <1>5, <4>1
    <3>2. QED
      BY <3>1 DEF Since
  <2>3. ASSUME NEW i \in 0..n PROVE ~Since(answers', i, t)
    <3>1. n + 1 > i /\ n + 1 \in 1..z
      OBVIOUS
    <3>2. Counts(answers'[n + 1], t)
      BY <1>5, <3>1
    <3>3. QED
      BY <3>1, <3>2 DEF Since
  <2>4. QED
    BY <2>1, <2>2, <2>3
<1>9. /\ \A i \in 1..n : answers'[i] = answers[i]
      /\ answers'[z].version = LastVersion
      /\ z = n + 4 => answers'[n + 2].content = server[t]
  OBVIOUS
<1>10. \A x : /\ x # t => (Settled(x)' <=> Settled(x)) /\ (InForce(x)' <=> InForce(x))
              /\ x = t => ~InForce(x)'
  BY <1>2, <1>8 DEF Settled, InForce
<1>11. Typed'
  BY <1>2 DEF Truth, Typed
<1>12. Messages'
  <2>1. \A x \in Targets : token[x] \in 0..LastVersion
    BY DEF Truth, Messages
  <2>2. ASSUME NEW i \in 1..z
        PROVE  \/ answers'[i].op \in {"added", "removed", "current", "refused"} /\ answers'[i].target \in Targets
               \/ /\ answers'[i].op = "document" /\ answers'[i].target \in Targets
                  /\ Past(answers'[i].content, answers'[i].target)
               \/ /\ answers'[i].op = "snapshot" /\ answers'[i].version \in 1..LastVersion
                  /\ \A x \in Targets : token[x] <= answers'[i].version
    <3>1. CASE i \in 1..n
      BY <1>3, <3>1 DEF Truth, Messages
    <3>2. CASE i = n + 1 \/ i = z - 1
      BY <1>2, <3>2
    <3>3. CASE i = z
      BY <1>1, <2>1, <3>3
    <3>4. CASE z = n + 4 /\ i = n + 2
      <4>1. answers'[i].op = "document" /\ answers'[i].target = t /\ answers'[i].content = server[t]
        BY <3>4
      <4>2. Past(server[t], t)
        BY <1>2 DEF Past, Truth, Typed
      <4>3. QED
        BY <1>2, <4>1, <4>2
    <3>5. QED
      BY <1>4, <3>1, <3>2, <3>3, <3>4
  <2>3. QED
    BY <1>1, <1>3, <2>1, <2>2 DEF Messages, Past
<1>13. Denials'
  BY <1>2 DEF Truth, Denials
<1>14. Watched'
  <2>1. ASSUME NEW x \in Targets, Silent(x)' PROVE x \in serving' <=> x \in w.listens
    <3>1. CASE x = t
      BY <1>2, <2>1, <3>1
    <3>2. CASE x # t
      BY <1>2, <2>1, <3>2 DEF Truth, Watched
    <3>3. QED
      BY <3>1, <3>2
  <2>2. ASSUME NEW x \in Targets, NEW i \in 1..z, answers'[i].op = "removed", answers'[i].target = x,
               Since(answers', i, x)
        PROVE  x \notin serving'
    <3>1. i \in 1..n /\ Counts(answers[i], x)
      <4>1. Counts(answers'[i], x)
        BY <2>2 DEF Counts
      <4>2. i # n + 1
        BY <2>2
      <4>3. QED
        BY <1>5, <4>1, <4>2
    <3>2. x # t
      BY <1>8, <2>2, <3>1
    <3>3. Since(answers, i, x) /\ answers[i].op = "removed" /\ answers[i].target = x
      BY <1>8, <2>2, <3>1, <3>2
    <3>4. x \notin serving
      BY <1>2, <1>3, <3>1, <3>3 DEF Truth, Watched
    <3>5. QED
      BY <3>2, <3>4
  <2>3. QED
    BY <1>2, <1>3, <2>1, <2>2 DEF Watched, LastAsked
<1>15. InOrder'
  <2>1. ASSUME NEW x \in Targets, NEW i \in 1..z, NEW j \in 1..z, i < j,
               IsDocument(answers'[i], x), IsDocument(answers'[j], x)
        PROVE  answers'[i].content.at <= answers'[j].content.at
    <3>1. i \in 1..n /\ IsDocument(answers[i], x) /\ answers'[i] = answers[i]
      <4>1. (i \in 1..n /\ IsDocument(answers[i], x)) \/ i = n + 2
        BY <1>6, <2>1
      <4>2. j \in 1..n \/ j = n + 2
        BY <1>6, <2>1
      <4>3. i \in 1..n
        BY <2>1, <4>1, <4>2
      <4>4. QED
        BY <1>9, <4>1, <4>3
    <3>2. CASE j \in 1..n
      BY <1>3, <1>6, <2>1, <3>1, <3>2 DEF Truth, InOrder
    <3>3. CASE z = n + 4 /\ j = n + 2 /\ x = t
      <4>1. Past(answers[i].content, t)
        BY <1>3, <3>1, <3>3 DEF Truth, Messages, IsDocument
      <4>2. QED
        BY <1>9, <3>1, <3>3, <4>1 DEF Past
    <3>4. QED
      BY <1>6, <2>1, <3>2, <3>3
  <2>2. ASSUME NEW x \in Targets, NEW i \in 1..z, NEW j \in 1..z, i < j,
               IsDocument(answers'[i], x), IsSnapshot(answers'[j])
        PROVE  answers'[i].content.at <= answers'[j].version
    <3>1. CASE j \in 1..n
      <4>1. i \in 1..n
        BY <2>2, <3>1
      <4>2. QED
        BY <1>3, <1>6, <1>7, <1>9, <2>2, <3>1, <4>1 DEF Truth, InOrder
    <3>2. CASE j = z
      <4>1. CASE i \in 1..n /\ IsDocument(answers[i], x)
        <5>1. Past(answers[i].content, x)
          BY <1>3, <4>1 DEF Truth, Messages, IsDocument
        <5>2. QED
          BY <1>1, <1>9, <3>2, <4>1, <5>1 DEF Past, Truth, Typed
      <4>2. CASE z = n + 4 /\ i = n + 2 /\ x = t
        BY <1>1, <1>9, <3>2, <4>2
      <4>3. QED
        BY <1>6, <2>2, <4>1, <4>2
    <3>3. QED
      BY <1>7, <2>2, <3>1, <3>2
  <2>3. ASSUME NEW x \in Targets, NEW i \in 1..z, NEW j \in 1..z, i < j,
               IsSnapshot(answers'[i]), IsDocument(answers'[j], x), Since(answers', i, x)
        PROVE  answers'[i].version < answers'[j].content.at
    <3>1. i \in 1..n /\ IsSnapshot(answers[i])
      BY <1>7, <2>3
    <3>2. x # t /\ Since(answers, i, x)
      BY <1>8, <2>3, <3>1
    <3>3. j \in 1..n /\ IsDocument(answers[j], x)
      BY <1>6, <2>3, <3>2
    <3>4. QED
      BY <1>3, <1>9, <2>3, <3>1, <3>2, <3>3 DEF Truth, InOrder
  <2>4. ASSUME NEW x \in Targets, NEW i \in 1..z, IsDocument(answers'[i], x), Since(answers', i, x)
        PROVE  token[x] < answers'[i].content.at
    <3>1. CASE i \in 1..n /\ IsDocument(answers[i], x)
      <4>1. x # t /\ Since(answers, i, x)
        BY <1>8, <2>4, <3>1
      <4>2. QED
        BY <1>3, <1>9, <3>1, <4>1 DEF Truth, InOrder
    <3>2. CASE z = n + 4 /\ i = n + 2 /\ x = t
      <4>1. token[t] \in Nat /\ server[t].at \in Nat
        BY <1>1, <1>2 DEF Truth, Typed, Messages
      <4>2. QED
        BY <1>9, <3>2, <4>1
    <3>3. QED
      BY <1>6, <2>4, <3>1, <3>2
  <2>5. ASSUME NEW i \in 1..z, NEW j \in 1..z, i < j, IsSnapshot(answers'[i]), IsSnapshot(answers'[j])
        PROVE  answers'[i].version <= answers'[j].version
    <3>1. i \in 1..n /\ IsSnapshot(answers[i]) /\ answers'[i] = answers[i]
      BY <1>7, <1>9, <2>5
    <3>2. CASE j \in 1..n
      BY <1>3, <1>7, <1>9, <2>5, <3>1, <3>2 DEF Truth, InOrder
    <3>3. CASE j = z
      <4>1. answers[i].version \in 1..LastVersion
        BY <1>3, <3>1 DEF Truth, Messages, IsSnapshot
      <4>2. QED
        BY <1>1, <1>9, <3>1, <3>3, <4>1
    <3>4. QED
      BY <1>7, <2>5, <3>2, <3>3
  <2>6. QED
    BY <1>3, <2>1, <2>2, <2>3, <2>4, <2>5 DEF InOrder
<1>16. Updates'
  <2> SUFFICES ASSUME NEW x \in DOMAIN w.updates
               PROVE  /\ Past(w.updates[x], x) /\ token[x] < w.updates[x].at
                      /\ \A i \in 1..z :
                           /\ IsDocument(answers'[i], x) => w.updates[x].at <= answers'[i].content.at
                           /\ IsSnapshot(answers'[i]) => w.updates[x].at <= answers'[i].version
                      /\ x = Questions => InForce(x)'
    BY <1>2, <1>3 DEF Updates, Past
  <2>1. /\ Past(w.updates[x], x) /\ token[x] < w.updates[x].at /\ x \in Targets
        /\ \A i \in 1..n : /\ IsDocument(answers[i], x) => w.updates[x].at <= answers[i].content.at
                           /\ IsSnapshot(answers[i]) => w.updates[x].at <= answers[i].version
        /\ x = Questions => InForce(x)
    BY <1>3 DEF Truth, Updates, Typed
  <2>2. x = Questions => InForce(x)'
    BY <1>2, <1>10, <2>1 DEF InForce
  <2>3. ASSUME NEW i \in 1..z, IsDocument(answers'[i], x) PROVE w.updates[x].at <= answers'[i].content.at
    <3>1. CASE i \in 1..n /\ IsDocument(answers[i], x)
      BY <2>1, <3>1
    <3>2. CASE z = n + 4 /\ i = n + 2 /\ x = t
      BY <1>9, <2>1, <3>2 DEF Past
    <3>3. QED
      BY <1>6, <2>3, <3>1, <3>2
  <2>4. ASSUME NEW i \in 1..z, IsSnapshot(answers'[i]) PROVE w.updates[x].at <= answers'[i].version
    <3>1. CASE i \in 1..n /\ IsSnapshot(answers[i])
      BY <2>1, <3>1
    <3>2. CASE i = z
      BY <1>1, <1>9, <2>1, <3>2 DEF Past, Truth, Typed
    <3>3. QED
      BY <1>7, <2>4, <3>1, <3>2
  <2>5. QED
    BY <2>1, <2>2, <2>3, <2>4
<1>17. Flushed'
  <2>1. ASSUME NEW y \in Targets, NEW x \in Targets, NEW i \in 1..z, NEW j \in 1..z, i < j,
               IsDocument(answers'[i], y), Counts(answers'[j], x)
        PROVE  \E k \in 1..z : i < k /\ k < j /\ IsSnapshot(answers'[k])
    <3>1. i \in 1..n /\ IsDocument(answers[i], y)
      <4>1. (i \in 1..n /\ IsDocument(answers[i], y)) \/ i = n + 2
        BY <1>6, <2>1
      <4>2. j \in 1..n \/ j = n + 1
        BY <1>5, <2>1
      <4>3. i # n + 2
        BY <2>1, <4>2
      <4>4. QED
        BY <4>1, <4>3
    <3>2. CASE j \in 1..n
      <4>1. PICK k \in 1..n : i < k /\ k < j /\ IsSnapshot(answers[k])
        BY <1>3, <1>5, <2>1, <3>1, <3>2 DEF Truth, Flushed
      <4>2. QED
        BY <1>3, <1>7, <4>1
    <3>3. CASE j = n + 1
      <4>1. PICK k \in 1..n : i < k /\ IsSnapshot(answers[k])
        BY <1>3, <3>1 DEF Truth, Flushed
      <4>2. k \in 1..z /\ IsSnapshot(answers'[k]) /\ k < j
        BY <1>3, <1>7, <3>3, <4>1
      <4>3. QED
        BY <4>1, <4>2
    <3>4. QED
      BY <1>5, <2>1, <3>2, <3>3
  <2>2. ASSUME NEW x \in Targets, NEW i \in 1..z, IsDocument(answers'[i], x)
        PROVE  \E k \in 1..z : i < k /\ IsSnapshot(answers'[k])
    <3>1. i < z
      <4>1. i \in 1..n \/ i = n + 2
        BY <1>6, <2>2
      <4>2. QED
        BY <4>1
    <3>2. QED
      BY <1>3, <1>7, <3>1
  <2>3. ASSUME DOMAIN w.updates # {}
        PROVE  /\ \E k \in 1..z : IsSnapshot(answers'[k])
               /\ \A x \in Targets : \A j \in 1..z :
                    Counts(answers'[j], x) => \E k \in 1..z : k < j /\ IsSnapshot(answers'[k])
    <3>1. PICK l \in 1..n : IsSnapshot(answers[l])
      BY <1>3, <2>3 DEF Truth, Flushed
    <3>2. ASSUME NEW x \in Targets, NEW j \in 1..z, Counts(answers'[j], x)
          PROVE  \E k \in 1..z : k < j /\ IsSnapshot(answers'[k])
      <4>1. CASE j \in 1..n /\ Counts(answers[j], x)
        <5>1. PICK k \in 1..n : k < j /\ IsSnapshot(answers[k])
          BY <1>3, <2>3, <4>1 DEF Truth, Flushed
        <5>2. QED
          BY <1>3, <1>7, <5>1
      <4>2. CASE j = n + 1
        BY <1>3, <1>7, <3>1, <4>2
      <4>3. QED
        BY <1>5, <3>2, <4>1, <4>2
    <3>3. QED
      BY <1>3, <1>7, <3>1, <3>2
  <2>4. QED
    BY <1>2, <1>3, <2>1, <2>2, <2>3 DEF Flushed
<1>18. Changes'
  BY <1>2, <1>10 DEF Truth, Changes, ChangeFor
<1>19. Accounted'
  <2>1. ASSUME NEW x \in Targets, x # t, Settled(x)'
        PROVE  Coming(x)' \/ Pending(x)' \/ Covered(x)' \/ Absent(x)'
    <3>1. Coming(x) \/ Pending(x) \/ Covered(x) \/ Absent(x)
      BY <1>10, <2>1 DEF Truth, Accounted
    <3>2. ASSUME Coming(x) PROVE Coming(x)'
      <4>1. PICK j \in 1..n : /\ Since(answers, j, x) /\ IsDocument(answers[j], x)
                              /\ answers[j].content.at = server[x].at
        BY <1>3, <3>2 DEF Coming
      <4>2. Since(answers', j, x) /\ IsDocument(answers'[j], x) /\ answers'[j] = answers[j]
        BY <1>3, <1>6, <1>8, <2>1, <4>1
      <4>3. QED
        BY <1>3, <4>1, <4>2 DEF Coming
    <3>3. ASSUME Pending(x) PROVE Pending(x)'
      <4>1. 0 \in 0..n
        OBVIOUS
      <4>2. QED
        BY <1>2, <1>8, <2>1, <3>3, <4>1 DEF Pending
    <3>4. ASSUME Covered(x) PROVE Covered(x)'
      BY <3>4 DEF Covered
    <3>5. ASSUME Absent(x) PROVE Absent(x)'
      <4>1. 0 \in 0..n
        OBVIOUS
      <4>2. Since(answers', 0, x) => x \notin DOMAIN w'.updates
        BY <1>2, <1>8, <2>1, <3>5, <4>1 DEF Absent
      <4>3. ASSUME NEW i \in 1..z, Since(answers', i, x)
            PROVE  /\ ~IsDocument(answers'[i], x)
                   /\ IsSnapshot(answers'[i]) => answers'[i].version >= server[x].at
        <5>1. CASE i \in 1..n
          BY <1>3, <1>6, <1>7, <1>8, <2>1, <3>5, <4>3, <5>1 DEF Absent
        <5>2. CASE i > n
          <6>1. ~IsDocument(answers'[i], x)
            <7>1. i \notin 1..n
              BY <5>2
            <7>2. QED
              BY <1>6, <2>1, <7>1
          <6>2. IsSnapshot(answers'[i]) => i = z
            BY <1>7, <5>2
          <6>3. QED
            BY <1>1, <1>9, <6>1, <6>2 DEF Truth, Typed
        <5>3. QED
          BY <5>1, <5>2
      <4>4. QED
        BY <1>3, <3>5, <4>2, <4>3 DEF Absent
    <3>6. QED
      BY <3>1, <3>2, <3>3, <3>4, <3>5
  <2>2. CASE z = n + 4
    <3>1. Coming(t)'
      <4>1. n + 2 \in 1..z /\ Since(answers', n + 2, t) /\ IsDocument(answers'[n + 2], t)
        <5>1. n + 2 \in 1..z /\ n + 2 > n
          BY <2>2
        <5>2. QED
          BY <1>6, <1>8, <2>2, <5>1
      <4>2. answers'[n + 2].content.at = server'[t].at
        BY <1>9, <2>2
      <4>3. QED
        BY <1>3, <4>1, <4>2 DEF Coming
    <3>2. QED
      BY <2>1, <3>1 DEF Accounted
  <2>3. CASE z = n + 3
    <3>1. CASE server[t].at <= token[t]
      BY <1>1, <1>2, <2>1, <3>1 DEF Accounted, Covered, Truth, Typed, Messages
    <3>2. CASE token[t] = 0 /\ ~server[t].exists
      <4>1. 0 \in 0..n
        OBVIOUS
      <4>2. ~Since(answers', 0, t)
        BY <1>8, <4>1
      <4>3. ASSUME NEW i \in 1..z, Since(answers', i, t)
            PROVE  /\ ~IsDocument(answers'[i], t)
                   /\ IsSnapshot(answers'[i]) => answers'[i].version >= server[t].at
        <5>1. i \notin 1..n
          BY <1>8, <4>3
        <5>2. IsSnapshot(answers'[i]) => i = z
          BY <1>7, <5>1
        <5>3. z # n + 4
          BY <2>3
        <5>4. ~IsDocument(answers'[i], t)
          BY <1>6, <5>1, <5>3
        <5>5. QED
          BY <1>1, <1>2, <1>9, <5>2, <5>4 DEF Truth, Typed
      <4>4. Absent(t)'
        BY <1>3, <3>2, <4>2, <4>3 DEF Absent
      <4>5. QED
        BY <2>1, <4>4 DEF Accounted
    <3>3. QED
      BY <2>3, <3>1, <3>2
  <2>4. QED
    BY <2>2, <2>3
<1>20. CurrentFirst'
  <2>1. SaidCurrent(t)'
    <3>1. IsCurrent(answers'[z - 1], t) /\ Since(answers', z - 1, t)
      BY <1>3, <1>8 DEF IsCurrent
    <3>2. ASSUME NEW i \in 1..z, i < z - 1, IsSnapshot(answers'[i]) PROVE ~Since(answers', i, t)
      <4>1. i \in 1..n
        BY <1>7, <3>2
      <4>2. QED
        BY <1>8, <4>1
    <3>3. QED
      BY <1>3, <3>1, <3>2 DEF SaidCurrent
  <2>2. ASSUME NEW x \in Targets, x # t, Settled(x)' PROVE SaidCurrent(x)'
    <3>1. SaidCurrent(x)
      BY <1>10, <2>2 DEF Truth, CurrentFirst
    <3>2. CASE x \in DOMAIN w.states /\ w.states[x].current
      BY <1>2, <3>2 DEF SaidCurrent
    <3>3. CASE \E j \in Places : /\ IsCurrent(answers[j], x) /\ Since(answers, j, x)
                                 /\ \A i \in Places : i < j /\ IsSnapshot(answers[i]) => ~Since(answers, i, x)
      <4>1. PICK j \in 1..n : /\ IsCurrent(answers[j], x) /\ Since(answers, j, x)
                              /\ \A i \in 1..n : i < j /\ IsSnapshot(answers[i]) => ~Since(answers, i, x)
        BY <1>3, <3>3
      <4>2. j \in 1..z /\ IsCurrent(answers'[j], x) /\ Since(answers', j, x)
        BY <1>3, <1>8, <1>9, <2>2, <4>1
      <4>3. ASSUME NEW i \in 1..z, i < j, IsSnapshot(answers'[i]) PROVE ~Since(answers', i, x)
        <5>1. i \in 1..n /\ IsSnapshot(answers[i])
          BY <1>7, <4>1, <4>3
        <5>2. QED
          BY <1>8, <2>2, <4>1, <4>3, <5>1
      <4>4. QED
        BY <1>3, <4>2, <4>3 DEF SaidCurrent
    <3>4. QED
      BY <3>1, <3>2, <3>3 DEF SaidCurrent
  <2>3. QED
    BY <2>1, <2>2 DEF CurrentFirst
<1>21. Knowledge'
  BY <1>1 DEF Truth, Knowledge, Covered
<1>22. QED
  BY <1>2, <1>11, <1>12, <1>13, <1>14, <1>15, <1>16, <1>17, <1>18, <1>19, <1>20, <1>21 DEF Truth

\* An unwatch is served: the target is said to be removed.
LEMMA UnwatchServed ==
    ASSUME Truth, Inv', Takes, UNCHANGED <<server, denied, token, cache, keys>>, denied = {},
           NEW r, r = Head(w.outgoing), r.op = "unwatch", NEW t, t = r.target,
           serving' = serving \ {t},
           NEW n, n = Len(answers), n \in Nat, Len(answers') = n + 1,
           \A i \in 1..n : answers'[i] = answers[i],
           answers'[n + 1] = [op |-> "removed", target |-> t]
    PROVE  Truth'
<1>1. LastVersion' = LastVersion
  BY SameLastVersion
<1>2. /\ IsOpen(w) /\ IsOpen(w') /\ w'.listens = w.listens /\ w'.states = w.states
      /\ w'.updates = w.updates
      /\ t \in Targets /\ Requests'
      /\ ~Silent(t) /\ \A x : x # t => (Silent(x)' <=> Silent(x))
      /\ \A x \in Targets : \A i \in 1..Len(w'.outgoing) :
           LastAsked(w'.outgoing, i, x) => (w'.outgoing[i].op = "watch" <=> x \in w.listens)
      /\ Silent(t)' => t \notin w.listens
  BY TakenRequest
<1>3. Places = 1..n /\ Places' = 1..(n + 1) /\ 1..n \subseteq 1..(n + 1) /\ n + 1 \in 1..(n + 1)
      /\ 0 \in 0..n /\ 1..n \subseteq 0..n
  BY DEF Places
<1>4. \A i \in 1..(n + 1) : i \in 1..n \/ i = n + 1
  OBVIOUS
<1>5. \A x : \A i \in 1..(n + 1) :
        Counts(answers'[i], x) <=> (i \in 1..n /\ Counts(answers[i], x)) \/ (i = n + 1 /\ x = t)
  <2>1. \A x : \A i \in 1..n : Counts(answers'[i], x) <=> Counts(answers[i], x)
    OBVIOUS
  <2>2. \A x : Counts(answers'[n + 1], x) <=> x = t
    BY DEF Counts
  <2>3. QED
    BY <1>4, <2>1, <2>2
<1>6. /\ \A x : ~IsDocument(answers'[n + 1], x) /\ ~IsCurrent(answers'[n + 1], x)
      /\ ~IsSnapshot(answers'[n + 1])
  BY DEF IsDocument, IsCurrent, IsSnapshot
<1>7. /\ \A x : x # t => \A i \in 0..n : Since(answers', i, x) <=> Since(answers, i, x)
      /\ \A i \in 0..n : ~Since(answers', i, t)
  <2>1. ASSUME NEW x, x # t, NEW i \in 0..n
        PROVE  Since(answers', i, x) <=> Since(answers, i, x)
    BY <1>3, <1>5, <2>1 DEF Since
  <2>2. ASSUME NEW i \in 0..n PROVE ~Since(answers', i, t)
    <3>1. n + 1 > i /\ n + 1 \in 1..(n + 1)
      OBVIOUS
    <3>2. Counts(answers'[n + 1], t)
      BY <1>5, <3>1
    <3>3. QED
      BY <3>1, <3>2 DEF Since
  <2>3. QED
    BY <2>1, <2>2
<1>8. /\ \A i \in 1..n : answers'[i] = answers[i]
      /\ \A x \in Targets : \A i \in 1..n : Since(answers', i, x) => Since(answers, i, x)
      /\ \A x \in Targets : Since(answers', 0, x) => Since(answers, 0, x)
  BY <1>3, <1>7
<1>9. \A x : /\ x # t => (Settled(x)' <=> Settled(x)) /\ (InForce(x)' <=> InForce(x))
             /\ x = t => ~InForce(x)' /\ ~Settled(x)'
  BY <1>2, <1>3, <1>7 DEF Settled, InForce
<1>10. Typed'
  BY <1>2 DEF Truth, Typed
<1>11. Messages'
  <2>1. \A x \in Targets : token[x] \in 0..LastVersion
    BY DEF Truth, Messages
  <2>2. ASSUME NEW i \in 1..(n + 1)
        PROVE  \/ answers'[i].op \in {"added", "removed", "current", "refused"} /\ answers'[i].target \in Targets
               \/ /\ answers'[i].op = "document" /\ answers'[i].target \in Targets
                  /\ Past(answers'[i].content, answers'[i].target)
               \/ /\ answers'[i].op = "snapshot" /\ answers'[i].version \in 1..LastVersion
                  /\ \A x \in Targets : token[x] <= answers'[i].version
    <3>1. CASE i \in 1..n
      BY <1>3, <3>1 DEF Truth, Messages
    <3>2. CASE i = n + 1
      BY <1>2, <3>2
    <3>3. QED
      BY <1>4, <3>1, <3>2
  <2>3. QED
    BY <1>1, <1>3, <2>1, <2>2 DEF Messages, Past
<1>12. Denials'
  BY <1>2 DEF Truth, Denials
<1>13. Watched'
  <2>1. ASSUME NEW x \in Targets, Silent(x)' PROVE x \in serving' <=> x \in w.listens
    <3>1. CASE x = t
      BY <1>2, <2>1, <3>1
    <3>2. CASE x # t
      BY <1>2, <2>1, <3>2 DEF Truth, Watched
    <3>3. QED
      BY <3>1, <3>2
  <2>2. ASSUME NEW x \in Targets, NEW i \in 1..(n + 1), answers'[i].op = "removed",
               answers'[i].target = x, Since(answers', i, x)
        PROVE  x \notin serving'
    <3>1. CASE i = n + 1
      BY <2>2, <3>1
    <3>2. CASE i \in 1..n
      BY <1>2, <1>3, <1>8, <2>2, <3>2 DEF Truth, Watched
    <3>3. QED
      BY <1>4, <3>1, <3>2
  <2>3. QED
    BY <1>2, <1>3, <2>1, <2>2 DEF Watched, LastAsked
<1>14. InOrder'
  BY <1>3, <1>4, <1>6, <1>8 DEF Truth, InOrder
<1>15. Updates'
  BY <1>1, <1>2, <1>3, <1>4, <1>6, <1>8, <1>9 DEF Truth, Updates, Past, InForce
<1>16. Flushed'
  <2>1. ASSUME NEW y \in Targets, NEW x \in Targets, NEW i \in 1..(n + 1), NEW j \in 1..(n + 1), i < j,
               IsDocument(answers'[i], y), Counts(answers'[j], x)
        PROVE  \E k \in 1..(n + 1) : i < k /\ k < j /\ IsSnapshot(answers'[k])
    <3>1. i \in 1..n /\ IsDocument(answers[i], y)
      BY <1>4, <1>6, <1>8, <2>1
    <3>2. CASE j \in 1..n
      <4>1. PICK k \in 1..n : i < k /\ k < j /\ IsSnapshot(answers[k])
        BY <1>3, <1>8, <2>1, <3>1, <3>2 DEF Truth, Flushed
      <4>2. QED
        BY <1>3, <1>8, <4>1
    <3>3. CASE j = n + 1
      <4>1. PICK k \in 1..n : i < k /\ IsSnapshot(answers[k])
        BY <1>3, <3>1 DEF Truth, Flushed
      <4>2. QED
        BY <1>3, <1>8, <3>3, <4>1
    <3>4. QED
      BY <1>4, <2>1, <3>2, <3>3
  <2>2. ASSUME NEW x \in Targets, NEW i \in 1..(n + 1), IsDocument(answers'[i], x)
        PROVE  \E k \in 1..(n + 1) : i < k /\ IsSnapshot(answers'[k])
    <3>1. i \in 1..n /\ IsDocument(answers[i], x)
      BY <1>4, <1>6, <1>8, <2>2
    <3>2. PICK k \in 1..n : i < k /\ IsSnapshot(answers[k])
      BY <1>3, <3>1 DEF Truth, Flushed
    <3>3. QED
      BY <1>3, <1>8, <3>2
  <2>3. ASSUME DOMAIN w.updates # {}
        PROVE  /\ \E k \in 1..(n + 1) : IsSnapshot(answers'[k])
               /\ \A x \in Targets : \A j \in 1..(n + 1) :
                    Counts(answers'[j], x) => \E k \in 1..(n + 1) : k < j /\ IsSnapshot(answers'[k])
    <3>1. PICK l \in 1..n : IsSnapshot(answers[l])
      BY <1>3, <2>3 DEF Truth, Flushed
    <3>2. ASSUME NEW x \in Targets, NEW j \in 1..(n + 1), Counts(answers'[j], x)
          PROVE  \E k \in 1..(n + 1) : k < j /\ IsSnapshot(answers'[k])
      <4>1. CASE j \in 1..n
        <5>1. PICK k \in 1..n : k < j /\ IsSnapshot(answers[k])
          BY <1>3, <1>8, <2>3, <3>2, <4>1 DEF Truth, Flushed
        <5>2. QED
          BY <1>3, <1>8, <5>1
      <4>2. CASE j = n + 1
        BY <1>3, <1>8, <3>1, <4>2
      <4>3. QED
        BY <1>4, <4>1, <4>2
    <3>3. QED
      BY <1>3, <1>8, <3>1, <3>2
  <2>4. QED
    BY <1>2, <1>3, <2>1, <2>2, <2>3 DEF Flushed
<1>17. Changes'
  BY <1>2, <1>9 DEF Truth, Changes, ChangeFor
<1>18. ASSUME NEW x \in Targets, Settled(x)'
       PROVE  /\ Coming(x)' \/ Pending(x)' \/ Covered(x)' \/ Absent(x)'
              /\ SaidCurrent(x)'
  <2>1. /\ Coming(x) \/ Pending(x) \/ Covered(x) \/ Absent(x)
        /\ SaidCurrent(x) /\ x # t
    BY <1>9, <1>18 DEF Truth, Accounted, CurrentFirst
  <2>2. \A i \in 0..n : Since(answers', i, x) <=> Since(answers, i, x)
    BY <1>7, <2>1
  <2>3. ASSUME Coming(x) PROVE Coming(x)'
    <3>1. PICK j \in 1..n : /\ Since(answers, j, x) /\ IsDocument(answers[j], x)
                            /\ answers[j].content.at = server[x].at
      BY <1>3, <2>3 DEF Coming
    <3>2. QED
      BY <1>3, <2>2, <3>1 DEF Coming
  <2>4. ASSUME Pending(x) PROVE Pending(x)'
    BY <1>2, <1>3, <2>2, <2>4 DEF Pending
  <2>5. ASSUME Covered(x) PROVE Covered(x)'
    BY <2>5 DEF Covered
  <2>6. ASSUME Absent(x) PROVE Absent(x)'
    <3>1. \A i \in 1..(n + 1) : Since(answers', i, x) =>
            /\ ~IsDocument(answers'[i], x)
            /\ IsSnapshot(answers'[i]) => answers'[i].version >= server[x].at
      BY <1>3, <1>4, <1>6, <1>8, <2>6 DEF Absent
    <3>2. Since(answers', 0, x) => x \notin DOMAIN w'.updates
      BY <1>2, <1>3, <2>2, <2>6 DEF Absent
    <3>3. QED
      BY <1>3, <2>6, <3>1, <3>2 DEF Absent
  <2>7. SaidCurrent(x)'
    <3>1. CASE x \in DOMAIN w.states /\ w.states[x].current
      BY <1>2, <3>1 DEF SaidCurrent
    <3>2. CASE \E j \in Places : /\ IsCurrent(answers[j], x) /\ Since(answers, j, x)
                                 /\ \A i \in Places : i < j /\ IsSnapshot(answers[i]) => ~Since(answers, i, x)
      <4>1. PICK j \in 1..n : /\ IsCurrent(answers[j], x) /\ Since(answers, j, x)
                              /\ \A i \in 1..n : i < j /\ IsSnapshot(answers[i]) => ~Since(answers, i, x)
        BY <1>3, <3>2
      <4>2. j \in 1..(n + 1) /\ IsCurrent(answers'[j], x) /\ Since(answers', j, x)
        BY <1>3, <2>2, <4>1
      <4>3. \A i \in 1..(n + 1) : i < j /\ IsSnapshot(answers'[i]) => ~Since(answers', i, x)
        BY <1>3, <1>4, <1>6, <1>8, <2>2, <4>1
      <4>4. QED
        BY <1>3, <4>2, <4>3 DEF SaidCurrent
    <3>3. QED
      BY <2>1, <3>1, <3>2 DEF SaidCurrent
  <2>8. QED
    BY <2>1, <2>3, <2>4, <2>5, <2>6, <2>7
<1>19. Accounted' /\ CurrentFirst'
  BY <1>18 DEF Accounted, CurrentFirst
<1>20. Knowledge'
  BY <1>1 DEF Truth, Knowledge, Covered
<1>21. QED
  BY <1>2, <1>10, <1>11, <1>12, <1>13, <1>14, <1>15, <1>16, <1>17, <1>19, <1>20 DEF Truth

\* What is concatenated, message by message.
LEMMA Extended ==
    ASSUME NEW s, IsSeq(s), NEW p, NEW q
    PROVE  s \o <<>> = s /\ s \o <<p>> = Append(s, p) /\ s \o <<p, q>> = Append(Append(s, p), q)
<1> DEFINE S == {s[i] : i \in 1..Len(s)} \cup {p, q}
<1>1. s \in Seq(S) /\ p \in S /\ q \in S
  BY DEF IsSeq
<1> HIDE DEF S
<1>2. s \o <<>> = s
  BY <1>1
<1>3. s \o <<p>> = Append(s, p)
  BY <1>1
<1>4. s \o <<p, q>> = Append(Append(s, p), q)
  BY <1>1
<1>5. QED
  BY <1>2, <1>3, <1>4

\* What the server answers.
AnswersRequest(t, n) ==
    /\ t = Head(w.outgoing).target /\ t \in Targets /\ n = Len(answers) /\ n \in Nat
    /\ \/ /\ denied # {} /\ serving' = {}
          /\ \A i \in 1..Len(answers') : answers'[i].op \in {"refused", "removed"}
                                         /\ answers'[i].target \in Targets
       \/ /\ denied = {} /\ Head(w.outgoing).op = "unwatch" /\ serving' = serving \ {t}
          /\ Len(answers') = n + 1 /\ answers'[n + 1] = [op |-> "removed", target |-> t]
          /\ \A i \in 1..n : answers'[i] = answers[i]
       \/ denied = {} /\ \E z : AnswersWatch(t, n, z)

LEMMA ServeAnswers ==
    ASSUME Truth, Serve
    PROVE  \E t, n : AnswersRequest(t, n)
<1>1. PICK r : r = Head(w.outgoing)
  OBVIOUS
<1>2. PICK t : t = r.target
  OBVIOUS
<1>3. /\ Takes /\ UNCHANGED <<server, denied, token, cache, keys>>
  BY DEF Serve, storeVars
<1>5. PICK n : n = Len(answers)
  OBVIOUS
<1>6. IsSeq(answers) /\ n \in Nat
  BY <1>5, Appended DEF Truth, Inv
<1>7. /\ Requests' /\ w'.listens = w.listens /\ w'.updates = w.updates
      /\ t \in Targets /\ r.op \in {"watch", "unwatch"} /\ (r.op = "watch" => r.token = token[t])
  BY <1>1, <1>2, <1>3, TakenRequest
<1> DEFINE added   == [op |-> "added", target |-> t]
           now     == [op |-> "current", target |-> t]
           removed == [op |-> "removed", target |-> t]
           refused == [op |-> "refused", target |-> t]
           news    == server[t].at > token[t] /\ (token[t] # 0 \/ server[t].exists)
<1>8. \/ /\ r.op = "unwatch" /\ serving' = serving \ {t}
         /\ answers' = Append(answers, removed)
      \/ /\ r.op = "watch" /\ t \in denied
         /\ answers' = Append(answers, refused) /\ serving' = serving
      \/ /\ r.op = "watch" /\ t \notin denied /\ serving' = serving \cup {t}
         /\ answers' = answers \o <<added>> \o (IF news THEN <<Document(t)>> ELSE <<>>)
                       \o <<now, Snapshot>>
  BY <1>1, <1>2, <1>7 DEF Serve
<1>9. added.op = "added" /\ now.op = "current" /\ removed.op = "removed" /\ removed.target = t
      /\ refused.op = "refused" /\ refused.target = t
  OBVIOUS
<1>10. Document(t) = [op |-> "document", target |-> t, content |-> server[t]]
  BY <1>3 DEF Document
<1>11. Snapshot = [op |-> "snapshot", version |-> LastVersion]
  BY <1>3, SameLastVersion DEF Snapshot
<1>12. denied \in {{}, Targets} /\ (denied # {} => serving = {})
  BY DEF Truth, Denials
<1>13. CASE denied # {}
  <2>1. PICK m \in {removed, refused} : answers' = Append(answers, m)
    BY <1>7, <1>8, <1>12, <1>13
  <2>2. m.op \in {"refused", "removed"} /\ m.target = t
    BY <1>9, <2>1
  <2> HIDE DEF removed, refused
  <2>3. /\ Len(answers') = n + 1 /\ answers'[n + 1] = m
        /\ \A i \in 1..n : answers'[i] = answers[i]
    BY <1>5, <1>6, <2>1, Appended
  <2>4. \A i \in 1..n : answers[i].op \in {"refused", "removed"} /\ answers[i].target \in Targets
    BY <1>5, <1>13 DEF Truth, Denials, Messages, Places
  <2>5. \A i \in 1..Len(answers') : answers'[i].op \in {"refused", "removed"}
                                    /\ answers'[i].target \in Targets
    <3>1. \A i \in 1..(n + 1) : i \in 1..n \/ i = n + 1
      BY <1>6
    <3>2. QED
      BY <1>7, <2>2, <2>3, <2>4, <3>1
  <2>6. serving' = {}
    <3>1. serving' = serving \/ serving' = serving \ {t}
      BY <1>7, <1>8, <1>12, <1>13
    <3>2. QED
      BY <1>12, <1>13, <3>1
  <2>7. QED
    BY <1>1, <1>2, <1>5, <1>6, <1>7, <1>13, <2>5, <2>6 DEF AnswersRequest
<1>14. CASE denied = {} /\ r.op = "unwatch"
  <2>1. answers' = Append(answers, removed) /\ serving' = serving \ {t}
    BY <1>8, <1>14
  <2>2. /\ Len(answers') = n + 1 /\ answers'[n + 1] = removed
        /\ \A i \in 1..n : answers'[i] = answers[i]
    BY <1>5, <1>6, <2>1, Appended
  <2>3. QED
    BY <1>1, <1>2, <1>5, <1>6, <1>7, <1>14, <2>1, <2>2 DEF AnswersRequest
<1>15. CASE denied = {} /\ r.op = "watch"
  <2> DEFINE first == Append(answers, added)
  <2>1. /\ answers' = (answers \o <<added>>) \o (IF news THEN <<Document(t)>> ELSE <<>>)
                      \o <<now, Snapshot>>
        /\ serving' = serving \cup {t}
    BY <1>8, <1>15
  <2>2. /\ answers \o <<added>> = first /\ IsSeq(first) /\ Len(first) = n + 1 /\ first[n + 1] = added
        /\ \A i \in 1..n : first[i] = answers[i]
    BY <1>5, <1>6, Extended, Appended
  <2>3. token[t] \in Nat /\ server[t].at \in Nat
    BY <1>7, LastVersionIsLast DEF Truth, Typed, Messages
  <2> HIDE DEF added, now, first
  <2>4. ASSUME NEW s, IsSeq(s), NEW l \in Nat, Len(s) = l
        PROVE  LET u == s \o <<now, Snapshot>>
               IN  /\ Len(u) = l + 2 /\ u[l + 1] = now /\ u[l + 2] = Snapshot
                   /\ \A i \in 1..l : u[i] = s[i]
    <3> DEFINE c == Append(s, now)
               u == Append(c, Snapshot)
    <3>1. /\ IsSeq(c) /\ Len(c) = l + 1 /\ c[l + 1] = now /\ \A i \in 1..l : c[i] = s[i]
      BY <2>4, Appended
    <3>2. s \o <<now, Snapshot>> = u
      BY <2>4, Extended
    <3> HIDE DEF c
    <3>3. /\ Len(u) = l + 2 /\ u[l + 2] = Snapshot /\ \A i \in 1..(l + 1) : u[i] = c[i]
      BY <3>1, Appended
    <3>4. l + 1 \in 1..(l + 1) /\ 1..l \subseteq 1..(l + 1)
      OBVIOUS
    <3>5. QED
      BY <3>1, <3>2, <3>3, <3>4
  <2>5. CASE news
    <3> DEFINE second == Append(first, Document(t))
    <3>1. answers' = second \o <<now, Snapshot>>
      BY <2>1, <2>2, <2>5, Extended
    <3>2. /\ IsSeq(second) /\ Len(second) = n + 2 /\ second[n + 2] = Document(t)
          /\ \A i \in 1..(n + 1) : second[i] = first[i]
      BY <1>6, <2>2, Appended
    <3> HIDE DEF second
    <3>3. /\ Len(answers') = n + 4 /\ answers'[n + 3] = now /\ answers'[n + 4] = Snapshot
          /\ \A i \in 1..(n + 2) : answers'[i] = second[i]
      <4>1. PICK l : l = n + 2
        OBVIOUS
      <4>2. l \in Nat /\ l + 1 = n + 3 /\ l + 2 = n + 4
        BY <1>6, <4>1
      <4>3. /\ Len(answers') = l + 2 /\ answers'[l + 1] = now /\ answers'[l + 2] = Snapshot
            /\ \A i \in 1..l : answers'[i] = second[i]
        BY <2>4, <3>1, <3>2, <4>1, <4>2
      <4>4. QED
        BY <4>1, <4>2, <4>3
    <3>4. /\ n + 1 \in 1..(n + 1) /\ 1..n \subseteq 1..(n + 1)
          /\ n + 1 \in 1..(n + 2) /\ n + 2 \in 1..(n + 2) /\ 1..n \subseteq 1..(n + 2)
      BY <1>6
    <3>5. /\ \A i \in 1..n : answers'[i] = answers[i]
          /\ answers'[n + 1] = added /\ answers'[n + 2] = Document(t)
      BY <2>2, <3>2, <3>3, <3>4
    <3>6. PICK z : z = n + 4
      OBVIOUS
    <3>7. z \in {n + 3, n + 4} /\ z # n + 3 /\ z - 1 = n + 3 /\ server[t].at > token[t]
      BY <1>6, <2>5, <3>6
    <3>8. /\ answers'[n + 1] = [op |-> "added", target |-> t]
          /\ answers'[z - 1] = [op |-> "current", target |-> t]
          /\ answers'[z] = [op |-> "snapshot", version |-> LastVersion]
          /\ answers'[n + 2] = [op |-> "document", target |-> t, content |-> server[t]]
          /\ z = Len(answers')
      BY <1>10, <1>11, <3>3, <3>5, <3>6, <3>7 DEF added, now
    <3> HIDE DEF news
    <3>9. /\ z = n + 4 => /\ answers'[n + 2] = [op |-> "document", target |-> t, content |-> server[t]]
                          /\ server[t].at > token[t]
          /\ z = n + 3 => server[t].at <= token[t] \/ (token[t] = 0 /\ ~server[t].exists)
      BY <3>7, <3>8
    <3>10. AnswersWatch(t, n, z)
      BY <1>1, <1>2, <1>5, <1>6, <1>15, <2>1, <3>5, <3>7, <3>8, <3>9 DEF AnswersWatch
    <3>11. QED
      BY <1>1, <1>2, <1>5, <1>6, <1>7, <1>15, <3>10 DEF AnswersRequest
  <2>6. CASE ~news
    <3>1. answers' = first \o <<now, Snapshot>>
      BY <2>1, <2>2, <2>6, Extended
    <3>2. /\ Len(answers') = n + 3 /\ answers'[n + 2] = now /\ answers'[n + 3] = Snapshot
          /\ \A i \in 1..(n + 1) : answers'[i] = first[i]
      BY <1>6, <2>2, <2>4, <3>1
    <3>3. n + 1 \in 1..(n + 1) /\ 1..n \subseteq 1..(n + 1)
      BY <1>6
    <3>4. /\ \A i \in 1..n : answers'[i] = answers[i]
          /\ answers'[n + 1] = added
      BY <2>2, <3>2, <3>3
    <3>5. PICK z : z = n + 3
      OBVIOUS
    <3>6. z \in {n + 3, n + 4} /\ z # n + 4 /\ z - 1 = n + 2
      BY <1>6, <3>5
    <3>7. server[t].at <= token[t] \/ (token[t] = 0 /\ ~server[t].exists)
      BY <2>3, <2>6
    <3>8. /\ answers'[n + 1] = [op |-> "added", target |-> t]
          /\ answers'[z - 1] = [op |-> "current", target |-> t]
          /\ answers'[z] = [op |-> "snapshot", version |-> LastVersion]
          /\ z = Len(answers')
      BY <1>11, <3>2, <3>4, <3>5, <3>6 DEF added, now
    <3> HIDE DEF news
    <3>9. /\ z = n + 4 => /\ answers'[n + 2] = [op |-> "document", target |-> t, content |-> server[t]]
                          /\ server[t].at > token[t]
          /\ z = n + 3 => server[t].at <= token[t] \/ (token[t] = 0 /\ ~server[t].exists)
      BY <3>6, <3>7
    <3>10. AnswersWatch(t, n, z)
      BY <1>1, <1>2, <1>5, <1>6, <1>15, <2>1, <3>4, <3>6, <3>8, <3>9 DEF AnswersWatch
    <3>11. QED
      BY <1>1, <1>2, <1>5, <1>6, <1>7, <1>15, <3>10 DEF AnswersRequest
  <2>7. QED
    BY <2>5, <2>6
<1>16. QED
  BY <1>7, <1>13, <1>14, <1>15

LEMMA ServeTruth ==
    ASSUME Truth, Serve
    PROVE  Truth'
<1>1. PICK t, n : AnswersRequest(t, n)
  BY ServeAnswers
<1>2. /\ Takes /\ UNCHANGED <<server, denied, token, cache, keys>>
  BY DEF Serve, storeVars
<1>3. Inv'
  BY ServeKeepsInv DEF Truth
<1>4. Requests' /\ w'.listens = w.listens /\ w'.updates = w.updates
  BY <1>2, TakenRequest
<1>5. t = Head(w.outgoing).target /\ t \in Targets /\ n = Len(answers) /\ n \in Nat
  BY <1>1 DEF AnswersRequest
<1>6. CASE /\ denied # {} /\ serving' = {}
           /\ \A i \in 1..Len(answers') : answers'[i].op \in {"refused", "removed"}
                                          /\ answers'[i].target \in Targets
  BY <1>2, <1>3, <1>4, <1>6, DeniedTruth
<1>7. CASE /\ denied = {} /\ Head(w.outgoing).op = "unwatch" /\ serving' = serving \ {t}
           /\ Len(answers') = n + 1 /\ answers'[n + 1] = [op |-> "removed", target |-> t]
           /\ \A i \in 1..n : answers'[i] = answers[i]
  BY <1>2, <1>3, <1>5, <1>7, UnwatchServed
<1>8. CASE denied = {} /\ \E z : AnswersWatch(t, n, z)
  BY <1>2, <1>3, <1>8, WatchServed
<1>9. QED
  BY <1>1, <1>6, <1>7, <1>8 DEF AnswersRequest

\* The document of t changes, and who watches it is told.
AnswersChange(t, n, z) ==
    /\ n = Len(answers) /\ n \in Nat /\ z = Len(answers')
    /\ z = n \/ z = n + 2
    /\ t \in serving => z = n + 2
    /\ z = n + 2 => t \in serving
    /\ \A i \in 1..n : answers'[i] = answers[i]
    /\ z = n + 2 => /\ answers'[n + 1] = [op |-> "document", target |-> t, content |-> server'[t]]
                    /\ answers'[z] = [op |-> "snapshot", version |-> LastVersion']

LEMMA ChangeServed ==
    ASSUME Truth, Inv', UNCHANGED <<w, serving, denied, token, cache, keys>>,
           NEW t \in Targets, NEW e \in BOOLEAN,
           server' = [server EXCEPT ![t] = [at |-> LastVersion + 1, exists |-> e]],
           NEW n, NEW z, AnswersChange(t, n, z)
    PROVE  Truth'
<1> DEFINE PastNow(c, x) == /\ c.at \in Nat /\ c.exists \in BOOLEAN
                            /\ c.at <= server'[x].at
                            /\ c.at = server'[x].at => c.exists = server'[x].exists
<1>1. /\ LastVersion \in Nat \ {0} /\ \A x \in Targets : server[x].at <= LastVersion
  BY LastVersionIsLast DEF Truth
<1>2. /\ DOMAIN server' = Targets /\ server'[t].at = LastVersion + 1 /\ server'[t].exists = e
      /\ \A x \in Targets : x # t => server'[x] = server[x]
  BY DEF Truth, Typed
<1>3. Typed'
  BY <1>1, <1>2 DEF Truth, Typed
<1>4. LastVersion' = LastVersion + 1
  BY <1>1, <1>2, <1>3, NextLastVersion
<1>5. \A c : \A x \in Targets : Past(c, x) => PastNow(c, x) /\ c.at \in Nat /\ c.at <= LastVersion
  BY <1>1, <1>2 DEF Past, Truth, Typed
<1>6. /\ n = Len(answers) /\ n \in Nat /\ z = Len(answers') /\ z \in Nat /\ (z = n \/ z = n + 2)
      /\ Places = 1..n /\ Places' = 1..z /\ 1..n \subseteq 1..z /\ 0 \in 0..n /\ 1..n \subseteq 0..n
      /\ (t \in serving <=> z = n + 2)
      /\ z = n + 2 => n + 1 \in 1..z /\ z \in 1..z
  BY DEF AnswersChange, Places
<1>7. \A i \in 1..n : answers'[i] = answers[i]
  BY DEF AnswersChange
<1>8. z = n + 2 => /\ answers'[n + 1].op = "document" /\ answers'[n + 1].target = t
                   /\ answers'[n + 1].content = server'[t]
                   /\ answers'[z].op = "snapshot" /\ answers'[z].version = LastVersion + 1
  BY <1>4 DEF AnswersChange
<1>9. \A i \in 1..z : i \in 1..n \/ (z = n + 2 /\ i = n + 1) \/ (z = n + 2 /\ i = z)
  BY <1>6
<1>10. \A x : \A i \in 1..z : Counts(answers'[i], x) <=> (i \in 1..n /\ Counts(answers[i], x))
  <2>1. \A x : z = n + 2 => ~Counts(answers'[n + 1], x) /\ ~Counts(answers'[z], x)
    BY <1>8 DEF Counts
  <2>2. QED
    BY <1>7, <1>9, <2>1
<1>11. \A x : \A i \in 1..z : IsDocument(answers'[i], x)
               => (i \in 1..n /\ IsDocument(answers[i], x)) \/ (z = n + 2 /\ i = n + 1 /\ x = t)
  <2>1. \A x : z = n + 2 => ~IsDocument(answers'[z], x) /\ (IsDocument(answers'[n + 1], x) => x = t)
    BY <1>8 DEF IsDocument
  <2>2. QED
    BY <1>7, <1>9, <2>1
<1>12. \A i \in 1..z : IsSnapshot(answers'[i])
               => (i \in 1..n /\ IsSnapshot(answers[i])) \/ (z = n + 2 /\ i = z)
  <2>1. z = n + 2 => ~IsSnapshot(answers'[n + 1])
    BY <1>8 DEF IsSnapshot
  <2>2. QED
    BY <1>7, <1>9, <2>1
<1>13. /\ \A x : \A i \in 0..n : Since(answers', i, x) <=> Since(answers, i, x)
       /\ \A x : \A i \in 1..z : i > n => Since(answers', i, x)
  <2>1. ASSUME NEW x, NEW i \in 0..n PROVE Since(answers', i, x) <=> Since(answers, i, x)
    BY <1>6, <1>10 DEF Since
  <2>2. ASSUME NEW x, NEW i \in 1..z, i > n PROVE Since(answers', i, x)
    <3>1. ASSUME NEW k \in 1..z, k > i PROVE ~Counts(answers'[k], x)
      <4>1. k \notin 1..n
        BY <1>6, <2>2, <3>1
      <4>2. QED
        BY <1>10, <4>1
    <3>2. QED
      BY <1>6, <3>1 DEF Since
  <2>3. QED
    BY <2>1, <2>2
<1>14. \A x : (Silent(x)' <=> Silent(x)) /\ (Settled(x)' <=> Settled(x)) /\ (InForce(x)' <=> InForce(x))
  BY <1>6, <1>13 DEF Silent, Settled, InForce
<1>15. Requests'
  BY DEF Truth, Requests
<1>16. Messages'
  <2>1. \A x \in Targets : token[x] \in 0..LastVersion /\ token[x] \in 0..LastVersion'
    BY <1>1, <1>4 DEF Truth, Messages
  <2>2. ASSUME NEW i \in 1..z
        PROVE  \/ answers'[i].op \in {"added", "removed", "current", "refused"} /\ answers'[i].target \in Targets
               \/ /\ answers'[i].op = "document" /\ answers'[i].target \in Targets
                  /\ PastNow(answers'[i].content, answers'[i].target)
               \/ /\ answers'[i].op = "snapshot" /\ answers'[i].version \in 1..LastVersion'
                  /\ \A x \in Targets : token[x] <= answers'[i].version
    <3>1. CASE i \in 1..n
      <4>1. answers'[i] = answers[i]
        BY <1>7, <3>1
      <4>2. \/ answers[i].op \in {"added", "removed", "current", "refused"} /\ answers[i].target \in Targets
            \/ /\ answers[i].op = "document" /\ answers[i].target \in Targets
               /\ Past(answers[i].content, answers[i].target)
            \/ /\ answers[i].op = "snapshot" /\ answers[i].version \in 1..LastVersion
               /\ \A x \in Targets : token[x] <= answers[i].version
        BY <1>6, <3>1 DEF Truth, Messages
      <4>3. 1..LastVersion \subseteq 1..LastVersion'
        BY <1>1, <1>4
      <4>4. QED
        BY <1>5, <4>1, <4>2, <4>3
    <3>2. CASE z = n + 2 /\ i = n + 1
      <4>1. answers'[i].op = "document" /\ answers'[i].target = t /\ answers'[i].content = server'[t]
        BY <1>8, <3>2
      <4>2. PastNow(answers'[i].content, t)
        BY <1>1, <1>2, <4>1
      <4>3. QED
        BY <4>1, <4>2
    <3>3. CASE z = n + 2 /\ i = z
      BY <1>1, <1>4, <1>8, <2>1, <3>3
    <3>4. QED
      BY <1>9, <3>1, <3>2, <3>3
  <2>3. QED
    BY <1>6, <2>1, <2>2 DEF Messages, Past
<1>17. Denials'
  BY <1>6, <1>7 DEF Truth, Denials
<1>18. Watched'
  <2>1. ASSUME NEW x \in Targets, NEW i \in 1..z, answers'[i].op = "removed",
               answers'[i].target = x, Since(answers', i, x)
        PROVE  i \in 1..n /\ answers[i].op = "removed" /\ answers[i].target = x /\ Since(answers, i, x)
    <3>1. Counts(answers'[i], x)
      BY <2>1 DEF Counts
    <3>2. i \in 1..n
      BY <1>10, <3>1
    <3>3. QED
      BY <1>6, <1>7, <1>13, <2>1, <3>2
  <2>2. QED
    BY <1>6, <1>14, <2>1 DEF Truth, Watched
<1>19. InOrder'
  <2>1. ASSUME NEW x \in Targets, NEW i \in 1..n, IsDocument(answers[i], x)
        PROVE  answers[i].content.at \in Nat /\ answers[i].content.at <= LastVersion
    BY <1>5, <1>6, <2>1 DEF Truth, Messages, IsDocument
  <2>2. ASSUME NEW x \in Targets, NEW i \in 1..z, NEW j \in 1..z, i < j,
               IsDocument(answers'[i], x), IsDocument(answers'[j], x)
        PROVE  answers'[i].content.at <= answers'[j].content.at
    <3>1. i \in 1..n /\ IsDocument(answers[i], x)
      <4>1. (i \in 1..n /\ IsDocument(answers[i], x)) \/ i = n + 1
        BY <1>11, <2>2
      <4>2. j \in 1..n \/ j = n + 1
        BY <1>11, <2>2
      <4>3. QED
        BY <1>6, <2>2, <4>1, <4>2
    <3>2. CASE j \in 1..n
      BY <1>6, <1>7, <2>2, <3>1, <3>2 DEF Truth, InOrder
    <3>3. CASE z = n + 2 /\ j = n + 1
      BY <1>1, <1>2, <1>7, <1>8, <2>1, <3>1, <3>3
    <3>4. QED
      BY <1>11, <2>2, <3>2, <3>3
  <2>3. ASSUME NEW x \in Targets, NEW i \in 1..z, NEW j \in 1..z, i < j,
               IsDocument(answers'[i], x), IsSnapshot(answers'[j])
        PROVE  answers'[i].content.at <= answers'[j].version
    <3>1. CASE j \in 1..n
      <4>1. i \in 1..n
        BY <1>6, <2>3, <3>1
      <4>2. QED
        BY <1>6, <1>7, <2>3, <3>1, <4>1 DEF Truth, InOrder
    <3>2. CASE z = n + 2 /\ j = z
      <4>1. CASE i \in 1..n /\ IsDocument(answers[i], x)
        BY <1>1, <1>7, <1>8, <2>1, <3>2, <4>1
      <4>2. CASE i = n + 1
        BY <1>1, <1>2, <1>8, <3>2, <4>2
      <4>3. QED
        BY <1>11, <2>3, <4>1, <4>2
    <3>3. QED
      BY <1>12, <2>3, <3>1, <3>2
  <2>4. ASSUME NEW x \in Targets, NEW i \in 1..z, NEW j \in 1..z, i < j,
               IsSnapshot(answers'[i]), IsDocument(answers'[j], x), Since(answers', i, x)
        PROVE  answers'[i].version < answers'[j].content.at
    <3>1. i \in 1..n /\ IsSnapshot(answers[i])
      BY <1>6, <1>12, <2>4
    <3>2. CASE j \in 1..n
      BY <1>6, <1>7, <1>13, <2>4, <3>1, <3>2 DEF Truth, InOrder
    <3>3. CASE z = n + 2 /\ j = n + 1
      <4>1. answers[i].version \in 1..LastVersion
        BY <1>6, <3>1 DEF Truth, Messages, IsSnapshot
      <4>2. QED
        BY <1>1, <1>2, <1>7, <1>8, <3>1, <3>3, <4>1
    <3>4. QED
      BY <1>11, <2>4, <3>2, <3>3
  <2>5. ASSUME NEW x \in Targets, NEW i \in 1..z, IsDocument(answers'[i], x), Since(answers', i, x)
        PROVE  token[x] < answers'[i].content.at
    <3>1. CASE i \in 1..n /\ IsDocument(answers[i], x)
      BY <1>6, <1>7, <1>13, <2>5, <3>1 DEF Truth, InOrder
    <3>2. CASE z = n + 2 /\ i = n + 1 /\ x = t
      BY <1>1, <1>2, <1>8, <3>2 DEF Truth, Messages
    <3>3. QED
      BY <1>11, <2>5, <3>1, <3>2
  <2>6. ASSUME NEW i \in 1..z, NEW j \in 1..z, i < j, IsSnapshot(answers'[i]), IsSnapshot(answers'[j])
        PROVE  answers'[i].version <= answers'[j].version
    <3>1. i \in 1..n /\ IsSnapshot(answers[i]) /\ answers'[i] = answers[i]
      <4>1. (i \in 1..n /\ IsSnapshot(answers[i])) \/ i = z
        BY <1>12, <2>6
      <4>2. QED
        BY <1>6, <1>7, <2>6, <4>1
    <3>2. CASE j \in 1..n
      BY <1>6, <1>7, <2>6, <3>1, <3>2 DEF Truth, InOrder
    <3>3. CASE z = n + 2 /\ j = z
      <4>1. answers[i].version \in 1..LastVersion
        BY <1>6, <3>1 DEF Truth, Messages, IsSnapshot
      <4>2. QED
        BY <1>1, <1>8, <3>1, <3>3, <4>1
    <3>4. QED
      BY <1>12, <2>6, <3>2, <3>3
  <2>7. QED
    BY <1>6, <2>2, <2>3, <2>4, <2>5, <2>6 DEF InOrder
<1>20. Updates'
  <2> SUFFICES ASSUME NEW x \in DOMAIN w.updates
               PROVE  /\ PastNow(w.updates[x], x) /\ token[x] < w.updates[x].at
                      /\ \A i \in 1..z :
                           /\ IsDocument(answers'[i], x) => w.updates[x].at <= answers'[i].content.at
                           /\ IsSnapshot(answers'[i]) => w.updates[x].at <= answers'[i].version
                      /\ x = Questions => InForce(x)'
    BY <1>6 DEF Updates, Past
  <2>1. /\ Past(w.updates[x], x) /\ token[x] < w.updates[x].at /\ x \in Targets
        /\ \A i \in 1..n : /\ IsDocument(answers[i], x) => w.updates[x].at <= answers[i].content.at
                           /\ IsSnapshot(answers[i]) => w.updates[x].at <= answers[i].version
        /\ x = Questions => InForce(x)
    BY <1>6 DEF Truth, Updates, Typed
  <2>2. PastNow(w.updates[x], x) /\ w.updates[x].at \in Nat /\ w.updates[x].at <= LastVersion
    BY <1>5, <2>1 DEF Past
  <2>3. ASSUME NEW i \in 1..z, IsDocument(answers'[i], x) PROVE w.updates[x].at <= answers'[i].content.at
    <3>1. CASE i \in 1..n /\ IsDocument(answers[i], x)
      BY <1>7, <2>1, <3>1
    <3>2. CASE z = n + 2 /\ i = n + 1 /\ x = t
      BY <1>1, <1>2, <1>8, <2>2, <3>2
    <3>3. QED
      BY <1>11, <2>3, <3>1, <3>2
  <2>4. ASSUME NEW i \in 1..z, IsSnapshot(answers'[i]) PROVE w.updates[x].at <= answers'[i].version
    <3>1. CASE i \in 1..n /\ IsSnapshot(answers[i])
      BY <1>7, <2>1, <3>1
    <3>2. CASE z = n + 2 /\ i = z
      BY <1>1, <1>8, <2>2, <3>2
    <3>3. QED
      BY <1>12, <2>4, <3>1, <3>2
  <2>5. QED
    BY <1>14, <2>1, <2>2, <2>3, <2>4
<1>21. Flushed'
  <2>1. \A k \in 1..n : IsSnapshot(answers[k]) => k \in 1..z /\ IsSnapshot(answers'[k])
    BY <1>6, <1>7
  <2>2. ASSUME NEW y \in Targets, NEW x \in Targets, NEW i \in 1..z, NEW j \in 1..z, i < j,
               IsDocument(answers'[i], y), Counts(answers'[j], x)
        PROVE  \E k \in 1..z : i < k /\ k < j /\ IsSnapshot(answers'[k])
    <3>1. j \in 1..n /\ Counts(answers[j], x)
      BY <1>10, <2>2
    <3>2. i \in 1..n
      BY <1>6, <2>2, <3>1
    <3>3. IsDocument(answers[i], y)
      BY <1>7, <2>2, <3>2
    <3>4. PICK k \in 1..n : i < k /\ k < j /\ IsSnapshot(answers[k])
      BY <1>6, <2>2, <3>1, <3>2, <3>3 DEF Truth, Flushed
    <3>5. QED
      BY <2>1, <3>4
  <2>3. ASSUME NEW x \in Targets, NEW i \in 1..z, IsDocument(answers'[i], x)
        PROVE  \E k \in 1..z : i < k /\ IsSnapshot(answers'[k])
    <3>1. CASE i \in 1..n /\ IsDocument(answers[i], x)
      <4>1. PICK k \in 1..n : i < k /\ IsSnapshot(answers[k])
        BY <1>6, <3>1 DEF Truth, Flushed
      <4>2. QED
        BY <2>1, <4>1
    <3>2. CASE z = n + 2 /\ i = n + 1
      <4>1. z \in 1..z /\ IsSnapshot(answers'[z]) /\ i < z
        BY <1>6, <1>8, <3>2 DEF IsSnapshot
      <4>2. QED
        BY <4>1
    <3>3. QED
      BY <1>11, <2>3, <3>1, <3>2
  <2>4. ASSUME DOMAIN w.updates # {}
        PROVE  /\ \E k \in 1..z : IsSnapshot(answers'[k])
               /\ \A x \in Targets : \A j \in 1..z :
                    Counts(answers'[j], x) => \E k \in 1..z : k < j /\ IsSnapshot(answers'[k])
    <3>1. PICK l \in 1..n : IsSnapshot(answers[l])
      BY <1>6, <2>4 DEF Truth, Flushed
    <3>2. ASSUME NEW x \in Targets, NEW j \in 1..z, Counts(answers'[j], x)
          PROVE  \E k \in 1..z : k < j /\ IsSnapshot(answers'[k])
      <4>1. j \in 1..n /\ Counts(answers[j], x)
        BY <1>10, <3>2
      <4>2. PICK k \in 1..n : k < j /\ IsSnapshot(answers[k])
        BY <1>6, <2>4, <4>1 DEF Truth, Flushed
      <4>3. QED
        BY <2>1, <4>2
    <3>3. QED
      BY <2>1, <3>1, <3>2
  <2>5. QED
    BY <1>6, <2>2, <2>3, <2>4 DEF Flushed
<1>22. Changes'
  BY <1>14 DEF Truth, Changes, ChangeFor
<1>23. Accounted'
  <2>1. ASSUME NEW x \in Targets, x # t, Settled(x)
        PROVE  Coming(x)' \/ Pending(x)' \/ Covered(x)' \/ Absent(x)'
    <3>1. Coming(x) \/ Pending(x) \/ Covered(x) \/ Absent(x)
      BY <2>1 DEF Truth, Accounted
    <3>2. server'[x] = server[x]
      BY <1>2, <2>1
    <3>3. ASSUME Coming(x) PROVE Coming(x)'
      <4>1. PICK j \in 1..n : /\ Since(answers, j, x) /\ IsDocument(answers[j], x)
                              /\ answers[j].content.at = server[x].at
        BY <1>6, <3>3 DEF Coming
      <4>2. QED
        BY <1>6, <1>7, <1>13, <3>2, <4>1 DEF Coming
    <3>4. ASSUME Pending(x) PROVE Pending(x)'
      BY <1>6, <1>13, <3>2, <3>4 DEF Pending
    <3>5. ASSUME Covered(x) PROVE Covered(x)'
      BY <3>2, <3>5 DEF Covered
    <3>6. ASSUME Absent(x) PROVE Absent(x)'
      <4>1. ASSUME NEW i \in 1..z, Since(answers', i, x)
            PROVE  /\ ~IsDocument(answers'[i], x)
                   /\ IsSnapshot(answers'[i]) => answers'[i].version >= server[x].at
        <5>1. CASE i \in 1..n
          BY <1>6, <1>7, <1>13, <3>6, <4>1, <5>1 DEF Absent
        <5>2. CASE i \notin 1..n
          <6>1. ~IsDocument(answers'[i], x)
            BY <1>11, <2>1, <5>2
          <6>2. IsSnapshot(answers'[i]) => answers'[i].version = LastVersion + 1
            BY <1>8, <1>12, <5>2
          <6>3. QED
            BY <1>1, <6>1, <6>2 DEF Truth, Typed
        <5>3. QED
          BY <5>1, <5>2
      <4>2. Since(answers', 0, x) => x \notin DOMAIN w.updates
        BY <1>6, <1>13, <3>6 DEF Absent
      <4>3. QED
        BY <1>6, <3>2, <3>6, <4>1, <4>2 DEF Absent
    <3>7. QED
      BY <3>1, <3>3, <3>4, <3>5, <3>6
  <2>2. ASSUME Settled(t) PROVE Coming(t)'
    <3>1. z = n + 2
      BY <1>6, <2>2 DEF Settled
    <3>2. n + 1 \in 1..z /\ n + 1 > n
      BY <1>6, <3>1
    <3>3. Since(answers', n + 1, t) /\ IsDocument(answers'[n + 1], t)
      BY <1>8, <1>13, <3>1, <3>2 DEF IsDocument
    <3>4. QED
      BY <1>6, <1>8, <3>1, <3>2, <3>3 DEF Coming
  <2>3. QED
    BY <1>14, <2>1, <2>2 DEF Accounted
<1>24. CurrentFirst'
  <2>1. ASSUME NEW x \in Targets, SaidCurrent(x) PROVE SaidCurrent(x)'
    <3>1. CASE x \in DOMAIN w.states /\ w.states[x].current
      BY <3>1 DEF SaidCurrent
    <3>2. CASE \E j \in Places : /\ IsCurrent(answers[j], x) /\ Since(answers, j, x)
                                 /\ \A i \in Places : i < j /\ IsSnapshot(answers[i]) => ~Since(answers, i, x)
      <4>1. PICK j \in 1..n : /\ IsCurrent(answers[j], x) /\ Since(answers, j, x)
                              /\ \A i \in 1..n : i < j /\ IsSnapshot(answers[i]) => ~Since(answers, i, x)
        BY <1>6, <3>2
      <4>2. j \in 1..z /\ IsCurrent(answers'[j], x) /\ Since(answers', j, x)
        BY <1>6, <1>7, <1>13, <4>1
      <4>3. ASSUME NEW i \in 1..z, i < j, IsSnapshot(answers'[i]) PROVE ~Since(answers', i, x)
        <5>1. i \in 1..n
          BY <1>6, <4>1, <4>3
        <5>2. QED
          BY <1>6, <1>7, <1>13, <4>1, <4>3, <5>1
      <4>4. QED
        BY <1>6, <4>2, <4>3 DEF SaidCurrent
    <3>3. QED
      BY <2>1, <3>1, <3>2 DEF SaidCurrent
  <2>2. QED
    BY <1>14, <2>1 DEF Truth, CurrentFirst
<1>25. Knowledge'
  <2>1. \A x \in Targets : /\ cache[x].at \in 0..LastVersion /\ token[x] \in 0..LastVersion
                           /\ cache[x].at \in 0..LastVersion'
    BY <1>1, <1>4 DEF Truth, Knowledge, Messages
  <2>2. ~(token[t] >= server'[t].at) /\ ~(cache[t].at >= server'[t].at)
    BY <1>1, <1>2, <2>1
  <2>3. QED
    BY <1>2, <2>1, <2>2 DEF Truth, Knowledge, Covered
<1>26. QED
  BY <1>3, <1>15, <1>16, <1>17, <1>18, <1>19, <1>20, <1>21, <1>22, <1>23, <1>24, <1>25 DEF Truth

LEMMA ChangeAnswers ==
    ASSUME Truth, NEW t \in Targets, Change(t)
    PROVE  \E n, z : AnswersChange(t, n, z)
<1>4. PICK n : n = Len(answers)
  OBVIOUS
<1>5. PICK z : z = Len(answers')
  OBVIOUS
<1>6. IsSeq(answers) /\ n \in Nat
  BY <1>4, Appended DEF Truth, Inv
<1>7. AnswersChange(t, n, z)
  <2>1. CASE t \in serving
    <3>1. answers' = Append(Append(answers, Document(t)), Snapshot)
      BY <1>6, <2>1, Extended DEF Change
    <3> DEFINE c == Append(answers, Document(t))
    <3>2. /\ IsSeq(c) /\ Len(c) = n + 1 /\ c[n + 1] = Document(t)
          /\ \A i \in 1..n : c[i] = answers[i]
      BY <1>4, <1>6, Appended
    <3> HIDE DEF c
    <3>3. /\ Len(answers') = n + 2 /\ answers'[n + 2] = Snapshot
          /\ \A i \in 1..(n + 1) : answers'[i] = c[i]
      BY <1>6, <3>1, <3>2, Appended DEF c
    <3>4. n + 1 \in 1..(n + 1) /\ 1..n \subseteq 1..(n + 1)
      BY <1>6
    <3>5. /\ answers'[n + 1] = Document(t) /\ \A i \in 1..n : answers'[i] = answers[i]
      BY <3>2, <3>3, <3>4
    <3>6. z = n + 2
      BY <1>5, <3>3
    <3>7. Document(t) = [op |-> "document", target |-> t, content |-> server'[t]]
      BY DEF Document
    <3>8. Snapshot = [op |-> "snapshot", version |-> LastVersion']
      BY DEF Snapshot
    <3>9. QED
      BY <1>4, <1>5, <1>6, <2>1, <3>3, <3>5, <3>6, <3>7, <3>8 DEF AnswersChange
  <2>2. CASE t \notin serving
    <3>1. answers' = answers /\ z = n /\ z # n + 2
      BY <1>4, <1>5, <1>6, <2>2 DEF Change
    <3>2. QED
      BY <1>4, <1>5, <1>6, <2>2, <3>1 DEF AnswersChange
  <2>3. QED
    BY <2>1, <2>2
<1>8. QED
  BY <1>7

LEMMA ChangeTruth ==
    ASSUME Truth, NEW t \in Targets, Change(t)
    PROVE  Truth'
<1>1. UNCHANGED <<w, serving, denied, token, cache, keys>>
  BY DEF Change, clientVars, storeVars
<1>2. Inv'
  BY ChangeKeepsInv DEF Truth
<1>3. PICK e \in BOOLEAN : server' = [server EXCEPT ![t] = [at |-> LastVersion + 1, exists |-> e]]
  BY DEF Change
<1>4. PICK n, z : AnswersChange(t, n, z)
  BY ChangeAnswers
<1>5. QED
  BY <1>1, <1>2, <1>3, <1>4, ChangeServed

(***************************************************************************)
(* The client's steps.                                                     *)
(***************************************************************************)

\* Nothing is waited for where nothing of the target is on its way.
LEMMA ZeroMeans ==
    ASSUME NEW v, Shape(v), NEW a, IsSeq(a), NEW t,
           Outstanding(v, t) = Asked(v.outgoing, t) + Due(a, t)
    PROVE  Outstanding(v, t) = 0 <=>
             (\A i \in 1..Len(v.outgoing) : v.outgoing[i].target # t) /\ Since(a, 0, t)
<1> DEFINE J == {i \in 1..Len(v.outgoing) : v.outgoing[i].target = t}
           K == {i \in 1..Len(a) : a[i].op \in {"added", "removed"} /\ a[i].target = t}
<1>1. Len(v.outgoing) \in Nat /\ Len(a) \in Nat
  BY Appended DEF Shape
<1>2. J \in SUBSET (1..Len(v.outgoing)) /\ K \in SUBSET (1..Len(a))
  OBVIOUS
<1>3. Asked(v.outgoing, t) = Cardinality(J) /\ Due(a, t) = Cardinality(K)
  BY DEF Asked, Due
<1>4. J = {} <=> \A i \in 1..Len(v.outgoing) : v.outgoing[i].target # t
  OBVIOUS
<1>5. K = {} <=> Since(a, 0, t)
  BY DEF Since, Counts
<1> HIDE DEF J, K
<1>6. /\ IsFiniteSet(J) /\ Cardinality(J) \in Nat /\ IsFiniteSet(K) /\ Cardinality(K) \in Nat
  BY <1>1, <1>2, PlacesAreFinite
<1>7. (Cardinality(J) = 0 <=> J = {}) /\ (Cardinality(K) = 0 <=> K = {})
  BY <1>6, FS_EmptySet
<1>8. QED
  BY <1>3, <1>4, <1>5, <1>6, <1>7

LEMMA ActiveMeans ==
    ASSUME Inv, IsOpen(w), denied = {}, NEW t \in Targets
    PROVE  /\ Outstanding(w, t) = 0 <=> Silent(t) /\ Since(answers, 0, t)
           /\ IsActiveTarget(w, t) <=> InForce(t)
<1>1. Outstanding(w, t) = Asked(w.outgoing, t) + Due(answers, t)
  BY MatchMeans DEF Inv
<1>2. Outstanding(w, t) = 0 <=> Silent(t) /\ Since(answers, 0, t)
  BY <1>1, ZeroMeans DEF Inv, Silent
<1>3. QED
  BY <1>2 DEF IsActiveTarget, InForce, Outstanding

LEMMA NextActiveMeans ==
    ASSUME Inv', IsOpen(w'), denied' = {}, NEW t \in Targets
    PROVE  Outstanding(w', t) = 0 <=> Silent(t)' /\ Since(answers', 0, t)
<1>1. Outstanding(w', t) = Asked(w'.outgoing, t) + Due(answers', t)
  BY DEF Inv, OutstandingResponsesMatch, Unanswered, Outstanding, Asked, Due
<1>2. QED
  BY <1>1, ZeroMeans DEF Inv, Silent

\* The first answer is taken: what is known of the others, place by place.
LEMMA AnswerTaken ==
    ASSUME IsSeq(answers), answers # <<>>, answers' = Tail(answers), NEW n, n = Len(answers),
           NEW z, z = Len(answers')
    PROVE  /\ z \in Nat /\ n = z + 1 /\ Head(answers) = answers[1]
           /\ Places = 1..n /\ Places' = 1..z /\ 1 \in 1..n
           /\ \A i \in 1..z : i + 1 \in 1..n /\ 1 < i + 1 /\ answers'[i] = answers[i + 1]
           /\ \A i, j \in 1..z : i < j => i + 1 < j + 1
           /\ \A i \in 1..n : i # 1 => i - 1 \in 1..z /\ answers'[i - 1] = answers[i]
           /\ \A i \in 0..z : \A x : Since(answers', i, x) <=> Since(answers, i + 1, x)
           /\ \A i \in 1..z : \A x : Since(answers', i, x) <=> Since(answers, i + 1, x)
           /\ \A x : Since(answers, 0, x) => Since(answers, 1, x)
           /\ \A x : Since(answers, 0, x) <=> ~Counts(answers[1], x) /\ Since(answers', 0, x)
           /\ \A i \in 1..n : \A x : Since(answers, i, x) => Since(answers', i - 1, x)
<1>1. /\ n \in Nat \ {0} /\ z = n - 1 /\ Head(answers) = answers[1]
      /\ \A i \in 1..z : answers'[i] = answers[i + 1]
  BY Tailed
<1>2. Places = 1..n /\ Places' = 1..z /\ 1 \in 1..n /\ z \in Nat /\ n = z + 1
  BY <1>1 DEF Places
<1>3. \A i \in 1..z : i + 1 \in 1..n /\ answers'[i] = answers[i + 1]
  BY <1>1
<1>4. \A i \in 1..n : i # 1 => i - 1 \in 1..z /\ answers'[i - 1] = answers[i]
  BY <1>1
<1>5. ASSUME NEW x, NEW i \in 0..z
      PROVE  Since(answers', i, x) <=> Since(answers, i + 1, x)
  <2>1. ASSUME Since(answers', i, x), NEW k \in 1..n, k > i + 1
        PROVE  ~Counts(answers[k], x)
    <3>1. k - 1 \in 1..z /\ k - 1 > i /\ answers'[k - 1] = answers[k]
      BY <1>1, <1>4, <2>1
    <3>2. QED
      BY <1>1, <2>1, <3>1 DEF Since
  <2>2. ASSUME Since(answers, i + 1, x), NEW k \in 1..z, k > i
        PROVE  ~Counts(answers'[k], x)
    <3>1. k + 1 \in 1..n /\ k + 1 > i + 1 /\ answers'[k] = answers[k + 1]
      BY <1>1, <1>3, <2>2
    <3>2. QED
      BY <1>1, <2>2, <3>1 DEF Since
  <2>3. QED
    BY <1>1, <2>1, <2>2 DEF Since
<1>6. ASSUME NEW x
      PROVE  Since(answers, 0, x) <=> ~Counts(answers[1], x) /\ Since(answers', 0, x)
  <2>1. Since(answers', 0, x) <=> Since(answers, 1, x)
    BY <1>1, <1>5
  <2>2. Since(answers, 0, x) <=> ~Counts(answers[1], x) /\ Since(answers, 1, x)
    <3>1. \A k \in 1..n : k > 0 /\ (k = 1 \/ k > 1)
      OBVIOUS
    <3>2. QED
      BY <1>2, <3>1 DEF Since
  <2>3. QED
    BY <2>1, <2>2
<1>7. ASSUME NEW x, NEW i \in 1..n, Since(answers, i, x)
      PROVE  Since(answers', i - 1, x)
  <2>1. i - 1 \in 0..z /\ (i - 1) + 1 = i
    BY <1>1
  <2>2. QED
    BY <1>5, <1>7, <2>1
<1>8. QED
  BY <1>1, <1>2, <1>3, <1>4, <1>5, <1>6, <1>7

\* What is true of the wire stays true when the first answer is taken from it,
\* a snapshot's version being the token of what is in force.
LEMMA AnswerLeaves ==
    ASSUME Truth, answers # <<>>, answers' = Tail(answers),
           UNCHANGED <<server, serving, denied>>, denied = {},
           IsOpen(w'), w'.listens = w.listens, w'.outgoing = w.outgoing,
           NEW m, m = Head(answers), DOMAIN token' = Targets,
           \A x \in Targets : \/ token'[x] = token[x]
                              \/ IsSnapshot(m) /\ token'[x] = m.version /\ InForce(x),
           DOMAIN w'.updates # {} =>
             ~IsSnapshot(m) /\ (DOMAIN w.updates # {} \/ \E x \in Targets : IsDocument(m, x))
    PROVE  Requests' /\ Messages' /\ Denials' /\ Watched' /\ InOrder' /\ Flushed'
<1>1. PICK n : n = Len(answers)
  OBVIOUS
<1>2. PICK z : z = Len(answers')
  OBVIOUS
<1>3. /\ z \in Nat /\ n = z + 1 /\ m = answers[1]
      /\ Places = 1..n /\ Places' = 1..z /\ 1 \in 1..n
  BY <1>1, <1>2, AnswerTaken DEF Truth, Inv
<1>f. \A i \in Places' : i + 1 \in Places /\ 1 < i + 1 /\ answers'[i] = answers[i + 1]
  BY <1>3, <1>1, <1>2, AnswerTaken DEF Truth, Inv
<1>o. \A i, j \in Places' : i < j => i + 1 < j + 1
  BY <1>3
<1>b. \A i \in Places : i # 1 => i - 1 \in Places' /\ answers'[i - 1] = answers[i]
  BY <1>3, <1>1, <1>2, AnswerTaken DEF Truth, Inv
<1>s. \A i \in Places' : \A x : Since(answers', i, x) <=> Since(answers, i + 1, x)
  BY <1>3, <1>1, <1>2, AnswerTaken DEF Truth, Inv
<1>t. \A x : Since(answers, 0, x) => Since(answers, 1, x)
  BY <1>1, <1>2, AnswerTaken DEF Truth, Inv
<1>4. LastVersion' = LastVersion /\ LastVersion \in Nat \ {0} /\ IsOpen(w)
  BY SameLastVersion, LastVersionIsLast DEF Truth, Inv
<1>5. ASSUME NEW x \in Targets, token'[x] # token[x]
      PROVE  /\ IsSnapshot(m) /\ token'[x] = m.version /\ token'[x] \in 1..LastVersion
             /\ ~(\E i \in 1..Len(w.outgoing) : w.outgoing[i].target = x)
             /\ Since(answers, 1, x)
  <2>1. IsSnapshot(m) /\ token'[x] = m.version /\ InForce(x)
    BY <1>5
  <2>2. m.version \in 1..LastVersion
    BY <1>3, <2>1 DEF Truth, Messages, IsSnapshot
  <2>3. Since(answers, 1, x)
    <3>1. Since(answers, 0, x)
      BY <2>1 DEF InForce
    <3>2. QED
      BY <1>t, <3>1
  <2>4. QED
    BY <2>1, <2>2, <2>3 DEF InForce, Silent
<1>6. Requests'
  <2>1. ASSUME NEW i \in 1..Len(w.outgoing)
        PROVE  /\ w.outgoing[i].op \in {"watch", "unwatch"} /\ w.outgoing[i].target \in Targets
               /\ w.outgoing[i].op = "watch" => w.outgoing[i].token = token'[w.outgoing[i].target]
    <3>1. /\ w.outgoing[i].op \in {"watch", "unwatch"} /\ w.outgoing[i].target \in Targets
          /\ w.outgoing[i].op = "watch" => w.outgoing[i].token = token[w.outgoing[i].target]
      BY DEF Truth, Requests
    <3>2. token'[w.outgoing[i].target] = token[w.outgoing[i].target]
      BY <1>5, <3>1
    <3>3. QED
      BY <3>1, <3>2
  <2>2. QED
    BY <2>1 DEF Requests
<1>7. Messages'
  <2>1. ASSUME NEW x \in Targets PROVE token'[x] \in 0..LastVersion
    <3>1. token[x] \in 0..LastVersion
      BY DEF Truth, Messages
    <3>2. QED
      BY <1>4, <1>5, <3>1
  <2>2. ASSUME NEW i \in Places'
        PROVE  \/ /\ answers'[i].op \in {"added", "removed", "current", "refused"}
                  /\ answers'[i].target \in Targets
               \/ /\ answers'[i].op = "document" /\ answers'[i].target \in Targets
                  /\ Past(answers'[i].content, answers'[i].target)
               \/ /\ answers'[i].op = "snapshot" /\ answers'[i].version \in 1..LastVersion
                  /\ \A t \in Targets : token'[t] <= answers'[i].version
    <3>1. i + 1 \in Places /\ answers'[i] = answers[i + 1] /\ 1 < i + 1
      BY <1>f
    <3>2. CASE answers[i + 1].op # "snapshot"
      BY <1>3, <3>1, <3>2 DEF Truth, Messages
    <3>3. CASE answers[i + 1].op = "snapshot"
      <4>1. /\ answers[i + 1].version \in 1..LastVersion
            /\ \A t \in Targets : token[t] <= answers[i + 1].version
        BY <1>3, <3>1, <3>3 DEF Truth, Messages
      <4>2. IsSnapshot(m) => m.version <= answers[i + 1].version
        BY <1>3, <3>1, <3>3 DEF Truth, InOrder, IsSnapshot
      <4>3. QED
        BY <1>5, <3>1, <3>3, <4>1, <4>2
    <3>4. QED
      BY <3>2, <3>3
  <2>3. QED
    BY <1>4, <2>1, <2>2 DEF Messages, Past
<1>8. Denials'
  BY DEF Truth, Denials
<1>9. Watched'
  <2>1. ASSUME NEW x \in Targets, NEW i \in Places', answers'[i].op = "removed",
               answers'[i].target = x, Since(answers', i, x)
        PROVE  x \notin serving
    <3>1. /\ i + 1 \in Places /\ answers[i + 1].op = "removed" /\ answers[i + 1].target = x
          /\ Since(answers, i + 1, x)
      BY <1>f, <1>s, <2>1
    <3>2. QED
      BY <1>3, <1>4, <3>1 DEF Truth, Watched
  <2>2. ASSUME NEW x \in Targets
        PROVE  /\ \A i \in 1..Len(w'.outgoing) :
                    /\ w'.outgoing[i].target = x
                    /\ \A k \in 1..Len(w'.outgoing) : k > i => w'.outgoing[k].target # x
                    => (w'.outgoing[i].op = "watch" <=> x \in w'.listens)
               /\ Silent(x)' => (x \in serving' <=> x \in w'.listens)
    BY <1>4 DEF Truth, Watched, Silent
  <2>3. QED
    BY <2>1, <2>2 DEF Watched
<1>10. InOrder'
  <2>1. ASSUME NEW x \in Targets, NEW i \in Places', NEW j \in Places', i < j
        PROVE  /\ IsDocument(answers'[i], x) /\ IsDocument(answers'[j], x)
                  => answers'[i].content.at <= answers'[j].content.at
               /\ IsDocument(answers'[i], x) /\ IsSnapshot(answers'[j])
                  => answers'[i].content.at <= answers'[j].version
               /\ IsSnapshot(answers'[i]) /\ IsDocument(answers'[j], x) /\ Since(answers', i, x)
                  => answers'[i].version < answers'[j].content.at
    <3>1. /\ i + 1 \in Places /\ j + 1 \in Places /\ i + 1 < j + 1
          /\ answers'[i] = answers[i + 1] /\ answers'[j] = answers[j + 1]
          /\ Since(answers', i, x) => Since(answers, i + 1, x)
      BY <1>f, <1>o, <1>s, <2>1
    <3>2. QED
      BY <1>3, <3>1, ZenonT(60) DEF Truth, InOrder
  <2>2. ASSUME NEW x \in Targets, NEW i \in Places', IsDocument(answers'[i], x), Since(answers', i, x)
        PROVE  token'[x] < answers'[i].content.at
    <3>1. /\ i + 1 \in Places /\ 1 < i + 1 /\ answers'[i] = answers[i + 1] /\ Since(answers, i + 1, x)
      BY <1>f, <1>s, <2>2
    <3>2. token[x] < answers[i + 1].content.at
      BY <1>3, <2>2, <3>1 DEF Truth, InOrder
    <3>3. IsSnapshot(m) /\ Since(answers, 1, x) => m.version < answers[i + 1].content.at
      BY <1>3, <2>2, <3>1 DEF Truth, InOrder
    <3>4. QED
      BY <1>5, <3>1, <3>2, <3>3
  <2>3. ASSUME NEW i \in Places', NEW j \in Places', i < j, IsSnapshot(answers'[i]), IsSnapshot(answers'[j])
        PROVE  answers'[i].version <= answers'[j].version
    BY <1>f, <1>o, <2>3 DEF Truth, InOrder
  <2>4. QED
    BY <2>1, <2>2, <2>3 DEF InOrder
<1>11. Flushed'
  <2>1. \A y, x \in Targets : \A i, j \in Places' :
          i < j /\ IsDocument(answers'[i], y) /\ Counts(answers'[j], x)
          => \E k \in Places' : i < k /\ k < j /\ IsSnapshot(answers'[k])
    <3> TAKE y, x \in Targets
    <3> TAKE i, j \in Places'
    <3> HAVE i < j /\ IsDocument(answers'[i], y) /\ Counts(answers'[j], x)
    <3>1. /\ i + 1 \in Places /\ j + 1 \in Places /\ i + 1 < j + 1
          /\ IsDocument(answers[i + 1], y) /\ Counts(answers[j + 1], x)
      BY <1>f, <1>o
    <3>2. PICK k \in Places : i + 1 < k /\ k < j + 1 /\ IsSnapshot(answers[k])
      BY <1>3, <3>1 DEF Truth, Flushed
    <3>3. k # 1 /\ i < k - 1 /\ k - 1 < j
      BY <1>3, <3>1, <3>2
    <3>4. QED
      BY <1>b, <3>2, <3>3
  <2>2. ASSUME NEW x \in Targets, NEW i \in Places', IsDocument(answers'[i], x)
        PROVE  \E k \in Places' : i < k /\ IsSnapshot(answers'[k])
    <3>1. i + 1 \in Places /\ IsDocument(answers[i + 1], x)
      BY <1>f, <2>2
    <3>2. PICK k \in Places : i + 1 < k /\ IsSnapshot(answers[k])
      BY <1>3, <3>1 DEF Truth, Flushed
    <3>3. k # 1 /\ i < k - 1
      BY <1>3, <3>2
    <3>4. QED
      BY <1>b, <3>2, <3>3
  <2>3. ASSUME DOMAIN w'.updates # {}
        PROVE  /\ \E k \in Places' : IsSnapshot(answers'[k])
               /\ \A x \in Targets : \A j \in Places' :
                    Counts(answers'[j], x) => \E k \in Places' : k < j /\ IsSnapshot(answers'[k])
    <3>1. ~IsSnapshot(m)
      BY <2>3
    <3>2. \A k \in Places : IsSnapshot(answers[k]) => k # 1 /\ k - 1 \in Places' /\ IsSnapshot(answers'[k - 1])
      BY <1>3, <1>b, <3>1
    <3>3. \E k \in Places : IsSnapshot(answers[k])
      BY <1>3, <2>3 DEF Truth, Flushed
    <3>4. ASSUME NEW x \in Targets, NEW j \in Places', Counts(answers'[j], x)
          PROVE  \E k \in Places' : k < j /\ IsSnapshot(answers'[k])
      <4>1. j + 1 \in Places /\ 1 < j + 1 /\ Counts(answers[j + 1], x)
        BY <1>f, <3>4
      <4>2. PICK k \in Places : k < j + 1 /\ IsSnapshot(answers[k])
        <5>1. CASE DOMAIN w.updates # {}
          BY <1>3, <4>1, <5>1 DEF Truth, Flushed
        <5>2. CASE \E y \in Targets : IsDocument(m, y)
          BY <1>3, <4>1, <5>2 DEF Truth, Flushed
        <5>3. QED
          BY <2>3, <5>1, <5>2
      <4>3. k - 1 < j
        BY <1>3, <4>2
      <4>4. QED
        BY <3>2, <4>2, <4>3
    <3>5. QED
      BY <3>2, <3>3, <3>4
  <2>4. \A x \in Targets : \A i \in Places' :
          IsDocument(answers'[i], x) => \E k \in Places' : i < k /\ IsSnapshot(answers'[k])
    BY <2>2
  <2>5. QED
    BY <2>1, <2>3, <2>4 DEF Flushed
<1>12. QED
  BY <1>6, <1>7, <1>8, <1>9, <1>10, <1>11

\* What else the invariant says moves up by one place.
LEMMA AnswerShifts ==
    ASSUME Truth, answers # <<>>, answers' = Tail(answers), UNCHANGED <<server, serving>>,
           w'.listens = w.listens, w'.outgoing = w.outgoing,
           NEW m, m = Head(answers), NEW t
    PROVE  /\ 1 \in Places /\ m = answers[1]
           /\ Settled(t)' <=> Settled(t)
           /\ InForce(t) => InForce(t)'
           /\ ~Counts(m, t) => (InForce(t)' <=> InForce(t))
                               /\ (Since(answers', 0, t) <=> Since(answers, 0, t))
           /\ Since(answers, 0, t) => Since(answers', 0, t) /\ Since(answers, 1, t)
           /\ ~Counts(m, t) /\ Since(answers, 1, t) => Since(answers, 0, t)
           /\ Since(answers', 0, t) => Since(answers, 1, t)
           /\ Coming(t) => \/ Coming(t)'
                           \/ IsDocument(m, t) /\ Since(answers, 1, t) /\ m.content.at = server[t].at
           /\ Absent(t) => \A i \in Places' : Since(answers', i, t) =>
                             /\ ~IsDocument(answers'[i], t)
                             /\ IsSnapshot(answers'[i]) => answers'[i].version >= server[t].at
           /\ SaidCurrent(t) => \/ SaidCurrent(t)'
                                \/ t \in DOMAIN w.states /\ w.states[t].current
                                \/ IsCurrent(m, t) /\ Since(answers, 1, t)
<1>1. PICK n : n = Len(answers)
  OBVIOUS
<1>2. PICK z : z = Len(answers')
  OBVIOUS
<1>3. /\ z \in Nat /\ n = z + 1 /\ m = answers[1]
      /\ Places = 1..n /\ Places' = 1..z /\ 1 \in Places
  BY <1>1, <1>2, AnswerTaken DEF Truth, Inv
<1>f. \A i \in Places' : i + 1 \in Places /\ 1 < i + 1 /\ answers'[i] = answers[i + 1]
  BY <1>3, <1>1, <1>2, AnswerTaken DEF Truth, Inv
<1>o. \A i, j \in Places' : i < j => i + 1 < j + 1
  BY <1>3
<1>b. \A i \in Places : i # 1 => i - 1 \in Places' /\ answers'[i - 1] = answers[i]
  BY <1>3, <1>1, <1>2, AnswerTaken DEF Truth, Inv
<1>s. \A i \in Places' : Since(answers', i, t) <=> Since(answers, i + 1, t)
  BY <1>3, <1>1, <1>2, AnswerTaken DEF Truth, Inv
<1>u. \A i \in Places : Since(answers, i, t) => Since(answers', i - 1, t)
  BY <1>3, <1>1, <1>2, AnswerTaken DEF Truth, Inv
<1>4. /\ Since(answers, 0, t) <=> ~Counts(m, t) /\ Since(answers', 0, t)
      /\ Since(answers', 0, t) <=> Since(answers, 1, t)
  <2>1. Since(answers, 0, t) <=> ~Counts(answers[1], t) /\ Since(answers', 0, t)
    BY <1>1, <1>2, AnswerTaken DEF Truth, Inv
  <2>2. 0 \in 0..z /\ 0 + 1 = 1
    BY <1>3
  <2>3. \A i \in 0..z : Since(answers', i, t) <=> Since(answers, i + 1, t)
    BY <1>1, <1>2, AnswerTaken DEF Truth, Inv
  <2>4. QED
    BY <1>3, <2>1, <2>2, <2>3
<1>5. (Settled(t)' <=> Settled(t)) /\ (Silent(t)' <=> Silent(t))
  BY DEF Settled, Silent
<1>6. /\ InForce(t) => InForce(t)'
      /\ ~Counts(m, t) => (InForce(t)' <=> InForce(t))
  BY <1>4, <1>5 DEF InForce
<1>7. ASSUME Coming(t), ~(IsDocument(m, t) /\ Since(answers, 1, t) /\ m.content.at = server[t].at)
      PROVE  Coming(t)'
  <2>1. PICK j \in Places : /\ Since(answers, j, t) /\ IsDocument(answers[j], t)
                            /\ answers[j].content.at = server[t].at
    BY <1>7 DEF Coming
  <2>2. j # 1
    BY <1>3, <1>7, <2>1
  <2>3. j - 1 \in Places' /\ answers'[j - 1] = answers[j] /\ Since(answers', j - 1, t)
    BY <1>b, <1>u, <2>1, <2>2
  <2>4. IsDocument(answers'[j - 1], t) /\ answers'[j - 1].content.at = server'[t].at
    BY <2>1, <2>3
  <2>5. QED
    BY <2>3, <2>4 DEF Coming
<1>8. ASSUME Absent(t), NEW i \in Places', Since(answers', i, t)
      PROVE  /\ ~IsDocument(answers'[i], t)
             /\ IsSnapshot(answers'[i]) => answers'[i].version >= server[t].at
  <2>1. i + 1 \in Places /\ answers'[i] = answers[i + 1] /\ Since(answers, i + 1, t)
    BY <1>f, <1>s, <1>8
  <2>2. QED
    BY <1>8, <2>1 DEF Absent
<1>9. ASSUME SaidCurrent(t), ~(t \in DOMAIN w.states /\ w.states[t].current),
             ~(IsCurrent(m, t) /\ Since(answers, 1, t))
      PROVE  SaidCurrent(t)'
  <2>1. PICK j \in Places : /\ IsCurrent(answers[j], t) /\ Since(answers, j, t)
                            /\ \A i \in Places : i < j /\ IsSnapshot(answers[i]) => ~Since(answers, i, t)
    BY <1>9 DEF SaidCurrent
  <2>2. j # 1
    BY <1>3, <1>9, <2>1
  <2>3. j - 1 \in Places' /\ answers'[j - 1] = answers[j] /\ Since(answers', j - 1, t)
    BY <1>b, <1>u, <2>1, <2>2
  <2>4. ASSUME NEW i \in Places', i < j - 1, IsSnapshot(answers'[i])
        PROVE  ~Since(answers', i, t)
    <3>1. i + 1 \in Places /\ answers'[i] = answers[i + 1]
      BY <1>f
    <3>2. i + 1 < j
      BY <1>3, <2>4
    <3>3. QED
      BY <1>s, <2>1, <2>4, <3>1, <3>2
  <2>5. QED
    BY <2>1, <2>3, <2>4 DEF SaidCurrent
<1>10. QED
  BY <1>3, <1>4, <1>5, <1>6, <1>7, <1>8, <1>9

(***************************************************************************)
(* What the aggregator's steps do to the states of targets and to the      *)
(* documents it has.                                                       *)
(***************************************************************************)

\* From u to v nothing changes of what the client wants and asks for.
SameWishes(u, v) ==
    /\ DOMAIN v = Fields /\ v.listens = u.listens /\ v.outgoing = u.outgoing /\ v.state = u.state

\* And of the targets only the state of t, which there is afterwards.
Touched(u, v, t) ==
    /\ SameWishes(u, v)
    /\ DOMAIN v.states = DOMAIN u.states \cup {t}
    /\ \A x \in DOMAIN u.states : x # t => v.states[x] = u.states[x]

LEMMA OnlineLeaves ==
    ASSUME NEW u, DOMAIN u = Fields, NEW online
    PROVE  LET v == UpdateState(u, online)
           IN  SameWishes(u, v) /\ v.states = u.states /\ v.updates = u.updates
  BY DEF UpdateState, SameWishes, Fields

LEMMA SetTouches ==
    ASSUME NEW u, DOMAIN u = Fields, NEW t, NEW s
    PROVE  LET v == SetTargetState(u, t, s)
           IN  Touched(u, v, t) /\ v.states[t] = s /\ v.updates = u.updates
<1> DEFINE v == SetTargetState(u, t, s)
<1>1. SameWishes(u, v) /\ v.updates = u.updates /\ v.states = Put(u.states, t, s)
  BY DEF SetTargetState, SameWishes, Fields
<1> HIDE DEF v
<1>2. /\ DOMAIN v.states = DOMAIN u.states \cup {t} /\ v.states[t] = s
      /\ \A x \in DOMAIN u.states : x # t => v.states[x] = u.states[x]
  BY <1>1 DEF Put
<1>3. QED
  BY <1>1, <1>2 DEF Touched, v

LEMMA TargetStateFields ==
    ASSUME NEW u, Shape(u), NEW t
    PROVE  DOMAIN TargetState(u, t) = {"outstanding", "pending", "change", "current", "token"}
  BY TargetStateShape DEF IsTargetState

LEMMA AddedTouches ==
    ASSUME NEW u, Shape(u), NEW t
    PROVE  LET v == HandleAdded(u, t)
           IN  /\ Touched(u, v, t) /\ v.updates = u.updates
               /\ v.states[t].current = TargetState(u, t).current
               /\ v.states[t].outstanding = 0 => v.states[t].change = "none"
<1> DEFINE left == TargetState(u, t).outstanding - 1
           c == [TargetState(u, t) EXCEPT !.outstanding = left]
           s == IF left # 0 THEN c ELSE [c EXCEPT !.pending = FALSE, !.change = "none"]
<1>1. /\ s.current = TargetState(u, t).current
      /\ s.outstanding = 0 => s.change = "none"
  BY TargetStateFields
<1>2. HandleAdded(u, t) = SetTargetState(u, t, s)
  BY DEF HandleAdded
<1> HIDE DEF s
<1>3. QED
  BY <1>1, <1>2, SetTouches DEF Shape

\* The last response takes the target's state away.
LEMMA RemovedTouches ==
    ASSUME NEW u, Shape(u), NEW t
    PROVE  LET v == HandleRemoved(u, t)
           IN  /\ SameWishes(u, v) /\ v.updates = u.updates
               /\ \A x : x # t => (x \in DOMAIN v.states <=> x \in DOMAIN u.states)
               /\ \A x \in DOMAIN u.states : x # t => v.states[x] = u.states[x]
               /\ Outstanding(u, t) = 1 => t \notin DOMAIN v.states
               /\ Outstanding(u, t) # 1 => t \in DOMAIN v.states
                                           /\ v.states[t].current = TargetState(u, t).current
<1> DEFINE left == TargetState(u, t).outstanding - 1
           s == [TargetState(u, t) EXCEPT !.outstanding = left]
           p == [u EXCEPT !.states = Restrict(@, DOMAIN @ \ {t})]
<1>1. s.current = TargetState(u, t).current
  BY TargetStateFields
<1>2. Outstanding(u, t) \in Int /\ left = Outstanding(u, t) - 1
  BY TargetStateShape DEF Outstanding
<1>3. HandleRemoved(u, t) = IF left # 0 THEN SetTargetState(u, t, s) ELSE p
  BY DEF HandleRemoved
<1> HIDE DEF s, left
<1>4. CASE left # 0
  <2> DEFINE v == SetTargetState(u, t, s)
  <2>1. Touched(u, v, t) /\ v.states[t] = s /\ v.updates = u.updates
    BY SetTouches DEF Shape
  <2>2. HandleRemoved(u, t) = v
    BY <1>3, <1>4
  <2> HIDE DEF v
  <2>3. QED
    BY <1>1, <1>2, <1>4, <2>1, <2>2 DEF Touched
<1>5. CASE left = 0
  <2>1. SameWishes(u, p) /\ p.updates = u.updates /\ p.states = Restrict(u.states, DOMAIN u.states \ {t})
    BY DEF SameWishes, Shape, Fields
  <2>2. HandleRemoved(u, t) = p
    BY <1>3, <1>5
  <2> HIDE DEF p
  <2>3. /\ DOMAIN p.states = DOMAIN u.states \ {t}
        /\ \A x \in DOMAIN p.states : p.states[x] = u.states[x]
    BY <2>1 DEF Restrict
  <2>4. /\ t \notin DOMAIN p.states /\ Outstanding(u, t) = 1
        /\ \A x : x # t => (x \in DOMAIN p.states <=> x \in DOMAIN u.states)
        /\ \A x \in DOMAIN u.states : x # t => p.states[x] = u.states[x]
    BY <1>2, <1>5, <2>3
  <2>5. QED
    BY <2>1, <2>2, <2>4
<1>6. QED
  BY <1>4, <1>5

LEMMA CurrentTouches ==
    ASSUME NEW u, Shape(u), NEW t
    PROVE  LET v == HandleCurrent(u, t)
           IN  /\ Touched(u, v, t) /\ v.updates = u.updates
               /\ v.states[t].change = TargetState(u, t).change
               /\ IsActiveTarget(u, t) => v.states[t].current = TRUE
               /\ ~IsActiveTarget(u, t) => v.states[t].current = TargetState(u, t).current
<1> DEFINE s == TargetState(u, t)
           p == [s EXCEPT !.pending = TRUE, !.current = TRUE]
<1>1. p.change = s.change /\ p.current = TRUE
  BY TargetStateFields
<1>2. HandleCurrent(u, t) = IF IsActiveTarget(u, t) THEN SetTargetState(u, t, p)
                            ELSE SetTargetState(u, t, s)
  BY DEF HandleCurrent
<1> HIDE DEF p
<1>3. QED
  BY <1>1, <1>2, SetTouches DEF Shape

LEMMA DocumentTouches ==
    ASSUME NEW u, Shape(u), NEW t, NEW c, IsActiveTarget(u, t)
    PROVE  LET v == HandleDocumentChange(u, t, c, keys)
           IN  /\ Touched(u, v, t) /\ v.updates = Put(u.updates, t, c)
               /\ v.states[t].change = ChangeFor(c, t)
               /\ v.states[t].current = TargetState(u, t).current
<1> DEFINE p == [TargetState(u, t) EXCEPT !.pending = TRUE, !.change = ChangeFor(c, t)]
           a == SetTargetState(u, t, p)
           v == [a EXCEPT !.updates = Put(@, t, c)]
<1>1. p.change = ChangeFor(c, t) /\ p.current = TargetState(u, t).current
  BY TargetStateFields
<1>2. HandleDocumentChange(u, t, c, keys) = v
  BY DEF HandleDocumentChange, AddDocumentChange, ChangeFor
<1> HIDE DEF p
<1>3. Touched(u, a, t) /\ a.states[t] = p /\ a.updates = u.updates
  BY SetTouches DEF Shape
<1> HIDE DEF a
<1>4. /\ SameWishes(u, v) /\ v.states = a.states /\ v.updates = Put(u.updates, t, c)
  BY <1>3 DEF Touched, SameWishes, Fields
<1> HIDE DEF v
<1>5. QED
  BY <1>1, <1>2, <1>3, <1>4 DEF Touched

\* Every answer left was there.
LEMMA StillThere ==
    ASSUME Truth, answers # <<>>, answers' = Tail(answers)
    PROVE  \A i \in Places' : \E k \in Places : 1 < k /\ answers'[i] = answers[k]
<1>1. PICK n : n = Len(answers)
  OBVIOUS
<1>2. PICK z : z = Len(answers')
  OBVIOUS
<1>3. Places = 1..n /\ Places' = 1..z
  BY <1>1, <1>2, AnswerTaken DEF Truth, Inv
<1>4. \A i \in 1..z : i + 1 \in 1..n /\ 1 < i + 1 /\ answers'[i] = answers[i + 1]
  BY <1>1, <1>2, AnswerTaken DEF Truth, Inv
<1>5. QED
  BY <1>3, <1>4

\* An answer to a request of t is read; the aggregator has no document then.
LEMMA CountedTruth ==
    ASSUME Truth, Inv', answers # <<>>, answers' = Tail(answers),
           UNCHANGED <<server, serving, denied, token, cache, keys>>, denied = {},
           NEW m, m = Head(answers), NEW t \in Targets, Counts(m, t),
           SameWishes(w, w'), w'.updates = w.updates,
           \A x : x # t => (x \in DOMAIN w'.states <=> x \in DOMAIN w.states),
           \A x \in DOMAIN w.states : x # t => w'.states[x] = w.states[x],
           InForce(t)' /\ t \in DOMAIN w'.states => w'.states[t].change = "none",
           Settled(t) => /\ t \in DOMAIN w'.states
                         /\ t \in DOMAIN w.states => w'.states[t].current = w.states[t].current
    PROVE  Truth'
<1>1. IsOpen(w) /\ IsOpen(w') /\ w'.listens = w.listens /\ w'.outgoing = w.outgoing
  BY DEF Truth, Inv, SameWishes, IsOpen
<1>2. ASSUME NEW x
      PROVE  /\ 1 \in Places /\ m = answers[1]
             /\ Settled(x)' <=> Settled(x)
             /\ ~Counts(m, x) => (InForce(x)' <=> InForce(x))
             /\ Coming(x) => \/ Coming(x)'
                             \/ IsDocument(m, x) /\ Since(answers, 1, x) /\ m.content.at = server[x].at
             /\ Absent(x) => \A i \in Places' : Since(answers', i, x) =>
                               /\ ~IsDocument(answers'[i], x)
                               /\ IsSnapshot(answers'[i]) => answers'[i].version >= server[x].at
             /\ SaidCurrent(x) => \/ SaidCurrent(x)'
                                  \/ x \in DOMAIN w.states /\ w.states[x].current
                                  \/ IsCurrent(m, x) /\ Since(answers, 1, x)
  BY <1>1, AnswerShifts
<1>3. \A x : ~IsDocument(m, x) /\ ~IsCurrent(m, x) /\ (x # t => ~Counts(m, x))
  BY DEF Counts, IsDocument, IsCurrent
<1>4. DOMAIN w.updates = {}
  <2>1. \A k \in Places : ~(k < 1)
    BY DEF Places
  <2>2. 1 \in Places /\ Counts(answers[1], t)
    BY <1>2
  <2>3. QED
    BY <2>1, <2>2 DEF Truth, Flushed
<1>5. Typed'
  BY <1>1, <1>4 DEF Truth, Typed
<1>6. Requests' /\ Messages' /\ Denials' /\ Watched' /\ InOrder' /\ Flushed'
  <2>1. DOMAIN token' = Targets
    BY DEF Truth, Typed
  <2>2. QED
    BY <1>1, <1>4, <2>1, AnswerLeaves
<1>7. Updates'
  BY <1>4 DEF Updates
<1>8. Changes'
  <2>1. ASSUME NEW x \in Targets, InForce(x)', x \in DOMAIN w'.states PROVE w'.states[x].change = "none"
    <3>1. CASE x = t
      BY <2>1, <3>1
    <3>2. CASE x # t
      <4>1. InForce(x) /\ x \in DOMAIN w.states /\ w'.states[x] = w.states[x]
        BY <1>2, <1>3, <2>1, <3>2
      <4>2. QED
        BY <1>4, <4>1 DEF Truth, Changes
    <3>3. QED
      BY <3>1, <3>2
  <2>2. QED
    BY <1>4, <2>1 DEF Changes
<1>9. Accounted'
  <2>1. ASSUME NEW x \in Targets, Settled(x)
        PROVE  Coming(x)' \/ Pending(x)' \/ Covered(x)' \/ Absent(x)'
    <3>1. Coming(x) \/ Covered(x) \/ Absent(x)
      BY <1>4, <2>1 DEF Truth, Accounted, Pending
    <3>2. CASE Coming(x)
      BY <1>2, <1>3, <3>2
    <3>3. CASE Covered(x)
      BY <3>3 DEF Covered
    <3>4. CASE Absent(x)
      BY <1>2, <1>4, <3>4 DEF Absent
    <3>5. QED
      BY <3>1, <3>2, <3>3, <3>4
  <2>2. QED
    BY <1>2, <2>1 DEF Accounted
<1>10. CurrentFirst'
  <2>1. ASSUME NEW x \in Targets, Settled(x)
        PROVE  SaidCurrent(x)'
    <3>1. SaidCurrent(x)' \/ (x \in DOMAIN w.states /\ w.states[x].current)
      BY <1>2, <1>3, <2>1 DEF Truth, CurrentFirst
    <3>2. ASSUME x \in DOMAIN w.states, w.states[x].current
          PROVE  x \in DOMAIN w'.states /\ w'.states[x].current
      BY <2>1, <3>2
    <3>3. QED
      BY <3>1, <3>2 DEF SaidCurrent
  <2>2. QED
    BY <1>2, <2>1 DEF CurrentFirst
<1>11. Knowledge'
  <2>1. LastVersion' = LastVersion
    BY SameLastVersion
  <2>2. QED
    BY <2>1 DEF Truth, Knowledge, Covered
<1>12. QED
  BY <1>5, <1>6, <1>7, <1>8, <1>9, <1>10, <1>11 DEF Truth

\* CURRENT of t is read.
LEMMA CurrentTruth ==
    ASSUME Truth, Inv', answers # <<>>, answers' = Tail(answers),
           UNCHANGED <<server, serving, denied, token, cache, keys>>, denied = {},
           NEW m, m = Head(answers), NEW t \in Targets, IsCurrent(m, t),
           Touched(w, w', t), w'.updates = w.updates,
           w'.states[t].change = TargetState(w, t).change,
           InForce(t) => w'.states[t].current = TRUE,
           ~InForce(t) => w'.states[t].current = TargetState(w, t).current
    PROVE  Truth'
<1>1. /\ IsOpen(w) /\ IsOpen(w') /\ w'.listens = w.listens /\ w'.outgoing = w.outgoing
      /\ DOMAIN w'.states = DOMAIN w.states \cup {t}
      /\ \A x \in DOMAIN w.states : x # t => w'.states[x] = w.states[x]
  BY DEF Truth, Inv, Touched, SameWishes, IsOpen
<1>2. ASSUME NEW x
      PROVE  /\ 1 \in Places /\ m = answers[1]
             /\ Settled(x)' <=> Settled(x)
             /\ ~Counts(m, x) => (InForce(x)' <=> InForce(x))
                                 /\ (Since(answers', 0, x) <=> Since(answers, 0, x))
             /\ ~Counts(m, x) /\ Since(answers, 1, x) => Since(answers, 0, x)
             /\ Coming(x) => \/ Coming(x)'
                             \/ IsDocument(m, x) /\ Since(answers, 1, x) /\ m.content.at = server[x].at
             /\ Absent(x) => \A i \in Places' : Since(answers', i, x) =>
                               /\ ~IsDocument(answers'[i], x)
                               /\ IsSnapshot(answers'[i]) => answers'[i].version >= server[x].at
             /\ SaidCurrent(x) => \/ SaidCurrent(x)'
                                  \/ x \in DOMAIN w.states /\ w.states[x].current
                                  \/ IsCurrent(m, x) /\ Since(answers, 1, x)
  BY <1>1, AnswerShifts
<1>3. \A x : ~IsDocument(m, x) /\ ~Counts(m, x) /\ (IsCurrent(m, x) => x = t) /\ ~IsSnapshot(m)
  BY DEF Counts, IsDocument, IsCurrent, IsSnapshot
<1>4. Typed'
  BY <1>1 DEF Truth, Typed
<1>5. Requests' /\ Messages' /\ Denials' /\ Watched' /\ InOrder' /\ Flushed'
  <2>1. DOMAIN token' = Targets
    BY DEF Truth, Typed
  <2>2. QED
    BY <1>1, <1>3, <2>1, AnswerLeaves
<1>6. Updates'
  <2>1. ASSUME NEW x \in DOMAIN w'.updates
        PROVE  /\ Past(w'.updates[x], x) /\ token'[x] < w'.updates[x].at
               /\ x = Questions => InForce(x)'
    BY <1>2, <1>3 DEF Truth, Updates
  <2>2. ASSUME NEW x \in DOMAIN w'.updates, NEW i \in Places'
        PROVE  /\ IsDocument(answers'[i], x) => w'.updates[x].at <= answers'[i].content.at
               /\ IsSnapshot(answers'[i]) => w'.updates[x].at <= answers'[i].version
    BY StillThere DEF Truth, Updates
  <2>3. QED
    BY <2>1, <2>2 DEF Updates, Past
<1>7. Changes'
  <2>1. ASSUME NEW x \in Targets, InForce(x)
        PROVE  /\ x \in DOMAIN w.updates => x \in DOMAIN w'.states
                                            /\ w'.states[x].change = ChangeFor(w.updates[x], x)
               /\ x \notin DOMAIN w.updates /\ x \in DOMAIN w'.states => w'.states[x].change = "none"
    <3>1. /\ x \in DOMAIN w.updates => x \in DOMAIN w.states
                                       /\ w.states[x].change = ChangeFor(w.updates[x], x)
          /\ x \notin DOMAIN w.updates /\ x \in DOMAIN w.states => w.states[x].change = "none"
      BY <2>1 DEF Truth, Changes
    <3>2. NoChanges.change = "none"
      BY DEF NoChanges
    <3>3. QED
      BY <1>1, <3>1, <3>2 DEF TargetState
  <2>2. \A c, x : ChangeFor(c, x)' = ChangeFor(c, x)
    BY DEF ChangeFor
  <2>3. QED
    BY <1>2, <1>3, <2>1 DEF Changes, ChangeFor
<1>8. Accounted'
  <2>1. ASSUME NEW x \in Targets, Settled(x)
        PROVE  Coming(x)' \/ Pending(x)' \/ Covered(x)' \/ Absent(x)'
    <3>1. Coming(x) \/ Pending(x) \/ Covered(x) \/ Absent(x)
      BY <2>1 DEF Truth, Accounted
    <3>2. CASE Coming(x)
      BY <1>2, <1>3, <3>2
    <3>3. CASE Pending(x)
      BY <1>1, <1>2, <1>3, <3>3 DEF Pending
    <3>4. CASE Covered(x)
      BY <3>4 DEF Covered
    <3>5. CASE Absent(x)
      BY <1>2, <1>3, <3>5 DEF Absent
    <3>6. QED
      BY <3>1, <3>2, <3>3, <3>4, <3>5
  <2>2. QED
    BY <1>2, <2>1 DEF Accounted
<1>9. CurrentFirst'
  <2>1. ASSUME NEW x \in Targets, Settled(x)
        PROVE  SaidCurrent(x)'
    <3>1. \/ SaidCurrent(x)'
          \/ x \in DOMAIN w.states /\ w.states[x].current
          \/ x = t /\ Since(answers, 0, x)
      BY <1>2, <1>3, <2>1 DEF Truth, CurrentFirst
    <3>2. ASSUME x \in DOMAIN w.states, w.states[x].current
          PROVE  x \in DOMAIN w'.states /\ w'.states[x].current
      BY <1>1, <3>2 DEF TargetState
    <3>3. ASSUME x = t, Since(answers, 0, x)
          PROVE  x \in DOMAIN w'.states /\ w'.states[x].current
      BY <1>1, <2>1, <3>3 DEF Settled, InForce
    <3>4. QED
      BY <3>1, <3>2, <3>3 DEF SaidCurrent
  <2>2. QED
    BY <1>2, <2>1 DEF CurrentFirst
<1>10. Knowledge'
  <2>1. LastVersion' = LastVersion
    BY SameLastVersion
  <2>2. QED
    BY <2>1 DEF Truth, Knowledge, Covered
<1>11. QED
  BY <1>4, <1>5, <1>6, <1>7, <1>8, <1>9, <1>10 DEF Truth

\* A document of t is read: the aggregator has it when t is in force.
LEMMA DocumentTruth ==
    ASSUME Truth, Inv', answers # <<>>, answers' = Tail(answers),
           UNCHANGED <<server, serving, denied, token, cache, keys>>, denied = {},
           NEW m, m = Head(answers), NEW t \in Targets, IsDocument(m, t),
           SameWishes(w, w'),
           InForce(t) => /\ Touched(w, w', t) /\ w'.updates = Put(w.updates, t, m.content)
                         /\ w'.states[t].change = ChangeFor(m.content, t)
                         /\ w'.states[t].current = TargetState(w, t).current,
           ~InForce(t) => w'.updates = w.updates /\ w'.states = w.states
    PROVE  Truth'
<1>1. IsOpen(w) /\ IsOpen(w') /\ w'.listens = w.listens /\ w'.outgoing = w.outgoing
  BY DEF Truth, Inv, SameWishes, IsOpen
<1>2. ASSUME NEW x
      PROVE  /\ 1 \in Places /\ m = answers[1]
             /\ Settled(x)' <=> Settled(x)
             /\ ~Counts(m, x) => (InForce(x)' <=> InForce(x))
                                 /\ (Since(answers', 0, x) <=> Since(answers, 0, x))
             /\ ~Counts(m, x) /\ Since(answers, 1, x) => Since(answers, 0, x)
             /\ Since(answers, 0, x) => Since(answers, 1, x)
             /\ Coming(x) => \/ Coming(x)'
                             \/ IsDocument(m, x) /\ Since(answers, 1, x) /\ m.content.at = server[x].at
             /\ Absent(x) => \A i \in Places' : Since(answers', i, x) =>
                               /\ ~IsDocument(answers'[i], x)
                               /\ IsSnapshot(answers'[i]) => answers'[i].version >= server[x].at
             /\ SaidCurrent(x) => \/ SaidCurrent(x)'
                                  \/ x \in DOMAIN w.states /\ w.states[x].current
                                  \/ IsCurrent(m, x) /\ Since(answers, 1, x)
  BY <1>1, AnswerShifts
<1>3. \A x : ~IsCurrent(m, x) /\ ~Counts(m, x) /\ (IsDocument(m, x) <=> x = t) /\ ~IsSnapshot(m)
  BY DEF Counts, IsDocument, IsCurrent, IsSnapshot
<1>4. /\ \A x : x \in DOMAIN w'.updates <=> x \in DOMAIN w.updates \/ (x = t /\ InForce(t))
      /\ \A x \in DOMAIN w.updates : ~(x = t /\ InForce(t)) => w'.updates[x] = w.updates[x]
      /\ InForce(t) => w'.updates[t] = m.content
  BY DEF Put
<1>5. /\ \A x : x \in DOMAIN w'.states <=> x \in DOMAIN w.states \/ (x = t /\ InForce(t))
      /\ \A x \in DOMAIN w.states : ~(x = t /\ InForce(t)) => w'.states[x] = w.states[x]
      /\ InForce(t) => /\ w'.states[t].change = ChangeFor(m.content, t)
                       /\ t \in DOMAIN w.states => w'.states[t].current = w.states[t].current
  BY DEF Touched, TargetState
<1>6. Typed'
  BY <1>1, <1>4 DEF Truth, Typed
<1>7. Requests' /\ Messages' /\ Denials' /\ Watched' /\ InOrder' /\ Flushed'
  <2>1. DOMAIN token' = Targets
    BY DEF Truth, Typed
  <2>2. QED
    BY <1>1, <1>3, <2>1, AnswerLeaves
<1>8. Past(m.content, t)
  BY <1>2, <1>3 DEF Truth, Messages, IsDocument
<1>9. Updates'
  <2>1. ASSUME NEW x \in DOMAIN w'.updates
        PROVE  /\ Past(w'.updates[x], x) /\ token'[x] < w'.updates[x].at
               /\ x = Questions => InForce(x)'
    <3>1. CASE x = t /\ InForce(t)
      <4>1. Since(answers, 1, t)
        BY <1>2, <3>1 DEF InForce
      <4>2. token[t] < m.content.at
        BY <1>2, <4>1 DEF Truth, InOrder
      <4>3. QED
        BY <1>2, <1>3, <1>4, <1>8, <3>1, <4>2
    <3>2. CASE ~(x = t /\ InForce(t))
      BY <1>2, <1>3, <1>4, <3>2 DEF Truth, Updates
    <3>3. QED
      BY <3>1, <3>2
  <2>2. ASSUME NEW x \in DOMAIN w'.updates, NEW i \in Places'
        PROVE  /\ IsDocument(answers'[i], x) => w'.updates[x].at <= answers'[i].content.at
               /\ IsSnapshot(answers'[i]) => w'.updates[x].at <= answers'[i].version
    <3>1. PICK k \in Places : 1 < k /\ answers'[i] = answers[k]
      BY StillThere
    <3>2. CASE x = t /\ InForce(t)
      <4>1. w'.updates[x] = answers[1].content /\ IsDocument(answers[1], x) /\ 1 \in Places
        BY <1>2, <1>3, <1>4, <3>2
      <4>2. /\ IsDocument(answers[k], x) => answers[1].content.at <= answers[k].content.at
            /\ IsSnapshot(answers[k]) => answers[1].content.at <= answers[k].version
        BY <3>1, <3>2, <4>1 DEF Truth, InOrder
      <4>3. QED
        BY <3>1, <4>1, <4>2
    <3>3. CASE ~(x = t /\ InForce(t))
      <4>1. x \in DOMAIN w.updates /\ w'.updates[x] = w.updates[x]
        BY <1>4, <3>3
      <4>2. /\ IsDocument(answers[k], x) => w.updates[x].at <= answers[k].content.at
            /\ IsSnapshot(answers[k]) => w.updates[x].at <= answers[k].version
        BY <4>1 DEF Truth, Updates
      <4>3. QED
        BY <3>1, <4>1, <4>2
    <3>4. QED
      BY <3>2, <3>3
  <2>3. QED
    BY <2>1, <2>2 DEF Updates, Past
<1>10. Changes'
  <2>1. ASSUME NEW x \in Targets, InForce(x)
        PROVE  /\ x \in DOMAIN w'.updates => x \in DOMAIN w'.states
                                             /\ w'.states[x].change = ChangeFor(w'.updates[x], x)
               /\ x \notin DOMAIN w'.updates /\ x \in DOMAIN w'.states => w'.states[x].change = "none"
    <3>1. /\ x \in DOMAIN w.updates => x \in DOMAIN w.states
                                       /\ w.states[x].change = ChangeFor(w.updates[x], x)
          /\ x \notin DOMAIN w.updates /\ x \in DOMAIN w.states => w.states[x].change = "none"
      BY <2>1 DEF Truth, Changes
    <3>2. QED
      BY <1>4, <1>5, <2>1, <3>1
  <2>2. QED
    BY <1>2, <1>3, <2>1 DEF Changes, ChangeFor
<1>11. Accounted'
  <2>1. ASSUME NEW x \in Targets, Settled(x)
        PROVE  Coming(x)' \/ Pending(x)' \/ Covered(x)' \/ Absent(x)'
    <3>1. Coming(x) \/ Pending(x) \/ Covered(x) \/ Absent(x)
      BY <2>1 DEF Truth, Accounted
    <3>2. CASE Coming(x)
      <4>1. CASE Coming(x)'
        BY <4>1
      <4>2. CASE x = t /\ Since(answers, 1, t) /\ m.content.at = server[t].at
        <5>1. Since(answers, 0, t) /\ InForce(t)
          BY <1>2, <1>3, <2>1, <4>2 DEF InForce, Settled
        <5>2. Pending(t)'
          BY <1>2, <1>3, <1>4, <1>5, <4>2, <5>1 DEF Pending
        <5>3. QED
          BY <4>2, <5>2
      <4>3. QED
        BY <1>2, <1>3, <3>2, <4>1, <4>2
    <3>3. CASE Pending(x)
      <4>1. w'.updates[x].at = server[x].at
        <5>1. CASE x = t /\ InForce(t)
          <6>1. w.updates[t].at <= m.content.at
            BY <1>2, <3>3, <5>1 DEF Truth, Updates, Pending
          <6>2. QED
            BY <1>4, <1>8, <3>3, <5>1, <6>1 DEF Past, Pending, Truth, Typed
        <5>2. CASE ~(x = t /\ InForce(t))
          BY <1>4, <3>3, <5>2 DEF Pending
        <5>3. QED
          BY <5>1, <5>2
      <4>2. QED
        BY <1>2, <1>3, <1>4, <1>5, <3>3, <4>1 DEF Pending
    <3>4. CASE Covered(x)
      BY <3>4 DEF Covered
    <3>5. CASE Absent(x)
      <4>1. x = t => ~InForce(t)
        <5>1. ~(Since(answers, 1, x) /\ IsDocument(m, x))
          BY <1>2, <3>5 DEF Absent
        <5>2. QED
          BY <1>2, <1>3, <5>1 DEF InForce
      <4>2. QED
        BY <1>2, <1>3, <1>4, <3>5, <4>1 DEF Absent
    <3>6. QED
      BY <3>1, <3>2, <3>3, <3>4, <3>5
  <2>2. QED
    BY <1>2, <2>1 DEF Accounted
<1>12. CurrentFirst'
  <2>1. ASSUME NEW x \in Targets, Settled(x)
        PROVE  SaidCurrent(x)'
    <3>1. \/ SaidCurrent(x)'
          \/ x \in DOMAIN w.states /\ w.states[x].current
      BY <1>2, <1>3, <2>1 DEF Truth, CurrentFirst
    <3>2. ASSUME x \in DOMAIN w.states, w.states[x].current
          PROVE  x \in DOMAIN w'.states /\ w'.states[x].current
      BY <1>5, <3>2
    <3>3. QED
      BY <3>1, <3>2 DEF SaidCurrent
  <2>2. QED
    BY <1>2, <2>1 DEF CurrentFirst
<1>13. Knowledge'
  <2>1. LastVersion' = LastVersion
    BY SameLastVersion
  <2>2. QED
    BY <2>1 DEF Truth, Knowledge, Covered
<1>14. QED
  BY <1>6, <1>7, <1>9, <1>10, <1>11, <1>12, <1>13 DEF Truth

\* What the client takes to be missing at a snapshot: a document that is asked
\* for, was not sent and is not known.
Missing == {t \in Active(w) : /\ w.states[t].current /\ t \in DocumentQueries
                              /\ t \notin DOMAIN w.updates /\ t \notin keys}

\* What is taken in at the snapshot of a version.
TakenIn(t, version) == IF t \in Missing THEN NoDocument(version) ELSE w.updates[t]

\* The remote event made at a snapshot, and what is left, in terms of what the
\* aggregator has when the snapshot is read.
LEMMA SnapshotEvent ==
    ASSUME Shape(w), NEW version \in Nat \ {0},
           NEW v, v = HandleNoChange(UpdateState(w, "Online"), version),
           NEW event, event = RemoteEvent(v, version, keys),
           NEW a, a = AfterRemoteEvent(v, version, keys)
    PROVE  /\ DOMAIN event.changes = Active(w)
           /\ \A t \in Active(w) :
                /\ event.changes[t].current = w.states[t].current
                /\ event.changes[t].change = IF t \in Missing THEN "none" ELSE w.states[t].change
                /\ event.changes[t].token = version
           /\ DOMAIN event.updates = DOMAIN w.updates \cup Missing
           /\ \A t \in DOMAIN event.updates : event.updates[t] = TakenIn(t, version)
           /\ SameWishes(w, a) /\ DOMAIN a.updates = {} /\ DOMAIN a.states = DOMAIN w.states
           /\ \A t \in DOMAIN w.states :
                /\ a.states[t].current = w.states[t].current
                /\ a.states[t].change = IF t \in Active(w) THEN "none" ELSE w.states[t].change
<1> DEFINE u == UpdateState(w, "Online")
           s == Synthesized(v, version, keys)
           D == DOMAIN w.states
<1>1. /\ SameWishes(w, u) /\ u.states = w.states /\ u.updates = w.updates
  BY OnlineLeaves DEF Shape
<1>2. /\ \A x : IsActiveTarget(u, x) <=> IsActiveTarget(w, x)
  BY <1>1 DEF IsActiveTarget, TargetState, SameWishes
<1>3. v = [u EXCEPT !.states = [t \in DOMAIN @ |-> IF IsActiveTarget(u, t)
                                                   THEN [@[t] EXCEPT !.pending = TRUE, !.token = version]
                                                   ELSE @[t]]]
  BY DEF HandleNoChange
<1> HIDE DEF u
<1>4. /\ SameWishes(w, v) /\ v.updates = w.updates
      /\ v.states = [t \in D |-> IF t \in Active(w)
                                 THEN [w.states[t] EXCEPT !.pending = TRUE, !.token = version]
                                 ELSE w.states[t]]
  BY <1>1, <1>2, <1>3, ZenonT(60) DEF SameWishes, Fields, Active
<1>5. /\ DOMAIN v.states = D
      /\ \A t \in D : /\ v.states[t].current = w.states[t].current
                      /\ v.states[t].change = w.states[t].change
                      /\ v.states[t].outstanding = w.states[t].outstanding
                      /\ DOMAIN v.states[t] = DOMAIN w.states[t]
                      /\ t \in Active(w) => v.states[t].pending = TRUE /\ v.states[t].token = version
  BY <1>4 DEF Shape, IsTargetState
<1>6. Active(v) = Active(w)
  BY <1>4, <1>5 DEF Active, IsActiveTarget, TargetState, SameWishes
<1>7. Missing = {t \in Active(v) : /\ v.states[t].current /\ t \in DocumentQueries
                                   /\ t \notin DOMAIN v.updates /\ t \notin keys}
  BY <1>4, <1>5, <1>6 DEF Missing, Active
<1>8. Missing \subseteq D /\ Active(w) \subseteq D /\ Missing \subseteq Active(w)
  BY DEF Missing, Active
<1>9. s = [v EXCEPT !.states  = [t \in DOMAIN @ |-> IF t \in Missing
                                   THEN [@[t] EXCEPT !.pending = TRUE, !.change = "none"]
                                   ELSE @[t]],
                    !.updates = [t \in DOMAIN @ \cup Missing |->
                                   IF t \in Missing THEN NoDocument(version) ELSE @[t]]]
  BY <1>7 DEF Synthesized
<1>10. /\ SameWishes(w, s)
       /\ s.states = [t \in D |-> IF t \in Missing
                                  THEN [v.states[t] EXCEPT !.pending = TRUE, !.change = "none"]
                                  ELSE v.states[t]]
       /\ s.updates = [t \in DOMAIN w.updates \cup Missing |-> TakenIn(t, version)]
  <2>1. SameWishes(w, s)
    BY <1>4, <1>9 DEF SameWishes, Fields
  <2>2. DOMAIN v = Fields /\ Fields = {"states", "updates"} \cup Fields
    BY <1>4 DEF SameWishes, Fields
  <2>3. s.states = [t \in D |-> IF t \in Missing
                                THEN [v.states[t] EXCEPT !.pending = TRUE, !.change = "none"]
                                ELSE v.states[t]]
    BY <1>5, <1>9, <2>2
  <2>4. s.updates = [t \in DOMAIN v.updates \cup Missing |->
                       IF t \in Missing THEN NoDocument(version) ELSE v.updates[t]]
    BY <1>9, <2>2
  <2>5. s.updates = [t \in DOMAIN w.updates \cup Missing |-> TakenIn(t, version)]
    BY <1>4, <2>4 DEF TakenIn
  <2>6. QED
    BY <2>1, <2>3, <2>5
<1>11. /\ event = [changes |-> Restrict(s.states, {t \in Active(s) : s.states[t].pending}),
                   updates |-> s.updates]
       /\ a = [s EXCEPT !.states = [t \in DOMAIN @ |-> IF t \in Active(s)
                              THEN [@[t] EXCEPT !.pending = FALSE, !.change = "none"]
                              ELSE @[t]],
                        !.updates = <<>>]
  BY DEF RemoteEvent, AfterRemoteEvent
<1> HIDE DEF s
<1>12. /\ DOMAIN s.states = D
       /\ \A t \in D : /\ s.states[t].current = w.states[t].current
                       /\ s.states[t].change = IF t \in Missing THEN "none" ELSE w.states[t].change
                       /\ s.states[t].outstanding = w.states[t].outstanding
                       /\ DOMAIN s.states[t] = DOMAIN w.states[t]
                       /\ t \in Active(w) => s.states[t].pending = TRUE /\ s.states[t].token = version
  <2>1. DOMAIN s.states = D
    BY <1>10
  <2>2. ASSUME NEW t \in D
        PROVE  /\ s.states[t].current = w.states[t].current
               /\ s.states[t].change = IF t \in Missing THEN "none" ELSE w.states[t].change
               /\ s.states[t].outstanding = w.states[t].outstanding
               /\ DOMAIN s.states[t] = DOMAIN w.states[t]
               /\ t \in Active(w) => s.states[t].pending = TRUE /\ s.states[t].token = version
    <3>1. DOMAIN v.states[t] = {"outstanding", "pending", "change", "current", "token"}
      BY <1>5 DEF Shape, IsTargetState
    <3>2. s.states[t] = IF t \in Missing THEN [v.states[t] EXCEPT !.pending = TRUE, !.change = "none"]
                        ELSE v.states[t]
      BY <1>10
    <3>3. QED
      BY <1>5, <3>1, <3>2
  <2>3. QED
    BY <2>1, <2>2
<1>13. Active(s) = Active(w)
  BY <1>10, <1>12 DEF Active, IsActiveTarget, TargetState, SameWishes
<1>14. {t \in Active(s) : s.states[t].pending} = Active(w)
  BY <1>8, <1>12, <1>13
<1>15. /\ DOMAIN event.changes = Active(w)
       /\ \A t \in Active(w) : event.changes[t] = s.states[t]
       /\ event.updates = s.updates
  <2> DEFINE S == {t \in Active(s) : s.states[t].pending}
  <2>1. event.changes = Restrict(s.states, S) /\ event.updates = s.updates
    BY <1>11
  <2>2. S = Active(w)
    BY <1>14
  <2> HIDE DEF S
  <2>3. QED
    BY <2>1, <2>2 DEF Restrict
<1>16. /\ SameWishes(w, a) /\ DOMAIN a.updates = {}
       /\ a.states = [t \in D |-> IF t \in Active(w)
                                  THEN [s.states[t] EXCEPT !.pending = FALSE, !.change = "none"]
                                  ELSE s.states[t]]
  <2>1. SameWishes(w, a)
    BY <1>10, <1>11 DEF SameWishes, Fields
  <2>2. DOMAIN s = Fields /\ Fields = {"states", "updates"} \cup Fields
    BY <1>10 DEF SameWishes, Fields
  <2>4. a.updates = <<>>
    BY <1>11, <2>2
  <2>5. DOMAIN a.updates = {}
    BY <2>4
  <2>3. a.states = [t \in D |-> IF t \in Active(w)
                                THEN [s.states[t] EXCEPT !.pending = FALSE, !.change = "none"]
                                ELSE s.states[t]]
    BY <1>11, <1>12, <1>13, <2>2
  <2>6. QED
    BY <2>1, <2>3, <2>5
<1>17. ASSUME NEW t \in D
       PROVE  /\ a.states[t].current = w.states[t].current
              /\ a.states[t].change = IF t \in Active(w) THEN "none" ELSE w.states[t].change
  <2>1. DOMAIN s.states[t] = {"outstanding", "pending", "change", "current", "token"}
    BY <1>12 DEF Shape, IsTargetState
  <2>2. a.states[t] = IF t \in Active(w) THEN [s.states[t] EXCEPT !.pending = FALSE, !.change = "none"]
                      ELSE s.states[t]
    BY <1>16
  <2>3. QED
    BY <1>8, <1>12, <2>1, <2>2
<1>18. \A t \in Active(w) :
         /\ event.changes[t].current = w.states[t].current
         /\ event.changes[t].change = IF t \in Missing THEN "none" ELSE w.states[t].change
         /\ event.changes[t].token = version
  BY <1>8, <1>12, <1>15
<1>19. /\ DOMAIN event.updates = DOMAIN w.updates \cup Missing
       /\ \A t \in DOMAIN event.updates : event.updates[t] = TakenIn(t, version)
  BY <1>10, <1>15
<1>20. DOMAIN a.states = D
  BY <1>16
<1>21. QED
  BY <1>15, <1>16, <1>17, <1>18, <1>19, <1>20

\* What a snapshot does, in terms of what the aggregator has when it is read.
LEMMA SnapshotTakes ==
    ASSUME Shape(w), NEW e, NEW version \in Nat \ {0},
           RaiseWatchSnapshot(UpdateState(w, "Online"), e, version)
    PROVE  /\ SameWishes(w, w') /\ DOMAIN w'.updates = {}
           /\ DOMAIN w'.states = DOMAIN w.states
           /\ \A t \in DOMAIN w.states :
                /\ w'.states[t].current = w.states[t].current
                /\ w'.states[t].change = IF t \in Active(w) THEN "none" ELSE w.states[t].change
           /\ \A t : t \in keys' <=>
                \/ t \in Active(w) /\ t \notin Missing /\ w.states[t].change = "added"
                \/ t \in keys /\ ~(t \in Active(w) /\ t \notin Missing /\ w.states[t].change = "removed")
           /\ DOMAIN token' = Targets /\ DOMAIN cache' = Targets
           /\ \A t \in Targets :
                /\ token'[t] = IF t \in Active(w) THEN version ELSE token[t]
                /\ cache'[t] = IF t \in DOMAIN w.updates \cup Missing
                               THEN Newer(TakenIn(t, version), cache[t]) ELSE cache[t]
<1> DEFINE v == HandleNoChange(UpdateState(w, "Online"), version)
           a == AfterRemoteEvent(v, version, keys)
           event == RemoteEvent(v, version, keys)
<1>1. /\ keys' = (keys \ {t \in DOMAIN event.changes : event.changes[t].change = "removed"})
                    \cup {t \in DOMAIN event.changes : event.changes[t].change = "added"}
       /\ token' = [t \in Targets |-> IF t \in DOMAIN event.changes /\ event.changes[t].token # 0
                                      THEN event.changes[t].token ELSE token[t]]
       /\ cache' = [t \in Targets |-> IF t \in DOMAIN event.updates
                                      THEN Newer(event.updates[t], cache[t]) ELSE cache[t]]
       /\ \E b : w' = Assert_(a, b)
  <2>1. keys' = (keys \ {t \in DOMAIN event.changes : event.changes[t].change = "removed"})
                  \cup {t \in DOMAIN event.changes : event.changes[t].change = "added"}
    BY DEF RaiseWatchSnapshot
  <2>2. token' = [t \in Targets |-> IF t \in DOMAIN event.changes /\ event.changes[t].token # 0
                                    THEN event.changes[t].token ELSE token[t]]
    BY DEF RaiseWatchSnapshot
  <2>3. cache' = [t \in Targets |-> IF t \in DOMAIN event.updates
                                    THEN Newer(event.updates[t], cache[t]) ELSE cache[t]]
    BY DEF RaiseWatchSnapshot
  <2>4. \E b : w' = Assert_(a, b)
    BY DEF RaiseWatchSnapshot
  <2>5. QED
    BY <2>1, <2>2, <2>3, <2>4
<1>2. /\ DOMAIN event.changes = Active(w)
      /\ \A t \in Active(w) :
           /\ event.changes[t].current = w.states[t].current
           /\ event.changes[t].change = IF t \in Missing THEN "none" ELSE w.states[t].change
           /\ event.changes[t].token = version
      /\ DOMAIN event.updates = DOMAIN w.updates \cup Missing
      /\ \A t \in DOMAIN event.updates : event.updates[t] = TakenIn(t, version)
      /\ SameWishes(w, a) /\ DOMAIN a.updates = {} /\ DOMAIN a.states = DOMAIN w.states
      /\ \A t \in DOMAIN w.states :
           /\ a.states[t].current = w.states[t].current
           /\ a.states[t].change = IF t \in Active(w) THEN "none" ELSE w.states[t].change
  BY SnapshotEvent
<1> HIDE DEF a, event
<1>3. SameWishes(w, w') /\ w'.states = a.states /\ w'.updates = a.updates
  BY <1>1, <1>2 DEF Assert_, SameWishes, Fields
<1>4. Missing \subseteq Active(w)
  BY DEF Missing
<1>5. \A t : t \in keys' <=>
         \/ t \in Active(w) /\ t \notin Missing /\ w.states[t].change = "added"
         \/ t \in keys /\ ~(t \in Active(w) /\ t \notin Missing /\ w.states[t].change = "removed")
  BY <1>1, <1>2
<1>6. DOMAIN token' = Targets /\ DOMAIN cache' = Targets
  BY <1>1
<1>7. ASSUME NEW t \in Targets
      PROVE  /\ token'[t] = IF t \in Active(w) THEN version ELSE token[t]
             /\ cache'[t] = IF t \in DOMAIN w.updates \cup Missing
                            THEN Newer(TakenIn(t, version), cache[t]) ELSE cache[t]
  <2>1. token'[t] = IF t \in Active(w) THEN version ELSE token[t]
    BY <1>1, <1>2
  <2>2. cache'[t] = IF t \in DOMAIN event.updates THEN Newer(event.updates[t], cache[t]) ELSE cache[t]
    BY <1>1
  <2>3. QED
    BY <1>2, <2>2, <2>1
<1>8. QED
  BY <1>2, <1>3, <1>5, <1>6, <1>7

\* A snapshot is read while nothing is denied.  What it covers has come: it is
\* with the aggregator or was taken in before, or there is no such document.
LEMMA SnapshotTruth ==
    ASSUME Truth, Inv', answers # <<>>, answers' = Tail(answers),
           UNCHANGED <<server, serving, denied>>, denied = {},
           NEW m, m = Head(answers), IsSnapshot(m), NEW e,
           RaiseWatchSnapshot(UpdateState(w, "Online"), e, m.version)
    PROVE  Truth'
<1> DEFINE V == m.version
           A == Active(w)
<1>1. IsOpen(w)
  BY DEF Truth, Inv
<1>2. LastVersion' = LastVersion /\ LastVersion \in Nat \ {0}
      /\ \A x \in Targets : server[x].at <= LastVersion /\ server[x].at \in Nat \ {0}
  BY SameLastVersion, LastVersionIsLast DEF Truth, Typed
<1>3. 1 \in Places /\ m = answers[1]
  <2>1. Len(answers) \in Nat \ {0} /\ m = answers[1]
    BY Tailed DEF Truth, Inv
  <2>2. QED
    BY <2>1 DEF Places
<1>4. V \in 1..LastVersion /\ \A x \in Targets : token[x] <= V /\ token[x] \in 0..LastVersion
  BY <1>3 DEF Truth, Messages, IsSnapshot
<1>5. /\ SameWishes(w, w') /\ DOMAIN w'.updates = {}
      /\ DOMAIN w'.states = DOMAIN w.states
      /\ \A t \in DOMAIN w.states :
           /\ w'.states[t].current = w.states[t].current
           /\ w'.states[t].change = IF t \in A THEN "none" ELSE w.states[t].change
      /\ \A t : t \in keys' <=>
           \/ t \in A /\ t \notin Missing /\ w.states[t].change = "added"
           \/ t \in keys /\ ~(t \in A /\ t \notin Missing /\ w.states[t].change = "removed")
      /\ DOMAIN token' = Targets /\ DOMAIN cache' = Targets
      /\ \A t \in Targets :
           /\ token'[t] = IF t \in A THEN V ELSE token[t]
           /\ cache'[t] = IF t \in DOMAIN w.updates \cup Missing
                          THEN Newer(TakenIn(t, V), cache[t]) ELSE cache[t]
  <2>1. V \in Nat \ {0}
    BY <1>2, <1>4
  <2>2. QED
    BY <2>1, SnapshotTakes DEF Truth, Inv
<1>6. IsOpen(w') /\ w'.listens = w.listens /\ w'.outgoing = w.outgoing
  BY <1>1, <1>5 DEF SameWishes, IsOpen
<1>7. ASSUME NEW x \in Targets
      PROVE  x \in A <=> InForce(x) /\ x \in DOMAIN w.states
  BY <1>1, ActiveMeans DEF Truth, Active
<1> HIDE DEF A, V
<1>8. ASSUME NEW x
      PROVE  /\ Settled(x)' <=> Settled(x)
             /\ ~Counts(m, x) => (InForce(x)' <=> InForce(x))
                                 /\ (Since(answers', 0, x) <=> Since(answers, 0, x))
             /\ Since(answers, 0, x) => Since(answers, 1, x)
             /\ Coming(x) => \/ Coming(x)'
                             \/ IsDocument(m, x) /\ Since(answers, 1, x) /\ m.content.at = server[x].at
             /\ Absent(x) => \A i \in Places' : Since(answers', i, x) =>
                               /\ ~IsDocument(answers'[i], x)
                               /\ IsSnapshot(answers'[i]) => answers'[i].version >= server[x].at
             /\ SaidCurrent(x) => \/ SaidCurrent(x)'
                                  \/ x \in DOMAIN w.states /\ w.states[x].current
                                  \/ IsCurrent(m, x) /\ Since(answers, 1, x)
  BY <1>6, AnswerShifts
<1>9. \A x : ~IsCurrent(m, x) /\ ~Counts(m, x) /\ ~IsDocument(m, x)
  BY DEF Counts, IsDocument, IsCurrent, IsSnapshot
<1>10. Typed'
  BY <1>5, <1>6 DEF Truth, Typed
<1>11. Requests' /\ Messages' /\ Denials' /\ Watched' /\ InOrder' /\ Flushed'
  <2>1. \A x \in Targets : \/ token'[x] = token[x]
                           \/ IsSnapshot(m) /\ token'[x] = m.version /\ InForce(x)
    BY <1>5, <1>7 DEF V
  <2>2. QED
    BY <1>5, <1>6, <2>1, AnswerLeaves
<1>12. Updates'
  BY <1>5 DEF Updates
<1>13. Changes'
  <2>1. ASSUME NEW x \in Targets, InForce(x), x \in DOMAIN w.states
        PROVE  w'.states[x].change = "none"
    BY <1>5, <1>7, <2>1
  <2>2. QED
    BY <1>5, <1>8, <1>9, <2>1 DEF Changes
<1>14. ASSUME NEW x \in A, x \in Targets
       PROVE  /\ Settled(x) /\ Since(answers, 0, x) /\ Since(answers, 1, x)
              /\ Coming(x) \/ Pending(x) \/ Covered(x) \/ Absent(x)
              /\ w.states[x].current
  <2>1. InForce(x) /\ x \in DOMAIN w.states
    BY <1>7, <1>14
  <2>2. Settled(x)
    BY <1>1, <1>14, <2>1 DEF Truth, Watched, InForce, Settled
  <2>3. Since(answers, 0, x) /\ Since(answers, 1, x)
    BY <1>8, <2>1 DEF InForce
  <2>4. w.states[x].current
    <3>1. SaidCurrent(x)
      BY <1>14, <2>2 DEF Truth, CurrentFirst
    <3>2. ASSUME NEW j \in Places, IsCurrent(answers[j], x),
                 \A i \in Places : i < j /\ IsSnapshot(answers[i]) => ~Since(answers, i, x)
          PROVE  FALSE
      <4>1. j # 1
        BY <1>3, <1>9, <3>2
      <4>2. 1 < j
        BY <4>1 DEF Places
      <4>3. QED
        BY <1>3, <2>3, <3>2, <4>2
    <3>3. QED
      BY <3>1, <3>2 DEF SaidCurrent
  <2>5. QED
    BY <1>14, <2>2, <2>3, <2>4 DEF Truth, Accounted
<1>15. ASSUME NEW x \in Targets, x \in A, V >= server[x].at
       PROVE  Pending(x) \/ Covered(x) \/ Absent(x)
  <2>1. ASSUME Coming(x) PROVE FALSE
    <3>1. PICK j \in Places : /\ Since(answers, j, x) /\ IsDocument(answers[j], x)
                              /\ answers[j].content.at = server[x].at
      BY <2>1 DEF Coming
    <3>2. j # 1
      BY <1>3, <1>9, <3>1
    <3>3. 1 < j
      BY <3>2 DEF Places
    <3>4. V < answers[j].content.at
      BY <1>3, <1>14, <1>15, <3>1, <3>3 DEF Truth, InOrder, V
    <3>5. QED
      BY <1>2, <1>4, <1>15, <3>1, <3>4
  <2>2. QED
    BY <1>14, <1>15, <2>1
<1>16. \A x \in Targets : x \in Missing =>
         x \in A /\ x = Profile /\ x \notin DOMAIN w.updates /\ x \notin keys
  BY TargetsAssumption DEF Missing, A
<1>17. ASSUME NEW x \in Targets, x \in DOMAIN w.updates
       PROVE  /\ x \notin Missing /\ TakenIn(x, V) = w.updates[x]
              /\ Past(w.updates[x], x) /\ token[x] < w.updates[x].at /\ w.updates[x].at <= V
              /\ x = Questions => x \in A
  <2>1. x \notin Missing
    BY <1>16, <1>17
  <2>2. /\ Past(w.updates[x], x) /\ token[x] < w.updates[x].at /\ w.updates[x].at <= V
        /\ x = Questions => InForce(x)
    BY <1>3, <1>17 DEF Truth, Updates, V
  <2>3. InForce(x) => x \in DOMAIN w.states
    BY <1>17 DEF Truth, Changes
  <2>4. QED
    BY <1>7, <2>1, <2>2, <2>3 DEF TakenIn
<1>18. ASSUME NEW x \in Targets, x \in Missing
       PROVE  TakenIn(x, V) = NoDocument(V) /\ NoDocument(V).at = V /\ NoDocument(V).exists = FALSE
  BY <1>18 DEF TakenIn, NoDocument
<1>19. Accounted'
  <2>1. ASSUME NEW x \in Targets, Settled(x)
        PROVE  Coming(x)' \/ Pending(x)' \/ Covered(x)' \/ Absent(x)'
    <3>1. Coming(x) \/ Pending(x) \/ Covered(x) \/ Absent(x)
      BY <2>1 DEF Truth, Accounted
    <3>2. CASE Coming(x)
      BY <1>8, <1>9, <3>2
    <3>3. CASE Pending(x)
      <4>1. x \in A
        BY <1>7, <2>1, <3>3 DEF Pending, Settled, InForce
      <4>2. server[x].at <= V
        BY <1>17, <3>3 DEF Pending
      <4>3. QED
        BY <1>2, <1>4, <1>5, <4>1, <4>2 DEF Covered
    <3>4. CASE Covered(x)
      BY <1>2, <1>4, <1>5, <3>4 DEF Covered
    <3>5. CASE Absent(x) /\ x \in A
      <4>1. V >= server[x].at
        BY <1>3, <1>14, <3>5 DEF Absent, V
      <4>2. QED
        BY <1>5, <3>5, <4>1 DEF Covered
    <3>6. CASE Absent(x) /\ x \notin A
      BY <1>5, <1>8, <3>6 DEF Absent
    <3>7. QED
      BY <3>1, <3>2, <3>3, <3>4, <3>5, <3>6
  <2>2. QED
    BY <1>8, <2>1 DEF Accounted
<1>20. CurrentFirst'
  <2>1. ASSUME NEW x \in Targets, Settled(x)
        PROVE  SaidCurrent(x)'
    <3>1. \/ SaidCurrent(x)'
          \/ x \in DOMAIN w.states /\ w.states[x].current
      BY <1>8, <1>9, <2>1 DEF Truth, CurrentFirst
    <3>2. QED
      BY <1>5, <3>1 DEF SaidCurrent
  <2>2. QED
    BY <1>8, <2>1 DEF CurrentFirst
<1>21. Knowledge'
  <2>1. ASSUME NEW x \in Targets
        PROVE  /\ server[x].at \in Nat \ {0} /\ server[x].at <= LastVersion
               /\ server[x].exists \in BOOLEAN
               /\ token[x] \in 0..LastVersion
               /\ cache[x].at \in 0..LastVersion /\ cache[x].exists \in BOOLEAN
               /\ cache[x].at >= server[x].at => cache[x].exists = server[x].exists
    BY <1>2, <1>4 DEF Truth, Typed, Knowledge
  <2>2. ASSUME NEW x \in Targets, x \in DOMAIN w.updates
        PROVE  /\ w.updates[x].at \in 0..LastVersion /\ w.updates[x].exists \in BOOLEAN
               /\ w.updates[x].at <= server[x].at
               /\ w.updates[x].at = server[x].at => w.updates[x].exists = server[x].exists
               /\ ~Covered(x)
    <3>1. Past(w.updates[x], x) /\ token[x] < w.updates[x].at
      BY <1>17, <2>2
    <3>2. /\ w.updates[x].at \in Nat /\ w.updates[x].at <= server[x].at
          /\ w.updates[x].exists \in BOOLEAN
          /\ w.updates[x].at = server[x].at => w.updates[x].exists = server[x].exists
      BY <3>1 DEF Past
    <3>3. QED
      BY <1>2, <2>1, <3>1, <3>2 DEF Covered
  <2>3. ASSUME NEW x \in Targets
        PROVE  cache'[x].at \in 0..LastVersion /\ cache'[x].exists \in BOOLEAN
    <3>1. CASE x \in DOMAIN w.updates
      <4>1. cache'[x] = IF w.updates[x].at > cache[x].at THEN w.updates[x] ELSE cache[x]
        BY <1>5, <1>17, <3>1 DEF Newer
      <4>2. QED
        BY <2>1, <2>2, <3>1, <4>1
    <3>2. CASE x \in Missing
      <4>1. cache'[x] = IF V > cache[x].at THEN NoDocument(V) ELSE cache[x]
        BY <1>5, <1>18, <3>2, ZenonT(60) DEF Newer
      <4>2. NoDocument(V).at = V /\ NoDocument(V).exists = FALSE
        BY <1>18, <3>2
      <4>3. V \in 0..LastVersion
        BY <1>2, <1>4
      <4>4. CASE V > cache[x].at
        BY <4>1, <4>2, <4>3, <4>4
      <4>5. CASE ~(V > cache[x].at)
        BY <2>1, <4>1, <4>5
      <4>6. QED
        BY <4>4, <4>5
    <3>3. CASE x \notin DOMAIN w.updates \cup Missing
      BY <1>5, <2>1, <3>3
    <3>4. QED
      BY <3>1, <3>2, <3>3
  <2>4. ASSUME NEW x \in Targets, x \in A, V >= server[x].at
        PROVE  /\ x \in keys' <=> server[x].exists
               /\ \/ cache'[x].at >= server[x].at
                  \/ x = Questions /\ ~cache'[x].exists /\ ~server[x].exists
               /\ cache'[x].at >= server[x].at => cache'[x].exists = server[x].exists
    <3>0. x \in DOMAIN w.states /\ InForce(x)
      BY <1>7, <2>4
    <3>1. Pending(x) \/ Covered(x) \/ Absent(x)
      BY <1>15, <2>4
    <3>2. CASE Pending(x)
      <4>1. /\ x \in DOMAIN w.updates /\ w.updates[x].at = server[x].at
            /\ w.updates[x].exists = server[x].exists
            /\ x \notin Missing /\ TakenIn(x, V) = w.updates[x]
        BY <1>17, <2>2, <3>2 DEF Pending
      <4>2. w.states[x].change = ChangeFor(w.updates[x], x)
        BY <3>0, <4>1 DEF Truth, Changes
      <4>3. x \in keys' <=> server[x].exists
        BY <1>5, <2>1, <2>4, <4>1, <4>2 DEF ChangeFor
      <4>4. cache'[x] = IF w.updates[x].at > cache[x].at THEN w.updates[x] ELSE cache[x]
        BY <1>5, <4>1 DEF Newer
      <4>5. QED
        BY <2>1, <2>2, <4>1, <4>3, <4>4
    <3>3. CASE Covered(x)
      <4>1. x \notin DOMAIN w.updates
        BY <2>2, <3>3
      <4>2. w.states[x].change = "none"
        BY <3>0, <4>1 DEF Truth, Changes
      <4>3. /\ x \in keys <=> server[x].exists
            /\ \/ cache[x].at >= server[x].at
               \/ x = Questions /\ ~cache[x].exists /\ ~server[x].exists
        BY <3>3 DEF Truth, Knowledge
      <4>4. x \in keys' <=> x \in keys
        BY <1>5, <4>2
      <4>5. CASE x \in Missing
        <5>1. ~server[x].exists /\ x # Questions
          BY <1>16, <4>3, <4>5, TargetsAssumption
        <5>2. cache'[x] = IF V > cache[x].at THEN NoDocument(V) ELSE cache[x]
          BY <1>5, <1>18, <4>5, ZenonT(60) DEF Newer
        <5>3. QED
          BY <1>4, <1>18, <2>1, <2>4, <4>3, <4>4, <4>5, <5>1, <5>2
      <4>6. CASE x \notin Missing
        <5>1. cache'[x] = cache[x]
          BY <1>5, <4>1, <4>6
        <5>2. QED
          BY <2>1, <4>3, <4>4, <5>1
      <4>7. QED
        BY <4>5, <4>6
    <3>4. CASE Absent(x)
      <4>1. /\ x \notin DOMAIN w.updates /\ token[x] = 0 /\ ~server[x].exists
        BY <1>14, <2>4, <3>4 DEF Absent
      <4>2. x \notin keys
        BY <4>1 DEF Truth, Knowledge
      <4>3. w.states[x].change = "none"
        BY <3>0, <4>1 DEF Truth, Changes
      <4>4. x \notin keys'
        BY <1>5, <4>2, <4>3
      <4>5. CASE x = Profile
        <5>1. x \in Missing
          BY <1>14, <2>4, <4>1, <4>2, <4>5, TargetsAssumption DEF Missing, A
        <5>2. cache'[x] = IF V > cache[x].at THEN NoDocument(V) ELSE cache[x]
          BY <1>5, <1>18, <5>1, ZenonT(60) DEF Newer
        <5>3. NoDocument(V).at = V /\ NoDocument(V).exists = FALSE
          BY <1>18, <5>1
        <5>4. V \in Nat
          BY <1>2, <1>4
        <5>5. CASE V > cache[x].at
          <6>1. cache'[x].at = V /\ cache'[x].exists = FALSE
            BY <5>2, <5>3, <5>5
          <6>2. QED
            BY <2>1, <2>4, <4>1, <4>4, <6>1
        <5>6. CASE ~(V > cache[x].at)
          <6>1. cache'[x] = cache[x]
            BY <5>2, <5>6
          <6>2. cache[x].at >= server[x].at
            BY <1>2, <2>1, <2>4, <5>4, <5>6
          <6>3. cache[x].exists = server[x].exists
            BY <2>1, <6>2
          <6>4. QED
            BY <4>1, <4>4, <6>1, <6>2, <6>3
        <5>7. QED
          BY <5>5, <5>6
      <4>6. CASE x = Questions
        <5>1. x \notin Missing
          BY <1>16, <4>6, TargetsAssumption
        <5>2. cache'[x] = cache[x]
          BY <1>5, <4>1, <5>1
        <5>3. ~cache[x].exists
          BY <4>1, <4>6 DEF Truth, Knowledge
        <5>4. QED
          BY <2>1, <4>1, <4>4, <4>6, <5>2, <5>3
      <4>7. QED
        BY <4>5, <4>6 DEF Targets
    <3>5. QED
      BY <3>1, <3>2, <3>3, <3>4
  <2>5. ASSUME NEW x \in Targets, ~(x \in A /\ V >= server[x].at)
        PROVE  /\ cache'[x].at >= server[x].at => cache'[x].exists = server[x].exists
    <3>1. CASE x \in DOMAIN w.updates
      <4>1. cache'[x] = IF w.updates[x].at > cache[x].at THEN w.updates[x] ELSE cache[x]
        BY <1>5, <1>17, <3>1 DEF Newer
      <4>2. QED
        BY <2>1, <2>2, <3>1, <4>1
    <3>2. CASE x \in Missing
      <4>1. cache'[x] = IF V > cache[x].at THEN NoDocument(V) ELSE cache[x]
        BY <1>5, <1>18, <3>2, ZenonT(60) DEF Newer
      <4>2. ~(V >= server[x].at)
        BY <1>16, <2>5, <3>2
      <4>3. QED
        BY <1>2, <1>4, <1>18, <2>1, <3>2, <4>1, <4>2
    <3>3. CASE x \notin DOMAIN w.updates \cup Missing
      BY <1>5, <2>1, <3>3
    <3>4. QED
      BY <3>1, <3>2, <3>3
  <2>6. ASSUME NEW x \in Targets, x \notin A, Covered(x)
        PROVE  /\ x \in keys' <=> server[x].exists
               /\ \/ cache'[x].at >= server[x].at
                  \/ x = Questions /\ ~cache'[x].exists /\ ~server[x].exists
    <3>1. x \notin DOMAIN w.updates \cup Missing
      BY <1>16, <2>2, <2>6
    <3>2. cache'[x] = cache[x] /\ (x \in keys' <=> x \in keys)
      BY <1>5, <2>6, <3>1
    <3>3. QED
      BY <2>6, <3>2 DEF Truth, Knowledge
  <2>7. ASSUME NEW x \in Targets, token'[x] = 0
        PROVE  x \notin keys' /\ token[x] = 0 /\ x \notin A
    <3>1. x \notin A /\ token[x] = 0
      BY <1>4, <1>5, <2>7
    <3>2. QED
      BY <1>5, <3>1 DEF Truth, Knowledge
  <2>8. ASSUME token'[Questions] = 0 PROVE ~cache'[Questions].exists
    <3>1. Questions \in Targets
      BY DEF Targets
    <3>2. Questions \notin A /\ token[Questions] = 0
      BY <2>7, <2>8, <3>1
    <3>3. Questions \notin DOMAIN w.updates \cup Missing
      BY <1>16, <1>17, <3>1, <3>2
    <3>4. QED
      BY <1>5, <3>1, <3>2, <3>3 DEF Truth, Knowledge
  <2>9. ASSUME NEW x \in Targets, Covered(x)'
        PROVE  /\ x \in keys' <=> server[x].exists
               /\ \/ cache'[x].at >= server[x].at
                  \/ x = Questions /\ ~cache'[x].exists /\ ~server[x].exists
    <3>1. CASE x \in A
      <4>1. V >= server[x].at
        BY <1>5, <2>9, <3>1 DEF Covered
      <4>2. QED
        BY <2>4, <3>1, <4>1
    <3>2. CASE x \notin A
      <4>1. Covered(x)
        BY <1>5, <2>9, <3>2 DEF Covered
      <4>2. QED
        BY <2>6, <3>2, <4>1
    <3>3. QED
      BY <3>1, <3>2
  <2>10. ASSUME NEW x \in Targets
         PROVE  cache'[x].at >= server[x].at => cache'[x].exists = server[x].exists
    BY <2>4, <2>5
  <2>11. QED
    BY <1>2, <2>3, <2>7, <2>8, <2>9, <2>10 DEF Knowledge
<1>22. QED
  BY <1>10, <1>11, <1>12, <1>13, <1>19, <1>20, <1>21 DEF Truth

\* An answer to a request of t is read: the state of t goes or counts one less.
LEMMA AnsweredTruth ==
    ASSUME Truth, Inv', answers # <<>>, answers' = Tail(answers),
           UNCHANGED <<server, serving, denied, token, cache, keys>>, denied = {},
           NEW m, m = Head(answers), NEW t \in Targets, Counts(m, t),
           NEW v, Shape(v), SameWishes(w, v), v.states = w.states, v.updates = w.updates,
           \/ m.op = "added" /\ w' = HandleAdded(v, t)
           \/ m.op = "removed" /\ w' = HandleRemoved(v, t)
    PROVE  Truth'
<1>1. IsOpen(w) /\ IsOpen(v)
  BY DEF Truth, Inv, SameWishes, IsOpen
<1>2. \A x : TargetState(v, x) = TargetState(w, x) /\ Outstanding(v, x) = Outstanding(w, x)
  BY DEF TargetState, Outstanding
<1>3. CASE m.op = "added"
  <2>1. /\ Touched(v, w', t) /\ w'.updates = v.updates
        /\ w'.states[t].current = TargetState(v, t).current
        /\ w'.states[t].outstanding = 0 => w'.states[t].change = "none"
    BY <1>3, AddedTouches
  <2>2. /\ SameWishes(w, w') /\ w'.updates = w.updates
        /\ \A x : x # t => (x \in DOMAIN w'.states <=> x \in DOMAIN w.states)
        /\ \A x \in DOMAIN w.states : x # t => w'.states[x] = w.states[x]
        /\ t \in DOMAIN w'.states
    BY <2>1 DEF Touched, SameWishes
  <2>3. IsOpen(w')
    BY <1>1, <2>2 DEF SameWishes, IsOpen
  <2>4. ASSUME InForce(t)' PROVE w'.states[t].change = "none"
    <3>1. Outstanding(w', t) = 0
      BY <2>3, <2>4, NextActiveMeans DEF InForce
    <3>2. QED
      BY <2>1, <2>2, <3>1 DEF Outstanding, TargetState
  <2>5. t \in DOMAIN w.states => w'.states[t].current = w.states[t].current
    BY <1>2, <2>1 DEF TargetState
  <2>6. QED
    BY <2>2, <2>4, <2>5, CountedTruth
<1>4. CASE m.op = "removed"
  <2>1. /\ SameWishes(v, w') /\ w'.updates = v.updates
        /\ \A x : x # t => (x \in DOMAIN w'.states <=> x \in DOMAIN v.states)
        /\ \A x \in DOMAIN v.states : x # t => w'.states[x] = v.states[x]
        /\ Outstanding(v, t) = 1 => t \notin DOMAIN w'.states
        /\ Outstanding(v, t) # 1 => t \in DOMAIN w'.states
                                    /\ w'.states[t].current = TargetState(v, t).current
    BY <1>3, <1>4, RemovedTouches
  <2>2. /\ SameWishes(w, w') /\ w'.updates = w.updates
        /\ \A x : x # t => (x \in DOMAIN w'.states <=> x \in DOMAIN w.states)
        /\ \A x \in DOMAIN w.states : x # t => w'.states[x] = w.states[x]
    BY <2>1 DEF SameWishes
  <2>3. IsOpen(w') /\ w'.listens = w.listens /\ w'.outgoing = w.outgoing
    BY <1>1, <2>2 DEF SameWishes, IsOpen
  <2>4. Outstanding(w', t) = Outstanding(v, t) - 1 /\ Outstanding(v, t) \in Int
    BY <1>3, <1>4, HandleRemovedAnswers, TargetStateShape DEF Answered
  <2>5. ASSUME InForce(t)' PROVE t \notin DOMAIN w'.states
    <3>1. Outstanding(w', t) = 0
      BY <2>3, <2>5, NextActiveMeans DEF InForce
    <3>2. QED
      BY <2>1, <2>4, <3>1
  <2>6. ASSUME Settled(t) PROVE Outstanding(v, t) # 1
    <3>1. SUFFICES ASSUME Outstanding(v, t) = 1 PROVE FALSE
      OBVIOUS
    <3>2. Since(answers', 0, t)
      BY <2>3, <2>4, <3>1, NextActiveMeans
    <3>3. /\ 1 \in Places /\ m = answers[1]
          /\ Since(answers', 0, t) => Since(answers, 1, t)
      BY <2>3, AnswerShifts
    <3>4. answers[1].op = "removed" /\ answers[1].target = t
      BY <1>4, <3>3 DEF Counts
    <3>5. t \notin serving
      BY <1>1, <3>2, <3>3, <3>4 DEF Truth, Watched
    <3>6. QED
      BY <2>6, <3>5 DEF Settled
  <2>7. Settled(t) => /\ t \in DOMAIN w'.states
                      /\ t \in DOMAIN w.states => w'.states[t].current = w.states[t].current
    BY <1>2, <2>1, <2>6 DEF TargetState
  <2>8. QED
    BY <2>2, <2>5, <2>7, CountedTruth
<1>5. QED
  BY <1>3, <1>4

LEMMA ReadAnswerTruth ==
    ASSUME Truth, ReadAnswer
    PROVE  Truth'
<1> DEFINE m == Head(answers)
           v == UpdateState(w, "Online")
<1>1. answers # <<>> /\ answers' = Tail(answers) /\ UNCHANGED <<server, denied, serving>>
  BY DEF ReadAnswer, worldVars
<1>2. Inv /\ Shape(w) /\ DOMAIN w = Fields /\ IsOpen(w)
  BY <1>1 DEF Truth, Inv, Shape
<1>3. Inv'
  BY <1>2, ReadAnswerKeepsInv
<1>4. SameWishes(w, v) /\ v.states = w.states /\ v.updates = w.updates
  BY <1>2, OnlineLeaves
<1>5. Shape(v) /\ IsOpen(v)
  BY <1>2, <1>4, AlikeSteps DEF Alike, SameWishes, IsOpen
<1>6. \/ /\ m.op \in {"added", "removed", "current", "document"}
         /\ w' = CASE m.op = "added"    -> HandleAdded(v, m.target)
                   [] m.op = "removed"  -> HandleRemoved(v, m.target)
                   [] m.op = "current"  -> HandleCurrent(v, m.target)
                   [] m.op = "document" -> HandleDocumentChange(v, m.target, m.content, keys)
         /\ UNCHANGED <<token, cache, keys>>
      \/ m.op = "snapshot" /\ \E e : RaiseWatchSnapshot(v, e, m.version)
      \/ /\ m.op = "refused"
         /\ w' = v \/ \E e : RejectListen(v, e, m.target)
         /\ UNCHANGED <<token, cache, keys>>
  BY DEF ReadAnswer, storeVars
<1>7. /\ 1 \in Places /\ m = answers[1]
      /\ m.op # "snapshot" => m.target \in Targets
  <2>1. 1 \in Places /\ m = answers[1]
    BY <1>1, <1>2, Tailed DEF Inv, Places
  <2>2. QED
    BY <2>1 DEF Truth, Messages
<1>8. CASE denied # {}
  <2>1. m.op \in {"refused", "removed"} /\ serving = {}
    BY <1>7, <1>8 DEF Truth, Denials
  <2>2. \A i \in 1..Len(answers') : answers'[i].op \in {"refused", "removed"}
                                    /\ answers'[i].target \in Targets
    <3>1. \A i \in Places : answers[i].op \in {"refused", "removed"} /\ answers[i].target \in Targets
      BY <1>8 DEF Truth, Denials, Messages
    <3>2. QED
      BY <1>1, <3>1, StillThere DEF Places
  <2>3. UNCHANGED <<token, cache, keys>> /\ w'.outgoing = w.outgoing /\ w'.updates = w.updates
        /\ w'.listens \subseteq w.listens
    <3>1. CASE m.op = "removed"
      <4>1. w' = HandleRemoved(v, m.target) /\ UNCHANGED <<token, cache, keys>>
        BY <1>6, <3>1
      <4>2. SameWishes(v, w') /\ w'.updates = v.updates
        BY <1>5, <4>1, RemovedTouches
      <4>3. QED
        BY <1>4, <4>1, <4>2 DEF SameWishes
    <3>2. CASE m.op = "refused" /\ w' = v
      BY <1>4, <1>6, <3>2 DEF SameWishes
    <3>3. CASE m.op = "refused" /\ \E e : RejectListen(v, e, m.target)
      <4>1. w' = RemoveTarget(v, m.target) /\ UNCHANGED <<token, cache, keys>>
        BY <1>6, <3>3 DEF RejectListen
      <4>2. /\ w'.outgoing = v.outgoing /\ w'.updates = v.updates
            /\ w'.listens = v.listens \ {m.target}
        BY <1>5, <4>1 DEF RemoveTarget, Shape, Fields
      <4>3. QED
        BY <1>4, <4>1, <4>2 DEF SameWishes
    <3>4. QED
      BY <1>6, <2>1, <3>1, <3>2, <3>3
  <2>4. Requests'
    BY <2>3 DEF Truth, Requests
  <2>5. QED
    BY <1>1, <1>3, <1>8, <2>1, <2>2, <2>3, <2>4, DeniedTruth
<1>9. CASE denied = {} /\ m.op \in {"added", "removed"}
  <2>1. Counts(m, m.target) /\ UNCHANGED <<token, cache, keys>>
    BY <1>6, <1>9 DEF Counts
  <2>2. \/ m.op = "added" /\ w' = HandleAdded(v, m.target)
        \/ m.op = "removed" /\ w' = HandleRemoved(v, m.target)
    BY <1>6, <1>9
  <2> HIDE DEF v
  <2>3. QED
    BY <1>1, <1>3, <1>4, <1>5, <1>7, <1>9, <2>1, <2>2, AnsweredTruth
<1>10. \A t \in Targets : denied = {} => (IsActiveTarget(v, t) <=> InForce(t))
       /\ TargetState(v, t) = TargetState(w, t)
  BY <1>2, <1>4, ActiveMeans DEF IsActiveTarget, TargetState, SameWishes
<1>11. CASE denied = {} /\ m.op = "current"
  <2>1. w' = HandleCurrent(v, m.target) /\ UNCHANGED <<token, cache, keys>>
    BY <1>6, <1>11
  <2> DEFINE t == m.target
  <2>2. /\ Touched(v, w', t) /\ w'.updates = v.updates
        /\ w'.states[t].change = TargetState(v, t).change
        /\ IsActiveTarget(v, t) => w'.states[t].current = TRUE
        /\ ~IsActiveTarget(v, t) => w'.states[t].current = TargetState(v, t).current
    BY <1>5, <2>1, CurrentTouches
  <2>3. Touched(w, w', t) /\ w'.updates = w.updates
    BY <1>4, <2>2 DEF Touched, SameWishes
  <2>4. t \in Targets /\ IsCurrent(m, t)
    BY <1>7, <1>11 DEF IsCurrent
  <2>5. /\ w'.states[t].change = TargetState(w, t).change
        /\ InForce(t) => w'.states[t].current = TRUE
        /\ ~InForce(t) => w'.states[t].current = TargetState(w, t).current
    BY <1>10, <1>11, <2>2, <2>4
  <2> HIDE DEF t
  <2>6. QED
    BY <1>1, <1>3, <1>11, <2>1, <2>3, <2>4, <2>5, CurrentTruth
<1>12. CASE denied = {} /\ m.op = "document"
  <2>1. w' = HandleDocumentChange(v, m.target, m.content, keys) /\ UNCHANGED <<token, cache, keys>>
    BY <1>6, <1>12
  <2> DEFINE t == m.target
  <2>2. t \in Targets /\ IsDocument(m, t)
    BY <1>7, <1>12 DEF IsDocument
  <2>3. ASSUME InForce(t)
        PROVE  /\ Touched(w, w', t) /\ w'.updates = Put(w.updates, t, m.content)
               /\ w'.states[t].change = ChangeFor(m.content, t)
               /\ w'.states[t].current = TargetState(w, t).current
    <3>1. IsActiveTarget(v, t)
      BY <1>10, <1>12, <2>2, <2>3
    <3>2. /\ Touched(v, w', t) /\ w'.updates = Put(v.updates, t, m.content)
          /\ w'.states[t].change = ChangeFor(m.content, t)
          /\ w'.states[t].current = TargetState(v, t).current
      BY <1>5, <2>1, <3>1, DocumentTouches
    <3>3. QED
      BY <1>4, <1>10, <1>12, <2>2, <3>2 DEF Touched, SameWishes
  <2>4. ASSUME ~InForce(t)
        PROVE  w' = v
    <3>1. ~IsActiveTarget(v, t)
      BY <1>10, <1>12, <2>2, <2>4
    <3>2. QED
      BY <2>1, <3>1 DEF HandleDocumentChange
  <2>5. SameWishes(w, w')
    BY <1>4, <2>3, <2>4 DEF Touched
  <2>6. ~InForce(t) => w'.updates = w.updates /\ w'.states = w.states
    BY <1>4, <2>4
  <2> HIDE DEF t
  <2>7. QED
    BY <1>1, <1>3, <1>12, <2>1, <2>2, <2>3, <2>5, <2>6, DocumentTruth
<1>13. CASE denied = {} /\ m.op = "snapshot"
  <2>1. PICK e : RaiseWatchSnapshot(v, e, m.version)
    BY <1>6, <1>13
  <2>2. IsSnapshot(m)
    BY <1>13 DEF IsSnapshot
  <2>3. QED
    BY <1>1, <1>3, <1>13, <2>1, <2>2, SnapshotTruth
<1>14. ~(denied = {} /\ m.op = "refused")
  BY <1>2, <1>7 DEF Inv, RefusedAreDenied, Places
<1>15. QED
  BY <1>6, <1>8, <1>9, <1>11, <1>12, <1>13, <1>14

(***************************************************************************)
(* What the steps of RemoteStore's client do to requests and documents.    *)
(***************************************************************************)

\* From u to v a request of t is sent, and t is listened to or given up.
Requested(u, v, r, listens) ==
    /\ v.state = u.state /\ v.listens = listens /\ v.updates = u.updates
    /\ v.outgoing = Append(u.outgoing, r)
    /\ DOMAIN v.states = DOMAIN u.states \cup {r.target}
    /\ \A x \in DOMAIN u.states : x # r.target => v.states[x] = u.states[x]

LEMMA SendRequests ==
    ASSUME NEW u, DOMAIN u = Fields, NEW r
    PROVE  Requested(u, Send(u, r), r, u.listens) /\ DOMAIN Send(u, r) = Fields
<1> DEFINE s == [TargetState(u, r.target) EXCEPT !.outstanding = @ + 1]
           p == SetTargetState(u, r.target, s)
           v == Send(u, r)
<1>1. Touched(u, p, r.target) /\ p.updates = u.updates
  BY SetTouches
<1>2. p = RecordPendingTargetRequest(u, r.target)
  BY DEF RecordPendingTargetRequest
<1> HIDE DEF s, p
<1>3. /\ DOMAIN v = Fields /\ v.state = p.state /\ v.listens = p.listens /\ v.updates = p.updates
      /\ v.outgoing = Append(p.outgoing, r) /\ v.states = p.states
  BY <1>1, <1>2 DEF Send, Assert_, Touched, SameWishes, Fields
<1> HIDE DEF v
<1>4. QED
  BY <1>1, <1>3 DEF Touched, SameWishes, Requested, v

\* A stream that starts has no documents.
LEMMA StartLeaves ==
    ASSUME NEW u, DOMAIN u = Fields
    PROVE  LET v == StartWatchStream(u)
           IN  v.listens = u.listens /\ DOMAIN v.updates = {} /\ v.state \in {"Backoff", "Starting"}
<1> DEFINE p == [u EXCEPT !.states = <<>>, !.updates = <<>>,
                          !.state = IF @ = "Error" THEN "Backoff" ELSE "Starting"]
           v == StartWatchStream(u)
<1>1. /\ DOMAIN p = Fields /\ p.listens = u.listens /\ p.updates = <<>>
      /\ p.state \in {"Backoff", "Starting"}
  BY DEF Fields
<1>2. v = HandleWatchStreamStart(p)
  BY DEF StartWatchStream
<1> HIDE DEF p
<1>3. v.listens = p.listens /\ v.updates = p.updates /\ v.state = p.state
  BY <1>1, <1>2 DEF HandleWatchStreamStart, Assert_, Fields
<1>4. QED
  BY <1>1, <1>3

LEMMA ListenRequests ==
    ASSUME NEW u, DOMAIN u = Fields, NEW t, t \notin u.listens, NEW from
    PROVE  LET v == Listen(u, t, from)
           IN  /\ IsOpen(u) => Requested(u, v, WatchRequest(t, from), u.listens \cup {t})
               /\ ~IsOpen(u) /\ DOMAIN u.updates = {} =>
                    /\ v.listens = u.listens \cup {t} /\ DOMAIN v.updates = {} /\ ~IsOpen(v)
<1> DEFINE a == [u EXCEPT !.listens = @ \cup {t}]
           v == Listen(u, t, from)
<1>1. /\ DOMAIN a = Fields /\ a.listens = u.listens \cup {t} /\ a.state = u.state
      /\ a.updates = u.updates /\ a.outgoing = u.outgoing /\ a.states = u.states
  BY DEF Fields
<1>2. v = IF ShouldStartWatchStream(a) THEN StartWatchStream(a)
          ELSE IF IsOpen(u) THEN Send(a, WatchRequest(t, from)) ELSE a
  BY DEF Listen
<1> HIDE DEF a, v
<1>3. CASE IsOpen(u)
  <2>1. v = Send(a, WatchRequest(t, from))
    BY <1>1, <1>2, <1>3 DEF ShouldStartWatchStream, IsStarted, IsOpen
  <2>2. Requested(a, v, WatchRequest(t, from), a.listens)
    BY <1>1, <2>1, SendRequests
  <2>3. QED
    BY <1>1, <1>3, <2>2 DEF Requested, v
<1>4. CASE ~IsOpen(u) /\ ShouldStartWatchStream(a)
  <2>1. v = StartWatchStream(a)
    BY <1>2, <1>4
  <2>2. v.listens = a.listens /\ DOMAIN v.updates = {} /\ v.state \in {"Backoff", "Starting"}
    BY <1>1, <2>1, StartLeaves
  <2>3. QED
    BY <1>1, <1>4, <2>2 DEF IsOpen, v
<1>5. CASE ~IsOpen(u) /\ ~ShouldStartWatchStream(a)
  BY <1>1, <1>2, <1>5 DEF IsOpen, v
<1>6. QED
  BY <1>3, <1>4, <1>5

LEMMA StopListeningRequests ==
    ASSUME NEW u, DOMAIN u = Fields, NEW t
    PROVE  LET v == StopListening(u, t)
           IN  /\ IsOpen(u) => Requested(u, v, UnwatchRequest(t), u.listens \ {t})
               /\ ~IsOpen(u) => /\ v.listens = u.listens \ {t} /\ v.updates = u.updates /\ ~IsOpen(v)
<1> DEFINE r == [Assert_(u, t \in u.listens) EXCEPT !.listens = @ \ {t}]
           d == IF IsOpen(u) THEN Send(r, UnwatchRequest(t)) ELSE r
           v == StopListening(u, t)
<1>1. /\ DOMAIN r = Fields /\ r.listens = u.listens \ {t} /\ r.state = u.state
      /\ r.updates = u.updates /\ r.outgoing = u.outgoing /\ r.states = u.states
  BY DEF Assert_, Fields
<1>2. v = IF d.listens # {} THEN d
          ELSE IF IsOpen(u) THEN [d EXCEPT !.idle = TRUE]
          ELSE UpdateState(d, "Unknown")
  BY DEF StopListening
<1> HIDE DEF r, v
<1>3. CASE IsOpen(u)
  <2>1. Requested(r, d, UnwatchRequest(t), r.listens) /\ DOMAIN d = Fields
    BY <1>1, <1>3, SendRequests
  <2> HIDE DEF d
  <2>2. /\ v.state = d.state /\ v.listens = d.listens /\ v.updates = d.updates
        /\ v.outgoing = d.outgoing /\ v.states = d.states
    BY <1>2, <1>3, <2>1 DEF Fields
  <2>3. QED
    BY <1>1, <1>3, <2>1, <2>2 DEF Requested, v
<1>4. CASE ~IsOpen(u)
  <2>1. d = r
    BY <1>4
  <2> HIDE DEF d
  <2>2. v.state = d.state /\ v.listens = d.listens /\ v.updates = d.updates
    BY <1>1, <1>2, <1>4, <2>1 DEF UpdateState, Fields
  <2>3. QED
    BY <1>1, <1>4, <2>1, <2>2 DEF IsOpen, v
<1>5. QED
  BY <1>3, <1>4

\* However a stream ends, what is listened to is still, and there are no documents.
LEMMA TornDownLeaves ==
    ASSUME NEW u, DOMAIN u = Fields, NEW state
    PROVE  LET v == TornDown(u, state)
           IN  DOMAIN v = Fields /\ v.listens = u.listens /\ DOMAIN v.updates = {}
<1> DEFINE v == TornDown(u, state)
<1>1. DOMAIN v = Fields /\ v.listens = u.listens /\ v.updates = <<>>
  BY DEF TornDown, Fields
<1> HIDE DEF v
<1>2. QED
  BY <1>1 DEF v

LEMMA StopLeaves ==
    ASSUME NEW u, DOMAIN u = Fields, NEW needed
    PROVE  LET v == Stop(u, needed)
           IN  /\ DOMAIN v = Fields /\ v.listens = u.listens
               /\ (~IsOpen(u) /\ DOMAIN u.updates = {}) \/ IsOpen(u) => DOMAIN v.updates = {}
<1> DEFINE v == Stop(u, needed)
           d == TornDown(u, "Initial")
<1>1. CASE ~IsStarted(u)
  BY <1>1 DEF Stop, IsStarted, IsOpen
<1>2. CASE IsStarted(u)
  <2>1. v = UpdateState(Assert_(d, ~(needed /\ u.listens # {})), "Unknown")
    BY <1>2 DEF Stop
  <2>2. DOMAIN d = Fields /\ d.listens = u.listens /\ DOMAIN d.updates = {}
    BY TornDownLeaves
  <2> HIDE DEF d, v
  <2>3. DOMAIN v = Fields /\ v.listens = d.listens /\ v.updates = d.updates
    BY <2>1, <2>2 DEF UpdateState, Assert_, Fields
  <2>4. QED
    BY <2>2, <2>3 DEF v
<1>3. QED
  BY <1>1, <1>2

LEMMA BreakLeaves ==
    ASSUME NEW u, DOMAIN u = Fields
    PROVE  Break(u).listens = u.listens /\ DOMAIN Break(u).updates = {}
<1> DEFINE d == TornDown(u, "Error")
           f == HandleWatchStreamFailure(d)
<1>1. DOMAIN d = Fields /\ d.listens = u.listens /\ DOMAIN d.updates = {}
  BY TornDownLeaves
<1>2. Break(u) = IF d.listens # {} THEN StartWatchStream(f) ELSE UpdateState(d, "Unknown")
  BY DEF Break
<1> HIDE DEF d
<1>3. DOMAIN f = Fields /\ f.listens = d.listens
  BY <1>1 DEF HandleWatchStreamFailure, Assert_, Fields
<1> HIDE DEF f
<1>4. StartWatchStream(f).listens = d.listens /\ DOMAIN StartWatchStream(f).updates = {}
  BY <1>3, StartLeaves
<1>5. UpdateState(d, "Unknown").listens = d.listens /\ UpdateState(d, "Unknown").updates = d.updates
  BY <1>1 DEF UpdateState, Fields
<1>6. QED
  BY <1>1, <1>2, <1>4, <1>5

LEMMA CredentialChangeLeaves ==
    ASSUME NEW u, DOMAIN u = Fields
    PROVE  /\ HandleCredentialChange(u).listens = u.listens
           /\ DOMAIN HandleCredentialChange(u).updates = {}
<1> DEFINE p == Stop(u, FALSE)
           q == [p EXCEPT !.states = <<>>, !.updates = <<>>]
           d == UpdateState(q, "Unknown")
<1>1. DOMAIN p = Fields /\ p.listens = u.listens
  BY StopLeaves
<1>2. HandleCredentialChange(u) = IF ShouldStartWatchStream(d) THEN StartWatchStream(d)
                                  ELSE UpdateState(d, "Unknown")
  BY DEF HandleCredentialChange
<1> HIDE DEF p
<1>3. DOMAIN q = Fields /\ q.listens = u.listens /\ q.updates = <<>>
  BY <1>1 DEF Fields
<1> HIDE DEF q
<1>4. DOMAIN d = Fields /\ d.listens = u.listens /\ d.updates = <<>>
  BY <1>3 DEF UpdateState, Fields
<1> HIDE DEF d
<1>5. StartWatchStream(d).listens = u.listens /\ DOMAIN StartWatchStream(d).updates = {}
  BY <1>4, StartLeaves
<1>6. UpdateState(d, "Unknown").listens = u.listens /\ UpdateState(d, "Unknown").updates = <<>>
  BY <1>4 DEF UpdateState, Fields
<1>7. DOMAIN UpdateState(d, "Unknown").updates = {}
  BY <1>6
<1>8. QED
  BY <1>2, <1>5, <1>6, <1>7

\* When the stream opens every target listened to is asked for, from its token.
AsksForAll(u, v, from) ==
    /\ v.listens = u.listens /\ v.updates = u.updates
    /\ \A i \in 1..Len(v.outgoing) :
         /\ v.outgoing[i].op = "watch" /\ v.outgoing[i].target \in u.listens
         /\ v.outgoing[i].token = from[v.outgoing[i].target]
    /\ \A t \in u.listens : \E i \in 1..Len(v.outgoing) : v.outgoing[i].target = t

LEMMA OpenRequests ==
    ASSUME NEW u, Shape(u), Closed(u), NEW order \in SetToSeqs(u.listens), NEW from
    PROVE  AsksForAll(u, OnWatchStreamOpen(u, order, from), from)
<1> DEFINE v == OnWatchStreamOpen(u, order, from)
           n == Cardinality(u.listens)
           sent == [i \in 1..n |-> WatchRequest(order[i], from[order[i]])]
<1>1. n \in Nat
  BY FS_CardinalityType DEF Shape
<1>2. order \in [1..n -> u.listens] /\ \A i, j \in 1..n : i # j => order[i] # order[j]
  BY DEF SetToSeqs
<1>3. DOMAIN order = 1..n
  BY <1>2
<1>4. \A t \in u.listens : \E i \in 1..n : order[i] = t
  <2>1. order \in Injection(1..n, u.listens)
    BY <1>2 DEF Injection, IsInjective
  <2>2. Cardinality(1..n) = n
    BY <1>1, FS_Interval
  <2>3. order \in Surjection(1..n, u.listens)
    BY <2>1, <2>2, FS_Injection DEF Shape
  <2>4. QED
    BY <2>3 DEF Surjection
<1> HIDE DEF n
<1>5. /\ sent \in Seq({sent[i] : i \in 1..n}) /\ Len(sent) = n
      /\ \A i \in 1..n : /\ sent[i].op = "watch" /\ sent[i].target = order[i]
                         /\ sent[i].token = from[order[i]]
  BY <1>1 DEF WatchRequest
<1>6. /\ v.listens = u.listens /\ v.updates = u.updates
      /\ v.outgoing = u.outgoing \o [i \in DOMAIN order |-> WatchRequest(order[i], from[order[i]])]
  BY DEF OnWatchStreamOpen, Shape, Fields
<1>7. v.outgoing = sent
  <2>1. v.outgoing = <<>> \o sent
    BY <1>3, <1>6 DEF Closed
  <2> HIDE DEF sent
  <2>2. QED
    BY <1>5, <2>1
<1> HIDE DEF v, sent
<1>8. \A i \in 1..n : order[i] \in u.listens
  BY <1>2
<1>9. \A i \in 1..n : /\ v.outgoing[i].op = "watch" /\ v.outgoing[i].target \in u.listens
                      /\ v.outgoing[i].token = from[v.outgoing[i].target]
  BY <1>5, <1>7, <1>8
<1>10. \A t \in u.listens : \E i \in 1..n : v.outgoing[i].target = t
  BY <1>4, <1>5, <1>7
<1>11. Len(v.outgoing) = n
  BY <1>5, <1>7
<1>12. QED
  BY <1>6, <1>9, <1>10, <1>11 DEF AsksForAll, v

(***************************************************************************)
(* Every step keeps it.                                                    *)
(***************************************************************************)

\* What is posted to the worker queue is of one of the targets.
Posted == IsSeq(worker) /\ \A i \in 1..Len(worker) : worker[i].target \in Targets

LEMMA PostedAppend ==
    ASSUME Posted, NEW x, x.target \in Targets, worker' = Append(worker, x)
    PROVE  Posted'
  BY Appended DEF Posted

LEMMA PostedTail ==
    ASSUME Posted, worker # <<>>, worker' = Tail(worker)
    PROVE  Posted' /\ Head(worker).target \in Targets
<1>1. /\ IsSeq(Tail(worker)) /\ Len(worker) \in Nat \ {0} /\ Len(Tail(worker)) = Len(worker) - 1
      /\ Head(worker) = worker[1]
      /\ \A i \in 1..Len(Tail(worker)) : Tail(worker)[i] = worker[i + 1]
  BY Tailed DEF Posted
<1>2. \A i \in 1..Len(Tail(worker)) : i + 1 \in 1..Len(worker)
  BY <1>1
<1>3. QED
  BY <1>1, <1>2 DEF Posted

LEMMA NextKeepsPosted ==
    ASSUME Posted, [Next]_vars
    PROVE  Posted'
<1>1. CASE OpenTab
  <2> DEFINE a == ListenTask(tabs', Profile)
             b == ListenTask(tabs', Questions)
             S == {worker[i] : i \in 1..Len(worker)} \cup {a, b}
  <2>1. worker' = worker \o <<a, b>>
    BY <1>1 DEF OpenTab
  <2>2. a.target \in Targets /\ b.target \in Targets
    BY DEF ListenTask, Targets
  <2>3. worker \in Seq(S) /\ a \in S /\ b \in S
    BY DEF Posted, IsSeq
  <2>4. \A x \in S : x.target \in Targets
    BY <2>2 DEF Posted
  <2> HIDE DEF S, a, b
  <2>5. worker' \in Seq(S)
    BY <2>1, <2>3
  <2>6. QED
    BY <2>4, <2>5, SeqIsSeq DEF Posted
<1>2. CASE RunEvent
  <2>1. worker' = worker \/ \E n : worker' = Append(worker, RemoveTask(n))
    BY <1>2 DEF RunEvent
  <2>2. \A n : RemoveTask(n).target \in Targets
    BY DEF RemoveTask, Targets
  <2>3. CASE worker' = worker
    BY <2>3 DEF Posted
  <2>4. CASE \E n : worker' = Append(worker, RemoveTask(n))
    BY <2>2, <2>4, PostedAppend
  <2>5. QED
    BY <2>1, <2>3, <2>4
<1>3. CASE TakeListen \/ TakeRemove
  BY <1>3, PostedTail DEF TakeListen, TakeRemove
<1>4. ASSUME worker' = worker PROVE Posted'
  BY <1>4 DEF Posted
<1>5. CASE ReadAnswer
  BY <1>4, <1>5 DEF ReadAnswer
<1>6. CASE StreamOpens \/ BackoffElapses \/ RunOnlineTimer \/ RunIdleTimer
  BY <1>4, <1>6 DEF StreamOpens, BackoffElapses, RunOnlineTimer, RunIdleTimer
<1>7. CASE Serve
  BY <1>4, <1>7 DEF Serve
<1>8. CASE StreamEnds
  BY <1>4, <1>8 DEF StreamEnds
<1>9. ASSUME NEW t \in Targets, Change(t) PROVE Posted'
  BY <1>4, <1>9 DEF Change
<1>10. CASE HandleCredential
  BY <1>4, <1>10 DEF HandleCredential
<1>11. CASE NetworkChanges
  BY <1>4, <1>8, <1>11 DEF NetworkChanges
<1>12. CASE UNCHANGED vars
  BY <1>4, <1>12 DEF vars
<1>13. QED
  BY <1>1, <1>2, <1>3, <1>5, <1>6, <1>7, <1>8, <1>9, <1>10, <1>11, <1>12
     DEF Next, Task, NoNetwork, StreamBreaks

\* A request is sent on an open stream.
LEMMA RequestedTruth ==
    ASSUME Truth, Inv', UNCHANGED worldParts, IsOpen(w),
           NEW t \in Targets, NEW r, NEW listens, Requested(w, w', r, listens),
           \/ r = WatchRequest(t, token[t]) /\ listens = w.listens \cup {t} /\ t \notin w.listens
           \/ r = UnwatchRequest(t) /\ listens = w.listens \ {t} /\ t # Questions
    PROVE  Truth'
<1>1. /\ r.target = t /\ r.op \in {"watch", "unwatch"} /\ (r.op = "watch" => r.token = token[t])
      /\ r.op = "watch" <=> t \in w'.listens
      /\ \A x : x # t => (x \in w'.listens <=> x \in w.listens)
      /\ t = Questions => t \notin w.listens
  BY DEF Requested, WatchRequest, UnwatchRequest
<1>2. IsOpen(w')
  BY DEF Requested, IsOpen
<1>3. /\ w'.outgoing = Append(w.outgoing, r) /\ w'.updates = w.updates
      /\ DOMAIN w'.states = DOMAIN w.states \cup {t}
      /\ \A x \in DOMAIN w.states : x # t => w'.states[x] = w.states[x]
  BY <1>1 DEF Requested
<1>4. QED
  BY <1>1, <1>2, <1>3, SentTruth

\* Without an open stream, and with none afterwards, there is nothing to say.
LEMMA ClosedTruth ==
    ASSUME Truth, Inv', UNCHANGED worldParts, ~IsOpen(w), ~IsOpen(w'),
           w'.listens \subseteq Targets, DOMAIN w'.updates = {}
    PROVE  Truth'
<1>1. answers' = <<>> /\ serving' = {} /\ denied' \in {{}, Targets}
  BY DEF Truth, Inv, Denials, worldParts
<1>2. UNCHANGED <<server, token, cache, keys>>
  BY DEF worldParts
<1>3. QED
  BY <1>1, <1>2, QuietTruth

\* Nor is there when a stream has ended.
LEMMA EndTruth ==
    ASSUME Truth, Inv', Closed(w'), Abandon, UNCHANGED <<server, storeVars>>,
           denied' \in {{}, Targets}, w'.listens = w.listens, DOMAIN w'.updates = {}
    PROVE  Truth'
<1>1. answers' = <<>> /\ serving' = {} /\ ~IsOpen(w') /\ UNCHANGED <<server, token, cache, keys>>
  BY DEF Abandon, Closed, storeVars
<1>2. w'.listens \subseteq Targets
  BY DEF Truth, Typed
<1>3. QED
  BY <1>1, <1>2, QuietTruth

LEMMA StreamOpensTruth ==
    ASSUME Truth, Inv', StreamOpens
    PROVE  Truth'
<1>1. PICK order \in SetToSeqs(w.listens) : w' = OnWatchStreamOpen(w, order, token)
  BY DEF StreamOpens, Opens
<1>2. w.state = "Starting" /\ UNCHANGED worldParts
  BY DEF StreamOpens, Opens, streamVars, worldVars, storeVars, worldParts
<1>3. Shape(w) /\ Closed(w) /\ ~IsOpen(w) /\ answers = <<>> /\ serving = {}
  BY <1>2 DEF Truth, Inv, IsOpen
<1>4. AsksForAll(w, w', token)
  BY <1>1, <1>3, OpenRequests
<1>5. w'.listens \subseteq Targets /\ DOMAIN w'.updates = {} /\ denied' \in {{}, Targets}
  BY <1>2, <1>3, <1>4 DEF AsksForAll, Truth, Typed, Denials, worldParts
<1>6. UNCHANGED <<server, token, cache, keys>> /\ answers' = <<>> /\ serving' = {}
  BY <1>2, <1>3 DEF worldParts
<1>7. Requests'
  BY <1>4, <1>5, <1>6 DEF AsksForAll, Requests
<1>8. \A t \in w'.listens : ~Silent(t)'
  BY <1>4 DEF AsksForAll, Silent
<1>9. \A i \in 1..Len(w'.outgoing) : w'.outgoing[i].op = "watch" /\ w'.outgoing[i].target \in w'.listens
  BY <1>4 DEF AsksForAll
<1>10. QED
  BY <1>5, <1>6, <1>7, <1>8, <1>9, QuietTruth

LEMMA NextKeepsTruth ==
    ASSUME Truth, Posted, [Next]_vars
    PROVE  Truth'
<1>1. Inv /\ Inv' /\ Shape(w) /\ DOMAIN w = Fields /\ (~IsOpen(w) => Closed(w))
  BY NextKeepsInv DEF Truth, Inv, Shape
<1>2. w.listens \subseteq Targets /\ (~IsOpen(w) => DOMAIN w.updates = {})
  BY DEF Truth, Typed, Denials
<1>3. ASSUME UNCHANGED worldParts, w'.state = w.state, w'.listens = w.listens,
             w'.outgoing = w.outgoing, w'.states = w.states, w'.updates = w.updates
      PROVE  Truth'
  BY <1>1, <1>3, SameTruth DEF IsOpen
<1>4. CASE OpenTab
  BY <1>3, <1>4 DEF OpenTab, clientVars, storeVars, streamVars, worldVars, worldParts
<1>5. CASE RunEvent
  <2>1. UNCHANGED worldParts /\ (w' = w \/ \E b : w' = Assert_(w, b))
    BY <1>5 DEF RunEvent, storeVars, streamVars, worldVars, worldParts
  <2>2. \A b : LET v == Assert_(w, b)
               IN  /\ v.state = w.state /\ v.listens = w.listens /\ v.outgoing = w.outgoing
                   /\ v.states = w.states /\ v.updates = w.updates
    BY <1>1 DEF Assert_, Fields
  <2>3. QED
    BY <1>3, <2>1, <2>2
<1>6. CASE TakeListen
  <2> DEFINE t == Head(worker).target
  <2>1. t \in Targets
    BY <1>6, PostedTail DEF TakeListen
  <2>2. UNCHANGED worldParts /\ (w' = w \/ w' = Listen(w, t, token[t]))
    BY <1>6 DEF TakeListen, storeVars, streamVars, worldVars, worldParts
  <2> HIDE DEF t
  <2>3. CASE w' = w
    BY <1>3, <2>2, <2>3
  <2>4. CASE w' = Listen(w, t, token[t]) /\ t \in w.listens
    BY <1>3, <2>2, <2>4 DEF Listen
  <2>5. CASE w' = Listen(w, t, token[t]) /\ t \notin w.listens
    <3>1. /\ IsOpen(w) => Requested(w, w', WatchRequest(t, token[t]), w.listens \cup {t})
          /\ ~IsOpen(w) => /\ w'.listens = w.listens \cup {t} /\ DOMAIN w'.updates = {} /\ ~IsOpen(w')
      BY <1>1, <1>2, <2>5, ListenRequests
    <3>2. CASE IsOpen(w)
      BY <1>1, <2>1, <2>2, <2>5, <3>1, <3>2, RequestedTruth
    <3>3. CASE ~IsOpen(w)
      BY <1>1, <1>2, <2>1, <2>2, <3>1, <3>3, ClosedTruth
    <3>4. QED
      BY <3>2, <3>3
  <2>6. QED
    BY <2>2, <2>3, <2>4, <2>5
<1>7. CASE TakeRemove
  <2>1. UNCHANGED worldParts /\ (w' = w \/ w' = StopListening(w, Profile))
    BY <1>7 DEF TakeRemove, storeVars, streamVars, worldVars, worldParts
  <2>2. CASE w' = w
    BY <1>3, <2>1, <2>2
  <2>3. CASE w' = StopListening(w, Profile)
    <3>1. /\ IsOpen(w) => Requested(w, w', UnwatchRequest(Profile), w.listens \ {Profile})
          /\ ~IsOpen(w) => /\ w'.listens = w.listens \ {Profile} /\ w'.updates = w.updates
                           /\ ~IsOpen(w')
      BY <1>1, <2>3, StopListeningRequests
    <3>2. Profile \in Targets /\ Profile # Questions
      BY TargetsAssumption DEF Targets
    <3>3. CASE IsOpen(w)
      BY <1>1, <2>1, <3>1, <3>2, <3>3, RequestedTruth
    <3>4. CASE ~IsOpen(w)
      BY <1>1, <1>2, <2>1, <3>1, <3>4, ClosedTruth
    <3>5. QED
      BY <3>3, <3>4
  <2>4. QED
    BY <2>1, <2>2, <2>3
<1>8. CASE ReadAnswer
  BY <1>8, ReadAnswerTruth
<1>9. CASE StreamOpens
  BY <1>1, <1>9, StreamOpensTruth
<1>10. CASE BackoffElapses
  <2>1. w' = [w EXCEPT !.state = "Starting"] /\ w.state = "Backoff" /\ UNCHANGED worldParts
    BY <1>10 DEF BackoffElapses, Retries, storeVars, streamVars, worldVars, worldParts
  <2>2. ~IsOpen(w) /\ ~IsOpen(w') /\ w'.listens = w.listens /\ w'.updates = w.updates
    BY <1>1, <2>1 DEF IsOpen, Fields
  <2>3. QED
    BY <1>1, <1>2, <2>1, <2>2, ClosedTruth
<1>11. CASE RunOnlineTimer
  <2>1. w' = TimeOut(w) /\ UNCHANGED worldParts
    BY <1>11 DEF RunOnlineTimer, storeVars, streamVars, worldVars, worldParts
  <2>2. /\ w'.state = w.state /\ w'.listens = w.listens /\ w'.outgoing = w.outgoing
        /\ w'.states = w.states /\ w'.updates = w.updates
    BY <1>1, <2>1 DEF TimeOut, Assert_, Fields
  <2>3. QED
    BY <1>3, <2>1, <2>2
<1>12. denied \in {{}, Targets}
  BY DEF Truth, Denials
<1>13. CASE RunIdleTimer
  <2>1. w' = Stop(w, TRUE) /\ Abandon /\ UNCHANGED <<server, storeVars>> /\ denied' = denied
    BY <1>13 DEF RunIdleTimer, worldVars
  <2>2. Closed(w') /\ w'.listens = w.listens /\ DOMAIN w'.updates = {}
    BY <1>1, <1>2, <2>1, StopIsClosed, StopLeaves
  <2>3. QED
    BY <1>1, <1>12, <2>1, <2>2, EndTruth
<1>14. CASE Serve
  BY <1>14, ServeTruth
<1>15. CASE StreamEnds
  <2>1. w' = Break(w) /\ Abandon /\ UNCHANGED <<server, storeVars>> /\ denied' = denied
    BY <1>15 DEF StreamEnds, Ends
  <2>2. Closed(w') /\ w'.listens = w.listens /\ DOMAIN w'.updates = {}
    BY <1>1, <2>1, BreakIsClosed, BreakLeaves
  <2>3. QED
    BY <1>1, <1>12, <2>1, <2>2, EndTruth
<1>16. ASSUME NEW t \in Targets, Change(t) PROVE Truth'
  BY <1>16, ChangeTruth
<1>17. CASE HandleCredential
  <2>1. w' = HandleCredentialChange(w) /\ Abandon /\ UNCHANGED <<server, storeVars>>
        /\ denied' \in {{}, Targets}
    BY <1>17 DEF HandleCredential
  <2>2. Closed(w') /\ w'.listens = w.listens /\ DOMAIN w'.updates = {}
    BY <1>1, <2>1, CredentialChangeIsClosed, CredentialChangeLeaves
  <2>3. QED
    BY <1>1, <2>1, <2>2, EndTruth
<1>18. CASE NetworkChanges
  <2>1. StreamEnds \/ (w' = w /\ UNCHANGED worldParts)
    BY <1>18 DEF NetworkChanges, clientVars, storeVars, streamVars, worldParts
  <2>2. QED
    BY <1>3, <1>15, <2>1
<1>19. CASE UNCHANGED vars
  BY <1>3, <1>19 DEF vars, clientVars, storeVars, streamVars, worldVars, worldParts
<1>20. QED
  BY <1>4, <1>5, <1>6, <1>7, <1>8, <1>9, <1>10, <1>11, <1>13, <1>14, <1>15, <1>16,
     <1>17, <1>18, <1>19 DEF Next, Task, NoNetwork, StreamBreaks

LEMMA InitTruth ==
    ASSUME Init
    PROVE  Truth /\ Posted
<1>1. Inv
  BY InitInv
<1>2. w = Nowhere /\ answers = <<>> /\ serving = {} /\ denied = {} /\ worker = <<>>
  BY DEF Init
<1>3. Posted
  BY <1>2, EmptyIsSeq DEF Posted
<1>4. /\ w.listens = {} /\ w.state = "Initial" /\ w.outgoing = <<>> /\ w.updates = <<>>
  BY <1>2 DEF Nowhere
<1>5. Places = {} /\ DOMAIN w.updates = {} /\ ~IsOpen(w) /\ Len(w.outgoing) = 0
  BY <1>2, <1>4, EmptyIsSeq DEF Places, IsOpen
<1>6. Typed
  <2>1. \/ \E e \in BOOLEAN : server = [t \in Targets |-> [at |-> 1, exists |-> t = Questions \/ e]]
        \/ server = [t \in Targets |-> [at |-> 1, exists |-> TRUE]]
    BY DEF Init
  <2>2. DOMAIN server = Targets /\ \A t \in Targets : server[t].at = 1 /\ server[t].exists \in BOOLEAN
    <3>1. CASE \E e \in BOOLEAN : server = [t \in Targets |-> [at |-> 1, exists |-> t = Questions \/ e]]
      <4>1. PICK e \in BOOLEAN : server = [t \in Targets |-> [at |-> 1, exists |-> t = Questions \/ e]]
        BY <3>1
      <4>2. ASSUME NEW t \in Targets PROVE server[t].at = 1 /\ server[t].exists = (t = Questions \/ e)
        BY <4>1
      <4>3. ASSUME NEW t \in Targets PROVE (t = Questions \/ e) \in BOOLEAN
        OBVIOUS
      <4>4. QED
        BY <4>1, <4>2, <4>3
    <3>2. CASE server = [t \in Targets |-> [at |-> 1, exists |-> TRUE]]
      BY <3>2
    <3>3. QED
      BY <2>1, <3>1, <3>2
  <2>3. DOMAIN token = Targets /\ DOMAIN cache = Targets
    BY <2>2 DEF Init
  <2>4. QED
    BY <1>4, <1>5, <2>2, <2>3 DEF Typed
<1>7. /\ LastVersion \in Nat \ {0}
      /\ \A t \in Targets : server[t].at = 1 /\ server[t].at <= LastVersion
  BY <1>6, LastVersionIsLast DEF Init
<1>8. Requests /\ Denials /\ Watched /\ InOrder /\ Updates /\ Flushed /\ Changes
  BY <1>2, <1>4, <1>5, EmptyIsSeq DEF Requests, Denials, Watched, InOrder, Updates, Flushed, Changes, InForce
<1>9. Accounted /\ CurrentFirst
  BY <1>2 DEF Accounted, CurrentFirst, Settled
<1>10. \/ cache = [t \in Targets |-> Unknown] /\ token = [t \in Targets |-> 0] /\ keys = {}
       \/ /\ \A t \in Targets : server[t].exists
          /\ cache = server /\ token = [t \in Targets |-> 1] /\ keys = Targets
  BY DEF Init
<1>11. Messages
  BY <1>5, <1>7, <1>10 DEF Messages
<1>12. Knowledge
  <2>1. Unknown.at = 0 /\ Unknown.exists = FALSE
    BY DEF Unknown, NoDocument
  <2>2. Questions \in Targets
    BY DEF Targets
  <2>3. CASE cache = [t \in Targets |-> Unknown] /\ token = [t \in Targets |-> 0] /\ keys = {}
    <3>1. \A t \in Targets : /\ cache[t].at = 0 /\ cache[t].exists = FALSE /\ t \notin keys
                              /\ token[t] = 0 /\ server[t].at = 1
      BY <1>7, <2>1, <2>3
    <3>2. 0 \in 0..LastVersion
      BY <1>7
    <3>3. \A t \in Targets : ~Covered(t) /\ ~(cache[t].at >= server[t].at)
      BY <3>1 DEF Covered
    <3>4. QED
      BY <2>2, <3>1, <3>2, <3>3 DEF Knowledge
  <2>4. CASE /\ \A t \in Targets : server[t].exists
             /\ cache = server /\ token = [t \in Targets |-> 1] /\ keys = Targets
    <3>1. \A t \in Targets : /\ cache[t] = server[t] /\ token[t] = 1 /\ t \in keys
                              /\ server[t].at = 1 /\ server[t].exists \in BOOLEAN /\ server[t].exists
      BY <1>6, <1>7, <2>4 DEF Typed
    <3>2. 1 \in 0..LastVersion
      BY <1>7
    <3>3. \A t \in Targets :
            /\ cache[t].at \in 0..LastVersion /\ cache[t].exists \in BOOLEAN
            /\ token[t] # 0 /\ (t \in keys <=> server[t].exists)
            /\ cache[t].at >= server[t].at /\ cache[t].exists = server[t].exists
      BY <3>1, <3>2
    <3>4. QED
      BY <2>2, <3>3 DEF Knowledge
  <2>5. QED
    BY <1>10, <2>3, <2>4
<1>13. QED
  BY <1>1, <1>3, <1>6, <1>8, <1>9, <1>11, <1>12 DEF Truth

(* Where the token of a target covers the server's version the cache has   *)
(* the server's document, so that a listen that is sent nothing has missed *)
(* nothing: LocalStore::ApplyRemoteEvent, local_store.cc:241-328, of what  *)
(* WatchChangeAggregator::CreateRemoteEvent, remote_event.cc:249-320, has  *)
(* made of the stream, whatever listens, broken streams, changes of user   *)
(* and changes on the server come between.                                 *)
THEOREM TokensClaimWhatIsKnown == Spec => []NothingIsMissed
<1>1. Truth /\ Posted /\ [Next]_vars => Truth' /\ Posted'
  BY NextKeepsTruth, NextKeepsPosted
<1>2. Truth => NothingIsMissed
  BY TruthTells DEF Truth
<1>3. QED
  BY InitTruth, <1>1, <1>2, PTL DEF Spec
=============================================================================
