---------------------------- MODULE OutboxProofs -----------------------------
EXTENDS Outbox, SequenceTheorems, WellFoundedInduction, TLAPS

(***************************************************************************)
(* Numbers.                                                                *)
(***************************************************************************)

LEMMA Least ==
    ASSUME NEW S \in SUBSET Nat, S # {}
    PROVE  \E m \in S : \A i \in S : m <= i
<1>1. \E m \in S : \A i \in S : <<i, m>> \notin OpToRel(<, Nat)
  BY NatLessThanWellFounded, WFMin, Zenon
<1>2. PICK m \in S : \A i \in S : <<i, m>> \notin OpToRel(<, Nat)
  BY <1>1
<1>3. \A i \in S : ~(i < m)
  <2> SUFFICES ASSUME NEW i \in S, i < m PROVE FALSE
    OBVIOUS
  <2>1. <<i, m>> \in Nat \X Nat /\ <<i, m>>[1] < <<i, m>>[2]
    OBVIOUS
  <2>2. <<i, m>> \in OpToRel(<, Nat)
    BY <2>1 DEF OpToRel
  <2>3. QED
    BY <1>2, <2>2
<1>4. \A i \in S : m <= i
  BY <1>3
<1>5. QED
  BY <1>4

LEMMA Greatest ==
    ASSUME NEW S \in SUBSET Nat, S # {}, NEW n \in Nat, \A i \in S : i <= n
    PROVE  \E m \in S : \A i \in S : i <= m
<1> DEFINE T == {n - i : i \in S}
<1>1. T \in SUBSET Nat /\ T # {}
  <2>1. \A i \in S : n - i \in Nat
    OBVIOUS
  <2>2. PICK i \in S : TRUE
    OBVIOUS
  <2>3. n - i \in T
    OBVIOUS
  <2>4. QED
    BY <2>1, <2>3
<1>2. PICK k \in T : \A j \in T : k <= j
  BY <1>1, Least
<1>3. PICK m \in S : k = n - m
  BY <1>2
<1>4. \A i \in S : n - m <= n - i
  BY <1>2, <1>3
<1>5. \A i \in S : i <= m
  BY <1>4
<1>6. QED
  BY <1>5

(***************************************************************************)
(* Queues and pipelines.                                                   *)
(***************************************************************************)

\* A queue is in the order of its ids.
Ordered(q) == \A i, j \in 1..Len(q) : i < j => q[i].id < q[j].id

\* p is a front of q.
IsFront(p, q) == Len(p) <= Len(q) /\ \A i \in 1..Len(p) : p[i] = q[i]

\* And as much of it as there is room for.
Fills(p, q) == IsFront(p, q) /\ Len(p) = Smaller(MaxPending, Len(q))


LEMMA Joined ==
    ASSUME NEW S, NEW p \in Seq(S), NEW r \in Seq(S)
    PROVE  /\ p \o r \in Seq(S) /\ Len(p) \in Nat /\ Len(r) \in Nat /\ Len(p \o r) = Len(p) + Len(r)
           /\ \A i \in 1..Len(p) : (p \o r)[i] = p[i]
           /\ \A i \in 1..Len(r) : (p \o r)[Len(p) + i] = r[i]
           /\ \A i \in 1..Len(p \o r) : i \notin 1..Len(p) =>
                i - Len(p) \in 1..Len(r) /\ (p \o r)[i] = r[i - Len(p)]
OBVIOUS

LEMMA Rest ==
    ASSUME NEW S, NEW q \in Seq(S), NEW n \in 0..Len(q)
    PROVE  /\ SubSeq(q, n + 1, Len(q)) \in Seq(S) /\ Len(q) \in Nat
           /\ Len(SubSeq(q, n + 1, Len(q))) = Len(q) - n
           /\ \A i \in 1..(Len(q) - n) : SubSeq(q, n + 1, Len(q))[i] = q[n + i]
OBVIOUS

LEMMA First ==
    ASSUME NEW S, NEW q \in Seq(S), NEW n \in 0..Len(q)
    PROVE  /\ SubSeq(q, 1, n) \in Seq(S) /\ Len(SubSeq(q, 1, n)) = n
           /\ \A i \in 1..n : SubSeq(q, 1, n)[i] = q[i]
OBVIOUS

LEMMA Tailed ==
    ASSUME NEW S, NEW q \in Seq(S), q # <<>>
    PROVE  /\ Len(q) \in Nat \ {0} /\ Len(Tail(q)) = Len(q) - 1 /\ Tail(q) \in Seq(S)
           /\ Head(q) = q[1] /\ Head(q) \in S
           /\ \A i \in 1..Len(Tail(q)) : i + 1 \in 1..Len(q) /\ Tail(q)[i] = q[i + 1]
           /\ \A i \in 1..Len(q) : i # 1 => i - 1 \in 1..Len(Tail(q)) /\ Tail(q)[i - 1] = q[i]
OBVIOUS

LEMMA Members ==
    ASSUME NEW S, NEW q \in Seq(S)
    PROVE  /\ Len(q) \in Nat /\ \A i \in 1..Len(q) : q[i] \in S
           /\ q = <<>> <=> Len(q) = 0
OBVIOUS

LEMMA BatchIds == ASSUME NEW q \in Seq(Batches) PROVE \A i \in 1..Len(q) : q[i].id \in Nat \ {0}
<1>1. \A i \in 1..Len(q) : q[i] \in Batches
  BY Members
<1>2. \A b \in Batches : b.id \in Nat \ {0}
  BY DEF Batches
<1>3. QED
  BY <1>1, <1>2

LEMMA AfterFront ==
    ASSUME NEW p \in Seq(Batches), NEW q \in Seq(Batches), IsFront(p, q), Ordered(q)
    PROVE  /\ After(q, LastId(p)) = SubSeq(q, Len(p) + 1, Len(q))
           /\ Len(p) \in Nat /\ Len(q) \in Nat
<1> DEFINE id == LastId(p)
<1>1. Len(p) \in 0..Len(q) /\ Len(q) \in Nat /\ Len(p) \in Nat /\ (p = <<>> <=> Len(p) = 0)
  <2>1. Len(p) \in Nat /\ Len(q) \in Nat /\ (p = <<>> <=> Len(p) = 0)
    BY Members
  <2>2. QED
    BY <2>1 DEF IsFront
<1>2. \A i \in 1..Len(q) : q[i].id > id <=> i > Len(p)
  <2>1. \A i \in 1..Len(q) : q[i].id \in Nat \ {0}
    BY BatchIds
  <2>2. CASE p = <<>>
    BY <1>1, <2>1, <2>2 DEF LastId
  <2>3. CASE p # <<>>
    <3>1. Len(p) \in 1..Len(q) /\ id = q[Len(p)].id
      BY <1>1, <2>3 DEF LastId, IsFront
    <3>2. QED
      BY <1>1, <2>1, <3>1 DEF Ordered
  <2>4. QED
    BY <2>2, <2>3
<1> HIDE DEF id
<1>3. ASSUME NEW n \in 0..Len(q), \A i \in 1..Len(q) : q[i].id > id <=> i > n
      PROVE  n = Len(p)
  <2>1. \A i \in 1..Len(q) : i > n <=> i > Len(p)
    BY <1>2, <1>3
  <2>2. CASE n < Len(p)
    <3>1. Len(p) \in 1..Len(q)
      BY <1>1, <2>2
    <3>2. QED
      BY <2>1, <2>2, <3>1
  <2>3. CASE n > Len(p)
    <3>1. n \in 1..Len(q)
      BY <1>1, <2>3
    <3>2. QED
      BY <1>1, <2>1, <2>3, <3>1
  <2>4. QED
    BY <1>1, <2>2, <2>3
<1>4. (CHOOSE n \in 0..Len(q) : \A i \in 1..Len(q) : q[i].id > id <=> i > n) = Len(p)
  BY <1>1, <1>2, <1>3
<1>5. After(q, id) = SubSeq(q, Len(p) + 1, Len(q))
  BY <1>4 DEF After
<1>6. QED
  BY <1>1, <1>5 DEF id

\* What FillWritePipeline retrieves, and the pipeline with it.
LEMMA Retrieving ==
    ASSUME NEW c, CanUseNetwork(c), NEW q \in Seq(Batches), NEW p \in Seq(Batches),
           c.pipeline = p,
           IsFront(p, q), Ordered(q), Len(p) <= MaxPending
    PROVE  /\ Retrieved(c, q) \in Seq(Batches)
           /\ Fills(p \o Retrieved(c, q), q)
<1> DEFINE rest == SubSeq(q, Len(p) + 1, Len(q))
           n == Smaller(MaxPending - Len(p), Len(rest))
           r == Retrieved(c, q)
<1>1. Len(p) \in 0..Len(q) /\ Len(q) \in Nat /\ Len(p) \in Nat
  <2>1. Len(p) \in Nat /\ Len(q) \in Nat
    BY Members
  <2>2. QED
    BY <2>1 DEF IsFront
<1>2. After(q, LastId(p)) = rest
  BY AfterFront
<1>3. /\ rest \in Seq(Batches) /\ Len(rest) = Len(q) - Len(p)
      /\ \A i \in 1..(Len(q) - Len(p)) : rest[i] = q[Len(p) + i]
  BY <1>1, Rest
<1>4. r = SubSeq(rest, 1, n)
  BY <1>2 DEF Retrieved, Room
<1> HIDE DEF rest, r
<1>5. n \in 0..Len(rest) /\ n \in Nat /\ Len(p) + n = Smaller(MaxPending, Len(q))
      /\ Len(p) + n <= Len(q)
  BY <1>1, <1>3, MaxPendingAssumption DEF Smaller
<1> HIDE DEF n
<1>6. r \in Seq(Batches) /\ Len(r) = n /\ \A i \in 1..n : r[i] = rest[i]
  BY <1>3, <1>4, <1>5, First
<1>7. \A i \in 1..n : r[i] = q[Len(p) + i]
  <2> SUFFICES ASSUME NEW i \in 1..n PROVE r[i] = q[Len(p) + i]
    OBVIOUS
  <2>1. i \in 1..(Len(q) - Len(p))
    BY <1>1, <1>3, <1>5
  <2>2. QED
    BY <1>3, <1>6, <2>1
<1>8. /\ Len(p \o r) = Len(p) + n
      /\ \A i \in 1..Len(p) : (p \o r)[i] = p[i]
      /\ \A i \in 1..Len(p \o r) : i \notin 1..Len(p) =>
                i - Len(p) \in 1..Len(r) /\ (p \o r)[i] = r[i - Len(p)]
  <2>1. r \in Seq(Batches)
    BY <1>6
  <2>2. /\ Len(p \o r) = Len(p) + Len(r)
        /\ \A i \in 1..Len(p) : (p \o r)[i] = p[i]
        /\ \A i \in 1..Len(p \o r) : i \notin 1..Len(p) =>
                  i - Len(p) \in 1..Len(r) /\ (p \o r)[i] = r[i - Len(p)]
    BY <2>1, Joined
  <2>3. QED
    BY <1>6, <2>2
<1>9. ASSUME NEW i \in 1..Len(p \o r) PROVE (p \o r)[i] = q[i]
  <2>1. CASE i \in 1..Len(p)
    BY <1>8, <2>1 DEF IsFront
  <2>2. CASE i \notin 1..Len(p)
    <3>1. i - Len(p) \in 1..n /\ (p \o r)[i] = r[i - Len(p)]
      BY <1>6, <1>8, <2>2
    <3>2. r[i - Len(p)] = q[Len(p) + (i - Len(p))]
      BY <1>7, <3>1
    <3>3. Len(p) + (i - Len(p)) = i
      BY <1>1
    <3>4. QED
      BY <3>1, <3>2, <3>3
  <2>3. QED
    BY <2>1, <2>2
<1>10. Fills(p \o r, q)
  BY <1>5, <1>8, <1>9 DEF Fills, IsFront
<1>11. QED
  BY <1>6, <1>10 DEF r

\* The oldest batch is the front of the pipeline: it leaves both.
LEMMA WithoutOldest ==
    ASSUME NEW q \in Seq(Batches), Ordered(q), q # <<>>
    PROVE  Without(q, q[1].id) = Tail(q) /\ Ordered(Tail(q))
<1>1. /\ Len(q) \in Nat \ {0} /\ Len(Tail(q)) = Len(q) - 1 /\ Tail(q) \in Seq(Batches)
      /\ \A i \in 1..Len(Tail(q)) : i + 1 \in 1..Len(q) /\ Tail(q)[i] = q[i + 1]
  BY Tailed
<1>2. \A i \in 1..Len(q) : q[i].id \in Nat \ {0}
  BY BatchIds
<1>3. ASSUME NEW i \in 1..Len(q), q[i].id = q[1].id PROVE i = 1
  <2>1. 1 \in 1..Len(q)
    BY <1>1
  <2>2. ~(1 < i)
    BY <1>2, <1>3, <2>1 DEF Ordered
  <2>3. QED
    BY <2>2
<1>4. 1 \in 1..Len(q) /\ (CHOOSE i \in 1..Len(q) : q[i].id = q[1].id) = 1
  BY <1>1, <1>3
<1>5. Without(q, q[1].id) = RemoveAt(q, 1)
  BY <1>4, Zenon DEF Without
<1>6. RemoveAt(q, 1) = SubSeq(q, 1, 0) \o SubSeq(q, 2, Len(q))
  BY DEF RemoveAt
<1>7. SubSeq(q, 1, 0) = <<>> /\ SubSeq(q, 2, Len(q)) = Tail(q)
  BY <1>1, SubSeqEmpty, TailIsSubSeq
<1>8. Without(q, q[1].id) = Tail(q)
  BY <1>1, <1>5, <1>6, <1>7
<1>9. Ordered(Tail(q))
  <2> SUFFICES ASSUME NEW i \in 1..Len(Tail(q)), NEW j \in 1..Len(Tail(q)), i < j
               PROVE  Tail(q)[i].id < Tail(q)[j].id
    BY DEF Ordered
  <2>1. i + 1 \in 1..Len(q) /\ j + 1 \in 1..Len(q) /\ i + 1 < j + 1
    BY <1>1
  <2>2. q[i + 1].id < q[j + 1].id
    BY <2>1 DEF Ordered
  <2>3. QED
    BY <1>1, <2>2
<1>10. QED
  BY <1>8, <1>9

\* A batch with a new id.
LEMMA AppendOrdered ==
    ASSUME NEW q \in Seq(Batches), Ordered(q), NEW b \in Batches,
           \A i \in 1..Len(q) : q[i].id < b.id
    PROVE  /\ Append(q, b) \in Seq(Batches) /\ Ordered(Append(q, b))
           /\ Len(q) \in Nat /\ Len(Append(q, b)) = Len(q) + 1
           /\ \A i \in 1..Len(q) : Append(q, b)[i] = q[i]
           /\ Append(q, b)[Len(q) + 1] = b
<1>1. /\ Append(q, b) \in Seq(Batches)
      /\ Len(q) \in Nat /\ Len(Append(q, b)) = Len(q) + 1
      /\ \A i \in 1..Len(q) : Append(q, b)[i] = q[i]
      /\ Append(q, b)[Len(q) + 1] = b
  BY AppendProperties
<1>2. Ordered(Append(q, b))
  BY <1>1 DEF Ordered
<1>3. QED
  BY <1>1, <1>2
(***************************************************************************)
(* The write half of RemoteStore, one operator at a time.                  *)
(***************************************************************************)

Sent == Batches \cup {Handshake}

TokenRequests == [current : BOOLEAN, fresh : BOOLEAN]

Conns == [network : BOOLEAN, pipeline : Seq(Batches),
          state : {"Initial", "Starting", "Open", "Error", "Backoff"},
          handshake : BOOLEAN, idle : BOOLEAN, requests : SUBSET TokenRequests,
          credential : Users \cup {"none"}, broken : BOOLEAN, outgoing : Seq(Sent)]

\* A stream that is starting has one token request that is not obsolete.
RequestsInv(c) ==
    /\ c.state = "Starting" <=> \E r \in c.requests : r.current
    /\ \A r, t \in c.requests : r.current /\ t.current => r = t

LEMMA Fields ==
    ASSUME NEW c \in Conns
    PROVE  /\ c.network \in BOOLEAN /\ c.pipeline \in Seq(Batches)
           /\ c.state \in {"Initial", "Starting", "Open", "Error", "Backoff"}
           /\ c.handshake \in BOOLEAN /\ c.idle \in BOOLEAN /\ c.requests \subseteq TokenRequests
           /\ c.credential \in Users \cup {"none"} /\ c.broken \in BOOLEAN
           /\ c.outgoing \in Seq(Sent)
BY DEF Conns

LEMMA BatchesAreSent == ASSUME NEW q \in Seq(Batches) PROVE q \in Seq(Sent)
<1>1. \A i \in 1..Len(q) : q[i] \in Sent
  BY Members DEF Sent
<1>2. QED
  BY <1>1

LEMMA Asserted ==
    ASSUME NEW c, ~c.broken, NEW ok, ok, c \in Conns
    PROVE  Assert_(c, ok) = c
<1>1. c.broken = FALSE
  BY DEF Conns
<1>2. QED
  BY <1>1 DEF Assert_, Conns

LEMMA Sending ==
    ASSUME NEW c \in Conns, ~c.broken, NEW b \in Seq(Sent), b # <<>> => IsOpen(c),
           NEW d, d = Send(c, b)
    PROVE  /\ d \in Conns /\ ~d.broken /\ d.outgoing = c.outgoing \o b
           /\ d.network = c.network /\ d.pipeline = c.pipeline /\ d.state = c.state
           /\ d.handshake = c.handshake /\ d.requests = c.requests
           /\ d.credential = c.credential
           /\ d.idle <=> c.idle /\ b = <<>>
<1>1. CASE b = <<>>
  <2>1. c.outgoing \o b = c.outgoing
    BY <1>1, ConcatEmptySeq, Fields
  <2>2. QED
    BY <1>1, <2>1 DEF Send
<1>2. CASE b # <<>>
  <2>1. Send(c, b) = [c EXCEPT !.idle = FALSE, !.outgoing = @ \o b]
    BY <1>2, Asserted DEF Send
  <2>2. c.outgoing \o b \in Seq(Sent)
    BY ConcatProperties, Fields
  <2> DEFINE o == c.outgoing \o b
  <2>3. Send(c, b) = [c EXCEPT !.idle = FALSE, !.outgoing = o]
    BY <2>1
  <2>4. o \in Seq(Sent)
    BY <2>2
  <2> HIDE DEF o
  <2>5. /\ d \in Conns /\ ~d.broken /\ d.outgoing = o
        /\ d.network = c.network /\ d.pipeline = c.pipeline /\ d.state = c.state
        /\ d.handshake = c.handshake /\ d.requests = c.requests
        /\ d.credential = c.credential
        /\ ~d.idle
    BY <2>3, <2>4 DEF Conns
  <2>6. QED
    BY <1>2, <2>5 DEF o
<1>3. QED
  BY <1>1, <1>2

\* StartIfNeeded.
LEMMA Starting ==
    ASSUME NEW c \in Conns, ~c.broken, c.network, RequestsInv(c),
           NEW d, d = StartIfNeeded(c)
    PROVE  /\ d \in Conns /\ ~d.broken /\ RequestsInv(d)
           /\ d.outgoing = c.outgoing /\ d.network = c.network /\ d.pipeline = c.pipeline
           /\ d.handshake = c.handshake /\ d.credential = c.credential
           /\ d.idle = c.idle
           /\ d.pipeline # <<>> => IsStarted(d)
           /\ IsOpen(d) <=> IsOpen(c)
<1>1. CASE ~ShouldStartWriteStream(c)
  BY <1>1 DEF StartIfNeeded, ShouldStartWriteStream, CanUseNetwork
<1>2. CASE ShouldStartWriteStream(c) /\ c.state = "Error"
  <2>1. d = [c EXCEPT !.state = "Backoff"]
    BY <1>2 DEF StartIfNeeded, Start
  <2>2. QED
    BY <1>2, <2>1 DEF Conns, IsStarted, IsOpen, RequestsInv
<1>3. CASE ShouldStartWriteStream(c) /\ c.state # "Error"
  <2>1. c.state = "Initial"
    BY <1>3 DEF Conns, ShouldStartWriteStream, IsStarted
  <2> DEFINE r == [current |-> TRUE, fresh |-> TRUE]
             s == c.requests \cup {r}
  <2>2. d = [c EXCEPT !.state = "Starting", !.requests = s]
    BY <1>3, <2>1, Asserted DEF StartIfNeeded, Start, RequestCredentials
  <2>3. /\ s \in SUBSET TokenRequests /\ \E t \in s : t.current
        /\ \A t, u \in s : t.current /\ u.current => t = u
    <3>1. c.requests \subseteq TokenRequests /\ \A t \in c.requests : ~t.current
      BY <2>1, Fields DEF RequestsInv
    <3>2. r \in TokenRequests /\ r.current
      BY DEF TokenRequests
    <3> HIDE DEF r
    <3>3. QED
      BY <3>1, <3>2
  <2> HIDE DEF r, s
  <2>4. QED
    BY <1>3, <2>1, <2>2, <2>3 DEF Conns, IsStarted, IsOpen, RequestsInv
<1>4. QED
  BY <1>1, <1>2, <1>3

\* What d has in its pipeline beyond c's, it has sent.
SentItsShare(c, d) ==
    \E new \in Seq(Batches) :
      d.pipeline = c.pipeline \o new /\ d.outgoing = c.outgoing \o new

\* FillWritePipeline.
LEMMA Filling ==
    ASSUME NEW c \in Conns, ~c.broken, c.network, RequestsInv(c),
           NEW q \in Seq(Batches), Ordered(q), IsFront(c.pipeline, q),
           Len(c.pipeline) <= MaxPending,
           NEW d, d = FillWritePipeline(c, q)
    PROVE  /\ d \in Conns /\ ~d.broken /\ d.network /\ RequestsInv(d)
           /\ Fills(d.pipeline, q)
           /\ d.pipeline # <<>> => IsStarted(d)
           /\ IsOpen(d) <=> IsOpen(c)
           /\ d.handshake = c.handshake /\ d.credential = c.credential
           /\ ~(IsOpen(c) /\ c.handshake) => d.outgoing = c.outgoing
           /\ IsOpen(c) /\ c.handshake => SentItsShare(c, d)
           /\ d.idle => c.idle \/ IsOpen(c)
           /\ (c.idle => c.pipeline = <<>>) => (d.idle /\ c.handshake /\ IsOpen(c) => d.pipeline = <<>>)
           /\ d.pipeline # <<>> /\ ~(IsOpen(c) /\ c.handshake) => d.idle = c.idle
<1> DEFINE new == Retrieved(c, q)
           added == [c EXCEPT !.pipeline = @ \o new]
           sent == IF IsOpen(c) /\ c.handshake THEN Send(added, new) ELSE added
           idle == IF CanUseNetwork(c) /\ added.pipeline = <<>> THEN MarkIdle(sent) ELSE sent
<1>1. new \in Seq(Batches) /\ Fills(c.pipeline \o new, q) /\ c.pipeline \in Seq(Batches)
  BY Retrieving, Fields DEF CanUseNetwork
<1>2. d = StartIfNeeded(idle)
  BY DEF FillWritePipeline
<1> HIDE DEF new
<1> DEFINE p == c.pipeline \o new
<1>3. p \in Seq(Batches) /\ (p = <<>> => new = <<>>) /\ added = [c EXCEPT !.pipeline = p]
  <2>1. p \in Seq(Batches) /\ added = [c EXCEPT !.pipeline = p]
    BY <1>1, ConcatProperties
  <2>2. p = <<>> => new = <<>>
    BY <1>1, ConcatEqualIffEmpty
  <2>3. QED
    BY <2>1, <2>2
<1> HIDE DEF p
<1>4. /\ added \in Conns /\ ~added.broken /\ added.network /\ added.pipeline = p
      /\ added.outgoing = c.outgoing /\ added.state = c.state
      /\ added.handshake = c.handshake /\ added.requests = c.requests
      /\ added.credential = c.credential /\ added.idle = c.idle
  BY <1>3 DEF Conns
<1> HIDE DEF added
<1>5. /\ sent \in Conns /\ ~sent.broken /\ sent.network /\ sent.pipeline = p
      /\ sent.state = c.state /\ sent.handshake = c.handshake /\ sent.requests = c.requests
      /\ sent.credential = c.credential
      /\ IsOpen(c) /\ c.handshake => sent.outgoing = c.outgoing \o new /\ (sent.idle <=> c.idle /\ new = <<>>)
      /\ ~(IsOpen(c) /\ c.handshake) => sent.outgoing = c.outgoing /\ sent.idle = c.idle
  <2>1. CASE IsOpen(c) /\ c.handshake
    <3>1. new \in Seq(Sent) /\ IsOpen(added)
      BY <1>1, <1>4, <2>1, BatchesAreSent DEF IsOpen
    <3>2. sent = Send(added, new)
      BY <2>1
    <3> HIDE DEF sent
    <3>3. /\ sent \in Conns /\ ~sent.broken /\ sent.outgoing = added.outgoing \o new
          /\ sent.network = added.network /\ sent.pipeline = added.pipeline
          /\ sent.state = added.state
          /\ sent.handshake = added.handshake /\ sent.requests = added.requests
          /\ sent.credential = added.credential
          /\ sent.idle <=> added.idle /\ new = <<>>
      <4>1. added \in Conns /\ ~added.broken
        BY <1>4
      <4>2. new \in Seq(Sent) /\ (new # <<>> => IsOpen(added))
        BY <3>1
      <4>3. sent \in Conns
        BY <4>1, <4>2, <3>2, Sending
      <4>4. sent.network = added.network
        BY <4>1, <4>2, <3>2, Sending, Zenon
      <4>5. ~sent.broken
        BY <4>1, <4>2, <3>2, Sending, Zenon
      <4>7. sent.idle <=> added.idle /\ new = <<>>
        BY <4>1, <4>2, <3>2, Sending, Zenon
      <4>8. QED
        BY <4>1, <4>2, <3>2, <4>3, <4>4, <4>5, <4>7, Sending
    <3>4. sent.network
      BY <1>4, <3>3, Zenon
    <3>5. sent.idle <=> c.idle /\ new = <<>>
      BY <1>4, <3>3, Zenon
    <3>6. QED
      BY <1>4, <2>1, <3>3, <3>4, <3>5
  <2>2. CASE ~(IsOpen(c) /\ c.handshake)
    BY <1>4, <2>2
  <2>3. QED
    BY <2>1, <2>2
<1> HIDE DEF sent
<1>6. /\ idle \in Conns /\ ~idle.broken /\ idle.network /\ idle.pipeline = p
      /\ idle.state = c.state /\ idle.handshake = c.handshake /\ idle.requests = c.requests
      /\ idle.credential = c.credential /\ idle.outgoing = sent.outgoing
      /\ idle.idle => sent.idle \/ (IsOpen(c) /\ p = <<>>)
      /\ p # <<>> => idle.idle = sent.idle
  <2>1. CASE idle = sent
    BY <1>5, <2>1
  <2>2. CASE idle = [sent EXCEPT !.idle = TRUE] /\ IsOpen(sent) /\ p = <<>>
    BY <1>5, <2>2 DEF Conns, IsOpen
  <2>3. QED
    BY <1>4, <2>1, <2>2 DEF MarkIdle
<1> HIDE DEF idle
<1>7. RequestsInv(idle)
  BY <1>6 DEF RequestsInv
<1>8. /\ d \in Conns /\ ~d.broken /\ RequestsInv(d)
      /\ d.outgoing = idle.outgoing /\ d.network = idle.network /\ d.pipeline = idle.pipeline
      /\ d.handshake = idle.handshake /\ d.credential = idle.credential
      /\ d.idle = idle.idle
      /\ d.pipeline # <<>> => IsStarted(d)
      /\ IsOpen(d) <=> IsOpen(idle)
  BY <1>2, <1>6, <1>7, Starting
<1>9. Fills(d.pipeline, q) /\ d.network /\ (IsOpen(d) <=> IsOpen(c))
  BY <1>1, <1>6, <1>8 DEF p, IsOpen
<1>10. ASSUME c.idle => c.pipeline = <<>>, d.idle, c.handshake, IsOpen(c)
       PROVE  d.pipeline = <<>>
  <2>1. CASE p = <<>>
    BY <1>6, <1>8, <2>1
  <2>2. CASE p # <<>>
    <3>1. c.idle /\ new = <<>>
      BY <1>5, <1>6, <1>8, <1>10, <2>2
    <3>2. p = <<>>
      BY <1>10, <3>1, ConcatEmptySeq DEF p
    <3>3. QED
      BY <2>2, <3>2
  <2>3. QED
    BY <2>1, <2>2
<1>11. ASSUME IsOpen(c), c.handshake
       PROVE  SentItsShare(c, d)
  BY <1>1, <1>5, <1>6, <1>8, <1>11 DEF p, SentItsShare
<1>12. /\ ~(IsOpen(c) /\ c.handshake) => d.outgoing = c.outgoing
       /\ d.idle => c.idle \/ IsOpen(c)
       /\ d.pipeline # <<>> /\ ~(IsOpen(c) /\ c.handshake) => d.idle = c.idle
  BY <1>5, <1>6, <1>8
<1>13. QED
  BY <1>2, <1>6, <1>8, <1>9, <1>10, <1>11, <1>12

\* What holds of the write half between two calls; q is the queue it works for.
ConnInv(c, q) ==
    /\ c \in Conns /\ ~c.broken /\ c.network
    /\ RequestsInv(c)
    /\ Fills(c.pipeline, q)
    /\ c.pipeline # <<>> => IsStarted(c)
    /\ c.idle => IsOpen(c) /\ c.handshake /\ c.pipeline = <<>>
    /\ ~IsOpen(c) => c.outgoing = <<>> /\ ~c.handshake
    /\ IsOpen(c) => c.credential \in Users

\* No stream, and none on its way.
Down(c) ==
    /\ ~IsStarted(c)
    /\ c.outgoing = <<>> /\ ~c.idle
    /\ \A r \in c.requests : ~r.current

LEMMA FillsAll ==
    ASSUME NEW p \in Seq(Batches), NEW q \in Seq(Batches), Fills(p, q)
    PROVE  (p = <<>> <=> q = <<>>) /\ Len(p) <= MaxPending /\ IsFront(p, q)
<1>1. Len(p) \in Nat /\ Len(q) \in Nat /\ (p = <<>> <=> Len(p) = 0) /\ (q = <<>> <=> Len(q) = 0)
  BY Members
<1>2. QED
  BY <1>1, MaxPendingAssumption DEF Fills, Smaller

LEMMA TearingDown ==
    ASSUME NEW c \in Conns, NEW s \in {"Initial", "Error"}, NEW d, d = TornDown(c, s)
    PROVE  /\ d \in Conns /\ Down(d) /\ d.broken = c.broken /\ d.network = c.network
           /\ d.pipeline = c.pipeline /\ d.handshake = c.handshake /\ d.state = s
<1> DEFINE t == {[r EXCEPT !.current = FALSE] : r \in c.requests}
<1>1. t \in SUBSET TokenRequests /\ \A r \in t : ~r.current
  <2>1. c.requests \subseteq TokenRequests
    BY Fields
  <2>2. \A r \in TokenRequests :
          [r EXCEPT !.current = FALSE] \in TokenRequests /\ ~[r EXCEPT !.current = FALSE].current
    BY DEF TokenRequests
  <2>3. QED
    BY <2>1, <2>2
<1>2. d = [c EXCEPT !.idle = FALSE, !.requests = t, !.state = s, !.credential = "none",
                    !.outgoing = <<>>]
  BY DEF TornDown
<1> HIDE DEF t
<1>3. <<>> \in Seq(Sent)
  OBVIOUS
<1>4. QED
  BY <1>1, <1>2, <1>3 DEF Conns, Down, IsStarted

LEMMA DownRequests == ASSUME NEW c, Down(c) PROVE RequestsInv(c) /\ ~IsOpen(c)
BY DEF Down, RequestsInv, IsStarted, IsOpen

LEMMA Notifying ==
    ASSUME NEW c \in Conns, NEW d, d = Notified(c)
    PROVE  /\ d \in Conns /\ d.broken = c.broken /\ d.network = c.network
           /\ d.pipeline = c.pipeline /\ ~d.handshake /\ d.state = c.state
           /\ d.idle = c.idle /\ d.requests = c.requests /\ d.credential = c.credential
           /\ d.outgoing = c.outgoing
BY DEF Notified, Conns

\* After a stream has gone the next one is started if there is something to send.
LEMMA Restarting ==
    ASSUME NEW c \in Conns, ~c.broken, c.network, Down(c), NEW q, Fills(c.pipeline, q),
           NEW d, d = Notified(StartIfNeeded(c))
    PROVE  ConnInv(d, q) /\ ~IsOpen(d)
<1> DEFINE s == StartIfNeeded(c)
<1>1. RequestsInv(c) /\ ~IsOpen(c) /\ c.outgoing = <<>> /\ c.idle = FALSE
  BY DownRequests, Fields DEF Down
<1>2. /\ s \in Conns /\ ~s.broken /\ RequestsInv(s)
      /\ s.outgoing = c.outgoing /\ s.network = c.network /\ s.pipeline = c.pipeline
      /\ s.handshake = c.handshake /\ s.credential = c.credential
      /\ s.idle = c.idle
      /\ s.pipeline # <<>> => IsStarted(s)
      /\ IsOpen(s) <=> IsOpen(c)
  BY <1>1, Starting
<1> HIDE DEF s
<1>3. /\ d \in Conns /\ d.broken = s.broken /\ d.network = s.network
      /\ d.pipeline = s.pipeline /\ ~d.handshake /\ d.state = s.state
      /\ d.idle = s.idle /\ d.requests = s.requests /\ d.credential = s.credential
      /\ d.outgoing = s.outgoing
  BY <1>2, Notifying DEF s
<1>4. RequestsInv(d) /\ (IsOpen(d) <=> IsOpen(s)) /\ (IsStarted(d) <=> IsStarted(s))
  BY <1>2, <1>3 DEF RequestsInv, IsOpen, IsStarted
<1>5. ~d.broken /\ d.network /\ ~d.idle /\ ~IsOpen(d)
  BY <1>1, <1>2, <1>3, <1>4
<1>6. Fills(d.pipeline, q) /\ (d.pipeline # <<>> => IsStarted(d)) /\ d.outgoing = <<>>
  BY <1>1, <1>2, <1>3, <1>4
<1>7. QED
  BY <1>3, <1>4, <1>5, <1>6 DEF ConnInv

LEMMA FinishingTransient ==
    ASSUME NEW c \in Conns, ~c.broken, c.network, IsStarted(c),
           NEW q, Fills(c.pipeline, q), NEW d, d = FinishTransient(c)
    PROVE  ConnInv(d, q) /\ ~IsOpen(d)
<1> DEFINE t == TornDown(c, "Error")
<1>1. d = Notified(StartIfNeeded(t))
  BY Asserted DEF FinishTransient
<1>2. /\ t \in Conns /\ Down(t) /\ t.broken = c.broken /\ t.network = c.network
      /\ t.pipeline = c.pipeline
  BY TearingDown
<1> HIDE DEF t
<1>3. ~t.broken /\ t.network /\ Fills(t.pipeline, q)
  BY <1>2
<1>4. QED
  BY <1>1, <1>2, <1>3, Restarting, Zenon

LEMMA FinishingPermanent ==
    ASSUME NEW c \in Conns, ~c.broken, c.network, IsStarted(c), c.pipeline # <<>>,
           Len(c.pipeline) <= MaxPending,
           NEW q \in Seq(Batches), Ordered(q), IsFront(Tail(c.pipeline), q),
           NEW d, d = FinishPermanent(c, q)
    PROVE  ConnInv(d, q) /\ ~IsOpen(d)
<1> DEFINE t == TornDown(c, "Error")
           p == Tail(c.pipeline)
           popped == [t EXCEPT !.pipeline = p]
           i == InhibitBackoff(popped)
           f == FillWritePipeline(i, q)
<1>1. /\ t \in Conns /\ Down(t) /\ t.broken = c.broken /\ t.network = c.network
      /\ t.pipeline = c.pipeline /\ t.state = "Error"
  BY TearingDown
<1>2. d = Notified(StartIfNeeded(f))
  BY <1>1, Asserted DEF FinishPermanent
<1> HIDE DEF t
<1>3. p \in Seq(Batches) /\ Len(p) <= MaxPending
  <2>1. c.pipeline \in Seq(Batches)
    BY Fields
  <2>2. Len(c.pipeline) \in Nat /\ Len(p) = Len(c.pipeline) - 1 /\ p \in Seq(Batches)
    BY <2>1, Tailed
  <2>3. QED
    BY <2>2, MaxPendingAssumption
<1> HIDE DEF p
<1>4. /\ popped \in Conns /\ ~popped.broken /\ popped.network /\ popped.pipeline = p
      /\ ~IsStarted(popped) /\ Down(popped)
  BY <1>1, <1>3 DEF Conns, Down, IsStarted
<1> HIDE DEF popped
<1>5. i = [popped EXCEPT !.state = "Initial"]
  BY <1>4, Asserted DEF InhibitBackoff
<1>6. i \in Conns /\ ~i.broken /\ i.network /\ i.pipeline = p /\ Down(i)
  BY <1>4, <1>5 DEF Conns, Down, IsStarted
<1> HIDE DEF i
<1>7. RequestsInv(i) /\ ~IsOpen(i) /\ i.outgoing = <<>> /\ ~i.idle /\ ~IsStarted(i)
  BY <1>6, DownRequests DEF Down
<1>8. IsFront(i.pipeline, q) /\ Len(i.pipeline) <= MaxPending
  BY <1>3, <1>6 DEF p
<1>9. /\ f \in Conns /\ ~f.broken /\ f.network /\ RequestsInv(f)
      /\ Fills(f.pipeline, q)
      /\ f.pipeline # <<>> => IsStarted(f)
      /\ IsOpen(f) <=> IsOpen(i)
      /\ ~(IsOpen(i) /\ i.handshake) => f.outgoing = i.outgoing
      /\ f.idle => i.idle \/ IsOpen(i)
  BY <1>6, <1>7, <1>8, Filling
<1> HIDE DEF f
<1>10. ~IsOpen(f) /\ f.outgoing = <<>> /\ ~f.idle
  BY <1>7, <1>9
<1> DEFINE s == StartIfNeeded(f)
<1>11. /\ s \in Conns /\ ~s.broken /\ RequestsInv(s)
       /\ s.outgoing = f.outgoing /\ s.network = f.network /\ s.pipeline = f.pipeline
       /\ s.handshake = f.handshake /\ s.credential = f.credential
       /\ s.idle = f.idle
       /\ s.pipeline # <<>> => IsStarted(s)
       /\ IsOpen(s) <=> IsOpen(f)
  BY <1>9, Starting
<1> HIDE DEF s
<1>12. /\ d \in Conns /\ d.broken = s.broken /\ d.network = s.network
       /\ d.pipeline = s.pipeline /\ ~d.handshake /\ d.state = s.state
       /\ d.idle = s.idle /\ d.requests = s.requests /\ d.credential = s.credential
       /\ d.outgoing = s.outgoing
  BY <1>2, <1>11, Notifying DEF s
<1>13. RequestsInv(d) /\ (IsOpen(d) <=> IsOpen(s)) /\ (IsStarted(d) <=> IsStarted(s))
  BY <1>11, <1>12 DEF RequestsInv, IsOpen, IsStarted
<1>14. ~d.broken /\ d.network /\ ~d.idle /\ ~IsOpen(d)
  BY <1>9, <1>10, <1>11, <1>12, <1>13
<1>15. Fills(d.pipeline, q) /\ (d.pipeline # <<>> => IsStarted(d)) /\ d.outgoing = <<>>
  BY <1>9, <1>10, <1>11, <1>12, <1>13
<1>16. QED
  BY <1>12, <1>13, <1>14, <1>15 DEF ConnInv

\* Stop, when no stream is wanted.
LEMMA Stopping ==
    ASSUME NEW c \in Conns, ~c.broken, RequestsInv(c), ~c.network \/ c.pipeline = <<>>,
           ~IsOpen(c) => c.outgoing = <<>> /\ ~c.handshake /\ ~c.idle,
           NEW d, d = Stop(c)
    PROVE  /\ d \in Conns /\ ~d.broken /\ Down(d) /\ ~d.handshake
           /\ d.network = c.network /\ d.pipeline = c.pipeline
<1>1. CASE ~IsStarted(c)
  BY <1>1 DEF Stop, Down, IsStarted, IsOpen, RequestsInv
<1>2. CASE IsStarted(c)
  <2> DEFINE t == TornDown(c, "Initial")
  <2>1. /\ t \in Conns /\ Down(t) /\ t.broken = c.broken /\ t.network = c.network
        /\ t.pipeline = c.pipeline
    BY TearingDown
  <2>2. d = Notified(StartIfNeeded(Assert_(t, ~ShouldStartWriteStream(t))))
    BY <1>2 DEF Stop
  <2> HIDE DEF t
  <2>3. ~ShouldStartWriteStream(t) /\ ~t.broken
    BY <2>1 DEF ShouldStartWriteStream, CanUseNetwork
  <2>4. Assert_(t, ~ShouldStartWriteStream(t)) = t
    BY <2>1, <2>3, Asserted
  <2>5. d = Notified(t)
    BY <2>2, <2>3, <2>4 DEF StartIfNeeded
  <2>6. /\ d \in Conns /\ d.broken = t.broken /\ d.network = t.network
        /\ d.pipeline = t.pipeline /\ ~d.handshake /\ d.state = t.state
        /\ d.idle = t.idle /\ d.requests = t.requests /\ d.credential = t.credential
        /\ d.outgoing = t.outgoing
    BY <2>1, <2>5, Notifying
  <2>7. Down(d)
    BY <2>1, <2>6 DEF Down, IsStarted
  <2>8. QED
    BY <2>1, <2>3, <2>6, <2>7
<1>3. QED
  BY <1>1, <1>2

\* EnableNetwork with nothing under way.
LEMMA Enabling ==
    ASSUME NEW c \in Conns, ~c.broken, Down(c), ~c.handshake, c.pipeline = <<>>,
           NEW q \in Seq(Batches), Ordered(q), NEW d, d = EnableNetwork(c, q)
    PROVE  ConnInv(d, q) /\ ~IsOpen(d)
<1> DEFINE n == [c EXCEPT !.network = TRUE]
<1>1. n \in Conns /\ ~n.broken /\ n.network /\ Down(n) /\ ~n.handshake /\ n.pipeline = <<>>
  BY DEF Conns, Down, IsStarted
<1>2. d = FillWritePipeline(n, q)
  BY DEF EnableNetwork
<1> HIDE DEF n
<1>3. RequestsInv(n) /\ ~IsOpen(n) /\ n.outgoing = <<>> /\ ~n.idle
  BY <1>1, DownRequests DEF Down
<1>4. IsFront(n.pipeline, q) /\ Len(n.pipeline) <= MaxPending
  BY <1>1, Members, MaxPendingAssumption DEF IsFront
<1>5. /\ d \in Conns /\ ~d.broken /\ d.network /\ RequestsInv(d)
      /\ Fills(d.pipeline, q)
      /\ d.pipeline # <<>> => IsStarted(d)
      /\ IsOpen(d) <=> IsOpen(n)
      /\ d.handshake = n.handshake
      /\ ~(IsOpen(n) /\ n.handshake) => d.outgoing = n.outgoing
      /\ d.idle => n.idle \/ IsOpen(n)
  BY <1>1, <1>2, <1>3, <1>4, Filling
<1>6. ~IsOpen(d) /\ d.outgoing = <<>> /\ ~d.idle /\ ~d.handshake
  BY <1>1, <1>3, <1>5
<1>7. QED
  BY <1>5, <1>6 DEF ConnInv

LEMMA ChangingCredential ==
    ASSUME NEW c, NEW q0, ConnInv(c, q0), NEW q \in Seq(Batches), Ordered(q),
           NEW d, d = HandleCredentialChange(c, q)
    PROVE  ConnInv(d, q) /\ ~IsOpen(d)
<1> DEFINE n == [c EXCEPT !.network = FALSE]
           s == Stop(n)
           e == [s EXCEPT !.pipeline = <<>>]
<1>1. /\ n \in Conns /\ ~n.broken /\ ~n.network /\ RequestsInv(n)
      /\ ~IsOpen(n) => n.outgoing = <<>> /\ ~n.handshake /\ ~n.idle
  BY DEF ConnInv, Conns, RequestsInv, IsOpen
<1>2. d = EnableNetwork(e, q)
  BY DEF HandleCredentialChange
<1> HIDE DEF n
<1>3. /\ s \in Conns /\ ~s.broken /\ Down(s) /\ ~s.handshake
  BY <1>1, Stopping
<1> HIDE DEF s
<1>4. <<>> \in Seq(Batches)
  OBVIOUS
<1>5. e \in Conns /\ ~e.broken /\ Down(e) /\ ~e.handshake /\ e.pipeline = <<>>
  BY <1>3, <1>4 DEF Conns, Down, IsStarted
<1> HIDE DEF e
<1>6. QED
  BY <1>2, <1>5, Enabling

LEMMA StoppingIdle ==
    ASSUME NEW c, NEW q, ConnInv(c, q), c.idle, NEW d, d = Stop(c)
    PROVE  ConnInv(d, q) /\ ~IsOpen(d)
<1>1. /\ c \in Conns /\ ~c.broken /\ RequestsInv(c) /\ c.pipeline = <<>> /\ c.network
      /\ ~IsOpen(c) => c.outgoing = <<>> /\ ~c.handshake /\ ~c.idle
      /\ Fills(c.pipeline, q)
  BY DEF ConnInv
<1>2. /\ d \in Conns /\ ~d.broken /\ Down(d) /\ ~d.handshake
      /\ d.network = c.network /\ d.pipeline = c.pipeline
  BY <1>1, Stopping
<1>3. RequestsInv(d) /\ ~IsOpen(d) /\ ~d.idle /\ d.outgoing = <<>>
  BY <1>2, DownRequests DEF Down
<1>4. d.network /\ Fills(d.pipeline, q) /\ d.pipeline = <<>>
  BY <1>1, <1>2
<1>5. QED
  BY <1>2, <1>3, <1>4 DEF ConnInv

\* A token request has been answered.
LEMMA Resuming ==
    ASSUME NEW c, NEW q, ConnInv(c, q), NEW r \in c.requests, r.current, NEW u \in Users,
           NEW d, d = ResumeStart([c EXCEPT !.requests = @ \ {r}], u)
    PROVE  ConnInv(d, q) /\ IsOpen(d) /\ ~d.handshake /\ d.outgoing = <<Handshake>>
<1> DEFINE s == c.requests \ {r}
           n == [c EXCEPT !.requests = s]
           o == [n EXCEPT !.state = "Open", !.credential = u]
<1>1. c \in Conns /\ ~c.broken /\ c.network /\ c.state = "Starting" /\ ~c.handshake
      /\ c.outgoing = <<>> /\ ~c.idle /\ Fills(c.pipeline, q)
  BY DEF ConnInv, RequestsInv, IsOpen
<1>2. s \in SUBSET TokenRequests /\ \A t \in s : ~t.current
  <2>1. c.requests \subseteq TokenRequests
    BY <1>1, Fields
  <2>2. QED
    BY <2>1 DEF ConnInv, RequestsInv
<1> HIDE DEF s
<1>3. /\ n \in Conns /\ ~n.broken /\ n.state = "Starting" /\ n.network /\ ~n.handshake
      /\ n.outgoing = <<>> /\ ~n.idle /\ n.pipeline = c.pipeline /\ n.requests = s
  BY <1>1, <1>2 DEF Conns
<1> USE DEF s
<1>4. d = Send(o, <<Handshake>>)
  <2>1. d = ResumeStart(n, u)
    OBVIOUS
  <2>2. Assert_(n, n.state = "Starting") = n
    BY <1>3, Asserted
  <2>3. QED
    BY <2>1, <2>2 DEF ResumeStart
<1> HIDE DEF s, n
<1>5. /\ o \in Conns /\ ~o.broken /\ IsOpen(o) /\ o.network /\ ~o.handshake
      /\ o.outgoing = <<>> /\ ~o.idle /\ o.pipeline = c.pipeline /\ o.requests = s
      /\ o.credential = u
  BY <1>3 DEF Conns, IsOpen
<1> HIDE DEF o
<1>6. <<Handshake>> \in Seq(Sent) /\ <<>> \o <<Handshake>> = <<Handshake>>
      /\ <<Handshake>> # <<>>
  BY DEF Sent
<1>7. /\ d \in Conns /\ ~d.broken /\ d.outgoing = o.outgoing \o <<Handshake>>
      /\ d.network = o.network /\ d.pipeline = o.pipeline /\ d.state = o.state
      /\ d.handshake = o.handshake /\ d.requests = o.requests
      /\ d.credential = o.credential
      /\ d.idle <=> o.idle /\ <<Handshake>> = <<>>
  BY <1>4, <1>5, <1>6, Sending
<1>8. d.outgoing = <<Handshake>> /\ ~d.idle /\ d.network /\ ~d.handshake
  BY <1>5, <1>6, <1>7
<1>9. IsOpen(d) /\ IsStarted(d) /\ d.credential \in Users
  BY <1>5, <1>7 DEF IsOpen, IsStarted
<1>10. RequestsInv(d)
  BY <1>2, <1>5, <1>7, <1>9 DEF RequestsInv, IsOpen
<1>11. Fills(d.pipeline, q)
  BY <1>1, <1>5, <1>7
<1>12. QED
  BY <1>7, <1>8, <1>9, <1>10, <1>11 DEF ConnInv

LEMMA CompletingHandshake ==
    ASSUME NEW c, NEW q, ConnInv(c, q), IsOpen(c), ~c.handshake, c.outgoing = <<>>,
           NEW d, d = HandshakeComplete(c)
    PROVE  /\ ConnInv(d, q) /\ IsOpen(d) /\ d.handshake /\ d.pipeline = c.pipeline
           /\ d.outgoing = c.pipeline
<1> DEFINE n == [c EXCEPT !.handshake = TRUE]
           p == c.pipeline
<1>1. /\ n \in Conns /\ ~n.broken /\ n.network /\ n.handshake /\ n.pipeline = p
      /\ n.outgoing = <<>> /\ ~n.idle /\ IsOpen(n) /\ n.requests = c.requests
      /\ n.state = c.state /\ n.credential = c.credential /\ p \in Seq(Batches)
  BY DEF ConnInv, Conns, IsOpen
<1>2. d = Send(n, p)
  BY DEF HandshakeComplete
<1> HIDE DEF n
<1>3. p \in Seq(Sent) /\ <<>> \o p = p
  BY <1>1, BatchesAreSent, ConcatEmptySeq
<1> HIDE DEF p
<1>4. /\ d \in Conns /\ ~d.broken /\ d.outgoing = n.outgoing \o p
      /\ d.network = n.network /\ d.pipeline = n.pipeline /\ d.state = n.state
      /\ d.handshake = n.handshake /\ d.requests = n.requests
      /\ d.credential = n.credential
      /\ d.idle <=> n.idle /\ p = <<>>
  <2>1. n \in Conns /\ ~n.broken /\ p \in Seq(Sent) /\ (p # <<>> => IsOpen(n))
    BY <1>1, <1>3
  <2>2. d.network = n.network
    BY <1>2, <2>1, Sending, Zenon
  <2>3. ~d.broken
    BY <1>2, <2>1, Sending, Zenon
  <2>4. d.idle <=> n.idle /\ p = <<>>
    BY <1>2, <2>1, Sending, Zenon
  <2>5. QED
    BY <1>2, <2>1, <2>2, <2>3, <2>4, Sending
<1>5. d.outgoing = p /\ ~d.idle /\ d.network /\ d.handshake /\ d.pipeline = p
  BY <1>1, <1>3, <1>4
<1>6. IsOpen(d) /\ IsStarted(d) /\ RequestsInv(d) /\ d.credential \in Users
  BY <1>1, <1>4 DEF ConnInv, IsOpen, IsStarted, RequestsInv
<1>7. Fills(d.pipeline, q)
  BY <1>5 DEF ConnInv, p
<1>8. QED
  BY <1>4, <1>5, <1>6, <1>7 DEF ConnInv, p

\* FillWritePipeline for a connection that is in order.
LEMMA Refilling ==
    ASSUME NEW c \in Conns, ~c.broken, c.network, RequestsInv(c),
           c.idle => IsOpen(c) /\ c.handshake /\ c.pipeline = <<>>,
           ~IsOpen(c) => c.outgoing = <<>> /\ ~c.handshake,
           IsOpen(c) => c.credential \in Users,
           NEW q \in Seq(Batches), Ordered(q), IsFront(c.pipeline, q),
           Len(c.pipeline) <= MaxPending, q # <<>> \/ c.handshake,
           NEW d, d = FillWritePipeline(c, q)
    PROVE  /\ ConnInv(d, q) /\ (IsOpen(d) <=> IsOpen(c)) /\ d.handshake = c.handshake
           /\ ~(IsOpen(c) /\ c.handshake) => d.outgoing = c.outgoing
           /\ IsOpen(c) /\ c.handshake => SentItsShare(c, d)
<1>1. /\ d \in Conns /\ ~d.broken /\ d.network /\ RequestsInv(d)
      /\ Fills(d.pipeline, q)
      /\ d.pipeline # <<>> => IsStarted(d)
      /\ IsOpen(d) <=> IsOpen(c)
      /\ d.handshake = c.handshake /\ d.credential = c.credential
      /\ ~(IsOpen(c) /\ c.handshake) => d.outgoing = c.outgoing
      /\ IsOpen(c) /\ c.handshake => SentItsShare(c, d)
      /\ d.idle => c.idle \/ IsOpen(c)
      /\ (c.idle => c.pipeline = <<>>) => (d.idle /\ c.handshake /\ IsOpen(c) => d.pipeline = <<>>)
      /\ d.pipeline # <<>> /\ ~(IsOpen(c) /\ c.handshake) => d.idle = c.idle
  <2>1. /\ d \in Conns /\ ~d.broken /\ d.network /\ RequestsInv(d)
        /\ Fills(d.pipeline, q)
        /\ d.pipeline # <<>> => IsStarted(d)
        /\ IsOpen(d) <=> IsOpen(c)
        /\ d.handshake = c.handshake /\ d.credential = c.credential
    BY Filling
  <2>2. ~(IsOpen(c) /\ c.handshake) => d.outgoing = c.outgoing
    BY Filling
  <2>3. IsOpen(c) /\ c.handshake => SentItsShare(c, d)
    BY Filling, Zenon
  <2>4. d.idle => c.idle \/ IsOpen(c)
    BY Filling, Zenon
  <2>5. (c.idle => c.pipeline = <<>>) => (d.idle /\ c.handshake /\ IsOpen(c) => d.pipeline = <<>>)
    BY Filling, Zenon
  <2>6. d.pipeline # <<>> /\ ~(IsOpen(c) /\ c.handshake) => d.idle = c.idle
    BY Filling
  <2>7. QED
    BY <2>1, <2>2, <2>3, <2>4, <2>5, <2>6, Zenon
<1>2. d.pipeline = <<>> <=> q = <<>>
  BY <1>1, Fields, FillsAll
<1>3. ASSUME d.idle PROVE IsOpen(d) /\ d.handshake /\ d.pipeline = <<>>
  <2>1. IsOpen(c) /\ IsOpen(d)
    BY <1>1, <1>3
  <2>2. c.handshake
    BY <1>1, <1>2, <1>3
  <2>3. QED
    BY <1>1, <1>3, <2>1, <2>2
<1>4. ~IsOpen(d) => d.outgoing = <<>> /\ ~d.handshake
  BY <1>1
<1>5. IsOpen(d) => d.credential \in Users
  BY <1>1
<1>6. ConnInv(d, q)
  BY <1>1, <1>3, <1>4, <1>5 DEF ConnInv
<1>7. QED
  BY <1>1, <1>6

LEMMA BackingOff ==
    ASSUME NEW c, NEW q, ConnInv(c, q), c.state = "Backoff", NEW d, d = BackoffElapsed(c)
    PROVE  ConnInv(d, q) /\ ~IsOpen(d)
<1> DEFINE n == [c EXCEPT !.state = "Initial"]
           r == [current |-> TRUE, fresh |-> TRUE]
           s == n.requests \cup {r}
<1>1. /\ n \in Conns /\ ~n.broken /\ n.network /\ n.state = "Initial"
      /\ n.pipeline = c.pipeline /\ ~n.idle /\ ~n.handshake /\ n.outgoing = <<>>
      /\ \A t \in n.requests : ~t.current
  BY DEF ConnInv, Conns, RequestsInv, IsOpen
<1>2. d = [n EXCEPT !.state = "Starting", !.requests = s]
  <2>1. Assert_(n, n.state = "Initial") = n
    BY <1>1, Asserted
  <2>2. QED
    BY <1>1, <2>1 DEF BackoffElapsed, Start, RequestCredentials
<1> HIDE DEF n
<1>3. /\ s \in SUBSET TokenRequests /\ \E t \in s : t.current
      /\ \A t, u \in s : t.current /\ u.current => t = u
  <2>1. n.requests \subseteq TokenRequests
    BY <1>1, Fields
  <2>2. r \in TokenRequests /\ r.current
    BY DEF TokenRequests
  <2> HIDE DEF r
  <2>3. QED
    BY <1>1, <2>1, <2>2
<1> HIDE DEF r, s
<1>4. /\ d \in Conns /\ ~d.broken /\ d.network /\ d.pipeline = n.pipeline /\ ~d.idle
      /\ ~d.handshake /\ d.outgoing = <<>> /\ d.state = "Starting" /\ d.requests = s
  BY <1>1, <1>2, <1>3 DEF Conns
<1>5. Fills(d.pipeline, q)
  BY <1>1, <1>4 DEF ConnInv
<1>6. QED
  BY <1>3, <1>4, <1>5 DEF ConnInv, IsOpen, IsStarted, RequestsInv

\* The token counter, and an answer that no longer matters.
LEMMA Forgetting ==
    ASSUME NEW c, NEW q, ConnInv(c, q), NEW s \in SUBSET TokenRequests,
           \A t \in s : t.current => \E r \in c.requests : r.current,
           \A r \in c.requests : r.current => \E t \in s : t.current,
           \A t, u \in s : t.current /\ u.current => t = u,
           NEW d, d = [c EXCEPT !.requests = s]
    PROVE  /\ ConnInv(d, q) /\ (IsOpen(d) <=> IsOpen(c)) /\ d.handshake = c.handshake
           /\ d.outgoing = c.outgoing /\ d.pipeline = c.pipeline
<1>1. /\ d \in Conns /\ d.state = c.state /\ d.requests = s /\ d.broken = c.broken
      /\ d.network = c.network /\ d.pipeline = c.pipeline /\ d.idle = c.idle
      /\ d.handshake = c.handshake /\ d.outgoing = c.outgoing /\ d.credential = c.credential
  BY DEF ConnInv, Conns
<1>2. RequestsInv(d)
  BY <1>1 DEF ConnInv, RequestsInv
<1>3. (IsOpen(d) <=> IsOpen(c)) /\ (IsStarted(d) <=> IsStarted(c))
  BY <1>1 DEF IsOpen, IsStarted
<1>4. QED
  BY <1>1, <1>2, <1>3 DEF ConnInv

(***************************************************************************)
(* The conversation on an open stream.                                     *)
(***************************************************************************)

\* The answers a, a gap of g batches and the messages o are the pipeline p.
Paired(a, g, o, p) ==
    /\ Len(a) + g + Len(o) = Len(p)
    /\ \A k \in 1..Len(a) : a[k] = p[k]
    /\ \A k \in 1..Len(o) : o[k] = p[Len(a) + g + k]

LEMMA PairedNew ==
    ASSUME NEW S, NEW p \in Seq(S)
    PROVE  Paired(<<>>, 0, p, p)
<1>1. Len(p) \in Nat /\ Len(<<>>) = 0
  BY Members
<1>2. QED
  BY <1>1 DEF Paired

LEMMA PairedMore ==
    ASSUME NEW S, NEW a \in Seq(S), NEW o \in Seq(S), NEW p \in Seq(S), NEW n \in Seq(S),
           NEW g \in {0, 1}, Paired(a, g, o, p)
    PROVE  Paired(a, g, o \o n, p \o n)
<1>1. Len(a) \in Nat /\ Len(o) \in Nat /\ Len(p) \in Nat /\ Len(n) \in Nat
  BY Members
<1>2. /\ Len(o \o n) = Len(o) + Len(n)
      /\ \A i \in 1..Len(o) : (o \o n)[i] = o[i]
      /\ \A i \in 1..Len(o \o n) : i \notin 1..Len(o) =>
           i - Len(o) \in 1..Len(n) /\ (o \o n)[i] = n[i - Len(o)]
  BY Joined
<1>3. /\ Len(p \o n) = Len(p) + Len(n)
      /\ \A i \in 1..Len(p) : (p \o n)[i] = p[i]
      /\ \A i \in 1..Len(n) : (p \o n)[Len(p) + i] = n[i]
  BY Joined
<1>4. Len(a) + g + Len(o) = Len(p)
  BY DEF Paired
<1>5. ASSUME NEW k \in 1..Len(a) PROVE a[k] = (p \o n)[k]
  <2>1. k \in 1..Len(p)
    BY <1>1, <1>4
  <2>2. QED
    BY <1>3, <2>1 DEF Paired
<1>6. ASSUME NEW k \in 1..Len(o \o n) PROVE (o \o n)[k] = (p \o n)[Len(a) + g + k]
  <2>1. CASE k \in 1..Len(o)
    <3>1. Len(a) + g + k \in 1..Len(p)
      BY <1>1, <1>4, <2>1
    <3>2. QED
      BY <1>2, <1>3, <2>1, <3>1 DEF Paired
  <2>2. CASE k \notin 1..Len(o)
    <3>1. k - Len(o) \in 1..Len(n) /\ (o \o n)[k] = n[k - Len(o)]
      BY <1>2, <2>2
    <3>2. Len(a) + g + k = Len(p) + (k - Len(o))
      <4> DEFINE la == Len(a)
                 lo == Len(o)
                 lp == Len(p)
      <4>1. la \in Nat /\ lo \in Nat /\ lp \in Nat /\ la + g + lo = lp
        BY <1>1, <1>4
      <4>2. k \in Nat
        BY <1>1, <1>2
      <4> HIDE DEF la, lo, lp
      <4>3. la + g + k = lp + (k - lo)
        BY <4>1, <4>2
      <4>4. QED
        BY <4>3 DEF la, lo, lp
    <3>3. QED
      BY <1>3, <3>1, <3>2
  <2>3. QED
    BY <2>1, <2>2
<1>7. Len(a) + g + Len(o \o n) = Len(p \o n)
  BY <1>1, <1>2, <1>3, <1>4
<1>8. QED
  BY <1>5, <1>6, <1>7 DEF Paired

\* The server answers the oldest message.
LEMMA PairedAnswer ==
    ASSUME NEW S, NEW a \in Seq(S), NEW o \in Seq(S), NEW p \in Seq(S),
           Paired(a, 0, o, p), o # <<>>
    PROVE  Paired(Append(a, Head(o)), 0, Tail(o), p)
<1>1. Len(a) \in Nat /\ Len(o) \in Nat /\ Len(p) \in Nat
  BY Members
<1>2. /\ Len(o) \in Nat \ {0} /\ Len(Tail(o)) = Len(o) - 1 /\ Head(o) = o[1] /\ Head(o) \in S
      /\ \A i \in 1..Len(Tail(o)) : i + 1 \in 1..Len(o) /\ Tail(o)[i] = o[i + 1]
  BY Tailed
<1>3. /\ Len(Append(a, Head(o))) = Len(a) + 1
      /\ \A i \in 1..Len(a) : Append(a, Head(o))[i] = a[i]
      /\ Append(a, Head(o))[Len(a) + 1] = Head(o)
  BY <1>2, AppendProperties
<1> DEFINE b == Append(a, Head(o))
           t == Tail(o)
<1>4. Len(a) + 0 + Len(o) = Len(p)
  BY DEF Paired
<1>5. Len(b) + 0 + Len(t) = Len(p)
  BY <1>1, <1>2, <1>3, <1>4
<1>6. ASSUME NEW k \in 1..Len(b) PROVE b[k] = p[k]
  <2>1. CASE k \in 1..Len(a)
    BY <1>3, <2>1 DEF Paired
  <2>2. CASE k \notin 1..Len(a)
    <3>1. k = Len(a) + 1
      BY <1>1, <1>3, <2>2
    <3>2. b[k] = o[1]
      BY <1>2, <1>3, <3>1
    <3>3. o[1] = p[Len(a) + 0 + 1]
      BY <1>2 DEF Paired
    <3>4. QED
      BY <1>1, <3>1, <3>2, <3>3
  <2>3. QED
    BY <2>1, <2>2
<1>7. ASSUME NEW k \in 1..Len(t) PROVE t[k] = p[Len(b) + 0 + k]
  <2>1. k + 1 \in 1..Len(o) /\ t[k] = o[k + 1]
    BY <1>2
  <2>2. o[k + 1] = p[Len(a) + 0 + (k + 1)]
    BY <2>1 DEF Paired
  <2>3. Len(a) + 0 + (k + 1) = Len(b) + 0 + k
    BY <1>1, <1>3
  <2>4. QED
    BY <2>1, <2>2, <2>3
<1>8. QED
  BY <1>5, <1>6, <1>7 DEF Paired

\* The server refuses it.
LEMMA PairedRefuse ==
    ASSUME NEW S, NEW a \in Seq(S), NEW o \in Seq(S), NEW p \in Seq(S),
           Paired(a, 0, o, p), o # <<>>
    PROVE  Paired(a, 1, Tail(o), p) /\ p[Len(a) + 1] = Head(o)
<1>1. Len(a) \in Nat /\ Len(o) \in Nat /\ Len(p) \in Nat
  BY Members
<1>2. /\ Len(o) \in Nat \ {0} /\ Len(Tail(o)) = Len(o) - 1 /\ Head(o) = o[1]
      /\ \A i \in 1..Len(Tail(o)) : i + 1 \in 1..Len(o) /\ Tail(o)[i] = o[i + 1]
  BY Tailed
<1> DEFINE t == Tail(o)
<1>3. Len(a) + 0 + Len(o) = Len(p)
  BY DEF Paired
<1>4. ASSUME NEW k \in 1..Len(t) PROVE t[k] = p[Len(a) + 1 + k]
  <2>1. k + 1 \in 1..Len(o) /\ t[k] = o[k + 1]
    BY <1>2
  <2>2. o[k + 1] = p[Len(a) + 0 + (k + 1)]
    BY <2>1 DEF Paired
  <2>3. Len(a) + 0 + (k + 1) = Len(a) + 1 + k
    BY <1>1
  <2>4. QED
    BY <2>1, <2>2, <2>3
<1>5. Len(a) + 1 + Len(t) = Len(p)
  BY <1>1, <1>2, <1>3
<1>6. p[Len(a) + 1] = Head(o)
  <2>1. o[1] = p[Len(a) + 0 + 1]
    BY <1>2 DEF Paired
  <2>2. QED
    BY <1>1, <1>2, <2>1
<1>7. QED
  BY <1>4, <1>5, <1>6 DEF Paired

\* The client reads the oldest answer.
LEMMA PairedRead ==
    ASSUME NEW S, NEW a \in Seq(S), NEW o \in Seq(S), NEW p \in Seq(S),
           NEW g \in {0, 1}, Paired(a, g, o, p), a # <<>>
    PROVE  p # <<>> /\ Head(a) = Head(p) /\ Paired(Tail(a), g, o, Tail(p))
<1>1. Len(a) \in Nat /\ Len(o) \in Nat /\ Len(p) \in Nat /\ (p = <<>> <=> Len(p) = 0)
  BY Members
<1>2. /\ Len(a) \in Nat \ {0} /\ Len(Tail(a)) = Len(a) - 1 /\ Head(a) = a[1]
      /\ \A i \in 1..Len(Tail(a)) : i + 1 \in 1..Len(a) /\ Tail(a)[i] = a[i + 1]
  BY Tailed
<1>3. Len(a) + g + Len(o) = Len(p)
  BY DEF Paired
<1>4. p # <<>>
  BY <1>1, <1>2, <1>3
<1>5. /\ Len(Tail(p)) = Len(p) - 1 /\ Head(p) = p[1]
      /\ \A i \in 1..Len(Tail(p)) : i + 1 \in 1..Len(p) /\ Tail(p)[i] = p[i + 1]
  BY <1>4, Tailed
<1> DEFINE b == Tail(a)
           t == Tail(p)
<1>6. ASSUME NEW k \in 1..Len(b) PROVE b[k] = t[k]
  <2>1. k + 1 \in 1..Len(a) /\ b[k] = a[k + 1]
    BY <1>2
  <2>2. a[k + 1] = p[k + 1]
    BY <2>1 DEF Paired
  <2>3. k \in 1..Len(t)
    BY <1>1, <1>2, <1>3, <1>5
  <2>4. QED
    BY <1>5, <2>1, <2>2, <2>3
<1>7. ASSUME NEW k \in 1..Len(o) PROVE o[k] = t[Len(b) + g + k]
  <2>1. o[k] = p[Len(a) + g + k]
    BY DEF Paired
  <2>2. Len(b) + g + k \in 1..Len(t) /\ Len(b) + g + k + 1 = Len(a) + g + k
    BY <1>1, <1>2, <1>3, <1>5
  <2>3. t[Len(b) + g + k] = p[Len(b) + g + k + 1]
    BY <1>5, <2>2
  <2>4. QED
    BY <2>1, <2>2, <2>3
<1>8. Len(b) + g + Len(o) = Len(t)
  BY <1>1, <1>2, <1>3, <1>5
<1>9. Head(a) = Head(p)
  BY <1>2, <1>5 DEF Paired
<1>10. QED
  BY <1>4, <1>6, <1>7, <1>8, <1>9 DEF Paired

\* In sequences.
LEMMA PairedSequences ==
    ASSUME NEW S, NEW a \in Seq(S), NEW o \in Seq(S), NEW p \in Seq(S),
           NEW g \in {0, 1}, Paired(a, g, o, p)
    PROVE  /\ g = 0 => a \o o = p
           /\ g = 1 => /\ Len(a) + 1 \in 1..Len(p)
                       /\ o = SubSeq(p, Len(a) + 2, Len(p))
                       /\ a = SubSeq(p, 1, Len(a))
<1>1. Len(a) \in Nat /\ Len(o) \in Nat /\ Len(p) \in Nat
  BY Members
<1>2. Len(a) + g + Len(o) = Len(p)
  BY DEF Paired
<1>3. ASSUME g = 0 PROVE a \o o = p
  <2>1. /\ a \o o \in Seq(S) /\ Len(a \o o) = Len(a) + Len(o)
        /\ \A i \in 1..Len(a) : (a \o o)[i] = a[i]
        /\ \A i \in 1..Len(a \o o) : i \notin 1..Len(a) =>
             i - Len(a) \in 1..Len(o) /\ (a \o o)[i] = o[i - Len(a)]
    BY Joined
  <2>2. Len(a \o o) = Len(p)
    BY <1>1, <1>2, <1>3, <2>1
  <2>3. ASSUME NEW i \in 1..Len(p) PROVE (a \o o)[i] = p[i]
    <3>1. CASE i \in 1..Len(a)
      BY <2>1, <3>1 DEF Paired
    <3>2. CASE i \notin 1..Len(a)
      <4>1. i - Len(a) \in 1..Len(o) /\ (a \o o)[i] = o[i - Len(a)]
        BY <2>1, <2>2, <3>2
      <4>2. o[i - Len(a)] = p[Len(a) + g + (i - Len(a))]
        BY <4>1 DEF Paired
      <4>3. Len(a) + g + (i - Len(a)) = i
        BY <1>1, <1>3
      <4>4. QED
        BY <4>1, <4>2, <4>3
    <3>3. QED
      BY <3>1, <3>2
  <2>4. QED
    BY <2>1, <2>2, <2>3, SeqEqual
<1>4. ASSUME g = 1
      PROVE  /\ Len(a) + 1 \in 1..Len(p)
             /\ o = SubSeq(p, Len(a) + 2, Len(p))
             /\ a = SubSeq(p, 1, Len(a))
  <2> DEFINE n == Len(a) + 1
             s == SubSeq(p, n + 1, Len(p))
             f == SubSeq(p, 1, Len(a))
  <2>1. n \in 0..Len(p) /\ n \in 1..Len(p) /\ Len(a) \in 0..Len(p) /\ n + 1 = Len(a) + 2
    BY <1>1, <1>2, <1>4
  <2>2. s \in Seq(S) /\ Len(s) = Len(p) - n /\ \A i \in 1..(Len(p) - n) : s[i] = p[n + i]
    BY <2>1, Rest
  <2>3. f \in Seq(S) /\ Len(f) = Len(a) /\ \A i \in 1..Len(a) : f[i] = p[i]
    BY <2>1, First
  <2>4. o = s
    <3>1. Len(o) = Len(s) /\ Len(p) - n = Len(o)
      BY <1>1, <1>2, <1>4, <2>2
    <3>2. \A i \in 1..Len(o) : o[i] = s[i]
      BY <1>4, <2>2, <3>1 DEF Paired
    <3> HIDE DEF s
    <3>3. QED
      BY <2>2, <3>1, <3>2, SeqEqual
  <2>5. a = f
    <3>1. \A i \in 1..Len(a) : a[i] = f[i]
      BY <2>3 DEF Paired
    <3> HIDE DEF f
    <3>2. QED
      BY <2>3, <3>1, SeqEqual
  <2>6. QED
    BY <2>1, <2>4, <2>5
<1>5. QED
  BY <1>3, <1>4

LEMMA TailFront ==
    ASSUME NEW S, NEW p \in Seq(S), NEW q \in Seq(S), p # <<>>, IsFront(p, q)
    PROVE  q # <<>> /\ Head(p) = Head(q) /\ Head(p) = q[1] /\ IsFront(Tail(p), Tail(q))
<1>1. /\ Len(p) \in Nat \ {0} /\ Len(Tail(p)) = Len(p) - 1 /\ Head(p) = p[1]
      /\ \A i \in 1..Len(Tail(p)) : i + 1 \in 1..Len(p) /\ Tail(p)[i] = p[i + 1]
  BY Tailed
<1>2. Len(q) \in Nat /\ (q = <<>> <=> Len(q) = 0)
  BY Members
<1>3. q # <<>>
  BY <1>1, <1>2 DEF IsFront
<1>4. /\ Len(Tail(q)) = Len(q) - 1 /\ Head(q) = q[1]
      /\ \A i \in 1..Len(q) : i # 1 => i - 1 \in 1..Len(Tail(q)) /\ Tail(q)[i - 1] = q[i]
  BY <1>3, Tailed
<1>5. ASSUME NEW i \in 1..Len(Tail(p)) PROVE Tail(p)[i] = Tail(q)[i]
  <2>1. i + 1 \in 1..Len(p) /\ Tail(p)[i] = p[i + 1] /\ p[i + 1] = q[i + 1]
    BY <1>1 DEF IsFront
  <2>2. i + 1 \in 1..Len(q) /\ i + 1 # 1 /\ i + 1 - 1 = i
    BY <1>1, <1>2, <2>1 DEF IsFront
  <2>3. Tail(q)[i + 1 - 1] = q[i + 1]
    BY <1>4, <2>2
  <2>4. QED
    BY <2>1, <2>2, <2>3
<1>6. Head(p) = q[1]
  BY <1>1 DEF IsFront
<1>7. Len(Tail(p)) <= Len(Tail(q))
  BY <1>1, <1>2, <1>4 DEF IsFront
<1>8. QED
  BY <1>3, <1>4, <1>5, <1>6, <1>7 DEF IsFront

\* OnWriteStreamMutationResult.
LEMMA TakingResult ==
    ASSUME NEW c, NEW q0 \in Seq(Batches), ConnInv(c, q0), IsOpen(c), c.handshake,
           c.pipeline # <<>>,
           NEW q \in Seq(Batches), Ordered(q), IsFront(Tail(c.pipeline), q),
           NEW d, d = MutationResult(c, q)
    PROVE  /\ ConnInv(d, q) /\ IsOpen(d) /\ d.handshake
           /\ \E new \in Seq(Batches) :
                d.pipeline = Tail(c.pipeline) \o new /\ d.outgoing = c.outgoing \o new
<1> DEFINE p == Tail(c.pipeline)
           n == [c EXCEPT !.pipeline = p]
<1>1. c \in Conns /\ ~c.broken /\ c.pipeline \in Seq(Batches) /\ ~c.idle
  BY Fields DEF ConnInv
<1>2. p \in Seq(Batches) /\ Len(p) <= MaxPending
  <2>1. Len(c.pipeline) <= MaxPending
    BY <1>1, FillsAll DEF ConnInv
  <2>2. Len(c.pipeline) \in Nat /\ Len(p) = Len(c.pipeline) - 1 /\ p \in Seq(Batches)
    BY <1>1, Tailed
  <2>3. QED
    BY <2>1, <2>2, MaxPendingAssumption
<1>3. d = FillWritePipeline(n, q)
  BY <1>1, Asserted DEF MutationResult
<1>4. IsFront(p, q)
  OBVIOUS
<1> HIDE DEF p
<1>5. /\ n \in Conns /\ ~n.broken /\ n.network /\ RequestsInv(n) /\ ~n.idle
      /\ IsOpen(n) /\ n.handshake /\ n.credential \in Users /\ n.pipeline = p
      /\ n.outgoing = c.outgoing
  BY <1>1, <1>2 DEF ConnInv, Conns, RequestsInv, IsOpen
<1> HIDE DEF n
<1>6. IsFront(n.pipeline, q) /\ Len(n.pipeline) <= MaxPending
  BY <1>2, <1>4, <1>5
<1>7. /\ ConnInv(d, q) /\ (IsOpen(d) <=> IsOpen(n)) /\ d.handshake = n.handshake
      /\ IsOpen(n) /\ n.handshake => SentItsShare(n, d)
  BY <1>3, <1>5, <1>6, Refilling
<1>8. SentItsShare(n, d) /\ IsOpen(d) /\ d.handshake
  BY <1>5, <1>7
<1>9. \E new \in Seq(Batches) : d.pipeline = p \o new /\ d.outgoing = c.outgoing \o new
  BY <1>5, <1>8 DEF SentItsShare
<1>10. QED
  BY <1>7, <1>8, <1>9 DEF p

(***************************************************************************)
(* The inductive invariant.                                                *)
(***************************************************************************)

\* Whether a batch of the pipeline is missing between answers and messages.
Gap(r) == IF r = "no" THEN 0 ELSE 1

\* What is said on the open stream.
TalkInv(c, a, r) ==
    /\ a \in Seq(Sent) /\ r \in {"no", "yes", "read"}
    /\ ~IsOpen(c) => a = <<>> /\ r = "no"
    /\ IsOpen(c) /\ ~c.handshake =>
         /\ r = "no"
         /\ \/ a = <<>> /\ c.outgoing = <<Handshake>>
            \/ a = <<Handshake>> /\ c.outgoing = <<>>
    /\ c.handshake => Paired(a, Gap(r), c.outgoing, c.pipeline)

\* The answers are about committed writes, and the gap is a refused one.
DecidedInv ==
    conn.handshake =>
      /\ \A k \in 1..Len(answers) : answers[k].write \in Committed
      /\ refusing # "no" => conn.pipeline[Len(answers) + 1].write \in Refused

AppInv ==
    /\ auth \in Users /\ notes \in Seq(Users) /\ worker \in Seq(Tasks)
    /\ made \in 0..MaxWrites /\ lost \subseteq Writes /\ troubles \in 0..MaxTroubles

QueueInv ==
    /\ user \in Users /\ nextId \in Nat \ {0}
    /\ queue \in [Users -> Seq(Batches)]
    /\ \A u \in Users : /\ Ordered(queue[u])
                        /\ \A i \in 1..Len(queue[u]) : queue[u][i].id < nextId

CallbackInv ==
    /\ callbacks \subseteq [user : Users, batch : Batches]
    /\ \A c \in callbacks : \E i \in 1..Len(queue[c.user]) : queue[c.user][i] = c.batch

ServerInv ==
    /\ committed \subseteq Deeds /\ refused \subseteq Deeds
    /\ latest \in [Users -> 0..MaxWrites]

WireInv ==
    /\ wire \in Seq(Messages)
    /\ \A i \in 1..Len(wire) : wire[i].id = 0 \/ wire[i].write \in Writes

ToldInv ==
    /\ told \in [Writes -> {"nothing", "ok", "error"}]
    /\ \A w \in Writes : told[w] = "ok" => w \in Committed

\* Where a write can be.
Kept(w) ==
    \/ \E i \in 1..Len(worker) : worker[i] = WriteTask(w)
    \/ w \in lost \/ w \in Committed \/ w \in Refused
    \/ \E u \in Users : \E i \in 1..Len(queue[u]) : queue[u][i].write = w

DropInv == \A w \in 1..made : Kept(w)

StreamInv == ConnInv(conn, queue[user]) /\ TalkInv(conn, answers, refusing)

Inv == AppInv /\ QueueInv /\ StreamInv /\ DecidedInv /\ CallbackInv /\ ServerInv
       /\ WireInv /\ ToldInv /\ DropInv

(***************************************************************************)
(* Steps shared by several actions.                                        *)
(***************************************************************************)

\* What Inv says of the connection, without its quantifiers.
LEMMA StreamFacts ==
    ASSUME Inv
    PROVE  /\ conn \in Conns /\ ~conn.broken /\ conn.network
           /\ conn.pipeline \in Seq(Batches) /\ conn.outgoing \in Seq(Sent)
           /\ conn.pipeline \in Seq(Sent)
           /\ queue[user] \in Seq(Batches) /\ Ordered(queue[user]) /\ user \in Users
           /\ Fills(conn.pipeline, queue[user])
           /\ IsFront(conn.pipeline, queue[user])
           /\ Len(conn.pipeline) <= MaxPending
           /\ conn.handshake => IsOpen(conn)
           /\ conn.outgoing # <<>> => IsOpen(conn) /\ conn.credential \in Users
           /\ answers \in Seq(Sent)
<1>1. conn \in Conns /\ ~conn.broken /\ conn.network /\ Fills(conn.pipeline, queue[user])
  BY DEF Inv, StreamInv, ConnInv
<1>2. conn.pipeline \in Seq(Batches) /\ conn.outgoing \in Seq(Sent)
  BY <1>1, Fields
<1>3. conn.pipeline \in Seq(Sent)
  BY <1>2, BatchesAreSent
<1>4. queue[user] \in Seq(Batches) /\ Ordered(queue[user]) /\ user \in Users
  BY DEF Inv, QueueInv
<1>5. IsFront(conn.pipeline, queue[user]) /\ Len(conn.pipeline) <= MaxPending
  BY <1>1, <1>2, <1>4, FillsAll
<1>6. /\ conn.handshake => IsOpen(conn)
      /\ conn.outgoing # <<>> => IsOpen(conn) /\ conn.credential \in Users
      /\ answers \in Seq(Sent)
  BY DEF Inv, StreamInv, ConnInv, TalkInv
<1>7. QED
  BY <1>1, <1>2, <1>3, <1>4, <1>5, <1>6

\* The open RPC is let go.
LEMMA Abandoning ==
    ASSUME Inv, NEW k \in 0..Len(conn.outgoing), Abandon(k)
    PROVE  WireInv' /\ answers' = <<>> /\ refusing' = "no"
<1> DEFINE m == [i \in 1..k |-> Message(conn.outgoing[i])]
<1>1. answers' = <<>> /\ refusing' = "no" /\ wire' = wire \o m
  BY DEF Abandon
<1>2. ASSUME NEW i \in 1..k
      PROVE  /\ Message(conn.outgoing[i]) \in Messages
             /\ \/ Message(conn.outgoing[i]).id = 0
                \/ Message(conn.outgoing[i]).write \in Writes
  <2>1. Len(conn.outgoing) \in Nat /\ i \in 1..Len(conn.outgoing) /\ conn.outgoing # <<>>
    BY StreamFacts, Members
  <2>2. conn.outgoing[i] \in Sent /\ conn.credential \in Users /\ user \in Users
    BY <2>1, StreamFacts, Members
  <2> DEFINE b == conn.outgoing[i]
  <2>3. /\ b.id \in Nat /\ b.write \in Nat
        /\ b.id = 0 \/ b.write \in Writes
    BY <2>2, BoundsAssumption DEF Sent, Batches, Handshake, Writes
  <2> HIDE DEF b
  <2>4. QED
    BY <2>2, <2>3 DEF Message, Messages, b
<1>3. m \in Seq(Messages) /\ Len(m) = k
  BY <1>2, StreamFacts, Members
<1>4. ASSUME NEW i \in 1..Len(m) PROVE m[i].id = 0 \/ m[i].write \in Writes
  BY <1>2, <1>3
<1> HIDE DEF m
<1>5. /\ wire \in Seq(Messages)
      /\ \A i \in 1..Len(wire) : wire[i].id = 0 \/ wire[i].write \in Writes
  BY DEF Inv, WireInv
<1>6. /\ wire' \in Seq(Messages)
      /\ \A i \in 1..Len(wire) : wire'[i] = wire[i]
      /\ \A i \in 1..Len(wire') : i \notin 1..Len(wire) =>
           i - Len(wire) \in 1..Len(m) /\ wire'[i] = m[i - Len(wire)]
  BY <1>1, <1>3, <1>5, Joined
<1>7. ASSUME NEW i \in 1..Len(wire') PROVE wire'[i].id = 0 \/ wire'[i].write \in Writes
  <2>1. CASE i \in 1..Len(wire)
    BY <1>5, <1>6, <2>1
  <2>2. CASE i \notin 1..Len(wire)
    BY <1>4, <1>6, <2>2
  <2>3. QED
    BY <2>1, <2>2
<1>8. WireInv'
  BY <1>6, <1>7 DEF WireInv
<1>9. QED
  BY <1>1, <1>8

LEMMA MayStillSeeSome ==
    ASSUME Inv, NEW k \in MayStillSee PROVE k \in 0..Len(conn.outgoing)
<1>1. Len(conn.outgoing) \in Nat
  BY StreamFacts, Members
<1>2. QED
  BY <1>1 DEF MayStillSee

\* No handshake has been completed, and a completed one has heard nothing.
HandshakeKept == conn'.handshake => /\ conn.handshake /\ user' = user
                                    /\ answers' = answers /\ wire' = wire

\* Without a stream there is no conversation.
LEMMA ClosedStream ==
    ASSUME ConnInv(conn', queue'[user']), ~IsOpen(conn'), answers' = <<>>, refusing' = "no"
    PROVE  StreamInv' /\ DecidedInv' /\ HandshakeKept
<1>1. ~conn'.handshake
  BY DEF ConnInv
<1>2. TalkInv(conn', answers', refusing')
  BY <1>1 DEF TalkInv
<1>3. QED
  BY <1>1, <1>2 DEF StreamInv, DecidedInv, HandshakeKept

\* Ids after those of every batch.
LEMMA NextIds ==
    ASSUME QueueInv
    PROVE  /\ LoadNextBatchId(queue) \in Nat \ {0}
           /\ \A u \in Users : \A i \in 1..Len(queue[u]) : queue[u][i].id < LoadNextBatchId(queue)
<1> DEFINE S == Ids(queue)
           m == CHOOSE m \in S : \A i \in S : i <= m
<1>1. \A u \in Users : \A i \in 1..Len(queue[u]) :
        queue[u][i].id \in S /\ queue[u][i].id \in Nat /\ queue[u][i].id <= nextId - 1
  <2> SUFFICES ASSUME NEW u \in Users, NEW i \in 1..Len(queue[u])
               PROVE  /\ queue[u][i].id \in S /\ queue[u][i].id \in Nat
                      /\ queue[u][i].id <= nextId - 1
    OBVIOUS
  <2>1. queue[u] \in Seq(Batches)
    BY DEF QueueInv
  <2>2. queue[u][i].id \in Nat
    BY <2>1, BatchIds
  <2>3. queue[u][i].id < nextId /\ nextId \in Nat
    BY DEF QueueInv
  <2>4. queue[u][i].id \in S
    BY DEF Ids
  <2>5. QED
    BY <2>2, <2>3, <2>4
<1>2. S \in SUBSET Nat /\ \A x \in S : x <= nextId - 1
  BY <1>1 DEF Ids
<1>3. nextId - 1 \in Nat
  BY DEF QueueInv
<1>4. LoadNextBatchId(queue) = 1 + (IF S = {} THEN 0 ELSE m)
  BY DEF LoadNextBatchId
<1> HIDE DEF S
<1>5. CASE S = {}
  BY <1>1, <1>4, <1>5
<1>6. CASE S # {}
  <2>1. \E x \in S : \A i \in S : i <= x
    BY <1>2, <1>3, <1>6, Greatest
  <2>2. m \in S /\ \A i \in S : i <= m
    BY <2>1
  <2> HIDE DEF m
  <2>3. m \in Nat /\ LoadNextBatchId(queue) = 1 + m
    BY <1>2, <1>4, <1>6, <2>2
  <2>4. ASSUME NEW u \in Users, NEW i \in 1..Len(queue[u])
        PROVE  queue[u][i].id < LoadNextBatchId(queue)
    <3>1. queue[u][i].id <= m /\ queue[u][i].id \in Nat
      BY <1>1, <2>2
    <3>2. QED
      BY <2>3, <3>1
  <2>5. QED
    BY <2>3, <2>4
<1>7. QED
  BY <1>5, <1>6

(***************************************************************************)
(* Every action keeps the invariant.                                       *)
(***************************************************************************)

LEMMA TaskKinds ==
    ASSUME NEW t \in Tasks
    PROVE  /\ t.op = "write" => t.write \in Writes /\ t = WriteTask(t.write)
           /\ t.op = "credential" => t.user \in Users /\ \A w : t # WriteTask(w)
BY DEF Tasks, WriteTask

LEMMA WriteKeeps == ASSUME Inv, Write PROVE Inv'
<1>1. /\ made \in 0..MaxWrites /\ made < MaxWrites /\ made' = made + 1
      /\ made + 1 \in Writes /\ worker \in Seq(Tasks)
      /\ worker' = Append(worker, WriteTask(made + 1))
  BY BoundsAssumption DEF Inv, AppInv, Write, Writes
<1>2. WriteTask(made + 1) \in Tasks
  BY <1>1 DEF WriteTask, Tasks
<1>3. /\ worker' \in Seq(Tasks) /\ Len(worker) \in Nat /\ Len(worker') = Len(worker) + 1
      /\ \A i \in 1..Len(worker) : worker'[i] = worker[i]
      /\ worker'[Len(worker) + 1] = WriteTask(made + 1)
  BY <1>1, <1>2, AppendProperties
<1>4. AppInv'
  BY <1>1, <1>3, BoundsAssumption DEF Inv, AppInv, Write
<1>5. DropInv'
  <2> SUFFICES ASSUME NEW w \in 1..made' PROVE Kept(w)'
    BY DEF DropInv
  <2>1. CASE w = made + 1
    <3>1. Len(worker) + 1 \in 1..Len(worker')
      BY <1>3
    <3>2. QED
      BY <1>3, <2>1, <3>1 DEF Kept
  <2>2. CASE w # made + 1
    <3>1. Kept(w)
      BY <1>1, <2>2 DEF Inv, DropInv
    <3>2. 1..Len(worker) \subseteq 1..Len(worker')
      BY <1>3
    <3>3. QED
      BY <1>3, <3>1, <3>2 DEF Kept, Write, localVars, serverVars, Committed, Refused
  <2>3. QED
    BY <2>1, <2>2
<1>6. QED
  BY <1>4, <1>5 DEF Inv, Write, localVars, serverVars, QueueInv, StreamInv, DecidedInv,
     CallbackInv, ServerInv, WireInv, ToldInv, Committed, Refused

LEMMA SignInKeeps == ASSUME Inv, NEW u \in Users, SignIn(u) PROVE Inv'
<1>1. notes' \in Seq(Users) /\ troubles' \in 0..MaxTroubles
  BY BoundsAssumption, AppendProperties DEF Inv, AppInv, SignIn, Trouble
<1>2. AppInv'
  BY <1>1 DEF Inv, AppInv, SignIn
<1>3. DropInv'
  BY DEF Inv, DropInv, Kept, SignIn, localVars, serverVars, Committed, Refused
<1>4. QED
  BY <1>2, <1>3 DEF Inv, SignIn, localVars, serverVars, QueueInv, StreamInv, DecidedInv,
     CallbackInv, ServerInv, WireInv, ToldInv, Committed, Refused

LEMMA NotificationKeeps == ASSUME Inv, RunNotification PROVE Inv'
<1> DEFINE u == Head(notes)
           s == {[r EXCEPT !.fresh = FALSE] : r \in conn.requests}
<1>1. notes' \in Seq(Users) /\ u \in Users
  BY Tailed DEF Inv, AppInv, RunNotification
<1>2. worker' = Append(worker, CredentialTask(u)) /\ conn' = [conn EXCEPT !.requests = s]
  BY DEF RunNotification
<1>3. CredentialTask(u) \in Tasks
  BY <1>1 DEF CredentialTask, Tasks
<1> HIDE DEF u
<1>4. /\ worker' \in Seq(Tasks) /\ Len(worker) \in Nat /\ Len(worker') = Len(worker) + 1
      /\ \A i \in 1..Len(worker) : worker'[i] = worker[i]
  BY <1>2, <1>3, AppendProperties DEF Inv, AppInv
<1>5. AppInv'
  BY <1>1, <1>4 DEF Inv, AppInv, RunNotification
<1>6. StreamInv' /\ DecidedInv'
  <2>1. conn.requests \subseteq TokenRequests
    BY StreamFacts, Fields
  <2>2. \A r \in TokenRequests : /\ [r EXCEPT !.fresh = FALSE] \in TokenRequests
                                 /\ [r EXCEPT !.fresh = FALSE].current = r.current
    BY DEF TokenRequests
  <2>3. \A r, t \in conn.requests : r.current /\ t.current => r = t
    BY DEF Inv, StreamInv, ConnInv, RequestsInv
  <2>4. /\ s \in SUBSET TokenRequests
        /\ \A t \in s : t.current => \E r \in conn.requests : r.current
        /\ \A r \in conn.requests : r.current => \E t \in s : t.current
        /\ \A t, v \in s : t.current /\ v.current => t = v
    BY <2>1, <2>2, <2>3
  <2> HIDE DEF s
  <2>5. ConnInv(conn, queue[user])
    BY DEF Inv, StreamInv
  <2>6. /\ ConnInv(conn', queue[user]) /\ (IsOpen(conn') <=> IsOpen(conn))
        /\ conn'.handshake = conn.handshake
        /\ conn'.outgoing = conn.outgoing /\ conn'.pipeline = conn.pipeline
    BY <1>2, <2>4, <2>5, Forgetting
  <2>7. TalkInv(conn', answers, refusing)
    BY <2>6 DEF Inv, StreamInv, TalkInv
  <2>8. StreamInv'
    BY <2>6, <2>7 DEF StreamInv, RunNotification, localVars
  <2>9. DecidedInv'
    BY <2>6 DEF Inv, DecidedInv, RunNotification, serverVars, Committed, Refused
  <2>10. QED
    BY <2>8, <2>9
<1>7. DropInv'
  <2> SUFFICES ASSUME NEW w \in 1..made PROVE Kept(w)'
    BY DEF DropInv, RunNotification
  <2>1. Kept(w)
    BY DEF Inv, DropInv
  <2>2. 1..Len(worker) \subseteq 1..Len(worker')
    BY <1>4
  <2>3. QED
    BY <1>4, <2>1, <2>2 DEF Kept, RunNotification, localVars, serverVars, Committed, Refused
<1>8. QED
  BY <1>5, <1>6, <1>7 DEF Inv, RunNotification, localVars, serverVars, QueueInv,
     CallbackInv, ServerInv, WireInv, ToldInv, Committed, Refused

LEMMA TakeWriteKeeps == ASSUME Inv, TakeWrite PROVE Inv' /\ conn'.handshake = conn.handshake
<1> DEFINE w0 == Head(worker).write
           b == [id |-> nextId, write |-> w0]
           q == queue[user]
<1>1. /\ worker # <<>> /\ worker \in Seq(Tasks) /\ Head(worker) \in Tasks
      /\ Head(worker).op = "write" /\ worker' = Tail(worker)
  BY Tailed DEF Inv, AppInv, TakeWrite
<1>2. w0 \in Writes /\ Head(worker) = WriteTask(w0)
  BY <1>1, TaskKinds
<1>3. /\ user \in Users /\ nextId \in Nat \ {0} /\ queue \in [Users -> Seq(Batches)]
      /\ q \in Seq(Batches) /\ Ordered(q) /\ \A i \in 1..Len(q) : q[i].id < nextId
  BY DEF Inv, QueueInv
<1>4. b \in Batches /\ b.id = nextId /\ b.write = w0
  BY <1>2, <1>3 DEF Batches
<1>5. /\ queue' = [queue EXCEPT ![user] = Append(q, b)]
      /\ callbacks' = callbacks \cup {[user |-> user, batch |-> b]}
      /\ nextId' = nextId + 1 /\ user' = user
      /\ conn' = FillWritePipeline(conn, queue'[user])
  BY DEF TakeWrite
<1> HIDE DEF w0, b
<1>6. /\ Append(q, b) \in Seq(Batches) /\ Ordered(Append(q, b))
      /\ Len(q) \in Nat /\ Len(Append(q, b)) = Len(q) + 1
      /\ \A i \in 1..Len(q) : Append(q, b)[i] = q[i]
      /\ Append(q, b)[Len(q) + 1] = b
  BY <1>3, <1>4, AppendOrdered
<1>7. /\ queue' \in [Users -> Seq(Batches)] /\ queue'[user] = Append(q, b)
      /\ \A u \in Users : u # user => queue'[u] = queue[u]
  BY <1>3, <1>5, <1>6
<1>8. \A u \in Users : Len(queue[u]) \in Nat /\ Len(queue'[u]) \in Nat
  BY <1>3, <1>7, Members
<1>9. \A u \in Users : \A i \in 1..Len(queue[u]) :
        i \in 1..Len(queue'[u]) /\ queue'[u][i] = queue[u][i]
  BY <1>6, <1>7, <1>8
<1>10. QueueInv'
  <2>1. ASSUME NEW u \in Users
        PROVE  /\ Ordered(queue'[u])
               /\ \A i \in 1..Len(queue'[u]) : queue'[u][i].id < nextId'
    <3>1. CASE u = user
      <4>1. Ordered(queue'[u])
        BY <1>6, <1>7, <3>1
      <4>2. ASSUME NEW i \in 1..Len(queue'[u]) PROVE queue'[u][i].id < nextId'
        <5>1. CASE i \in 1..Len(q)
          <6>1. queue'[u][i].id < nextId /\ queue'[u][i].id \in Nat
            BY <1>3, <1>6, <1>7, <3>1, <5>1, BatchIds
          <6>2. QED
            BY <1>3, <1>5, <6>1
        <5>2. CASE i \notin 1..Len(q)
          <6>1. i = Len(q) + 1
            BY <1>6, <1>7, <3>1, <5>2
          <6>2. queue'[u][i].id = nextId
            BY <1>4, <1>6, <1>7, <3>1, <6>1
          <6>3. QED
            BY <1>3, <1>5, <6>2
        <5>3. QED
          BY <5>1, <5>2
      <4>3. QED
        BY <4>1, <4>2
    <3>2. CASE u # user
      <4>1. Ordered(queue[u]) /\ queue'[u] = queue[u] /\ queue[u] \in Seq(Batches)
        BY <1>7, <3>2 DEF Inv, QueueInv
      <4>2. \A i \in 1..Len(queue[u]) : queue[u][i].id < nextId /\ queue[u][i].id \in Nat
        BY <4>1, BatchIds DEF Inv, QueueInv
      <4>3. QED
        BY <1>3, <1>5, <4>1, <4>2
    <3>3. QED
      BY <3>1, <3>2
  <2>2. QED
    BY <1>3, <1>5, <1>7, <2>1 DEF QueueInv
<1>11. /\ ConnInv(conn', queue'[user']) /\ (IsOpen(conn') <=> IsOpen(conn))
       /\ conn'.handshake = conn.handshake
       /\ ~(IsOpen(conn) /\ conn.handshake) => conn'.outgoing = conn.outgoing
       /\ IsOpen(conn) /\ conn.handshake => SentItsShare(conn, conn')
  <2> DEFINE a == Append(q, b)
  <2>1. a \in Seq(Batches) /\ Ordered(a) /\ a # <<>>
    BY <1>6, Members
  <2>2. IsFront(conn.pipeline, a) /\ Len(conn.pipeline) <= MaxPending
    <3>1. Len(conn.pipeline) \in Nat
      BY StreamFacts, Members
    <3>2. QED
      BY <1>6, <3>1, StreamFacts DEF IsFront
  <2> HIDE DEF a
  <2>3. /\ conn \in Conns /\ ~conn.broken /\ conn.network /\ RequestsInv(conn)
        /\ conn.idle => IsOpen(conn) /\ conn.handshake /\ conn.pipeline = <<>>
        /\ ~IsOpen(conn) => conn.outgoing = <<>> /\ ~conn.handshake
        /\ IsOpen(conn) => conn.credential \in Users
    BY DEF Inv, StreamInv, ConnInv
  <2>4. conn' = FillWritePipeline(conn, a)
    BY <1>5, <1>7 DEF a
  <2>5. /\ ConnInv(conn', a) /\ (IsOpen(conn') <=> IsOpen(conn))
        /\ conn'.handshake = conn.handshake
        /\ ~(IsOpen(conn) /\ conn.handshake) => conn'.outgoing = conn.outgoing
        /\ IsOpen(conn) /\ conn.handshake => SentItsShare(conn, conn')
    BY <2>1, <2>2, <2>3, <2>4, Refilling
  <2>6. queue'[user'] = a
    BY <1>5, <1>7 DEF a
  <2>7. QED
    BY <2>5, <2>6
<1>12. StreamInv' /\ DecidedInv'
  <2>1. TalkInv(conn, answers, refusing) /\ DecidedInv
        /\ answers' = answers /\ refusing' = refusing
    BY DEF Inv, StreamInv, TakeWrite
  <2>2. CASE ~conn.handshake
    <3>1. ~conn'.handshake /\ conn'.outgoing = conn.outgoing
      BY <1>11, <2>2
    <3>2. TalkInv(conn', answers', refusing')
      BY <1>11, <2>1, <2>2, <3>1 DEF TalkInv
    <3>3. QED
      BY <1>11, <3>1, <3>2 DEF StreamInv, DecidedInv
  <2>3. CASE conn.handshake
    <3>1. IsOpen(conn) /\ IsOpen(conn') /\ conn'.handshake /\ SentItsShare(conn, conn')
      BY <1>11, <2>3, StreamFacts
    <3>2. PICK new \in Seq(Batches) :
            conn'.pipeline = conn.pipeline \o new /\ conn'.outgoing = conn.outgoing \o new
      BY <3>1 DEF SentItsShare
    <3>3. Paired(answers, Gap(refusing), conn.outgoing, conn.pipeline) /\ Gap(refusing) \in {0, 1}
      BY <2>1, <2>3 DEF TalkInv, Gap
    <3>4. new \in Seq(Sent)
      BY BatchesAreSent
    <3>5. Paired(answers, Gap(refusing), conn.outgoing \o new, conn.pipeline \o new)
      BY <3>3, <3>4, StreamFacts, PairedMore
    <3>6. TalkInv(conn', answers', refusing')
      BY <2>1, <3>1, <3>2, <3>5 DEF TalkInv
    <3>7. refusing # "no" => Len(answers) + 1 \in 1..Len(conn.pipeline)
      <4>1. Gap(refusing) = 1 => Len(answers) + 1 \in 1..Len(conn.pipeline)
        BY <3>3, StreamFacts, PairedSequences
      <4>2. QED
        BY <4>1 DEF Gap
    <3>8. \A i \in 1..Len(conn.pipeline) : conn'.pipeline[i] = conn.pipeline[i]
      BY <3>2, StreamFacts, Joined
    <3>9. DecidedInv'
      <4>1. Committed' = Committed /\ Refused' = Refused
        BY DEF TakeWrite, serverVars, Committed, Refused
      <4>2. QED
        BY <2>1, <2>3, <3>7, <3>8, <4>1 DEF DecidedInv
    <3>10. QED
      BY <1>11, <3>6, <3>9 DEF StreamInv
  <2>4. QED
    BY <2>2, <2>3
<1>13. CallbackInv'
  <2> DEFINE c0 == [user |-> user, batch |-> b]
  <2>1. c0 \in [user : Users, batch : Batches] /\ c0.user = user /\ c0.batch = b
    BY <1>3, <1>4
  <2>2. /\ callbacks \subseteq [user : Users, batch : Batches]
        /\ \A c \in callbacks : \E i \in 1..Len(queue[c.user]) : queue[c.user][i] = c.batch
    BY DEF Inv, CallbackInv
  <2>3. callbacks' = callbacks \cup {c0}
    BY <1>5
  <2>4. ASSUME NEW c \in callbacks'
        PROVE  \E i \in 1..Len(queue'[c.user]) : queue'[c.user][i] = c.batch
    <3>1. CASE c \in callbacks
      <4>1. c.user \in Users
        BY <2>2, <3>1
      <4>2. QED
        BY <1>9, <2>2, <3>1, <4>1
    <3>2. CASE c = c0
      <4>1. Len(q) + 1 \in 1..Len(queue'[user])
        BY <1>6, <1>7
      <4>2. queue'[user][Len(q) + 1] = b
        BY <1>6, <1>7
      <4>3. QED
        BY <2>1, <3>2, <4>1, <4>2
    <3>3. QED
      BY <2>3, <3>1, <3>2
  <2> HIDE DEF c0
  <2>5. QED
    BY <2>1, <2>2, <2>3, <2>4 DEF CallbackInv
<1>14. /\ Tail(worker) \in Seq(Tasks)
       /\ \A i \in 1..Len(worker) : i # 1 =>
            i - 1 \in 1..Len(Tail(worker)) /\ Tail(worker)[i - 1] = worker[i]
       /\ Head(worker) = worker[1]
  BY <1>1, Tailed
<1>15. AppInv'
  BY <1>1, <1>14 DEF Inv, AppInv, TakeWrite, appVars
<1>16. DropInv'
  <2> SUFFICES ASSUME NEW w \in 1..made PROVE Kept(w)'
    BY DEF DropInv, TakeWrite, appVars
  <2>1. Kept(w)
    BY DEF Inv, DropInv
  <2>2. CASE \E i \in 1..Len(worker) : worker[i] = WriteTask(w)
    <3>1. PICK i \in 1..Len(worker) : worker[i] = WriteTask(w)
      BY <2>2
    <3>2. CASE i # 1
      BY <1>1, <1>14, <3>1, <3>2 DEF Kept
    <3>3. CASE i = 1
      <4>1. w = w0
        BY <1>2, <1>14, <3>1, <3>3 DEF WriteTask
      <4>2. Len(q) + 1 \in 1..Len(queue'[user]) /\ queue'[user][Len(q) + 1].write = w
        BY <1>4, <1>6, <1>7, <4>1
      <4>3. QED
        BY <1>3, <4>2 DEF Kept
    <3>4. QED
      BY <3>2, <3>3
  <2>3. CASE w \in lost \/ w \in Committed \/ w \in Refused
    BY <2>3 DEF Kept, TakeWrite, serverVars, Committed, Refused
  <2>4. CASE \E u \in Users : \E i \in 1..Len(queue[u]) : queue[u][i].write = w
    BY <1>9, <2>4 DEF Kept
  <2>5. QED
    BY <2>1, <2>2, <2>3, <2>4 DEF Kept
<1>17. ServerInv' /\ WireInv' /\ ToldInv'
  BY DEF Inv, TakeWrite, serverVars, ServerInv, WireInv, ToldInv, Committed
<1>18. QED
  BY <1>10, <1>11, <1>12, <1>13, <1>15, <1>16, <1>17 DEF Inv

LEMMA TakeCredentialKeeps == ASSUME Inv, TakeCredential PROVE Inv' /\ HandshakeKept
<1> DEFINE u == Head(worker).user
<1>1. /\ worker # <<>> /\ worker \in Seq(Tasks) /\ Head(worker) \in Tasks
      /\ Head(worker).op = "credential" /\ worker' = Tail(worker)
  BY Tailed DEF Inv, AppInv, TakeCredential
<1>2. u \in Users /\ \A w : Head(worker) # WriteTask(w)
  BY <1>1, TaskKinds
<1>3. /\ user' = u /\ nextId' = IF u # user THEN LoadNextBatchId(queue) ELSE nextId
      /\ conn' = HandleCredentialChange(conn, queue[u]) /\ queue' = queue
  BY DEF TakeCredential
<1> HIDE DEF u
<1>4. QueueInv'
  BY <1>2, <1>3, NextIds DEF Inv, QueueInv
<1>5. PICK k \in MayStillSee : Abandon(k)
  BY DEF TakeCredential
<1>6. WireInv' /\ answers' = <<>> /\ refusing' = "no"
  BY <1>5, MayStillSeeSome, Abandoning
<1>7. StreamInv' /\ DecidedInv' /\ HandshakeKept
  <2>1. queue[u] \in Seq(Batches) /\ Ordered(queue[u]) /\ ConnInv(conn, queue[user])
    BY <1>2 DEF Inv, QueueInv, StreamInv
  <2>2. ConnInv(conn', queue'[user']) /\ ~IsOpen(conn')
    BY <1>3, <2>1, ChangingCredential
  <2>3. QED
    BY <1>6, <2>2, ClosedStream
<1>8. /\ Tail(worker) \in Seq(Tasks)
      /\ \A i \in 1..Len(worker) : i # 1 =>
           i - 1 \in 1..Len(Tail(worker)) /\ Tail(worker)[i - 1] = worker[i]
      /\ Head(worker) = worker[1]
  BY <1>1, Tailed
<1>9. AppInv'
  BY <1>1, <1>8 DEF Inv, AppInv, TakeCredential, appVars
<1>10. DropInv'
  <2> SUFFICES ASSUME NEW w \in 1..made PROVE Kept(w)'
    BY DEF DropInv, TakeCredential, appVars
  <2>1. Kept(w)
    BY DEF Inv, DropInv
  <2>2. CASE \E i \in 1..Len(worker) : worker[i] = WriteTask(w)
    <3>1. PICK i \in 1..Len(worker) : worker[i] = WriteTask(w)
      BY <2>2
    <3>2. i # 1
      BY <1>2, <1>8, <3>1
    <3>3. QED
      BY <1>1, <1>8, <3>1, <3>2 DEF Kept
  <2>3. CASE w \in lost \/ w \in Committed \/ w \in Refused
    BY <2>3 DEF Kept, TakeCredential, serverVars, Committed, Refused
  <2>4. CASE \E v \in Users : \E i \in 1..Len(queue[v]) : queue[v][i].write = w
    BY <1>3, <2>4 DEF Kept
  <2>5. QED
    BY <2>1, <2>2, <2>3, <2>4 DEF Kept
<1>11. CallbackInv' /\ ServerInv' /\ ToldInv'
  BY <1>3 DEF Inv, TakeCredential, serverVars, CallbackInv, ServerInv, ToldInv, Committed
<1>12. QED
  BY <1>4, <1>6, <1>7, <1>9, <1>10, <1>11 DEF Inv

\* What most actions of the stream leave alone.
LEMMA Aside ==
    ASSUME Inv, UNCHANGED <<appVars, worker, localVars, serverVars, lost, told>>,
           troubles' \in 0..MaxTroubles
    PROVE  AppInv' /\ QueueInv' /\ CallbackInv' /\ ServerInv' /\ ToldInv' /\ DropInv'
           /\ queue'[user'] = queue[user] /\ Committed' = Committed /\ Refused' = Refused
<1>1. DropInv'
  BY DEF Inv, DropInv, Kept, appVars, localVars, serverVars, Committed, Refused
<1>2. QED
  BY <1>1 DEF Inv, appVars, localVars, serverVars, AppInv, QueueInv, CallbackInv, ServerInv,
     ToldInv, Committed, Refused

LEMMA BreakKeeps ==
    ASSUME Inv, NEW s \in SUBSET TokenRequests, NEW c, c = [conn EXCEPT !.requests = s],
           IsStarted(conn), Break(c)
    PROVE  ConnInv(conn', queue[user]) /\ ~IsOpen(conn') /\ WireInv'
           /\ answers' = <<>> /\ refusing' = "no"
<1>1. c \in Conns /\ ~c.broken /\ c.network /\ IsStarted(c) /\ c.pipeline = conn.pipeline
  BY StreamFacts DEF Conns, IsStarted
<1>2. conn' = FinishTransient(c) /\ \E k \in MayStillSee : Abandon(k)
  BY DEF Break
<1>3. WireInv' /\ answers' = <<>> /\ refusing' = "no"
  BY <1>2, MayStillSeeSome, Abandoning
<1>4. Fills(c.pipeline, queue[user])
  BY <1>1, StreamFacts
<1>5. ConnInv(conn', queue[user]) /\ ~IsOpen(conn')
  BY <1>1, <1>2, <1>4, FinishingTransient
<1>6. QED
  BY <1>3, <1>5

LEMMA TroublesStay == ASSUME Inv PROVE troubles \in 0..MaxTroubles
BY DEF Inv, AppInv

LEMMA TokenAnswerKeeps == ASSUME Inv, NEW r \in conn.requests, TokenAnswer(r) PROVE Inv' /\ HandshakeKept
<1> DEFINE s == conn.requests \ {r}
           c == [conn EXCEPT !.requests = s]
<1>1. /\ UNCHANGED <<appVars, worker, localVars, serverVars, lost, told>>
      /\ troubles' = troubles
  BY DEF TokenAnswer
<1>2. /\ AppInv' /\ QueueInv' /\ CallbackInv' /\ ServerInv' /\ ToldInv' /\ DropInv'
      /\ queue'[user'] = queue[user] /\ Committed' = Committed /\ Refused' = Refused
  BY <1>1, TroublesStay, Aside
<1>3. /\ s \in SUBSET TokenRequests /\ ConnInv(conn, queue[user])
      /\ \A t, v \in conn.requests : t.current /\ v.current => t = v
      /\ r.current => conn.state = "Starting"
  <2>1. conn.requests \subseteq TokenRequests
    BY StreamFacts, Fields
  <2>2. QED
    BY <2>1 DEF Inv, StreamInv, ConnInv, RequestsInv
<1>4. CASE ~r.current
  <2>1. /\ conn' = [conn EXCEPT !.requests = s]
        /\ answers' = answers /\ refusing' = refusing /\ wire' = wire
    BY <1>4 DEF TokenAnswer
  <2>2. /\ \A t \in s : t.current => \E v \in conn.requests : v.current
        /\ \A v \in conn.requests : v.current => \E t \in s : t.current
        /\ \A t, v \in s : t.current /\ v.current => t = v
    BY <1>3, <1>4
  <2> HIDE DEF s
  <2>3. /\ ConnInv(conn', queue[user]) /\ (IsOpen(conn') <=> IsOpen(conn))
        /\ conn'.handshake = conn.handshake
        /\ conn'.outgoing = conn.outgoing /\ conn'.pipeline = conn.pipeline
    BY <1>3, <2>1, <2>2, Forgetting
  <2>4. TalkInv(conn', answers', refusing')
    <3>1. TalkInv(conn, answers, refusing)
      BY DEF Inv, StreamInv
    <3>2. TalkInv(conn', answers, refusing)
      BY <2>3, <3>1 DEF TalkInv
    <3>3. QED
      BY <2>1, <3>2
  <2>5. StreamInv' /\ DecidedInv' /\ HandshakeKept
    <3>1. user' = user
      BY <1>1 DEF localVars
    <3>2. QED
      BY <1>2, <2>1, <2>3, <2>4, <3>1 DEF Inv, StreamInv, DecidedInv, HandshakeKept
  <2>6. QED
    BY <1>2, <2>1, <2>5 DEF Inv, WireInv
<1>5. CASE r.current /\ ~r.fresh
  <2>1. IsStarted(conn)
    BY <1>3, <1>5 DEF IsStarted
  <2>2. Break(c)
    BY <1>5 DEF TokenAnswer
  <2> HIDE DEF s
  <2>3. ConnInv(conn', queue[user]) /\ ~IsOpen(conn') /\ WireInv'
        /\ answers' = <<>> /\ refusing' = "no"
    BY <1>3, <2>1, <2>2, BreakKeeps
  <2>4. StreamInv' /\ DecidedInv' /\ HandshakeKept
    BY <1>2, <2>3, ClosedStream
  <2>5. QED
    BY <1>2, <2>3, <2>4 DEF Inv
<1>6. CASE r.current /\ r.fresh
  <2>1. /\ conn' = ResumeStart([conn EXCEPT !.requests = @ \ {r}], auth)
        /\ answers' = answers /\ refusing' = refusing /\ wire' = wire
    BY <1>6 DEF TokenAnswer
  <2>2. auth \in Users /\ ~IsOpen(conn) /\ answers = <<>> /\ refusing = "no"
    BY <1>3, <1>6 DEF Inv, AppInv, StreamInv, TalkInv, IsOpen
  <2>3. /\ ConnInv(conn', queue[user]) /\ IsOpen(conn') /\ ~conn'.handshake
        /\ conn'.outgoing = <<Handshake>>
    BY <1>3, <1>6, <2>1, <2>2, Resuming
  <2>4. TalkInv(conn', answers', refusing')
    <3>1. answers' = <<>> /\ refusing' = "no" /\ answers' \in Seq(Sent)
      BY <2>1, <2>2
    <3>2. QED
      BY <2>3, <3>1 DEF TalkInv
  <2>5. StreamInv' /\ DecidedInv' /\ HandshakeKept
    BY <1>2, <2>3, <2>4 DEF StreamInv, DecidedInv, HandshakeKept
  <2>6. QED
    BY <1>2, <2>1, <2>5 DEF Inv, WireInv
<1>7. QED
  BY <1>4, <1>5, <1>6 DEF TokenAnswer

LEMMA FailKeeps == ASSUME Inv, Fail PROVE Inv' /\ HandshakeKept
<1>1. /\ UNCHANGED <<appVars, worker, localVars, serverVars, lost, told>>
      /\ troubles' \in 0..MaxTroubles
  BY BoundsAssumption DEF Inv, AppInv, Fail, Trouble
<1>2. /\ AppInv' /\ QueueInv' /\ CallbackInv' /\ ServerInv' /\ ToldInv' /\ DropInv'
      /\ queue'[user'] = queue[user] /\ Committed' = Committed /\ Refused' = Refused
  BY <1>1, Aside
<1>3. \E s \in SUBSET TokenRequests : IsStarted(conn) /\ Break([conn EXCEPT !.requests = s])
  <2>1. conn.requests \subseteq TokenRequests /\ conn = [conn EXCEPT !.requests = conn.requests]
    BY StreamFacts, Fields DEF Conns
  <2>2. CASE \E r \in conn.requests : r.current /\ Break([conn EXCEPT !.requests = @ \ {r}])
    <3>1. PICK r \in conn.requests : r.current /\ Break([conn EXCEPT !.requests = @ \ {r}])
      BY <2>2
    <3>2. IsStarted(conn)
      BY <3>1 DEF Inv, StreamInv, ConnInv, RequestsInv, IsStarted
    <3>3. conn.requests \ {r} \in SUBSET TokenRequests
      BY <2>1
    <3>4. QED
      BY <3>1, <3>2, <3>3
  <2>3. CASE IsOpen(conn) /\ Break(conn)
    <3>1. IsStarted(conn)
      BY <2>3 DEF IsOpen, IsStarted
    <3>2. QED
      BY <2>1, <2>3, <3>1
  <2>4. QED
    BY <2>2, <2>3 DEF Fail
<1>4. ConnInv(conn', queue[user]) /\ ~IsOpen(conn') /\ WireInv'
      /\ answers' = <<>> /\ refusing' = "no"
  BY <1>3, BreakKeeps
<1>5. StreamInv' /\ DecidedInv' /\ HandshakeKept
  BY <1>2, <1>4, ClosedStream
<1>6. QED
  BY <1>2, <1>4, <1>5 DEF Inv

LEMMA BackoffKeeps == ASSUME Inv, RunBackoff PROVE Inv' /\ HandshakeKept
<1>1. /\ AppInv' /\ QueueInv' /\ CallbackInv' /\ ServerInv' /\ ToldInv' /\ DropInv'
      /\ queue'[user'] = queue[user] /\ Committed' = Committed /\ Refused' = Refused
  BY TroublesStay, Aside DEF RunBackoff
<1>2. ConnInv(conn', queue[user]) /\ ~IsOpen(conn')
  BY BackingOff DEF Inv, StreamInv, RunBackoff
<1>3. answers' = <<>> /\ refusing' = "no" /\ wire' = wire
  BY DEF Inv, StreamInv, TalkInv, RunBackoff, IsOpen
<1>4. StreamInv' /\ DecidedInv' /\ HandshakeKept
  BY <1>1, <1>2, <1>3, ClosedStream
<1>5. QED
  BY <1>1, <1>3, <1>4 DEF Inv, WireInv

LEMMA IdleKeeps == ASSUME Inv, RunIdleTimer PROVE Inv' /\ HandshakeKept
<1>1. /\ AppInv' /\ QueueInv' /\ CallbackInv' /\ ServerInv' /\ ToldInv' /\ DropInv'
      /\ queue'[user'] = queue[user] /\ Committed' = Committed /\ Refused' = Refused
  BY TroublesStay, Aside DEF RunIdleTimer
<1>2. ConnInv(conn', queue[user]) /\ ~IsOpen(conn')
  BY StoppingIdle DEF Inv, StreamInv, RunIdleTimer
<1>3. WireInv' /\ answers' = <<>> /\ refusing' = "no"
  BY MayStillSeeSome, Abandoning DEF RunIdleTimer
<1>4. StreamInv' /\ DecidedInv' /\ HandshakeKept
  BY <1>1, <1>2, <1>3, ClosedStream
<1>5. QED
  BY <1>1, <1>3, <1>4 DEF Inv

LEMMA ReadHandshakeKeeps == ASSUME Inv, ReadHandshake PROVE Inv'
<1>1. /\ AppInv' /\ QueueInv' /\ CallbackInv' /\ ServerInv' /\ ToldInv' /\ DropInv'
      /\ queue'[user'] = queue[user] /\ Committed' = Committed /\ Refused' = Refused
  BY TroublesStay, Aside DEF ReadHandshake
<1>2. /\ answers # <<>> /\ ~conn.handshake /\ answers' = Tail(answers)
      /\ conn' = HandshakeComplete(conn) /\ refusing' = refusing /\ wire' = wire
  BY DEF ReadHandshake
<1>3. IsOpen(conn) /\ refusing = "no" /\ answers = <<Handshake>> /\ conn.outgoing = <<>>
  BY <1>2 DEF Inv, StreamInv, TalkInv
<1>4. /\ ConnInv(conn', queue[user]) /\ IsOpen(conn') /\ conn'.handshake
      /\ conn'.pipeline = conn.pipeline /\ conn'.outgoing = conn.pipeline
  BY <1>2, <1>3, CompletingHandshake DEF Inv, StreamInv
<1>5. answers' = <<>> /\ Len(answers') = 0 /\ refusing' = "no"
  BY <1>2, <1>3
<1>6. Paired(<<>>, 0, conn'.outgoing, conn'.pipeline)
  BY <1>4, StreamFacts, PairedNew
<1>7. TalkInv(conn', answers', refusing')
  BY <1>4, <1>5, <1>6 DEF TalkInv, Gap
<1>8. StreamInv' /\ DecidedInv'
  BY <1>1, <1>4, <1>5, <1>7 DEF StreamInv, DecidedInv
<1>9. QED
  BY <1>1, <1>2, <1>8 DEF Inv, WireInv

\* The oldest batch has been answered: it leaves the pipeline and the queue.
LEMMA Settling ==
    ASSUME Inv, conn.pipeline # <<>>, NEW b, b = Head(conn.pipeline),
           NEW outcome \in {"ok", "error"}, Settle(b.id, outcome),
           outcome = "ok" => b.write \in Committed,
           user' = user, nextId' = nextId, committed' = committed
    PROVE  /\ QueueInv' /\ CallbackInv' /\ ToldInv' /\ Present(b.id)
           /\ queue'[user] \in Seq(Batches) /\ Ordered(queue'[user])
           /\ IsFront(Tail(conn.pipeline), queue'[user])
           /\ \A u \in Users : \A i \in 1..Len(queue[u]) :
                \/ queue[u][i] = b
                \/ \E j \in 1..Len(queue'[u]) : queue'[u][j] = queue[u][i]
<1> DEFINE q == queue[user]
<1>1. /\ q \in Seq(Batches) /\ Ordered(q) /\ user \in Users /\ q # <<>> /\ b = q[1]
      /\ IsFront(Tail(conn.pipeline), Tail(q))
  BY StreamFacts, TailFront
<1>2. /\ queue \in [Users -> Seq(Batches)] /\ nextId \in Nat \ {0}
      /\ \A u \in Users : /\ Ordered(queue[u])
                          /\ \A i \in 1..Len(queue[u]) : queue[u][i].id < nextId
  BY DEF Inv, QueueInv
<1>3. Without(q, b.id) = Tail(q) /\ Ordered(Tail(q))
  BY <1>1, WithoutOldest
<1>4. queue' = [queue EXCEPT ![user] = Tail(q)]
  BY <1>3 DEF Settle
<1>5. /\ Len(q) \in Nat \ {0} /\ Len(Tail(q)) = Len(q) - 1 /\ Tail(q) \in Seq(Batches)
      /\ \A i \in 1..Len(Tail(q)) : i + 1 \in 1..Len(q) /\ Tail(q)[i] = q[i + 1]
      /\ \A i \in 1..Len(q) : i # 1 => i - 1 \in 1..Len(Tail(q)) /\ Tail(q)[i - 1] = q[i]
  BY <1>1, Tailed
<1>6. /\ queue' \in [Users -> Seq(Batches)] /\ queue'[user] = Tail(q)
      /\ \A u \in Users : u # user => queue'[u] = queue[u]
  BY <1>1, <1>2, <1>4, <1>5
<1>7. QueueInv'
  <2>1. ASSUME NEW u \in Users
        PROVE  Ordered(queue'[u]) /\ \A i \in 1..Len(queue'[u]) : queue'[u][i].id < nextId
    <3>1. CASE u = user
      <4>1. Ordered(queue'[u]) /\ queue'[u] = Tail(q)
        BY <1>3, <1>6, <3>1
      <4>2. ASSUME NEW i \in 1..Len(Tail(q)) PROVE Tail(q)[i].id < nextId
        <5>1. i + 1 \in 1..Len(q) /\ Tail(q)[i] = q[i + 1]
          BY <1>5
        <5>2. q[i + 1].id < nextId
          BY <1>1, <1>2, <5>1
        <5>3. QED
          BY <5>1, <5>2
      <4>3. QED
        BY <4>1, <4>2
    <3>2. CASE u # user
      <4>1. queue'[u] = queue[u]
        BY <1>6, <3>2
      <4>2. QED
        BY <1>2, <4>1
    <3>3. QED
      BY <3>1, <3>2
  <2>2. QED
    BY <1>1, <1>2, <1>6, <2>1 DEF QueueInv
<1>8. 1 \in 1..Len(q)
  BY <1>5
<1>9. Present(b.id)
  BY <1>1, <1>8 DEF Present
<1>10. ASSUME NEW u \in Users, NEW i \in 1..Len(queue[u])
       PROVE  \/ queue[u][i] = b
              \/ \E j \in 1..Len(queue'[u]) : queue'[u][j] = queue[u][i]
  <2>1. CASE u = user /\ i = 1
    BY <1>1, <2>1
  <2>2. CASE u = user /\ i # 1
    BY <1>5, <1>6, <2>2
  <2>3. CASE u # user
    BY <1>6, <2>3
  <2>4. QED
    BY <2>1, <2>2, <2>3
<1> DEFINE mine == {c \in callbacks : c.user = user /\ c.batch.id = b.id}
<1>11. /\ callbacks' = callbacks \ mine
       /\ told' = [w \in Writes |-> IF \E c \in mine : c.batch.write = w
                                    THEN outcome ELSE told[w]]
  BY DEF Settle
<1>12. /\ callbacks \subseteq [user : Users, batch : Batches]
       /\ \A c \in callbacks : \E i \in 1..Len(queue[c.user]) : queue[c.user][i] = c.batch
  BY DEF Inv, CallbackInv
<1>13. CallbackInv'
  <2>1. ASSUME NEW c \in callbacks'
        PROVE  \E j \in 1..Len(queue'[c.user]) : queue'[c.user][j] = c.batch
    <3>1. c \in callbacks /\ c \notin mine /\ c.user \in Users
      BY <1>11, <1>12
    <3>2. PICK i \in 1..Len(queue[c.user]) : queue[c.user][i] = c.batch
      BY <1>12, <3>1
    <3>3. CASE queue[c.user][i] = b
      <4>1. c.user # user
        BY <3>1, <3>2, <3>3
      <4>2. QED
        BY <1>6, <3>1, <3>2, <4>1
    <3>4. CASE \E j \in 1..Len(queue'[c.user]) : queue'[c.user][j] = queue[c.user][i]
      BY <3>2, <3>4
    <3>5. QED
      BY <1>10, <3>1, <3>3, <3>4
  <2>2. QED
    BY <1>11, <1>12, <2>1 DEF CallbackInv
<1>14. ASSUME NEW c \in mine PROVE c.batch = b
  <2>1. c \in callbacks /\ c.user = user /\ c.batch.id = b.id
    OBVIOUS
  <2>2. PICK i \in 1..Len(q) : q[i] = c.batch
    BY <1>12, <2>1
  <2>3. q[i].id = q[1].id /\ q[i].id \in Nat
    BY <1>1, <2>1, <2>2, BatchIds
  <2>4. ~(1 < i)
    BY <1>1, <1>8, <2>3 DEF Ordered
  <2>5. i = 1
    BY <2>4
  <2>6. QED
    BY <1>1, <2>2, <2>5
<1> HIDE DEF mine
<1>15. ToldInv'
  <2>1. told \in [Writes -> {"nothing", "ok", "error"}]
        /\ \A w \in Writes : told[w] = "ok" => w \in Committed
    BY DEF Inv, ToldInv
  <2>2. Committed' = Committed
    BY DEF Committed
  <2>3. told' \in [Writes -> {"nothing", "ok", "error"}]
    BY <1>11, <2>1
  <2>4. ASSUME NEW w \in Writes, told'[w] = "ok" PROVE w \in Committed
    <3>1. CASE \E c \in mine : c.batch.write = w
      <4>1. outcome = "ok" /\ w = b.write
        BY <1>11, <1>14, <2>4, <3>1
      <4>2. QED
        BY <4>1
    <3>2. CASE ~\E c \in mine : c.batch.write = w
      BY <1>11, <2>1, <2>4, <3>2
    <3>3. QED
      BY <3>1, <3>2
  <2>5. QED
    BY <2>2, <2>3, <2>4 DEF ToldInv
<1>16. QED
  BY <1>1, <1>3, <1>5, <1>6, <1>7, <1>9, <1>10, <1>13, <1>15

\* A write whose batch has gone is one the server has decided about.
LEMMA SettledIsKept ==
    ASSUME Inv, NEW b, b.write \in Committed \/ b.write \in Refused,
           \A u \in Users : \A i \in 1..Len(queue[u]) :
             \/ queue[u][i] = b
             \/ \E j \in 1..Len(queue'[u]) : queue'[u][j] = queue[u][i],
           UNCHANGED <<appVars, worker, lost, serverVars>>
    PROVE  DropInv'
<1> SUFFICES ASSUME NEW w \in 1..made PROVE Kept(w)'
  BY DEF DropInv, appVars
<1>1. Kept(w)
  BY DEF Inv, DropInv
<1>2. Committed' = Committed /\ Refused' = Refused
  BY DEF serverVars, Committed, Refused
<1>3. CASE \E u \in Users : \E i \in 1..Len(queue[u]) : queue[u][i].write = w
  <2>0. PICK u \in Users : \E i \in 1..Len(queue[u]) : queue[u][i].write = w
    BY <1>3
  <2>1. PICK i \in 1..Len(queue[u]) : queue[u][i].write = w
    BY <2>0
  <2>2. CASE queue[u][i] = b
    BY <1>2, <2>1, <2>2 DEF Kept
  <2>3. CASE \E j \in 1..Len(queue'[u]) : queue'[u][j] = queue[u][i]
    BY <2>1, <2>3 DEF Kept
  <2>4. QED
    BY <2>2, <2>3
<1>4. CASE (\E i \in 1..Len(worker) : worker[i] = WriteTask(w)) \/ w \in lost
            \/ w \in Committed \/ w \in Refused
  BY <1>2, <1>4 DEF Kept
<1>5. QED
  BY <1>1, <1>3, <1>4 DEF Kept

LEMMA ReadResultKeeps == ASSUME Inv, ReadResult PROVE Inv'
<1> DEFINE p == conn.pipeline
           b == Head(conn.pipeline)
           g == Gap(refusing)
<1>1. /\ answers # <<>> /\ conn.handshake /\ answers' = Tail(answers)
      /\ refusing' = IF refusing = "yes" THEN "read" ELSE refusing
      /\ UNCHANGED <<appVars, worker, user, nextId, serverVars, wire, lost, troubles>>
  BY DEF ReadResult
<1>2. /\ Paired(answers, g, conn.outgoing, p) /\ refusing \in {"no", "yes", "read"}
      /\ \A k \in 1..Len(answers) : answers[k].write \in Committed
      /\ refusing # "no" => p[Len(answers) + 1].write \in Refused
      /\ ConnInv(conn, queue[user])
  BY <1>1 DEF Inv, StreamInv, TalkInv, DecidedInv
<1>3. g \in {0, 1} /\ Gap(refusing') = g /\ (refusing' # "no" <=> refusing # "no")
      /\ refusing' \in {"no", "yes", "read"}
  BY <1>1, <1>2 DEF Gap
<1>4. p # <<>> /\ Head(answers) = b /\ Paired(Tail(answers), g, conn.outgoing, Tail(p))
  BY <1>1, <1>2, <1>3, StreamFacts, PairedRead
<1>5. /\ Len(answers) \in Nat \ {0} /\ Len(Tail(answers)) = Len(answers) - 1
      /\ Tail(answers) \in Seq(Sent) /\ Head(answers) = answers[1]
      /\ \A i \in 1..Len(Tail(answers)) :
           i + 1 \in 1..Len(answers) /\ Tail(answers)[i] = answers[i + 1]
  BY <1>1, StreamFacts, Tailed
<1>6. b.write \in Committed
  <2>1. 1 \in 1..Len(answers)
    BY <1>5
  <2>2. QED
    BY <1>2, <1>4, <1>5, <2>1
<1>7. /\ Settle(b.id, "ok")
      /\ conn' = MutationResult(Assert_(conn, Present(b.id)), queue'[user])
  BY <1>4 DEF ReadResult
<1>8. committed' = committed /\ user' = user /\ nextId' = nextId
  BY <1>1 DEF serverVars
<1> HIDE DEF b
<1>9. /\ QueueInv' /\ CallbackInv' /\ ToldInv' /\ Present(b.id)
      /\ queue'[user] \in Seq(Batches) /\ Ordered(queue'[user])
      /\ IsFront(Tail(p), queue'[user])
      /\ \A u \in Users : \A i \in 1..Len(queue[u]) :
           \/ queue[u][i] = b
           \/ \E j \in 1..Len(queue'[u]) : queue'[u][j] = queue[u][i]
  BY <1>4, <1>6, <1>7, <1>8, Settling DEF b
<1>10. conn' = MutationResult(conn, queue'[user])
  BY <1>7, <1>9, StreamFacts, Asserted
<1>11. /\ ConnInv(conn', queue'[user]) /\ IsOpen(conn') /\ conn'.handshake
       /\ \E new \in Seq(Batches) :
            conn'.pipeline = Tail(p) \o new /\ conn'.outgoing = conn.outgoing \o new
  <2> DEFINE q == queue'[user]
  <2>1. /\ queue[user] \in Seq(Batches) /\ ConnInv(conn, queue[user])
        /\ IsOpen(conn) /\ conn.handshake /\ conn.pipeline # <<>>
        /\ q \in Seq(Batches) /\ Ordered(q) /\ IsFront(Tail(conn.pipeline), q)
        /\ conn' = MutationResult(conn, q)
    BY <1>1, <1>2, <1>4, <1>9, <1>10, StreamFacts
  <2> HIDE DEF q
  <2>2. ConnInv(conn', q) /\ IsOpen(conn') /\ conn'.handshake
    BY <2>1, TakingResult
  <2>3. \E new \in Seq(Batches) :
          conn'.pipeline = Tail(conn.pipeline) \o new /\ conn'.outgoing = conn.outgoing \o new
    BY <2>1, TakingResult, Zenon
  <2>4. QED
    BY <2>2, <2>3 DEF q
<1>12. PICK new \in Seq(Batches) :
         conn'.pipeline = Tail(p) \o new /\ conn'.outgoing = conn.outgoing \o new
  BY <1>11
<1>13. Tail(p) \in Seq(Sent) /\ Tail(p) \in Seq(Batches)
  BY <1>4, StreamFacts, Tailed
<1>14. Paired(Tail(answers), g, conn.outgoing \o new, Tail(p) \o new)
  <2>1. new \in Seq(Sent)
    BY BatchesAreSent
  <2>2. QED
    BY <1>3, <1>4, <1>5, <1>13, <2>1, StreamFacts, PairedMore
<1>15. TalkInv(conn', answers', refusing')
  BY <1>1, <1>3, <1>5, <1>11, <1>12, <1>14 DEF TalkInv
<1>16. StreamInv'
  BY <1>8, <1>11, <1>15 DEF StreamInv
<1>17. DecidedInv'
  <2>1. Committed' = Committed /\ Refused' = Refused
    BY <1>1 DEF serverVars, Committed, Refused
  <2>2. \A k \in 1..Len(answers') : answers'[k].write \in Committed
    BY <1>1, <1>2, <1>5
  <2>3. ASSUME refusing # "no"
        PROVE  conn'.pipeline[Len(answers') + 1].write \in Refused
    <3>1. g = 1
      BY <2>3 DEF Gap
    <3>2. Len(answers) + 1 \in 1..Len(p)
      BY <1>2, <1>3, <3>1, StreamFacts, PairedSequences
    <3>3. /\ Len(p) \in Nat /\ Len(Tail(p)) = Len(p) - 1
          /\ \A i \in 1..Len(p) : i # 1 => i - 1 \in 1..Len(Tail(p)) /\ Tail(p)[i - 1] = p[i]
      BY <1>4, StreamFacts, Tailed
    <3>4. Len(answers) + 1 # 1 /\ Len(answers) + 1 - 1 = Len(answers') + 1
      BY <1>1, <1>5
    <3>5. /\ Len(answers') + 1 \in 1..Len(Tail(p))
          /\ Tail(p)[Len(answers') + 1] = p[Len(answers) + 1]
      BY <3>2, <3>3, <3>4
    <3>6. conn'.pipeline[Len(answers') + 1] = Tail(p)[Len(answers') + 1]
      BY <1>12, <1>13, <3>5, Joined
    <3>7. QED
      BY <1>2, <2>3, <3>5, <3>6
  <2>4. QED
    BY <1>3, <2>1, <2>2, <2>3 DEF DecidedInv
<1>18. DropInv'
  BY <1>1, <1>6, <1>9, SettledIsKept
<1>19. AppInv' /\ ServerInv' /\ WireInv'
  BY <1>1 DEF Inv, AppInv, ServerInv, WireInv, appVars, serverVars
<1>20. QED
  BY <1>9, <1>16, <1>17, <1>18, <1>19 DEF Inv

LEMMA ReadRefusalKeeps == ASSUME Inv, ReadRefusal PROVE Inv' /\ HandshakeKept
<1> DEFINE p == conn.pipeline
           b == Head(conn.pipeline)
<1>1. /\ refusing # "no" /\ Abandon(0)
      /\ UNCHANGED <<appVars, worker, user, nextId, serverVars, lost, troubles>>
  BY DEF ReadRefusal
<1>2. conn.handshake /\ IsOpen(conn) /\ IsStarted(conn)
  BY <1>1 DEF Inv, StreamInv, TalkInv, IsOpen, IsStarted
<1>3. /\ Paired(answers, 1, conn.outgoing, p)
      /\ \A k \in 1..Len(answers) : answers[k].write \in Committed
      /\ p[Len(answers) + 1].write \in Refused
  BY <1>1, <1>2 DEF Inv, StreamInv, TalkInv, DecidedInv, Gap
<1>4. Len(answers) + 1 \in 1..Len(p)
  BY <1>3, StreamFacts, PairedSequences
<1>5. Len(p) \in Nat /\ p # <<>> /\ b = p[1]
  <2>1. Len(p) \in Nat /\ (p = <<>> <=> Len(p) = 0)
    BY StreamFacts, Members
  <2>2. p # <<>>
    BY <1>4, <2>1
  <2>3. b = p[1]
    BY <2>2, StreamFacts, Tailed
  <2>4. QED
    BY <2>1, <2>2, <2>3
<1>6. b.write \in Committed \/ b.write \in Refused
  <2>1. CASE answers = <<>>
    BY <1>3, <1>5, <2>1
  <2>2. CASE answers # <<>>
    <3>1. Head(answers) = b
      BY <1>3, <2>2, StreamFacts, PairedRead
    <3>2. 1 \in 1..Len(answers) /\ Head(answers) = answers[1]
      BY <2>2, StreamFacts, Tailed
    <3>3. QED
      BY <1>3, <3>1, <3>2
  <2>3. QED
    BY <2>1, <2>2
<1>7. /\ Settle(b.id, "error")
      /\ conn' = FinishPermanent(Assert_(conn, Present(b.id)), queue'[user])
  BY <1>2, <1>5 DEF ReadRefusal
<1>8. committed' = committed /\ user' = user /\ nextId' = nextId
  BY <1>1 DEF serverVars
<1> HIDE DEF b
<1>9. /\ QueueInv' /\ CallbackInv' /\ ToldInv' /\ Present(b.id)
      /\ queue'[user] \in Seq(Batches) /\ Ordered(queue'[user])
      /\ IsFront(Tail(p), queue'[user])
      /\ \A u \in Users : \A i \in 1..Len(queue[u]) :
           \/ queue[u][i] = b
           \/ \E j \in 1..Len(queue'[u]) : queue'[u][j] = queue[u][i]
  BY <1>5, <1>7, <1>8, Settling DEF b
<1>10. conn' = FinishPermanent(conn, queue'[user])
  BY <1>7, <1>9, StreamFacts, Asserted
<1>11. ConnInv(conn', queue'[user']) /\ ~IsOpen(conn')
  <2> DEFINE q == queue'[user]
  <2>1. /\ conn \in Conns /\ ~conn.broken /\ conn.network /\ IsStarted(conn)
        /\ conn.pipeline # <<>> /\ Len(conn.pipeline) <= MaxPending
        /\ q \in Seq(Batches) /\ Ordered(q) /\ IsFront(Tail(conn.pipeline), q)
        /\ conn' = FinishPermanent(conn, q) /\ queue'[user'] = q
    BY <1>2, <1>5, <1>8, <1>9, <1>10, StreamFacts
  <2> HIDE DEF q
  <2>2. ConnInv(conn', q) /\ ~IsOpen(conn')
    BY <2>1, FinishingPermanent
  <2>3. QED
    BY <2>1, <2>2
<1>12. WireInv' /\ answers' = <<>> /\ refusing' = "no"
  <2>1. 0 \in 0..Len(conn.outgoing)
    BY StreamFacts, Members
  <2>2. QED
    BY <1>1, <2>1, Abandoning
<1>13. StreamInv' /\ DecidedInv' /\ HandshakeKept
  BY <1>11, <1>12, ClosedStream
<1>14. DropInv'
  BY <1>1, <1>6, <1>9, SettledIsKept
<1>15. AppInv' /\ ServerInv'
  BY <1>1 DEF Inv, AppInv, ServerInv, appVars, serverVars
<1>16. QED
  BY <1>9, <1>12, <1>13, <1>14, <1>15 DEF Inv

\* The write half as a process finds it when it starts.
LEMMA Beginning ==
    ASSUME NEW q \in Seq(Batches), Ordered(q), NEW d, d = EnableNetwork(Stopped, q)
    PROVE  ConnInv(d, q) /\ ~IsOpen(d)
<1>1. <<>> \in Seq(Batches) /\ <<>> \in Seq(Sent)
  OBVIOUS
<1>2. /\ Stopped \in Conns /\ ~Stopped.broken /\ Down(Stopped) /\ ~Stopped.handshake
      /\ Stopped.pipeline = <<>>
  BY <1>1 DEF Stopped, Conns, Down, IsStarted
<1>3. QED
  BY <1>2, Enabling

LEMMA RestartKeeps == ASSUME Inv, Restart PROVE Inv' /\ HandshakeKept
<1>1. /\ troubles' \in 0..MaxTroubles /\ notes' = <<>> /\ worker' = <<>> /\ user' = auth
      /\ lost' = lost \cup {t.write : t \in {t \in ToSet(worker) : t.op = "write"}}
      /\ nextId' = LoadNextBatchId(queue) /\ callbacks' = {}
      /\ conn' = EnableNetwork(Stopped, queue[auth])
      /\ UNCHANGED <<auth, made, queue, serverVars, told>>
  BY BoundsAssumption DEF Inv, AppInv, Restart, Trouble
<1>2. auth \in Users /\ worker \in Seq(Tasks) /\ lost \subseteq Writes
  BY DEF Inv, AppInv
<1>3. \A t \in ToSet(worker) : t \in Tasks
  BY <1>2, Members DEF ToSet
<1>4. lost' \subseteq Writes
  BY <1>1, <1>2, <1>3, TaskKinds
<1>5. AppInv'
  BY <1>1, <1>2, <1>4 DEF Inv, AppInv
<1>6. QueueInv'
  BY <1>1, <1>2, NextIds DEF Inv, QueueInv
<1>7. WireInv' /\ answers' = <<>> /\ refusing' = "no"
  BY MayStillSeeSome, Abandoning DEF Restart
<1>8. StreamInv' /\ DecidedInv' /\ HandshakeKept
  <2>1. queue[auth] \in Seq(Batches) /\ Ordered(queue[auth])
    BY <1>2 DEF Inv, QueueInv
  <2>2. ConnInv(conn', queue[auth]) /\ ~IsOpen(conn')
    BY <1>1, <2>1, Beginning
  <2>3. queue'[user'] = queue[auth]
    BY <1>1
  <2>4. QED
    BY <1>7, <2>2, <2>3, ClosedStream
<1>9. CallbackInv' /\ ServerInv' /\ ToldInv'
  BY <1>1 DEF Inv, CallbackInv, ServerInv, ToldInv, serverVars, Committed
<1>10. DropInv'
  <2> SUFFICES ASSUME NEW w \in 1..made PROVE Kept(w)'
    BY <1>1 DEF DropInv
  <2>1. Kept(w)
    BY DEF Inv, DropInv
  <2>2. CASE \E i \in 1..Len(worker) : worker[i] = WriteTask(w)
    <3>1. WriteTask(w) \in {t \in ToSet(worker) : t.op = "write"}
      BY <1>2, <2>2 DEF ToSet, WriteTask
    <3>2. WriteTask(w).write = w
      BY DEF WriteTask
    <3>3. w \in lost'
      BY <1>1, <3>1, <3>2
    <3>4. QED
      BY <3>3 DEF Kept
  <2>3. CASE w \in lost \/ w \in Committed \/ w \in Refused
    BY <1>1, <2>3 DEF Kept, serverVars, Committed, Refused
  <2>4. CASE \E u \in Users : \E i \in 1..Len(queue[u]) : queue[u][i].write = w
    BY <1>1, <2>4 DEF Kept
  <2>5. QED
    BY <2>1, <2>2, <2>3, <2>4 DEF Kept
<1>11. QED
  BY <1>5, <1>6, <1>7, <1>8, <1>9, <1>10 DEF Inv

(***************************************************************************)
(* The server.                                                             *)
(***************************************************************************)

\* What the server has decided it does not take back.
LEMMA Deciding ==
    ASSUME Inv, NEW m, m.write \in Writes, m.user \in Users, m.as \in Users,
           Commit(m) \/ Refuse(m)
    PROVE  /\ ServerInv' /\ Committed \subseteq Committed' /\ Refused \subseteq Refused'
           /\ Commit(m) => m.write \in Committed'
           /\ Refuse(m) => m.write \in Refused'
<1>1. Deed(m) \in Deeds /\ Deed(m).write = m.write
  BY DEF Deed, Deeds
<1>2. ServerInv
  BY DEF Inv
<1>3. CASE Commit(m)
  <2>1. committed' = committed \cup {Deed(m)} /\ refused' = refused
        /\ latest' = [latest EXCEPT ![m.user] = m.write]
    BY <1>3 DEF Commit
  <2>2. m.write \in 0..MaxWrites
    BY BoundsAssumption DEF Writes
  <2>3. ServerInv'
    BY <1>1, <1>2, <2>1, <2>2 DEF ServerInv
  <2>4. Committed \subseteq Committed' /\ Refused' = Refused /\ m.write \in Committed'
    BY <1>1, <2>1 DEF Committed, Refused
  <2>5. ~Refuse(m)
    BY <2>1, <2>4 DEF Refuse, Committed
  <2>6. QED
    BY <2>3, <2>4, <2>5
<1>4. CASE Refuse(m)
  <2>1. refused' = refused \cup {Deed(m)} /\ committed' = committed /\ latest' = latest
        /\ m.write \notin Committed
    BY <1>4 DEF Refuse
  <2>2. ServerInv'
    BY <1>1, <1>2, <2>1 DEF ServerInv
  <2>3. Committed' = Committed /\ Refused \subseteq Refused' /\ m.write \in Refused'
    BY <1>1, <2>1 DEF Committed, Refused
  <2>4. ~Commit(m)
    BY <1>1, <2>1 DEF Commit, Committed
  <2>5. QED
    BY <2>2, <2>3, <2>4
<1>5. QED
  BY <1>3, <1>4

\* What the server does not touch.
LEMMA Away ==
    ASSUME Inv, UNCHANGED <<appVars, worker, localVars, lost, told, troubles>>,
           Committed \subseteq Committed', Refused \subseteq Refused'
    PROVE  AppInv' /\ QueueInv' /\ CallbackInv' /\ ToldInv' /\ DropInv'
           /\ queue' = queue /\ user' = user
<1>1. DropInv'
  BY DEF Inv, DropInv, Kept, appVars, localVars
<1>2. ToldInv'
  BY DEF Inv, ToldInv
<1>3. QED
  BY <1>1, <1>2 DEF Inv, appVars, localVars, AppInv, QueueInv, CallbackInv

LEMMA TailOfWire ==
    ASSUME WireInv, wire # <<>>
    PROVE  /\ Head(wire) \in Messages /\ (Head(wire).id = 0 \/ Head(wire).write \in Writes)
           /\ Tail(wire) \in Seq(Messages)
           /\ \A i \in 1..Len(Tail(wire)) :
                Tail(wire)[i].id = 0 \/ Tail(wire)[i].write \in Writes
<1>1. /\ wire \in Seq(Messages)
      /\ \A i \in 1..Len(wire) : wire[i].id = 0 \/ wire[i].write \in Writes
  BY DEF WireInv
<1>2. /\ Len(wire) \in Nat \ {0} /\ Tail(wire) \in Seq(Messages)
      /\ Head(wire) = wire[1] /\ Head(wire) \in Messages
      /\ \A i \in 1..Len(Tail(wire)) : i + 1 \in 1..Len(wire) /\ Tail(wire)[i] = wire[i + 1]
  BY <1>1, Tailed
<1>3. 1 \in 1..Len(wire)
  BY <1>2
<1>4. QED
  BY <1>1, <1>2, <1>3

LEMMA StreamsAfter ==
    ASSUME NEW s \in Seq(Messages), \A i \in 1..Len(s) : s[i].id = 0 \/ s[i].write \in Writes
    PROVE  /\ NextStream(s) \in Seq(Messages)
           /\ \A i \in 1..Len(NextStream(s)) :
                NextStream(s)[i].id = 0 \/ NextStream(s)[i].write \in Writes
<1> DEFINE later == {i \in 1..Len(s) : IsHandshake(s[i])}
           n == CHOOSE i \in later : \A j \in later : i <= j
<1>1. CASE later = {}
  BY <1>1 DEF NextStream
<1>2. CASE later # {}
  <2>1. Len(s) \in Nat
    BY Members
  <2>2. later \in SUBSET Nat
    BY <2>1
  <2>3. \E i \in later : \A j \in later : i <= j
    BY <1>2, <2>2, Least
  <2>4. n \in later
    BY <2>3
  <2>5. NextStream(s) = SubSeq(s, n, Len(s)) /\ n \in 1..Len(s)
    BY <1>2, <2>4 DEF NextStream
  <2> HIDE DEF later, n
  <2>6. n - 1 \in 0..Len(s) /\ n - 1 + 1 = n
    BY <2>1, <2>5
  <2> DEFINE k == n - 1
  <2>7. /\ SubSeq(s, k + 1, Len(s)) \in Seq(Messages)
        /\ Len(SubSeq(s, k + 1, Len(s))) = Len(s) - k
        /\ \A i \in 1..(Len(s) - k) : SubSeq(s, k + 1, Len(s))[i] = s[k + i]
    BY <2>6, Rest
  <2>8. NextStream(s) = SubSeq(s, k + 1, Len(s)) /\ k \in 0..Len(s)
    BY <2>5, <2>6
  <2> HIDE DEF k
  <2>9. \A i \in 1..(Len(s) - k) : k + i \in 1..Len(s)
    BY <2>1, <2>8
  <2>10. QED
    BY <2>7, <2>8, <2>9
<1>3. QED
  BY <1>1, <1>2

LEMMA ServeAbandonedKeeps == ASSUME Inv, ServeAbandoned PROVE Inv'
<1> DEFINE m == Head(wire)
<1>1. /\ wire # <<>>
      /\ UNCHANGED <<appVars, worker, localVars, conn, answers, refusing, lost, told, troubles>>
      /\ \/ IsHandshake(m) /\ wire' = Tail(wire) /\ UNCHANGED serverVars
         \/ ~IsHandshake(m) /\ Commit(m) /\ wire' = Tail(wire)
         \/ ~IsHandshake(m) /\ Refuse(m) /\ wire' = NextStream(Tail(wire))
  BY DEF ServeAbandoned
<1>2. /\ m \in Messages /\ (m.id = 0 \/ m.write \in Writes)
      /\ Tail(wire) \in Seq(Messages)
      /\ \A i \in 1..Len(Tail(wire)) : Tail(wire)[i].id = 0 \/ Tail(wire)[i].write \in Writes
  BY <1>1, TailOfWire DEF Inv
<1>3. m.user \in Users /\ m.as \in Users
  BY <1>2 DEF Messages
<1>4. WireInv'
  <2>1. CASE wire' = Tail(wire)
    BY <1>2, <2>1 DEF WireInv
  <2>2. CASE wire' = NextStream(Tail(wire))
    BY <1>2, <2>2, StreamsAfter DEF WireInv
  <2>3. QED
    BY <1>1, <2>1, <2>2
<1>5. ServerInv' /\ Committed \subseteq Committed' /\ Refused \subseteq Refused'
  <2>1. CASE IsHandshake(m) /\ UNCHANGED serverVars
    BY <2>1 DEF Inv, ServerInv, serverVars, Committed, Refused
  <2>2. CASE ~IsHandshake(m) /\ (Commit(m) \/ Refuse(m))
    <3>1. m.write \in Writes
      BY <1>2, <2>2 DEF IsHandshake
    <3> HIDE DEF m
    <3>2. QED
      BY <1>3, <2>2, <3>1, Deciding
  <2>3. QED
    BY <1>1, <2>1, <2>2
<1>6. /\ AppInv' /\ QueueInv' /\ CallbackInv' /\ ToldInv' /\ DropInv'
      /\ queue' = queue /\ user' = user
  BY <1>1, <1>5, Away
<1>7. StreamInv' /\ DecidedInv'
  BY <1>1, <1>5, <1>6 DEF Inv, StreamInv, DecidedInv
<1>8. QED
  BY <1>4, <1>5, <1>6, <1>7 DEF Inv

LEMMA ServeKeeps == ASSUME Inv, Serve PROVE Inv'
<1> DEFINE b == Head(conn.outgoing)
           o == Tail(conn.outgoing)
           p == conn.pipeline
<1>1. /\ refusing = "no" /\ conn.outgoing # <<>>
      /\ conn' = [conn EXCEPT !.outgoing = o]
      /\ UNCHANGED <<appVars, worker, localVars, wire, lost, told, troubles>>
      /\ \/ IsHandshake(b) /\ answers' = Append(answers, b)
            /\ UNCHANGED <<serverVars, refusing>>
         \/ ~IsHandshake(b) /\ answers' = Append(answers, b) /\ Commit(Message(b))
            /\ UNCHANGED refusing
         \/ ~IsHandshake(b) /\ refusing' = "yes" /\ Refuse(Message(b)) /\ UNCHANGED answers
  BY DEF Serve
<1>2. IsOpen(conn) /\ conn.credential \in Users /\ user \in Users
  BY <1>1, StreamFacts
<1>3. b \in Sent /\ o \in Seq(Sent)
  BY <1>1, StreamFacts, Tailed
<1> HIDE DEF o
<1>4. /\ ConnInv(conn', queue[user]) /\ IsOpen(conn') /\ conn'.handshake = conn.handshake
      /\ conn'.outgoing = o /\ conn'.pipeline = p
  <2>1. ConnInv(conn, queue[user])
    BY DEF Inv, StreamInv
  <2>2. /\ conn' \in Conns /\ conn'.state = conn.state /\ conn'.requests = conn.requests
        /\ conn'.broken = conn.broken /\ conn'.network = conn.network
        /\ conn'.pipeline = conn.pipeline /\ conn'.idle = conn.idle
        /\ conn'.handshake = conn.handshake /\ conn'.outgoing = o
        /\ conn'.credential = conn.credential
    BY <1>1, <1>3, <2>1 DEF ConnInv, Conns
  <2>3. IsOpen(conn') /\ (IsStarted(conn') <=> IsStarted(conn)) /\ RequestsInv(conn')
    BY <1>2, <2>1, <2>2 DEF ConnInv, IsOpen, IsStarted, RequestsInv
  <2>4. QED
    BY <1>2, <2>1, <2>2, <2>3 DEF ConnInv
<1>5. TalkInv(conn, answers, refusing)
  BY DEF Inv, StreamInv
<1>6. CASE ~conn.handshake
  <2>1. answers = <<>> /\ conn.outgoing = <<Handshake>>
    BY <1>1, <1>2, <1>5, <1>6 DEF TalkInv
  <2>2. b = Handshake /\ IsHandshake(b) /\ o = <<>>
    BY <2>1 DEF Handshake, IsHandshake, o
  <2>3. answers' = <<Handshake>> /\ refusing' = "no" /\ UNCHANGED serverVars
    BY <1>1, <2>1, <2>2
  <2>4. answers' \in Seq(Sent)
    BY <1>3, <2>2, <2>3
  <2>5. TalkInv(conn', answers', refusing')
    BY <1>4, <1>6, <2>2, <2>3, <2>4 DEF TalkInv
  <2>6. /\ ServerInv' /\ Committed' = Committed /\ Refused' = Refused
    BY <2>3 DEF Inv, ServerInv, serverVars, Committed, Refused
  <2>7. /\ AppInv' /\ QueueInv' /\ CallbackInv' /\ ToldInv' /\ DropInv'
        /\ queue' = queue /\ user' = user
    BY <1>1, <2>6, Away
  <2>8. StreamInv' /\ DecidedInv' /\ WireInv'
    BY <1>1, <1>4, <1>6, <2>5, <2>7 DEF Inv, StreamInv, DecidedInv, WireInv
  <2>9. QED
    BY <2>6, <2>7, <2>8 DEF Inv
<1>7. CASE conn.handshake
  <2>1. Paired(answers, 0, conn.outgoing, p)
    BY <1>1, <1>5, <1>7 DEF TalkInv, Gap
  <2>2. Paired(answers, 1, o, p) /\ p[Len(answers) + 1] = b
    BY <1>1, <2>1, StreamFacts, PairedRefuse DEF o
  <2>3. Paired(Append(answers, b), 0, o, p)
    BY <1>1, <2>1, StreamFacts, PairedAnswer DEF o
  <2>4. b \in Batches
    <3>1. o \in Seq(Sent) /\ Len(answers) + 1 \in 1..Len(p)
      BY <1>3, <2>2, StreamFacts, PairedSequences
    <3>2. QED
      BY <2>2, <3>1, StreamFacts, Members
  <2>5. b.id # 0 /\ ~IsHandshake(b) /\ b.write \in Writes /\ b.id \in Nat
    BY <2>4 DEF Batches, IsHandshake
  <2> DEFINE m == Message(b)
  <2>6. m.write = b.write /\ m.write \in Writes /\ m.user \in Users /\ m.as \in Users
    BY <1>2, <2>5 DEF Message
  <2>7. /\ \A k \in 1..Len(answers) : answers[k].write \in Committed
        /\ answers \in Seq(Sent)
    BY <1>5, <1>7 DEF Inv, DecidedInv, TalkInv
  <2> HIDE DEF b, m
  <2>8. Commit(m) \/ Refuse(m)
    BY <1>1, <2>5 DEF m
  <2>9. /\ ServerInv' /\ Committed \subseteq Committed' /\ Refused \subseteq Refused'
        /\ Commit(m) => m.write \in Committed'
        /\ Refuse(m) => m.write \in Refused'
    BY <2>6, <2>8, Deciding
  <2>10. /\ AppInv' /\ QueueInv' /\ CallbackInv' /\ ToldInv' /\ DropInv'
         /\ queue' = queue /\ user' = user
    BY <1>1, <2>9, Away
  <2>11. CASE answers' = Append(answers, b) /\ Commit(m) /\ refusing' = refusing
    <3>1. /\ answers' \in Seq(Sent) /\ Len(answers) \in Nat /\ Len(answers') = Len(answers) + 1
          /\ \A i \in 1..Len(answers) : answers'[i] = answers[i]
          /\ answers'[Len(answers) + 1] = b
      BY <1>3, <2>7, <2>11, AppendProperties
    <3>2. TalkInv(conn', answers', refusing')
      <4>1. refusing' = "no" /\ Paired(answers', Gap(refusing'), o, p)
        BY <1>1, <2>3, <2>11 DEF Gap
      <4>2. QED
        BY <1>4, <1>7, <3>1, <4>1 DEF TalkInv
    <3>3. ASSUME NEW k \in 1..Len(answers') PROVE answers'[k].write \in Committed'
      <4>1. CASE k \in 1..Len(answers)
        BY <2>7, <2>9, <3>1, <4>1
      <4>2. CASE k \notin 1..Len(answers)
        <5>1. k = Len(answers) + 1
          BY <3>1, <4>2
        <5>2. QED
          BY <2>6, <2>9, <2>11, <3>1, <5>1
      <4>3. QED
        BY <4>1, <4>2
    <3>4. DecidedInv'
      BY <1>1, <2>11, <3>3 DEF DecidedInv
    <3>5. StreamInv' /\ WireInv'
      BY <1>1, <1>4, <2>10, <3>2 DEF Inv, StreamInv, WireInv
    <3>6. QED
      BY <2>9, <2>10, <3>4, <3>5 DEF Inv
  <2>12. CASE answers' = answers /\ Refuse(m) /\ refusing' = "yes"
    <3>1. TalkInv(conn', answers', refusing')
      <4>1. Paired(answers', Gap(refusing'), o, p)
        BY <2>2, <2>12 DEF Gap
      <4>2. QED
        BY <1>4, <1>7, <2>7, <2>12, <4>1 DEF TalkInv
    <3>2. conn'.pipeline[Len(answers') + 1].write \in Refused'
      BY <1>4, <2>2, <2>6, <2>9, <2>12
    <3>3. \A k \in 1..Len(answers') : answers'[k].write \in Committed'
      BY <2>7, <2>9, <2>12
    <3>4. DecidedInv'
      BY <3>2, <3>3 DEF DecidedInv
    <3>5. StreamInv' /\ WireInv'
      BY <1>1, <1>4, <2>10, <3>1 DEF Inv, StreamInv, WireInv
    <3>6. QED
      BY <2>9, <2>10, <3>4, <3>5 DEF Inv
  <2>13. QED
    BY <1>1, <2>5, <2>11, <2>12 DEF m
<1>8. QED
  BY <1>6, <1>7

(***************************************************************************)
(* The theorems.                                                           *)
(***************************************************************************)

LEMMA InitInv == Init => Inv
<1> SUFFICES ASSUME Init PROVE Inv
  OBVIOUS
<1>1. /\ auth \in Users /\ user = auth /\ notes = <<>> /\ worker = <<>>
      /\ queue = [u \in Users |-> <<>>] /\ nextId = 1 /\ callbacks = {}
      /\ conn = EnableNetwork(Stopped, <<>>)
      /\ answers = <<>> /\ refusing = "no" /\ wire = <<>>
      /\ made = 0 /\ lost = {} /\ committed = {} /\ refused = {}
      /\ latest = [u \in Users |-> 0] /\ told = [w \in Writes |-> "nothing"] /\ troubles = 0
  BY DEF Init
<1>2. <<>> \in Seq(Batches) /\ Ordered(<<>>) /\ Len(<<>>) = 0
  BY DEF Ordered
<1>3. ConnInv(conn, <<>>) /\ ~IsOpen(conn)
  BY <1>1, <1>2, Beginning
<1>4. AppInv
  BY <1>1, BoundsAssumption DEF AppInv
<1>5. QueueInv
  BY <1>1, <1>2 DEF QueueInv
<1>6. StreamInv /\ DecidedInv
  <2>1. ~conn.handshake
    BY <1>3 DEF ConnInv
  <2>2. TalkInv(conn, answers, refusing)
    BY <1>1, <1>3, <2>1 DEF TalkInv
  <2>3. queue[user] = <<>>
    BY <1>1
  <2>4. QED
    BY <1>3, <2>1, <2>2, <2>3 DEF StreamInv, DecidedInv
<1>7. CallbackInv /\ WireInv
  BY <1>1 DEF CallbackInv, WireInv
<1>8. ServerInv
  BY <1>1, BoundsAssumption DEF ServerInv
<1>9. ToldInv /\ DropInv
  BY <1>1 DEF ToldInv, DropInv
<1>10. QED
  BY <1>4, <1>5, <1>6, <1>7, <1>8, <1>9 DEF Inv

LEMMA NextInv == Inv /\ [Next]_vars => Inv'
<1> SUFFICES ASSUME Inv, [Next]_vars PROVE Inv'
  OBVIOUS
<1>1. CASE Write
  BY <1>1, WriteKeeps
<1>2. CASE \E u \in Users : SignIn(u)
  BY <1>2, SignInKeeps
<1>3. CASE RunNotification
  BY <1>3, NotificationKeeps
<1>4. CASE Worker
  BY <1>4, TakeWriteKeeps, TakeCredentialKeeps, ReadHandshakeKeeps, ReadResultKeeps,
     ReadRefusalKeeps, BackoffKeeps DEF Worker
<1>5. CASE RunIdleTimer
  BY <1>5, IdleKeeps
<1>6. CASE \E r \in conn.requests : TokenAnswer(r)
  BY <1>6, TokenAnswerKeeps
<1>7. CASE Fail
  BY <1>7, FailKeeps
<1>8. CASE Restart
  BY <1>8, RestartKeeps
<1>9. CASE Server
  BY <1>9, ServeKeeps, ServeAbandonedKeeps DEF Server
<1>10. CASE UNCHANGED vars
  BY <1>10 DEF vars, appVars, localVars, serverVars, Inv, AppInv, QueueInv, StreamInv,
     DecidedInv, CallbackInv, ServerInv, WireInv, ToldInv, DropInv, Kept, Committed, Refused
<1>11. QED
  BY <1>1, <1>2, <1>3, <1>4, <1>5, <1>6, <1>7, <1>8, <1>9, <1>10 DEF Next

LEMMA AlwaysInv == Spec => []Inv
BY InitInv, NextInv, PTL DEF Spec

\* Every variable always has its type: queues hold batches, streams carry batches
\* and handshakes, the network is never found disabled between two calls.
THEOREM TypeCorrect == Spec => []TypeOK
<1>1. Inv => TypeOK
  <2> SUFFICES ASSUME Inv PROVE TypeOK
    OBVIOUS
  <2>1. /\ conn \in Conns /\ conn.network = TRUE
    BY StreamFacts, Fields
  <2>2. conn \in [network : {TRUE}, pipeline : Seq(Batches),
               state : {"Initial", "Starting", "Open", "Error", "Backoff"},
               handshake : BOOLEAN, idle : BOOLEAN,
               requests : SUBSET [current : BOOLEAN, fresh : BOOLEAN],
               credential : Users \cup {"none"}, broken : BOOLEAN,
               outgoing : Seq(Batches \cup {Handshake})]
    BY <2>1 DEF Conns, TokenRequests, Sent
  <2>3. answers \in Seq(Batches \cup {Handshake}) /\ refusing \in {"no", "yes", "read"}
    BY DEF Inv, StreamInv, TalkInv, Sent
  <2>4. QED
    BY <2>2, <2>3 DEF Inv, AppInv, QueueInv, CallbackInv, ServerInv, WireInv, ToldInv, TypeOK
<1>2. QED
  BY <1>1, AlwaysInv, PTL

\* No assertion of the stream, of RemoteStore or of the mutation queue ever fails
\* (stream.cc, remote_store.cc, leveldb_mutation_queue.cc).
THEOREM AssertionsHold == Spec => []NoAssertionFails
<1>1. Inv => NoAssertionFails
  BY StreamFacts DEF NoAssertionFails
<1>2. QED
  BY <1>1, AlwaysInv, PTL

\* What is sent is the front of the current user's queue (remote_store.cc:349).
THEOREM PipelineIsFront == Spec => []PipelineIsFrontOfQueue
<1>1. Inv => PipelineIsFrontOfQueue
  <2> SUFFICES ASSUME Inv PROVE PipelineIsFrontOfQueue
    OBVIOUS
  <2> DEFINE p == conn.pipeline
             q == queue[user]
             n == Len(p)
             f == SubSeq(p, 1, n)
             g == SubSeq(q, 1, n)
  <2>1. p \in Seq(Batches) /\ q \in Seq(Batches) /\ IsFront(p, q) /\ Len(p) <= MaxPending
    BY StreamFacts
  <2>2. n \in 0..Len(p) /\ n \in 0..Len(q)
    BY <2>1, Members DEF IsFront
  <2> HIDE DEF p, q, n
  <2>3. f \in Seq(Batches) /\ Len(f) = n /\ \A i \in 1..n : f[i] = p[i]
    BY <2>1, <2>2, First
  <2>4. g \in Seq(Batches) /\ Len(g) = n /\ \A i \in 1..n : g[i] = q[i]
    BY <2>1, <2>2, First
  <2> HIDE DEF f, g
  <2>5. \A i \in 1..n : p[i] = q[i]
    BY <2>1 DEF IsFront, n
  <2>6. f = g
    BY <2>3, <2>4, <2>5, SeqEqual
  <2>7. IsPrefix(p, q)
    BY <2>1, <2>6 DEF IsPrefix, IsFront, f, g, n
  <2>8. QED
    BY <2>1, <2>7 DEF PipelineIsFrontOfQueue, p, q
<1>2. QED
  BY <1>1, AlwaysInv, PTL

\* Each answer is taken for the batch it is about (remote_store.cc:414).
THEOREM AnswersArePaired == Spec => []AnswersBelongToTheirWrites
<1>1. Inv => AnswersBelongToTheirWrites
  <2> SUFFICES ASSUME Inv PROVE AnswersBelongToTheirWrites
    OBVIOUS
  <2> DEFINE p == conn.pipeline
             o == conn.outgoing
  <2>1. p \in Seq(Sent) /\ o \in Seq(Sent) /\ answers \in Seq(Sent)
    BY StreamFacts
  <2>2. TalkInv(conn, answers, refusing)
    BY DEF Inv, StreamInv
  <2>3. CASE IsOpen(conn) /\ ~conn.handshake
    <3>1. <<Handshake>> \in Seq(Sent)
      BY DEF Sent
    <3>2. /\ <<>> \o <<Handshake>> = <<Handshake>>
          /\ <<Handshake>> \o <<>> = <<Handshake>>
      BY <3>1, ConcatEmptySeq
    <3>3. \/ answers = <<>> /\ o = <<Handshake>>
          \/ answers = <<Handshake>> /\ o = <<>>
      BY <2>2, <2>3 DEF TalkInv
    <3>4. answers \o o = <<Handshake>>
      BY <3>2, <3>3
    <3>5. QED
      BY <2>3, <3>4 DEF AnswersBelongToTheirWrites
  <2>4. CASE IsOpen(conn) /\ conn.handshake /\ refusing = "no"
    <3>1. Paired(answers, 0, o, p)
      BY <2>2, <2>4 DEF TalkInv, Gap
    <3>2. answers \o o = p
      BY <2>1, <3>1, PairedSequences
    <3>3. QED
      BY <2>4, <3>2 DEF AnswersBelongToTheirWrites
  <2>5. CASE IsOpen(conn) /\ conn.handshake /\ refusing # "no"
    <3>1. Paired(answers, 1, o, p)
      BY <2>2, <2>5 DEF TalkInv, Gap
    <3>2. /\ Len(answers) + 1 \in 1..Len(p)
          /\ o = SubSeq(p, Len(answers) + 2, Len(p))
          /\ answers = SubSeq(p, 1, Len(answers))
      BY <2>1, <3>1, PairedSequences
    <3> DEFINE i == Len(answers) + 1
    <3>3. Len(answers) \in Nat
      BY <2>1, Members
    <3>4. i + 1 = Len(answers) + 2 /\ i - 1 = Len(answers) /\ i \in 1..Len(p)
      BY <3>2, <3>3
    <3>5. /\ answers \o o = answers \o SubSeq(p, i + 1, Len(p))
          /\ answers = SubSeq(p, 1, i - 1)
      BY <3>2, <3>4
    <3> HIDE DEF i
    <3>6. \E j \in 1..Len(p) : /\ answers \o o = answers \o SubSeq(p, j + 1, Len(p))
                               /\ answers = SubSeq(p, 1, j - 1)
      BY <3>4, <3>5
    <3>7. QED
      BY <2>5, <3>6 DEF AnswersBelongToTheirWrites
  <2>6. QED
    BY <2>3, <2>4, <2>5 DEF AnswersBelongToTheirWrites
<1>2. QED
  BY <1>1, AlwaysInv, PTL

\* The idle timer runs only while there is nothing to send (remote_store.cc:357).
THEOREM IdleIsHarmless == Spec => []IdleMeansNothingToSend
<1>1. Inv => IdleMeansNothingToSend
  <2> SUFFICES ASSUME Inv PROVE IdleMeansNothingToSend
    OBVIOUS
  <2>1. conn.pipeline = <<>> <=> queue[user] = <<>>
    BY StreamFacts, FillsAll
  <2>2. QED
    BY <2>1 DEF Inv, StreamInv, ConnInv, IdleMeansNothingToSend
<1>2. QED
  BY <1>1, AlwaysInv, PTL

\* While the current user has batches, a stream is up or on its way, with one token
\* request that counts when it is starting (remote_store.cc:357, stream.cc:118).
THEOREM StreamIsOnItsWay == Spec => []NeverStalled
<1>1. Inv => NeverStalled
  <2> SUFFICES ASSUME Inv PROVE NeverStalled
    OBVIOUS
  <2>1. conn.pipeline = <<>> <=> queue[user] = <<>>
    BY StreamFacts, FillsAll
  <2>2. QED
    BY <2>1 DEF Inv, StreamInv, ConnInv, RequestsInv, NeverStalled
<1>2. QED
  BY <1>1, AlwaysInv, PTL

\* A callback waits under the id of its own batch, whatever ids are given again
\* (leveldb_mutation_queue.cc:55, sync_engine.cc:194).
THEOREM CallbacksKeepTheirBatches == Spec => []CallbacksAreTheirBatches
<1>1. Inv => CallbacksAreTheirBatches
  <2> SUFFICES ASSUME Inv, NEW c \in callbacks PROVE c.batch \in ToSet(queue[c.user])
    BY DEF CallbacksAreTheirBatches
  <2>1. PICK i \in 1..Len(queue[c.user]) : queue[c.user][i] = c.batch
    BY DEF Inv, CallbackInv
  <2>2. c.user \in Users /\ queue \in [Users -> Seq(Batches)]
    BY DEF Inv, CallbackInv, QueueInv
  <2>3. i \in DOMAIN queue[c.user]
    BY <2>2
  <2>4. QED
    BY <2>1, <2>3 DEF ToSet
<1>2. QED
  BY <1>1, AlwaysInv, PTL

\* A callback that is told of success is told the truth (sync_engine.cc:342).
THEOREM ToldIsTrue == Spec => []ToldOkIsCommitted
<1>1. Inv => ToldOkIsCommitted
  BY DEF Inv, ToldInv, ToldOkIsCommitted
<1>2. QED
  BY <1>1, AlwaysInv, PTL

\* Once the worker queue has taken a write it is in a queue on disk or decided
\* (leveldb_mutation_queue.cc:155).
THEOREM NoWriteIsDropped == Spec => []NothingIsDropped
<1>1. Inv => NothingIsDropped
  <2> SUFFICES ASSUME Inv, NEW w \in 1..made
               PROVE  \/ WriteTask(w) \in ToSet(worker)
                      \/ w \in lost \cup Committed \cup Refused
                      \/ \E u \in Users : \E b \in ToSet(queue[u]) : b.write = w
    BY DEF NothingIsDropped
  <2>1. Kept(w)
    BY DEF Inv, DropInv
  <2>2. worker \in Seq(Tasks) /\ queue \in [Users -> Seq(Batches)]
    BY DEF Inv, AppInv, QueueInv
  <2>3. ASSUME NEW i \in 1..Len(worker) PROVE worker[i] \in ToSet(worker)
    BY <2>2 DEF ToSet
  <2>4. ASSUME NEW u \in Users, NEW i \in 1..Len(queue[u]) PROVE queue[u][i] \in ToSet(queue[u])
    BY <2>2 DEF ToSet
  <2>5. QED
    BY <2>1, <2>3, <2>4 DEF Kept
<1>2. QED
  BY <1>1, AlwaysInv, PTL
=============================================================================
