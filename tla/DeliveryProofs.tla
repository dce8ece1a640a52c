---------------------------- MODULE DeliveryProofs ----------------------------
(***************************************************************************)
(* Outbox implements Delivery, and the server's documents end up with the  *)
(* last write of each user however often batches are sent again.  Both     *)
(* rest on the order of writes: in the worker queue, in the queues on      *)
(* disk, on the wire and in what the server has done.                      *)
(***************************************************************************)
EXTENDS OutboxProofs

\* w was made before every write still in the worker queue.
Past(w) ==
    /\ w <= made
    /\ \A i \in 1..Len(worker) : worker[i].op = "write" => w < worker[i].write

TaskInv ==
    \A i \in 1..Len(worker) : worker[i].op = "write" =>
      /\ worker[i].write <= made
      /\ \A j \in 1..Len(worker) :
           i < j /\ worker[j].op = "write" => worker[i].write < worker[j].write

PastInv ==
    /\ \A w \in lost : Past(w)
    /\ \A w \in Committed : Past(w)
    /\ \A u \in Users : \A i \in 1..Len(queue[u]) : Past(queue[u][i].write)

\* A queue is in the order its writes were made.
Rising(q) == \A i, j \in 1..Len(q) : i < j => q[i].write < q[j].write

RisingInv == \A u \in Users : Rising(queue[u])

\* All that is on the wire comes from the last stream that got past its handshake;
\* of later ones there are only handshakes.
WireShape ==
    /\ wire # <<>> => ~conn.handshake /\ answers = <<>>
    /\ \A j, k \in 1..Len(wire) : j < k /\ wire[j].id = 0 => wire[k].id = 0

\* The k-th message of s is about a write still in its queue, and the writes before
\* it in that queue are decided or come before it in s.
InTurn(s, k) ==
    \E i \in 1..Len(queue[s[k].user]) :
      /\ queue[s[k].user][i].write = s[k].write
      /\ \A j \in 1..Len(queue[s[k].user]) : j < i =>
           \/ queue[s[k].user][j].write \in Committed
           \/ queue[s[k].user][j].write \in Refused
           \/ \E l \in 1..Len(s) : l < k /\ s[l].write = queue[s[k].user][j].write

WireOrder == \A k \in 1..Len(wire) : wire[k].id # 0 => InTurn(wire, k)

\* A committed write is still in its queue or older than everything in it.
CommitInv ==
    \A d \in committed :
      \/ \E i \in 1..Len(queue[d.user]) : queue[d.user][i].write = d.write
      \/ \A i \in 1..Len(queue[d.user]) : d.write < queue[d.user][i].write

\* How much of u's queue has been answered on the open stream.
Answered(u) == IF u = user /\ conn.handshake THEN Len(answers) ELSE 0

\* A committed write the server's documents are behind is still in its queue and
\* will be sent again.
LatestInv ==
    \A d \in committed :
      \/ d.write <= latest[d.user]
      \/ \E i \in 1..Len(queue[d.user]) :
           queue[d.user][i].write = d.write /\ i > Answered(d.user)

DisjointInv == \A w \in Committed : w \notin Refused

OrderInv == TaskInv /\ PastInv /\ RisingInv /\ WireShape /\ WireOrder /\ CommitInv
            /\ LatestInv /\ DisjointInv

(***************************************************************************)
(* What the actions do to a queue.                                         *)
(***************************************************************************)

LEMMA QueueFacts ==
    ASSUME Inv, NEW u \in Users
    PROVE  /\ queue[u] \in Seq(Batches) /\ Len(queue[u]) \in Nat
           /\ \A i \in 1..Len(queue[u]) : /\ queue[u][i] \in Batches
                                          /\ queue[u][i].write \in Writes
                                          /\ queue[u][i].write \in Nat \ {0}
<1>1. queue[u] \in Seq(Batches)
  BY DEF Inv, QueueInv
<1>2. \A b \in Batches : b.write \in Writes /\ b.write \in Nat \ {0}
  BY BoundsAssumption DEF Batches, Writes
<1>3. QED
  BY <1>1, <1>2, Members

LEMMA DeedFacts ==
    ASSUME Inv
    PROVE  /\ \A d \in committed : d.write \in Nat \ {0} /\ d.user \in Users /\ d.write \in Committed
           /\ \A w \in Committed : w \in Nat \ {0}
           /\ \A u \in Users : latest[u] \in Nat
<1>1. committed \subseteq Deeds /\ latest \in [Users -> 0..MaxWrites]
  BY DEF Inv, ServerInv
<1>2. \A d \in Deeds : d.write \in Nat \ {0} /\ d.user \in Users
  BY BoundsAssumption DEF Deeds, Writes
<1>3. QED
  BY <1>1, <1>2, BoundsAssumption DEF Committed

\* TakeWrite.
LEMMA Taken ==
    ASSUME Inv, TakeWrite, NEW w, w = Head(worker).write
    PROVE  /\ w \in Writes /\ Head(worker) = WriteTask(w) /\ worker[1] = WriteTask(w)
           /\ user \in Users /\ user' = user
           /\ \A u \in Users : u # user => queue'[u] = queue[u]
           /\ Len(queue'[user]) = Len(queue[user]) + 1
           /\ \A i \in 1..Len(queue[user]) : queue'[user][i] = queue[user][i]
           /\ queue'[user][Len(queue[user]) + 1].write = w
           /\ \E b \in Batches : /\ b.write = w
                                 /\ queue' = [queue EXCEPT ![user] = Append(queue[user], b)]
<1> DEFINE b == [id |-> nextId, write |-> w]
           q == queue[user]
<1>1. /\ worker # <<>> /\ worker \in Seq(Tasks) /\ Head(worker) \in Tasks
      /\ Head(worker).op = "write" /\ Head(worker) = worker[1]
  BY Tailed DEF Inv, AppInv, TakeWrite
<1>2. w \in Writes /\ Head(worker) = WriteTask(w)
  BY <1>1, TaskKinds
<1>3. /\ user \in Users /\ nextId \in Nat \ {0} /\ queue \in [Users -> Seq(Batches)]
      /\ q \in Seq(Batches)
  BY DEF Inv, QueueInv
<1>4. b \in Batches /\ b.write = w
  BY <1>2, <1>3 DEF Batches
<1>5. queue' = [queue EXCEPT ![user] = Append(q, b)] /\ user' = user
  BY DEF TakeWrite
<1> HIDE DEF b
<1>6. /\ Append(q, b) \in Seq(Batches) /\ Len(q) \in Nat /\ Len(Append(q, b)) = Len(q) + 1
      /\ \A i \in 1..Len(q) : Append(q, b)[i] = q[i]
      /\ Append(q, b)[Len(q) + 1] = b
  BY <1>3, <1>4, AppendProperties
<1>7. queue'[user] = Append(q, b) /\ \A u \in Users : u # user => queue'[u] = queue[u]
  BY <1>3, <1>5
<1>8. QED
  BY <1>1, <1>2, <1>3, <1>4, <1>5, <1>6, <1>7

\* ReadResult and ReadRefusal.
LEMMA Settled ==
    ASSUME Inv, conn.pipeline # <<>>, NEW b, b = Head(conn.pipeline),
           NEW outcome, Settle(b.id, outcome)
    PROVE  /\ user \in Users /\ queue[user] # <<>> /\ b = queue[user][1]
           /\ queue' = [queue EXCEPT ![user] = Tail(queue[user])]
           /\ queue'[user] = Tail(queue[user])
           /\ \A u \in Users : u # user => queue'[u] = queue[u]
           /\ Len(queue[user]) \in Nat \ {0} /\ Len(queue'[user]) = Len(queue[user]) - 1
           /\ \A i \in 1..Len(queue'[user]) :
                i + 1 \in 1..Len(queue[user]) /\ queue'[user][i] = queue[user][i + 1]
           /\ \A i \in 1..Len(queue[user]) : i # 1 =>
                i - 1 \in 1..Len(queue'[user]) /\ queue'[user][i - 1] = queue[user][i]
<1> DEFINE q == queue[user]
<1>1. /\ q \in Seq(Batches) /\ Ordered(q) /\ user \in Users /\ q # <<>> /\ b = q[1]
  BY StreamFacts, TailFront
<1>2. queue \in [Users -> Seq(Batches)]
  BY DEF Inv, QueueInv
<1>3. Without(q, b.id) = Tail(q)
  BY <1>1, WithoutOldest
<1>4. queue' = [queue EXCEPT ![user] = Tail(q)]
  BY <1>3 DEF Settle
<1>5. queue'[user] = Tail(q) /\ \A u \in Users : u # user => queue'[u] = queue[u]
  BY <1>1, <1>2, <1>4
<1>6. /\ Len(q) \in Nat \ {0} /\ Len(Tail(q)) = Len(q) - 1
      /\ \A i \in 1..Len(Tail(q)) : i + 1 \in 1..Len(q) /\ Tail(q)[i] = q[i + 1]
      /\ \A i \in 1..Len(q) : i # 1 => i - 1 \in 1..Len(Tail(q)) /\ Tail(q)[i - 1] = q[i]
  BY <1>1, Tailed
<1>7. QED
  BY <1>1, <1>4, <1>5, <1>6

\* What has been answered on the open stream is the front of the user's queue.
LEMMA AnsweredFront ==
    ASSUME Inv, conn.handshake
    PROVE  /\ Len(answers) \in Nat /\ Len(answers) <= Len(queue[user])
           /\ \A i \in 1..Len(answers) : /\ answers[i] = queue[user][i]
                                         /\ queue[user][i].write \in Committed
           /\ refusing # "no" => /\ Len(answers) + 1 \in 1..Len(queue[user])
                                 /\ queue[user][Len(answers) + 1].write \in Refused
           /\ refusing = "no" => \A i \in 1..Len(conn.outgoing) :
                /\ Len(answers) + i \in 1..Len(queue[user])
                /\ conn.outgoing[i] = queue[user][Len(answers) + i]
<1> DEFINE p == conn.pipeline
           q == queue[user]
           o == conn.outgoing
<1>1. /\ Paired(answers, Gap(refusing), o, p)
      /\ \A k \in 1..Len(answers) : answers[k].write \in Committed
      /\ refusing # "no" => p[Len(answers) + 1].write \in Refused
  BY DEF Inv, StreamInv, TalkInv, DecidedInv
<1>2. /\ p \in Seq(Sent) /\ q \in Seq(Batches) /\ o \in Seq(Sent) /\ answers \in Seq(Sent)
      /\ Len(p) <= Len(q) /\ \A i \in 1..Len(p) : p[i] = q[i]
  BY StreamFacts DEF IsFront
<1>3. Len(answers) \in Nat /\ Len(p) \in Nat /\ Len(q) \in Nat /\ Len(o) \in Nat
  BY <1>2, Members
<1> HIDE DEF p, q, o
<1>4. Gap(refusing) \in {0, 1} /\ (refusing = "no" <=> Gap(refusing) = 0)
  BY DEF Gap
<1> DEFINE g == Gap(refusing)
           n == Len(answers)
<1>5. /\ n + g + Len(o) = Len(p)
      /\ \A k \in 1..n : answers[k] = p[k]
      /\ \A k \in 1..Len(o) : o[k] = p[n + g + k]
  BY <1>1 DEF Paired
<1>6. n \in Nat /\ g \in {0, 1}
  BY <1>3, <1>4
<1> HIDE DEF g
<1>7. n <= Len(p) /\ n <= Len(q)
  BY <1>2, <1>3, <1>5, <1>6
<1>8. ASSUME NEW i \in 1..n PROVE answers[i] = q[i] /\ q[i].write \in Committed
  <2>1. i \in 1..Len(p)
    BY <1>3, <1>6, <1>7
  <2>2. QED
    BY <1>1, <1>2, <1>5, <2>1
<1>9. ASSUME refusing # "no" PROVE n + 1 \in 1..Len(q) /\ q[n + 1].write \in Refused
  <2>1. g = 1
    BY <1>4, <1>6, <1>9 DEF g
  <2>2. n + 1 \in 1..Len(p)
    BY <1>3, <1>5, <1>6, <2>1
  <2>3. n + 1 \in 1..Len(q)
    BY <1>2, <1>3, <2>2
  <2>4. QED
    BY <1>1, <1>2, <1>9, <2>2, <2>3
<1>10. ASSUME refusing = "no", NEW i \in 1..Len(o)
       PROVE  n + i \in 1..Len(q) /\ o[i] = q[n + i]
  <2>1. g = 0
    BY <1>4, <1>10 DEF g
  <2>2. n + i \in 1..Len(p) /\ n + i \in 1..Len(q) /\ n + g + i = n + i
    BY <1>2, <1>3, <1>5, <1>6, <2>1
  <2>3. QED
    BY <1>2, <1>5, <2>2
<1>11. QED
  BY <1>3, <1>7, <1>8, <1>9, <1>10 DEF p, q, o

(***************************************************************************)
(* What most actions leave alone stays in order.                           *)
(***************************************************************************)

\* The oldest task is taken.
LEMMA TaskTaken ==
    ASSUME Inv, TaskInv, worker # <<>>, worker' = Tail(worker), made' = made
    PROVE  /\ TaskInv' /\ \A w : Past(w) => Past(w)'
           /\ worker[1].op = "write" => \A w : w = worker[1].write => Past(w)'
<1>1. worker \in Seq(Tasks) /\ made \in Nat
  BY BoundsAssumption DEF Inv, AppInv
<1>2. /\ Len(worker) \in Nat \ {0}
      /\ \A i \in 1..Len(worker') : i + 1 \in 1..Len(worker) /\ worker'[i] = worker[i + 1]
  BY <1>1, Tailed
<1>3. Len(worker') \in Nat /\ Len(worker') = Len(worker) - 1
  BY <1>1, Tailed
<1>4. TaskInv'
  <2> SUFFICES ASSUME NEW i \in 1..Len(worker'), worker'[i].op = "write"
               PROVE  /\ worker'[i].write <= made
                      /\ \A j \in 1..Len(worker') : i < j /\ worker'[j].op = "write" =>
                           worker'[i].write < worker'[j].write
    BY DEF TaskInv
  <2>1. i + 1 \in 1..Len(worker) /\ worker'[i] = worker[i + 1]
    BY <1>2
  <2>2. ASSUME NEW j \in 1..Len(worker'), i < j, worker'[j].op = "write"
        PROVE  worker'[i].write < worker'[j].write
    <3>1. j + 1 \in 1..Len(worker) /\ worker'[j] = worker[j + 1] /\ i + 1 < j + 1
      BY <1>2, <2>2
    <3>2. QED
      BY <2>1, <2>2, <3>1 DEF TaskInv
  <2>3. QED
    BY <2>1, <2>2 DEF TaskInv
<1>5. \A w : Past(w) => Past(w)'
  BY <1>2 DEF Past
<1>6. ASSUME worker[1].op = "write", NEW w, w = worker[1].write PROVE Past(w)'
  <2>1. 1 \in 1..Len(worker)
    BY <1>2
  <2>2. w <= made'
    BY <1>6, <2>1 DEF TaskInv
  <2>3. \A i \in 1..Len(worker') : 1 < i + 1
    BY <1>3
  <2>4. \A i \in 1..Len(worker') : worker'[i].op = "write" => w < worker'[i].write
    BY <1>2, <1>6, <2>1, <2>3 DEF TaskInv
  <2>5. QED
    BY <2>2, <2>4 DEF Past
<1>7. QED
  BY <1>4, <1>5, <1>6

\* A task is added; a write is numbered after every other.
LEMMA TaskAdded ==
    ASSUME Inv, TaskInv, NEW t \in Tasks, worker' = Append(worker, t),
           \/ t.op # "write" /\ made' = made
           \/ t.write = made' /\ made' = made + 1
    PROVE  TaskInv' /\ \A w \in Nat : Past(w) => Past(w)'
<1>1. worker \in Seq(Tasks) /\ made \in Nat
  BY BoundsAssumption DEF Inv, AppInv
<1>2. /\ Len(worker) \in Nat /\ Len(worker') = Len(worker) + 1
      /\ \A i \in 1..Len(worker) : worker'[i] = worker[i] /\ worker[i] \in Tasks
      /\ worker'[Len(worker) + 1] = t
  BY <1>1
<1>3. \A i \in 1..Len(worker') : i \in 1..Len(worker) \/ i = Len(worker) + 1
  BY <1>2
<1>4. \A i \in 1..Len(worker) : worker[i].op = "write" => worker[i].write \in Nat
  <2>1. \A u \in Tasks : u.op = "write" => u.write \in Nat
    BY TaskKinds, BoundsAssumption DEF Writes
  <2>2. QED
    BY <1>2, <2>1
<1>5. made' \in Nat /\ made <= made'
  BY <1>1
<1>6. TaskInv'
  <2> SUFFICES ASSUME NEW i \in 1..Len(worker'), worker'[i].op = "write"
               PROVE  /\ worker'[i].write <= made'
                      /\ \A j \in 1..Len(worker') : i < j /\ worker'[j].op = "write" =>
                           worker'[i].write < worker'[j].write
    BY DEF TaskInv
  <2>1. CASE i = Len(worker) + 1
    <3>1. worker'[i].write <= made'
      BY <1>2, <1>5, <2>1
    <3>2. \A j \in 1..Len(worker') : ~(i < j)
      BY <1>2, <2>1
    <3>3. QED
      BY <3>1, <3>2
  <2>2. CASE i \in 1..Len(worker)
    <3>1. worker[i].op = "write" /\ worker[i].write \in Nat /\ worker'[i] = worker[i]
      BY <1>2, <1>4, <2>2
    <3>2. worker[i].write <= made
      BY <2>2, <3>1 DEF TaskInv
    <3>3. ASSUME NEW j \in 1..Len(worker'), i < j, worker'[j].op = "write"
          PROVE  worker'[i].write < worker'[j].write
      <4>1. CASE j \in 1..Len(worker)
        BY <1>2, <2>2, <3>1, <3>3, <4>1 DEF TaskInv
      <4>2. CASE j = Len(worker) + 1
        <5>1. t.write = made + 1
          BY <1>2, <3>3, <4>2
        <5>2. QED
          BY <1>1, <1>2, <3>1, <3>2, <4>2, <5>1
      <4>3. QED
        BY <1>3, <4>1, <4>2
    <3>4. QED
      BY <1>1, <1>5, <3>1, <3>2, <3>3
  <2>3. QED
    BY <1>3, <2>1, <2>2
<1>7. ASSUME NEW w \in Nat, Past(w) PROVE Past(w)'
  <2>1. w <= made
    BY <1>7 DEF Past
  <2>2. ASSUME NEW i \in 1..Len(worker'), worker'[i].op = "write" PROVE w < worker'[i].write
    <3>1. CASE i \in 1..Len(worker)
      BY <1>2, <1>7, <2>2, <3>1 DEF Past
    <3>2. CASE i = Len(worker) + 1
      <4>1. t.write = made + 1
        BY <1>2, <2>2, <3>2
      <4>2. QED
        BY <1>1, <1>2, <2>1, <3>2, <4>1
    <3>3. QED
      BY <1>3, <3>1, <3>2
  <2>3. QED
    BY <1>1, <1>5, <2>1, <2>2 DEF Past
<1>8. QED
  BY <1>6, <1>7

\* What is past stays past.
LEMMA PastStays ==
    ASSUME Inv, PastInv, \A w \in Nat : Past(w) => Past(w)',
           lost' = lost, Committed' = Committed, queue' = queue
    PROVE  PastInv'
<1>1. \A w \in lost : w \in Nat
  BY BoundsAssumption DEF Inv, AppInv, Writes
<1>2. \A w \in Committed : w \in Nat
  BY DeedFacts
<1>3. \A u \in Users : \A i \in 1..Len(queue[u]) : queue[u][i].write \in Nat
  BY QueueFacts
<1>4. QED
  BY <1>1, <1>2, <1>3 DEF PastInv

(***************************************************************************)
(* The wire when the client gives a stream up.                             *)
(***************************************************************************)

\* What the server still sees of a stream given up: the messages to be answered
\* next, or its handshake alone.
LEMMA LeftBehind ==
    ASSUME Inv, OrderInv, NEW k \in MayStillSee, Abandon(k)
    PROVE  /\ answers' = <<>>
           /\ \A i \in 1..Len(wire) : wire'[i] = wire[i] /\ i \in 1..Len(wire')
           /\ Len(wire) \in Nat /\ Len(wire') = Len(wire) + k /\ k \in Nat
           /\ ~conn.handshake => \A i \in 1..Len(wire') :
                i \notin 1..Len(wire) => wire'[i].id = 0 /\ i = Len(wire) + 1
           /\ conn.handshake =>
                /\ wire = <<>>
                /\ \A i \in 1..Len(wire') :
                     /\ wire'[i].user = user
                     /\ Len(answers) + i \in 1..Len(queue[user])
                     /\ wire'[i].write = queue[user][Len(answers) + i].write
                     /\ wire'[i].id # 0
<1> DEFINE o == conn.outgoing
           m == [i \in 1..k |-> Message(o[i])]
<1>1. answers' = <<>> /\ wire' = wire \o m
  BY DEF Abandon
<1>2. /\ k \in 0..Len(o) /\ Len(o) \in Nat /\ k \in Nat /\ 1..k \subseteq 1..Len(o)
  BY MayStillSeeSome, StreamFacts, Members
<1>3. ASSUME NEW i \in 1..k
      PROVE /\ Message(o[i]) \in Messages
            /\ Message(o[i]).id = o[i].id /\ Message(o[i]).write = o[i].write
            /\ Message(o[i]).user = user
  <2>1. i \in 1..Len(o) /\ o # <<>>
    BY <1>2, StreamFacts, Members
  <2>2. o[i] \in Sent /\ conn.credential \in Users /\ user \in Users
    BY <2>1, StreamFacts, Members
  <2> DEFINE b == o[i]
  <2>3. b.id \in Nat /\ b.write \in Nat
    BY <2>2, BoundsAssumption DEF Sent, Batches, Handshake, Writes
  <2> HIDE DEF b
  <2>4. QED
    BY <2>2, <2>3 DEF Message, Messages, b
<1>4. m \in Seq(Messages) /\ Len(m) = k /\ \A i \in 1..k : m[i] = Message(o[i])
  BY <1>2, <1>3
<1> HIDE DEF m
<1>5. wire \in Seq(Messages)
  BY DEF Inv, WireInv
<1>6. /\ Len(wire) \in Nat /\ Len(wire') = Len(wire) + k
      /\ \A i \in 1..Len(wire) : wire'[i] = wire[i]
      /\ \A i \in 1..Len(wire') : i \notin 1..Len(wire) =>
           i - Len(wire) \in 1..k /\ wire'[i] = m[i - Len(wire)]
  BY <1>1, <1>4, <1>5, Joined
<1>7. \A i \in 1..Len(wire) : i \in 1..Len(wire')
  BY <1>2, <1>6
<1>8. ASSUME ~conn.handshake, NEW i \in 1..Len(wire'), i \notin 1..Len(wire)
      PROVE  wire'[i].id = 0 /\ i = Len(wire) + 1
  <2> DEFINE j == i - Len(wire)
  <2>1. j \in 1..k /\ wire'[i] = m[j] /\ j \in 1..Len(o)
    BY <1>2, <1>6, <1>8
  <2>2. o # <<>> /\ IsOpen(conn)
    BY <2>1, StreamFacts, Members
  <2>3. o = <<Handshake>>
    BY <1>8, <2>2 DEF Inv, StreamInv, TalkInv
  <2>4. j = 1 /\ o[j] = Handshake
    BY <2>1, <2>3
  <2>5. wire'[i].id = 0
    <3>1. m[j] = Message(o[j]) /\ Message(o[j]).id = o[j].id
      BY <1>3, <1>4, <2>1
    <3>2. o[j].id = 0
      BY <2>4 DEF Handshake
    <3>3. QED
      BY <2>1, <3>1, <3>2
  <2>6. QED
    BY <1>6, <2>4, <2>5
<1>9. ASSUME conn.handshake, NEW i \in 1..Len(wire')
      PROVE  /\ wire'[i].user = user
             /\ Len(answers) + i \in 1..Len(queue[user])
             /\ wire'[i].write = queue[user][Len(answers) + i].write
             /\ wire'[i].id # 0
  <2>1. wire = <<>>
    BY <1>9 DEF OrderInv, WireShape
  <2>2. Len(wire) = 0
    BY <2>1
  <2>3. i \in 1..k /\ wire'[i] = m[i] /\ i - Len(wire) = i
    BY <1>2, <1>6, <2>2
  <2>4. refusing = "no"
    <3>1. k # 0
      BY <2>3
    <3>2. QED
      BY <3>1 DEF MayStillSee
  <2>5. /\ Len(answers) + i \in 1..Len(queue[user])
        /\ o[i] = queue[user][Len(answers) + i]
    BY <1>2, <1>9, <2>3, <2>4, AnsweredFront
  <2>6. o[i].id # 0
    <3>1. user \in Users /\ queue[user] \in Seq(Batches)
      BY StreamFacts
    <3>2. QED
      BY <2>5, <3>1, BatchIds
  <2>7. QED
    BY <1>3, <1>4, <2>3, <2>5, <2>6
<1>10. conn.handshake => wire = <<>>
  BY DEF OrderInv, WireShape
<1>11. QED
  BY <1>1, <1>2, <1>6, <1>7, <1>8, <1>9, <1>10

LEMMA WireKept ==
    ASSUME Inv, OrderInv, HandshakeKept, queue' = queue, Committed' = Committed,
           Refused' = Refused, NEW k \in MayStillSee, Abandon(k)
    PROVE  WireShape' /\ WireOrder'
<1>1. /\ answers' = <<>>
      /\ \A i \in 1..Len(wire) : wire'[i] = wire[i] /\ i \in 1..Len(wire')
      /\ Len(wire) \in Nat /\ Len(wire') = Len(wire) + k /\ k \in Nat
  BY LeftBehind
<1>2. ~conn.handshake => \A i \in 1..Len(wire') :
        i \notin 1..Len(wire) => wire'[i].id = 0 /\ i = Len(wire) + 1
  BY LeftBehind
<1>3. conn.handshake => wire = <<>>
  BY DEF OrderInv, WireShape
<1>4. conn.handshake => \A i \in 1..Len(wire') :
        /\ wire'[i].user = user
        /\ Len(answers) + i \in 1..Len(queue[user])
        /\ wire'[i].write = queue[user][Len(answers) + i].write
        /\ wire'[i].id # 0
  BY LeftBehind
<1>5. wire' # <<>> => ~conn'.handshake /\ answers' = <<>>
  BY <1>1, <1>3 DEF HandshakeKept
<1>6. ASSUME NEW j \in 1..Len(wire'), NEW l \in 1..Len(wire'), j < l, wire'[j].id = 0
      PROVE  wire'[l].id = 0
  <2>1. ~conn.handshake
    BY <1>4, <1>6
  <2>2. CASE l \in 1..Len(wire)
    <3>1. j \in 1..Len(wire)
      BY <1>1, <1>6, <2>2
    <3>2. QED
      BY <1>1, <1>6, <2>2, <3>1 DEF OrderInv, WireShape
  <2>3. CASE l \notin 1..Len(wire)
    BY <1>2, <2>1, <2>3
  <2>4. QED
    BY <2>2, <2>3
<1>7. WireShape'
  BY <1>5, <1>6 DEF WireShape
<1>8. ASSUME NEW i \in 1..Len(wire'), wire'[i].id # 0 PROVE InTurn(wire, i)'
  <2>1. CASE ~conn.handshake
    <3>1. i \in 1..Len(wire) /\ wire'[i] = wire[i]
      BY <1>1, <1>2, <1>8, <2>1
    <3>2. InTurn(wire, i)
      BY <1>8, <3>1 DEF OrderInv, WireOrder
    <3>3. \A l \in 1..Len(wire) : l \in 1..Len(wire') /\ wire'[l] = wire[l]
      BY <1>1
    <3>4. QED
      BY <3>1, <3>2, <3>3 DEF InTurn
  <2>2. CASE conn.handshake
    <3> DEFINE n == Len(answers)
               q == queue[user]
    <3>1. wire'[i].user = user /\ n + i \in 1..Len(q) /\ wire'[i].write = q[n + i].write
      BY <1>4, <2>2
    <3>2. n \in Nat /\ Len(wire') \in Nat
      BY <1>1, <2>2, AnsweredFront
    <3>3. ASSUME NEW j \in 1..Len(q), j < n + i
          PROVE  \/ q[j].write \in Committed
                 \/ \E l \in 1..Len(wire') : l < i /\ wire'[l].write = q[j].write
      <4>1. CASE j \in 1..n
        BY <2>2, <4>1, AnsweredFront
      <4>2. CASE j \notin 1..n
        <5>1. j - n \in 1..Len(wire') /\ j - n < i /\ n + (j - n) = j
          BY <3>2, <3>3, <4>2
        <5>2. wire'[j - n].write = q[n + (j - n)].write
          BY <1>4, <2>2, <5>1
        <5>3. QED
          BY <5>1, <5>2
      <4>3. QED
        BY <4>1, <4>2
    <3> HIDE DEF n
    <3>4. queue'[wire'[i].user] = q
      BY <3>1
    <3>5. QED
      BY <3>1, <3>3, <3>4 DEF InTurn
  <2>3. QED
    BY <2>1, <2>2
<1>9. WireOrder'
  BY <1>8 DEF WireOrder
<1>10. QED
  BY <1>7, <1>9

(***************************************************************************)
(* Every action keeps the order.                                           *)
(***************************************************************************)

\* What the server has decided, and how much of it a client knows, as long as no
\* queue moves.
LEMMA LatestStays ==
    ASSUME Inv, LatestInv, HandshakeKept, UNCHANGED <<queue, committed, latest>>
    PROVE  LatestInv'
<1>1. \A u \in Users : Answered(u) \in Nat
  BY AnsweredFront DEF Answered
<1>2. ASSUME NEW u \in Users PROVE Answered(u)' = 0 \/ Answered(u)' = Answered(u)
  BY DEF Answered, HandshakeKept
<1>3. ASSUME NEW d \in committed
      PROVE  \/ d.write <= latest[d.user]
             \/ \E i \in 1..Len(queue[d.user]) :
                  queue[d.user][i].write = d.write /\ i > Answered(d.user)'
  <2>1. d.user \in Users /\ Len(queue[d.user]) \in Nat
    BY DeedFacts, QueueFacts
  <2>2. \/ d.write <= latest[d.user]
        \/ \E i \in 1..Len(queue[d.user]) :
             queue[d.user][i].write = d.write /\ i > Answered(d.user)
    BY DEF LatestInv
  <2>3. \A i \in 1..Len(queue[d.user]) : i > Answered(d.user) => i > Answered(d.user)'
    BY <1>1, <1>2, <2>1
  <2>4. QED
    BY <2>2, <2>3
<1>4. QED
  BY <1>3 DEF LatestInv

LEMMA QuietOrder ==
    ASSUME Inv, OrderInv, HandshakeKept, TaskInv', PastInv',
           UNCHANGED <<queue, committed, refused, latest>>,
           (answers' = answers /\ wire' = wire) \/ \E k \in MayStillSee : Abandon(k)
    PROVE  OrderInv'
<1>1. Committed' = Committed /\ Refused' = Refused
  BY DEF Committed, Refused
<1>2. WireShape' /\ WireOrder'
  <2>1. CASE answers' = answers /\ wire' = wire
    BY <1>1, <2>1 DEF OrderInv, WireShape, WireOrder, InTurn, HandshakeKept
  <2>2. CASE \E k \in MayStillSee : Abandon(k)
    BY <1>1, <2>2, WireKept
  <2>3. QED
    BY <2>1, <2>2
<1>3. LatestInv'
  BY LatestStays DEF OrderInv
<1>4. RisingInv' /\ CommitInv' /\ DisjointInv'
  BY <1>1 DEF OrderInv, RisingInv, Rising, CommitInv, DisjointInv
<1>5. QED
  BY <1>2, <1>3, <1>4 DEF OrderInv

\* Actions of the stream and of the application.
LEMMA StreamOrder ==
    ASSUME Inv, OrderInv, HandshakeKept, UNCHANGED <<appVars, worker, localVars, serverVars, lost>>,
           (answers' = answers /\ wire' = wire) \/ \E k \in MayStillSee : Abandon(k)
    PROVE  OrderInv'
<1>1. /\ made' = made /\ worker' = worker /\ lost' = lost
      /\ queue' = queue /\ committed' = committed /\ refused' = refused /\ latest' = latest
  BY DEF appVars, localVars, serverVars
<1>2. TaskInv' /\ PastInv'
  BY <1>1 DEF OrderInv, TaskInv, PastInv, Past, Committed
<1>3. QED
  BY <1>1, <1>2, QuietOrder

LEMMA StreamActionsOrder ==
    ASSUME Inv, OrderInv,
           (\E r \in conn.requests : TokenAnswer(r)) \/ Fail \/ RunBackoff \/ RunIdleTimer
    PROVE  OrderInv'
<1>1. CASE \E r \in conn.requests : TokenAnswer(r)
  <2>1. PICK r \in conn.requests : TokenAnswer(r)
    BY <1>1
  <2>2. HandshakeKept
    BY <2>1, TokenAnswerKeeps
  <2>3. /\ UNCHANGED <<appVars, worker, localVars, serverVars, lost>>
        /\ (answers' = answers /\ wire' = wire) \/ \E k \in MayStillSee : Abandon(k)
    BY <2>1 DEF TokenAnswer, Break
  <2>4. QED
    BY <2>2, <2>3, StreamOrder
<1>2. CASE Fail
  <2>1. HandshakeKept
    BY <1>2, FailKeeps
  <2>2. /\ UNCHANGED <<appVars, worker, localVars, serverVars, lost>>
        /\ \E k \in MayStillSee : Abandon(k)
    BY <1>2 DEF Fail, Break
  <2>3. QED
    BY <2>1, <2>2, StreamOrder
<1>3. CASE RunBackoff
  BY <1>3, BackoffKeeps, StreamOrder DEF RunBackoff
<1>4. CASE RunIdleTimer
  BY <1>4, IdleKeeps, StreamOrder DEF RunIdleTimer
<1>5. QED
  BY <1>1, <1>2, <1>3, <1>4

LEMMA ApplicationOrder ==
    ASSUME Inv, OrderInv, Write \/ (\E u \in Users : SignIn(u)) \/ RunNotification
    PROVE  OrderInv'
<1>1. /\ UNCHANGED <<lost, localVars, serverVars, answers, wire>>
      /\ conn'.handshake = conn.handshake
  <2>1. conn \in Conns
    BY StreamFacts
  <2>2. QED
    BY <2>1 DEF Write, SignIn, RunNotification, Conns
<1>2. /\ user' = user /\ queue' = queue
      /\ committed' = committed /\ refused' = refused /\ latest' = latest
      /\ lost' = lost /\ Committed' = Committed
  BY <1>1 DEF localVars, serverVars, Committed
<1>3. HandshakeKept
  BY <1>1, <1>2 DEF HandshakeKept
<1>4. TaskInv /\ PastInv
  BY DEF OrderInv
<1>5. TaskInv' /\ \A w \in Nat : Past(w) => Past(w)'
  <2>1. CASE Write
    <3> DEFINE t == WriteTask(made + 1)
    <3>1. made \in Nat /\ made + 1 \in Writes
      BY <2>1, BoundsAssumption DEF Inv, AppInv, Write, Writes
    <3>2. t \in Tasks /\ t.write = made' /\ worker' = Append(worker, t) /\ made' = made + 1
      BY <2>1, <3>1 DEF Write, Tasks, WriteTask
    <3> HIDE DEF t
    <3>3. QED
      BY <1>4, <3>2, TaskAdded
  <2>2. CASE \E u \in Users : SignIn(u)
    BY <1>4, <2>2 DEF SignIn, TaskInv, Past
  <2>3. CASE RunNotification
    <3> DEFINE t == CredentialTask(Head(notes))
    <3>1. Head(notes) \in Users
      BY <2>3, Tailed DEF Inv, AppInv, RunNotification
    <3>2. t \in Tasks /\ t.op # "write" /\ worker' = Append(worker, t) /\ made' = made
      BY <2>3, <3>1 DEF RunNotification, Tasks, CredentialTask
    <3> HIDE DEF t
    <3>3. QED
      BY <1>4, <3>2, TaskAdded
  <2>4. QED
    BY <2>1, <2>2, <2>3
<1>6. PastInv'
  BY <1>2, <1>4, <1>5, PastStays
<1>7. QED
  BY <1>1, <1>2, <1>3, <1>5, <1>6, QuietOrder

LEMMA TakeCredentialOrder == ASSUME Inv, OrderInv, TakeCredential PROVE OrderInv'
<1>1. HandshakeKept
  BY TakeCredentialKeeps
<1>2. /\ queue' = queue /\ lost' = lost /\ made' = made /\ Committed' = Committed
      /\ UNCHANGED <<queue, committed, refused, latest>>
      /\ worker # <<>> /\ worker' = Tail(worker) /\ \E k \in MayStillSee : Abandon(k)
  BY DEF TakeCredential, appVars, serverVars, Committed
<1>3. TaskInv /\ PastInv
  BY DEF OrderInv
<1>4. TaskInv' /\ \A w : Past(w) => Past(w)'
  BY <1>2, <1>3, TaskTaken
<1>5. PastInv'
  BY <1>2, <1>3, <1>4, PastStays
<1>6. QED
  BY <1>1, <1>2, <1>4, <1>5, QuietOrder

LEMMA RestartOrder == ASSUME Inv, OrderInv, Restart PROVE OrderInv'
<1>1. HandshakeKept
  BY RestartKeeps
<1>2. /\ made' = made /\ Committed' = Committed /\ worker' = <<>>
      /\ UNCHANGED <<queue, committed, refused, latest>>
      /\ lost' = lost \cup {t.write : t \in {t \in ToSet(worker) : t.op = "write"}}
      /\ \E k \in MayStillSee : Abandon(k)
  BY DEF Restart, serverVars, Committed
<1>3. TaskInv /\ PastInv
  BY DEF OrderInv
<1>4. TaskInv' /\ \A w : w <= made => Past(w)'
  BY <1>2 DEF TaskInv, Past
<1>5. ASSUME NEW w \in lost' PROVE w <= made
  <2>1. CASE w \in lost
    BY <1>3, <2>1 DEF PastInv, Past
  <2>2. CASE w \notin lost
    <3>1. \E i \in 1..Len(worker) : worker[i].op = "write" /\ worker[i].write = w
      <4>1. worker \in Seq(Tasks)
        BY DEF Inv, AppInv
      <4>2. QED
        BY <1>2, <1>5, <2>2, <4>1 DEF ToSet
    <3>2. QED
      BY <1>3, <3>1 DEF TaskInv
  <2>3. QED
    BY <2>1, <2>2
<1>6. PastInv'
  BY <1>2, <1>3, <1>4, <1>5 DEF PastInv, Past
<1>7. QED
  BY <1>1, <1>2, <1>4, <1>6, QuietOrder

\* The handshake's answer was all there was: nothing of it is on the wire.
LEMMA ReadHandshakeOrder == ASSUME Inv, OrderInv, ReadHandshake PROVE OrderInv'
<1>1. /\ answers # <<>> /\ ~conn.handshake /\ answers' = Tail(answers)
      /\ UNCHANGED <<appVars, worker, localVars, serverVars, wire, lost>>
  BY DEF ReadHandshake
<1>2. IsOpen(conn) /\ answers = <<Handshake>>
  BY <1>1 DEF Inv, StreamInv, TalkInv
<1>3. answers' = <<>> /\ Len(answers') = 0
  BY <1>1, <1>2
<1>4. wire = <<>> /\ wire' = <<>>
  BY <1>1 DEF OrderInv, WireShape
<1>5. /\ made' = made /\ worker' = worker /\ lost' = lost /\ user' = user
      /\ queue' = queue /\ committed' = committed /\ refused' = refused /\ latest' = latest
  BY <1>1 DEF appVars, localVars, serverVars
<1>6. \A u : Answered(u) = 0 /\ Answered(u)' = 0
  BY <1>1, <1>3 DEF Answered
<1>7. LatestInv'
  BY <1>5, <1>6 DEF OrderInv, LatestInv
<1>8. TaskInv' /\ PastInv' /\ RisingInv' /\ CommitInv' /\ DisjointInv'
  BY <1>5 DEF OrderInv, TaskInv, PastInv, Past, RisingInv, Rising, CommitInv, DisjointInv,
     Committed, Refused
<1>9. WireShape' /\ WireOrder'
  BY <1>4 DEF WireShape, WireOrder
<1>10. QED
  BY <1>7, <1>8, <1>9 DEF OrderInv

\* An answer or a refusal that is read is about the oldest batch of the queue.
LEMMA OldestSettled ==
    ASSUME Inv, ReadResult \/ ReadRefusal
    PROVE  /\ conn.handshake /\ conn.pipeline # <<>>
           /\ \E outcome : Settle(Head(conn.pipeline).id, outcome)
           /\ queue[user][1].write \in Committed \/ queue[user][1].write \in Refused
           /\ answers = <<>> => queue[user][1].write \in Refused
           /\ \/ Len(answers') = 0
              \/ Len(answers') = Len(answers) - 1
           /\ Len(answers) \in Nat
           /\ wire = <<>> => wire' = <<>>
           /\ UNCHANGED <<appVars, worker, user, serverVars, lost>>
<1>1. conn.handshake /\ (answers # <<>> \/ refusing # "no")
  BY DEF ReadResult, ReadRefusal, Inv, StreamInv, TalkInv
<1>2. /\ Len(answers) \in Nat /\ (answers = <<>> <=> Len(answers) = 0)
      /\ Len(conn.pipeline) \in Nat /\ (conn.pipeline = <<>> <=> Len(conn.pipeline) = 0)
      /\ Len(conn.outgoing) \in Nat
  BY StreamFacts, Members
<1>3. conn.pipeline # <<>>
  <2>1. Len(answers) + Gap(refusing) + Len(conn.outgoing) = Len(conn.pipeline)
    BY <1>1 DEF Inv, StreamInv, TalkInv, Paired
  <2>2. Gap(refusing) \in {0, 1} /\ (refusing # "no" => Gap(refusing) = 1)
    BY DEF Gap
  <2>3. QED
    BY <1>1, <1>2, <2>1, <2>2
<1>4. answers # <<>> => queue[user][1].write \in Committed
  <2>1. answers # <<>> => 1 \in 1..Len(answers)
    BY <1>2
  <2>2. QED
    BY <1>1, <2>1, AnsweredFront
<1>5. answers = <<>> => queue[user][1].write \in Refused
  <2> SUFFICES ASSUME answers = <<>> PROVE queue[user][1].write \in Refused
    OBVIOUS
  <2>1. refusing # "no" /\ Len(answers) + 1 = 1
    BY <1>1, <1>2
  <2>2. QED
    BY <1>1, <2>1, AnsweredFront
<1>6. \E outcome : Settle(Head(conn.pipeline).id, outcome)
  BY <1>1, <1>3 DEF ReadResult, ReadRefusal
<1>7. UNCHANGED <<appVars, worker, user, serverVars, lost>>
  BY DEF ReadResult, ReadRefusal
<1>8. Len(answers') = 0 \/ Len(answers') = Len(answers) - 1
  <2>1. CASE ReadResult
    BY <2>1, StreamFacts, Tailed DEF ReadResult
  <2>2. CASE ReadRefusal
    BY <2>2 DEF ReadRefusal, Abandon
  <2>3. QED
    BY <2>1, <2>2
<1>9. wire = <<>> => wire' = <<>>
  <2>1. CASE ReadResult
    BY <2>1 DEF ReadResult
  <2>2. CASE ReadRefusal
    <3>1. wire' = wire \o [i \in 1..0 |-> Message(conn.outgoing[i])]
      BY <2>2 DEF ReadRefusal, Abandon
    <3>2. [i \in 1..0 |-> Message(conn.outgoing[i])] = <<>>
      OBVIOUS
    <3>3. wire = <<>> => wire \o <<>> = <<>>
      OBVIOUS
    <3>4. QED
      BY <3>1, <3>2, <3>3
  <2>3. QED
    BY <2>1, <2>2
<1>10. QED
  BY <1>1, <1>2, <1>3, <1>4, <1>5, <1>6, <1>7, <1>8, <1>9

LEMMA ReadOrder == ASSUME Inv, OrderInv, ReadResult \/ ReadRefusal PROVE OrderInv'
<1> DEFINE q == queue[user]
           r == queue'[user]
<1>1. /\ conn.handshake /\ conn.pipeline # <<>>
      /\ answers = <<>> => q[1].write \in Refused
      /\ Len(answers') = 0 \/ Len(answers') = Len(answers) - 1
      /\ Len(answers) \in Nat /\ (wire = <<>> => wire' = <<>>)
      /\ UNCHANGED <<appVars, worker, user, serverVars, lost>>
  BY OldestSettled
<1>2. /\ user \in Users /\ \A u \in Users : u # user => queue'[u] = queue[u]
      /\ Len(q) \in Nat \ {0} /\ Len(r) = Len(q) - 1
      /\ \A i \in 1..Len(r) : i + 1 \in 1..Len(q) /\ r[i] = q[i + 1]
      /\ \A i \in 1..Len(q) : i # 1 => i - 1 \in 1..Len(r) /\ r[i - 1] = q[i]
  <2>1. PICK outcome : Settle(Head(conn.pipeline).id, outcome)
    BY OldestSettled
  <2>2. QED
    BY <1>1, <2>1, Settled
<1>3. wire' = <<>>
  BY <1>1 DEF OrderInv, WireShape
<1>4. /\ made' = made /\ worker' = worker /\ lost' = lost /\ user' = user
      /\ committed' = committed /\ refused' = refused /\ latest' = latest
      /\ Committed' = Committed /\ Refused' = Refused
  BY <1>1 DEF appVars, serverVars, Committed, Refused
<1> HIDE DEF q, r
<1>5. TaskInv' /\ DisjointInv' /\ WireShape' /\ WireOrder'
  BY <1>3, <1>4 DEF OrderInv, TaskInv, DisjointInv, WireShape, WireOrder
<1>6. RisingInv'
  <2>1. ASSUME NEW u \in Users PROVE Rising(queue[u])'
    <3>1. CASE u # user
      BY <1>2, <3>1 DEF OrderInv, RisingInv, Rising
    <3>2. CASE u = user
      <4>1. Rising(q)
        BY <1>2 DEF OrderInv, RisingInv, q
      <4>2. \A i, j \in 1..Len(r) : i < j => i + 1 < j + 1
        BY <1>2
      <4>3. \A i, j \in 1..Len(r) : i < j => r[i].write < r[j].write
        BY <1>2, <4>1, <4>2 DEF Rising
      <4>4. QED
        BY <3>2, <4>3 DEF Rising, r
    <3>3. QED
      BY <3>1, <3>2
  <2>2. QED
    BY <2>1 DEF RisingInv
<1>7. PastInv'
  <2>1. ASSUME NEW u \in Users, NEW i \in 1..Len(queue'[u])
        PROVE  \E j \in 1..Len(queue[u]) : queue'[u][i] = queue[u][j]
    BY <1>2 DEF q, r
  <2>2. QED
    BY <1>4, <2>1 DEF OrderInv, PastInv, Past
<1>8. ASSUME NEW d \in committed
      PROVE  \/ \E i \in 1..Len(queue'[d.user]) : queue'[d.user][i].write = d.write
             \/ \A i \in 1..Len(queue'[d.user]) : d.write < queue'[d.user][i].write
  <2>1. d.user \in Users
    BY DeedFacts
  <2>2. \/ \E i \in 1..Len(queue[d.user]) : queue[d.user][i].write = d.write
        \/ \A i \in 1..Len(queue[d.user]) : d.write < queue[d.user][i].write
    BY DEF OrderInv, CommitInv
  <2>3. CASE d.user # user
    BY <1>2, <2>1, <2>2, <2>3
  <2>4. CASE d.user = user
    <3>1. CASE \A i \in 1..Len(q) : d.write < q[i].write
      BY <1>2, <2>4, <3>1 DEF r
    <3>2. CASE \E i \in 1..Len(q) : i # 1 /\ q[i].write = d.write
      BY <1>2, <2>4, <3>2 DEF r
    <3>3. CASE q[1].write = d.write
      <4>1. 1 \in 1..Len(q) /\ \A i \in 1..Len(r) : 1 < i + 1
        BY <1>2
      <4>2. Rising(q)
        BY <1>2 DEF OrderInv, RisingInv, q
      <4>3. \A i \in 1..Len(r) : d.write < r[i].write
        BY <1>2, <3>3, <4>1, <4>2 DEF Rising
      <4>4. QED
        BY <2>4, <4>3 DEF r
    <3>4. QED
      BY <2>2, <2>4, <3>1, <3>2, <3>3 DEF q
  <2>5. QED
    BY <2>3, <2>4
<1>9. ASSUME NEW d \in committed
      PROVE  \/ d.write <= latest[d.user]
             \/ \E i \in 1..Len(queue'[d.user]) :
                  queue'[d.user][i].write = d.write /\ i > Answered(d.user)'
  <2>1. d.user \in Users /\ d.write \in Committed
    BY DeedFacts
  <2>2. SUFFICES ASSUME ~(d.write <= latest[d.user])
                 PROVE  \E i \in 1..Len(queue'[d.user]) :
                          queue'[d.user][i].write = d.write /\ i > Answered(d.user)'
    OBVIOUS
  <2>3. PICK i \in 1..Len(queue[d.user]) :
          queue[d.user][i].write = d.write /\ i > Answered(d.user)
    BY <2>2 DEF OrderInv, LatestInv
  <2>4. CASE d.user # user
    <3>1. Answered(d.user)' = 0 /\ Answered(d.user) = 0
      BY <1>4, <2>4 DEF Answered
    <3>2. QED
      BY <1>2, <2>1, <2>3, <2>4, <3>1
  <2>5. CASE d.user = user
    <3>1. i \in 1..Len(q) /\ q[i].write = d.write /\ i > Len(answers)
      BY <1>1, <2>3, <2>5 DEF Answered, q
    <3>2. i # 1
      <4>1. SUFFICES ASSUME i = 1 PROVE FALSE
        OBVIOUS
      <4>2. Len(answers) = 0
        BY <1>1, <3>1, <4>1
      <4>3. answers = <<>>
        BY <4>2, StreamFacts, Members
      <4>4. d.write \in Refused
        BY <1>1, <3>1, <4>1, <4>3
      <4>5. QED
        BY <2>1, <4>4 DEF OrderInv, DisjointInv
    <3>3. i - 1 \in 1..Len(r) /\ r[i - 1] = q[i]
      BY <1>2, <3>1, <3>2
    <3>4. Answered(d.user)' = 0 \/ Answered(d.user)' = Len(answers) - 1
      BY <1>1 DEF Answered
    <3>5. i - 1 > Answered(d.user)'
      BY <1>1, <1>2, <3>1, <3>3, <3>4
    <3>6. QED
      BY <2>5, <3>1, <3>3, <3>5 DEF r
  <2>6. QED
    BY <2>4, <2>5
<1>10. CommitInv' /\ LatestInv'
  BY <1>4, <1>8, <1>9 DEF CommitInv, LatestInv
<1>11. QED
  BY <1>5, <1>6, <1>7, <1>10 DEF OrderInv

LEMMA TakeWriteOrder == ASSUME Inv, OrderInv, TakeWrite PROVE OrderInv'
<1> DEFINE w0 == Head(worker).write
           q == queue[user]
           r == queue'[user]
           n == Len(q)
<1>1. /\ w0 \in Writes /\ worker[1] = WriteTask(w0) /\ user \in Users /\ user' = user
      /\ \A u \in Users : u # user => queue'[u] = queue[u]
      /\ Len(r) = n + 1 /\ \A i \in 1..n : r[i] = q[i]
      /\ r[n + 1].write = w0
  BY Taken
<1>2. n \in Nat /\ w0 \in Nat /\ worker[1].op = "write" /\ worker[1].write = w0
  BY <1>1, QueueFacts, BoundsAssumption DEF Writes, WriteTask
<1>3. /\ worker # <<>> /\ worker' = Tail(worker) /\ made' = made /\ lost' = lost
      /\ committed' = committed /\ refused' = refused /\ latest' = latest
      /\ answers' = answers /\ wire' = wire
      /\ Committed' = Committed /\ Refused' = Refused
  BY DEF TakeWrite, appVars, serverVars, Committed, Refused
<1>4. conn'.handshake = conn.handshake
  BY TakeWriteKeeps
<1>5. PICK x : x = w0
  OBVIOUS
<1>6. /\ TaskInv' /\ \A w : Past(w) => Past(w)'
      /\ Past(x)'
  <2>1. TaskInv
    BY DEF OrderInv
  <2>2. QED
    BY <1>2, <1>3, <1>5, <2>1, TaskTaken
<1>7. \A w : Past(w) => w < x
  <2>1. worker \in Seq(Tasks)
    BY DEF Inv, AppInv
  <2>2. 1 \in 1..Len(worker)
    BY <1>3, <2>1, Tailed
  <2>3. QED
    BY <1>2, <1>5, <2>2 DEF Past
<1> HIDE DEF w0, q, r, n
<1>8. \A u \in Users : \A i \in 1..Len(queue'[u]) :
        \/ i \in 1..Len(queue[u]) /\ queue'[u][i] = queue[u][i]
        \/ u = user /\ i = n + 1 /\ queue'[u][i].write = x
  <2>1. \A i \in 1..Len(r) : i \in 1..n \/ i = n + 1
    BY <1>1, <1>2
  <2>2. QED
    BY <1>1, <1>5, <2>1 DEF q, r, n
<1>9. \A u \in Users : \A i \in 1..Len(queue[u]) :
        i \in 1..Len(queue'[u]) /\ queue'[u][i] = queue[u][i]
  <2>1. \A i \in 1..n : i \in 1..Len(r)
    BY <1>1, <1>2
  <2>2. QED
    BY <1>1, <2>1 DEF q, r, n
<1>10. PastInv'
  <2>1. ASSUME NEW u \in Users, NEW i \in 1..Len(queue'[u]) PROVE Past(queue[u][i].write)'
    <3>1. CASE i \in 1..Len(queue[u]) /\ queue'[u][i] = queue[u][i]
      <4>1. PICK w : w = queue[u][i].write
        OBVIOUS
      <4>2. Past(w)
        BY <3>1, <4>1 DEF OrderInv, PastInv
      <4>3. Past(w)'
        BY <1>6, <4>2
      <4>4. QED
        BY <3>1, <4>1, <4>3 DEF Past
    <3>2. CASE queue'[u][i].write = x
      BY <1>6, <3>2 DEF Past
    <3>3. QED
      BY <1>8, <3>1, <3>2
  <2>2. QED
    BY <1>3, <1>6, <2>1 DEF OrderInv, PastInv
<1>11. \A u \in Users : \A i \in 1..Len(queue[u]) : queue[u][i].write < x
  BY <1>7 DEF OrderInv, PastInv
<1>12. RisingInv'
  <2>1. ASSUME NEW u \in Users, NEW i \in 1..Len(queue'[u]), NEW j \in 1..Len(queue'[u]), i < j
        PROVE  queue'[u][i].write < queue'[u][j].write
    <3>1. CASE j \in 1..Len(queue[u]) /\ queue'[u][j] = queue[u][j]
      <4>1. Len(queue[u]) \in Nat
        BY QueueFacts
      <4>2. i \in 1..Len(queue[u])
        BY <2>1, <3>1, <4>1
      <4>3. queue'[u][i] = queue[u][i]
        BY <1>9, <4>2
      <4>4. QED
        BY <2>1, <3>1, <4>2, <4>3 DEF OrderInv, RisingInv, Rising
    <3>2. CASE u = user /\ j = n + 1 /\ queue'[u][j].write = x
      <4>1. i # n + 1
        BY <1>2, <2>1, <3>2
      <4>2. i \in 1..Len(queue[u]) /\ queue'[u][i] = queue[u][i]
        BY <1>8, <4>1
      <4>3. QED
        BY <1>11, <3>2, <4>2
    <3>3. QED
      BY <1>8, <3>1, <3>2
  <2>2. QED
    BY <2>1 DEF RisingInv, Rising
<1>13. WireShape' /\ DisjointInv'
  BY <1>3, <1>4 DEF OrderInv, WireShape, DisjointInv
<1>14. WireOrder'
  <2> SUFFICES ASSUME NEW k \in 1..Len(wire), wire[k].id # 0 PROVE InTurn(wire, k)'
    BY <1>3 DEF WireOrder
  <2> DEFINE u == wire[k].user
  <2>1. u \in Users /\ Len(queue[u]) \in Nat
    <3>1. wire[k] \in Messages
      BY Members DEF Inv, WireInv
    <3>2. QED
      BY <3>1, QueueFacts DEF Messages
  <2>2. InTurn(wire, k)
    BY DEF OrderInv, WireOrder
  <2> HIDE DEF u
  <2>3. PICK i \in 1..Len(queue[u]) :
          /\ queue[u][i].write = wire[k].write
          /\ \A j \in 1..Len(queue[u]) : j < i =>
               \/ queue[u][j].write \in Committed
               \/ queue[u][j].write \in Refused
               \/ \E l \in 1..Len(wire) : l < k /\ wire[l].write = queue[u][j].write
    BY <2>2 DEF InTurn, u
  <2>4. i \in 1..Len(queue'[u]) /\ queue'[u][i].write = wire[k].write
    BY <1>9, <2>1, <2>3
  <2>5. ASSUME NEW j \in 1..Len(queue'[u]), j < i
        PROVE  j \in 1..Len(queue[u]) /\ queue'[u][j] = queue[u][j]
    <3>1. j \in 1..Len(queue[u])
      BY <2>1, <2>3, <2>5
    <3>2. QED
      BY <1>9, <2>1, <3>1
  <2>6. \A j \in 1..Len(queue'[u]) : j < i =>
               \/ queue'[u][j].write \in Committed
               \/ queue'[u][j].write \in Refused
               \/ \E l \in 1..Len(wire) : l < k /\ wire[l].write = queue'[u][j].write
    BY <2>3, <2>5
  <2>7. QED
    BY <1>3, <2>4, <2>6 DEF InTurn, u
<1>15. ASSUME NEW d \in committed
       PROVE  \/ \E i \in 1..Len(queue'[d.user]) : queue'[d.user][i].write = d.write
              \/ \A i \in 1..Len(queue'[d.user]) : d.write < queue'[d.user][i].write
  <2>1. d.user \in Users /\ d.write \in Committed
    BY DeedFacts
  <2>2. d.write < x
    BY <1>7, <2>1 DEF OrderInv, PastInv
  <2>3. CASE \E i \in 1..Len(queue[d.user]) : queue[d.user][i].write = d.write
    BY <1>9, <2>1, <2>3
  <2>4. CASE \A i \in 1..Len(queue[d.user]) : d.write < queue[d.user][i].write
    BY <1>8, <2>1, <2>2, <2>4
  <2>5. QED
    BY <2>3, <2>4 DEF OrderInv, CommitInv
<1>16. ASSUME NEW d \in committed
       PROVE  \/ d.write <= latest[d.user]
              \/ \E i \in 1..Len(queue'[d.user]) :
                   queue'[d.user][i].write = d.write /\ i > Answered(d.user)'
  <2>1. d.user \in Users
    BY DeedFacts
  <2>2. Answered(d.user)' = Answered(d.user)
    BY <1>1, <1>3, <1>4 DEF Answered
  <2>3. \/ d.write <= latest[d.user]
        \/ \E i \in 1..Len(queue[d.user]) :
             queue[d.user][i].write = d.write /\ i > Answered(d.user)
    BY DEF OrderInv, LatestInv
  <2>4. QED
    BY <1>9, <2>1, <2>2, <2>3
<1>17. CommitInv' /\ LatestInv'
  BY <1>3, <1>15, <1>16 DEF CommitInv, LatestInv
<1>18. QED
  BY <1>6, <1>10, <1>12, <1>13, <1>14, <1>17 DEF OrderInv

(***************************************************************************)
(* The server.                                                             *)
(***************************************************************************)

\* The open stream's next message, after the handshake, is about the oldest write
\* of the queue that has not been answered.
LEMMA ServeTurn ==
    ASSUME Inv, Serve, conn.handshake, NEW m, m = Message(Head(conn.outgoing)),
           NEW i, i = Len(answers) + 1
    PROVE  /\ i \in 1..Len(queue[user]) /\ m.user = user /\ user \in Users
           /\ m.write = queue[user][i].write /\ Len(answers) \in Nat
           /\ \A j \in 1..Len(queue[user]) : j < i => queue[user][j].write \in Committed
           /\ \/ Commit(m) /\ Len(answers') = i
              \/ Refuse(m) /\ answers' = answers
<1> DEFINE b == Head(conn.outgoing)
<1>1. /\ refusing = "no" /\ conn.outgoing # <<>>
      /\ \/ IsHandshake(b)
         \/ answers' = Append(answers, b) /\ Commit(Message(b))
         \/ Refuse(Message(b)) /\ answers' = answers
  BY DEF Serve
<1>2. 1 \in 1..Len(conn.outgoing) /\ b = conn.outgoing[1] /\ b \in Sent
  BY <1>1, StreamFacts, Tailed
<1>3. i \in 1..Len(queue[user]) /\ b = queue[user][i]
  BY <1>1, <1>2, AnsweredFront
<1>4. Len(answers) \in Nat /\ \A j \in 1..Len(answers) : queue[user][j].write \in Committed
  BY AnsweredFront
<1>5. user \in Users /\ b.id # 0
  BY <1>3, StreamFacts, BatchIds
<1>6. answers' = Append(answers, b) => Len(answers') = i
  BY <1>2, StreamFacts, AppendProperties
<1> HIDE DEF b
<1>7. m.user = user /\ m.write = b.write /\ m = Message(b)
  BY DEF Message, b
<1>8. \A j \in 1..Len(queue[user]) : j < i => j \in 1..Len(answers)
  BY <1>4
<1>9. QED
  BY <1>1, <1>3, <1>4, <1>5, <1>6, <1>7, <1>8 DEF IsHandshake

\* So is the first message on the wire that is not a handshake.
LEMMA AbandonedTurn ==
    ASSUME Inv, OrderInv, ServeAbandoned, NEW m, m = Head(wire), ~IsHandshake(m)
    PROVE  /\ m.user \in Users
           /\ \E i \in 1..Len(queue[m.user]) :
                /\ queue[m.user][i].write = m.write
                /\ \A j \in 1..Len(queue[m.user]) : j < i =>
                     queue[m.user][j].write \in Committed \/ queue[m.user][j].write \in Refused
           /\ \/ Commit(m) /\ wire' = Tail(wire)
              \/ Refuse(m) /\ wire' = NextStream(Tail(wire))
<1>1. /\ wire # <<>>
      /\ \/ Commit(m) /\ wire' = Tail(wire)
         \/ Refuse(m) /\ wire' = NextStream(Tail(wire))
  BY DEF ServeAbandoned
<1>2. wire \in Seq(Messages)
  BY DEF Inv, WireInv
<1>3. 1 \in 1..Len(wire) /\ m = wire[1] /\ m \in Messages
  BY <1>1, <1>2, Tailed
<1>4. InTurn(wire, 1)
  BY <1>3 DEF OrderInv, WireOrder, IsHandshake
<1>5. Len(wire) \in Nat
  BY <1>2, Members
<1>6. \A l \in 1..Len(wire) : ~(l < 1)
  BY <1>5
<1>7. QED
  BY <1>1, <1>3, <1>4, <1>6 DEF InTurn, Messages

LEMMA Decision ==
    ASSUME NEW m, Commit(m) \/ Refuse(m)
    PROVE  Committed' \cup Refused' = Committed \cup Refused \cup {m.write}
<1>1. Deed(m).write = m.write
  BY DEF Deed
<1>2. QED
  BY <1>1 DEF Commit, Refuse, Committed, Refused

\* A decision about the write at place i of its queue, whose predecessors have
\* been answered or abandoned.
LEMMA DecisionOrder ==
    ASSUME Inv, OrderInv, NEW m, m.user \in Users, NEW i \in 1..Len(queue[m.user]),
           queue[m.user][i].write = m.write, Commit(m) \/ Refuse(m),
           UNCHANGED <<queue, worker, made, lost>>, i > Answered(m.user),
           \A u : \/ Answered(u)' = Answered(u)
                  \/ Commit(m) /\ u = m.user /\ Answered(u)' = i
    PROVE  TaskInv' /\ PastInv' /\ RisingInv' /\ CommitInv' /\ LatestInv' /\ DisjointInv'
           /\ Committed \subseteq Committed' /\ Refused \subseteq Refused'
           /\ Committed' \cup Refused' = Committed \cup Refused \cup {m.write}
<1> DEFINE q == queue[m.user]
<1>1. Deed(m).write = m.write /\ Deed(m).user = m.user
  BY DEF Deed
<1>2. /\ Len(q) \in Nat /\ m.write \in Nat /\ \A j \in 1..Len(q) : q[j].write \in Nat
      /\ \A d \in committed : d.write \in Nat /\ d.user \in Users
  BY QueueFacts, DeedFacts
<1>3. TaskInv' /\ RisingInv'
  BY DEF OrderInv, TaskInv, RisingInv, Rising
<1>4. CASE Commit(m)
  <2>1. /\ committed' = committed \cup {Deed(m)} /\ refused' = refused
        /\ latest' = [latest EXCEPT ![m.user] = m.write] /\ m.write \notin Refused
    BY <1>4 DEF Commit
  <2>2. Committed' = Committed \cup {m.write} /\ Refused' = Refused
    BY <1>1, <2>1 DEF Committed, Refused
  <2>3. latest'[m.user] = m.write /\ \A u \in Users : u # m.user => latest'[u] = latest[u]
    BY <2>1 DEF Inv, ServerInv
  <2>4. DisjointInv'
    BY <2>1, <2>2 DEF OrderInv, DisjointInv
  <2>5. PastInv'
    BY <2>2 DEF OrderInv, PastInv, Past
  <2>6. CommitInv'
    BY <1>1, <2>1 DEF OrderInv, CommitInv
  <2>7. ASSUME NEW d \in committed, d.user = m.user, m.write < d.write
        PROVE  \E j \in 1..Len(q) : q[j].write = d.write /\ j > Answered(d.user)'
    <3>1. ~(d.write < q[i].write)
      BY <1>2, <2>7
    <3>2. PICK j \in 1..Len(q) : q[j].write = d.write
      BY <2>7, <3>1 DEF OrderInv, CommitInv
    <3>3. Rising(q)
      BY DEF OrderInv, RisingInv
    <3>4. ~(j < i) /\ j # i
      BY <1>2, <2>7, <3>2, <3>3 DEF Rising
    <3>5. j > i
      BY <1>2, <3>4
    <3>6. Answered(d.user) \in Nat
      BY AnsweredFront DEF Answered
    <3>7. Answered(d.user)' = Answered(d.user) \/ Answered(d.user)' = i
      OBVIOUS
    <3>8. j > Answered(d.user)'
      BY <1>2, <2>7, <3>5, <3>6, <3>7
    <3>9. QED
      BY <3>2, <3>8
  <2>8. ASSUME NEW d \in committed'
        PROVE  \/ d.write <= latest'[d.user]
               \/ \E j \in 1..Len(queue[d.user]) :
                    queue[d.user][j].write = d.write /\ j > Answered(d.user)'
    <3>1. CASE d = Deed(m)
      BY <1>1, <1>2, <2>3, <3>1
    <3>2. CASE d \in committed /\ d.user # m.user
      <4>1. Answered(d.user)' = Answered(d.user) /\ latest'[d.user] = latest[d.user]
        BY <1>2, <2>3, <3>2
      <4>2. QED
        BY <3>2, <4>1 DEF OrderInv, LatestInv
    <3>3. CASE d \in committed /\ d.user = m.user
      <4>1. CASE d.write <= m.write
        BY <2>3, <3>3, <4>1
      <4>2. CASE m.write < d.write
        BY <2>7, <3>3, <4>2
      <4>3. QED
        BY <1>2, <3>3, <4>1, <4>2
    <3>4. QED
      BY <2>1, <3>1, <3>2, <3>3
  <2>9. LatestInv'
    BY <2>8 DEF LatestInv
  <2>10. QED
    BY <1>3, <2>2, <2>4, <2>5, <2>6, <2>9
<1>5. CASE Refuse(m)
  <2>1. /\ refused' = refused \cup {Deed(m)} /\ committed' = committed /\ latest' = latest
        /\ m.write \notin Committed
    BY <1>5 DEF Refuse
  <2>2. Refused' = Refused \cup {m.write} /\ Committed' = Committed
    BY <1>1, <2>1 DEF Committed, Refused
  <2>3. ~Commit(m)
    BY <1>1, <2>1 DEF Commit, Committed
  <2>4. LatestInv'
    BY <2>1, <2>3 DEF OrderInv, LatestInv
  <2>5. PastInv' /\ CommitInv' /\ DisjointInv'
    BY <2>1, <2>2 DEF OrderInv, PastInv, Past, CommitInv, DisjointInv
  <2>6. QED
    BY <1>3, <2>2, <2>4, <2>5
<1>6. QED
  BY <1>4, <1>5

\* What is left of the wire when a refusal has ended the stream in front.
LEMMA HandshakesLeft ==
    ASSUME NEW s \in Seq(Messages), \A j, k \in 1..Len(s) : j < k /\ s[j].id = 0 => s[k].id = 0
    PROVE  \A i \in 1..Len(NextStream(s)) : NextStream(s)[i].id = 0
<1> DEFINE later == {i \in 1..Len(s) : IsHandshake(s[i])}
           n == CHOOSE i \in later : \A j \in later : i <= j
<1>1. CASE later = {}
  BY <1>1 DEF NextStream
<1>2. CASE later # {}
  <2>1. Len(s) \in Nat
    BY Members
  <2>2. later \in SUBSET Nat
    BY <2>1
  <2>3. \E i \in later : \A j \in later : i <= j
    BY <1>2, <2>2, Least
  <2>4. n \in later
    BY <2>3
  <2>5. NextStream(s) = SubSeq(s, n, Len(s)) /\ n \in 1..Len(s) /\ s[n].id = 0
    BY <1>2, <2>4 DEF NextStream, IsHandshake
  <2> HIDE DEF later, n
  <2> DEFINE k == n - 1
  <2>6. /\ Len(SubSeq(s, k + 1, Len(s))) = Len(s) - k
        /\ \A i \in 1..(Len(s) - k) : SubSeq(s, k + 1, Len(s))[i] = s[k + i]
    BY <2>1, <2>5, Rest
  <2>7. NextStream(s) = SubSeq(s, k + 1, Len(s)) /\ k \in 0..Len(s) /\ n = k + 1
    BY <2>1, <2>5
  <2> HIDE DEF k
  <2>8. ASSUME NEW i \in 1..(Len(s) - k) PROVE s[k + i].id = 0
    <3>1. k + i \in 1..Len(s) /\ (n = k + i \/ n < k + i)
      BY <2>1, <2>7
    <3>2. QED
      BY <2>5, <3>1
  <2>9. QED
    BY <2>6, <2>7, <2>8
<1>3. QED
  BY <1>1, <1>2

LEMMA ServeOrder == ASSUME Inv, OrderInv, Serve PROVE OrderInv'
<1>1. /\ wire = <<>> /\ wire' = wire
      /\ UNCHANGED <<queue, worker, made, lost, user>>
      /\ conn' = [conn EXCEPT !.outgoing = Tail(conn.outgoing)]
  BY DEF Serve, appVars, localVars
<1>2. conn'.handshake = conn.handshake
  BY <1>1, StreamFacts DEF Conns
<1>3. WireShape' /\ WireOrder'
  BY <1>1 DEF WireShape, WireOrder
<1>4. CASE ~conn.handshake
  <2>1. conn.outgoing = <<Handshake>>
    BY <1>4, StreamFacts DEF Serve, Inv, StreamInv, TalkInv
  <2>2. UNCHANGED serverVars
    BY <2>1 DEF Serve, IsHandshake, Handshake
  <2>3. \A u : Answered(u)' = Answered(u)
    BY <1>2, <1>4 DEF Answered
  <2>4. LatestInv'
    BY <1>1, <2>2, <2>3 DEF OrderInv, LatestInv, serverVars
  <2>5. TaskInv' /\ PastInv' /\ RisingInv' /\ CommitInv' /\ DisjointInv'
    BY <1>1, <2>2 DEF OrderInv, TaskInv, PastInv, Past, RisingInv, Rising, CommitInv,
       DisjointInv, Committed, Refused, serverVars
  <2>6. QED
    BY <1>3, <2>4, <2>5 DEF OrderInv
<1>5. CASE conn.handshake
  <2> DEFINE m == Message(Head(conn.outgoing))
             i == Len(answers) + 1
  <2>1. /\ i \in 1..Len(queue[user]) /\ m.user = user /\ user \in Users
        /\ m.write = queue[user][i].write /\ Len(answers) \in Nat
        /\ \/ Commit(m) /\ Len(answers') = i
           \/ Refuse(m) /\ answers' = answers
    BY <1>5, ServeTurn
  <2>2. /\ i > Answered(m.user)
        /\ \A u : \/ Answered(u)' = Answered(u)
                  \/ Commit(m) /\ u = m.user /\ Answered(u)' = i
    <3> HIDE DEF m
    <3>1. i > Len(answers)
      BY <2>1
    <3> HIDE DEF i
    <3>2. QED
      BY <1>1, <1>2, <1>5, <2>1, <3>1 DEF Answered
  <2> HIDE DEF m, i
  <2>3. TaskInv' /\ PastInv' /\ RisingInv' /\ CommitInv' /\ LatestInv' /\ DisjointInv'
    <3>1. Commit(m) \/ Refuse(m)
      BY <2>1
    <3>2. m.user \in Users /\ i \in 1..Len(queue[m.user]) /\ queue[m.user][i].write = m.write
      BY <2>1
    <3>3. UNCHANGED <<queue, worker, made, lost>>
      BY <1>1
    <3>4. QED
      BY <2>2, <3>1, <3>2, <3>3, DecisionOrder
  <2>4. QED
    BY <1>3, <2>3 DEF OrderInv
<1>6. QED
  BY <1>4, <1>5

LEMMA ServeAbandonedOrder == ASSUME Inv, OrderInv, ServeAbandoned PROVE OrderInv'
<1> DEFINE m == Head(wire)
           s == Tail(wire)
<1>1. /\ wire # <<>>
      /\ UNCHANGED <<queue, worker, made, lost, user, conn, answers>>
  BY DEF ServeAbandoned, appVars, localVars
<1>2. ~conn.handshake /\ answers = <<>> /\ ~conn'.handshake /\ answers' = <<>>
  BY <1>1 DEF OrderInv, WireShape
<1>3. \A u : Answered(u) = 0 /\ Answered(u)' = 0
  BY <1>2 DEF Answered
<1>4. /\ Len(wire) \in Nat \ {0} /\ m = wire[1] /\ s \in Seq(Messages)
      /\ Len(s) = Len(wire) - 1
      /\ \A k \in 1..Len(s) : k + 1 \in 1..Len(wire) /\ s[k] = wire[k + 1]
      /\ \A k \in 1..Len(wire) : k # 1 => k - 1 \in 1..Len(s) /\ s[k - 1] = wire[k]
  BY <1>1, Tailed DEF Inv, WireInv
<1>5. \A j, k \in 1..Len(wire) : j < k /\ wire[j].id = 0 => wire[k].id = 0
  BY DEF OrderInv, WireShape
<1> HIDE DEF m, s
<1>6. \A j, k \in 1..Len(s) : j < k /\ s[j].id = 0 => s[k].id = 0
  <2>1. \A j, k \in 1..Len(s) : j < k => j + 1 < k + 1
    BY <1>4
  <2>2. QED
    BY <1>4, <1>5, <2>1
<1>7. ASSUME m.id = 0, NEW k \in 1..Len(s) PROVE s[k].id = 0
  <2>1. 1 \in 1..Len(wire) /\ 1 < k + 1
    BY <1>4
  <2>2. QED
    BY <1>4, <1>5, <1>7, <2>1
<1>8. CASE IsHandshake(m)
  <2>1. wire' = s /\ UNCHANGED serverVars
    BY <1>8 DEF ServeAbandoned, m, s
  <2>2. \A k \in 1..Len(s) : s[k].id = 0
    BY <1>7, <1>8 DEF IsHandshake
  <2>3. WireShape' /\ WireOrder'
    BY <1>2, <2>1, <2>2 DEF WireShape, WireOrder
  <2>4. LatestInv'
    BY <1>1, <1>3, <2>1 DEF OrderInv, LatestInv, serverVars
  <2>5. TaskInv' /\ PastInv' /\ RisingInv' /\ CommitInv' /\ DisjointInv'
    BY <1>1, <2>1 DEF OrderInv, TaskInv, PastInv, Past, RisingInv, Rising, CommitInv,
       DisjointInv, Committed, Refused, serverVars
  <2>6. QED
    BY <2>3, <2>4, <2>5 DEF OrderInv
<1>9. CASE ~IsHandshake(m)
  <2>1. /\ m.user \in Users
        /\ \E i \in 1..Len(queue[m.user]) : queue[m.user][i].write = m.write
        /\ \/ Commit(m) /\ wire' = s
           \/ Refuse(m) /\ wire' = NextStream(s)
    BY <1>9, AbandonedTurn DEF m, s
  <2>2. PICK i \in 1..Len(queue[m.user]) : queue[m.user][i].write = m.write
    BY <2>1
  <2>3. i > Answered(m.user) /\ UNCHANGED <<queue, worker, made, lost>>
        /\ \A u : Answered(u)' = Answered(u)
    <3>1. Len(queue[m.user]) \in Nat
      BY <2>1, QueueFacts
    <3>2. QED
      BY <1>1, <1>3, <2>2, <3>1
  <2>4. /\ TaskInv' /\ PastInv' /\ RisingInv' /\ CommitInv' /\ LatestInv' /\ DisjointInv'
        /\ Committed \subseteq Committed' /\ Refused \subseteq Refused'
        /\ Committed' \cup Refused' = Committed \cup Refused \cup {m.write}
    <3>1. Commit(m) \/ Refuse(m)
      BY <2>1
    <3>2. QED
      BY <2>1, <2>2, <2>3, <3>1, DecisionOrder
  <2>5. CASE wire' = s
    <3>1. WireShape'
      BY <1>2, <1>6, <2>5 DEF WireShape
    <3>2. ASSUME NEW k \in 1..Len(s), s[k].id # 0 PROVE InTurn(wire, k)'
      <4>1. k + 1 \in 1..Len(wire) /\ s[k] = wire[k + 1]
        BY <1>4
      <4> DEFINE q == queue[s[k].user]
      <4>2. InTurn(wire, k + 1)
        BY <3>2, <4>1 DEF OrderInv, WireOrder
      <4>3. PICK n \in 1..Len(q) :
              /\ q[n].write = s[k].write
              /\ \A j \in 1..Len(q) : j < n =>
                   \/ q[j].write \in Committed \/ q[j].write \in Refused
                   \/ \E l \in 1..Len(wire) : l < k + 1 /\ wire[l].write = q[j].write
        BY <4>1, <4>2 DEF InTurn
      <4> HIDE DEF q
      <4>4. ASSUME NEW j \in 1..Len(q), j < n
            PROVE  \/ q[j].write \in Committed' \/ q[j].write \in Refused'
                   \/ \E l \in 1..Len(s) : l < k /\ s[l].write = q[j].write
        <5>1. CASE q[j].write \in Committed \/ q[j].write \in Refused
          BY <2>4, <5>1
        <5>2. CASE \E l \in 1..Len(wire) : l < k + 1 /\ wire[l].write = q[j].write
          <6>1. PICK l \in 1..Len(wire) : l < k + 1 /\ wire[l].write = q[j].write
            BY <5>2
          <6>2. CASE l = 1
            BY <1>4, <2>4, <6>1, <6>2
          <6>3. CASE l # 1
            <7>1. l - 1 \in 1..Len(s) /\ s[l - 1] = wire[l] /\ l - 1 < k
              BY <1>4, <6>1, <6>3
            <7>2. QED
              BY <6>1, <7>1
          <6>4. QED
            BY <6>2, <6>3
        <5>3. QED
          BY <4>3, <4>4, <5>1, <5>2
      <4>5. QED
        BY <1>1, <2>5, <4>3, <4>4 DEF InTurn, q
    <3>3. WireOrder'
      BY <2>5, <3>2 DEF WireOrder
    <3>4. QED
      BY <2>4, <3>1, <3>3 DEF OrderInv
  <2>6. CASE wire' = NextStream(s)
    <3>1. \A k \in 1..Len(wire') : wire'[k].id = 0
      BY <1>4, <1>6, <2>6, HandshakesLeft
    <3>2. WireShape' /\ WireOrder'
      BY <1>2, <3>1 DEF WireShape, WireOrder
    <3>3. QED
      BY <2>4, <3>2 DEF OrderInv
  <2>7. QED
    BY <2>1, <2>5, <2>6
<1>10. QED
  BY <1>8, <1>9

LEMMA InitOrder == Init => OrderInv
<1> SUFFICES ASSUME Init PROVE OrderInv
  OBVIOUS
<1>1. /\ worker = <<>> /\ queue = [u \in Users |-> <<>>] /\ wire = <<>>
      /\ lost = {} /\ committed = {} /\ refused = {}
  BY DEF Init
<1>2. TaskInv /\ WireShape /\ WireOrder
  BY <1>1 DEF TaskInv, WireShape, WireOrder
<1>3. PastInv /\ RisingInv
  BY <1>1 DEF PastInv, RisingInv, Rising, Committed
<1>4. CommitInv /\ LatestInv /\ DisjointInv
  BY <1>1 DEF CommitInv, LatestInv, DisjointInv, Committed
<1>5. QED
  BY <1>2, <1>3, <1>4 DEF OrderInv

LEMMA NextOrder == Inv /\ OrderInv /\ [Next]_vars => OrderInv'
<1> SUFFICES ASSUME Inv, OrderInv, [Next]_vars PROVE OrderInv'
  OBVIOUS
<1>1. CASE Write \/ (\E u \in Users : SignIn(u)) \/ RunNotification
  BY <1>1, ApplicationOrder
<1>2. CASE TakeWrite
  BY <1>2, TakeWriteOrder
<1>3. CASE TakeCredential
  BY <1>3, TakeCredentialOrder
<1>4. CASE ReadHandshake
  BY <1>4, ReadHandshakeOrder
<1>5. CASE ReadResult \/ ReadRefusal
  BY <1>5, ReadOrder
<1>6. CASE (\E r \in conn.requests : TokenAnswer(r)) \/ Fail \/ RunBackoff \/ RunIdleTimer
  BY <1>6, StreamActionsOrder
<1>7. CASE Restart
  BY <1>7, RestartOrder
<1>8. CASE Server
  BY <1>8, ServeOrder, ServeAbandonedOrder DEF Server
<1>9. CASE UNCHANGED vars
  BY <1>9 DEF vars, appVars, localVars, serverVars, OrderInv, TaskInv, PastInv, Past,
     RisingInv, Rising, WireShape, WireOrder, InTurn, CommitInv, LatestInv, Answered,
     DisjointInv, Committed, Refused
<1>10. QED
  BY <1>1, <1>2, <1>3, <1>4, <1>5, <1>6, <1>7, <1>8, <1>9 DEF Next, Worker

LEMMA AlwaysInOrder == Spec => [](Inv /\ OrderInv)
<1>1. Init => Inv /\ OrderInv
  BY InitInv, InitOrder
<1>2. Inv /\ OrderInv /\ [Next]_vars => (Inv /\ OrderInv)'
  BY NextInv, NextOrder
<1>3. QED
  BY <1>1, <1>2, PTL DEF Spec

(***************************************************************************)
(* The theorems.                                                           *)
(***************************************************************************)

\* However often batches are sent again, the server's documents are those of the
\* last committed write of every user whose queue is empty.
THEOREM LatestIsKept == Spec => []ServerKeepsTheLatest
<1>1. Inv /\ OrderInv => ServerKeepsTheLatest
  <2> SUFFICES ASSUME Inv, OrderInv, NEW u \in Users, queue[u] = <<>>,
                      NEW d \in committed, d.user = u
               PROVE  d.write <= latest[u]
    BY DEF ServerKeepsTheLatest
  <2>1. Len(queue[u]) = 0
    BY QueueFacts, Members
  <2>2. ~\E i \in 1..Len(queue[u]) : queue[u][i].write = d.write
    BY <2>1
  <2>3. QED
    BY <2>2 DEF OrderInv, LatestInv
<1>2. QED
  BY <1>1, AlwaysInOrder, PTL

(***************************************************************************)
(* Outbox implements Delivery.                                             *)
(***************************************************************************)

\* The refinement mapping.
Accepted == {w \in 1..made : WriteTask(w) \notin ToSet(worker) /\ w \notin lost}

Contents(q) == [i \in 1..Len(q) |-> q[i].write]

Pending == [u \in Users |-> Contents(queue[u])]

Decided == Committed \cup Refused

LEMMA ContentsOf ==
    ASSUME NEW q \in Seq(Batches)
    PROVE  /\ Contents(q) \in Seq(Writes) /\ Len(Contents(q)) = Len(q)
           /\ \A i \in 1..Len(q) : Contents(q)[i] = q[i].write
<1>1. \A b \in Batches : b.write \in Writes
  BY DEF Batches
<1>2. Len(q) \in Nat /\ \A i \in 1..Len(q) : q[i].write \in Writes
  BY <1>1, Members
<1>3. QED
  BY <1>2 DEF Contents

LEMMA ContentsAppended ==
    ASSUME NEW q \in Seq(Batches), NEW b \in Batches
    PROVE  Contents(Append(q, b)) = Append(Contents(q), b.write)
<1> DEFINE c == Contents(q)
           e == Contents(Append(q, b))
           f == Append(c, b.write)
<1>1. b.write \in Writes
  BY DEF Batches
<1>2. /\ Append(q, b) \in Seq(Batches) /\ Len(q) \in Nat
      /\ Len(Append(q, b)) = Len(q) + 1
      /\ \A i \in 1..Len(q) : Append(q, b)[i] = q[i]
      /\ Append(q, b)[Len(q) + 1] = b
  BY AppendProperties
<1>3. /\ c \in Seq(Writes) /\ Len(c) = Len(q) /\ \A i \in 1..Len(q) : c[i] = q[i].write
  BY ContentsOf
<1>4. /\ e \in Seq(Writes) /\ Len(e) = Len(q) + 1
      /\ \A i \in 1..(Len(q) + 1) : e[i] = Append(q, b)[i].write
  BY <1>2, ContentsOf
<1> HIDE DEF c, e
<1>5. /\ f \in Seq(Writes) /\ Len(f) = Len(q) + 1
      /\ \A i \in 1..Len(q) : f[i] = c[i]
      /\ f[Len(q) + 1] = b.write
  BY <1>1, <1>3, AppendProperties
<1> HIDE DEF f
<1>6. ASSUME NEW i \in 1..(Len(q) + 1) PROVE e[i] = f[i]
  <2>1. CASE i \in 1..Len(q)
    BY <1>2, <1>3, <1>4, <1>5, <2>1
  <2>2. CASE i = Len(q) + 1
    BY <1>2, <1>4, <1>5, <2>2
  <2>3. QED
    BY <1>2, <2>1, <2>2
<1>7. e = f
  BY <1>4, <1>5, <1>6, SeqEqual
<1>8. QED
  BY <1>7 DEF c, e, f

LEMMA ContentsShortened ==
    ASSUME NEW q \in Seq(Batches), q # <<>>
    PROVE  /\ Contents(q) # <<>> /\ Head(Contents(q)) = q[1].write
           /\ Contents(Tail(q)) = Tail(Contents(q))
<1> DEFINE c == Contents(q)
           e == Contents(Tail(q))
           f == Tail(c)
<1>1. /\ Tail(q) \in Seq(Batches) /\ Len(q) \in Nat \ {0}
      /\ Len(Tail(q)) = Len(q) - 1
      /\ \A i \in 1..Len(Tail(q)) : i + 1 \in 1..Len(q) /\ Tail(q)[i] = q[i + 1]
  BY Tailed
<1>2. /\ c \in Seq(Writes) /\ Len(c) = Len(q) /\ \A i \in 1..Len(q) : c[i] = q[i].write
  BY ContentsOf
<1>3. /\ e \in Seq(Writes) /\ Len(e) = Len(Tail(q))
      /\ \A i \in 1..Len(Tail(q)) : e[i] = Tail(q)[i].write
  BY <1>1, ContentsOf
<1> HIDE DEF c, e
<1>4. c # <<>>
  BY <1>1, <1>2, Members
<1>5. /\ f \in Seq(Writes) /\ Len(f) = Len(c) - 1 /\ Head(c) = c[1]
      /\ \A i \in 1..Len(f) : f[i] = c[i + 1]
  BY <1>2, <1>4, Tailed
<1> HIDE DEF f
<1>6. Len(e) = Len(f) /\ \A i \in 1..Len(e) : e[i] = f[i]
  BY <1>1, <1>2, <1>3, <1>5
<1>7. e = f
  BY <1>3, <1>5, <1>6, SeqEqual
<1>8. Head(c) = q[1].write
  BY <1>1, <1>2, <1>5
<1>9. QED
  BY <1>4, <1>7, <1>8 DEF c, e, f

LEMMA Elements ==
    ASSUME NEW S, NEW s \in Seq(S)
    PROVE  ToSet(s) = {s[i] : i \in 1..Len(s)}
BY DEF ToSet

\* A write that is made, or a notification, changes nothing of what is accepted.
LEMMA AddedAccepted ==
    ASSUME Inv, NEW t \in Tasks, worker' = Append(worker, t), lost' = lost,
           \/ t.op # "write" /\ made' = made
           \/ t = WriteTask(made') /\ made' = made + 1
    PROVE  Accepted' = Accepted
<1>1. worker \in Seq(Tasks) /\ made \in Nat
  BY BoundsAssumption DEF Inv, AppInv
<1>2. ToSet(worker') = ToSet(worker) \cup {t}
  <2>1. /\ worker' \in Seq(Tasks) /\ Len(worker) \in Nat /\ Len(worker') = Len(worker) + 1
        /\ \A i \in 1..Len(worker) : worker'[i] = worker[i]
        /\ worker'[Len(worker) + 1] = t
    BY <1>1, AppendProperties
  <2>2. ToSet(worker) = {worker[i] : i \in 1..Len(worker)}
    BY <1>1, Elements
  <2>3. ToSet(worker') = {worker'[i] : i \in 1..Len(worker')}
    BY <2>1, Elements
  <2>4. \A i \in 1..Len(worker') : i \in 1..Len(worker) \/ i = Len(worker) + 1
    BY <2>1
  <2>5. Len(worker) + 1 \in 1..Len(worker') /\ 1..Len(worker) \subseteq 1..Len(worker')
    BY <2>1
  <2>6. QED
    BY <2>1, <2>2, <2>3, <2>4, <2>5
<1>3. CASE t.op # "write" /\ made' = made
  <2>1. \A w : WriteTask(w) # t
    BY <1>3 DEF WriteTask
  <2>2. QED
    BY <1>2, <1>3, <2>1 DEF Accepted
<1>4. CASE t = WriteTask(made') /\ made' = made + 1
  <2>1. \A w \in 1..made : WriteTask(w) # t
    <3>1. \A w \in 1..made : w # made + 1
      BY <1>1
    <3>2. \A w : WriteTask(w).write = w
      BY DEF WriteTask
    <3>3. QED
      BY <1>4, <3>1, <3>2
  <2>2. \A w \in 1..made' : w \in 1..made \/ WriteTask(w) = t
    BY <1>1, <1>4
  <2>3. 1..made \subseteq 1..made'
    BY <1>1, <1>4
  <2>4. QED
    BY <1>2, <2>1, <2>2, <2>3 DEF Accepted
<1>5. QED
  BY <1>3, <1>4

\* A task taken is a write accepted, or nothing.
LEMMA TakenAccepted ==
    ASSUME Inv, OrderInv, worker # <<>>, worker' = Tail(worker), made' = made, lost' = lost,
           NEW w, w = worker[1].write
    PROVE  /\ worker[1].op # "write" => Accepted' = Accepted
           /\ worker[1].op = "write" => w \notin Accepted /\ Accepted' = Accepted \cup {w}
<1>1. worker \in Seq(Tasks) /\ made \in Nat
  BY BoundsAssumption DEF Inv, AppInv
<1>2. ToSet(worker) = ToSet(worker') \cup {worker[1]}
  <2>1. /\ worker' \in Seq(Tasks) /\ Len(worker) \in Nat \ {0}
        /\ \A i \in 1..Len(worker') : i + 1 \in 1..Len(worker) /\ worker'[i] = worker[i + 1]
        /\ \A i \in 1..Len(worker) : i # 1 =>
             i - 1 \in 1..Len(worker') /\ worker'[i - 1] = worker[i]
    BY <1>1, Tailed
  <2>2. ToSet(worker) = {worker[i] : i \in 1..Len(worker)}
    BY <1>1, Elements
  <2>3. ToSet(worker') = {worker'[i] : i \in 1..Len(worker')}
    <3>1. PICK s \in Seq(Tasks) : s = worker'
      BY <2>1
    <3>2. ToSet(s) = {s[i] : i \in 1..Len(s)}
      BY Elements
    <3>3. ToSet(worker') = ToSet(s)
      BY <3>1 DEF ToSet
    <3>4. QED
      BY <3>1, <3>2, <3>3
  <2>4. 1 \in 1..Len(worker)
    BY <2>1
  <2>5. \A i \in 1..Len(worker) : worker[i] = worker[1] \/ worker[i] \in ToSet(worker')
    BY <2>1, <2>3
  <2>6. \A i \in 1..Len(worker') : worker'[i] \in ToSet(worker)
    BY <2>1, <2>2
  <2>7. QED
    BY <2>2, <2>3, <2>4, <2>5, <2>6
<1>3. CASE worker[1].op # "write"
  <2>1. \A x : WriteTask(x) # worker[1]
    BY <1>3 DEF WriteTask
  <2>2. QED
    BY <1>2, <1>3, <2>1 DEF Accepted
<1>4. CASE worker[1].op = "write"
  <2>1. 1 \in 1..Len(worker) /\ worker[1] \in Tasks
    BY <1>1, Tailed
  <2>2. worker[1] = WriteTask(w) /\ w \in Writes
    BY <1>4, <2>1, TaskKinds
  <2>3. w \in Nat \ {0}
    BY <2>2, BoundsAssumption DEF Writes
  <2>4. w \in 1..made
    <3>1. w <= made
      BY <1>4, <2>1 DEF OrderInv, TaskInv
    <3>2. QED
      BY <1>1, <2>3, <3>1
  <2>5. w \notin lost
    <3>1. w \in lost => w < w
      BY <1>4, <2>1 DEF OrderInv, PastInv, Past
    <3>2. QED
      BY <2>3, <3>1
  <2>6. WriteTask(w) \notin ToSet(worker')
    <3>1. Past(w)'
      BY <1>4, TaskTaken DEF OrderInv
    <3>2. worker' \in Seq(Tasks)
      BY <1>1, Tailed
    <3>3. ASSUME WriteTask(w) \in ToSet(worker') PROVE FALSE
      <4>1. PICK i \in 1..Len(worker') : worker'[i] = WriteTask(w)
        BY <3>2, <3>3 DEF ToSet
      <4>2. w < w
        BY <3>1, <4>1 DEF Past, WriteTask
      <4>3. QED
        BY <2>3, <4>2
    <3>4. QED
      BY <3>3
  <2>7. WriteTask(w) \in ToSet(worker) /\ \A x : WriteTask(x) = WriteTask(w) => x = w
    BY <1>2, <2>2 DEF WriteTask
  <2>8. w \notin Accepted /\ w \in Accepted'
    BY <2>4, <2>5, <2>6, <2>7 DEF Accepted
  <2>9. \A x : x # w => (x \in Accepted' <=> x \in Accepted)
    BY <1>2, <2>2, <2>7 DEF Accepted
  <2>10. Accepted' = Accepted \cup {w}
    BY <2>8, <2>9
  <2>11. QED
    BY <1>4, <2>8, <2>10
<1>5. QED
  BY <1>3, <1>4

\* What a restart forgets had not been accepted.
LEMMA LostAccepted == ASSUME Inv, Restart PROVE Accepted' = Accepted
<1>1. worker \in Seq(Tasks)
  BY DEF Inv, AppInv
<1>2. /\ worker' = <<>> /\ made' = made
      /\ lost' = lost \cup {t.write : t \in {t \in ToSet(worker) : t.op = "write"}}
  BY DEF Restart
<1>3. \A t \in ToSet(worker) : t.op = "write" => t = WriteTask(t.write)
  <2>1. \A t \in ToSet(worker) : t \in Tasks
    BY <1>1 DEF ToSet
  <2>2. QED
    BY <2>1, TaskKinds
<1>4. \A w : WriteTask(w).op = "write" /\ WriteTask(w).write = w
  BY DEF WriteTask
<1>5. \A w : w \in lost' <=> w \in lost \/ WriteTask(w) \in ToSet(worker)
  BY <1>2, <1>3, <1>4
<1>6. ToSet(worker') = {}
  BY <1>2 DEF ToSet
<1>7. QED
  BY <1>2, <1>5, <1>6 DEF Accepted

\* What a step of Delivery may do, in terms of the mapping.
LEMMA PromiseStep ==
    /\ \A u \in Users, w \in Writes :
         /\ w \notin Accepted /\ Accepted' = Accepted \cup {w}
         /\ Pending' = [Pending EXCEPT ![u] = Append(Pending[u], w)]
         /\ Decided' = Decided
         => Promise!Next
    /\ \A u \in Users : \A i \in 1..Len(Pending[u]) :
         /\ \A j \in 1..(i - 1) : Pending[u][j] \in Decided
         /\ Decided' = Decided \cup {Pending[u][i]}
         /\ Accepted' = Accepted /\ Pending' = Pending
         => Promise!Next
    /\ \A u \in Users :
         /\ Pending[u] # <<>> /\ Head(Pending[u]) \in Decided
         /\ Pending' = [Pending EXCEPT ![u] = Tail(Pending[u])]
         /\ Accepted' = Accepted /\ Decided' = Decided
         => Promise!Next
<1>1. ASSUME NEW u \in Users, NEW w \in Writes,
             w \notin Accepted, Accepted' = Accepted \cup {w},
             Pending' = [Pending EXCEPT ![u] = Append(Pending[u], w)],
             Decided' = Decided
      PROVE  Promise!Next
  <2>1. Promise!Accept(u, w)
    BY <1>1 DEF Promise!Accept, Accepted, Pending, Contents, Decided
  <2>2. QED
    BY <2>1 DEF Promise!Next
<1>2. ASSUME NEW u \in Users, NEW i \in 1..Len(Pending[u]),
             \A j \in 1..(i - 1) : Pending[u][j] \in Decided,
             Decided' = Decided \cup {Pending[u][i]},
             Accepted' = Accepted, Pending' = Pending
      PROVE  Promise!Next
  <2>1. Promise!Decide(u, i)
    BY <1>2 DEF Promise!Decide, Accepted, Pending, Contents, Decided
  <2>2. QED
    BY <2>1 DEF Promise!Next, Pending, Contents
<1>3. ASSUME NEW u \in Users, Pending[u] # <<>>, Head(Pending[u]) \in Decided,
             Pending' = [Pending EXCEPT ![u] = Tail(Pending[u])],
             Accepted' = Accepted, Decided' = Decided
      PROVE  Promise!Next
  <2>1. Promise!Settle(u)
    BY <1>3 DEF Promise!Settle, Accepted, Pending, Contents, Decided
  <2>2. QED
    BY <2>1 DEF Promise!Next
<1>4. QED
  BY <1>1, <1>2, <1>3

LEMMA Stutter ==
    ASSUME Accepted' = Accepted, queue' = queue, committed' = committed, refused' = refused
    PROVE  UNCHANGED Promise!vars
BY DEF Promise!vars, Accepted, Committed, Refused

LEMMA QueueUnits ==
    ASSUME Inv, NEW u \in Users
    PROVE  /\ Pending[u] = Contents(queue[u]) /\ queue[u] \in Seq(Batches)
           /\ Len(Pending[u]) = Len(queue[u])
           /\ \A i \in 1..Len(queue[u]) : Pending[u][i] = queue[u][i].write
<1>1. queue[u] \in Seq(Batches)
  BY DEF Inv, QueueInv
<1>2. Pending[u] = Contents(queue[u])
  BY DEF Pending
<1>3. QED
  BY <1>1, <1>2, ContentsOf

LEMMA AcceptStep == ASSUME Inv, OrderInv, TakeWrite PROVE Promise!Next
<1>1. PICK w : w = Head(worker).write
  OBVIOUS
<1>2. /\ w \in Writes /\ worker[1] = WriteTask(w) /\ user \in Users
      /\ \E b \in Batches : b.write = w /\ queue' = [queue EXCEPT ![user] = Append(queue[user], b)]
  BY <1>1, Taken
<1>3. /\ worker # <<>> /\ worker' = Tail(worker) /\ made' = made /\ lost' = lost
      /\ Decided' = Decided
  BY DEF TakeWrite, appVars, serverVars, Decided, Committed, Refused
<1>4. worker[1].op = "write" /\ worker[1].write = w
  BY <1>2 DEF WriteTask
<1>5. w \notin Accepted /\ Accepted' = Accepted \cup {w}
  BY <1>3, <1>4, TakenAccepted
<1>6. Pending' = [Pending EXCEPT ![user] = Append(Pending[user], w)]
  <2>1. PICK b \in Batches :
          b.write = w /\ queue' = [queue EXCEPT ![user] = Append(queue[user], b)]
    BY <1>2
  <2>2. Contents(Append(queue[user], b)) = Append(Contents(queue[user]), w)
    BY <1>2, <2>1, QueueUnits, ContentsAppended
  <2>3. queue \in [Users -> Seq(Batches)]
    BY DEF Inv, QueueInv
  <2>4. QED
    BY <1>2, <2>1, <2>2, <2>3 DEF Pending
<1>7. QED
  BY <1>2, <1>3, <1>5, <1>6, PromiseStep

LEMMA SettleStep == ASSUME Inv, OrderInv, ReadResult \/ ReadRefusal PROVE Promise!Next
<1>1. /\ conn.pipeline # <<>>
      /\ queue[user][1].write \in Committed \/ queue[user][1].write \in Refused
      /\ UNCHANGED <<appVars, worker, user, serverVars, lost>>
      /\ \E outcome : Settle(Head(conn.pipeline).id, outcome)
  BY OldestSettled
<1>2. Accepted' = Accepted /\ Decided' = Decided
  BY <1>1 DEF appVars, serverVars, Accepted, Decided, Committed, Refused
<1>3. /\ user \in Users /\ queue[user] # <<>>
      /\ queue' = [queue EXCEPT ![user] = Tail(queue[user])]
  <2>1. PICK outcome : Settle(Head(conn.pipeline).id, outcome)
    BY <1>1
  <2>2. QED
    BY <1>1, <2>1, Settled
<1>4. /\ Contents(queue[user]) # <<>> /\ Head(Contents(queue[user])) = queue[user][1].write
      /\ Contents(Tail(queue[user])) = Tail(Contents(queue[user]))
  BY <1>3, QueueUnits, ContentsShortened
<1>5. Pending' = [Pending EXCEPT ![user] = Tail(Pending[user])]
  <2>1. queue \in [Users -> Seq(Batches)]
    BY DEF Inv, QueueInv
  <2>2. QED
    BY <1>3, <1>4, <2>1 DEF Pending
<1>6. Pending[user] # <<>> /\ Head(Pending[user]) \in Decided
  BY <1>1, <1>3, <1>4, QueueUnits DEF Decided
<1>7. QED
  BY <1>2, <1>3, <1>5, <1>6, PromiseStep

\* The server decides about the write at place i of u's queue.
LEMMA DecideStep ==
    ASSUME Inv, NEW u \in Users, NEW i \in 1..Len(queue[u]),
           \A j \in 1..Len(queue[u]) : j < i => queue[u][j].write \in Decided,
           Decided' = Decided \cup {queue[u][i].write},
           Accepted' = Accepted, queue' = queue
    PROVE  Promise!Next
<1>1. /\ Len(Pending[u]) = Len(queue[u]) /\ Len(queue[u]) \in Nat
      /\ \A j \in 1..Len(queue[u]) : Pending[u][j] = queue[u][j].write
  BY QueueUnits, QueueFacts
<1>2. \A j \in 1..(i - 1) : j \in 1..Len(queue[u]) /\ j < i
  BY <1>1
<1>3. \A j \in 1..(i - 1) : Pending[u][j] \in Decided
  BY <1>1, <1>2
<1>4. Pending' = Pending /\ Decided' = Decided \cup {Pending[u][i]}
  BY <1>1 DEF Pending
<1>5. i \in 1..Len(Pending[u])
  BY <1>1
<1>6. QED
  BY <1>3, <1>4, <1>5, PromiseStep

LEMMA ServerStep ==
    ASSUME Inv, OrderInv, Server PROVE Promise!Next \/ UNCHANGED Promise!vars
<1>1. UNCHANGED <<appVars, worker, localVars, lost>>
  BY DEF Server, Serve, ServeAbandoned
<1>2. Accepted' = Accepted /\ queue' = queue /\ Pending' = Pending
  BY <1>1 DEF appVars, localVars, Accepted, Pending
<1>3. CASE UNCHANGED serverVars
  <2>1. committed' = committed /\ refused' = refused
    BY <1>3 DEF serverVars
  <2>2. UNCHANGED Promise!vars
    BY <1>2, <2>1, Stutter
  <2>3. QED
    BY <2>2
<1>4. CASE Serve /\ conn.handshake
  <2> DEFINE m == Message(Head(conn.outgoing))
             i == Len(answers) + 1
  <2>1. /\ i \in 1..Len(queue[user]) /\ m.user = user /\ user \in Users
        /\ m.write = queue[user][i].write
        /\ \A j \in 1..Len(queue[user]) : j < i => queue[user][j].write \in Committed
        /\ Commit(m) \/ Refuse(m)
    BY <1>4, ServeTurn
  <2> HIDE DEF m, i
  <2>2. Decided' = Decided \cup {m.write}
    BY <2>1, Decision DEF Decided
  <2>3. \A j \in 1..Len(queue[user]) : j < i => queue[user][j].write \in Decided
    BY <2>1 DEF Decided
  <2>4. QED
    BY <1>2, <2>1, <2>2, <2>3, DecideStep
<1>5. CASE ServeAbandoned /\ ~IsHandshake(Head(wire))
  <2> DEFINE m == Head(wire)
  <2>1. /\ m.user \in Users
        /\ Commit(m) \/ Refuse(m)
        /\ \E i \in 1..Len(queue[m.user]) :
             /\ queue[m.user][i].write = m.write
             /\ \A j \in 1..Len(queue[m.user]) : j < i =>
                  queue[m.user][j].write \in Committed \/ queue[m.user][j].write \in Refused
    BY <1>5, AbandonedTurn
  <2> HIDE DEF m
  <2>2. PICK i \in 1..Len(queue[m.user]) :
             /\ queue[m.user][i].write = m.write
             /\ \A j \in 1..Len(queue[m.user]) : j < i =>
                  queue[m.user][j].write \in Committed \/ queue[m.user][j].write \in Refused
    BY <2>1
  <2>3. Decided' = Decided \cup {m.write}
    BY <2>1, Decision DEF Decided
  <2>4. \A j \in 1..Len(queue[m.user]) : j < i => queue[m.user][j].write \in Decided
    BY <2>2 DEF Decided
  <2>5. QED
    BY <1>2, <2>1, <2>2, <2>3, <2>4, DecideStep
<1>6. CASE Serve /\ ~conn.handshake
  <2>1. conn.outgoing = <<Handshake>>
    BY <1>6, StreamFacts DEF Serve, Inv, StreamInv, TalkInv
  <2>2. UNCHANGED serverVars
    BY <1>6, <2>1 DEF Serve, IsHandshake, Handshake
  <2>3. QED
    BY <1>3, <2>2
<1>7. CASE ServeAbandoned /\ IsHandshake(Head(wire))
  <2>1. UNCHANGED serverVars
    BY <1>7 DEF ServeAbandoned
  <2>2. QED
    BY <1>3, <2>1
<1>8. QED
  BY <1>4, <1>5, <1>6, <1>7 DEF Server

\* Delivery, step by step: TakeWrite accepts, the server decides, reading an answer
\* or a refusal settles, and everything else changes nothing of the promise.
THEOREM PromiseIsKept == Spec => KeepsThePromise
<1>1. Init => Promise!Init
  <2> SUFFICES ASSUME Init PROVE Promise!Init
    OBVIOUS
  <2>1. /\ made = 0 /\ queue = [u \in Users |-> <<>>] /\ committed = {} /\ refused = {}
    BY DEF Init
  <2>2. 1..made = {}
    BY <2>1
  <2>3. Committed = {} /\ Refused = {}
    BY <2>1 DEF Committed, Refused
  <2>4. \A u \in Users : [i \in 1..Len(queue[u]) |-> queue[u][i].write] = <<>>
    BY <2>1
  <2>5. QED
    BY <2>2, <2>3, <2>4 DEF Promise!Init
<1>2. Inv /\ OrderInv /\ [Next]_vars => [Promise!Next]_Promise!vars
  <2> SUFFICES ASSUME Inv, OrderInv, [Next]_vars
               PROVE  Promise!Next \/ UNCHANGED Promise!vars
    OBVIOUS
  <2>1. Accepted' = Accepted /\ queue' = queue /\ committed' = committed /\ refused' = refused
        => UNCHANGED Promise!vars
    BY Stutter
  <2>2. CASE Write
    <3> DEFINE t == WriteTask(made + 1)
    <3>1. made \in Nat /\ made + 1 \in Writes
      BY <2>2, BoundsAssumption DEF Inv, AppInv, Write, Writes
    <3>2. t \in Tasks /\ t = WriteTask(made') /\ worker' = Append(worker, t) /\ made' = made + 1
      BY <2>2, <3>1 DEF Write, Tasks, WriteTask
    <3>3. UNCHANGED <<localVars, serverVars, lost>>
      BY <2>2 DEF Write
    <3> HIDE DEF t
    <3>4. Accepted' = Accepted
      BY <3>2, <3>3, AddedAccepted
    <3>5. QED
      BY <2>1, <3>3, <3>4 DEF localVars, serverVars
  <2>3. CASE \E u \in Users : SignIn(u)
    <3>1. made' = made /\ worker' = worker /\ UNCHANGED <<localVars, serverVars, lost>>
      BY <2>3 DEF SignIn
    <3>2. Accepted' = Accepted
      BY <3>1 DEF Accepted
    <3>3. QED
      BY <2>1, <3>1, <3>2 DEF localVars, serverVars
  <2>4. CASE RunNotification
    <3> DEFINE t == CredentialTask(Head(notes))
    <3>1. Head(notes) \in Users
      BY <2>4, Tailed DEF Inv, AppInv, RunNotification
    <3>2. t \in Tasks /\ t.op # "write" /\ worker' = Append(worker, t) /\ made' = made
      BY <2>4, <3>1 DEF RunNotification, Tasks, CredentialTask
    <3>3. UNCHANGED <<localVars, serverVars, lost>>
      BY <2>4 DEF RunNotification
    <3> HIDE DEF t
    <3>4. Accepted' = Accepted
      BY <3>2, <3>3, AddedAccepted
    <3>5. QED
      BY <2>1, <3>3, <3>4 DEF localVars, serverVars
  <2>5. CASE TakeWrite
    BY <2>5, AcceptStep
  <2>6. CASE TakeCredential
    <3>1. /\ worker # <<>> /\ worker' = Tail(worker) /\ made' = made /\ lost' = lost
          /\ queue' = queue /\ UNCHANGED serverVars /\ Head(worker).op # "write"
      BY <2>6 DEF TakeCredential, appVars
    <3>2. Head(worker) = worker[1]
      BY <3>1, Tailed DEF Inv, AppInv
    <3>3. Accepted' = Accepted
      BY <3>1, <3>2, TakenAccepted
    <3>4. QED
      BY <2>1, <3>1, <3>3 DEF serverVars
  <2>7. CASE ReadResult \/ ReadRefusal
    BY <2>7, SettleStep
  <2>8. CASE \/ ReadHandshake \/ RunBackoff \/ RunIdleTimer \/ Fail
             \/ \E r \in conn.requests : TokenAnswer(r)
    <3>1. UNCHANGED <<appVars, worker, localVars, serverVars, lost>>
      BY <2>8 DEF ReadHandshake, RunBackoff, RunIdleTimer, Fail, TokenAnswer
    <3>2. Accepted' = Accepted
      BY <3>1 DEF Accepted, appVars
    <3>3. QED
      BY <2>1, <3>1, <3>2 DEF localVars, serverVars
  <2>9. CASE Restart
    <3>1. queue' = queue /\ UNCHANGED serverVars
      BY <2>9 DEF Restart
    <3>2. QED
      BY <2>1, <2>9, <3>1, LostAccepted DEF serverVars
  <2>10. CASE Server
    BY <2>10, ServerStep
  <2>11. CASE UNCHANGED vars
    <3>1. Accepted' = Accepted
      BY <2>11 DEF vars, appVars, Accepted
    <3>2. QED
      BY <2>1, <2>11, <3>1 DEF vars, localVars, serverVars
  <2>12. QED
    BY <2>2, <2>3, <2>4, <2>5, <2>6, <2>7, <2>8, <2>9, <2>10, <2>11 DEF Next, Worker
<1>3. QED
  BY <1>1, <1>2, AlwaysInOrder, PTL DEF Spec, KeepsThePromise, Promise!Spec

=============================================================================
