------------------------------- MODULE Outbox -------------------------------
(***************************************************************************)
(* A write from the application to Firestore's server.  FIRFirestoreService*)
(* hands it to the client and reports success at once; the worker queue    *)
(* files it under the user the sync engine knows; RemoteStore sends it     *)
(* over a stream opened with a token of FirebaseAuth's current user, which *)
(* may be somebody else until FirebaseAuth's notification has been through *)
(* the main queue and the worker queue.  Streams break, writes are refused *)
(* and the process ends; the mutation queues are on disk.                  *)
(*                                                                         *)
(* External: the server handles messages in the order they were sent, also *)
(* those of streams the client has given up, until the rest of such a      *)
(* stream is lost; it answers in order; it ends a stream only when it      *)
(* refuses a write of that stream; asked about a write again, it decides   *)
(* as before.                                                              *)
(***************************************************************************)
EXTENDS Naturals, Sequences, SequencesExt, FiniteSets, RemoteStore

CONSTANTS
  Users,         \* with the unauthenticated user, whose queue is named ""
  MaxWrites,     \* bound: writes the application makes
  MaxTroubles    \* bound: changes of user or token, broken streams, failed token
                 \* requests and ends of the process, together

ASSUME BoundsAssumption == MaxWrites \in Nat /\ MaxTroubles \in Nat

VARIABLES
  auth,          \* FIRAuth._currentUser
  notes,         \* notifications on their way through the main queue
  worker,        \* the worker queue
  user,          \* SyncEngine::current_user_
  queue,         \* on disk: each user's mutation batches, by id
  nextId,        \* next_batch_id_
  callbacks,     \* mutation_callbacks_
  conn,          \* RemoteStore's write half
  answers,       \* responses of the open RPC not yet read
  refusing,      \* "yes": the server has ended the open RPC by refusing a write;
                 \* "read": and an answer has been read since
  wire,          \* messages of streams given up that the server will still see
  made,          \* history: writes made so far, numbered from 1
  lost,          \* history: writes the worker never took
  committed,     \* history: what the server committed, from whose queue and as whom
  refused,       \* history: what the server refused, likewise
  latest,        \* the server's documents: the last write of each user's queue
  told,          \* history: what the write's callback was told
  troubles       \* how many of those there have been

appVars    == <<auth, notes, made>>
localVars  == <<user, queue, nextId, callbacks>>
serverVars == <<committed, refused, latest>>
vars == <<appVars, localVars, serverVars, worker, conn, answers, refusing, wire,
          lost, told, troubles>>

Writes  == 1..MaxWrites
Batches == [id : Nat \ {0}, write : Writes]
Tasks   == [op : {"write"}, write : Writes] \cup [op : {"credential"}, user : Users]

WriteTask(w)      == [op |-> "write", write |-> w]
CredentialTask(u) == [op |-> "credential", user |-> u]

\* What the server sees of a message: whose queue it comes from and whose token
\* its stream carries.
Message(b) == [id |-> b.id, write |-> b.write, user |-> user, as |-> conn.credential]
Deeds      == [write : Writes, user : Users, as : Users]
Messages   == [id : Nat, write : Nat, user : Users, as : Users]

Ids(q) == UNION {{q[u][i].id : i \in 1..Len(q[u])} : u \in Users}

\* Mutant: the largest id itself.
LoadLastBatchId(q) == IF Ids(q) = {} THEN 0
                      ELSE CHOOSE m \in Ids(q) : \A i \in Ids(q) : i <= m

\* LoadNextBatchIdFromDb: one more than the largest id of any user's batches.
LoadNextBatchId(q) == 1 + (IF Ids(q) = {} THEN 0
                           ELSE CHOOSE m \in Ids(q) : \A i \in Ids(q) : i <= m)

-----------------------------------------------------------------------------
Init ==
  /\ auth \in Users
  /\ user = auth
  /\ notes = <<>> /\ worker = <<>>
  /\ queue = [u \in Users |-> <<>>]
  /\ nextId = 1
  /\ callbacks = {}
  /\ conn = EnableNetwork(Stopped, <<>>)
  /\ answers = <<>> /\ refusing = "no" /\ wire = <<>>
  /\ made = 0 /\ lost = {} /\ committed = {} /\ refused = {}
  /\ latest = [u \in Users |-> 0]
  /\ told = [w \in Writes |-> "nothing"]
  /\ troubles = 0

-----------------------------------------------------------------------------
(* The application and FirebaseAuth                                        *)

Trouble == troubles < MaxTroubles /\ troubles' = troubles + 1

\* setData, followed at once by completion(true).
Write ==
  /\ made < MaxWrites
  /\ made' = made + 1
  /\ worker' = Append(worker, WriteTask(made + 1))
  /\ UNCHANGED <<auth, notes, localVars, serverVars, conn, answers, refusing, wire,
                 lost, told, troubles>>

\* FirebaseAuth takes a user for its current one, or a new token for the same
\* user, and queues the notification.
SignIn(u) ==
  /\ Trouble
  /\ auth' = u
  /\ notes' = Append(notes, u)
  /\ UNCHANGED <<made, worker, localVars, serverVars, conn, answers, refusing, wire,
                 lost, told>>

\* The notification reaches the credentials provider.
RunNotification ==
  /\ notes # <<>>
  /\ notes' = Tail(notes)
  /\ worker' = Append(worker, CredentialTask(Head(notes)))
  /\ conn' = [conn EXCEPT !.requests = {[r EXCEPT !.fresh = FALSE] : r \in @}]
  /\ UNCHANGED <<auth, made, localVars, serverVars, answers, refusing, wire,
                 lost, told, troubles>>

-----------------------------------------------------------------------------
(* The worker queue                                                        *)

\* The open RPC is let go: the server will see the first k of its messages.
Abandon(k) ==
  /\ wire' = wire \o [i \in 1..k |-> Message(conn.outgoing[i])]
  /\ answers' = <<>>
  /\ refusing' = "no"

MayStillSee == IF refusing # "no" THEN {0} ELSE 0..Len(conn.outgoing)

\* SyncEngine::WriteMutations.
TakeWrite ==
  /\ worker # <<>> /\ Head(worker).op = "write"
  /\ LET b == [id |-> nextId, write |-> Head(worker).write]
     IN  /\ queue' = [queue EXCEPT ![user] = Append(@, b)]
         /\ callbacks' = callbacks \cup {[user |-> user, batch |-> b]}
  /\ nextId' = nextId + 1
  /\ conn' = FillWritePipeline(conn, queue'[user])
  /\ worker' = Tail(worker)
  /\ UNCHANGED <<appVars, user, serverVars, answers, refusing, wire, lost, told, troubles>>

\* Mutant: the batches of the user who leaves are discarded.
TakeCredentialDiscarding ==
  /\ worker # <<>> /\ Head(worker).op = "credential"
  /\ LET u == Head(worker).user
     IN  /\ user' = u
         /\ queue' = IF u # user THEN [queue EXCEPT ![user] = <<>>] ELSE queue
         /\ nextId' = IF u # user THEN LoadNextBatchId(queue') ELSE nextId
         /\ conn' = HandleCredentialChange(conn, queue'[u])
  /\ \E k \in MayStillSee : Abandon(k)
  /\ worker' = Tail(worker)
  /\ UNCHANGED <<appVars, callbacks, serverVars, lost, told, troubles>>

\* SyncEngine::HandleCredentialChange.
TakeCredential ==
  /\ worker # <<>> /\ Head(worker).op = "credential"
  /\ LET u == Head(worker).user
     IN  /\ user' = u
         /\ nextId' = IF u # user THEN LoadNextBatchId(queue) ELSE nextId
         /\ conn' = HandleCredentialChange(conn, queue[u])
  /\ \E k \in MayStillSee : Abandon(k)
  /\ worker' = Tail(worker)
  /\ UNCHANGED <<appVars, queue, callbacks, serverVars, lost, told, troubles>>

\* OnStreamFinish with an error that is nobody's fault.
Break(c) ==
  /\ conn' = FinishTransient(c)
  /\ \E k \in MayStillSee : Abandon(k)

\* FirebaseAuth answers a token request.  One made before the last Close is
\* ignored, one made before the last notification is aborted.
TokenAnswer(r) ==
  LET c == [conn EXCEPT !.requests = @ \ {r}]
  IN  /\ r \in conn.requests
      /\ \/ /\ ~r.current
            /\ conn' = c
            /\ UNCHANGED <<answers, refusing, wire, troubles>>
         \/ /\ r.current /\ ~r.fresh
            /\ Break(c)
            /\ UNCHANGED troubles
         \/ /\ r.current /\ r.fresh
            /\ conn' = ResumeStart(c, auth)
            /\ UNCHANGED <<answers, refusing, wire, troubles>>
      /\ UNCHANGED <<appVars, worker, localVars, serverVars, lost, told>>

\* The token cannot be had, or the open RPC breaks.
Fail ==
  /\ Trouble
  /\ \/ \E r \in conn.requests :
          r.current /\ Break([conn EXCEPT !.requests = @ \ {r}])
     \/ IsOpen(conn) /\ Break(conn)
  /\ UNCHANGED <<appVars, worker, localVars, serverVars, lost, told>>

RunBackoff ==
  /\ conn.state = "Backoff"
  /\ conn' = BackoffElapsed(conn)
  /\ UNCHANGED <<appVars, worker, localVars, serverVars, answers, refusing, wire,
                 lost, told, troubles>>

RunIdleTimer ==
  /\ conn.idle
  /\ conn' = Stop(conn)
  /\ \E k \in MayStillSee : Abandon(k)
  /\ UNCHANGED <<appVars, worker, localVars, serverVars, lost, told, troubles>>

\* RemoveMutationBatch: q without the batch that has this id.
Without(q, id) ==
  IF \E i \in 1..Len(q) : q[i].id = id
  THEN RemoveAt(q, CHOOSE i \in 1..Len(q) : q[i].id = id) ELSE q

\* Mutant: only successes take their callback out.
SettleQuietly(id, outcome) ==
  LET mine == {c \in callbacks : c.user = user /\ c.batch.id = id}
  IN  /\ queue' = [queue EXCEPT ![user] = Without(@, id)]
      /\ callbacks' = IF outcome = "ok" THEN callbacks \ mine ELSE callbacks
      /\ told' = [w \in Writes |-> IF \E c \in mine : c.batch.write = w
                                   THEN outcome ELSE told[w]]

\* Remove the batch with this id from the current user's queue; its callback, if
\* this process made the write, is told the outcome.
Settle(id, outcome) ==
  LET mine == {c \in callbacks : c.user = user /\ c.batch.id = id}
  IN  /\ queue' = [queue EXCEPT ![user] = Without(@, id)]
      /\ callbacks' = callbacks \ mine
      /\ told' = [w \in Writes |-> IF \E c \in mine : c.batch.write = w
                                   THEN outcome ELSE told[w]]

\* RemoveMutationBatch and RejectBatch assert that the batch is there.
Present(id) == \E i \in 1..Len(queue[user]) : queue[user][i].id = id

ReadHandshake ==
  /\ answers # <<>> /\ ~conn.handshake
  /\ answers' = Tail(answers)
  /\ conn' = HandshakeComplete(conn)
  /\ UNCHANGED <<appVars, worker, localVars, serverVars, refusing, wire, lost, told, troubles>>

\* OnWriteStreamMutationResult with HandleSuccessfulWrite.
ReadResult ==
  /\ answers # <<>> /\ conn.handshake
  /\ answers' = Tail(answers)
  /\ IF conn.pipeline = <<>>
     THEN conn' = MutationResult(conn, queue[user]) /\ UNCHANGED <<queue, callbacks, told>>
     ELSE LET id == Head(conn.pipeline).id
          IN  /\ Settle(id, "ok")
              /\ conn' = MutationResult(Assert_(conn, Present(id)), queue'[user])
  /\ refusing' = IF refusing = "yes" THEN "read" ELSE refusing
  /\ UNCHANGED <<appVars, worker, user, nextId, serverVars, wire, lost, troubles>>

\* The status of a refused write.  Answers come before it, but each is only asked
\* for when the one before has been read: a write of the client that fails in the
\* meantime makes FinishGrpcCall cancel the read, and the answer is never seen.
ReadRefusal ==
  /\ refusing # "no"
  /\ answers = <<>> \/ (refusing = "read" /\ conn.outgoing # <<>>)
  /\ IF conn.handshake /\ conn.pipeline # <<>>
     THEN LET id == Head(conn.pipeline).id
          IN  /\ Settle(id, "error")
              /\ conn' = FinishPermanent(Assert_(conn, Present(id)), queue'[user])
     ELSE conn' = FinishTransient(conn) /\ UNCHANGED <<queue, callbacks, told>>
  /\ Abandon(0)
  /\ UNCHANGED <<appVars, worker, user, nextId, serverVars, lost, troubles>>

-----------------------------------------------------------------------------
(* The process ends; FirebaseAuth's user and the queues are on disk.       *)
Restart ==
  /\ Trouble
  /\ notes' = <<>> /\ worker' = <<>>
  /\ lost' = lost \cup {t.write : t \in {t \in ToSet(worker) : t.op = "write"}}
  /\ user' = auth
  /\ nextId' = LoadNextBatchId(queue)
  /\ callbacks' = {}
  /\ conn' = EnableNetwork(Stopped, queue[auth])
  /\ \E k \in MayStillSee : Abandon(k)
  /\ UNCHANGED <<auth, made, queue, serverVars, told>>

-----------------------------------------------------------------------------
(* The server                                                              *)

Deed(m) == [write |-> m.write, user |-> m.user, as |-> m.as]

Committed == {d.write : d \in committed}
Refused   == {d.write : d \in refused}

Commit(m) ==
  /\ m.write \notin Refused
  /\ committed' = committed \cup {Deed(m)}
  /\ latest' = [latest EXCEPT ![m.user] = m.write]
  /\ UNCHANGED refused

Refuse(m) ==
  /\ m.write \notin Committed
  /\ refused' = refused \cup {Deed(m)}
  /\ UNCHANGED <<committed, latest>>

IsHandshake(m) == m.id = 0

\* What is left of the wire when the stream in front ends: from the next handshake.
NextStream(s) ==
  LET later == {i \in 1..Len(s) : IsHandshake(s[i])}
  IN  IF later = {} THEN <<>>
      ELSE SubSeq(s, CHOOSE i \in later : \A j \in later : i <= j, Len(s))

\* A message of a stream the client has given up: nobody reads the answer.
ServeAbandoned ==
  /\ wire # <<>>
  /\ LET m == Head(wire)
     IN  \/ IsHandshake(m) /\ wire' = Tail(wire) /\ UNCHANGED serverVars
         \/ ~IsHandshake(m) /\ Commit(m) /\ wire' = Tail(wire)
         \/ ~IsHandshake(m) /\ Refuse(m) /\ wire' = NextStream(Tail(wire))
  /\ UNCHANGED <<appVars, worker, localVars, conn, answers, refusing, lost, told, troubles>>

\* A message of the open stream.
Serve ==
  /\ wire = <<>> /\ refusing = "no" /\ conn.outgoing # <<>>
  /\ LET b == Head(conn.outgoing)
     IN  \/ IsHandshake(b) /\ answers' = Append(answers, b) /\ UNCHANGED <<serverVars, refusing>>
         \/ ~IsHandshake(b) /\ answers' = Append(answers, b) /\ Commit(Message(b))
            /\ UNCHANGED refusing
         \/ ~IsHandshake(b) /\ refusing' = "yes" /\ Refuse(Message(b)) /\ UNCHANGED answers
  /\ conn' = [conn EXCEPT !.outgoing = Tail(@)]
  /\ UNCHANGED <<appVars, worker, localVars, wire, lost, told, troubles>>

-----------------------------------------------------------------------------
Worker == TakeWrite \/ TakeCredential \/ ReadHandshake \/ ReadResult \/ ReadRefusal
          \/ RunBackoff
Server == Serve \/ ServeAbandoned

Next ==
  \/ Write
  \/ \E u \in Users : SignIn(u)
  \/ RunNotification
  \/ Worker
  \/ RunIdleTimer
  \/ \E r \in conn.requests : TokenAnswer(r)
  \/ Fail
  \/ Restart
  \/ Server

Spec == Init /\ [][Next]_vars

\* The worker queue, the main queue with FirebaseAuth behind it and, as long as
\* a stream is up, the server each get on with what they have.  Nothing is
\* assumed of the user, of the idle timer or of failures.
Fairness ==
  /\ WF_vars(Worker)
  /\ WF_vars(RunNotification \/ \E r \in conn.requests : TokenAnswer(r))
  /\ WF_vars(Server)

FairSpec == Spec /\ Fairness

-----------------------------------------------------------------------------
TypeOK ==
  /\ auth \in Users /\ user \in Users
  /\ notes \in Seq(Users)
  /\ worker \in Seq(Tasks)
  /\ queue \in [Users -> Seq(Batches)]
  /\ nextId \in Nat \ {0}
  /\ callbacks \subseteq [user : Users, batch : Batches]
  /\ conn \in [network : {TRUE}, pipeline : Seq(Batches),
               state : {"Initial", "Starting", "Open", "Error", "Backoff"},
               handshake : BOOLEAN, idle : BOOLEAN,
               requests : SUBSET [current : BOOLEAN, fresh : BOOLEAN],
               credential : Users \cup {"none"}, broken : BOOLEAN,
               outgoing : Seq(Batches \cup {Handshake})]
  /\ answers \in Seq(Batches \cup {Handshake})
  /\ refusing \in {"no", "yes", "read"}
  /\ wire \in Seq(Messages)
  /\ made \in 0..MaxWrites
  /\ lost \subseteq Writes
  /\ committed \subseteq Deeds /\ refused \subseteq Deeds
  /\ latest \in [Users -> 0..MaxWrites]
  /\ told \in [Writes -> {"nothing", "ok", "error"}]
  /\ troubles \in 0..MaxTroubles

\* No HARD_ASSERT of Stream, WriteStream, RemoteStore, LocalStore or the
\* mutation queue ever fails: no result for an empty pipeline, no stream that is
\* stopped while needed or started twice, no batch removed that is not there
\* (remote_store.cc:416, 435, stream.cc:93, 129, 172, 242, 310,
\* leveldb_mutation_queue.cc:193).
NoAssertionFails == ~conn.broken

\* The pipeline is the front of the current user's queue: what is sent is what
\* has waited longest, whatever was acknowledged, refused, given up or swapped
\* out in between (remote_store.cc:349).
PipelineIsFrontOfQueue ==
  /\ Len(conn.pipeline) <= MaxPending
  /\ IsPrefix(conn.pipeline, queue[user])

\* Answers carry no name: the client takes the first one for the handshake's and
\* each later one for the oldest batch of the pipeline.  So the answers not yet
\* read and the messages not yet answered must be, in this order, the pipeline
\* (remote_store.cc:414, "should be correlated to the first write in our write
\* pipeline").
AnswersBelongToTheirWrites ==
  LET conversation == answers \o conn.outgoing
  IN  IsOpen(conn) =>
        IF conn.handshake
        THEN IF refusing # "no"
             THEN \E i \in 1..Len(conn.pipeline) :
                    conversation = answers \o SubSeq(conn.pipeline, i + 1, Len(conn.pipeline))
                    /\ answers = SubSeq(conn.pipeline, 1, i - 1)
             ELSE conversation = conn.pipeline
        ELSE conversation = <<Handshake>>

\* The idle timer runs only while there is nothing to send, so that it never
\* stops a stream that is needed (stream.cc:185, remote_store.cc:357, 435).
IdleMeansNothingToSend ==
  conn.idle => IsOpen(conn) /\ conn.handshake /\ queue[user] = <<>>

\* There is always somebody to take the queue forward: while the current user
\* has batches the stream is on its way, and a stream that is starting has
\* exactly one token request that has not been made obsolete (stream.cc:118).
NeverStalled ==
  /\ queue[user] # <<>> => IsStarted(conn)
  /\ conn.state = "Starting" <=> \E r \in conn.requests : r.current

\* A batch id names one batch: ids start again below old ones after a restart
\* or a change of user, yet a callback waiting under an id is always its own
\* batch's (leveldb_mutation_queue.cc:55, sync_engine.cc:194).
CallbacksAreTheirBatches ==
  \A c \in callbacks : c.batch \in ToSet(queue[c.user])

\* A callback told of success belongs to a write the server has committed.
ToldOkIsCommitted == \A w \in Writes : told[w] = "ok" => w \in Committed

\* A write is in the worker queue, lost with it, in a user's queue, or the
\* server has decided about it.  Only the first two are lost by a restart, and
\* completion(true) has been called for them (FIRFirestoreService.swift:66).
NothingIsDropped ==
  \A w \in 1..made :
    \/ WriteTask(w) \in ToSet(worker)
    \/ w \in lost \cup Committed \cup Refused
    \/ \E u \in Users : \E b \in ToSet(queue[u]) : b.write = w

\* Batches are resent when a stream breaks before it has answered, and the
\* server may then commit one for the second time, after a later one.  Once
\* nothing of a user's queue is left, the server's documents still are those of
\* the user's last committed write, even if messages of abandoned streams are
\* yet to come.
ServerKeepsTheLatest ==
  \A u \in Users :
    queue[u] = <<>> => \A d \in committed : d.user = u => d.write <= latest[u]

\* Delivery, the promise without streams, is kept.
Promise == INSTANCE Delivery WITH
  accepted <- {w \in 1..made : WriteTask(w) \notin ToSet(worker) /\ w \notin lost},
  pending  <- [u \in Users |-> [i \in 1..Len(queue[u]) |-> queue[u][i].write]],
  decided  <- Committed \cup Refused
KeepsThePromise == Promise!Spec

\* Once streams stop breaking, users stop changing and the process goes on,
\* every write of the current user is decided and its callback called; the
\* other users' writes wait for them to come back.
EverythingSettles ==
  <>[](queue[user] = <<>> /\ \A c \in callbacks : c.user # user)

-----------------------------------------------------------------------------
(* What the code says and does not keep                                    *)

\* remote_store.cc:531: "Tear down and re-create our network streams. This will
\* ensure we get a fresh auth token for the new user ... (since mutations are
\* per-user)": a user's batches are sent with that user's token.
SentWithTheirUsersToken == \A d \in committed \cup refused : d.as = d.user

\* remote_store.cc:492: "If this was a permanent error, the request
\* itself was the problem so it's not going to succeed if we resend it": a batch
\* rejected is one the server refused.
RejectedWasRefused == \A w \in Writes : told[w] = "error" => w \in Refused
=============================================================================
