---------------------------- MODULE RemoteStore -----------------------------
(***************************************************************************)
(* The write half of Firestore's RemoteStore with its WriteStream, as      *)
(* operators on a record c (one call on the worker queue is one            *)
(* application; nothing interleaves with it):                              *)
(*   network     is_network_enabled_                                       *)
(*   pipeline    write_pipeline_, the batches sent or to be sent           *)
(*   state       Stream::state_                                            *)
(*   handshake   handshake_complete_                                       *)
(*   idle        the idleness timer is running                             *)
(*   requests    token requests not yet answered.  current: close_count_   *)
(*               is still what it was at the request; fresh: so is the     *)
(*               provider's token_counter                                  *)
(*   credential  whose token the open RPC carries                          *)
(*   broken      a HARD_ASSERT has failed                                  *)
(*   outgoing    messages handed to the RPC, in order                      *)
(* A batch is a record [id, write]; the handshake is the message whose id  *)
(* is 0, which no batch has.                                               *)
(***************************************************************************)
EXTENDS Naturals, Sequences

CONSTANT MaxPending      \* kMaxPendingWrites

ASSUME MaxPendingAssumption == MaxPending \in Nat \ {0}

Handshake == [id |-> 0, write |-> 0]

Stopped == [network |-> FALSE, pipeline |-> <<>>, state |-> "Initial",
            handshake |-> FALSE, idle |-> FALSE, requests |-> {},
            credential |-> "none", broken |-> FALSE, outgoing |-> <<>>]

IsOpen(c)    == c.state = "Open"
IsStarted(c) == c.state \in {"Starting", "Open", "Backoff"}

\* HARD_ASSERT(ok)
Assert_(c, ok) == [c EXCEPT !.broken = @ \/ ~ok]

-----------------------------------------------------------------------------
(* Stream and WriteStream                                                  *)

\* Start from the Initial state: ask for a token.
RequestCredentials(c) ==
  [c EXCEPT !.state = "Starting",
            !.requests = @ \cup {[current |-> TRUE, fresh |-> TRUE]}]

\* Start.  After an error it backs off first.
Start(c) ==
  IF c.state = "Error"
  THEN [c EXCEPT !.state = "Backoff"]
  ELSE RequestCredentials(Assert_(c, c.state = "Initial"))

\* MarkIdle: the timer only runs on an open stream.
MarkIdle(c) == IF IsOpen(c) THEN [c EXCEPT !.idle = TRUE] ELSE c

\* Mutant: the timer is not cancelled.
SendKeepingTimer(c, batches) ==
  IF batches = <<>> THEN c
  ELSE [Assert_(c, IsOpen(c)) EXCEPT !.outgoing = @ \o batches]

\* Write: cancels the timer.
Send(c, batches) ==
  IF batches = <<>> THEN c
  ELSE [Assert_(c, IsOpen(c)) EXCEPT !.idle = FALSE, !.outgoing = @ \o batches]

InhibitBackoff(c) == [Assert_(c, ~IsStarted(c)) EXCEPT !.state = "Initial"]

\* Mutant: close_count_ is not incremented.
TornDownUncounted(c, state) ==
  [c EXCEPT !.idle = FALSE, !.state = state, !.credential = "none", !.outgoing = <<>>]

\* Close up to the notification: cancel the timers, make outstanding token
\* requests obsolete, let go of the RPC.
TornDown(c, state) ==
  [c EXCEPT !.idle = FALSE,
            !.requests = {[r EXCEPT !.current = FALSE] : r \in @},
            !.state = state, !.credential = "none", !.outgoing = <<>>]

\* Mutant: the handshake of the last stream is remembered.
NotifiedOnly(c) == c

\* NotifyStreamClose: the handshake is forgotten after the listener has run.
Notified(c) == [c EXCEPT !.handshake = FALSE]

-----------------------------------------------------------------------------
(* RemoteStore                                                             *)

CanUseNetwork(c) == c.network

ShouldStartWriteStream(c) ==
  CanUseNetwork(c) /\ ~IsStarted(c) /\ c.pipeline # <<>>

StartIfNeeded(c) == IF ShouldStartWriteStream(c) THEN Start(c) ELSE c

\* Mutant: the first of them is passed over.
AfterNext(q, id) ==
  LET n == CHOOSE n \in 0..Len(q) : \A i \in 1..Len(q) : q[i].id > id <=> i > n
  IN  SubSeq(q, n + 2, Len(q))

\* GetNextMutationBatch, repeated: the batches of q after the one with this id.
After(q, id) ==
  LET n == CHOOSE n \in 0..Len(q) : \A i \in 1..Len(q) : q[i].id > id <=> i > n
  IN  SubSeq(q, n + 1, Len(q))

LastId(p) == IF p = <<>> THEN 0 ELSE p[Len(p)].id

Smaller(a, b) == IF a < b THEN a ELSE b

\* The batches FillWritePipeline takes from the queue q.
Room(c)      == IF CanUseNetwork(c) THEN MaxPending - Len(c.pipeline) ELSE 0
Retrieved(c, q) ==
  LET rest == After(q, LastId(c.pipeline))
  IN  SubSeq(rest, 1, Smaller(Room(c), Len(rest)))

\* Mutant: an open stream is used before its handshake is done.
FillBeforeHandshake(c, q) ==
  LET new   == Retrieved(c, q)
      added == [c EXCEPT !.pipeline = @ \o new]
      sent  == IF IsOpen(c) THEN Send(added, new) ELSE added
      idle  == IF CanUseNetwork(c) /\ added.pipeline = <<>> THEN MarkIdle(sent) ELSE sent
  IN  StartIfNeeded(idle)

\* FillWritePipeline: take what there is room for, send it at once when the
\* handshake is done, let the stream idle when there is nothing, start it when
\* there is something.
FillWritePipeline(c, q) ==
  LET new   == Retrieved(c, q)
      added == [c EXCEPT !.pipeline = @ \o new]
      sent  == IF IsOpen(c) /\ c.handshake THEN Send(added, new) ELSE added
      idle  == IF CanUseNetwork(c) /\ added.pipeline = <<>> THEN MarkIdle(sent) ELSE sent
  IN  StartIfNeeded(idle)

\* Stop, and OnWriteStreamClose with an OK status.  Idempotent.
Stop(c) ==
  IF ~IsStarted(c) THEN c
  ELSE LET closed == TornDown(c, "Initial")
       IN  Notified(StartIfNeeded(Assert_(closed, ~ShouldStartWriteStream(closed))))

\* OnStreamFinish with an error that is not the writes' fault: the pipeline
\* stays and the stream is started again, after a backoff.
FinishTransient(c) ==
  Notified(StartIfNeeded(TornDown(Assert_(c, IsStarted(c)), "Error")))

\* OnStreamFinish with a permanent error after the handshake: HandleWriteError
\* takes it for the oldest write's.  q is the queue without that write.
FinishPermanent(c, q) ==
  LET closed == TornDown(Assert_(c, IsStarted(c)), "Error")
      popped == [closed EXCEPT !.pipeline = Tail(@)]
  IN  Notified(StartIfNeeded(FillWritePipeline(InhibitBackoff(popped), q)))

\* ResumeStartWithCredentials with user u's token: the RPC starts, the stream is
\* open and the handshake is sent.
ResumeStart(c, u) ==
  Send([Assert_(c, c.state = "Starting") EXCEPT !.state = "Open", !.credential = u],
       <<Handshake>>)

\* Mutant: the pipeline is sent from its end.
HandshakeCompleteReversed(c) ==
  Send([c EXCEPT !.handshake = TRUE],
       [i \in 1..Len(c.pipeline) |-> c.pipeline[Len(c.pipeline) + 1 - i]])

\* OnWriteStreamHandshakeComplete.
HandshakeComplete(c) == Send([c EXCEPT !.handshake = TRUE], c.pipeline)

\* OnWriteStreamMutationResult: the answer is taken to be the oldest write's.
\* q is the queue without that write.
MutationResult(c, q) ==
  LET ok == c.pipeline # <<>>
  IN  FillWritePipeline([Assert_(c, ok) EXCEPT !.pipeline = IF ok THEN Tail(@) ELSE @], q)

\* Mutant: the timer only ends the error condition.
BackoffElapsedOnly(c) == [c EXCEPT !.state = "Initial"]

\* The backoff timer.
BackoffElapsed(c) == Start([c EXCEPT !.state = "Initial"])

EnableNetwork(c, q) == FillWritePipeline([c EXCEPT !.network = TRUE], q)

\* Mutant: the network is not marked disabled meanwhile.
HandleCredentialChangeEnabled(c, q) ==
  LET disabled == Stop(c)
  IN  EnableNetwork([disabled EXCEPT !.pipeline = <<>>], q)

\* Mutant: the old user's pipeline is kept.
HandleCredentialChangeUncleared(c, q) ==
  EnableNetwork(Stop([c EXCEPT !.network = FALSE]), q)

\* HandleCredentialChange: streams are torn down with the network marked
\* disabled, and started again for the queue q.
HandleCredentialChange(c, q) ==
  LET disabled == Stop([c EXCEPT !.network = FALSE])
  IN  EnableNetwork([disabled EXCEPT !.pipeline = <<>>], q)
=============================================================================
