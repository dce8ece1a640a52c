------------------------------- MODULE Watch --------------------------------
(***************************************************************************)
(* The read half of Firestore's RemoteStore with its WatchStream, its      *)
(* OnlineStateTracker and its WatchChangeAggregator, as operators on a     *)
(* record w:                                                               *)
(*   listens   the targets of listen_targets_                              *)
(*   state     Stream::state_                                              *)
(*   idle      the idleness timer is running                               *)
(*   outgoing  requests handed to the RPC, in order                        *)
(*   states    target_states_, a function on the targets it has            *)
(*   updates   pending_document_updates_, likewise                         *)
(*   online    OnlineStateTracker::state_                                  *)
(*   failing   watch_stream_failures_ is not zero                          *)
(*   timer     the online state timer is running                           *)
(*   broken    a HARD_ASSERT has failed                                    *)
(* A target has one document, named like it: a query for a document has    *)
(* it anyway, and of a collection only what it comes to matters here.      *)
(* Content is [at, exists], at the version; a document nothing is known of *)
(* has version 0.                                                          *)
(***************************************************************************)
EXTENDS Naturals, Integers, Sequences, FiniteSets, Functions, SequencesExt

CONSTANT DocumentQueries     \* the targets whose query is for a document

NoChanges == [outstanding |-> 0, pending |-> FALSE, change |-> "none",
              current |-> FALSE, token |-> 0]

Nowhere == [listens |-> {}, state |-> "Initial", idle |-> FALSE, outgoing |-> <<>>,
            states |-> <<>>, updates |-> <<>>, online |-> "Unknown",
            failing |-> FALSE, timer |-> FALSE, broken |-> FALSE]

NoDocument(version) == [at |-> version, exists |-> FALSE]

WatchRequest(t, token) == [op |-> "watch", target |-> t, token |-> token]
UnwatchRequest(t)      == [op |-> "unwatch", target |-> t]

IsOpen(w)    == w.state = "Open"
IsStarted(w) == w.state \in {"Starting", "Open", "Backoff"}

\* HARD_ASSERT(ok): what fails is remembered, and the process would be gone.
Assert_(w, ok) == [w EXCEPT !.broken = @ \/ ~ok]

-----------------------------------------------------------------------------
(* OnlineStateTracker                                                      *)

\* Mutant: the timer goes on.
UpdateStateTicking(w, online) == [w EXCEPT !.online = online, !.failing = FALSE]

\* A state learned otherwise: the count of failures and the timer start over.
UpdateState(w, online) ==
  [w EXCEPT !.online = online, !.failing = FALSE, !.timer = FALSE]

\* A first attempt is given ten seconds before the client takes itself to be offline.
HandleWatchStreamStart(w) ==
  IF w.failing THEN w
  ELSE [Assert_(w, ~w.timer) EXCEPT !.online = "Unknown", !.timer = TRUE]

\* With kMaxWatchStreamFailures = 1 the count matters only as zero or not.
HandleWatchStreamFailure(w) ==
  IF w.online = "Online"
  THEN [Assert_(w, ~w.failing /\ ~w.timer) EXCEPT !.online = "Unknown"]
  ELSE [w EXCEPT !.failing = TRUE, !.timer = FALSE, !.online = "Offline"]

\* The online state timer.
TimeOut(w) == [Assert_(w, w.online = "Unknown") EXCEPT !.timer = FALSE, !.online = "Offline"]

-----------------------------------------------------------------------------
(* Stream, and RemoteStore's use of it                                     *)

\* The state of a target, made when there is none.
TargetState(w, t) == IF t \in DOMAIN w.states THEN w.states[t] ELSE NoChanges

\* f with y for x.
Put(f, x, y) == [z \in DOMAIN f \cup {x} |-> IF z = x THEN y ELSE f[z]]

SetTargetState(w, t, s) == [w EXCEPT !.states = Put(@, t, s)]

RecordPendingTargetRequest(w, t) ==
  SetTargetState(w, t, [TargetState(w, t) EXCEPT !.outstanding = @ + 1])

\* Mutant: only a watch is waited for.
SendUnrecorded(w, request) ==
  LET recorded == IF request.op = "unwatch" THEN w
                  ELSE RecordPendingTargetRequest(w, request.target)
  IN  [Assert_(recorded, IsOpen(w)) EXCEPT !.idle = FALSE, !.outgoing = Append(@, request)]

\* SendWatchRequest and SendUnwatchRequest.
Send(w, request) ==
  [Assert_(RecordPendingTargetRequest(w, request.target), IsOpen(w))
     EXCEPT !.idle = FALSE, !.outgoing = Append(@, request)]

ShouldStartWatchStream(w) == ~IsStarted(w) /\ w.listens # {}

\* A new aggregator, the stream (after an error it backs off first), the tracker.
StartWatchStream(w) ==
  HandleWatchStreamStart(
    [w EXCEPT !.states = <<>>, !.updates = <<>>,
              !.state = IF @ = "Error" THEN "Backoff" ELSE "Starting"])

\* The stream is started for the first target; an open one is asked at once, and
\* one that is starting asks for every target when it opens.
Listen(w, t, token) ==
  IF t \in w.listens THEN w
  ELSE LET added == [w EXCEPT !.listens = @ \cup {t}]
       IN  IF ShouldStartWatchStream(added) THEN StartWatchStream(added)
           ELSE IF IsOpen(w) THEN Send(added, WatchRequest(t, token))
           ELSE added

\* The last target gone, an open stream may idle; otherwise nobody knows any more
\* whether there is a connection.
StopListening(w, t) ==
  LET removed == [Assert_(w, t \in w.listens) EXCEPT !.listens = @ \ {t}]
      told    == IF IsOpen(w) THEN Send(removed, UnwatchRequest(t)) ELSE removed
  IN  IF told.listens # {} THEN told
      ELSE IF IsOpen(w) THEN [told EXCEPT !.idle = TRUE]
      ELSE UpdateState(told, "Unknown")

\* Mutant: only a new listener's request is sent.
OnWatchStreamOpenBare(w, order, token) == [w EXCEPT !.state = "Open"]

\* Every target is asked for again, in the order its table has.
OnWatchStreamOpen(w, order, token) ==
  [w EXCEPT !.state = "Open",
            !.outgoing = @ \o [i \in DOMAIN order |-> WatchRequest(order[i], token[order[i]])],
            !.states = [t \in DOMAIN @ \cup ToSet(order) |->
                          IF t \in ToSet(order)
                          THEN [TargetState(w, t) EXCEPT !.outstanding = @ + 1] ELSE @[t]]]

\* Mutant: what the aggregator knows survives the stream.
TornDownRemembering(w, state) ==
  [w EXCEPT !.state = state, !.idle = FALSE, !.outgoing = <<>>]

\* Close, up to the notification, and CleanUpWatchStreamState.
TornDown(w, state) ==
  [w EXCEPT !.state = state, !.idle = FALSE, !.outgoing = <<>>,
            !.states = <<>>, !.updates = <<>>]

\* Stop, and OnWatchStreamClose with an OK status.  needed: the network is
\* enabled, so that listens would need the stream.
Stop(w, needed) ==
  IF ~IsStarted(w) THEN w
  ELSE UpdateState(Assert_(TornDown(w, "Initial"), ~(needed /\ w.listens # {})), "Unknown")

\* OnWatchStreamClose with an error.
Break(w) ==
  LET closed == TornDown(w, "Error")
  IN  IF closed.listens # {} THEN StartWatchStream(HandleWatchStreamFailure(closed))
      ELSE UpdateState(closed, "Unknown")

\* HandleCredentialChange: streams are torn down with the network marked disabled.
HandleCredentialChange(w) ==
  LET disabled == UpdateState([Stop(w, FALSE) EXCEPT !.states = <<>>, !.updates = <<>>], "Unknown")
  IN  IF ShouldStartWatchStream(disabled) THEN StartWatchStream(disabled)
      ELSE UpdateState(disabled, "Unknown")

-----------------------------------------------------------------------------
(* WatchChangeAggregator.  keys: the targets whose document the view takes *)
(* to be part of the server's result.                                      *)

\* Mutant: responses that are still due do not matter.
IsActiveAnyway(w, t) == t \in w.listens

\* A target somebody listens to, all of whose requests are answered.
IsActiveTarget(w, t) == t \in w.listens /\ TargetState(w, t).outstanding = 0

AddDocumentChange(w, t, change) ==
  SetTargetState(w, t, [TargetState(w, t) EXCEPT !.pending = TRUE, !.change = change])

\* AddDocumentToTarget and RemoveDocumentFromTarget.  A document that was never
\* in the target just loses its change.
HandleDocumentChange(w, t, content, keys) ==
  LET change == IF content.exists
                THEN IF t \in keys THEN "modified" ELSE "added"
                ELSE IF t \in keys THEN "removed" ELSE "none"
  IN  IF ~IsActiveTarget(w, t) THEN w
      ELSE [AddDocumentChange(w, t, change) EXCEPT !.updates = Put(@, t, content)]

\* HandleTargetChange, by the state of the change.
HandleRemoved(w, t) ==
  LET left == TargetState(w, t).outstanding - 1
  IN  IF left # 0 THEN SetTargetState(w, t, [TargetState(w, t) EXCEPT !.outstanding = left])
      ELSE [w EXCEPT !.states = Restrict(@, DOMAIN @ \ {t})]

\* The last response due clears what is pending, and only that.
HandleAdded(w, t) ==
  LET left    == TargetState(w, t).outstanding - 1
      counted == [TargetState(w, t) EXCEPT !.outstanding = left]
  IN  SetTargetState(w, t, IF left # 0 THEN counted
                           ELSE [counted EXCEPT !.pending = FALSE, !.change = "none"])

HandleCurrent(w, t) ==
  LET s == TargetState(w, t)
  IN  IF IsActiveTarget(w, t)
      THEN SetTargetState(w, t, [s EXCEPT !.pending = TRUE, !.current = TRUE])
      ELSE SetTargetState(w, t, s)

\* A token for every target there is.
HandleNoChange(w, token) ==
  [w EXCEPT !.states =
     [t \in DOMAIN @ |-> IF IsActiveTarget(w, t)
                         THEN [@[t] EXCEPT !.pending = TRUE, !.token = token]
                         ELSE @[t]]]

Active(w) == {t \in DOMAIN w.states : IsActiveTarget(w, t)}

\* A current query for a document nobody has sent: the document is not there.
Synthesized(w, version, keys) ==
  LET missing == {t \in Active(w) : /\ w.states[t].current /\ t \in DocumentQueries
                                    /\ t \notin DOMAIN w.updates /\ t \notin keys}
  IN  [w EXCEPT !.states  = [t \in DOMAIN @ |-> IF t \in missing
                               THEN [@[t] EXCEPT !.pending = TRUE, !.change = "none"]
                               ELSE @[t]],
                !.updates = [t \in DOMAIN @ \cup missing |->
                               IF t \in missing THEN NoDocument(version) ELSE @[t]]]

\* CreateRemoteEvent: the event, and what is left.
RemoteEvent(w, version, keys) ==
  LET s == Synthesized(w, version, keys)
  IN  [changes |-> Restrict(s.states, {t \in Active(s) : s.states[t].pending}),
       updates |-> s.updates]

AfterRemoteEvent(w, version, keys) ==
  LET s == Synthesized(w, version, keys)
  IN  [s EXCEPT !.states = [t \in DOMAIN @ |-> IF t \in Active(s)
                              THEN [@[t] EXCEPT !.pending = FALSE, !.change = "none"]
                              ELSE @[t]],
                !.updates = <<>>]

\* ProcessTargetError, for a target still listened to.
RemoveTarget(w, t) ==
  [w EXCEPT !.listens = @ \ {t}, !.states = Restrict(@, DOMAIN @ \ {t})]
=============================================================================
