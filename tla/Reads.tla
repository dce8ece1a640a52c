------------------------------- MODULE Reads --------------------------------
(***************************************************************************)
(* What the survey tab reads from Firestore.  Each tab, when it is loaded, *)
(* asks once for the user's profile and listens to the questions for good. *)
(* Tabs listen through the same client: EventManager keeps the listeners   *)
(* of a query, SyncEngine its view, LocalStore what is known of the        *)
(* documents, RemoteStore (Watch) the one stream for all of them.  A read  *)
(* is answered by the server or, once the client takes itself to be        *)
(* offline, from the cache; it then stops listening, and the next one      *)
(* listens to the same target on the same stream, where answers meant for  *)
(* the one before are still on their way.                                  *)
(*                                                                         *)
(* External: the server, which answers requests in order, sends a target's *)
(* document when it differs from what the token says the client has, then  *)
(* CURRENT, and a snapshot of all targets when it has nothing to add to    *)
(* any; what it denies it denies for as long as the credentials are the    *)
(* same.  It sends no existence filters and resets no target.              *)
(***************************************************************************)
EXTENDS Watch

CONSTANTS
  Profile, Questions,  \* the two targets
  Nothing,             \* no answer, no questions
  MaxTabs,             \* bound: survey tabs loaded
  MaxVersions,         \* bound: versions of the server's documents, together
  MaxTroubles          \* bound: changes of user, broken streams, runs of the online
                       \* timer, failures of the network and recoveries, together

Tabs    == 1..MaxTabs
Targets == {Profile, Questions}

ASSUME TargetsAssumption == Profile # Questions /\ DocumentQueries = {Profile}
ASSUME BoundsAssumption  == MaxTabs \in Nat /\ MaxVersions \in Nat \ {0}

VARIABLES
  tabs,       \* how many tabs have been loaded
  worker,     \* the worker queue
  main,       \* the main queue: events for listeners
  cache,      \* LocalStore: what is known of each document
  token,      \* the resume token of each target, as the version it stands for
  keys,       \* the targets whose document is known to be in them
  current,    \* the targets whose view is current_
  listeners,  \* EventManager: the tabs listening to each query
  raised,     \* the listeners that have raised_initial_event_, by query
  w,          \* RemoteStore's read half
  profile,    \* what each tab's read was told
  questions,  \* the questions each tab shows
  server,     \* the server's documents
  serving,    \* the targets the server has answers for on the open stream
  answers,    \* responses of the open RPC not yet read
  denied,     \* targets the server denies these credentials
  up,         \* there is a network
  asOf,       \* history: the server's version when a read's query was last
              \* asked for
  troubles    \* how many of those there have been

storeVars  == <<cache, token, keys>>
clientVars == <<storeVars, current, listeners, raised, w>>
streamVars == <<serving, answers>>
worldVars  == <<server, denied, up>>
vars == <<tabs, worker, main, clientVars, profile, questions, streamVars, worldVars,
          asOf, troubles>>

Unknown  == NoDocument(0)
Versions == 0..MaxVersions
Contents == [at : Versions, exists : BOOLEAN]

ListenTask(n, t)   == [op |-> "listen", tab |-> n, target |-> t]
RemoveTask(n)      == [op |-> "remove", tab |-> n, target |-> Profile]
Tasks == [op : {"listen", "remove"}, tab : Tabs, target : Targets]

\* An event for a listener: a document, said to be from the cache or not, or an error.
Event(n, t, content, fromCache) ==
  [tab |-> n, target |-> t, content |-> content, fromCache |-> fromCache, ok |-> TRUE]
ErrorEvent(n, t) ==
  [tab |-> n, target |-> t, content |-> Unknown, fromCache |-> TRUE, ok |-> FALSE]
Events == [tab : Tabs, target : Targets, content : Contents, fromCache : BOOLEAN, ok : BOOLEAN]

LastVersion == CHOOSE v \in {server[t].at : t \in Targets} :
                 \A t \in Targets : server[t].at <= v

-----------------------------------------------------------------------------
\* There are questions.  Nothing is known of them yet, nor whether there is a
\* profile, or an earlier process has seen everything.
Init ==
  /\ tabs = 0
  /\ worker = <<>> /\ main = <<>>
  /\ \/ /\ \E e \in BOOLEAN :
             server = [t \in Targets |-> [at |-> 1, exists |-> t = Questions \/ e]]
        /\ cache = [t \in Targets |-> Unknown] /\ token = [t \in Targets |-> 0] /\ keys = {}
     \/ /\ server = [t \in Targets |-> [at |-> 1, exists |-> TRUE]]
        /\ cache = server /\ token = [t \in Targets |-> 1] /\ keys = Targets
  /\ current = {}
  /\ listeners = [t \in Targets |-> {}] /\ raised = [t \in Targets |-> {}]
  /\ w = Nowhere
  /\ profile = [n \in Tabs |-> Nothing] /\ questions = [n \in Tabs |-> Nothing]
  /\ serving = {} /\ answers = <<>>
  /\ denied = {}
  /\ up = TRUE
  /\ asOf = [n \in Tabs |-> 0]
  /\ troubles = 0

-----------------------------------------------------------------------------
(* EventManager, QueryListener and View, on a record e of what a step does *)
(* to them: current, raised, online, events (posted to the main queue)     *)

\* Mutant: offline, only what there is is shown.
ShouldRaiseNonEmpty(t, exists, fromCache, online) ==
  ~fromCache \/ ((t = Questions \/ online = "Offline") /\ exists)

\* A read waits for the server unless the client is offline; the questions are
\* shown from the cache at once when there are any.
ShouldRaiseInitialEvent(t, exists, fromCache, online) ==
  \/ ~fromCache
  \/ online = "Offline"
  \/ t = Questions /\ exists

\* OnViewSnapshot of the listeners ns of t.  changed: the document has changed.
\* Later events are for changes; a read also hears of a changed sync state.
OnViewSnapshot(e, t, ns, content, fromCache, changed) ==
  LET first == IF ShouldRaiseInitialEvent(t, content.exists, fromCache, e.online)
               THEN ns \ e.raised[t] ELSE {}
      later == IF changed \/ t = Profile THEN ns \cap e.raised[t] ELSE {}
      told  == SetToSeq(first \cup later)
  IN  [e EXCEPT !.raised[t] = @ \cup first,
                !.events = @ \o [i \in 1..Len(told) |-> Event(told[i], t, content, fromCache)]]

\* HandleOnlineStateChange of SyncEngine: offline, views stop being current, then
\* EventManager's listeners hear of the state.
HandleOnlineStateChange(e, online) ==
  LET stale   == IF online = "Offline" THEN e.current ELSE {}
      Stale(f, t) == IF t \in stale THEN OnViewSnapshot(f, t, listeners[t], cache[t], TRUE, FALSE)
                     ELSE f
      emitted == Stale(Stale([e EXCEPT !.current = @ \ stale], Profile), Questions)
      waiting(t) == IF ShouldRaiseInitialEvent(t, cache[t].exists, t \notin emitted.current, online)
                    THEN listeners[t] \ emitted.raised[t] ELSE {}
      told(t) == LET s == SetToSeq(waiting(t))
                 IN  [i \in 1..Len(s) |-> Event(s[i], t, cache[t], t \notin emitted.current)]
  IN  IF online = e.online THEN e
      ELSE [emitted EXCEPT !.online = online,
                           !.raised = [t \in Targets |-> @[t] \cup waiting(t)],
                           !.events = @ \o told(Profile) \o told(Questions)]

Effects == [current |-> current, raised |-> raised, online |-> w.online, events |-> <<>>]

\* The step is over: its effects take hold.
Take(e) ==
  \E f \in {e} : /\ current' = f.current
                /\ raised' = f.raised
                /\ main' = main \o f.events

\* What RemoteStore has done is all that changes, with its online state told.
Told == Take(HandleOnlineStateChange(Effects, w'.online))

Trouble == troubles < MaxTroubles /\ troubles' = troubles + 1

-----------------------------------------------------------------------------
(* The application                                                         *)

\* viewDidLoad of the tab.
OpenTab ==
  /\ tabs < MaxTabs
  /\ tabs' = tabs + 1
  /\ worker' = worker \o <<ListenTask(tabs', Profile), ListenTask(tabs', Questions)>>
  /\ UNCHANGED <<main, clientVars, profile, questions, streamVars, worldVars, asOf, troubles>>

\* A listener's event on the main queue.  A read's first one mutes it, removes it
\* and is handed on; its registration can be had only once.  The questions that
\* come are shown, an error is not.
RunEvent ==
  /\ main # <<>>
  /\ LET event == Head(main)
         n     == event.tab
         muted == profile[n] # Nothing /\ profile[n].ok
     IN  IF event.target = Profile
         THEN IF muted THEN UNCHANGED <<profile, questions, worker, w>>
              ELSE /\ profile' = [profile EXCEPT ![n] = event]
                   /\ worker' = IF event.ok THEN Append(worker, RemoveTask(n)) ELSE worker
                   /\ w' = Assert_(w, profile[n] = Nothing)
                   /\ UNCHANGED questions
         ELSE /\ questions' = IF event.ok THEN [questions EXCEPT ![n] = event.content]
                              ELSE questions
              /\ UNCHANGED <<profile, worker, w>>
  /\ main' = Tail(main)
  /\ UNCHANGED <<tabs, storeVars, current, listeners, raised, streamVars, worldVars, asOf, troubles>>

-----------------------------------------------------------------------------
(* The worker queue                                                        *)

\* The RPC is let go; a new one starts from nothing.
Abandon == serving' = {} /\ answers' = <<>>

\* AddQueryListener, with Listen of SyncEngine and RemoteStore for the first
\* listener of a query: its view starts from the cache.
TakeListen ==
  /\ worker # <<>> /\ Head(worker).op = "listen"
  /\ LET n     == Head(worker).tab
         t     == Head(worker).target
         first == listeners[t] = {}
         known == OnViewSnapshot(Effects, t, {n}, cache[t], first \/ t \notin current, TRUE)
     IN  /\ w' = IF first THEN Listen(w, t, token[t]) ELSE w
         /\ listeners' = [listeners EXCEPT ![t] = @ \cup {n}]
         /\ Take(known)
         /\ asOf' = IF t # Profile THEN asOf
                    ELSE [asOf EXCEPT ![n] = IF first THEN server[t].at
                            ELSE asOf[CHOOSE m \in listeners[t] : TRUE]]
  /\ worker' = Tail(worker)
  /\ UNCHANGED <<tabs, storeVars, profile, questions, streamVars, worldVars, troubles>>

\* RemoveQueryListener.  Nobody is left on the query: its view goes, and the
\* target is no longer watched.  A query that was refused is gone already.
TakeRemove ==
  /\ worker # <<>> /\ Head(worker).op = "remove"
  /\ LET n    == Head(worker).tab
         t    == Profile
         rest == listeners[t] \ {n}
     IN  /\ listeners' = [listeners EXCEPT ![t] = rest]
         /\ IF listeners[t] # {} /\ rest = {}
            THEN LET v == StopListening(w, t)
                 IN  /\ w' = v
                     /\ Take(HandleOnlineStateChange([Effects EXCEPT !.current = @ \ {t},
                                                                     !.raised[t] = {}], v.online))
            ELSE /\ raised' = [raised EXCEPT ![t] = @ \ {n}]
                 /\ UNCHANGED <<w, current, main>>
  /\ worker' = Tail(worker)
  /\ UNCHANGED <<tabs, storeVars, profile, questions, streamVars, worldVars, asOf, troubles>>

\* FirebaseAuth's notification of a user, with its way through the queues.  The new
\* user's stream may be denied what the old one's was not.
HandleCredential ==
  /\ Trouble
  /\ w' = HandleCredentialChange(w) /\ Told
  /\ Abandon
  /\ denied' \in {{}, Targets}
  /\ UNCHANGED <<tabs, worker, storeVars, listeners, profile, questions, server, up, asOf>>

\* What the stream does next.
Opens   == /\ w.state = "Starting"
           /\ \E order \in SetToSeqs(w.listens) : w' = OnWatchStreamOpen(w, order, token)
Retries == w.state = "Backoff" /\ w' = [w EXCEPT !.state = "Starting"]
Ends    == w.state \in {"Starting", "Open"} /\ w' = Break(w)

\* OnWatchStreamOpen.
StreamOpens ==
  /\ Opens /\ Told
  /\ UNCHANGED <<tabs, worker, storeVars, listeners, profile, questions, streamVars, worldVars,
                 asOf, troubles>>

\* The wait after an error is over.
BackoffElapses ==
  /\ Retries /\ Told
  /\ UNCHANGED <<tabs, worker, storeVars, listeners, profile, questions, streamVars, worldVars,
                 asOf, troubles>>

\* A stream that takes long to open: the client takes itself to be offline.
RunOnlineTimer ==
  /\ w.timer
  /\ Trouble
  /\ w' = TimeOut(w) /\ Told
  /\ UNCHANGED <<tabs, worker, storeVars, listeners, profile, questions, streamVars, worldVars, asOf>>

\* Nobody has listened for a minute.
RunIdleTimer ==
  /\ w.idle
  /\ w' = Stop(w, TRUE) /\ Told
  /\ Abandon
  /\ UNCHANGED <<tabs, worker, storeVars, listeners, profile, questions, worldVars, asOf, troubles>>

\* LocalStore::ApplyRemoteEvent: a document is taken when it is newer.
Newer(content, known) == IF content.at > known.at THEN content ELSE known

\* ApplyChanges of the view of t, after the store: its listeners hear of a changed
\* document or sync state.
ApplyChanges(e, t) ==
  LET was     == cache[t]
      is      == cache'[t]
      changed == was.exists # is.exists \/ (is.exists /\ was.at # is.at)
  IN  IF listeners[t] # {} /\ (changed \/ (t \in e.current) # (t \in current))
      THEN OnViewSnapshot(e, t, listeners[t], is, t \notin e.current, changed)
      ELSE e

\* RaiseWatchSnapshot, with ApplyRemoteEvent of SyncEngine and LocalStore.  No
\* document may be in limbo: known, and not part of a current result.
RaiseWatchSnapshot(online, e, version) ==
  \E v \in {HandleNoChange(online, version)} : \E event \in {RemoteEvent(v, version, keys)} :
    LET changed == DOMAIN event.changes
        Of(change) == {t \in changed : event.changes[t].change = change}
        views   == {t \in Targets : listeners[t] # {}}
        now     == {t \in views : IF t \in changed THEN event.changes[t].current ELSE t \in current}
        limbo   == {t \in now : cache'[t].exists /\ t \notin keys'}
    IN  /\ keys' = (keys \ Of("removed")) \cup Of("added")
        /\ token' = [t \in Targets |-> IF t \in changed /\ event.changes[t].token # 0
                                       THEN event.changes[t].token ELSE token[t]]
        /\ cache' = [t \in Targets |-> IF t \in DOMAIN event.updates
                                       THEN Newer(event.updates[t], cache[t]) ELSE cache[t]]
        /\ Take(ApplyChanges(ApplyChanges([e EXCEPT !.current = now], Profile), Questions))
        /\ w' = Assert_(AfterRemoteEvent(v, version, keys), Of("modified") \subseteq keys /\ limbo = {})

\* HandleRejectedListen: the view and every listener of the query go.
RejectListen(v, e, t) ==
  LET told == SetToSeq(listeners[t])
  IN  /\ w' = RemoveTarget(v, t)
      /\ listeners' = [listeners EXCEPT ![t] = {}]
      /\ Take([e EXCEPT !.current = @ \ {t}, !.raised[t] = {},
                        !.events = @ \o [i \in 1..Len(told) |-> ErrorEvent(told[i], t)]])

\* OnWatchStreamChange: there is a connection; then by the kind of message.
ReadAnswer ==
  /\ answers # <<>>
  /\ \E m \in {Head(answers)}, v \in {UpdateState(w, "Online")},
        e \in {HandleOnlineStateChange(Effects, "Online")} :
         \/ /\ m.op \in {"added", "removed", "current", "document"}
            /\ w' = CASE m.op = "added"    -> HandleAdded(v, m.target)
                      [] m.op = "removed"  -> HandleRemoved(v, m.target)
                      [] m.op = "current"  -> HandleCurrent(v, m.target)
                      [] m.op = "document" -> HandleDocumentChange(v, m.target, m.content, keys)
            /\ Take(e)
            /\ UNCHANGED <<storeVars, listeners>>
         \/ /\ m.op = "snapshot"
            /\ RaiseWatchSnapshot(v, e, m.version)
            /\ UNCHANGED listeners
         \/ /\ m.op = "refused"
            /\ IF m.target \in w.listens THEN RejectListen(v, e, m.target)
               ELSE w' = v /\ Take(e) /\ UNCHANGED listeners
            /\ UNCHANGED storeVars
  /\ answers' = Tail(answers)
  /\ UNCHANGED <<tabs, worker, profile, questions, serving, worldVars, asOf, troubles>>

-----------------------------------------------------------------------------
(* The server and the network                                              *)

Document(t) == [op |-> "document", target |-> t, content |-> server'[t]]
Snapshot    == [op |-> "snapshot", version |-> LastVersion']

\* The server answers a request.  The document is sent unless the token covers it;
\* nothing is said of a document that is not there to somebody who never saw it.
Takes == up /\ IsOpen(w) /\ w.outgoing # <<>> /\ w' = [w EXCEPT !.outgoing = Tail(@)]

Serve ==
  /\ Takes
  /\ UNCHANGED server
  /\ LET r    == Head(w.outgoing)
         t    == r.target
         news == server[t].at > r.token /\ (r.token # 0 \/ server[t].exists)
     IN  \/ /\ r.op = "unwatch"
            /\ serving' = serving \ {t}
            /\ answers' = Append(answers, [op |-> "removed", target |-> t])
         \/ /\ r.op = "watch" /\ t \in denied
            /\ answers' = Append(answers, [op |-> "refused", target |-> t])
            /\ UNCHANGED serving
         \/ /\ r.op = "watch" /\ t \notin denied
            /\ serving' = serving \cup {t}
            /\ answers' = answers \o <<[op |-> "added", target |-> t]>>
                          \o (IF news THEN <<Document(t)>> ELSE <<>>)
                          \o <<[op |-> "current", target |-> t], Snapshot>>
  /\ UNCHANGED <<tabs, worker, main, storeVars, current, listeners, raised, profile, questions,
                 denied, up, asOf, troubles>>

\* Somebody creates, changes or deletes a document, and who watches it hears of it.
Change(t) ==
  /\ LastVersion < MaxVersions
  /\ \E e \in BOOLEAN : /\ server[t].exists \/ e
                        /\ server' = [server EXCEPT ![t] = [at |-> LastVersion + 1, exists |-> e]]
  /\ answers' = IF t \in serving THEN answers \o <<Document(t), Snapshot>> ELSE answers
  /\ UNCHANGED <<tabs, worker, main, clientVars, profile, questions, serving, denied, up,
                 asOf, troubles>>

\* OnWatchStreamClose with an error; what the RPC carried is lost.
StreamEnds ==
  /\ Ends /\ Told
  /\ Abandon
  /\ UNCHANGED <<tabs, worker, storeVars, listeners, profile, questions, server, denied, asOf>>

\* Without a network every stream ends.
NoNetwork == ~up /\ StreamEnds /\ UNCHANGED <<up, troubles>>

\* A stream ends though there is a network.
StreamBreaks == up /\ Trouble /\ StreamEnds /\ UNCHANGED up

\* The network goes, with the stream, or comes back.
NetworkChanges ==
  /\ Trouble
  /\ up' = ~up
  /\ IF up /\ w.state \in {"Starting", "Open"} THEN StreamEnds
     ELSE UNCHANGED <<tabs, worker, main, clientVars, profile, questions, streamVars, server,
                      denied, asOf>>

-----------------------------------------------------------------------------
Task == TakeListen \/ TakeRemove

Next ==
  \/ OpenTab \/ RunEvent
  \/ Task \/ ReadAnswer
  \/ StreamOpens \/ BackoffElapses \/ RunOnlineTimer \/ RunIdleTimer
  \/ Serve \/ NoNetwork
  \/ \E t \in Targets : Change(t)
  \/ HandleCredential \/ StreamBreaks \/ NetworkChanges

Spec == Init /\ [][Next]_vars

\* The two dispatch queues go on.  A stream that is started opens or ends, a wait
\* for a retry elapses; while there is a network an open stream carries requests
\* and responses, and without one it ends.  Nothing is assumed of the timers for
\* idleness and for the online state.
Runs(q) == q # <<>> /\ q' = Tail(q)

Fairness ==
  /\ WF_worker(Runs(worker)) /\ WF_main(Runs(main)) /\ WF_answers(Runs(answers))
  /\ WF_w(Opens) /\ WF_w(Retries) /\ WF_w(Takes) /\ WF_w(~up /\ Ends)

FairSpec == Spec /\ Fairness

-----------------------------------------------------------------------------
\* Every variable has its type, and what stands for one RPC (the requests on their
\* way, the aggregator's targets and documents) is there only while its stream is
\* open: CleanUpWatchStreamState, remote_store.cc:200-202.
TypeOK ==
  /\ tabs \in 0..MaxTabs
  /\ worker \in Seq(Tasks) /\ main \in Seq(Events)
  /\ cache \in [Targets -> Contents] /\ token \in [Targets -> Versions]
  /\ keys \subseteq Targets /\ current \subseteq Targets
  /\ listeners \in [Targets -> SUBSET Tabs] /\ raised \in [Targets -> SUBSET Tabs]
  /\ w.listens \subseteq Targets
  /\ w.state \in {"Initial", "Starting", "Open", "Error", "Backoff"}
  /\ w.online \in {"Unknown", "Online", "Offline"}
  /\ DOMAIN w.updates \subseteq Targets /\ DOMAIN w.states \subseteq Targets
  /\ \A t \in DOMAIN w.states : w.states[t].outstanding \in Int
  /\ IsOpen(w) \/ (w.outgoing = <<>> /\ DOMAIN w.states = {} /\ DOMAIN w.updates = {})
  /\ profile \in [Tabs -> Events \cup {Nothing}]
  /\ questions \in [Tabs -> Contents \cup {Nothing}]
  /\ server \in [Targets -> Contents]
  /\ asOf \in [Tabs -> Versions]

\* No HARD_ASSERT of the read path fails, whatever order tasks, messages, timers and
\* changes of user come in: a request only on an open stream (stream.cc:307-314), the
\* online timer started and run only in the state it was made for
\* (online_state_tracker.cc:62, 68, 88, 90), no target given up that is not there and
\* no stream closed while it is needed (remote_store.cc:152, 215), a modified document
\* known to the view (view.cc:362).  A read's registration is handed over only once
\* (document_reference.cc:141), and no document is ever in limbo (view.cc:374-405),
\* which this model leaves out.
NoAssertionFails == ~w.broken

\* Requests of t that are not answered yet, on their way to the server or back.
Unanswered(t) ==
  Cardinality({i \in 1..Len(w.outgoing) : w.outgoing[i].target = t})
  + Cardinality({i \in 1..Len(answers) : answers[i].op \in {"added", "removed"}
                                         /\ answers[i].target = t})

\* The aggregator counts exactly the requests that have not been answered
\* (remote_event.h:169-172), so it knows which responses are for a listen that is
\* over.  A refusal is not a response it counts (ProcessTargetError,
\* remote_store.cc:333-345): of a target that is denied the number may be off.
OutstandingResponsesMatch ==
  \A t \in Targets \ denied :
    IsOpen(w) => TargetState(w, t).outstanding = Unanswered(t)

\* A resume token never claims more than the cache has: where the token of a target
\* covers the server's version, a later listen is sent nothing, so the cache must
\* have the document already (local_store.cc:241-328, remote_event.cc:249-320).
NothingIsMissed ==
  \A t \in Targets :
    token[t] >= server[t].at =>
      /\ cache[t].exists = server[t].exists
      /\ server[t].exists => cache[t].at >= server[t].at

\* A read that was answered and is not marked as from the cache has the document at
\* least as new as when its query was asked for: answers still due to the reader
\* before it are not taken for its own (document_reference.cc:112-187).
ReadIsFresh ==
  \A n \in Tabs :
    profile[n] # Nothing /\ profile[n].ok /\ ~profile[n].fromCache
      => profile[n].content.at >= asOf[n]

\* Every tab's getUserProfile is called back in the end, with a profile or an error
\* (FirstViewController.swift:28-37), also when streams break, the user changes or
\* the network is gone for good.
EveryReadIsAnswered == \A n \in Tabs : n <= tabs ~> profile[n] # Nothing

\* The tab shows the questions the server has.
Shown(n) == questions[n] # Nothing /\ questions[n].exists = server[Questions].exists
            /\ (server[Questions].exists => questions[n].at = server[Questions].at)

\* While there is a network, a tab whose listener was not refused comes to show the
\* questions the server has, after whatever broke (FirstViewController.swift:44-48).
QuestionsCatchUp ==
  \A n \in Tabs :
    [](n \in listeners[Questions] /\ up => <>(~up \/ n \notin listeners[Questions] \/ Shown(n)))
=============================================================================
