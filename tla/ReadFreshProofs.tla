--------------------------- MODULE ReadFreshProofs ---------------------------
(***************************************************************************)
(* More proofs about Reads: that every variable has its type, what the     *)
(* listeners of a query are told, that a profile read from the server is   *)
(* as new as when its query was asked for, and that no assertion fails.    *)
(***************************************************************************)
EXTENDS ReadsProofs

(***************************************************************************)
(* What listeners are told.                                                *)
(***************************************************************************)

Onlines == {"Unknown", "Online", "Offline"}
States  == {"Initial", "Starting", "Open", "Error", "Backoff"}

LEMMA TargetsAre == Targets = {Profile, Questions} /\ Profile \in Targets /\ Questions \in Targets
                    /\ Profile # Questions
  BY TargetsAssumption DEF Targets

\* Listeners are finitely many.
LEMMA ListenersAreFinite ==
    ASSUME NEW ns \in SUBSET Tabs
    PROVE  IsFiniteSet(ns)
<1>1. IsFiniteSet(1..MaxTabs)
  BY BoundsAssumption, FS_Interval
<1>2. QED
  BY <1>1, FS_Subset DEF Tabs

\* A finite set, put in a sequence.
LEMMA SetAsSeq ==
    ASSUME NEW S, IsFiniteSet(S)
    PROVE  /\ SetToSeq(S) \in [1..Cardinality(S) -> S] /\ Cardinality(S) \in Nat
           /\ IsInjective(SetToSeq(S))
<1>1. Cardinality(S) \in Nat /\ ExistsBijection(1..Cardinality(S), S)
  BY FS_CardinalityType
<1>2. PICK f : f \in [1..Cardinality(S) -> S] /\ IsInjective(f)
  BY <1>1 DEF ExistsBijection, Bijection, Injection, IsInjective
<1>3. QED
  BY <1>1, <1>2 DEF SetToSeq

\* The sequence of a finite set has its members.
LEMMA MappedSeq ==
    ASSUME NEW S, IsFiniteSet(S), NEW s, s = SetToSeq(S)
    PROVE  Len(s) \in Nat /\ \A i \in 1..Len(s) : s[i] \in S
<1>1. PICK n \in Nat : s \in [1..n -> S]
  BY SetAsSeq
<1>2. Len(s) = n
  BY <1>1
<1>3. QED
  BY <1>1, <1>2

\* Events of a kind for all of some listeners.
LEMMA EventsForAll ==
    ASSUME NEW ns \in SUBSET Tabs, NEW E, NEW t, NEW content, NEW fromCache,
           \A n \in ns : Event(n, t, content, fromCache) \in E,
           NEW s, s = SetToSeq(ns)
    PROVE  [i \in 1..Len(s) |-> Event(s[i], t, content, fromCache)] \in Seq(E)
<1>1. Len(s) \in Nat /\ \A i \in 1..Len(s) : s[i] \in ns
  BY MappedSeq, ListenersAreFinite
<1>2. \A i \in 1..Len(s) : Event(s[i], t, content, fromCache) \in E
  BY <1>1
<1>3. QED
  BY <1>1, <1>2

\* Errors for all of some listeners.
LEMMA ErrorsForAll ==
    ASSUME NEW ns \in SUBSET Tabs, NEW E, NEW t,
           \A n \in ns : ErrorEvent(n, t) \in E, NEW s, s = SetToSeq(ns)
    PROVE  [i \in 1..Len(s) |-> ErrorEvent(s[i], t)] \in Seq(E)
<1>1. Len(s) \in Nat /\ \A i \in 1..Len(s) : s[i] \in ns
  BY MappedSeq, ListenersAreFinite
<1>2. \A i \in 1..Len(s) : ErrorEvent(s[i], t) \in E
  BY <1>1
<1>3. QED
  BY <1>1, <1>2

\* The effects of a step, whose events are in E.
EffectsIn(E) == [current : SUBSET Targets, raised : [Targets -> SUBSET Tabs],
                 online : Onlines, events : Seq(E)]

\* Events of a kind, added to the effects.
LEMMA EventsAdded ==
    ASSUME NEW E, NEW e \in EffectsIn(E), NEW s \in Seq(E)
    PROVE  e.events \o s \in Seq(E)
  BY DEF EffectsIn

\* QueryListener: of a view's content only events for its listeners come.
LEMMA ViewShown ==
    ASSUME NEW E, NEW e \in EffectsIn(E), NEW t \in Targets, NEW ns \in SUBSET Tabs,
           NEW content, NEW fromCache, NEW changed,
           \A n \in ns : Event(n, t, content, fromCache) \in E,
           NEW f, f = OnViewSnapshot(e, t, ns, content, fromCache, changed)
    PROVE  f \in EffectsIn(E) /\ f.current = e.current /\ f.online = e.online
<1> DEFINE first == IF ShouldRaiseInitialEvent(t, content.exists, fromCache, e.online)
                    THEN ns \ e.raised[t] ELSE {}
           later == IF changed \/ t = Profile THEN ns \cap e.raised[t] ELSE {}
           told  == SetToSeq(first \cup later)
           s     == [i \in 1..Len(told) |-> Event(told[i], t, content, fromCache)]
           r     == [e.raised EXCEPT ![t] = @ \cup first]
<1>1. OnViewSnapshot(e, t, ns, content, fromCache, changed) = [e EXCEPT !.raised = r, !.events = @ \o s]
  BY DEF OnViewSnapshot, EffectsIn
<1>2. first \in SUBSET Tabs /\ first \cup later \in SUBSET Tabs /\ first \cup later \subseteq ns
  OBVIOUS
<1>3. r \in [Targets -> SUBSET Tabs]
  BY <1>2 DEF EffectsIn
<1>4. s \in Seq(E)
  BY <1>2, EventsForAll
<1> DEFINE added == e.events \o s
<1>5. added \in Seq(E)
  BY <1>4, EventsAdded
<1> HIDE DEF r, s
<1>6. f = [e EXCEPT !.raised = r, !.events = added]
  BY <1>1 DEF EffectsIn
<1> HIDE DEF added
<1>7. f \in EffectsIn(E) /\ f.current = e.current /\ f.online = e.online
  BY <1>3, <1>5, <1>6 DEF EffectsIn
<1>8. QED
  BY <1>7

Listened == listeners \in [Targets -> SUBSET Tabs]

\* SyncEngine and EventManager, told of the online state.
LEMMA OnlineStateShown ==
    ASSUME Listened, NEW E, NEW e \in EffectsIn(E), NEW online \in Onlines,
           \A t \in Targets : \A n \in listeners[t] :
              /\ Event(n, t, cache[t], TRUE) \in E
              /\ t \in e.current => Event(n, t, cache[t], FALSE) \in E,
           NEW f, f = HandleOnlineStateChange(e, online)
    PROVE  f \in EffectsIn(E) /\ f.current \subseteq e.current
<1> DEFINE stale == IF online = "Offline" THEN e.current ELSE {}
           Stale(g, t) == IF t \in stale
                          THEN OnViewSnapshot(g, t, listeners[t], cache[t], TRUE, FALSE) ELSE g
           e1 == [e EXCEPT !.current = @ \ stale]
           e2 == Stale(e1, Profile)
           e3 == Stale(e2, Questions)
           waiting(t) == IF ShouldRaiseInitialEvent(t, cache[t].exists, t \notin e3.current, online)
                         THEN listeners[t] \ e3.raised[t] ELSE {}
           told(t) == LET s == SetToSeq(waiting(t))
                      IN  [i \in 1..Len(s) |-> Event(s[i], t, cache[t], t \notin e3.current)]
           r == [t \in Targets |-> e3.raised[t] \cup waiting(t)]
           more == told(Profile) \o told(Questions)
           added == e3.events \o more
<1>1. CASE online = e.online
  BY <1>1 DEF HandleOnlineStateChange
<1>2. CASE online # e.online
  <2>1. e1 \in EffectsIn(E) /\ e1.current \subseteq e.current
    BY DEF EffectsIn
  <2> HIDE DEF e1, stale
  <2>2. ASSUME NEW g \in EffectsIn(E), NEW t \in Targets
        PROVE  Stale(g, t) \in EffectsIn(E) /\ Stale(g, t).current = g.current
    <3>1. listeners[t] \in SUBSET Tabs
      BY DEF Listened
    <3>2. PICK yes : yes = TRUE
      OBVIOUS
    <3>3. PICK no : no = FALSE
      OBVIOUS
    <3>4. \A n \in listeners[t] : Event(n, t, cache[t], yes) \in E
      BY <3>2
    <3>5. PICK h : h = OnViewSnapshot(g, t, listeners[t], cache[t], yes, no)
      OBVIOUS
    <3>6. h \in EffectsIn(E) /\ h.current = g.current
      BY <3>1, <3>4, <3>5, ViewShown
    <3>7. QED
      BY <3>2, <3>3, <3>5, <3>6
  <2>3. e2 \in EffectsIn(E) /\ e2.current = e1.current
    BY <2>1, <2>2, TargetsAre
  <2> HIDE DEF e2
  <2>4. e3 \in EffectsIn(E) /\ e3.current = e1.current
    BY <2>2, <2>3, TargetsAre
  <2>5. f = [e3 EXCEPT !.online = online, !.raised = [t \in Targets |-> @[t] \cup waiting(t)],
                       !.events = @ \o told(Profile) \o told(Questions)]
    BY <1>2 DEF HandleOnlineStateChange, stale, e1, e2
  <2> HIDE DEF e3
  <2>6. ASSUME NEW t \in Targets PROVE waiting(t) \in SUBSET Tabs /\ told(t) \in Seq(E)
    <3>1. waiting(t) \in SUBSET Tabs /\ waiting(t) \subseteq listeners[t]
      BY DEF Listened
    <3>2. \A n \in waiting(t) : Event(n, t, cache[t], t \notin e3.current) \in E
      <4>1. CASE t \in e3.current
        BY <2>1, <2>4, <3>1, <4>1
      <4>2. CASE t \notin e3.current
        BY <3>1, <4>2
      <4>3. QED
        BY <4>1, <4>2
    <3> HIDE DEF waiting
    <3>3. QED
      BY <3>1, <3>2, EventsForAll
  <2>7. r \in [Targets -> SUBSET Tabs]
    BY <2>4, <2>6 DEF EffectsIn
  <2>8. told(Profile) \in Seq(E) /\ told(Questions) \in Seq(E)
    BY <2>6, TargetsAre
  <2> DEFINE p == told(Profile)
             q == told(Questions)
             ev == e3.events \o p \o q
  <2>9. ev \in Seq(E)
    <3>1. e3.events \in Seq(E)
      BY <2>4 DEF EffectsIn
    <3> HIDE DEF told
    <3>2. QED
      BY <2>8, <3>1
  <2> HIDE DEF waiting, told
  <2>10. f = [e3 EXCEPT !.online = online, !.raised = r, !.events = ev]
    BY <2>4, <2>5 DEF EffectsIn
  <2> HIDE DEF r, ev
  <2>11. f \in EffectsIn(E) /\ f.current = e3.current
    BY <2>4, <2>7, <2>9, <2>10 DEF EffectsIn
  <2>12. QED
    BY <2>1, <2>4, <2>11
<1>3. QED
  BY <1>1, <1>2

\* The view of t, given the event.
LEMMA ChangesShown ==
    ASSUME Listened, NEW E, NEW e \in EffectsIn(E), NEW t \in Targets,
           \A n \in listeners[t] : Event(n, t, cache'[t], t \notin e.current) \in E,
           NEW f, f = ApplyChanges(e, t)
    PROVE  f \in EffectsIn(E) /\ f.current = e.current
<1>1. listeners[t] \in SUBSET Tabs
  BY DEF Listened
<1> DEFINE g(b) == OnViewSnapshot(e, t, listeners[t], cache'[t], t \notin e.current, b)
<1>2. \A b : g(b) \in EffectsIn(E) /\ g(b).current = e.current
  BY <1>1, ViewShown
<1>3. f = e \/ \E b : f = g(b)
  BY DEF ApplyChanges
<1> HIDE DEF g
<1>4. QED
  BY <1>2, <1>3

\* The step posts events of E.
Posts(E) == \E s \in Seq(E) : main' = main \o s

\* A step takes the effects.
LEMMA Taken ==
    ASSUME NEW E, NEW e \in EffectsIn(E), Take(e)
    PROVE  /\ current' = e.current /\ raised' = e.raised
           /\ current' \in SUBSET Targets /\ raised' \in [Targets -> SUBSET Tabs]
           /\ Posts(E) /\ (main \in Seq(E) => main' \in Seq(E))
<1>1. current' = e.current /\ raised' = e.raised /\ main' = main \o e.events
  BY DEF Take
<1>2. e.events \in Seq(E)
  BY DEF EffectsIn
<1>3. Posts(E) /\ (main \in Seq(E) => main' \in Seq(E))
  BY <1>1, <1>2 DEF Posts
<1>4. QED
  BY <1>1, <1>3 DEF EffectsIn

\* Before anything happens there are no events.
LEMMA EffectsStart ==
    ASSUME current \subseteq Targets, raised \in [Targets -> SUBSET Tabs], w.online \in Onlines,
           NEW E
    PROVE  Effects \in EffectsIn(E) /\ Effects.current = current /\ Effects.raised = raised
  BY DEF Effects, EffectsIn

(***************************************************************************)
(* The types of what w holds.                                              *)
(***************************************************************************)

Kinds(v) ==
    /\ DOMAIN v = Fields
    /\ v.state \in States /\ v.online \in Onlines
    /\ DOMAIN v.states \subseteq Targets
    /\ DOMAIN v.updates \subseteq Targets
    /\ \A t \in DOMAIN v.updates : v.updates[t] \in Contents

\* OnlineStateTracker keeps the kinds.
LEMMA TrackerKinds ==
    ASSUME NEW u, Kinds(u), NEW online \in Onlines, NEW b
    PROVE  Kinds(Assert_(u, b)) /\ Kinds(UpdateState(u, online))
           /\ Kinds(HandleWatchStreamStart(u)) /\ Kinds(HandleWatchStreamFailure(u)) /\ Kinds(TimeOut(u))
<1>1. \A c, d : DOMAIN c = Fields /\ DOMAIN d = Fields /\ d.state = c.state /\ d.online \in Onlines
                /\ d.states = c.states /\ d.updates = c.updates /\ Kinds(c) => Kinds(d)
  BY DEF Kinds
<1> DEFINE a(c) == Assert_(u, c)
<1>2. \A c : DOMAIN a(c) = Fields /\ a(c).state = u.state /\ a(c).online = u.online
             /\ a(c).states = u.states /\ a(c).updates = u.updates /\ Kinds(a(c))
  BY DEF Kinds, Assert_, Fields
<1>3. Kinds(Assert_(u, b))
  BY <1>2
<1>4. Kinds(UpdateState(u, online))
  BY DEF Kinds, UpdateState, Fields
<1>5. Kinds(HandleWatchStreamStart(u))
  <2>1. \A c : Kinds([a(c) EXCEPT !.online = "Unknown", !.timer = TRUE])
    <3> HIDE DEF a
    <3>1. QED
      BY <1>2 DEF Kinds, Fields, Onlines
  <2>2. QED
    BY <2>1 DEF HandleWatchStreamStart
<1>6. Kinds(HandleWatchStreamFailure(u))
  <2>1. \A c : Kinds([a(c) EXCEPT !.online = "Unknown"])
    <3> HIDE DEF a
    <3>1. QED
      BY <1>2 DEF Kinds, Fields, Onlines
  <2>2. Kinds([u EXCEPT !.failing = TRUE, !.timer = FALSE, !.online = "Offline"])
    BY DEF Kinds, Fields, Onlines
  <2>3. QED
    BY <2>1, <2>2 DEF HandleWatchStreamFailure
<1>7. Kinds(TimeOut(u))
  <2>1. \A c : Kinds([a(c) EXCEPT !.timer = FALSE, !.online = "Offline"])
    <3> HIDE DEF a
    <3>1. QED
      BY <1>2 DEF Kinds, Fields, Onlines
  <2>2. QED
    BY <2>1 DEF TimeOut
<1>8. QED
  BY <1>3, <1>4, <1>5, <1>6, <1>7

\* So does a target's new state.
LEMMA SetKinds ==
    ASSUME NEW u, Kinds(u), NEW t \in Targets, NEW s
    PROVE  Kinds(SetTargetState(u, t, s))
  BY DEF Kinds, SetTargetState, Put, Fields

\* So do requests, the stream's starts and ends, and the messages.
LEMMA SendKinds ==
    ASSUME NEW u, Kinds(u), NEW r, r.target \in Targets
    PROVE  Kinds(Send(u, r))
<1>1. Kinds(RecordPendingTargetRequest(u, r.target))
  BY SetKinds DEF RecordPendingTargetRequest
<1>2. PICK v : v = RecordPendingTargetRequest(u, r.target)
  OBVIOUS
<1>3. PICK x : x = Assert_(v, IsOpen(u))
  OBVIOUS
<1>4. Kinds(x)
  BY <1>1, <1>2, <1>3, TrackerKinds DEF Onlines
<1>5. Send(u, r) = [x EXCEPT !.idle = FALSE, !.outgoing = Append(@, r)]
  BY <1>2, <1>3 DEF Send
<1>6. QED
  BY <1>4, <1>5 DEF Kinds, Fields

LEMMA StartKinds ==
    ASSUME NEW u, Kinds(u)
    PROVE  Kinds(StartWatchStream(u))
<1> DEFINE d == [u EXCEPT !.states = <<>>, !.updates = <<>>,
                          !.state = IF @ = "Error" THEN "Backoff" ELSE "Starting"]
<1>1. Kinds(d)
  BY DEF Kinds, Fields, States
<1>2. StartWatchStream(u) = HandleWatchStreamStart(d)
  BY DEF StartWatchStream
<1> HIDE DEF d
<1>3. QED
  BY <1>1, <1>2, TrackerKinds DEF Onlines

LEMMA ListenKinds ==
    ASSUME NEW u, Kinds(u), NEW t \in Targets, NEW from
    PROVE  Kinds(Listen(u, t, from))
<1> DEFINE d == [u EXCEPT !.listens = @ \cup {t}]
           r == WatchRequest(t, from)
<1>1. Kinds(d)
  BY DEF Kinds, Fields
<1>2. r.target = t
  BY DEF WatchRequest
<1>3. Listen(u, t, from) \in {u, d, StartWatchStream(d), Send(d, r)}
  BY DEF Listen
<1> HIDE DEF d, r
<1>4. QED
  BY <1>1, <1>2, <1>3, StartKinds, SendKinds

LEMMA StopListeningKinds ==
    ASSUME NEW u, Kinds(u), NEW t \in Targets
    PROVE  Kinds(StopListening(u, t))
<1> DEFINE a == Assert_(u, t \in u.listens)
           d == [a EXCEPT !.listens = @ \ {t}]
           r == UnwatchRequest(t)
           told == IF IsOpen(u) THEN Send(d, r) ELSE d
           i == [told EXCEPT !.idle = TRUE]
<1>1. Kinds(a)
  BY TrackerKinds DEF Onlines
<1> HIDE DEF a
<1>2. Kinds(d)
  BY <1>1 DEF Kinds, Fields
<1> HIDE DEF d
<1>3. Kinds(told)
  BY <1>2, SendKinds DEF UnwatchRequest
<1>4. StopListening(u, t) \in {told, i, UpdateState(told, "Unknown")}
  BY DEF StopListening, a, d
<1> HIDE DEF told
<1>5. Kinds(i)
  BY <1>3 DEF Kinds, Fields
<1> HIDE DEF i
<1>6. "Unknown" \in Onlines
  BY DEF Onlines
<1>7. QED
  BY <1>3, <1>4, <1>5, <1>6, TrackerKinds

LEMMA OpenKinds ==
    ASSUME NEW u, Kinds(u), u.listens \subseteq Targets, NEW order \in SetToSeqs(u.listens), NEW from
    PROVE  Kinds(OnWatchStreamOpen(u, order, from))
<1>1. ToSet(order) \subseteq Targets
  BY DEF SetToSeqs, ToSet
<1>2. QED
  BY <1>1 DEF OnWatchStreamOpen, Kinds, Fields, States

LEMMA TornDownKinds ==
    ASSUME NEW u, Kinds(u), NEW state \in States
    PROVE  Kinds(TornDown(u, state))
  BY DEF TornDown, Kinds, Fields

LEMMA StopKinds ==
    ASSUME NEW u, Kinds(u), NEW needed
    PROVE  Kinds(Stop(u, needed))
<1> DEFINE d == TornDown(u, "Initial")
           a == Assert_(d, ~(needed /\ u.listens # {}))
<1>1. "Initial" \in States /\ "Unknown" \in Onlines
  BY DEF States, Onlines
<1>2. Kinds(d)
  BY <1>1, TornDownKinds
<1>3. Stop(u, needed) \in {u, UpdateState(a, "Unknown")}
  BY DEF Stop
<1> HIDE DEF d
<1>4. Kinds(a)
  BY <1>1, <1>2, TrackerKinds
<1> HIDE DEF a
<1>5. QED
  BY <1>1, <1>3, <1>4, TrackerKinds

LEMMA BreakKinds ==
    ASSUME NEW u, Kinds(u)
    PROVE  Kinds(Break(u))
<1> DEFINE d == TornDown(u, "Error")
           f == HandleWatchStreamFailure(d)
<1>1. "Error" \in States /\ "Unknown" \in Onlines
  BY DEF States, Onlines
<1>2. Kinds(d)
  BY <1>1, TornDownKinds
<1>3. Break(u) \in {StartWatchStream(f), UpdateState(d, "Unknown")}
  BY DEF Break
<1> HIDE DEF d
<1>4. Kinds(f)
  BY <1>1, <1>2, TrackerKinds
<1> HIDE DEF f
<1>5. QED
  BY <1>1, <1>2, <1>3, <1>4, TrackerKinds, StartKinds

LEMMA CredentialChangeKinds ==
    ASSUME NEW u, Kinds(u)
    PROVE  Kinds(HandleCredentialChange(u))
<1>0. PICK no : no = FALSE
  OBVIOUS
<1> DEFINE p == Stop(u, no)
           q == [p EXCEPT !.states = <<>>, !.updates = <<>>]
           d == UpdateState(q, "Unknown")
<1>1. "Unknown" \in Onlines
  BY DEF Onlines
<1>2. Kinds(p)
  BY StopKinds
<1>3. HandleCredentialChange(u) \in {StartWatchStream(d), UpdateState(d, "Unknown")}
  BY <1>0 DEF HandleCredentialChange
<1> HIDE DEF p
<1>4. Kinds(q)
  BY <1>2 DEF Kinds, Fields
<1> HIDE DEF q
<1>5. Kinds(d)
  BY <1>1, <1>4, TrackerKinds
<1> HIDE DEF d
<1>6. QED
  BY <1>1, <1>3, <1>5, TrackerKinds, StartKinds

LEMMA AnswerKinds ==
    ASSUME NEW u, Kinds(u), NEW t \in Targets, NEW c \in Contents, NEW k
    PROVE  /\ Kinds(HandleAdded(u, t)) /\ Kinds(HandleRemoved(u, t)) /\ Kinds(HandleCurrent(u, t))
           /\ Kinds(HandleDocumentChange(u, t, c, k)) /\ Kinds(RemoveTarget(u, t))
<1>1. \A s : Kinds(SetTargetState(u, t, s))
  BY SetKinds
<1>2. Kinds([u EXCEPT !.states = Restrict(@, DOMAIN @ \ {t})])
  BY DEF Kinds, Fields, Restrict
<1>3. Kinds(HandleAdded(u, t)) /\ Kinds(HandleCurrent(u, t))
  BY <1>1 DEF HandleAdded, HandleCurrent
<1>4. Kinds(HandleRemoved(u, t))
  BY <1>1, <1>2 DEF HandleRemoved
<1>5. Kinds(HandleDocumentChange(u, t, c, k))
  <2> DEFINE d(change) == AddDocumentChange(u, t, change)
  <2>1. \A change : Kinds(d(change))
    BY <1>1 DEF AddDocumentChange
  <2> HIDE DEF d
  <2>2. \A change : Kinds([d(change) EXCEPT !.updates = Put(@, t, c)])
    BY <2>1 DEF Kinds, Fields, Put
  <2>3. HandleDocumentChange(u, t, c, k) = u
        \/ \E change : HandleDocumentChange(u, t, c, k) = [d(change) EXCEPT !.updates = Put(@, t, c)]
    BY DEF HandleDocumentChange, d
  <2>4. QED
    BY <2>2, <2>3
<1>6. Kinds(RemoveTarget(u, t))
  BY DEF RemoveTarget, Kinds, Fields, Restrict
<1>7. QED
  BY <1>3, <1>4, <1>5, <1>6

\* What a snapshot leaves of w.
LEMMA SnapshotKinds ==
    ASSUME NEW u, Kinds(u), NEW version, NEW b,
           w' = Assert_(AfterRemoteEvent(HandleNoChange(u, version), version, keys), b)
    PROVE  Kinds(w')
<1> DEFINE v == HandleNoChange(u, version)
           s == Synthesized(v, version, keys)
           a == AfterRemoteEvent(v, version, keys)
<1>1. /\ DOMAIN v = Fields /\ v.state = u.state /\ v.online = u.online
      /\ DOMAIN v.states = DOMAIN u.states
  BY DEF HandleNoChange, Kinds, Fields
<1> HIDE DEF v
<1>2. /\ DOMAIN s = Fields /\ s.state = u.state /\ s.online = u.online
      /\ DOMAIN s.states = DOMAIN u.states
  BY <1>1 DEF Synthesized, Fields
<1> HIDE DEF s
<1>3. /\ DOMAIN a = Fields /\ a.state = u.state /\ a.online = u.online
      /\ DOMAIN a.states = DOMAIN u.states /\ a.updates = <<>>
  BY <1>2 DEF AfterRemoteEvent, s, Fields
<1> HIDE DEF a
<1>4. Kinds(a)
  BY <1>3 DEF Kinds
<1>5. QED
  BY <1>4, TrackerKinds DEF a, v, Onlines

(***************************************************************************)
(* The steps.                                                              *)
(***************************************************************************)

Docs == \A i \in Places : answers[i].op = "document" => answers[i].content \in Contents

Types ==
    /\ tabs \in 0..MaxTabs
    /\ worker \in Seq(Tasks) /\ main \in Seq(Events)
    /\ cache \in [Targets -> Contents] /\ token \in [Targets -> Versions]
    /\ keys \subseteq Targets /\ current \subseteq Targets
    /\ Listened /\ raised \in [Targets -> SUBSET Tabs]
    /\ Kinds(w) /\ Docs
    /\ profile \in [Tabs -> Events \cup {Nothing}]
    /\ questions \in [Tabs -> Contents \cup {Nothing}]
    /\ server \in [Targets -> Contents]
    /\ asOf \in [Tabs -> Versions]

\* The versions up to the server's last are among those there can be.
LEMMA VersionsAre ==
    ASSUME Truth, Types
    PROVE  LastVersion \in Versions /\ LastVersion \in Nat \ {0} /\ \A v \in 0..LastVersion : v \in Versions
<1>1. LastVersion \in Nat \ {0} /\ \E t \in Targets : server[t].at = LastVersion
  BY LastVersionIsLast DEF Truth
<1>2. LastVersion \in Versions
  BY <1>1 DEF Types, Contents
<1>3. QED
  BY <1>1, <1>2, BoundsAssumption DEF Versions

\* What listeners are told of contents is an event, and so is an error.
LEMMA EventIsEvent ==
    ASSUME NEW n \in Tabs, NEW t \in Targets, NEW c \in Contents, NEW b \in BOOLEAN
    PROVE  Event(n, t, c, b) \in Events
  BY DEF Event, Events

LEMMA ErrorIsEvent ==
    ASSUME NEW n \in Tabs, NEW t \in Targets
    PROVE  ErrorEvent(n, t) \in Events
<1>1. Unknown \in Contents
  BY BoundsAssumption DEF Unknown, NoDocument, Contents, Versions
<1>2. QED
  BY <1>1 DEF ErrorEvent, Events

\* The effects of being told of the online state that is w's after the step.
LEMMA ToldShows ==
    ASSUME Types, Kinds(w'), Told, NEW E,
           \A t \in Targets : \A n \in listeners[t] :
              /\ Event(n, t, cache[t], TRUE) \in E
              /\ t \in current => Event(n, t, cache[t], FALSE) \in E
    PROVE  /\ current' \subseteq current /\ raised' \in [Targets -> SUBSET Tabs]
           /\ Posts(E) /\ (main \in Seq(E) => main' \in Seq(E))
<1>1. w.online \in Onlines /\ w'.online \in Onlines /\ Listened
  BY DEF Types, Kinds
<1>2. PICK e : e = Effects
  OBVIOUS
<1>3. e \in EffectsIn(E) /\ e.current = current
  BY <1>1, <1>2, EffectsStart DEF Types
<1>o. PICK o \in Onlines : o = w'.online
  BY <1>1
<1>4. PICK f : f = HandleOnlineStateChange(e, o)
  OBVIOUS
<1>s. \A t \in Targets : \A n \in listeners[t] :
        /\ Event(n, t, cache[t], TRUE) \in E
        /\ t \in e.current => Event(n, t, cache[t], FALSE) \in E
  BY <1>3
<1>5. f \in EffectsIn(E) /\ f.current \subseteq e.current
  BY ONLY <1>1, <1>3, <1>4, <1>s, OnlineStateShown, Listened
<1>6. Take(f)
  BY <1>2, <1>4, <1>o DEF Told
<1>7. QED
  BY <1>3, <1>5, <1>6, Taken

\* Whatever is known of the documents, events of them are events.
LEMMA AllAreEvents ==
    ASSUME Types
    PROVE  \A t \in Targets : \A n \in listeners[t] :
              /\ Event(n, t, cache[t], TRUE) \in Events
              /\ t \in current => Event(n, t, cache[t], FALSE) \in Events
<1>1. ASSUME NEW t \in Targets, NEW n \in listeners[t], NEW b \in BOOLEAN
      PROVE  Event(n, t, cache[t], b) \in Events
  BY <1>1, EventIsEvent DEF Types, Listened
<1>2. TRUE \in BOOLEAN /\ FALSE \in BOOLEAN
  OBVIOUS
<1>3. QED
  BY <1>1, <1>2

LEMMA ToldTypes ==
    ASSUME Types, Kinds(w'), Told
    PROVE  current' \subseteq Targets /\ raised' \in [Targets -> SUBSET Tabs] /\ main' \in Seq(Events)
<1>1. PICK E : E = Events
  OBVIOUS
<1>2. main \in Seq(E) /\ \A t \in Targets : \A n \in listeners[t] :
              /\ Event(n, t, cache[t], TRUE) \in E
              /\ t \in current => Event(n, t, cache[t], FALSE) \in E
  BY <1>1, AllAreEvents DEF Types
<1>3. current' \subseteq current /\ raised' \in [Targets -> SUBSET Tabs] /\ main' \in Seq(E)
  BY <1>2, ToldShows
<1>4. QED
  BY <1>1, <1>3 DEF Types

(***************************************************************************)
(* Each step keeps the types.                                              *)
(***************************************************************************)

\* The variables of Types that few steps touch.
LEMMA SameTypes ==
    ASSUME Types,
           UNCHANGED <<tabs, storeVars, listeners, profile, questions, server, asOf>>,
           worker' \in Seq(Tasks), main' \in Seq(Events), current' \subseteq Targets,
           raised' \in [Targets -> SUBSET Tabs], Kinds(w'), Docs'
    PROVE  Types'
<1>1. Listened'
  BY DEF Types, Listened
<1>2. Kinds(w)'
  BY DEF Kinds
<1>3. QED
  BY <1>1, <1>2 DEF Types, storeVars

LEMMA AppendedTask ==
    ASSUME Types, NEW x \in Tasks
    PROVE  Append(worker, x) \in Seq(Tasks)
  BY DEF Types

LEMMA OpenTabTypes ==
    ASSUME Types, OpenTab
    PROVE  Types'
<1>1. tabs' \in Tabs /\ tabs' \in 0..MaxTabs
  BY BoundsAssumption DEF Types, OpenTab, Tabs
<1>2. ListenTask(tabs', Profile) \in Tasks /\ ListenTask(tabs', Questions) \in Tasks
  BY <1>1, TargetsAre DEF ListenTask, Tasks
<1>3. PICK p \in Tasks : p = ListenTask(tabs', Profile)
  BY <1>2
<1>4. PICK q \in Tasks : q = ListenTask(tabs', Questions)
  BY <1>2
<1>5. worker \in Seq(Tasks) /\ worker' = worker \o <<p, q>>
  BY <1>3, <1>4 DEF Types, OpenTab
<1>6. worker' \in Seq(Tasks)
  BY <1>5
<1>7. UNCHANGED <<main, clientVars, profile, questions, answers, server, asOf>>
  BY DEF OpenTab, streamVars, worldVars
<1>8. Listened' /\ Docs' /\ Kinds(w)'
  BY <1>7 DEF Types, Listened, Docs, Places, Kinds, clientVars
<1>9. QED
  BY <1>1, <1>6, <1>7, <1>8 DEF Types, clientVars, storeVars

LEMMA RunEventTypes ==
    ASSUME Types, RunEvent
    PROVE  Types'
<1> DEFINE event == Head(main)
           n     == event.tab
           muted == profile[n] # Nothing /\ profile[n].ok
<1>1. event \in Events /\ Tail(main) \in Seq(Events) /\ main' = Tail(main)
  BY DEF Types, RunEvent
<1>2. UNCHANGED <<tabs, storeVars, current, listeners, raised, answers, server, asOf>>
  BY DEF RunEvent, streamVars, worldVars
<1>3. n \in Tabs /\ event.content \in Contents /\ RemoveTask(n) \in Tasks
  BY <1>1, TargetsAre DEF Events, RemoveTask, Tasks
<1>4. profile' \in [Tabs -> Events \cup {Nothing}]
  <2>1. profile' = profile \/ profile' = [profile EXCEPT ![n] = event]
    BY DEF RunEvent
  <2> HIDE DEF event
  <2>2. QED
    BY <1>1, <1>3, <2>1 DEF Types
<1>5. questions' \in [Tabs -> Contents \cup {Nothing}]
  <2>1. questions' = questions \/ questions' = [questions EXCEPT ![n] = event.content]
    BY DEF RunEvent
  <2> HIDE DEF event
  <2>2. QED
    BY <1>3, <2>1 DEF Types
<1>6. worker' \in Seq(Tasks)
  <2>1. worker' = worker \/ worker' = Append(worker, RemoveTask(n))
    BY DEF RunEvent
  <2>2. QED
    BY <1>3, <2>1, AppendedTask DEF Types
<1>7. Kinds(w')
  <2>1. w' = w \/ \E b : w' = Assert_(w, b)
    BY DEF RunEvent
  <2>2. QED
    BY <2>1, TrackerKinds DEF Types, Onlines
<1>8. Listened' /\ Docs'
  BY <1>2 DEF Types, Listened, Docs, Places
<1>9. Kinds(w)'
  BY <1>7 DEF Kinds
<1>10. QED
  BY <1>1, <1>2, <1>4, <1>5, <1>6, <1>8, <1>9 DEF Types, storeVars

\* A task of the worker queue, and those after it.
LEMMA WorkerTail ==
    ASSUME Types, worker # <<>>
    PROVE  Head(worker) \in Tasks /\ Tail(worker) \in Seq(Tasks)
  BY DEF Types

LEMMA TakeListenTypes ==
    ASSUME Types, TakeListen
    PROVE  Types'
<1>1. PICK n \in Tabs : n = Head(worker).tab
  BY WorkerTail DEF TakeListen, Tasks
<1>2. PICK t \in Targets : t = Head(worker).target
  BY WorkerTail DEF TakeListen, Tasks
<1>3. worker' \in Seq(Tasks)
  BY WorkerTail DEF TakeListen
<1>4. UNCHANGED <<tabs, storeVars, profile, questions, server, answers>>
  BY DEF TakeListen, streamVars, worldVars
<1>5. listeners' = [listeners EXCEPT ![t] = @ \cup {n}]
  BY <1>1, <1>2 DEF TakeListen
<1>6. Listened' /\ Docs'
  BY <1>4, <1>5 DEF Types, Listened, Docs, Places
<1>7. Kinds(w') /\ Kinds(w)'
  <2>1. w' = w \/ w' = Listen(w, t, token[t])
    BY <1>2 DEF TakeListen
  <2>2. Kinds(w')
    BY <2>1, ListenKinds DEF Types
  <2>3. QED
    BY <2>2 DEF Kinds
<1>8. asOf' \in [Tabs -> Versions]
  <2>1. asOf' = asOf \/ \E a \in {server[t].at, asOf[CHOOSE m \in listeners[t] : TRUE]} :
                           /\ asOf' = [asOf EXCEPT ![n] = a]
                           /\ listeners[t] = {} => a = server[t].at
                           /\ listeners[t] # {} => a = asOf[CHOOSE m \in listeners[t] : TRUE]
    BY <1>1, <1>2 DEF TakeListen
  <2>2. server[t].at \in Versions
    BY DEF Types, Contents
  <2>3. listeners[t] # {} => asOf[CHOOSE m \in listeners[t] : TRUE] \in Versions
    BY DEF Types, Listened
  <2>4. QED
    BY <2>1, <2>2, <2>3 DEF Types
<1>9. current' \subseteq Targets /\ raised' \in [Targets -> SUBSET Tabs] /\ main' \in Seq(Events)
  <2>1. PICK c : c = (listeners[t] = {} \/ t \notin current)
    OBVIOUS
  <2>2. PICK yes : yes = TRUE
    OBVIOUS
  <2>3. PICK e : e = Effects
    OBVIOUS
  <2>4. PICK f : f = OnViewSnapshot(e, t, {n}, cache[t], c, yes)
    OBVIOUS
  <2>5. Take(f)
    BY <1>1, <1>2, <2>1, <2>2, <2>3, <2>4 DEF TakeListen
  <2>6. PICK E : E = Events
    OBVIOUS
  <2>7. e \in EffectsIn(E)
    BY <2>3, EffectsStart DEF Types, Kinds
  <2>8. c \in BOOLEAN /\ cache[t] \in Contents
    BY <2>1 DEF Types
  <2>9. \A m \in {n} : Event(m, t, cache[t], c) \in E
    BY <2>6, <2>8, EventIsEvent
  <2>10. f \in EffectsIn(E)
    BY <2>4, <2>7, <2>9, ViewShown
  <2>11. QED
    BY <2>5, <2>6, <2>10, Taken DEF Types
<1>10. QED
  BY <1>3, <1>4, <1>6, <1>7, <1>8, <1>9 DEF Types, storeVars

LEMMA TakeRemoveTypes ==
    ASSUME Types, TakeRemove
    PROVE  Types'
<1> DEFINE t == Profile
<1>0. t \in Targets
  BY TargetsAre
<1>1. PICK n \in Tabs : n = Head(worker).tab
  BY WorkerTail DEF TakeRemove, Tasks
<1>2. worker' \in Seq(Tasks)
  BY WorkerTail DEF TakeRemove
<1>3. UNCHANGED <<tabs, storeVars, profile, questions, server, answers, asOf>>
  BY DEF TakeRemove, streamVars, worldVars
<1>4. listeners' = [listeners EXCEPT ![t] = @ \ {n}]
  BY <1>1 DEF TakeRemove
<1>5. Listened' /\ Docs'
  BY <1>3, <1>4 DEF Types, Listened, Docs, Places
<1>6. Kinds(w') /\ Kinds(w)'
  <2>1. w' = w \/ w' = StopListening(w, t)
    BY DEF TakeRemove
  <2>2. Kinds(w')
    BY <1>0, <2>1, StopListeningKinds DEF Types
  <2>3. QED
    BY <2>2 DEF Kinds
<1>7. current' \subseteq Targets /\ raised' \in [Targets -> SUBSET Tabs] /\ main' \in Seq(Events)
  <2> DEFINE gone == [Effects EXCEPT !.current = @ \ {t}, !.raised[t] = {}]
  <2>1. CASE raised' = [raised EXCEPT ![t] = @ \ {n}] /\ UNCHANGED <<w, current, main>>
    BY <2>1 DEF Types
  <2>2. CASE Take(HandleOnlineStateChange(gone, w'.online))
    <3>1. PICK E : E = Events
      OBVIOUS
    <3>2. PICK e : e = gone
      OBVIOUS
    <3>3. Effects \in EffectsIn(E) /\ Effects.current = current
      BY EffectsStart DEF Types, Kinds
    <3>4. e \in EffectsIn(E) /\ e.current \subseteq current
      BY <3>2, <3>3 DEF EffectsIn
    <3>5. PICK o \in Onlines : o = w'.online
      BY <1>6 DEF Kinds
    <3>6. PICK f : f = HandleOnlineStateChange(e, o)
      OBVIOUS
    <3>7. \A x \in Targets : \A m \in listeners[x] :
            /\ Event(m, x, cache[x], TRUE) \in E
            /\ x \in e.current => Event(m, x, cache[x], FALSE) \in E
      BY <3>1, <3>4, AllAreEvents
    <3>8. Listened /\ main \in Seq(E)
      BY <3>1 DEF Types
    <3>9. f \in EffectsIn(E)
      BY ONLY <3>4, <3>6, <3>7, <3>8, OnlineStateShown
    <3>10. Take(f)
      BY <2>2, <3>2, <3>5, <3>6
    <3>11. QED
      BY <3>1, <3>8, <3>9, <3>10, Taken
  <2>3. QED
    BY <1>1, <2>1, <2>2 DEF TakeRemove
<1>8. QED
  BY <1>2, <1>3, <1>5, <1>6, <1>7 DEF Types, storeVars

\* A step of which listeners hear no more than the online state.
LEMMA TellingTypes ==
    ASSUME Types, Told, Kinds(w'), Docs', worker' = worker,
           UNCHANGED <<tabs, storeVars, listeners, profile, questions, server, asOf>>
    PROVE  Types'
<1>1. worker' \in Seq(Tasks)
  BY DEF Types
<1>2. QED
  BY <1>1, ToldTypes, SameTypes

LEMMA NothingIsDocs ==
    ASSUME Abandon
    PROVE  Docs'
  BY DEF Abandon, Docs, Places

LEMMA StreamEndsTypes ==
    ASSUME Types, StreamEnds
    PROVE  Types'
<1>1. Kinds(w')
  BY BreakKinds DEF StreamEnds, Ends, Types
<1>2. Docs'
  BY NothingIsDocs DEF StreamEnds
<1>3. QED
  BY <1>1, <1>2, TellingTypes DEF StreamEnds

LEMMA ServeTypes ==
    ASSUME Types, Truth, Serve
    PROVE  Types'
<1>1. UNCHANGED <<tabs, worker, main, storeVars, current, listeners, raised, profile, questions,
                  server, asOf>>
  BY DEF Serve
<1>2. Kinds(w') /\ Kinds(w)'
  BY DEF Serve, Takes, Types, Kinds, Fields
<1>3. Listened'
  BY <1>1 DEF Types, Listened
<1>4. Docs'
  <2> DEFINE r == Head(w.outgoing)
             t == r.target
             news == server[t].at > r.token /\ (r.token # 0 \/ server[t].exists)
             a == [op |-> "added", target |-> t]
             c == [op |-> "current", target |-> t]
             d == Document(t)
  <2>1. IsSeq(answers) /\ t \in Targets
    <3>1. Takes /\ token' = token
      BY <1>1 DEF Serve, storeVars
    <3>2. Head(w.outgoing).target \in Targets
      BY <3>1, TakenRequest
    <3>3. QED
      BY <3>2 DEF Truth, Inv
  <2>2. d.content \in Contents /\ Snapshot.op # "document" /\ a.op # "document" /\ c.op # "document"
    BY <1>1, <2>1 DEF Document, Snapshot, Types
  <2>3. ASSUME NEW s, IsSeq(s), \A i \in 1..Len(s) : s[i].op = "document" => s[i].content \in Contents,
               NEW x, x.op = "document" => x.content \in Contents
        PROVE  /\ IsSeq(Append(s, x))
               /\ \A i \in 1..Len(Append(s, x)) :
                     Append(s, x)[i].op = "document" => Append(s, x)[i].content \in Contents
    BY <2>3, Appended
  <2>4. \A i \in 1..Len(answers) : answers[i].op = "document" => answers[i].content \in Contents
    BY DEF Types, Docs, Places
  <2>5. CASE \E x : x.op # "document" /\ answers' = Append(answers, x)
    BY <2>1, <2>3, <2>4, <2>5 DEF Docs, Places
  <2> DEFINE s1 == Append(answers, a)
  <2>6. IsSeq(s1) /\ \A i \in 1..Len(s1) : s1[i].op = "document" => s1[i].content \in Contents
    BY <2>1, <2>2, <2>3, <2>4
  <2> DEFINE s2 == s1 \o (IF news THEN <<d>> ELSE <<>>)
  <2>7. answers' = s2 \o <<c, Snapshot>> => Docs'
    <3>1. answers \o <<a>> = s1
      BY <2>1, Extended
    <3> HIDE DEF s1, d, a, c
    <3>2. s2 = s1 \/ s2 = Append(s1, d)
      BY <2>6, Extended
    <3>3. IsSeq(s2) /\ \A i \in 1..Len(s2) : s2[i].op = "document" => s2[i].content \in Contents
      BY <2>2, <2>3, <2>6, <3>2
    <3> HIDE DEF s2
    <3>4. s2 \o <<c, Snapshot>> = Append(Append(s2, c), Snapshot)
      BY <3>3, Extended
    <3>5. IsSeq(Append(s2, c)) /\ \A i \in 1..Len(Append(s2, c)) :
             Append(s2, c)[i].op = "document" => Append(s2, c)[i].content \in Contents
      BY <2>2, <2>3, <3>3
    <3>6. \A i \in 1..Len(Append(Append(s2, c), Snapshot)) :
             Append(Append(s2, c), Snapshot)[i].op = "document"
               => Append(Append(s2, c), Snapshot)[i].content \in Contents
      BY <2>2, <2>3, <3>5
    <3>7. QED
      BY <3>4, <3>6 DEF Docs, Places
  <2>8. CASE answers' = answers \o <<a>> \o (IF news THEN <<d>> ELSE <<>>) \o <<c, Snapshot>>
    <3>1. answers \o <<a>> = s1
      BY <2>1, Extended
    <3>2. QED
      BY <2>7, <2>8, <3>1
  <2>9. \/ \E x : x.op # "document" /\ answers' = Append(answers, x)
        \/ answers' = answers \o <<a>> \o (IF news THEN <<d>> ELSE <<>>) \o <<c, Snapshot>>
    <3>1. CASE r.op = "unwatch" /\ answers' = Append(answers, [op |-> "removed", target |-> t])
      BY <3>1
    <3>2. CASE answers' = Append(answers, [op |-> "refused", target |-> t])
      BY <3>2
    <3>3. QED
      BY <3>1, <3>2 DEF Serve
  <2>10. QED
    BY <2>5, <2>8, <2>9
<1>5. QED
  BY <1>1, <1>2, <1>3, <1>4 DEF Types, storeVars

LEMMA ChangeTypes ==
    ASSUME Types, Truth, NEW t \in Targets, Change(t)
    PROVE  Types'
<1>1. UNCHANGED <<tabs, worker, main, storeVars, current, listeners, raised, w, profile, questions,
                  asOf>>
  BY DEF Change, clientVars
<1>2. Kinds(w)' /\ Listened'
  BY <1>1 DEF Types, Listened, Kinds
<1>3. LastVersion + 1 \in Versions
  BY VersionsAre, BoundsAssumption DEF Change, Versions
<1>4. server' \in [Targets -> Contents]
  BY <1>3 DEF Change, Types, Contents
<1>5. Docs'
  <2> DEFINE d == Document(t)
             s1 == Append(answers, d)
  <2>1. IsSeq(answers) /\ \A i \in 1..Len(answers) : answers[i].op = "document" => answers[i].content \in Contents
    BY DEF Types, Docs, Places, Truth, Inv
  <2>2. d.content \in Contents /\ Snapshot.op # "document"
    BY <1>4 DEF Document, Snapshot
  <2>3. CASE answers' = answers
    BY <2>1, <2>3 DEF Docs, Places
  <2>4. CASE answers' = answers \o <<d, Snapshot>>
    <3> HIDE DEF d
    <3>1. answers' = Append(s1, Snapshot)
      BY <2>1, <2>4, Extended
    <3>2. IsSeq(s1) /\ \A i \in 1..Len(s1) : s1[i].op = "document" => s1[i].content \in Contents
      BY <2>1, <2>2, Appended
    <3> HIDE DEF s1
    <3>3. \A i \in 1..Len(answers') : answers'[i].op = "document" => answers'[i].content \in Contents
      BY <2>2, <3>1, <3>2, Appended
    <3>4. QED
      BY <3>3 DEF Docs, Places
  <2>5. QED
    BY <2>3, <2>4 DEF Change
<1>6. QED
  BY <1>1, <1>2, <1>4, <1>5 DEF Types, storeVars

\* The targets whose view is current after a snapshot.
Now == {t \in Targets : /\ listeners[t] # {}
                        /\ IF t \in Active(w) THEN w.states[t].current ELSE t \in current}

\* What listeners hear of a snapshot, and what is asserted of it.
LEMMA SnapshotShows ==
    ASSUME Shape(w), Listened, NEW E, NEW e \in EffectsIn(E),
           NEW version \in Nat \ {0}, RaiseWatchSnapshot(UpdateState(w, "Online"), e, version),
           NEW now, now = Now,
           \A t \in Targets : \A n \in listeners[t] : Event(n, t, cache'[t], t \notin now) \in E
    PROVE  /\ current' = now /\ raised' \in [Targets -> SUBSET Tabs]
           /\ Posts(E) /\ (main \in Seq(E) => main' \in Seq(E))
<1> DEFINE v == HandleNoChange(UpdateState(w, "Online"), version)
           a == AfterRemoteEvent(v, version, keys)
           event == RemoteEvent(v, version, keys)
           changed == DOMAIN event.changes
           views == {t \in Targets : listeners[t] # {}}
           n == {t \in views : IF t \in changed THEN event.changes[t].current ELSE t \in current}
           e0 == [e EXCEPT !.current = n]
           e1 == ApplyChanges(e0, Profile)
           e2 == ApplyChanges(e1, Questions)
<1>1. DOMAIN event.changes = Active(w) /\ \A t \in Active(w) : event.changes[t].current = w.states[t].current
  BY SnapshotEvent
<1>2. Take(e2)
  BY DEF RaiseWatchSnapshot
<1> HIDE DEF event
<1>3. n = now
  BY <1>1 DEF Now
<1> HIDE DEF n
<1>4. e0 \in EffectsIn(E) /\ e0.current = now
  BY <1>3 DEF EffectsIn, Now
<1> HIDE DEF e0
<1>5. PICK f1 : f1 = ApplyChanges(e0, Profile)
  OBVIOUS
<1>6. f1 \in EffectsIn(E) /\ f1.current = now
  BY <1>4, <1>5, ChangesShown, TargetsAre
<1>7. PICK f2 : f2 = ApplyChanges(f1, Questions)
  OBVIOUS
<1>8. f2 \in EffectsIn(E) /\ f2.current = now
  BY <1>6, <1>7, ChangesShown, TargetsAre
<1>9. Take(f2)
  BY <1>2, <1>5, <1>7
<1>10. QED
  BY <1>8, <1>9, Taken

LEMMA ReadAnswerTypes ==
    ASSUME Types, Truth, Truth', ReadAnswer
    PROVE  Types'
<1> DEFINE m == Head(answers)
           v == UpdateState(w, "Online")
<1>1. answers # <<>> /\ answers' = Tail(answers)
      /\ UNCHANGED <<tabs, worker, profile, questions, server, asOf>>
  BY DEF ReadAnswer, worldVars
<1>2. Docs'
  <2>1. \A i \in 1..Len(answers') : \E k \in 1..Len(answers) : answers'[i] = answers[k]
    BY <1>1, StillThere DEF Places
  <2>2. QED
    BY <2>1 DEF Types, Docs, Places
<1>3. Kinds(v)
  BY TrackerKinds DEF Types, Onlines
<1>4. m = answers[1] /\ 1 \in Places /\ Shape(w)
  BY <1>1, Tailed DEF Truth, Inv, Places
<1>5. /\ m.op # "snapshot" => m.target \in Targets
      /\ m.op = "document" => m.content \in Contents
      /\ m.op = "snapshot" => m.version \in 1..LastVersion
  BY <1>4 DEF Truth, Messages, Types, Docs
<1>6. PICK e : e = HandleOnlineStateChange(Effects, "Online")
  OBVIOUS
<1>7. PICK E : E = Events
  OBVIOUS
<1>8. e \in EffectsIn(E)
  <2>1. PICK o \in Onlines : o = "Online"
    BY DEF Onlines
  <2>2. PICK f : f = Effects
    OBVIOUS
  <2>3. f \in EffectsIn(E) /\ f.current = current
    BY <2>2, EffectsStart DEF Types, Kinds
  <2>4. \A x \in Targets : \A n \in listeners[x] :
          /\ Event(n, x, cache[x], TRUE) \in E
          /\ x \in f.current => Event(n, x, cache[x], FALSE) \in E
    BY <1>7, <2>3, AllAreEvents
  <2>5. Listened /\ e = HandleOnlineStateChange(f, o)
    BY <1>6, <2>1, <2>2 DEF Types
  <2>6. QED
    BY ONLY <2>3, <2>4, <2>5, OnlineStateShown
<1>9. main \in Seq(E) /\ Listened
  BY <1>7 DEF Types
<1>10. CASE m.op \in {"added", "removed", "current", "document"}
  <2>1. /\ w' = CASE m.op = "added"    -> HandleAdded(v, m.target)
                  [] m.op = "removed"  -> HandleRemoved(v, m.target)
                  [] m.op = "current"  -> HandleCurrent(v, m.target)
                  [] m.op = "document" -> HandleDocumentChange(v, m.target, m.content, keys)
        /\ Take(e)
        /\ UNCHANGED <<storeVars, listeners>>
    BY <1>6, <1>10 DEF ReadAnswer
  <2>2. Kinds(w')
    <3> PICK t \in Targets : t = m.target
      BY <1>5, <1>10
    <3>1. Unknown \in Contents
      BY BoundsAssumption DEF Unknown, NoDocument, Contents, Versions
    <3>2. CASE m.op = "document"
      BY <1>3, <1>5, <2>1, <3>2, AnswerKinds
    <3>3. CASE m.op # "document"
      BY <1>3, <1>10, <2>1, <3>1, <3>3, AnswerKinds
    <3>4. QED
      BY <3>2, <3>3
  <2>3. current' \subseteq Targets /\ raised' \in [Targets -> SUBSET Tabs] /\ main' \in Seq(Events)
    BY <1>7, <1>8, <1>9, <2>1, Taken
  <2>4. worker' \in Seq(Tasks)
    BY <1>1 DEF Types
  <2>5. QED
    BY <1>1, <1>2, <2>1, <2>2, <2>3, <2>4, SameTypes
<1>11. CASE m.op = "snapshot"
  <2>1. RaiseWatchSnapshot(v, e, m.version) /\ listeners' = listeners
    BY <1>6, <1>11 DEF ReadAnswer
  <2>2. PICK version \in Nat \ {0} : version = m.version
    BY <1>5, <1>11, VersionsAre
  <2>3. version \in Versions
    BY <1>5, <1>11, <2>2, VersionsAre
  <2> DEFINE h == HandleNoChange(v, version)
             event == RemoteEvent(h, version, keys)
             changed == DOMAIN event.changes
  <2>4. /\ keys' = (keys \ {t \in changed : event.changes[t].change = "removed"})
                     \cup {t \in changed : event.changes[t].change = "added"}
        /\ token' = [t \in Targets |-> IF t \in changed /\ event.changes[t].token # 0
                                       THEN event.changes[t].token ELSE token[t]]
        /\ cache' = [t \in Targets |-> IF t \in DOMAIN event.updates
                                       THEN Newer(event.updates[t], cache[t]) ELSE cache[t]]
    <3>1. RaiseWatchSnapshot(v, e, version)
      BY <2>1, <2>2
    <3>2. keys' = (keys \ {t \in changed : event.changes[t].change = "removed"})
                    \cup {t \in changed : event.changes[t].change = "added"}
      BY <3>1 DEF RaiseWatchSnapshot
    <3>3. token' = [t \in Targets |-> IF t \in changed /\ event.changes[t].token # 0
                                      THEN event.changes[t].token ELSE token[t]]
      BY <3>1 DEF RaiseWatchSnapshot
    <3>4. cache' = [t \in Targets |-> IF t \in DOMAIN event.updates
                                      THEN Newer(event.updates[t], cache[t]) ELSE cache[t]]
      BY <3>1 DEF RaiseWatchSnapshot
    <3>5. QED
      BY <3>2, <3>3, <3>4
  <2>5. /\ changed = Active(w)
        /\ \A t \in Active(w) : event.changes[t].token = version
        /\ DOMAIN event.updates = DOMAIN w.updates \cup Missing
        /\ \A t \in DOMAIN event.updates : event.updates[t] = TakenIn(t, version)
    BY <1>4, SnapshotEvent
  <2>6. \E b : w' = Assert_(AfterRemoteEvent(h, version, keys), b)
    BY <2>1, <2>2 DEF RaiseWatchSnapshot
  <2>7. Kinds(w') /\ Kinds(w)'
    BY <1>3, <2>6, SnapshotKinds DEF Kinds
  <2> HIDE DEF event, v
  <2>8. Active(w) \subseteq Targets /\ keys' \subseteq Targets
    BY <2>4, <2>5 DEF Types, Kinds, Active
  <2>9. token' \in [Targets -> Versions]
    BY <2>3, <2>4, <2>5 DEF Types
  <2>10. cache' \in [Targets -> Contents]
    <3>1. ASSUME NEW t \in DOMAIN event.updates PROVE event.updates[t] \in Contents
      <4>1. NoDocument(version) \in Contents
        BY <2>3 DEF NoDocument, Contents
      <4>2. QED
        BY <2>5, <4>1 DEF TakenIn, Types, Kinds
    <3>2. ASSUME NEW t \in Targets
          PROVE  (IF t \in DOMAIN event.updates THEN Newer(event.updates[t], cache[t]) ELSE cache[t])
                   \in Contents
      BY <3>1 DEF Newer, Types
    <3>3. QED
      BY <2>4, <3>2
  <2>11. current' \subseteq Targets /\ raised' \in [Targets -> SUBSET Tabs] /\ main' \in Seq(Events)
    <3>1. PICK now : now = Now
      OBVIOUS
    <3>2. ASSUME NEW t \in Targets, NEW n \in listeners[t]
          PROVE  Event(n, t, cache'[t], t \notin now) \in E
      <4>1. n \in Tabs /\ cache'[t] \in Contents
        BY <2>10 DEF Types, Listened
      <4>2. PICK b \in BOOLEAN : b = (t \notin now)
        OBVIOUS
      <4>3. QED
        BY <1>7, <4>1, <4>2, EventIsEvent
    <3>3. main \in Seq(Events) /\ RaiseWatchSnapshot(UpdateState(w, "Online"), e, version)
      BY <2>1, <2>2 DEF v, Types
    <3>4. current' = now /\ raised' \in [Targets -> SUBSET Tabs] /\ main' \in Seq(E)
      BY <1>4, <1>8, <1>9, <3>1, <3>2, <3>3, SnapshotShows
    <3>5. QED
      BY <1>7, <3>1, <3>4 DEF Now
  <2>12. Listened'
    BY <2>1 DEF Types, Listened
  <2>13. QED
    BY <1>1, <1>2, <2>1, <2>7, <2>8, <2>9, <2>10, <2>11, <2>12 DEF Types
<1>12. CASE m.op = "refused" /\ m.target \notin w.listens
  <2>1. w' = v /\ Take(e) /\ UNCHANGED <<storeVars, listeners>>
    BY <1>6, <1>12 DEF ReadAnswer
  <2>2. current' \subseteq Targets /\ raised' \in [Targets -> SUBSET Tabs] /\ main' \in Seq(Events)
    BY <1>7, <1>8, <1>9, <2>1, Taken
  <2>3. worker' \in Seq(Tasks)
    BY <1>1 DEF Types
  <2>4. QED
    BY <1>1, <1>2, <1>3, <2>1, <2>2, <2>3, SameTypes
<1>13. CASE m.op = "refused" /\ m.target \in w.listens
  <2>1. RejectListen(v, e, m.target) /\ UNCHANGED storeVars
    BY <1>6, <1>13 DEF ReadAnswer
  <2> PICK t \in Targets : t = m.target
    BY <1>5, <1>13
  <2> DEFINE told == SetToSeq(listeners[t])
             s == [i \in 1..Len(told) |-> ErrorEvent(told[i], t)]
             g == [e EXCEPT !.current = @ \ {t}, !.raised[t] = {}, !.events = @ \o s]
             added == e.events \o s
  <2>2. w' = RemoveTarget(v, t) /\ listeners' = [listeners EXCEPT ![t] = {}] /\ Take(g)
    BY <2>1 DEF RejectListen
  <2>3. Kinds(w') /\ Kinds(w)'
    <3>1. Unknown \in Contents
      BY BoundsAssumption DEF Unknown, NoDocument, Contents, Versions
    <3>2. Kinds(w')
      BY <1>3, <2>2, <3>1, AnswerKinds
    <3>3. QED
      BY <3>2 DEF Kinds
  <2>4. s \in Seq(E)
    <3>1. listeners[t] \in SUBSET Tabs
      BY DEF Types, Listened
    <3>2. \A n \in listeners[t] : ErrorEvent(n, t) \in E
      BY <1>7, <3>1, ErrorIsEvent
    <3>3. QED
      BY <3>1, <3>2, ErrorsForAll
  <2>5. added \in Seq(E)
    BY <1>8, <2>4, EventsAdded
  <2> HIDE DEF s
  <2>6. g = [e EXCEPT !.current = @ \ {t}, !.raised[t] = {}, !.events = added]
    BY <1>8 DEF EffectsIn
  <2> HIDE DEF added, g
  <2>7. g \in EffectsIn(E)
    BY <1>8, <2>5, <2>6 DEF EffectsIn
  <2>8. current' \subseteq Targets /\ raised' \in [Targets -> SUBSET Tabs] /\ main' \in Seq(Events)
    BY <1>7, <1>9, <2>2, <2>7, Taken
  <2>9. Listened'
    BY <2>2 DEF Types, Listened
  <2>10. QED
    BY <1>1, <1>2, <2>1, <2>3, <2>8, <2>9 DEF Types, storeVars
<1>14. QED
  BY <1>10, <1>11, <1>12, <1>13 DEF ReadAnswer

LEMMA NextKeepsTypes ==
    ASSUME Types, Truth, Truth', [Next]_vars
    PROVE  Types'
<1>1. ASSUME UNCHANGED <<tabs, worker, main, clientVars, profile, questions, answers, server, asOf>>
      PROVE  Types'
  BY <1>1 DEF Types, Listened, Kinds, Docs, Places, clientVars, storeVars
<1>2. ASSUME UNCHANGED <<tabs, worker, storeVars, listeners, profile, questions, server, asOf>>,
             Told, Kinds(w'), Docs'
      PROVE  Types'
  BY <1>2, TellingTypes
<1>3. ASSUME answers' = answers PROVE Docs'
  BY <1>3 DEF Types, Docs, Places
<1>4. CASE HandleCredential
  <2>1. Kinds(w')
    BY <1>4, CredentialChangeKinds DEF HandleCredential, Types
  <2>2. Docs'
    BY <1>4, NothingIsDocs DEF HandleCredential
  <2>3. QED
    BY <1>2, <1>4, <2>1, <2>2 DEF HandleCredential
<1>5. CASE StreamOpens
  <2>1. PICK order \in SetToSeqs(w.listens) : w' = OnWatchStreamOpen(w, order, token)
    BY <1>5 DEF StreamOpens, Opens
  <2>2. Kinds(w')
    BY <2>1, OpenKinds DEF Types, Truth, Typed
  <2>3. QED
    BY <1>2, <1>3, <1>5, <2>2 DEF StreamOpens, streamVars, worldVars
<1>6. CASE BackoffElapses
  <2>1. w' = [w EXCEPT !.state = "Starting"]
    BY <1>6 DEF BackoffElapses, Retries
  <2>2. Kinds(w')
    BY <2>1 DEF Types, Kinds, Fields, States
  <2>3. QED
    BY <1>2, <1>3, <1>6, <2>2 DEF BackoffElapses, streamVars, worldVars
<1>7. CASE RunOnlineTimer
  <2>1. Kinds(w')
    BY <1>7, TrackerKinds DEF RunOnlineTimer, Types, Onlines
  <2>2. QED
    BY <1>2, <1>3, <1>7, <2>1 DEF RunOnlineTimer, streamVars, worldVars
<1>8. CASE RunIdleTimer
  <2>1. PICK yes : yes = TRUE
    OBVIOUS
  <2>2. w' = Stop(w, yes)
    BY <1>8, <2>1 DEF RunIdleTimer
  <2>3. Kinds(w')
    BY <2>2, StopKinds DEF Types
  <2>4. Docs'
    BY <1>8, NothingIsDocs DEF RunIdleTimer
  <2>5. QED
    BY <1>2, <1>8, <2>3, <2>4 DEF RunIdleTimer, worldVars
<1>9. CASE NetworkChanges
  <2>1. CASE StreamEnds
    BY <2>1, StreamEndsTypes
  <2>2. CASE UNCHANGED <<tabs, worker, main, clientVars, profile, questions, streamVars, server,
                         denied, asOf>>
    BY <1>1, <2>2 DEF streamVars
  <2>3. QED
    BY <1>9, <2>1, <2>2 DEF NetworkChanges
<1>10. CASE UNCHANGED vars
  BY <1>1, <1>10 DEF vars, streamVars, worldVars
<1>11. CASE \E t \in Targets : Change(t)
  BY <1>11, ChangeTypes
<1>12. CASE StreamEnds
  BY <1>12, StreamEndsTypes
<1>13. QED
  BY <1>4, <1>5, <1>6, <1>7, <1>8, <1>9, <1>10, <1>11, <1>12, OpenTabTypes, RunEventTypes,
     TakeListenTypes, TakeRemoveTypes, ReadAnswerTypes, ServeTypes
     DEF Next, Task, NoNetwork, StreamBreaks

LEMMA InitTypes ==
    ASSUME Init
    PROVE  Types
<1>1. 0 \in Versions /\ 1 \in Versions
  BY BoundsAssumption DEF Versions
<1>2. /\ tabs \in 0..MaxTabs /\ worker \in Seq(Tasks) /\ main \in Seq(Events)
      /\ current \subseteq Targets /\ Listened /\ raised \in [Targets -> SUBSET Tabs]
      /\ profile \in [Tabs -> Events \cup {Nothing}]
      /\ questions \in [Tabs -> Contents \cup {Nothing}]
      /\ asOf \in [Tabs -> Versions]
  BY <1>1, BoundsAssumption DEF Init, Listened
<1>3. server \in [Targets -> Contents] /\ cache \in [Targets -> Contents]
      /\ token \in [Targets -> Versions] /\ keys \subseteq Targets
  <2>1. Unknown \in Contents
    BY <1>1 DEF Unknown, NoDocument, Contents
  <2>2. CASE /\ \E e \in BOOLEAN :
                  server = [t \in Targets |-> [at |-> 1, exists |-> t = Questions \/ e]]
             /\ cache = [t \in Targets |-> Unknown] /\ token = [t \in Targets |-> 0] /\ keys = {}
    <3>1. PICK e \in BOOLEAN : server = [t \in Targets |-> [at |-> 1, exists |-> t = Questions \/ e]]
      BY <2>2
    <3>2. \A t \in Targets : [at |-> 1, exists |-> t = Questions \/ e] \in Contents
      BY <1>1 DEF Contents
    <3>3. QED
      BY <1>1, <2>1, <2>2, <3>1, <3>2
  <2>3. CASE /\ server = [t \in Targets |-> [at |-> 1, exists |-> TRUE]]
             /\ cache = server /\ token = [t \in Targets |-> 1] /\ keys = Targets
    BY <1>1, <2>3 DEF Contents
  <2>4. QED
    BY <2>2, <2>3 DEF Init
<1>4. Kinds(w)
  BY DEF Init, Nowhere, Kinds, Fields, States, Onlines
<1>5. Docs
  BY DEF Init, Docs, Places
<1>6. QED
  BY <1>2, <1>3, <1>4, <1>5 DEF Types

\* The types, with what holds of the stream, are TypeOK.
LEMMA TypesTell ==
    ASSUME Types, Truth
    PROVE  TypeOK
<1>1. IsOpen(w) \/ (w.outgoing = <<>> /\ DOMAIN w.states = {} /\ DOMAIN w.updates = {})
  BY DEF Truth, Inv, Closed, Denials
<1>2. \A t \in DOMAIN w.states : w.states[t].outstanding \in Int
  BY DEF Truth, Inv, Shape, IsTargetState
<1>3. w.listens \subseteq Targets
  BY DEF Truth, Typed
<1>4. QED
  BY <1>1, <1>2, <1>3 DEF Types, TypeOK, Kinds, Listened, States, Onlines

\* Every variable has its type, and what stands for one RPC is there only while
\* its stream is open (remote_store.cc:200-202), however many tabs are loaded
\* and whatever goes wrong.
THEOREM ReadsTypeCorrect == Spec => []TypeOK
<1>1. /\ Init => Truth /\ Posted /\ Types
      /\ Truth /\ Posted /\ Types /\ [Next]_vars => (Truth /\ Posted /\ Types)'
  <2>1. Init => Truth /\ Posted /\ Types
    BY InitTruth, InitTypes
  <2>2. ASSUME Truth, Posted, Types, [Next]_vars PROVE (Truth /\ Posted /\ Types)'
    <3>1. Truth' /\ Posted'
      BY <2>2, NextKeepsTruth, NextKeepsPosted
    <3>2. Types'
      BY <2>2, <3>1, NextKeepsTypes
    <3>3. QED
      BY <3>1, <3>2
  <2>3. QED
    BY <2>1, <2>2
<1>2. Truth /\ Types => TypeOK
  BY TypesTell
<1>3. QED
  BY <1>1, <1>2, PTL DEF Spec

(***************************************************************************)
(* Reads are fresh.  A read's events come after its query was asked for,   *)
(* and the readers of the profile at one time were asked for together.     *)
(* While the server serves them, what is known of the document is as new   *)
(* as that, or is on its way, or nothing is known.                         *)
(***************************************************************************)

Wanted ==
    /\ \A t \in Targets : listeners[t] # {} <=> t \in w.listens
    /\ current \subseteq w.listens

\* The task of a tab's read, and the tabs whose read has not begun.
IsRead(task) == task.op = "listen" /\ task.target = Profile
NotAsked(n)  == n > tabs \/ \E i \in 1..Len(worker) : IsRead(worker[i]) /\ worker[i].tab = n

Asking ==
    /\ \A n \in Tabs : NotAsked(n) => n \notin listeners[Profile] /\ profile[n] = Nothing
    /\ \A i, j \in 1..Len(worker) :
         IsRead(worker[i]) /\ IsRead(worker[j]) /\ i # j => worker[i].tab # worker[j].tab
    /\ \A i \in 1..Len(worker) : IsRead(worker[i]) => worker[i].tab <= tabs

Together ==
    /\ \A n \in Tabs : asOf[n] <= server[Profile].at
    /\ \A m, n \in listeners[Profile] : asOf[m] = asOf[n]

\* An event for a read: the read has begun, and it is fresh.
Fresh(ev) ==
    ev.target = Profile =>
      /\ ~NotAsked(ev.tab)
      /\ ev.ok /\ ~ev.fromCache => ev.content.at >= asOf[ev.tab]

FreshEvents == \A i \in 1..Len(main) : Fresh(main[i])

\* Before place i of the answers the profile is known to be as new as a, or to
\* be on its way, or nothing is known of it.
KnownBefore(a, i) ==
    \/ cache[Profile].at >= a
    \/ Profile \notin keys
    \/ InForce(Profile) /\ Profile \in DOMAIN w.updates
    \/ \E k \in Places : k < i /\ Since(answers, k, Profile) /\ IsDocument(answers[k], Profile)

Served(a) ==
    /\ KnownBefore(a, Len(answers) + 1)
    /\ InForce(Profile) /\ Profile \in DOMAIN w.updates => w.updates[Profile].at >= a
    /\ \A i \in Places : Since(answers, i, Profile) =>
         /\ IsDocument(answers[i], Profile) => answers[i].content.at >= a
         /\ IsSnapshot(answers[i]) => answers[i].version >= a /\ KnownBefore(a, i)

Answering(a) ==
    /\ Profile \in current => cache[Profile].at >= a
    /\ Settled(Profile) => Served(a)

Reading ==
    /\ Wanted /\ Asking /\ Together /\ FreshEvents /\ ReadIsFresh
    /\ \A n \in listeners[Profile] : Answering(asOf[n])

Base == Truth /\ Posted /\ Types

(***************************************************************************)
(* The events.                                                             *)
(***************************************************************************)

\* A read, once begun, is not asked for again.
Begun == /\ \A n \in Tabs : NotAsked(n)' => NotAsked(n)
         /\ \A n \in Tabs : asOf'[n] = asOf[n] \/ NotAsked(n)

LEMMA StillFresh ==
    ASSUME Begun, NEW ev \in Events, Fresh(ev)
    PROVE  Fresh(ev)'
<1>1. ev.tab \in Tabs
  BY DEF Events
<1>2. QED
  BY <1>1 DEF Begun, Fresh

\* The fresh events after the step.
LEMMA MainWasFresh ==
    ASSUME Types, FreshEvents, Begun, NEW E, E = {ev \in Events : Fresh(ev)'}
    PROVE  main \in Seq(E)
<1>1. main \in Seq(Events)
  BY DEF Types
<1>2. ASSUME NEW i \in 1..Len(main) PROVE main[i] \in E
  <2>1. main[i] \in Events /\ Fresh(main[i])
    BY <1>1 DEF FreshEvents
  <2>2. PICK ev \in Events : ev = main[i] /\ Fresh(ev)
    BY <2>1
  <2>3. Fresh(ev)'
    BY <2>2, StillFresh
  <2>4. QED
    BY <2>2, <2>3
<1>3. QED
  BY <1>1, <1>2

\* Nothing but fresh events in the main queue.
LEMMA MainIsFresh ==
    ASSUME NEW E, E = {ev \in Events : Fresh(ev)'}, main' \in Seq(E)
    PROVE  FreshEvents'
<1>1. \A i \in 1..Len(main') : main'[i] \in E
  OBVIOUS
<1>2. ASSUME NEW i \in 1..Len(main') PROVE Fresh(main[i])'
  <2>1. PICK ev \in E : ev = main'[i]
    BY <1>1
  <2>2. Fresh(ev)'
    BY <2>1
  <2>3. QED
    BY <2>1, <2>2 DEF Fresh
<1>3. QED
  BY <1>2 DEF FreshEvents

\* An event of a listener is fresh if it says that it is from the cache or has
\* a document that is new enough.
LEMMA EventIsFresh ==
    ASSUME NEW n \in Tabs, NEW t \in Targets, NEW c \in Contents, NEW b \in BOOLEAN,
           t = Profile => ~NotAsked(n)' /\ (~b => c.at >= asOf'[n]),
           NEW E, E = {ev \in Events : Fresh(ev)'}
    PROVE  Event(n, t, c, b) \in E
<1>1. PICK ev : ev = Event(n, t, c, b)
  OBVIOUS
<1>2. ev \in Events
  BY <1>1, EventIsEvent
<1>3. ev.tab = n /\ ev.target = t /\ ev.content = c /\ ev.fromCache = b
  BY <1>1 DEF Event
<1>4. Fresh(ev)'
  BY <1>3 DEF Fresh
<1>5. QED
  BY <1>1, <1>2, <1>4

\* The listeners, told of what is known before the step.
LEMMA CacheIsFresh ==
    ASSUME Types, Reading, Begun, UNCHANGED asOf,
           NEW E, E = {ev \in Events : Fresh(ev)'}
    PROVE  \A t \in Targets : \A n \in listeners[t] :
              /\ Event(n, t, cache[t], TRUE) \in E
              /\ t \in current => Event(n, t, cache[t], FALSE) \in E
<1>1. ASSUME NEW t \in Targets, NEW n \in listeners[t], NEW b \in BOOLEAN, ~b => t \in current
      PROVE  Event(n, t, cache[t], b) \in E
  <2>1. n \in Tabs /\ cache[t] \in Contents
    BY DEF Types, Listened
  <2>2. ASSUME t = Profile PROVE ~NotAsked(n)' /\ (~b => cache[t].at >= asOf'[n])
    <3>1. ~NotAsked(n)'
      BY <2>1, <2>2 DEF Reading, Asking, Begun
    <3>2. Answering(asOf[n])
      BY <2>2 DEF Reading
    <3>3. ~b => cache[t].at >= asOf'[n]
      BY <1>1, <2>2, <3>2 DEF Answering
    <3>4. QED
      BY <3>1, <3>3
  <2>3. QED
    BY <2>1, <2>2, EventIsFresh
<1>2. PICK yes \in BOOLEAN : yes = TRUE
  OBVIOUS
<1>3. PICK no \in BOOLEAN : no = FALSE
  OBVIOUS
<1>4. \A t \in Targets : \A n \in listeners[t] :
        /\ Event(n, t, cache[t], yes) \in E
        /\ t \in current => Event(n, t, cache[t], no) \in E
  BY <1>1, <1>2
<1>5. QED
  BY <1>2, <1>3, <1>4

\* Told of the online state they hear what is fresh.
LEMMA ToldFresh ==
    ASSUME Types, Reading, Begun, UNCHANGED asOf, Kinds(w'), Told
    PROVE  current' \subseteq current /\ FreshEvents'
<1>1. PICK E : E = {ev \in Events : Fresh(ev)'}
  OBVIOUS
<1>2. main \in Seq(E)
  BY <1>1, MainWasFresh DEF Reading
<1>3. \A t \in Targets : \A n \in listeners[t] :
         /\ Event(n, t, cache[t], TRUE) \in E
         /\ t \in current => Event(n, t, cache[t], FALSE) \in E
  BY <1>1, CacheIsFresh
<1>4. current' \subseteq current /\ main' \in Seq(E)
  BY <1>2, <1>3, ToldShows
<1>5. QED
  BY <1>1, <1>4, MainIsFresh

(***************************************************************************)
(* Steps of which the listeners hear no more than the online state.        *)
(***************************************************************************)

\* What answers the reads is as it was.
LEMMA SameAnswering ==
    ASSUME NEW a, Answering(a), UNCHANGED <<answers, cache, keys>>, current' \subseteq current,
           Settled(Profile)' => Settled(Profile) /\ w'.updates = w.updates
    PROVE  Answering(a)'
<1>1. CASE ~Settled(Profile)'
  BY <1>1 DEF Answering
<1>2. CASE Settled(Profile)'
  <2>1. Settled(Profile) /\ w'.updates = w.updates /\ Places' = Places
    BY <1>2 DEF Places
  <2>2. InForce(Profile)' <=> InForce(Profile)
    BY <1>2, <2>1 DEF Settled, InForce
  <2>3. \A i : KnownBefore(a, i)' <=> KnownBefore(a, i)
    BY <2>1, <2>2 DEF KnownBefore
  <2>4. Served(a)
    BY <2>1 DEF Answering
  <2>5. Served(a)'
    BY <2>1, <2>2, <2>3, <2>4 DEF Served
  <2>6. QED
    BY <2>5 DEF Answering
<1>3. QED
  BY <1>1, <1>2

\* The server no longer serves the profile.
LEMMA UnservedAnswering ==
    ASSUME NEW a, Answering(a), cache' = cache, current' \subseteq current, ~Settled(Profile)'
    PROVE  Answering(a)'
  BY DEF Answering

\* A step that leaves the reads and who listens alone.
LEMMA QuietReading ==
    ASSUME Types, Reading, UNCHANGED <<tabs, worker, listeners, asOf, profile>>,
           w'.listens = w.listens, current' \subseteq w.listens, FreshEvents',
           server[Profile].at <= server'[Profile].at, server'[Profile].at \in Nat,
           \A n \in listeners[Profile] : \A a : a = asOf[n] => Answering(a)'
    PROVE  Reading'
<1>1. Wanted' /\ ReadIsFresh'
  BY DEF Reading, Wanted, ReadIsFresh
<1>2. Asking'
  BY DEF Reading, Asking, NotAsked
<1>3. \A n \in Tabs : asOf[n] \in Nat /\ server[Profile].at \in Nat
  BY TargetsAre DEF Types, Versions, Contents
<1>4. Together'
  BY <1>3 DEF Reading, Together
<1>5. \A n \in listeners'[Profile] : Answering(asOf[n])'
  <2>1. ASSUME NEW n \in listeners[Profile] PROVE Answering(asOf[n])'
    <3>1. PICK a : a = asOf[n]
      OBVIOUS
    <3>2. Answering(a)'
      BY <3>1
    <3>3. QED
      BY <3>1, <3>2 DEF Answering, Served, KnownBefore
  <2>2. QED
    BY <2>1
<1>6. QED
  BY <1>1, <1>2, <1>4, <1>5 DEF Reading

\* No read begins.
LEMMA QuietBegun ==
    ASSUME UNCHANGED <<tabs, worker, asOf>>
    PROVE  Begun
  BY DEF Begun, NotAsked

\* Versions are numbers.
LEMMA ServerIsTyped ==
    ASSUME Types
    PROVE  /\ server[Profile].at \in Nat /\ cache[Profile].at \in Nat
           /\ \A n \in Tabs : asOf[n] \in Nat
  BY TargetsAre DEF Types, Versions, Contents

\* A step of which listeners hear no more than the online state, after which the
\* server serves no more than before.
LEMMA ToldReading ==
    ASSUME Base, Reading, Told, Kinds(w'), w'.listens = w.listens,
           UNCHANGED <<tabs, worker, storeVars, listeners, asOf, profile, server>>,
           \/ ~Settled(Profile)'
           \/ answers' = answers /\ serving' = serving /\ w'.outgoing = w.outgoing /\ w'.updates = w.updates
    PROVE  Reading'
<1>1. Types /\ Begun
  BY QuietBegun DEF Base
<1>2. current' \subseteq current /\ FreshEvents'
  BY <1>1, ToldFresh
<1>3. ASSUME NEW n \in listeners[Profile], NEW a, a = asOf[n]
      PROVE  Answering(a)'
  <2>1. Answering(a) /\ cache' = cache /\ keys' = keys
    BY <1>3 DEF Reading, storeVars
  <2>2. CASE ~Settled(Profile)'
    BY <1>2, <2>1, <2>2, UnservedAnswering
  <2>3. CASE answers' = answers /\ serving' = serving /\ w'.outgoing = w.outgoing /\ w'.updates = w.updates
    <3>1. Settled(Profile)' => Settled(Profile)
      BY <2>3 DEF Settled, Silent
    <3>2. QED
      BY <1>2, <2>1, <2>3, <3>1, SameAnswering
  <2>4. QED
    BY <2>2, <2>3
<1>4. current' \subseteq w.listens
  BY <1>2 DEF Reading, Wanted
<1>5. QED
  BY <1>1, <1>2, <1>3, <1>4, ServerIsTyped, QuietReading

\* With its stream, what the server serves is gone.
LEMMA AbandonedUnsettles ==
    ASSUME Abandon
    PROVE  ~Settled(Profile)'
  BY DEF Abandon, Settled

LEMMA StreamEndsReading ==
    ASSUME Base, Reading, StreamEnds
    PROVE  Reading'
<1>1. Shape(w) /\ DOMAIN w = Fields /\ Kinds(w)
  BY DEF Base, Truth, Inv, Shape, Types
<1>2. Kinds(w') /\ w'.listens = w.listens
  BY <1>1, BreakKinds, BreakLeaves DEF StreamEnds, Ends
<1>3. QED
  BY <1>2, AbandonedUnsettles, ToldReading DEF StreamEnds

LEMMA TellingReading ==
    ASSUME Base, Reading,
           HandleCredential \/ StreamOpens \/ BackoffElapses \/ RunOnlineTimer \/ RunIdleTimer
    PROVE  Reading'
<1>1. Shape(w) /\ DOMAIN w = Fields /\ Kinds(w) /\ Inv
  BY DEF Base, Truth, Inv, Shape, Types
<1>2. ~IsOpen(w) => serving = {} /\ Closed(w)
  BY <1>1 DEF Inv
<1>3. CASE HandleCredential
  <2>1. Kinds(w') /\ w'.listens = w.listens
    BY <1>1, <1>3, CredentialChangeKinds, CredentialChangeLeaves DEF HandleCredential
  <2>2. QED
    BY <1>3, <2>1, AbandonedUnsettles, ToldReading DEF HandleCredential
<1>4. CASE StreamOpens
  <2>1. PICK order \in SetToSeqs(w.listens) : w' = OnWatchStreamOpen(w, order, token)
    BY <1>4 DEF StreamOpens, Opens
  <2>2. ~IsOpen(w) /\ serving' = {}
    BY <1>2, <1>4 DEF StreamOpens, Opens, IsOpen, streamVars
  <2>3. Kinds(w')
    BY <1>1, <2>1, OpenKinds DEF Base, Truth, Typed
  <2>4. w'.listens = w.listens
    BY <1>1, <1>2, <2>1, <2>2, OpenRequests DEF AsksForAll
  <2>5. ~Settled(Profile)'
    BY <2>2 DEF Settled
  <2>6. QED
    BY <1>4, <2>3, <2>4, <2>5, ToldReading DEF StreamOpens, worldVars
<1>5. CASE BackoffElapses
  <2>1. w' = [w EXCEPT !.state = "Starting"] /\ ~IsOpen(w) /\ serving' = serving
    BY <1>5 DEF BackoffElapses, Retries, IsOpen, streamVars
  <2>2. Kinds(w') /\ w'.listens = w.listens
    BY <1>1, <2>1 DEF Kinds, Fields, States
  <2>3. ~Settled(Profile)'
    BY <1>2, <2>1 DEF Settled
  <2>4. QED
    BY <1>5, <2>2, <2>3, ToldReading DEF BackoffElapses, worldVars
<1>6. CASE RunOnlineTimer
  <2>1. w' = TimeOut(w)
    BY <1>6 DEF RunOnlineTimer
  <2>2. Kinds(w')
    BY <1>1, <2>1, TrackerKinds DEF Onlines
  <2>3. w'.listens = w.listens /\ w'.outgoing = w.outgoing /\ w'.updates = w.updates
    BY <1>1, <2>1 DEF TimeOut, Assert_, Fields
  <2>4. QED
    BY <1>6, <2>2, <2>3, ToldReading DEF RunOnlineTimer, streamVars, worldVars
<1>7. CASE RunIdleTimer
  <2>1. PICK yes : yes = TRUE
    OBVIOUS
  <2>2. w' = Stop(w, yes)
    BY <1>7, <2>1 DEF RunIdleTimer
  <2>3. Kinds(w') /\ w'.listens = w.listens
    BY <1>1, <2>2, StopKinds, StopLeaves
  <2>4. QED
    BY <1>7, <2>3, AbandonedUnsettles, ToldReading DEF RunIdleTimer, worldVars
<1>8. QED
  BY <1>3, <1>4, <1>5, <1>6, <1>7

(***************************************************************************)
(* The steps of the application.                                           *)
(***************************************************************************)

LEMMA OpenTabReading ==
    ASSUME Base, Reading, OpenTab
    PROVE  Reading'
<1>1. PICK p : p = ListenTask(tabs', Profile)
  OBVIOUS
<1>2. PICK q : q = ListenTask(tabs', Questions)
  OBVIOUS
<1>3. /\ tabs \in Nat /\ tabs' = tabs + 1 /\ worker' = worker \o <<p, q>>
      /\ UNCHANGED <<main, cache, keys, current, listeners, w, profile, server, serving, answers, asOf>>
  BY <1>1, <1>2 DEF OpenTab, Base, Types, clientVars, storeVars, streamVars, worldVars
<1>4. IsRead(p) /\ ~IsRead(q) /\ p.tab = tabs + 1
  BY <1>1, <1>2, <1>3, TargetsAre DEF IsRead, ListenTask
<1>5. PICK len \in Nat : len = Len(worker)
  BY Appended DEF Base, Posted
<1>6. /\ Len(worker') = len + 2 /\ worker'[len + 1] = p /\ worker'[len + 2] = q
      /\ \A i \in 1..len : worker'[i] = worker[i]
  <2>1. worker' = Append(Append(worker, p), q) /\ IsSeq(worker)
    BY <1>3, Extended DEF Base, Posted
  <2>2. PICK s : s = Append(worker, p)
    OBVIOUS
  <2>3. /\ IsSeq(s) /\ Len(s) = len + 1 /\ s[len + 1] = p
        /\ \A i \in 1..len : s[i] = worker[i]
    BY <1>5, <2>1, <2>2, Appended
  <2>4. /\ Len(worker') = len + 2 /\ worker'[len + 2] = q
        /\ \A i \in 1..(len + 1) : worker'[i] = s[i]
    BY <2>1, <2>2, <2>3, Appended
  <2>5. QED
    BY <2>3, <2>4
<1>7. \A i \in 1..(len + 2) : IsRead(worker'[i]) =>
         \/ i \in 1..len /\ worker'[i] = worker[i] /\ IsRead(worker[i])
         \/ i = len + 1 /\ worker'[i].tab = tabs + 1
  BY <1>4, <1>6
<1>8. \A n \in Tabs : NotAsked(n)' => NotAsked(n)
  <2>1. ASSUME NEW n \in Tabs, NotAsked(n)' PROVE NotAsked(n)
    <3>1. n \in Nat
      BY BoundsAssumption DEF Tabs
    <3>2. CASE n > tabs'
      BY <1>3, <3>1, <3>2 DEF NotAsked
    <3>3. ASSUME NEW i \in 1..Len(worker'), IsRead(worker'[i]), worker'[i].tab = n
          PROVE  NotAsked(n)
      <4>1. CASE i \in 1..len /\ worker'[i] = worker[i] /\ IsRead(worker[i])
        BY <1>5, <3>3, <4>1 DEF NotAsked
      <4>2. CASE worker'[i].tab = tabs + 1
        BY <1>3, <3>3, <4>2 DEF NotAsked
      <4>3. QED
        BY <1>6, <1>7, <3>3, <4>1, <4>2
    <3>4. QED
      BY <2>1, <3>2, <3>3 DEF NotAsked, IsRead
  <2>2. QED
    BY <2>1
<1>9. Asking'
  <2>1. \A n \in Tabs : NotAsked(n)' => n \notin listeners'[Profile] /\ profile'[n] = Nothing
    BY <1>3, <1>8 DEF Reading, Asking
  <2>2. ASSUME NEW i \in 1..Len(worker'), IsRead(worker'[i]) PROVE worker'[i].tab <= tabs'
    <3>1. CASE i \in 1..len /\ worker'[i] = worker[i] /\ IsRead(worker[i])
      <4>1. worker[i].tab <= tabs /\ worker[i] \in Tasks
        BY <1>5, <3>1 DEF Reading, Asking, Base, Types
      <4>2. worker[i].tab \in Nat
        BY <4>1, BoundsAssumption DEF Tasks, Tabs
      <4>3. QED
        BY <1>3, <3>1, <4>1, <4>2
    <3>2. CASE worker'[i].tab = tabs + 1
      BY <1>3, <3>2
    <3>3. QED
      BY <1>6, <1>7, <2>2, <3>1, <3>2
  <2>3. ASSUME NEW i \in 1..Len(worker'), NEW j \in 1..Len(worker'),
               IsRead(worker'[i]), IsRead(worker'[j]), i # j
        PROVE  worker'[i].tab # worker'[j].tab
    <3>1. ASSUME NEW k \in 1..len, IsRead(worker[k]) PROVE worker[k].tab # tabs + 1
      <4>1. worker[k].tab <= tabs /\ worker[k] \in Tasks
        BY <1>5, <3>1 DEF Reading, Asking, Base, Types
      <4>2. worker[k].tab \in Nat
        BY <4>1, BoundsAssumption DEF Tasks, Tabs
      <4>3. QED
        BY <1>3, <4>1, <4>2
    <3>2. /\ i \in 1..(len + 2) /\ j \in 1..(len + 2)
      BY <1>6
    <3>3. CASE i \in 1..len /\ worker'[i] = worker[i] /\ IsRead(worker[i])
      <4>1. CASE j \in 1..len /\ worker'[j] = worker[j] /\ IsRead(worker[j])
        BY <1>5, <2>3, <3>3, <4>1 DEF Reading, Asking
      <4>2. CASE j = len + 1 /\ worker'[j].tab = tabs + 1
        BY <3>1, <3>3, <4>2
      <4>3. QED
        BY <1>7, <2>3, <3>2, <4>1, <4>2
    <3>4. CASE i = len + 1 /\ worker'[i].tab = tabs + 1
      <4>1. j \in 1..len /\ worker'[j] = worker[j] /\ IsRead(worker[j])
        BY <1>7, <2>3, <3>2, <3>4
      <4>2. QED
        BY <3>1, <3>4, <4>1
    <3>5. QED
      BY <1>7, <2>3, <3>2, <3>3, <3>4
  <2>4. QED
    BY <2>1, <2>2, <2>3 DEF Asking, IsRead
<1>10. FreshEvents'
  <2>1. PICK E : E = {ev \in Events : Fresh(ev)'}
    OBVIOUS
  <2>2. Begun
    BY <1>3, <1>8 DEF Begun
  <2>3. main' \in Seq(E)
    BY <1>3, <2>1, <2>2, MainWasFresh DEF Reading, Base
  <2>4. QED
    BY <2>1, <2>3, MainIsFresh
<1>11. /\ Wanted' /\ Together' /\ ReadIsFresh'
       /\ \A n \in listeners'[Profile] : Answering(asOf[n])'
  <2>1. Wanted' /\ Together' /\ ReadIsFresh'
    BY <1>3 DEF Reading, Wanted, Together, ReadIsFresh
  <2>2. QED
    BY <1>3, <2>1 DEF Reading, Answering, Served, KnownBefore, Settled, InForce, Silent, Places
<1>12. QED
  BY <1>9, <1>10, <1>11 DEF Reading

LEMMA RunEventReading ==
    ASSUME Base, Reading, RunEvent
    PROVE  Reading'
<1>1. PICK ev : ev = Head(main)
  OBVIOUS
<1>2. /\ main # <<>> /\ main' = Tail(main)
      /\ UNCHANGED <<tabs, cache, keys, current, listeners, server, serving, answers, asOf>>
  BY DEF RunEvent, storeVars, streamVars, worldVars
<1>3. ev \in Events /\ Fresh(ev) /\ ev.tab \in Tabs
  <2>1. main \in Seq(Events) /\ 1 \in 1..Len(main) /\ ev = main[1]
    BY <1>1, <1>2 DEF Base, Types
  <2>2. ev \in Events
    BY <2>1
  <2>3. Fresh(ev)
    BY <2>1 DEF Reading, FreshEvents
  <2>4. ev.tab \in Tabs
    BY <2>2 DEF Events
  <2>5. QED
    BY <2>2, <2>3, <2>4
<1>4. \/ UNCHANGED <<profile, worker, w>>
      \/ /\ ev.target = Profile
         /\ profile' = [profile EXCEPT ![ev.tab] = ev]
         /\ worker' = worker \/ worker' = Append(worker, RemoveTask(ev.tab))
         /\ \E b : w' = Assert_(w, b)
  BY <1>1 DEF RunEvent
<1>5. w'.listens = w.listens /\ w'.outgoing = w.outgoing /\ w'.updates = w.updates
  <2>1. \A b : LET v == Assert_(w, b)
               IN  v.listens = w.listens /\ v.outgoing = w.outgoing /\ v.updates = w.updates
    BY DEF Assert_, Base, Truth, Inv, Shape, Fields
  <2>2. QED
    BY <1>4, <2>1
<1>6. PICK len \in Nat : len = Len(worker)
  BY Appended DEF Base, Posted
<1>7. \A i \in 1..Len(worker') : IsRead(worker'[i]) => i \in 1..len /\ worker'[i] = worker[i]
  <2>1. CASE worker' = worker
    BY <1>6, <2>1
  <2>2. CASE worker' = Append(worker, RemoveTask(ev.tab))
    <3>1. PICK x : x = RemoveTask(ev.tab)
      OBVIOUS
    <3>2. ~IsRead(x)
      BY <3>1 DEF IsRead, RemoveTask
    <3>3. /\ Len(worker') = len + 1 /\ worker'[len + 1] = x
          /\ \A i \in 1..len : worker'[i] = worker[i]
      BY <1>6, <2>2, <3>1, Appended DEF Base, Posted
    <3>4. QED
      BY <3>2, <3>3
  <2>3. QED
    BY <1>4, <2>1, <2>2
<1>8. \A n : NotAsked(n)' => NotAsked(n)
  BY <1>2, <1>6, <1>7 DEF NotAsked, IsRead
<1>9. Asking'
  <2>1. ASSUME NEW n \in Tabs, NotAsked(n)' PROVE n \notin listeners'[Profile] /\ profile'[n] = Nothing
    <3>1. NotAsked(n)
      BY <1>8, <2>1
    <3>2. CASE profile' = profile
      BY <1>2, <3>1, <3>2 DEF Reading, Asking
    <3>3. CASE ev.target = Profile /\ profile' = [profile EXCEPT ![ev.tab] = ev]
      <4>1. n # ev.tab
        BY <1>3, <3>1, <3>3 DEF Fresh
      <4>2. profile \in [Tabs -> Events \cup {Nothing}]
        BY DEF Base, Types
      <4>3. QED
        BY <1>2, <3>1, <3>3, <4>1, <4>2 DEF Reading, Asking
    <3>4. QED
      BY <1>4, <3>2, <3>3
  <2>2. \A i, j \in 1..Len(worker') :
          IsRead(worker'[i]) /\ IsRead(worker'[j]) /\ i # j => worker'[i].tab # worker'[j].tab
    BY <1>6, <1>7 DEF Reading, Asking
  <2>3. \A i \in 1..Len(worker') : IsRead(worker'[i]) => worker'[i].tab <= tabs'
    BY <1>2, <1>6, <1>7 DEF Reading, Asking
  <2>4. QED
    BY <2>1, <2>2, <2>3 DEF Asking, IsRead
<1>10. FreshEvents'
  <2>1. PICK E : E = {x \in Events : Fresh(x)'}
    OBVIOUS
  <2>2. Begun
    BY <1>2, <1>8 DEF Begun
  <2>3. main \in Seq(E)
    BY <2>1, <2>2, MainWasFresh DEF Reading, Base
  <2>4. main' \in Seq(E)
    BY <1>2, <2>3
  <2>5. QED
    BY <2>1, <2>4, MainIsFresh
<1>11. ReadIsFresh'
  <2>1. CASE profile' = profile
    BY <1>2, <2>1 DEF Reading, ReadIsFresh
  <2>2. CASE ev.target = Profile /\ profile' = [profile EXCEPT ![ev.tab] = ev]
    <3>1. ev.ok /\ ~ev.fromCache => ev.content.at >= asOf[ev.tab]
      BY <1>3, <2>2 DEF Fresh
    <3>2. profile \in [Tabs -> Events \cup {Nothing}]
      BY DEF Base, Types
    <3>3. ASSUME NEW n \in Tabs, profile'[n] # Nothing, profile'[n].ok, ~profile'[n].fromCache
          PROVE  profile'[n].content.at >= asOf'[n]
      <4>1. CASE n = ev.tab
        <5>1. profile'[n] = ev
          BY <1>3, <2>2, <3>2, <4>1
        <5>2. QED
          BY <1>2, <3>1, <3>3, <4>1, <5>1
      <4>2. CASE n # ev.tab
        <5>1. profile'[n] = profile[n]
          BY <2>2, <3>2, <4>2
        <5>2. QED
          BY <1>2, <3>3, <5>1 DEF Reading, ReadIsFresh
      <4>3. QED
        BY <4>1, <4>2
    <3>4. QED
      BY <3>3 DEF ReadIsFresh
  <2>3. QED
    BY <1>4, <2>1, <2>2
<1>12. Wanted' /\ Together'
  BY <1>2, <1>5 DEF Reading, Wanted, Together
<1>13. \A n \in listeners'[Profile] : Answering(asOf[n])'
  <2>1. ASSUME NEW n \in listeners[Profile] PROVE Answering(asOf[n])'
    <3>1. PICK a : a = asOf[n]
      OBVIOUS
    <3>2. Answering(a)
      BY <3>1 DEF Reading
    <3>3. Settled(Profile)' => Settled(Profile)
      BY <1>2, <1>5 DEF Settled, Silent
    <3>4. Answering(a)'
      BY <1>2, <1>5, <3>2, <3>3, SameAnswering
    <3>5. QED
      BY <1>2, <3>1, <3>4 DEF Answering, Served, KnownBefore
  <2>2. QED
    BY <1>2, <2>1
<1>14. QED
  BY <1>9, <1>10, <1>11, <1>12, <1>13 DEF Reading

(***************************************************************************)
(* The tasks of the worker queue.                                          *)
(***************************************************************************)

\* A task is taken from the worker queue: no read is asked for anew, and the one
\* that was taken is not asked for any more.
LEMMA TakenTask ==
    ASSUME Base, Reading, worker # <<>>, worker' = Tail(worker), tabs' = tabs,
           NEW m, m = Head(worker).tab
    PROVE  /\ \A n \in Tabs : NotAsked(n)' => NotAsked(n)
           /\ \A i, j \in 1..Len(worker') :
                IsRead(worker'[i]) /\ IsRead(worker'[j]) /\ i # j => worker'[i].tab # worker'[j].tab
           /\ \A i \in 1..Len(worker') : IsRead(worker'[i]) => worker'[i].tab <= tabs'
           /\ IsRead(Head(worker)) => NotAsked(m) /\ ~NotAsked(m)'
<1>1. PICK len \in Nat \ {0} :
        /\ len = Len(worker) /\ Len(worker') = len - 1 /\ Head(worker) = worker[1]
        /\ \A i \in 1..(len - 1) : worker'[i] = worker[i + 1]
  BY Tailed DEF Base, Posted
<1>2. \A i \in 1..(len - 1) : i + 1 \in 1..len /\ i + 1 # 1
  BY <1>1
<1>3. \A i, j \in 1..(len - 1) : i # j => i + 1 # j + 1
  OBVIOUS
<1>4. /\ \A i, j \in 1..len : IsRead(worker[i]) /\ IsRead(worker[j]) /\ i # j => worker[i].tab # worker[j].tab
      /\ \A i \in 1..len : IsRead(worker[i]) => worker[i].tab <= tabs
  BY <1>1 DEF Reading, Asking
<1>5. \A n \in Tabs : NotAsked(n)' => NotAsked(n)
  <2>1. ASSUME NEW n \in Tabs, NotAsked(n)' PROVE NotAsked(n)
    <3>1. CASE n > tabs
      BY <3>1 DEF NotAsked
    <3>2. ASSUME NEW i \in 1..(len - 1), IsRead(worker'[i]), worker'[i].tab = n PROVE NotAsked(n)
      <4>1. i + 1 \in 1..len /\ IsRead(worker[i + 1]) /\ worker[i + 1].tab = n
        BY <1>1, <1>2, <3>2
      <4>2. QED
        BY <1>1, <4>1 DEF NotAsked
    <3>3. QED
      BY <1>1, <2>1, <3>1, <3>2 DEF NotAsked, IsRead
  <2>2. QED
    BY <2>1
<1>6. \A i, j \in 1..(len - 1) :
        IsRead(worker'[i]) /\ IsRead(worker'[j]) /\ i # j => worker'[i].tab # worker'[j].tab
  BY <1>1, <1>2, <1>3, <1>4
<1>7. \A i \in 1..(len - 1) : IsRead(worker'[i]) => worker'[i].tab <= tabs
  BY <1>1, <1>2, <1>4
<1>8. ASSUME IsRead(worker[1])
      PROVE  NotAsked(m) /\ ~NotAsked(m)'
  <2>1. 1 \in 1..len
    BY <1>1
  <2>2. NotAsked(m)
    BY <1>1, <1>8, <2>1 DEF NotAsked
  <2>3. PICK n \in Tabs : n = m /\ n = worker[1].tab
    <3>1. worker[1] \in Tasks
      BY <1>1, <2>1 DEF Base, Types
    <3>2. QED
      BY <1>1, <3>1 DEF Tasks
  <2>4. n <= tabs /\ n \in Nat /\ tabs \in Nat
    BY <1>4, <1>8, <2>1, <2>3, BoundsAssumption DEF Tabs, Base, Types
  <2>5. ~(n > tabs)
    BY <2>4
  <2>6. \A i \in 1..(len - 1) : IsRead(worker'[i]) => worker'[i].tab # n
    BY <1>1, <1>2, <1>4, <1>8, <2>1, <2>3
  <2>7. ~NotAsked(n)'
    BY <1>1, <2>5, <2>6 DEF NotAsked, IsRead
  <2>8. QED
    BY <2>2, <2>3, <2>7
<1>9. QED
  BY <1>1, <1>5, <1>6, <1>7, <1>8

\* A listen is not settled before it is answered, and leaves the other target alone.
LEMMA ListenUnsettles ==
    ASSUME Base, Reading, NEW t \in Targets, listeners[t] = {}, w' = Listen(w, t, token[t]),
           serving' = serving
    PROVE  /\ w'.listens = w.listens \cup {t} /\ t \notin w.listens
           /\ ~Settled(t)'
           /\ \A x \in Targets : Settled(x)' => Settled(x) /\ w'.updates = w.updates
<1>1. t \notin w.listens
  BY DEF Reading, Wanted
<1>2. /\ DOMAIN w = Fields /\ IsSeq(w.outgoing)
      /\ ~IsOpen(w) => serving = {} /\ Closed(w)
  BY DEF Base, Truth, Inv, Shape
<1>3. ~IsOpen(w) => DOMAIN w.updates = {}
  BY DEF Base, Truth, Denials
<1>4. PICK r : r = WatchRequest(t, token[t])
  OBVIOUS
<1>5. r.target = t
  BY <1>4 DEF WatchRequest
<1>6. /\ IsOpen(w) => Requested(w, w', r, w.listens \cup {t})
      /\ ~IsOpen(w) /\ DOMAIN w.updates = {} => w'.listens = w.listens \cup {t}
  BY <1>1, <1>2, <1>4, ListenRequests
<1>7. CASE IsOpen(w)
  <2>1. /\ w'.listens = w.listens \cup {t} /\ w'.updates = w.updates
        /\ w'.outgoing = Append(w.outgoing, r)
    BY <1>6, <1>7 DEF Requested
  <2>2. PICK len \in Nat : /\ len = Len(w.outgoing) /\ Len(w'.outgoing) = len + 1
                           /\ w'.outgoing[len + 1] = r
                           /\ \A i \in 1..len : w'.outgoing[i] = w.outgoing[i]
    BY <1>2, <2>1, Appended
  <2>3. ~Silent(t)'
    BY <1>5, <2>2 DEF Silent
  <2>4. \A x : Silent(x)' => Silent(x)
    BY <2>2 DEF Silent
  <2>5. QED
    BY <1>1, <2>1, <2>3, <2>4 DEF Settled
<1>8. CASE ~IsOpen(w)
  <2>1. serving' = {} /\ w'.listens = w.listens \cup {t}
    BY <1>2, <1>3, <1>6, <1>8
  <2>2. QED
    BY <1>1, <2>1 DEF Settled
<1>9. QED
  BY <1>7, <1>8

LEMMA TakeListenReading ==
    ASSUME Base, Reading, TakeListen
    PROVE  Reading'
<1>t. Types /\ Wanted /\ Asking /\ Together /\ FreshEvents /\ ReadIsFresh
  BY DEF Base, Reading
<1>0. Head(worker) \in Tasks /\ worker # <<>> /\ worker' = Tail(worker) /\ Head(worker).op = "listen"
  BY <1>t, WorkerTail DEF TakeListen
<1>1. PICK n \in Tabs : n = Head(worker).tab
  BY <1>0 DEF Tasks
<1>2. PICK t \in Targets : t = Head(worker).target
  BY <1>0 DEF Tasks
<1>3. UNCHANGED <<tabs, cache, keys, profile, server, serving, answers>>
  BY DEF TakeListen, storeVars, streamVars, worldVars
<1>4. /\ listeners' = [listeners EXCEPT ![t] = @ \cup {n}]
      /\ listeners \in [Targets -> SUBSET Tabs]
  BY <1>t, <1>1, <1>2 DEF TakeListen, Types, Listened
<1>5. w' = IF listeners[t] = {} THEN Listen(w, t, token[t]) ELSE w
  BY <1>1, <1>2 DEF TakeListen
<1>6. asOf' = IF t # Profile THEN asOf
              ELSE [asOf EXCEPT ![n] = IF listeners[t] = {} THEN server[t].at
                      ELSE asOf[CHOOSE m \in listeners[t] : TRUE]]
  BY <1>1, <1>2 DEF TakeListen
<1>7. /\ \A x \in Tabs : NotAsked(x)' => NotAsked(x)
      /\ \A i, j \in 1..Len(worker') :
           IsRead(worker'[i]) /\ IsRead(worker'[j]) /\ i # j => worker'[i].tab # worker'[j].tab
      /\ \A i \in 1..Len(worker') : IsRead(worker'[i]) => worker'[i].tab <= tabs'
      /\ t = Profile => NotAsked(n) /\ ~NotAsked(n)'
  <2>1. t = Profile => IsRead(Head(worker))
    BY <1>0, <1>2 DEF IsRead
  <2>2. QED
    BY <1>0, <1>1, <1>3, <2>1, TakenTask
<1>8. /\ asOf \in [Tabs -> Versions] /\ asOf' \in [Tabs -> Versions]
      /\ \A x \in Tabs : asOf[x] \in Nat
      /\ server[Profile].at \in Nat
  BY <1>t, TakeListenTypes, ServerIsTyped DEF Types
<1>9. \A x \in Tabs : asOf'[x] # asOf[x] => x = n /\ t = Profile
  BY <1>6, <1>8
<1>10. t = Profile => n \notin listeners[Profile] /\ profile[n] = Nothing
  BY <1>7, <1>t DEF Asking
<1>11. t = Profile /\ listeners[t] # {} =>
         \A m \in listeners[Profile] : asOf'[n] = asOf[m]
  BY <1>6, <1>8, <1>t DEF Together
<1>12. t = Profile /\ listeners[t] = {} => asOf'[n] = server[Profile].at
  BY <1>6, <1>8
<1>13. Begun
  BY <1>7, <1>9 DEF Begun
<1>14. current' = current /\ FreshEvents'
  <2>1. PICK c : c = (listeners[t] = {} \/ t \notin current)
    OBVIOUS
  <2>2. PICK yes : yes = TRUE
    OBVIOUS
  <2>3. PICK e : e = Effects
    OBVIOUS
  <2>4. PICK f : f = OnViewSnapshot(e, t, {n}, cache[t], c, yes)
    OBVIOUS
  <2>5. Take(f)
    BY <1>1, <1>2, <2>1, <2>2, <2>3, <2>4 DEF TakeListen
  <2>6. PICK E : E = {ev \in Events : Fresh(ev)'}
    OBVIOUS
  <2>7. e \in EffectsIn(E) /\ e.current = current
    BY <1>t, <2>3, EffectsStart DEF Types, Kinds
  <2>8. c \in BOOLEAN /\ cache[t] \in Contents
    BY <1>t, <2>1 DEF Types
  <2>9. t = Profile => ~NotAsked(n)' /\ (~c => cache[t].at >= asOf'[n])
    <3>1. ASSUME t = Profile, ~c PROVE cache[t].at >= asOf'[n]
      <4>1. PICK m \in listeners[Profile] : Profile \in current
        BY <2>1, <3>1
      <4>2. Answering(asOf[m])
        BY DEF Reading
      <4>3. cache[Profile].at >= asOf[m]
        BY <4>1, <4>2 DEF Answering
      <4>4. QED
        BY <1>11, <3>1, <4>1, <4>3
    <3>2. QED
      BY <1>7, <3>1
  <2>10. \A m \in {n} : Event(m, t, cache[t], c) \in E
    BY <2>6, <2>8, <2>9, EventIsFresh
  <2>11. f \in EffectsIn(E) /\ f.current = current
    BY <2>4, <2>7, <2>10, ViewShown
  <2>12. main \in Seq(E)
    BY <1>13, <1>t, <2>6, MainWasFresh
  <2>13. current' = current /\ main' \in Seq(E)
    BY <2>5, <2>11, <2>12, Taken
  <2>14. QED
    BY <2>6, <2>13, MainIsFresh
<1>15. w'.listens = w.listens \cup {t}
  <2>1. CASE listeners[t] = {}
    BY <1>5, <1>3, <2>1, ListenUnsettles
  <2>2. CASE listeners[t] # {}
    BY <1>5, <1>t, <2>2 DEF Wanted
  <2>3. QED
    BY <2>1, <2>2
<1>16. Wanted'
  BY <1>4, <1>14, <1>15, <1>t DEF Wanted
<1>17. Asking'
  <2>1. ASSUME NEW x \in Tabs, NotAsked(x)' PROVE x \notin listeners'[Profile] /\ profile'[x] = Nothing
    <3>1. NotAsked(x)
      BY <1>7, <2>1
    <3>2. x \notin listeners[Profile] /\ profile'[x] = Nothing
      BY <1>3, <1>t, <3>1 DEF Asking
    <3>3. t = Profile => x # n
      BY <1>7, <2>1
    <3>4. QED
      BY <1>4, <3>2, <3>3, TargetsAre
  <2>2. QED
    BY <1>7, <2>1 DEF Asking, IsRead
<1>18. ReadIsFresh'
  <2>1. ASSUME NEW x \in Tabs, profile'[x] # Nothing PROVE asOf'[x] = asOf[x]
    BY <1>3, <1>9, <1>10, <2>1
  <2>2. QED
    BY <1>3, <1>t, <2>1 DEF ReadIsFresh
<1>19. Together'
  <2>1. \A x \in Tabs : asOf[x] <= server[Profile].at
    BY <1>t DEF Together
  <2>2. \A m, k \in listeners[Profile] : asOf[m] = asOf[k]
    BY <1>t DEF Together
  <2>3. listeners[Profile] \in SUBSET Tabs
    BY <1>4, TargetsAre
  <2>4. CASE t # Profile
    <3>1. listeners'[Profile] = listeners[Profile] /\ asOf' = asOf
      BY <1>4, <1>6, <2>4, TargetsAre
    <3>2. QED
      BY <1>3, <1>t, <3>1 DEF Together
  <2>5. CASE t = Profile
    <3>1. listeners'[Profile] = listeners[Profile] \cup {n}
      BY <1>4, <2>5, TargetsAre
    <3>2. asOf'[n] <= server[Profile].at
      <4>1. CASE listeners[t] = {}
        BY <1>8, <1>12, <2>5, <4>1
      <4>2. CASE listeners[t] # {}
        BY <1>11, <2>1, <2>3, <2>5, <4>2
      <4>3. QED
        BY <4>1, <4>2
    <3>3. \A x \in Tabs : asOf'[x] <= server'[Profile].at
      BY <1>3, <1>9, <2>1, <3>2
    <3>4. \A m \in listeners[Profile] : asOf'[m] = asOf[m]
      BY <1>9, <1>10, <2>3, <2>5
    <3>5. \A m \in listeners[Profile] : asOf'[n] = asOf'[m]
      BY <1>11, <2>5, <3>4
    <3>6. \A m, k \in listeners'[Profile] : asOf'[m] = asOf'[k]
      BY <2>2, <3>1, <3>4, <3>5
    <3>7. QED
      BY <3>3, <3>6 DEF Together
  <2>6. QED
    BY <2>4, <2>5
<1>20. \A x \in listeners'[Profile] : Answering(asOf[x])'
  <2>1. CASE t = Profile /\ listeners[t] = {}
    <3>1. ~Settled(Profile)' /\ Profile \notin current'
      BY <1>3, <1>5, <1>14, <1>t, <2>1, ListenUnsettles DEF Wanted
    <3>2. QED
      BY <3>1 DEF Answering
  <2>2. CASE ~(t = Profile /\ listeners[t] = {})
    <3>1. Settled(Profile)' => Settled(Profile) /\ w'.updates = w.updates
      <4>1. CASE listeners[t] = {}
        BY <1>3, <1>5, <4>1, TargetsAre, ListenUnsettles
      <4>2. CASE listeners[t] # {}
        BY <1>3, <1>5, <4>2 DEF Settled, Silent
      <4>3. QED
        BY <4>1, <4>2
    <3>2. ASSUME NEW x \in listeners'[Profile] PROVE Answering(asOf[x])'
      <4>1. \E m \in listeners[Profile] : asOf'[x] = asOf[m]
        <5>1. CASE x = n /\ t = Profile
          BY <1>11, <2>2, <5>1
        <5>2. CASE ~(x = n /\ t = Profile)
          <6>1. x \in listeners[Profile]
            BY <1>4, <5>2, TargetsAre
          <6>2. x \in Tabs
            BY <1>4, <6>1, TargetsAre
          <6>3. QED
            BY <1>9, <5>2, <6>1, <6>2
        <5>3. QED
          BY <5>1, <5>2
      <4>2. PICK a : a = asOf'[x] /\ \E m \in listeners[Profile] : a = asOf[m]
        BY <4>1
      <4>3. Answering(a)
        BY <4>2 DEF Reading
      <4>4. Answering(a)'
        BY <1>3, <1>14, <3>1, <4>3, SameAnswering
      <4>5. QED
        BY <4>2, <4>4 DEF Answering, Served, KnownBefore
    <3>3. QED
      BY <3>2
  <2>3. QED
    BY <2>1, <2>2
<1>21. QED
  BY <1>14, <1>16, <1>17, <1>18, <1>19, <1>20 DEF Reading

\* The client stops listening, or nothing is sent.
LEMMA StopsListening ==
    ASSUME Base, w' = StopListening(w, Profile)
    PROVE  w'.listens = w.listens \ {Profile}
<1>1. DOMAIN w = Fields
  BY DEF Base, Truth, Inv, Shape
<1>2. PICK r : r = UnwatchRequest(Profile)
  OBVIOUS
<1>3. /\ IsOpen(w) => Requested(w, w', r, w.listens \ {Profile})
      /\ ~IsOpen(w) => w'.listens = w.listens \ {Profile}
  BY <1>1, <1>2, StopListeningRequests
<1>4. QED
  BY <1>3 DEF Requested

LEMMA TakeRemoveReading ==
    ASSUME Base, Reading, TakeRemove
    PROVE  Reading'
<1> DEFINE t == Profile
<1>t. Types /\ Wanted /\ Asking /\ Together /\ FreshEvents /\ ReadIsFresh
  BY DEF Base, Reading
<1>0. Head(worker) \in Tasks /\ worker # <<>> /\ worker' = Tail(worker) /\ Head(worker).op = "remove"
  BY <1>t, WorkerTail DEF TakeRemove
<1>1. PICK n \in Tabs : n = Head(worker).tab
  BY <1>0 DEF Tasks
<1>2. UNCHANGED <<tabs, cache, keys, profile, server, serving, answers, asOf>>
  BY DEF TakeRemove, storeVars, streamVars, worldVars
<1>3. /\ listeners' = [listeners EXCEPT ![t] = @ \ {n}]
      /\ listeners \in [Targets -> SUBSET Tabs]
  BY <1>t, <1>1 DEF TakeRemove, Types, Listened
<1>4. listeners'[t] = listeners[t] \ {n} /\ \A x \in Targets : x # t => listeners'[x] = listeners[x]
  BY <1>3, TargetsAre
<1>5. /\ \A x \in Tabs : NotAsked(x)' => NotAsked(x)
      /\ \A i, j \in 1..Len(worker') :
           IsRead(worker'[i]) /\ IsRead(worker'[j]) /\ i # j => worker'[i].tab # worker'[j].tab
      /\ \A i \in 1..Len(worker') : IsRead(worker'[i]) => worker'[i].tab <= tabs'
  BY <1>0, <1>2, TakenTask
<1>6. Begun
  BY <1>2, <1>5 DEF Begun
<1>7. Asking'
  <2>1. ASSUME NEW x \in Tabs, NotAsked(x)' PROVE x \notin listeners'[Profile] /\ profile'[x] = Nothing
    BY <1>2, <1>4, <1>5, <1>t, <2>1 DEF Asking
  <2>2. QED
    BY <1>5, <2>1 DEF Asking, IsRead
<1>8. ReadIsFresh'
  BY <1>2, <1>t DEF ReadIsFresh
<1>9. Together'
  BY <1>2, <1>4, <1>t DEF Together
<1>10. CASE listeners[t] # {} /\ listeners[t] \ {n} = {}
  <2> DEFINE gone == [Effects EXCEPT !.current = @ \ {t}, !.raised[t] = {}]
  <2>1. /\ w' = StopListening(w, Profile)
        /\ Take(HandleOnlineStateChange(gone, w'.online))
    BY <1>1, <1>10 DEF TakeRemove
  <2>2. w'.listens = w.listens \ {Profile}
    BY <2>1, StopsListening
  <2>3. current' \subseteq current \ {t} /\ FreshEvents'
    <3>1. PICK E : E = {ev \in Events : Fresh(ev)'}
      OBVIOUS
    <3>2. PICK e : e = gone
      OBVIOUS
    <3>3. Effects \in EffectsIn(E) /\ Effects.current = current
      BY <1>t, EffectsStart DEF Types, Kinds
    <3>4. e \in EffectsIn(E) /\ e.current = current \ {t}
      BY <3>2, <3>3 DEF EffectsIn
    <3>5. PICK o \in Onlines : o = w'.online
      <4>1. Kinds(w')
        BY <1>t, <2>1, StopListeningKinds, TargetsAre DEF Types
      <4>2. QED
        BY <4>1 DEF Kinds
    <3>6. PICK f : f = HandleOnlineStateChange(e, o)
      OBVIOUS
    <3>7. \A x \in Targets : \A m \in listeners[x] :
            /\ Event(m, x, cache[x], TRUE) \in E
            /\ x \in current => Event(m, x, cache[x], FALSE) \in E
      BY <1>2, <1>6, <1>t, <3>1, CacheIsFresh
    <3>8. \A x \in Targets : \A m \in listeners[x] :
            /\ Event(m, x, cache[x], TRUE) \in E
            /\ x \in e.current => Event(m, x, cache[x], FALSE) \in E
      BY <3>4, <3>7
    <3>9. Listened
      BY <1>t DEF Types
    <3>10. f \in EffectsIn(E) /\ f.current \subseteq e.current
      BY ONLY <3>4, <3>6, <3>8, <3>9, OnlineStateShown
    <3>11. Take(f)
      BY <2>1, <3>2, <3>5, <3>6
    <3>12. main \in Seq(E)
      BY <1>6, <1>t, <3>1, MainWasFresh
    <3>13. current' = f.current /\ main' \in Seq(E)
      BY <3>10, <3>11, <3>12, Taken
    <3>14. QED
      BY <3>1, <3>4, <3>10, <3>13, MainIsFresh
  <2>4. listeners'[t] = {}
    BY <1>4, <1>10
  <2>5. Wanted'
    BY <1>4, <1>t, <2>2, <2>3, <2>4 DEF Wanted
  <2>6. \A x \in listeners'[Profile] : Answering(asOf[x])'
    BY <2>4
  <2>7. QED
    BY <1>7, <1>8, <1>9, <2>3, <2>5, <2>6 DEF Reading
<1>11. CASE ~(listeners[t] # {} /\ listeners[t] \ {n} = {})
  <2>1. UNCHANGED <<w, current, main>>
    BY <1>1, <1>11 DEF TakeRemove
  <2>2. Wanted'
    BY <1>4, <1>11, <1>t, <2>1 DEF Wanted
  <2>3. FreshEvents'
    <3>1. PICK E : E = {ev \in Events : Fresh(ev)'}
      OBVIOUS
    <3>2. main' \in Seq(E)
      BY <1>6, <1>t, <2>1, <3>1, MainWasFresh
    <3>3. QED
      BY <3>1, <3>2, MainIsFresh
  <2>4. ASSUME NEW x \in listeners'[Profile] PROVE Answering(asOf[x])'
    <3>1. x \in listeners[Profile]
      BY <1>4
    <3>2. PICK a : a = asOf[x]
      OBVIOUS
    <3>3. Answering(a)
      BY <3>1, <3>2 DEF Reading
    <3>4. Settled(Profile)' => Settled(Profile) /\ w'.updates = w.updates
      BY <1>2, <2>1 DEF Settled, Silent
    <3>5. Answering(a)'
      BY <1>2, <2>1, <3>3, <3>4, SameAnswering
    <3>6. QED
      BY <1>2, <3>2, <3>5 DEF Answering, Served, KnownBefore
  <2>5. QED
    BY <1>7, <1>8, <1>9, <2>2, <2>3, <2>4 DEF Reading
<1>12. QED
  BY <1>10, <1>11

\* Messages are added that answer no request of the profile and are as new as a.
Added(a, n, z) ==
    /\ n = Len(answers) /\ n \in Nat /\ z = Len(answers') /\ z \in Nat /\ n <= z
    /\ \A i \in 1..n : answers'[i] = answers[i]
    /\ \A i \in (n + 1)..z :
         /\ ~Counts(answers'[i], Profile)
         /\ IsDocument(answers'[i], Profile) => answers'[i].content.at >= a
         /\ IsSnapshot(answers'[i]) => answers'[i].version >= a

\* Messages are added that are new enough.
LEMMA AddedServed ==
    ASSUME NEW a, Served(a), UNCHANGED <<cache, keys>>, w'.updates = w.updates,
           w'.listens = w.listens, Silent(Profile)' <=> Silent(Profile),
           NEW n, NEW z, Added(a, n, z)
    PROVE  Served(a)'
<1> USE DEF Added
<1>1. Places = 1..n /\ Places' = 1..z /\ 1..n \subseteq 1..z
  BY DEF Places
<1>2. \A i \in 1..z : i \in 1..n \/ (i \in (n + 1)..z /\ ~(i \in 1..n))
  OBVIOUS
<1>3. \A i \in 0..n : Since(answers', i, Profile) <=> Since(answers, i, Profile)
  <2>1. \A k \in 1..n : answers'[k] = answers[k]
    OBVIOUS
  <2>2. \A k \in 1..z : Counts(answers'[k], Profile) => k \in 1..n /\ answers'[k] = answers[k]
    BY <1>2
  <2>3. QED
    BY <1>1, <2>1, <2>2 DEF Since
<1>4. InForce(Profile)' <=> InForce(Profile)
  <2>1. Since(answers', 0, Profile) <=> Since(answers, 0, Profile)
    BY <1>3
  <2>2. QED
    BY <2>1 DEF InForce
<1>5. ASSUME NEW i \in 1..(n + 1), NEW j \in 1..(z + 1), i <= j, KnownBefore(a, i)
      PROVE  KnownBefore(a, j)'
  <2>1. CASE cache[Profile].at >= a \/ Profile \notin keys
    BY <2>1 DEF KnownBefore
  <2>2. CASE InForce(Profile) /\ Profile \in DOMAIN w.updates
    BY <1>4, <2>2 DEF KnownBefore
  <2>3. ASSUME NEW k \in Places, k < i, Since(answers, k, Profile), IsDocument(answers[k], Profile)
        PROVE  KnownBefore(a, j)'
    <3>1. k \in 0..n /\ k \in Places' /\ k < j
      BY <1>1, <1>5, <2>3
    <3>2. Since(answers', k, Profile) /\ IsDocument(answers'[k], Profile)
      BY <1>1, <1>3, <2>3, <3>1
    <3>3. QED
      BY <3>1, <3>2 DEF KnownBefore
  <2>4. QED
    BY <1>5, <2>1, <2>2, <2>3 DEF KnownBefore
<1>6. KnownBefore(a, z + 1)'
  <2>1. KnownBefore(a, n + 1)
    BY DEF Served
  <2>2. n + 1 \in 1..(n + 1) /\ z + 1 \in 1..(z + 1) /\ n + 1 <= z + 1
    OBVIOUS
  <2>3. PICK i, j : i = n + 1 /\ j = z + 1
    OBVIOUS
  <2>4. KnownBefore(a, j)'
    BY <1>5, <2>1, <2>2, <2>3
  <2>5. QED
    BY <2>3, <2>4 DEF KnownBefore
<1>7. ASSUME NEW i \in 1..z, Since(answers', i, Profile)
      PROVE  /\ IsDocument(answers'[i], Profile) => answers'[i].content.at >= a
             /\ IsSnapshot(answers'[i]) => answers'[i].version >= a /\ KnownBefore(a, i)'
  <2>1. CASE i \in 1..n
    <3>1. i \in 0..n /\ i \in 1..(n + 1) /\ i \in 1..(z + 1) /\ i <= i
      BY <2>1
    <3>2. Since(answers, i, Profile) /\ answers'[i] = answers[i]
      BY <1>3, <1>7, <2>1, <3>1
    <3>3. /\ IsDocument(answers[i], Profile) => answers[i].content.at >= a
          /\ IsSnapshot(answers[i]) => answers[i].version >= a /\ KnownBefore(a, i)
      BY <1>1, <2>1, <3>2 DEF Served
    <3>4. QED
      BY <1>5, <3>1, <3>2, <3>3
  <2>2. CASE i \in (n + 1)..z
    <3>1. n + 1 \in 1..(n + 1) /\ i \in 1..(z + 1) /\ n + 1 <= i
      BY <2>2
    <3>2. KnownBefore(a, n + 1)
      BY DEF Served
    <3>3. KnownBefore(a, i)'
      BY <1>5, <3>1, <3>2
    <3>4. QED
      BY <2>2, <3>3
  <2>3. QED
    BY <1>2, <2>1, <2>2
<1>8. InForce(Profile)' /\ Profile \in DOMAIN w'.updates => w'.updates[Profile].at >= a
  BY <1>4 DEF Served
<1>9. QED
  BY <1>1, <1>6, <1>7, <1>8 DEF Served

\* A watch of the profile has been answered: what is known of it is covered by the
\* token, is sent, or is nothing.
LEMMA WatchedServed ==
    ASSUME Base, NEW a \in Nat, a <= server[Profile].at, UNCHANGED <<cache, keys, server>>,
           w'.updates = w.updates,
           NEW n, NEW z, AnswersWatch(Profile, n, z)
    PROVE  Served(a)'
<1>1. /\ n \in Nat /\ z = Len(answers') /\ z \in {n + 3, n + 4}
      /\ answers'[n + 1] = [op |-> "added", target |-> Profile]
      /\ answers'[z - 1] = [op |-> "current", target |-> Profile]
      /\ answers'[z] = [op |-> "snapshot", version |-> LastVersion]
      /\ z = n + 4 => answers'[n + 2] = [op |-> "document", target |-> Profile, content |-> server[Profile]]
      /\ z = n + 3 => server[Profile].at <= token[Profile] \/ token[Profile] = 0
  BY DEF AnswersWatch
<1>2. Places' = 1..z
  BY <1>1 DEF Places
<1>3. /\ server[Profile].at \in Nat /\ LastVersion \in Nat /\ cache[Profile].at \in Nat
      /\ token[Profile] \in Nat /\ server[Profile].at <= LastVersion
  <2>1. Truth /\ Types
    BY DEF Base
  <2>2. LastVersion \in Nat /\ server[Profile].at <= LastVersion
    BY <2>1, LastVersionIsLast, TargetsAre DEF Truth
  <2>3. QED
    BY <2>1, <2>2, TargetsAre DEF Types, Versions, Contents
<1>4. Counts(answers'[n + 1], Profile)
  BY <1>1 DEF Counts
<1>5. \A i \in 1..z : Since(answers', i, Profile) => i = n + 1 \/ i = n + 2 \/ i = z - 1 \/ i = z
  <2>1. \A i \in 1..z : i < n + 1 \/ i = n + 1 \/ i = n + 2 \/ i = z - 1 \/ i = z
    BY <1>1
  <2>2. \A i \in 1..z : i < n + 1 => ~Since(answers', i, Profile)
    BY <1>1, <1>4 DEF Since
  <2>3. QED
    BY <2>1, <2>2
<1>6. ~Since(answers', 0, Profile)
  BY <1>1, <1>4 DEF Since
<1>7. \A i \in 1..z : i > n + 1 => ~Counts(answers'[i], Profile)
  <2>1. \A i \in 1..z : i > n + 1 => (z = n + 4 /\ i = n + 2) \/ i = z - 1 \/ i = z
    BY <1>1
  <2>2. QED
    BY <1>1, <2>1 DEF Counts
<1>8. KnownBefore(a, z)' /\ KnownBefore(a, z + 1)'
  <2>0. PICK i, j : i = z /\ j = z + 1 /\ i > n + 2 /\ j > n + 2
    BY <1>1
  <2>1. CASE z = n + 4
    <3>1. n + 2 \in Places' /\ IsDocument(answers'[n + 2], Profile)
      BY <1>1, <1>2, <2>1 DEF IsDocument
    <3>2. \A k \in 1..z : k > n + 2 => ~Counts(answers'[k], Profile)
      BY <1>1, <1>7
    <3>3. Since(answers', n + 2, Profile)
      BY <1>1, <3>2 DEF Since
    <3>4. KnownBefore(a, i)' /\ KnownBefore(a, j)'
      BY <2>0, <3>1, <3>3 DEF KnownBefore
    <3>5. QED
      BY <2>0, <3>4 DEF KnownBefore
  <2>2. CASE z = n + 3 /\ server[Profile].at <= token[Profile]
    <3>1. cache[Profile].at >= server[Profile].at
      BY <1>3, <2>2, TargetsAre DEF Base, Truth, Knowledge, Covered
    <3>2. cache'[Profile].at >= a
      BY <1>3, <3>1
    <3>3. QED
      BY <3>2 DEF KnownBefore
  <2>3. CASE token[Profile] = 0
    <3>1. Profile \notin keys
      BY <2>3, TargetsAre DEF Base, Truth, Knowledge
    <3>2. QED
      BY <3>1 DEF KnownBefore
  <2>4. QED
    BY <1>1, <2>1, <2>2, <2>3
<1>9. ~InForce(Profile)'
  BY <1>6 DEF InForce
<1>10. ASSUME NEW i \in 1..z, Since(answers', i, Profile)
       PROVE  /\ IsDocument(answers'[i], Profile) => answers'[i].content.at >= a
              /\ IsSnapshot(answers'[i]) => answers'[i].version >= a /\ KnownBefore(a, i)'
  <2>1. CASE i = n + 1
    BY <1>1, <2>1 DEF IsDocument, IsSnapshot
  <2>2. CASE i = z - 1
    BY <1>1, <2>2 DEF IsDocument, IsSnapshot
  <2>3. CASE i = n + 2 /\ z = n + 4
    BY <1>1, <2>3 DEF IsSnapshot
  <2>4. CASE i = z
    <3>1. ~IsDocument(answers'[i], Profile) /\ answers'[i].version >= a
      BY <1>1, <1>3, <2>4 DEF IsDocument
    <3>2. KnownBefore(a, i)'
      BY <1>8, <2>4 DEF KnownBefore
    <3>3. QED
      BY <3>1, <3>2
  <2>5. QED
    BY <1>1, <1>5, <1>10, <2>1, <2>2, <2>3, <2>4
<1>11. QED
  BY <1>1, <1>2, <1>8, <1>9, <1>10 DEF Served

(***************************************************************************)
(* The server's steps.                                                     *)
(***************************************************************************)

\* Nothing is posted, and no read begins.
LEMMA SameFresh ==
    ASSUME Types, FreshEvents, UNCHANGED <<tabs, worker, asOf, main>>
    PROVE  FreshEvents'
<1>1. PICK E : E = {ev \in Events : Fresh(ev)'}
  OBVIOUS
<1>2. main' \in Seq(E)
  BY <1>1, QuietBegun, MainWasFresh
<1>3. QED
  BY <1>1, <1>2, MainIsFresh

LEMMA ServeReading ==
    ASSUME Base, Reading, Serve
    PROVE  Reading'
<1>1. /\ Takes /\ UNCHANGED <<tabs, worker, main, cache, token, keys, current, listeners, profile,
                              server, denied, asOf>>
  BY DEF Serve, storeVars
<1>2. PICK t, n : AnswersRequest(t, n)
  BY ServeAnswers DEF Base
<1>3. PICK r : r = Head(w.outgoing)
  OBVIOUS
<1>4. t = r.target /\ t \in Targets /\ n = Len(answers) /\ n \in Nat
  BY <1>2, <1>3 DEF AnswersRequest
<1>5. /\ w'.listens = w.listens /\ w'.updates = w.updates
      /\ ~Silent(t) /\ \A x : x # t => (Silent(x)' <=> Silent(x))
  BY <1>1, <1>3, <1>4, TakenRequest DEF Base
<1>6. ASSUME NEW m \in listeners[Profile], NEW a, a = asOf[m]
      PROVE  Answering(a)'
  <2>1. Answering(a) /\ a \in Nat /\ a <= server[Profile].at
    <3>1. m \in Tabs
      BY TargetsAre DEF Base, Types, Listened
    <3>2. QED
      BY <1>6, <3>1, ServerIsTyped DEF Reading, Together, Base
  <2>2. Profile \in current' => cache'[Profile].at >= a
    BY <1>1, <2>1 DEF Answering
  <2>3. CASE denied # {} /\ serving' = {}
    BY <2>2, <2>3 DEF Answering, Settled
  <2>4. CASE /\ serving' = serving \ {t}
             /\ Len(answers') = n + 1 /\ answers'[n + 1] = [op |-> "removed", target |-> t]
             /\ \A i \in 1..n : answers'[i] = answers[i]
    <3>1. CASE t = Profile
      BY <2>2, <2>4, <3>1 DEF Answering, Settled
    <3>2. CASE t # Profile
      <4>1. Settled(Profile)' => Settled(Profile)
        BY <1>5, <2>4, <3>2 DEF Settled
      <4>2. PICK z : z = n + 1
        OBVIOUS
      <4>3. Added(a, n, z)
        <5>1. \A i \in (n + 1)..z : i = n + 1
          BY <1>4, <4>2
        <5>2. ~Counts(answers'[n + 1], Profile) /\ ~IsDocument(answers'[n + 1], Profile)
              /\ ~IsSnapshot(answers'[n + 1])
          BY <2>4, <3>2 DEF Counts, IsDocument, IsSnapshot
        <5>3. QED
          BY <1>4, <2>4, <4>2, <5>1, <5>2 DEF Added
      <4>4. Settled(Profile)' => Served(a)'
        BY <1>1, <1>5, <2>1, <3>2, <4>1, <4>3, AddedServed DEF Answering
      <4>5. QED
        BY <2>2, <4>4 DEF Answering
    <3>3. QED
      BY <3>1, <3>2
  <2>5. ASSUME NEW z, AnswersWatch(t, n, z) PROVE Answering(a)'
    <3>1. CASE t = Profile
      <4>1. Served(a)'
        BY <1>1, <1>5, <2>1, <2>5, <3>1, WatchedServed
      <4>2. QED
        BY <2>2, <4>1 DEF Answering
    <3>2. CASE t # Profile
      <4>1. Settled(Profile)' => Settled(Profile)
        BY <1>5, <2>5, <3>2 DEF Settled, AnswersWatch
      <4>2. Added(a, n, z)
        <5>1. /\ z = Len(answers') /\ z \in {n + 3, n + 4}
              /\ \A i \in 1..n : answers'[i] = answers[i]
              /\ answers'[n + 1] = [op |-> "added", target |-> t]
              /\ answers'[z - 1] = [op |-> "current", target |-> t]
              /\ answers'[z] = [op |-> "snapshot", version |-> LastVersion]
              /\ z = n + 4 => answers'[n + 2] = [op |-> "document", target |-> t, content |-> server[t]]
          BY <2>5 DEF AnswersWatch
        <5>2. \A i \in (n + 1)..z : i = n + 1 \/ i = z - 1 \/ i = z \/ (z = n + 4 /\ i = n + 2)
          BY <1>4, <5>1
        <5>3. LastVersion >= a
          <6>1. LastVersion \in Nat /\ server[Profile].at <= LastVersion /\ server[Profile].at \in Nat
            BY LastVersionIsLast, TargetsAre, ServerIsTyped DEF Base, Truth
          <6>2. QED
            BY <2>1, <6>1
        <5>4. ASSUME NEW i \in (n + 1)..z
              PROVE  /\ ~Counts(answers'[i], Profile) /\ ~IsDocument(answers'[i], Profile)
                     /\ IsSnapshot(answers'[i]) => answers'[i].version >= a
          <6>1. CASE i = n + 1
            BY <3>2, <5>1, <6>1 DEF Counts, IsDocument, IsSnapshot
          <6>2. CASE i = z - 1
            BY <3>2, <5>1, <6>2 DEF Counts, IsDocument, IsSnapshot
          <6>3. CASE i = z
            BY <5>1, <5>3, <6>3 DEF Counts, IsDocument, IsSnapshot
          <6>4. CASE z = n + 4 /\ i = n + 2
            BY <3>2, <5>1, <6>4 DEF Counts, IsDocument, IsSnapshot
          <6>5. QED
            BY <5>2, <6>1, <6>2, <6>3, <6>4
        <5>5. z \in Nat /\ n <= z
          BY <1>4, <5>1
        <5>6. QED
          BY <1>4, <5>1, <5>4, <5>5 DEF Added
      <4>3. Settled(Profile)' => Served(a)'
        BY <1>1, <1>5, <2>1, <3>2, <4>1, <4>2, AddedServed DEF Answering
      <4>4. QED
        BY <2>2, <4>3 DEF Answering
    <3>3. QED
      BY <3>1, <3>2
  <2>6. QED
    BY <1>2, <2>3, <2>4, <2>5 DEF AnswersRequest
<1>7. FreshEvents'
  BY <1>1, SameFresh DEF Reading, Base
<1>8. current' \subseteq w.listens
  BY <1>1 DEF Reading, Wanted
<1>9. server[Profile].at <= server'[Profile].at /\ server'[Profile].at \in Nat
  BY <1>1, ServerIsTyped DEF Base
<1>10. QED
  BY <1>1, <1>5, <1>6, <1>7, <1>8, <1>9, QuietReading DEF Base

LEMMA ChangeReading ==
    ASSUME Base, Reading, NEW t \in Targets, Change(t)
    PROVE  Reading'
<1>1. UNCHANGED <<tabs, worker, main, cache, keys, current, listeners, w, profile, serving, asOf>>
  BY DEF Change, clientVars, storeVars
<1>2. PICK n, z : AnswersChange(t, n, z)
  BY ChangeAnswers DEF Base
<1>3. /\ n = Len(answers) /\ n \in Nat /\ z = Len(answers') /\ (z = n \/ z = n + 2)
      /\ \A i \in 1..n : answers'[i] = answers[i]
      /\ z = n + 2 => /\ answers'[n + 1] = [op |-> "document", target |-> t, content |-> server'[t]]
                      /\ answers'[z] = [op |-> "snapshot", version |-> LastVersion']
  BY <1>2 DEF AnswersChange
<1>4. /\ LastVersion \in Nat /\ server[Profile].at <= LastVersion /\ server[Profile].at \in Nat
  BY LastVersionIsLast, TargetsAre, ServerIsTyped DEF Base, Truth
<1>5. /\ server'[t].at = LastVersion + 1 /\ \A x \in Targets : x # t => server'[x] = server[x]
      /\ LastVersion' = LastVersion + 1
  <2>1. PICK e \in BOOLEAN : server' = [server EXCEPT ![t] = [at |-> LastVersion + 1, exists |-> e]]
    BY DEF Change
  <2>2. /\ server'[t].at = LastVersion + 1 /\ \A x \in Targets : x # t => server'[x] = server[x]
    BY <2>1 DEF Base, Truth, Typed
  <2>3. Typed'
    BY ChangeTruth DEF Base, Truth
  <2>4. \A x \in Targets : server[x].at <= LastVersion
    BY LastVersionIsLast DEF Base, Truth
  <2>5. LastVersion' = LastVersion + 1
    BY <1>4, <2>2, <2>3, <2>4, NextLastVersion
  <2>6. QED
    BY <2>2, <2>5
<1>6. server[Profile].at <= server'[Profile].at /\ server'[Profile].at \in Nat
  <2>1. CASE t = Profile
    BY <1>4, <1>5, <2>1
  <2>2. CASE t # Profile
    BY <1>4, <1>5, <2>2, TargetsAre
  <2>3. QED
    BY <2>1, <2>2
<1>7. ASSUME NEW m \in listeners[Profile], NEW a, a = asOf[m]
      PROVE  Answering(a)'
  <2>1. Answering(a) /\ a \in Nat /\ a <= server[Profile].at
    <3>1. m \in Tabs
      BY TargetsAre DEF Base, Types, Listened
    <3>2. QED
      BY <1>7, <3>1, ServerIsTyped DEF Reading, Together, Base
  <2>2. Added(a, n, z)
    <3>1. \A i \in (n + 1)..z : z = n + 2 /\ (i = n + 1 \/ i = z)
      BY <1>3
    <3>2. LastVersion + 1 >= a
      BY <1>4, <2>1
    <3>3. ASSUME NEW i \in (n + 1)..z
          PROVE  /\ ~Counts(answers'[i], Profile)
                 /\ IsDocument(answers'[i], Profile) => answers'[i].content.at >= a
                 /\ IsSnapshot(answers'[i]) => answers'[i].version >= a
      <4>1. CASE i = n + 1
        BY <1>3, <1>5, <3>1, <3>2, <4>1 DEF Counts, IsDocument, IsSnapshot
      <4>2. CASE i = z
        BY <1>3, <1>5, <3>1, <3>2, <4>2 DEF Counts, IsDocument, IsSnapshot
      <4>3. QED
        BY <3>1, <4>1, <4>2
    <3>4. QED
      BY <1>3, <3>3 DEF Added
  <2>3. Silent(Profile)' <=> Silent(Profile)
    BY <1>1 DEF Silent
  <2>4. Settled(Profile)' => Settled(Profile)
    BY <1>1, <2>3 DEF Settled
  <2>5. Settled(Profile)' => Served(a)'
    BY <1>1, <2>1, <2>2, <2>3, <2>4, AddedServed DEF Answering
  <2>6. QED
    BY <1>1, <2>1, <2>5 DEF Answering
<1>8. FreshEvents'
  BY <1>1, SameFresh DEF Reading, Base
<1>9. current' \subseteq w.listens
  BY <1>1 DEF Reading, Wanted
<1>10. QED
  BY <1>1, <1>6, <1>7, <1>8, <1>9, QuietReading DEF Base

(***************************************************************************)
(* Answers read.                                                           *)
(***************************************************************************)

Has == InForce(Profile) /\ Profile \in DOMAIN w.updates

\* An answer is read: it, and what the aggregator has, go on to the aggregator or
\* to the cache.
LEMMA AnswerServed ==
    ASSUME NEW a, Served(a), IsSeq(answers), answers # <<>>, answers' = Tail(answers),
           cache[Profile].at >= a => cache'[Profile].at >= a,
           Profile \notin keys => Profile \notin keys' \/ cache'[Profile].at >= a,
           Has' => w'.updates[Profile].at >= a,
           Has \/ (IsDocument(answers[1], Profile) /\ Since(answers, 1, Profile))
             => Has' \/ cache'[Profile].at >= a
    PROVE  Served(a)'
<1>1. PICK n, z : n = Len(answers) /\ z = Len(answers')
  OBVIOUS
<1>2. /\ z \in Nat /\ n = z + 1
      /\ Places = 1..n /\ Places' = 1..z
      /\ \A i \in 1..z : i + 1 \in 1..n /\ answers'[i] = answers[i + 1]
      /\ \A i \in 1..n : i # 1 => i - 1 \in 1..z /\ answers'[i - 1] = answers[i]
      /\ \A i \in 1..z : Since(answers', i, Profile) <=> Since(answers, i + 1, Profile)
      /\ \A i \in 1..n : Since(answers, i, Profile) => Since(answers', i - 1, Profile)
  BY <1>1, AnswerTaken
<1>3. ASSUME NEW i \in 1..(z + 1), KnownBefore(a, i + 1)
      PROVE  KnownBefore(a, i)'
  <2>1. CASE cache[Profile].at >= a \/ Profile \notin keys
    BY <2>1 DEF KnownBefore
  <2>2. CASE Has
    BY <2>2 DEF KnownBefore, Has
  <2>3. ASSUME NEW k \in Places, k < i + 1, Since(answers, k, Profile), IsDocument(answers[k], Profile)
        PROVE  KnownBefore(a, i)'
    <3>1. CASE k = 1
      BY <2>3, <3>1 DEF KnownBefore, Has
    <3>2. CASE k # 1
      <4>1. k - 1 \in Places' /\ k - 1 < i
        BY <1>2, <2>3, <3>2
      <4>2. Since(answers', k - 1, Profile) /\ IsDocument(answers'[k - 1], Profile)
        BY <1>2, <2>3, <3>2
      <4>3. QED
        BY <4>1, <4>2 DEF KnownBefore
    <3>3. QED
      BY <3>1, <3>2
  <2>4. QED
    BY <1>3, <2>1, <2>2, <2>3 DEF KnownBefore, Has
<1>4. KnownBefore(a, z + 1)'
  <2>1. KnownBefore(a, (z + 1) + 1)
    BY <1>1, <1>2 DEF Served
  <2>2. PICK i \in 1..(z + 1) : i = z + 1
    BY <1>2
  <2>3. KnownBefore(a, i)'
    BY <1>3, <2>1, <2>2
  <2>4. QED
    BY <2>2, <2>3 DEF KnownBefore
<1>5. ASSUME NEW i \in 1..z, Since(answers', i, Profile)
      PROVE  /\ IsDocument(answers'[i], Profile) => answers'[i].content.at >= a
             /\ IsSnapshot(answers'[i]) => answers'[i].version >= a /\ KnownBefore(a, i)'
  <2>1. i + 1 \in Places /\ answers'[i] = answers[i + 1] /\ Since(answers, i + 1, Profile)
    BY <1>2, <1>5
  <2>r. i \in 1..(z + 1)
    BY <1>2
  <2>2. /\ IsDocument(answers[i + 1], Profile) => answers[i + 1].content.at >= a
        /\ IsSnapshot(answers[i + 1]) => answers[i + 1].version >= a /\ KnownBefore(a, i + 1)
    BY <2>1 DEF Served
  <2>3. QED
    BY <1>3, <2>1, <2>2, <2>r
<1>6. Has' => w'.updates[Profile].at >= a
  OBVIOUS
<1>7. QED
  BY <1>1, <1>2, <1>4, <1>5, <1>6 DEF Served, Has

\* The listeners, told that there is a connection.
LEMMA OnlineFresh ==
    ASSUME Types, Reading, Begun, UNCHANGED asOf,
           NEW E, E = {ev \in Events : Fresh(ev)'},
           NEW e, e = HandleOnlineStateChange(Effects, "Online")
    PROVE  e \in EffectsIn(E) /\ e.current \subseteq current
<1>1. PICK o \in Onlines : o = "Online"
  BY DEF Onlines
<1>2. PICK f : f = Effects
  OBVIOUS
<1>3. f \in EffectsIn(E) /\ f.current = current
  BY <1>2, EffectsStart DEF Types, Kinds
<1>4. \A x \in Targets : \A n \in listeners[x] :
        /\ Event(n, x, cache[x], TRUE) \in E
        /\ x \in current => Event(n, x, cache[x], FALSE) \in E
  BY CacheIsFresh
<1>5. \A x \in Targets : \A n \in listeners[x] :
        /\ Event(n, x, cache[x], TRUE) \in E
        /\ x \in f.current => Event(n, x, cache[x], FALSE) \in E
  BY <1>3, <1>4
<1>6. Listened /\ e = HandleOnlineStateChange(f, o)
  BY <1>1, <1>2 DEF Types
<1>7. e \in EffectsIn(E) /\ e.current \subseteq f.current
  BY ONLY <1>3, <1>5, <1>6, OnlineStateShown
<1>8. QED
  BY <1>3, <1>7

\* What a message that is no snapshot leaves the aggregator with.
LEMMA AnswerUpdates ==
    ASSUME Truth, denied = {}, answers # <<>>, NEW m, m = Head(answers),
           NEW v, v = UpdateState(w, "Online"),
           \/ m.op = "added" /\ w' = HandleAdded(v, m.target)
           \/ m.op = "removed" /\ w' = HandleRemoved(v, m.target)
           \/ m.op = "current" /\ w' = HandleCurrent(v, m.target)
           \/ m.op = "document" /\ w' = HandleDocumentChange(v, m.target, m.content, keys)
    PROVE  /\ SameWishes(w, w')
           /\ m.op # "document" => w'.updates = w.updates
           /\ m.op = "document" => w'.updates = IF InForce(m.target)
                                                THEN Put(w.updates, m.target, m.content)
                                                ELSE w.updates
<1>1. Inv /\ Shape(w) /\ DOMAIN w = Fields /\ IsOpen(w)
  BY DEF Truth, Inv, Shape
<1>2. SameWishes(w, v) /\ v.states = w.states /\ v.updates = w.updates
  BY <1>1, OnlineLeaves
<1>3. Shape(v) /\ IsOpen(v)
  BY <1>1, <1>2, AlikeSteps DEF Alike, SameWishes, IsOpen
<1>4. \A u : SameWishes(v, u) => SameWishes(w, u)
  BY <1>2 DEF SameWishes
<1>5. CASE m.op = "added" /\ w' = HandleAdded(v, m.target)
  BY <1>2, <1>3, <1>4, <1>5, AddedTouches DEF Touched
<1>6. CASE m.op = "removed" /\ w' = HandleRemoved(v, m.target)
  BY <1>2, <1>3, <1>4, <1>6, RemovedTouches
<1>7. CASE m.op = "current" /\ w' = HandleCurrent(v, m.target)
  <2>1. PICK t : t = m.target
    OBVIOUS
  <2>2. Touched(v, w', t) /\ w'.updates = v.updates
    BY <1>3, <1>7, <2>1, CurrentTouches
  <2>3. QED
    BY <1>2, <1>4, <1>7, <2>2 DEF Touched
<1>8. CASE m.op = "document" /\ w' = HandleDocumentChange(v, m.target, m.content, keys)
  <2>1. PICK t : t = m.target
    OBVIOUS
  <2>2. t \in Targets
    <3>1. 1 \in Places /\ m = answers[1]
      BY <1>1, Tailed DEF Inv, Places
    <3>2. QED
      BY <1>8, <2>1, <3>1 DEF Truth, Messages
  <2>3. IsActiveTarget(v, t) <=> InForce(t)
    BY <1>1, <1>2, <2>2, ActiveMeans DEF IsActiveTarget, TargetState, SameWishes
  <2>4. CASE InForce(t)
    BY <1>2, <1>3, <1>4, <1>8, <2>1, <2>3, <2>4, DocumentTouches DEF Touched
  <2>5. CASE ~InForce(t)
    <3>1. w' = v
      BY <1>8, <2>1, <2>3, <2>5 DEF HandleDocumentChange
    <3>2. QED
      BY <1>2, <1>8, <2>1, <2>5, <3>1
  <2>6. QED
    BY <2>4, <2>5
<1>9. QED
  BY <1>5, <1>6, <1>7, <1>8

\* A message that is no snapshot is read while the server serves the profile.
LEMMA UpdatesServed ==
    ASSUME Truth, denied = {}, answers # <<>>, answers' = Tail(answers), NEW m, m = Head(answers),
           UNCHANGED <<cache, keys, server, serving>>,
           m.op \in {"added", "removed", "current", "document"}, m.target \in Targets,
           SameWishes(w, w'),
           m.op # "document" => w'.updates = w.updates,
           m.op = "document" => w'.updates = IF InForce(m.target)
                                             THEN Put(w.updates, m.target, m.content)
                                             ELSE w.updates,
           NEW a, Served(a), Settled(Profile)
    PROVE  Served(a)'
<1>1. w'.listens = w.listens /\ w'.outgoing = w.outgoing
  BY DEF SameWishes
<1>2. /\ 1 \in Places /\ m = answers[1]
      /\ ~Counts(m, Profile) => (InForce(Profile)' <=> InForce(Profile))
      /\ Since(answers, 0, Profile) => Since(answers, 1, Profile)
      /\ ~Counts(m, Profile) /\ Since(answers, 1, Profile) => Since(answers, 0, Profile)
  BY <1>1, AnswerShifts
<1>3. IsSeq(answers)
  BY DEF Truth, Inv
<1>4. Has => w.updates[Profile].at >= a
  BY DEF Has, Served
<1>5. CASE m.op \in {"added", "removed"}
  <2>1. Counts(m, m.target) /\ \A k \in Places : ~(k < 1)
    BY <1>5 DEF Counts, Places
  <2>2. DOMAIN w.updates = {}
    BY <1>2, <2>1 DEF Truth, Flushed
  <2>3. ~Has /\ ~Has' /\ ~IsDocument(answers[1], Profile)
    BY <1>2, <1>5, <2>2 DEF Has, IsDocument
  <2>4. QED
    BY <1>3, <2>3, AnswerServed
<1>6. CASE m.op = "current" \/ (m.op = "document" /\ m.target # Profile)
  <2>1. ~Counts(m, Profile) /\ ~IsDocument(answers[1], Profile)
    BY <1>2, <1>6 DEF Counts, IsDocument
  <2>2. /\ Profile \in DOMAIN w'.updates <=> Profile \in DOMAIN w.updates
        /\ Profile \in DOMAIN w.updates => w'.updates[Profile] = w.updates[Profile]
    <3>1. CASE w'.updates = w.updates
      BY <3>1
    <3>2. CASE m.target # Profile /\ w'.updates = Put(w.updates, m.target, m.content)
      BY <3>2 DEF Put
    <3>3. QED
      BY <1>6, <3>1, <3>2
  <2>3. (Has' <=> Has) /\ (Has => w'.updates[Profile].at >= a)
    BY <1>2, <1>4, <2>1, <2>2 DEF Has
  <2>4. QED
    BY <1>3, <2>1, <2>3, AnswerServed
<1>7. CASE m.op = "document" /\ m.target = Profile
  <2>1. ~Counts(m, Profile) /\ IsDocument(answers[1], Profile)
    BY <1>2, <1>7 DEF Counts, IsDocument
  <2>2. CASE InForce(Profile)
    <3>1. w'.updates = Put(w.updates, Profile, m.content)
      BY <1>7, <2>2
    <3>2. Profile \in DOMAIN w'.updates /\ w'.updates[Profile] = m.content
      BY <3>1 DEF Put
    <3>3. Since(answers, 1, Profile)
      BY <1>2, <2>2 DEF InForce
    <3>4. m.content.at >= a
      BY <1>2, <2>1, <3>3 DEF Served
    <3>5. Has'
      BY <1>2, <2>1, <2>2, <3>2 DEF Has
    <3>6. QED
      BY <1>3, <3>2, <3>4, <3>5, AnswerServed
  <2>3. CASE ~InForce(Profile)
    <3>1. ~Has /\ ~Has'
      BY <1>2, <2>1, <2>3 DEF Has
    <3>2. ~Since(answers, 1, Profile)
      BY <1>2, <2>1, <2>3 DEF InForce, Settled
    <3>3. QED
      BY <1>3, <3>1, <3>2, AnswerServed
  <2>4. QED
    BY <2>2, <2>3
<1>8. QED
  BY <1>5, <1>6, <1>7

\* A snapshot takes into the cache what the aggregator has, and where the profile
\* is current there is then something to show for it.
LEMMA SnapshotServed ==
    ASSUME Base, denied = {}, answers # <<>>, answers' = Tail(answers), NEW m, m = Head(answers),
           IsSnapshot(m), NEW version \in Nat \ {0}, version = m.version, NEW e,
           RaiseWatchSnapshot(UpdateState(w, "Online"), e, version),
           UNCHANGED <<server, serving>>, NEW a \in Nat, Answering(a)
    PROVE  /\ Settled(Profile)' => Served(a)'
           /\ Profile \in Now => cache'[Profile].at >= a
<1>1. Truth /\ Types /\ Inv /\ Shape(w) /\ IsOpen(w) /\ IsSeq(answers)
  BY DEF Base, Truth, Inv
<1>2. /\ SameWishes(w, w') /\ DOMAIN w'.updates = {}
      /\ Profile \in keys' => \/ Profile \in Active(w) /\ w.states[Profile].change = "added"
                              \/ Profile \in keys
      /\ cache'[Profile] = IF Profile \in DOMAIN w.updates \cup Missing
                           THEN Newer(TakenIn(Profile, version), cache[Profile]) ELSE cache[Profile]
  <2>1. PICK f : f = e
    OBVIOUS
  <2>2. /\ SameWishes(w, w') /\ DOMAIN w'.updates = {}
        /\ \A t : t \in keys' <=>
                \/ t \in Active(w) /\ t \notin Missing /\ w.states[t].change = "added"
                \/ t \in keys /\ ~(t \in Active(w) /\ t \notin Missing /\ w.states[t].change = "removed")
        /\ \A t \in Targets :
                /\ cache'[t] = IF t \in DOMAIN w.updates \cup Missing
                               THEN Newer(TakenIn(t, version), cache[t]) ELSE cache[t]
    BY <1>1, <2>1, SnapshotTakes
  <2>3. QED
    BY <2>2, TargetsAre
<1>3. w'.listens = w.listens /\ w'.outgoing = w.outgoing
  BY <1>2 DEF SameWishes
<1>4. /\ 1 \in Places /\ m = answers[1]
      /\ Settled(Profile)' <=> Settled(Profile)
      /\ Since(answers, 0, Profile) => Since(answers, 1, Profile)
  BY <1>1, <1>3, AnswerShifts
<1>5. Profile \in DOMAIN w.updates => w.updates[Profile].at \in Nat
  BY <1>1 DEF Types, Kinds, Contents, Versions
<1>6. cache[Profile].at \in Nat
  BY <1>1, ServerIsTyped
<1>7. Profile \in DOMAIN w.updates =>
        cache'[Profile].at >= w.updates[Profile].at /\ cache'[Profile].at >= cache[Profile].at
  <2>1. ASSUME Profile \in DOMAIN w.updates
        PROVE  cache'[Profile] = Newer(w.updates[Profile], cache[Profile])
    BY <1>2, <2>1 DEF TakenIn, Missing
  <2>2. QED
    BY <1>5, <1>6, <2>1 DEF Newer
<1>8. Profile \in Missing =>
        cache'[Profile].at >= version /\ cache'[Profile].at >= cache[Profile].at
  <2>1. ASSUME Profile \in Missing
        PROVE  cache'[Profile] = Newer(NoDocument(version), cache[Profile])
    BY <1>2, <2>1 DEF TakenIn
  <2>2. NoDocument(version).at = version
    BY DEF NoDocument
  <2>3. QED
    BY <1>6, <2>1, <2>2 DEF Newer
<1>9. cache'[Profile].at >= cache[Profile].at /\ cache'[Profile].at \in Nat
  <2>1. cache'[Profile] = cache[Profile] \/ Profile \in DOMAIN w.updates \/ Profile \in Missing
    BY <1>2
  <2>2. cache'[Profile].at \in Nat
    <3>1. Profile \in DOMAIN w.updates \cup Missing => TakenIn(Profile, version).at \in Nat
      BY <1>5 DEF TakenIn, NoDocument
    <3>2. QED
      BY <1>2, <1>6, <3>1 DEF Newer
  <2>3. QED
    BY <1>6, <1>7, <1>8, <2>1, <2>2
<1>10. Profile \in Active(w) => InForce(Profile) /\ Profile \in DOMAIN w.states
  BY <1>1, ActiveMeans, TargetsAre DEF Active
<1>11. InForce(Profile) => Settled(Profile) /\ Since(answers, 1, Profile)
  <2>1. ASSUME InForce(Profile) PROVE Settled(Profile)
    BY <1>1, <2>1, TargetsAre DEF InForce, Settled, Truth, Watched
  <2>2. QED
    BY <1>4, <2>1 DEF InForce
<1>12. Has /\ Settled(Profile) => cache'[Profile].at >= a
  <2>1. ASSUME Has, Settled(Profile) PROVE cache'[Profile].at >= a
    <3>1. w.updates[Profile].at >= a /\ Profile \in DOMAIN w.updates
      BY <2>1 DEF Has, Served, Answering
    <3>2. QED
      BY <1>5, <1>7, <1>9, <3>1
  <2>2. QED
    BY <2>1
<1>13. ASSUME Settled(Profile) PROVE Served(a)'
  <2>1. Served(a)
    BY <1>13 DEF Answering
  <2>2. cache[Profile].at >= a => cache'[Profile].at >= a
    BY <1>6, <1>9
  <2>3. Profile \notin keys => Profile \notin keys' \/ cache'[Profile].at >= a
    <3>1. ASSUME Profile \notin keys, Profile \in keys' PROVE cache'[Profile].at >= a
      <4>1. Profile \in Active(w) /\ w.states[Profile].change = "added"
        BY <1>2, <3>1
      <4>2. InForce(Profile) /\ Profile \in DOMAIN w.states
        BY <1>10, <4>1
      <4>3. Profile \in DOMAIN w.updates
        BY <1>1, <4>1, <4>2, TargetsAre DEF Truth, Changes
      <4>4. QED
        BY <1>12, <1>13, <4>2, <4>3 DEF Has
    <3>2. QED
      BY <3>1
  <2>4. ~Has'
    BY <1>2 DEF Has
  <2>5. ~IsDocument(answers[1], Profile)
    BY <1>4 DEF IsDocument, IsSnapshot
  <2>6. Has => cache'[Profile].at >= a
    BY <1>12, <1>13
  <2>7. QED
    BY <1>1, <2>1, <2>2, <2>3, <2>4, <2>5, <2>6, AnswerServed
<1>14. ASSUME Profile \in Now PROVE cache'[Profile].at >= a
  <2>1. CASE Profile \notin Active(w)
    <3>1. cache[Profile].at >= a
      BY <1>14, <2>1 DEF Now, Answering
    <3>2. QED
      BY <1>6, <1>9, <3>1
  <2>2. CASE Profile \in Active(w)
    <3>1. w.states[Profile].current
      BY <1>14, <2>2 DEF Now
    <3>2. Settled(Profile) /\ Since(answers, 1, Profile) /\ InForce(Profile)
      BY <1>10, <1>11, <2>2
    <3>3. version >= a /\ KnownBefore(a, 1)
      BY <1>4, <3>2 DEF Answering, Served
    <3>4. CASE cache[Profile].at >= a
      BY <1>6, <1>9, <3>4
    <3>5. CASE Has
      BY <1>12, <3>2, <3>5
    <3>6. CASE Profile \notin keys /\ Profile \notin DOMAIN w.updates
      <4>1. Profile \in Missing
        BY <2>2, <3>1, <3>6, TargetsAssumption DEF Missing
      <4>2. QED
        BY <1>8, <1>9, <3>3, <4>1
    <3>7. CASE Profile \in DOMAIN w.updates
      BY <3>2, <3>5, <3>7 DEF Has
    <3>8. \A k \in Places : ~(k < 1)
      BY DEF Places
    <3>9. QED
      BY <3>3, <3>4, <3>5, <3>6, <3>7, <3>8 DEF KnownBefore, Has
  <2>3. QED
    BY <2>1, <2>2
<1>15. QED
  BY <1>4, <1>13, <1>14

\* What holds whichever message is read.
LEMMA AnswerRead ==
    ASSUME Base, Reading, ReadAnswer, NEW m, m = Head(answers), NEW v, v = UpdateState(w, "Online"),
           NEW E, E = {ev \in Events : Fresh(ev)'},
           NEW e, e = HandleOnlineStateChange(Effects, "Online")
    PROVE  /\ answers # <<>> /\ answers' = Tail(answers)
           /\ UNCHANGED <<tabs, worker, profile, server, serving, denied, asOf>>
           /\ Begun /\ e \in EffectsIn(E) /\ e.current \subseteq current /\ main \in Seq(E)
           /\ Shape(w) /\ DOMAIN w = Fields /\ IsOpen(w) /\ SameWishes(w, v)
           /\ m.op # "snapshot" => m.target \in Targets
           /\ m.op = "snapshot" => m.version \in Nat \ {0}
           /\ denied # {} => serving = {} /\ m.op \in {"refused", "removed"}
           /\ m.op = "refused" => denied # {}
<1>1. answers # <<>> /\ answers' = Tail(answers)
      /\ UNCHANGED <<tabs, worker, profile, server, serving, denied, asOf>>
  BY DEF ReadAnswer, worldVars
<1>2. Begun
  BY <1>1, QuietBegun
<1>3. Types /\ Truth /\ Inv /\ FreshEvents
  BY DEF Base, Truth, Reading
<1>4. e \in EffectsIn(E) /\ e.current \subseteq current
  BY <1>1, <1>2, <1>3, OnlineFresh
<1>5. main \in Seq(E)
  BY <1>2, <1>3, MainWasFresh
<1>6. Shape(w) /\ DOMAIN w = Fields /\ IsOpen(w)
  BY <1>1, <1>3 DEF Inv, Shape
<1>7. SameWishes(w, v)
  BY <1>6, OnlineLeaves
<1>8. m = answers[1] /\ 1 \in Places
  BY <1>1, <1>3, Tailed DEF Inv, Places
<1>9. /\ m.op # "snapshot" => m.target \in Targets
      /\ m.op = "snapshot" => m.version \in 1..LastVersion
  BY <1>3, <1>8 DEF Truth, Messages
<1>10. m.op = "snapshot" => m.version \in Nat \ {0}
  BY <1>3, <1>9, VersionsAre
<1>11. denied # {} => serving = {} /\ m.op \in {"refused", "removed"}
  BY <1>3, <1>8 DEF Truth, Denials
<1>12. m.op = "refused" => denied # {}
  BY <1>3, <1>8 DEF Inv, RefusedAreDenied, Places
<1>13. QED
  BY <1>1, <1>2, <1>4, <1>5, <1>6, <1>7, <1>9, <1>10, <1>11, <1>12

\* The message says no more than what a target's state is.
LEMMA MessageReading ==
    ASSUME Base, Reading, ReadAnswer, NEW m, m = Head(answers),
           m.op \in {"added", "removed", "current", "document"}
    PROVE  Reading'
<1>1. PICK v : v = UpdateState(w, "Online")
  OBVIOUS
<1>2. PICK e : e = HandleOnlineStateChange(Effects, "Online")
  OBVIOUS
<1>3. PICK E : E = {ev \in Events : Fresh(ev)'}
  OBVIOUS
<1>4. /\ answers # <<>> /\ answers' = Tail(answers)
      /\ UNCHANGED <<tabs, worker, profile, server, serving, denied, asOf>>
      /\ e \in EffectsIn(E) /\ e.current \subseteq current /\ main \in Seq(E)
      /\ Shape(w) /\ DOMAIN w = Fields /\ IsOpen(w) /\ SameWishes(w, v)
      /\ m.op # "snapshot" => m.target \in Targets
      /\ denied # {} => serving = {} /\ m.op \in {"refused", "removed"}
  BY <1>1, <1>2, <1>3, AnswerRead
<1>5. /\ w' = CASE m.op = "added"    -> HandleAdded(v, m.target)
                [] m.op = "removed"  -> HandleRemoved(v, m.target)
                [] m.op = "current"  -> HandleCurrent(v, m.target)
                [] m.op = "document" -> HandleDocumentChange(v, m.target, m.content, keys)
      /\ Take(e)
      /\ UNCHANGED <<storeVars, listeners>>
  BY <1>1, <1>2 DEF ReadAnswer
<1>6. cache' = cache /\ keys' = keys /\ listeners' = listeners
  BY <1>5 DEF storeVars
<1>7. current' \subseteq current /\ main' \in Seq(E)
  BY <1>4, <1>5, Taken
<1>8. FreshEvents'
  BY <1>3, <1>7, MainIsFresh
<1>9. current' \subseteq w.listens
  BY <1>7 DEF Reading, Wanted
<1>10. server[Profile].at <= server'[Profile].at /\ server'[Profile].at \in Nat
  BY <1>4, ServerIsTyped DEF Base
<1>11. \/ m.op = "added" /\ w' = HandleAdded(v, m.target)
       \/ m.op = "removed" /\ w' = HandleRemoved(v, m.target)
       \/ m.op = "current" /\ w' = HandleCurrent(v, m.target)
       \/ m.op = "document" /\ w' = HandleDocumentChange(v, m.target, m.content, keys)
  BY <1>5
<1>12. CASE denied # {}
  <2>1. w' = HandleRemoved(v, m.target) /\ serving = {}
    BY <1>4, <1>11, <1>12
  <2>2. Shape(v)
    BY <1>1, <1>4, OnlineLeaves, AlikeSteps DEF Alike, SameWishes
  <2>3. SameWishes(v, w')
    BY <2>1, <2>2, RemovedTouches
  <2>4. w'.listens = w.listens
    BY <1>4, <2>3 DEF SameWishes
  <2>5. ~Settled(Profile)'
    BY <1>4, <2>1 DEF Settled
  <2>6. \A n \in listeners[Profile] : \A a : a = asOf[n] => Answering(a)'
    BY <1>6, <1>7, <2>5, UnservedAnswering DEF Reading
  <2>7. QED
    BY <1>4, <1>6, <1>8, <1>9, <1>10, <2>4, <2>6, QuietReading DEF Base
<1>13. CASE denied = {}
  <2>1. /\ SameWishes(w, w')
        /\ m.op # "document" => w'.updates = w.updates
        /\ m.op = "document" => w'.updates = IF InForce(m.target)
                                             THEN Put(w.updates, m.target, m.content)
                                             ELSE w.updates
    BY <1>1, <1>4, <1>11, <1>13, AnswerUpdates DEF Base
  <2>2. w'.listens = w.listens /\ w'.outgoing = w.outgoing
    BY <2>1 DEF SameWishes
  <2>3. Settled(Profile)' <=> Settled(Profile)
    BY <1>4, <2>2, AnswerShifts DEF Base
  <2>4. ASSUME NEW n \in listeners[Profile], NEW a, a = asOf[n]
        PROVE  Answering(a)'
    <3>1. Answering(a)
      BY <2>4 DEF Reading
    <3>2. Profile \in current' => cache'[Profile].at >= a
      BY <1>6, <1>7, <3>1 DEF Answering
    <3>3. ASSUME Settled(Profile) PROVE Served(a)'
      <4>1. Served(a)
        BY <3>1, <3>3 DEF Answering
      <4>2. QED
        BY <1>4, <1>6, <1>13, <2>1, <3>3, <4>1, UpdatesServed DEF Base
    <3>4. QED
      BY <2>3, <3>2, <3>3 DEF Answering
  <2>5. QED
    BY <1>4, <1>6, <1>8, <1>9, <1>10, <2>2, <2>4, QuietReading DEF Base
<1>14. QED
  BY <1>12, <1>13

\* A snapshot is shown to those whose view is current then.
LEMMA SnapshotReading ==
    ASSUME Base, Types', Reading, ReadAnswer, NEW m, m = Head(answers), m.op = "snapshot"
    PROVE  Reading'
<1>1. PICK v : v = UpdateState(w, "Online")
  OBVIOUS
<1>2. PICK e : e = HandleOnlineStateChange(Effects, "Online")
  OBVIOUS
<1>3. PICK E : E = {ev \in Events : Fresh(ev)'}
  OBVIOUS
<1>4. /\ answers # <<>> /\ answers' = Tail(answers)
      /\ UNCHANGED <<tabs, worker, profile, server, serving, denied, asOf>>
      /\ Begun /\ e \in EffectsIn(E) /\ e.current \subseteq current /\ main \in Seq(E)
      /\ Shape(w) /\ DOMAIN w = Fields /\ IsOpen(w) /\ SameWishes(w, v)
      /\ denied = {} /\ m.version \in Nat \ {0}
  BY <1>1, <1>2, <1>3, AnswerRead
<1>5. PICK version \in Nat \ {0} : version = m.version
  BY <1>4
<1>6. RaiseWatchSnapshot(UpdateState(w, "Online"), e, version) /\ listeners' = listeners
  BY <1>2, <1>5 DEF ReadAnswer
<1>7. SameWishes(w, w')
  BY <1>4, <1>6, SnapshotTakes
<1>8. w'.listens = w.listens
  BY <1>7 DEF SameWishes
<1>9. PICK now : now = Now
  OBVIOUS
<1>10. IsSnapshot(m)
  BY DEF IsSnapshot
<1>11. ASSUME NEW n \in listeners[Profile], NEW a, a = asOf[n]
       PROVE  /\ Settled(Profile)' => Served(a)'
              /\ Profile \in now => cache'[Profile].at >= a
  <2>1. Answering(a)
    BY <1>11 DEF Reading
  <2>2. n \in Tabs
    BY TargetsAre DEF Base, Types, Listened
  <2>3. a \in Nat
    BY <1>11, <2>2, ServerIsTyped DEF Base
  <2>4. QED
    BY <1>4, <1>5, <1>6, <1>9, <1>10, <2>1, <2>3, SnapshotServed
<1>12. ASSUME NEW t \in Targets, NEW n \in listeners[t]
       PROVE  Event(n, t, cache'[t], t \notin now) \in E
  <2>1. n \in Tabs /\ cache'[t] \in Contents
    BY DEF Base, Types, Listened
  <2>2. PICK c \in Contents : c = cache'[t]
    BY <2>1
  <2>3. PICK b \in BOOLEAN : b = (t \notin now)
    OBVIOUS
  <2>4. ASSUME t = Profile PROVE ~NotAsked(n)' /\ (~b => c.at >= asOf'[n])
    <3>1. ~NotAsked(n)'
      BY <1>4, <2>1, <2>4 DEF Reading, Asking, Begun
    <3>2. PICK a : a = asOf[n]
      OBVIOUS
    <3>3. Profile \in now => cache'[Profile].at >= a
      BY <1>11, <2>4, <3>2
    <3>4. QED
      BY <1>4, <2>2, <2>3, <2>4, <3>1, <3>2, <3>3
  <2>5. Event(n, t, c, b) \in E
    BY <1>3, <2>1, <2>4, EventIsFresh
  <2>6. QED
    BY <2>2, <2>3, <2>5
<1>13. current' = now /\ main' \in Seq(E)
  <2>1. Listened /\ main \in Seq(Events)
    BY DEF Base, Types
  <2>2. QED
    BY <1>4, <1>6, <1>9, <1>12, <2>1, SnapshotShows
<1>14. FreshEvents'
  BY <1>3, <1>13, MainIsFresh
<1>15. current' \subseteq w.listens
  BY <1>9, <1>13 DEF Now, Reading, Wanted
<1>16. server[Profile].at <= server'[Profile].at /\ server'[Profile].at \in Nat
  BY <1>4, ServerIsTyped DEF Base
<1>17. \A n \in listeners[Profile] : \A a : a = asOf[n] => Answering(a)'
  BY <1>11, <1>13 DEF Answering
<1>18. QED
  BY <1>4, <1>6, <1>8, <1>14, <1>15, <1>16, <1>17, QuietReading DEF Base

\* An error is not taken for the server's answer.
LEMMA ErrorIsFresh ==
    ASSUME NEW n \in Tabs, NEW t \in Targets, t = Profile => ~NotAsked(n)',
           NEW E, E = {ev \in Events : Fresh(ev)'}
    PROVE  ErrorEvent(n, t) \in E
<1>1. PICK ev : ev = ErrorEvent(n, t)
  OBVIOUS
<1>2. ev \in Events
  BY <1>1, ErrorIsEvent
<1>3. ev.tab = n /\ ev.target = t /\ ~ev.ok
  BY <1>1 DEF ErrorEvent
<1>4. Fresh(ev)'
  BY <1>3 DEF Fresh
<1>5. QED
  BY <1>1, <1>2, <1>4

\* The listeners of a target that is refused are told so and are no longer there.
LEMMA RefusalReading ==
    ASSUME Base, Reading, ReadAnswer, NEW m, m = Head(answers), m.op = "refused"
    PROVE  Reading'
<1>1. PICK v : v = UpdateState(w, "Online")
  OBVIOUS
<1>2. PICK e : e = HandleOnlineStateChange(Effects, "Online")
  OBVIOUS
<1>3. PICK E : E = {ev \in Events : Fresh(ev)'}
  OBVIOUS
<1>4. /\ UNCHANGED <<tabs, worker, profile, server, serving, denied, asOf>>
      /\ Begun /\ e \in EffectsIn(E) /\ e.current \subseteq current /\ main \in Seq(E)
      /\ Shape(w) /\ DOMAIN w = Fields /\ SameWishes(w, v) /\ m.target \in Targets
      /\ serving = {}
  BY <1>1, <1>2, <1>3, AnswerRead
<1>t. Types /\ Wanted /\ Asking /\ Together /\ FreshEvents /\ ReadIsFresh
  BY DEF Base, Reading
<1>5. ~Settled(Profile)'
  BY <1>4 DEF Settled
<1>6. cache' = cache
  BY DEF ReadAnswer, storeVars
<1>7. CASE m.target \notin w.listens
  <2>1. w' = v /\ Take(e) /\ listeners' = listeners
    BY <1>1, <1>2, <1>7 DEF ReadAnswer
  <2>2. current' \subseteq current /\ main' \in Seq(E)
    BY <1>4, <2>1, Taken
  <2>3. FreshEvents'
    BY <1>3, <2>2, MainIsFresh
  <2>4. w'.listens = w.listens /\ current' \subseteq w.listens
    BY <1>4, <1>t, <2>1, <2>2 DEF SameWishes, Wanted
  <2>5. \A n \in listeners[Profile] : \A a : a = asOf[n] => Answering(a)'
    BY <1>5, <1>6, <2>2, UnservedAnswering DEF Reading
  <2>6. server[Profile].at <= server'[Profile].at /\ server'[Profile].at \in Nat
    BY <1>4, <1>t, ServerIsTyped
  <2>7. QED
    BY <1>4, <1>t, <2>1, <2>3, <2>4, <2>5, <2>6, QuietReading
<1>8. CASE m.target \in w.listens
  <2>1. RejectListen(v, e, m.target)
    BY <1>1, <1>2, <1>8 DEF ReadAnswer
  <2> PICK t \in Targets : t = m.target
    BY <1>4
  <2> DEFINE told == SetToSeq(listeners[t])
             s == [i \in 1..Len(told) |-> ErrorEvent(told[i], t)]
             g == [e EXCEPT !.current = @ \ {t}, !.raised[t] = {}, !.events = @ \o s]
             added == e.events \o s
  <2>2. w' = RemoveTarget(v, t) /\ listeners' = [listeners EXCEPT ![t] = {}] /\ Take(g)
    BY <2>1 DEF RejectListen
  <2>3. s \in Seq(E)
    <3>1. listeners[t] \in SUBSET Tabs
      BY <1>t DEF Types, Listened
    <3>2. \A n \in listeners[t] : ErrorEvent(n, t) \in E
      <4>1. ASSUME NEW n \in listeners[t] PROVE ErrorEvent(n, t) \in E
        <5>1. n \in Tabs
          BY <3>1
        <5>2. t = Profile => ~NotAsked(n)'
          BY <1>4, <1>t, <5>1 DEF Asking, Begun
        <5>3. QED
          BY <1>3, <5>1, <5>2, ErrorIsFresh
      <4>2. QED
        BY <4>1
    <3>3. QED
      BY <3>1, <3>2, ErrorsForAll
  <2>4. added \in Seq(E)
    BY <1>4, <2>3, EventsAdded
  <2> HIDE DEF s
  <2>5. g = [e EXCEPT !.current = @ \ {t}, !.raised[t] = {}, !.events = added]
    BY <1>4 DEF EffectsIn
  <2> HIDE DEF added, g
  <2>6. g \in EffectsIn(E) /\ g.current = e.current \ {t}
    BY <1>4, <2>4, <2>5 DEF EffectsIn
  <2>7. current' \subseteq current \ {t} /\ main' \in Seq(E)
    BY <1>4, <2>2, <2>6, Taken
  <2>8. FreshEvents'
    BY <1>3, <2>7, MainIsFresh
  <2>9. w'.listens = w.listens \ {t}
    BY <1>4, <2>2 DEF RemoveTarget, SameWishes, Shape, Fields
  <2>10. /\ \A x \in Targets : listeners'[x] = IF x = t THEN {} ELSE listeners[x]
         /\ listeners'[Profile] \subseteq listeners[Profile]
    BY <1>t, <2>2, TargetsAre DEF Types, Listened
  <2>11. Wanted'
    BY <1>t, <2>7, <2>9, <2>10 DEF Wanted
  <2>12. Asking'
    <3>1. \A n \in Tabs : NotAsked(n)' <=> NotAsked(n)
      BY <1>4 DEF NotAsked
    <3>2. QED
      BY <1>4, <1>t, <2>10, <3>1 DEF Asking
  <2>13. Together' /\ ReadIsFresh'
    BY <1>4, <1>t, <2>10 DEF Together, ReadIsFresh
  <2>14. \A n \in listeners'[Profile] : Answering(asOf[n])'
    <3>1. ASSUME NEW n \in listeners'[Profile] PROVE Answering(asOf[n])'
      <4>1. PICK a : a = asOf[n]
        OBVIOUS
      <4>2. Answering(a)
        BY <2>10, <4>1 DEF Reading
      <4>3. Answering(a)'
        BY <1>5, <1>6, <2>7, <4>2, UnservedAnswering
      <4>4. QED
        BY <1>4, <4>1, <4>3 DEF Answering, Served, KnownBefore
    <3>2. QED
      BY <3>1
  <2>15. QED
    BY <2>8, <2>11, <2>12, <2>13, <2>14 DEF Reading
<1>9. QED
  BY <1>7, <1>8

LEMMA ReadAnswerReading ==
    ASSUME Base, Types', Reading, ReadAnswer
    PROVE  Reading'
<1>1. PICK m : m = Head(answers)
  OBVIOUS
<1>2. m.op \in {"added", "removed", "current", "document", "snapshot", "refused"}
  BY <1>1 DEF ReadAnswer
<1>3. QED
  BY <1>1, <1>2, MessageReading, SnapshotReading, RefusalReading

\* Nothing of a read changes.
LEMMA SameReading ==
    ASSUME Base, Reading,
           UNCHANGED <<tabs, worker, main, clientVars, profile, streamVars, server, asOf>>
    PROVE  Reading'
<1>1. UNCHANGED <<tabs, worker, main, cache, keys, current, listeners, w, profile, answers, serving,
                  server, asOf>>
  BY DEF clientVars, storeVars, streamVars
<1>2. FreshEvents'
  BY <1>1, SameFresh DEF Base, Reading
<1>3. Settled(Profile)' => Settled(Profile) /\ w'.updates = w.updates
  BY <1>1 DEF Settled, Silent
<1>4. \A n \in listeners[Profile] : \A a : a = asOf[n] => Answering(a)'
  BY <1>1, <1>3, SameAnswering DEF Reading
<1>5. current' \subseteq w.listens
  BY <1>1 DEF Reading, Wanted
<1>6. server[Profile].at <= server'[Profile].at /\ server'[Profile].at \in Nat
  BY <1>1, ServerIsTyped DEF Base
<1>7. QED
  BY <1>1, <1>2, <1>4, <1>5, <1>6, QuietReading DEF Base

LEMMA NextKeepsReading ==
    ASSUME Base, Types', Reading, [Next]_vars
    PROVE  Reading'
<1>1. CASE NetworkChanges
  <2>1. CASE StreamEnds
    BY <2>1, StreamEndsReading
  <2>2. CASE UNCHANGED <<tabs, worker, main, clientVars, profile, questions, streamVars, server,
                         denied, asOf>>
    BY <2>2, SameReading
  <2>3. QED
    BY <1>1, <2>1, <2>2 DEF NetworkChanges
<1>2. CASE UNCHANGED vars
  BY <1>2, SameReading DEF vars, worldVars
<1>3. CASE \E t \in Targets : Change(t)
  BY <1>3, ChangeReading
<1>4. CASE StreamEnds
  BY <1>4, StreamEndsReading
<1>5. QED
  BY <1>1, <1>2, <1>3, <1>4, TellingReading, OpenTabReading, RunEventReading, TakeListenReading,
     TakeRemoveReading, ReadAnswerReading, ServeReading
     DEF Next, Task, NoNetwork, StreamBreaks

LEMMA InitReading ==
    ASSUME Init
    PROVE  Reading
<1>1. /\ tabs = 0 /\ worker = <<>> /\ main = <<>> /\ current = {}
      /\ \A t \in Targets : listeners[t] = {}
      /\ w.listens = {} /\ \A n \in Tabs : profile[n] = Nothing /\ asOf[n] = 0
  BY DEF Init, Nowhere
<1>2. server[Profile].at = 1
  BY TargetsAre DEF Init
<1>3. Wanted /\ ReadIsFresh /\ FreshEvents
  BY <1>1 DEF Wanted, ReadIsFresh, FreshEvents
<1>4. Asking /\ Together
  BY <1>1, <1>2, TargetsAre DEF Asking, Together
<1>5. QED
  BY <1>1, <1>3, <1>4, TargetsAre DEF Reading

\* A profile answered by the server is at least as new as when its query was
\* asked for (document_reference.cc:112-187), for any number of tabs and versions:
\* the answers still due to the reader before it, on the same stream and for the
\* same target, are never taken for its own.
THEOREM ReadsAreFresh == Spec => []ReadIsFresh
<1>1. Init => Base /\ Reading
  BY InitTruth, InitTypes, InitReading DEF Base
<1>2. Base /\ Reading /\ [Next]_vars => (Base /\ Reading)'
  <2>1. ASSUME Base, Reading, [Next]_vars PROVE (Base /\ Reading)'
    <3>1. Truth' /\ Posted'
      BY <2>1, NextKeepsTruth, NextKeepsPosted DEF Base
    <3>2. Types'
      BY <2>1, <3>1, NextKeepsTypes DEF Base
    <3>3. Reading'
      BY <2>1, <3>2, NextKeepsReading
    <3>4. QED
      BY <3>1, <3>2, <3>3 DEF Base
  <2>2. QED
    BY <2>1
<1>3. Reading => ReadIsFresh
  BY DEF Reading
<1>4. QED
  BY <1>1, <1>2, <1>3, PTL DEF Spec

(***************************************************************************)
(* No assertion fails.  The tracker of the online state and the idleness   *)
(* timer, and nothing has failed yet.                                      *)
(***************************************************************************)

Calm(v) ==
    /\ v.timer => v.online = "Unknown" /\ ~v.failing
    /\ v.failing => v.online = "Offline"
    /\ ~IsStarted(v) => ~v.timer /\ ~v.failing
    /\ v.idle => IsOpen(v) /\ v.listens = {}
    /\ ~v.broken

\* A state learned otherwise stops the timer.
LEMMA UpdatedCalm ==
    ASSUME NEW u, DOMAIN u = Fields, Calm(u), NEW o
    PROVE  Calm(UpdateState(u, o))
  BY DEF UpdateState, Calm, Fields, IsStarted, IsOpen

\* A stream is started with no timer running.
LEMMA StartCalm ==
    ASSUME NEW u, DOMAIN u = Fields, u.failing => u.online = "Offline", ~u.timer, ~u.idle, ~u.broken
    PROVE  Calm(StartWatchStream(u))
<1> DEFINE state == IF u.state = "Error" THEN "Backoff" ELSE "Starting"
           p == [u EXCEPT !.states = <<>>, !.updates = <<>>, !.state = state]
<1>1. /\ DOMAIN p = Fields /\ p.state \in {"Starting", "Backoff"}
      /\ p.failing = u.failing /\ p.online = u.online /\ p.timer = u.timer
      /\ p.idle = u.idle /\ p.broken = u.broken
  BY DEF Fields
<1>2. StartWatchStream(u) = HandleWatchStreamStart(p)
  BY DEF StartWatchStream, Fields
<1> HIDE DEF p
<1>3. CASE p.failing
  BY <1>1, <1>2, <1>3 DEF HandleWatchStreamStart, Calm, IsStarted, IsOpen
<1>4. CASE ~p.failing
  BY <1>1, <1>2, <1>4 DEF HandleWatchStreamStart, Assert_, Calm, IsStarted, IsOpen, Fields
<1>5. QED
  BY <1>3, <1>4

\* A request on an open stream ends its idleness.
LEMMA SendCalm ==
    ASSUME NEW u, DOMAIN u = Fields, NEW r, IsOpen(u), ~u.broken
    PROVE  LET v == Send(u, r)
           IN  /\ v.timer = u.timer /\ v.online = u.online /\ v.failing = u.failing
               /\ v.state = u.state /\ ~v.idle /\ ~v.broken /\ v.listens = u.listens
               /\ DOMAIN v = Fields
  BY DEF Send, Assert_, RecordPendingTargetRequest, SetTargetState, IsOpen, Fields

\* Nothing fails when a target is listened to.
LEMMA ListenCalm ==
    ASSUME NEW u, DOMAIN u = Fields, Calm(u), NEW t, NEW from
    PROVE  Calm(Listen(u, t, from))
<1> DEFINE added == [u EXCEPT !.listens = @ \cup {t}]
           r == WatchRequest(t, from)
<1>1. /\ DOMAIN added = Fields /\ added.state = u.state
      /\ added.failing = u.failing /\ added.online = u.online /\ added.timer = u.timer
      /\ added.idle = u.idle /\ added.broken = u.broken
  BY DEF Fields
<1>2. Listen(u, t, from) = IF t \in u.listens THEN u
                           ELSE IF ShouldStartWatchStream(added) THEN StartWatchStream(added)
                           ELSE IF IsOpen(u) THEN Send(added, r) ELSE added
  BY DEF Listen
<1> HIDE DEF added, r
<1>3. CASE t \in u.listens
  BY <1>2, <1>3
<1>4. CASE t \notin u.listens /\ ShouldStartWatchStream(added)
  <2>1. ~IsStarted(u)
    BY <1>1, <1>4 DEF ShouldStartWatchStream, IsStarted
  <2>2. ~u.timer /\ ~u.failing /\ ~u.idle /\ ~u.broken
    BY <2>1 DEF Calm, IsStarted, IsOpen
  <2>3. QED
    BY <1>1, <1>2, <1>4, <2>2, StartCalm
<1>5. CASE t \notin u.listens /\ ~ShouldStartWatchStream(added) /\ IsOpen(u)
  <2>1. IsOpen(added) /\ ~added.broken
    BY <1>1, <1>5 DEF IsOpen, Calm
  <2>2. PICK v : v = Send(added, r)
    OBVIOUS
  <2>3. /\ v.timer = added.timer /\ v.online = added.online /\ v.failing = added.failing
        /\ v.state = added.state /\ ~v.idle /\ ~v.broken
    BY <1>1, <2>1, <2>2, SendCalm
  <2>4. Calm(v)
    BY <1>1, <2>3 DEF Calm, IsStarted
  <2>5. QED
    BY <1>2, <1>5, <2>2, <2>4
<1>6. CASE t \notin u.listens /\ ~ShouldStartWatchStream(added) /\ ~IsOpen(u)
  <2>1. ~u.idle
    BY <1>6 DEF Calm
  <2>2. QED
    BY <1>1, <1>2, <1>6, <2>1 DEF Calm, IsStarted
<1>7. QED
  BY <1>3, <1>4, <1>5, <1>6

\* Nothing fails when a target that is listened to is given up.
LEMMA StopListeningCalm ==
    ASSUME NEW u, DOMAIN u = Fields, Calm(u), NEW t, t \in u.listens
    PROVE  Calm(StopListening(u, t))
<1>1. PICK p : p = [Assert_(u, t \in u.listens) EXCEPT !.listens = @ \ {t}]
  OBVIOUS
<1>2. /\ DOMAIN p = Fields /\ p.state = u.state /\ p.listens = u.listens \ {t}
      /\ p.failing = u.failing /\ p.online = u.online /\ p.timer = u.timer
      /\ p.idle = u.idle /\ ~p.broken
  BY <1>1 DEF Fields, Assert_, Calm
<1>3. PICK r : r = UnwatchRequest(t)
  OBVIOUS
<1>4. PICK told : told = IF IsOpen(u) THEN Send(p, r) ELSE p
  OBVIOUS
<1>5. /\ DOMAIN told = Fields /\ told.state = u.state /\ told.listens = u.listens \ {t}
      /\ told.failing = u.failing /\ told.online = u.online /\ told.timer = u.timer
      /\ ~told.idle /\ ~told.broken
  <2>1. CASE IsOpen(u)
    <3>1. IsOpen(p)
      BY <1>2, <2>1 DEF IsOpen
    <3>2. told = Send(p, r)
      BY <1>4, <2>1
    <3>3. QED
      BY <1>2, <3>1, <3>2, SendCalm
  <2>2. CASE ~IsOpen(u)
    BY <1>2, <1>4, <2>2 DEF Calm
  <2>3. QED
    BY <2>1, <2>2
<1>6. Calm(told)
  BY <1>5 DEF Calm, IsStarted
<1>7. StopListening(u, t) = IF told.listens # {} THEN told
                            ELSE IF IsOpen(u) THEN [told EXCEPT !.idle = TRUE]
                            ELSE UpdateState(told, "Unknown")
  BY <1>1, <1>3, <1>4 DEF StopListening
<1>8. CASE told.listens # {}
  BY <1>6, <1>7, <1>8
<1>9. CASE told.listens = {} /\ IsOpen(u)
  BY <1>5, <1>6, <1>7, <1>9 DEF Calm, IsOpen, IsStarted, Fields
<1>10. CASE told.listens = {} /\ ~IsOpen(u)
  BY <1>5, <1>6, <1>7, <1>10, UpdatedCalm
<1>11. QED
  BY <1>8, <1>9, <1>10

\* A stream is stopped when nobody listens, or with the network disabled.
LEMMA StopCalm ==
    ASSUME NEW u, DOMAIN u = Fields, Calm(u), NEW needed, needed /\ IsStarted(u) => u.listens = {}
    PROVE  Calm(Stop(u, needed)) /\ Stop(u, needed).listens = u.listens
           /\ DOMAIN Stop(u, needed) = Fields /\ ~Stop(u, needed).idle
<1>1. CASE ~IsStarted(u)
  BY <1>1 DEF Stop, Calm, IsStarted, IsOpen
<1>2. CASE IsStarted(u)
  <2>1. PICK p : p = Assert_(TornDown(u, "Initial"), ~(needed /\ u.listens # {}))
    OBVIOUS
  <2>2. /\ DOMAIN p = Fields /\ p.listens = u.listens /\ p.state = "Initial"
        /\ ~p.idle /\ ~p.broken
    BY <1>2, <2>1 DEF Assert_, TornDown, Fields, Calm
  <2>3. Stop(u, needed) = UpdateState(p, "Unknown")
    BY <1>2, <2>1 DEF Stop, TornDown, Fields
  <2>4. QED
    BY <2>2, <2>3 DEF UpdateState, Calm, Fields
<1>3. QED
  BY <1>1, <1>2

\* Nothing fails when a stream ends with an error.
LEMMA BreakCalm ==
    ASSUME NEW u, DOMAIN u = Fields, Calm(u)
    PROVE  Calm(Break(u))
<1>1. PICK p : p = TornDown(u, "Error")
  OBVIOUS
<1>2. /\ DOMAIN p = Fields /\ p.listens = u.listens /\ p.state = "Error"
      /\ p.failing = u.failing /\ p.online = u.online /\ p.timer = u.timer
      /\ ~p.idle /\ ~p.broken
  BY <1>1 DEF TornDown, Fields, Calm
<1>3. Break(u) = IF p.listens # {} THEN StartWatchStream(HandleWatchStreamFailure(p))
                 ELSE UpdateState(p, "Unknown")
  BY <1>1 DEF Break
<1>4. CASE p.listens # {}
  <2>1. PICK q : q = HandleWatchStreamFailure(p)
    OBVIOUS
  <2>2. DOMAIN q = Fields /\ (q.failing => q.online = "Offline") /\ ~q.timer /\ ~q.idle /\ ~q.broken
    <3>1. CASE p.online = "Online"
      <4>1. ~p.failing /\ ~p.timer
        BY <1>2, <3>1 DEF Calm
      <4>2. q = [Assert_(p, ~p.failing /\ ~p.timer) EXCEPT !.online = "Unknown"]
        BY <2>1, <3>1 DEF HandleWatchStreamFailure
      <4>3. QED
        BY <1>2, <4>1, <4>2 DEF Assert_, Fields
    <3>2. CASE p.online # "Online"
      BY <1>2, <2>1, <3>2 DEF HandleWatchStreamFailure, Fields
    <3>3. QED
      BY <3>1, <3>2
  <2>3. QED
    BY <1>3, <1>4, <2>1, <2>2, StartCalm
<1>5. CASE p.listens = {}
  BY <1>2, <1>3, <1>5 DEF UpdateState, Calm, Fields
<1>6. QED
  BY <1>4, <1>5

\* Nothing fails when the user changes.
LEMMA CredentialChangeCalm ==
    ASSUME NEW u, DOMAIN u = Fields, Calm(u)
    PROVE  Calm(HandleCredentialChange(u))
<1>1. PICK no : no = FALSE
  OBVIOUS
<1>2. PICK p : p = Stop(u, no)
  OBVIOUS
<1>3. Calm(p) /\ DOMAIN p = Fields /\ ~p.idle
  BY <1>1, <1>2, StopCalm
<1>4. PICK q : q = UpdateState([p EXCEPT !.states = <<>>, !.updates = <<>>], "Unknown")
  OBVIOUS
<1>5. /\ DOMAIN q = Fields /\ ~q.failing /\ ~q.timer /\ ~q.idle /\ ~q.broken
  BY <1>3, <1>4 DEF UpdateState, Calm, Fields
<1>6. HandleCredentialChange(u) = IF ShouldStartWatchStream(q) THEN StartWatchStream(q)
                                  ELSE UpdateState(q, "Unknown")
  BY <1>1, <1>2, <1>4 DEF HandleCredentialChange
<1>7. Calm(StartWatchStream(q))
  BY <1>5, StartCalm
<1>8. Calm(UpdateState(q, "Unknown"))
  BY <1>5 DEF UpdateState, Calm, Fields
<1>9. QED
  BY <1>6, <1>7, <1>8

\* Nothing of the tracker, the timer and the state changes.
Alikeness(u, v) ==
    /\ v.timer = u.timer /\ v.online = u.online /\ v.failing = u.failing
    /\ v.state = u.state /\ v.idle = u.idle /\ v.broken = u.broken /\ v.listens \subseteq u.listens

\* What Calm speaks of is the same, but for targets that are gone.
LEMMA AlikeCalm ==
    ASSUME NEW u, NEW v, Calm(u), Alikeness(u, v)
    PROVE  Calm(v)
  BY DEF Calm, Alikeness, IsStarted, IsOpen

\* A target's state is none of it.
LEMMA SetStays ==
    ASSUME NEW u, DOMAIN u = Fields, NEW t, NEW s
    PROVE  Alikeness(u, SetTargetState(u, t, s)) /\ DOMAIN SetTargetState(u, t, s) = Fields
  BY DEF Alikeness, SetTargetState, Fields

\* Nor is what the aggregator does with an answer.
LEMMA AnswerStays ==
    ASSUME NEW u, DOMAIN u = Fields, NEW t, NEW c, NEW k
    PROVE  /\ Alikeness(u, HandleAdded(u, t)) /\ Alikeness(u, HandleRemoved(u, t))
           /\ Alikeness(u, HandleCurrent(u, t)) /\ Alikeness(u, HandleDocumentChange(u, t, c, k))
           /\ Alikeness(u, RemoveTarget(u, t))
<1>1. Alikeness(u, u)
  BY DEF Alikeness
<1>2. Alikeness(u, HandleAdded(u, t)) /\ Alikeness(u, HandleCurrent(u, t))
  BY SetStays DEF HandleAdded, HandleCurrent
<1>3. Alikeness(u, HandleRemoved(u, t))
  <2>1. Alikeness(u, [u EXCEPT !.states = Restrict(@, DOMAIN @ \ {t})])
    BY DEF Alikeness, Fields
  <2>2. QED
    BY <2>1, SetStays DEF HandleRemoved
<1>4. Alikeness(u, HandleDocumentChange(u, t, c, k))
  <2>1. ASSUME NEW change
        PROVE  Alikeness(u, [AddDocumentChange(u, t, change) EXCEPT !.updates = Put(@, t, c)])
    <3>1. PICK p : p = AddDocumentChange(u, t, change)
      OBVIOUS
    <3>2. Alikeness(u, p) /\ DOMAIN p = Fields
      BY <3>1, SetStays DEF AddDocumentChange
    <3>3. Alikeness(u, [p EXCEPT !.updates = Put(@, t, c)])
      BY <3>2 DEF Alikeness, Fields
    <3>4. QED
      BY <3>1, <3>3
  <2>2. QED
    BY <1>1, <2>1 DEF HandleDocumentChange
<1>5. Alikeness(u, RemoveTarget(u, t))
  BY DEF Alikeness, RemoveTarget, Fields
<1>6. QED
  BY <1>2, <1>3, <1>4, <1>5

\* Nor what it does with a snapshot.
LEMMA SnapshotStays ==
    ASSUME NEW u, DOMAIN u = Fields, NEW version, NEW k
    PROVE  LET v == AfterRemoteEvent(HandleNoChange(u, version), version, k)
           IN  Alikeness(u, v) /\ DOMAIN v = Fields
  BY DEF AfterRemoteEvent, HandleNoChange, Synthesized, Alikeness, Fields

\* Nothing fails when the stream opens.
LEMMA OpenCalm ==
    ASSUME NEW u, DOMAIN u = Fields, Calm(u), u.state = "Starting", NEW order, NEW from
    PROVE  Calm(OnWatchStreamOpen(u, order, from))
<1>1. PICK v : v = OnWatchStreamOpen(u, order, from)
  OBVIOUS
<1>2. /\ v.timer = u.timer /\ v.online = u.online /\ v.failing = u.failing
      /\ v.state = "Open" /\ v.idle = u.idle /\ v.broken = u.broken
  BY <1>1 DEF OnWatchStreamOpen, Fields
<1>3. ~u.idle
  BY DEF Calm, IsOpen
<1>4. QED
  BY <1>1, <1>2, <1>3 DEF Calm, IsStarted, IsOpen

\* The timer runs out in the state it was started in.
LEMMA TimeOutCalm ==
    ASSUME NEW u, DOMAIN u = Fields, Calm(u), u.timer
    PROVE  Calm(TimeOut(u))
<1>1. PICK v : v = TimeOut(u)
  OBVIOUS
<1>2. /\ ~v.timer /\ v.online = "Offline" /\ v.failing = u.failing /\ v.listens = u.listens
      /\ v.state = u.state /\ v.idle = u.idle /\ ~v.broken
  BY <1>1 DEF TimeOut, Assert_, Fields, Calm
<1>3. QED
  BY <1>1, <1>2 DEF Calm, IsStarted, IsOpen

(***************************************************************************)
(* A read's registration is handed over once: an error is the last that a  *)
(* read hears, and after an answer it is muted.                            *)
(***************************************************************************)

For(ev, n) == ev.target = Profile /\ ev.tab = n
Errored(n) == profile[n] # Nothing /\ ~profile[n].ok

ErrorsEnd ==
    /\ \A n \in Tabs : Errored(n) =>
         n \notin listeners[Profile] /\ \A i \in 1..Len(main) : ~For(main[i], n)
    /\ \A i \in 1..Len(main) : main[i].target = Profile /\ ~main[i].ok =>
         /\ main[i].tab \notin listeners[Profile]
         /\ \A j \in 1..Len(main) : j > i => ~For(main[j], main[i].tab)

\* A read that was told of an error, or will be.
Ended(n) == Errored(n) \/ \E i \in 1..Len(main) : For(main[i], n) /\ ~main[i].ok

\* What the readers in L may be told that are not at their end.
Heard(L) == {ev \in Events : ev.target = Profile => ev.ok /\ ev.tab \in L}

\* Listeners are not at their end, and a read that has not begun is not either.
LEMMA NotEnded ==
    ASSUME Types, Reading, ErrorsEnd, NEW n \in Tabs, n \in listeners[Profile] \/ NotAsked(n)
    PROVE  ~Ended(n)
<1>1. CASE n \in listeners[Profile]
  BY <1>1 DEF Ended, ErrorsEnd, For
<1>2. CASE NotAsked(n)
  BY <1>2 DEF Ended, Errored, Reading, Asking, FreshEvents, Fresh, For
<1>3. QED
  BY <1>1, <1>2

\* Errors stay the last that is heard when readers that are not at their end hear
\* more of the document.
LEMMA PostedEnds ==
    ASSUME Types, ErrorsEnd, NEW L \in SUBSET Tabs, \A n \in L : ~Ended(n),
           NEW E, E = Heard(L), Posts(E), listeners'[Profile] \subseteq L, profile' = profile
    PROVE  ErrorsEnd'
<1>1. PICK s \in Seq(E) : main' = main \o s
  BY DEF Posts
<1>2. main \in Seq(Events)
  BY DEF Types
<1>3. E \subseteq Events
  BY DEF Heard
<1>4. s \in Seq(Events)
  BY <1>3
<1>5. PICK m \in Nat : m = Len(main)
  BY <1>2
<1>6. PICK k \in Nat : k = Len(s)
  BY <1>1
<1>7. Len(main') = m + k
  BY <1>1, <1>2, <1>4, <1>5, <1>6
<1>8. \A i \in 1..m : main'[i] = main[i]
  BY <1>1, <1>2, <1>4, <1>5, <1>6
<1>9. ASSUME NEW i \in 1..(m + k), i > m PROVE main'[i] \in E
  <2>1. main'[i] = s[i - m] /\ i - m \in 1..k
    BY <1>1, <1>2, <1>4, <1>5, <1>6, <1>9
  <2>2. QED
    BY <1>1, <1>6, <2>1
<1>10. \A i \in 1..(m + k) : i > m => (main'[i].target = Profile => main'[i].ok /\ main'[i].tab \in L)
  BY <1>9 DEF Heard
<1>11. \A i \in 1..m : main[i].tab \in Tabs
  <2>1. \A i \in 1..m : main[i] \in Events
    BY <1>2, <1>5
  <2>2. QED
    BY <2>1 DEF Events
<1>12. ASSUME NEW n \in Tabs, Errored(n)
       PROVE  n \notin listeners'[Profile] /\ \A i \in 1..(m + k) : ~For(main'[i], n)
  <2>1. n \notin L
    BY <1>12 DEF Ended
  <2>2. \A i \in 1..m : ~For(main'[i], n)
    BY <1>5, <1>8, <1>12 DEF ErrorsEnd
  <2>3. \A i \in 1..(m + k) : i > m => ~For(main'[i], n)
    BY <1>10, <2>1 DEF For
  <2>4. QED
    BY <2>1, <2>2, <2>3
<1>13. ASSUME NEW i \in 1..(m + k), main'[i].target = Profile, ~main'[i].ok
       PROVE  /\ main'[i].tab \notin listeners'[Profile]
              /\ \A j \in 1..(m + k) : j > i => ~For(main'[j], main'[i].tab)
  <2>1. i \in 1..m
    BY <1>10, <1>13
  <2>2. main'[i] = main[i]
    BY <1>8, <2>1
  <2>3. PICK n \in Tabs : n = main[i].tab
    BY <1>11, <2>1
  <2>4. For(main[i], n) /\ ~main[i].ok
    BY <1>13, <2>2, <2>3 DEF For
  <2>5. n \notin L
    BY <1>5, <2>1, <2>4 DEF Ended
  <2>6. \A j \in 1..m : j > i => ~For(main'[j], n)
    BY <1>5, <1>8, <2>1, <2>3, <2>4 DEF ErrorsEnd, For
  <2>7. \A j \in 1..(m + k) : j > m => ~For(main'[j], n)
    BY <1>10, <2>5 DEF For
  <2>8. QED
    BY <2>2, <2>3, <2>5, <2>6, <2>7
<1>14. \A n \in Tabs : Errored(n)' => Errored(n)
  BY DEF Errored
<1>15. QED
  BY <1>7, <1>12, <1>13, <1>14 DEF ErrorsEnd, For

\* A step that posts nothing.
LEMMA QuietEnds ==
    ASSUME ErrorsEnd, UNCHANGED <<main, listeners, profile>>
    PROVE  ErrorsEnd'
  BY DEF ErrorsEnd, Errored, For

\* An event for one of L, or for the questions, is one that may be heard.
LEMMA IsHeard ==
    ASSUME NEW n \in Tabs, NEW t \in Targets, NEW c \in Contents, NEW b \in BOOLEAN,
           NEW L, t = Profile => n \in L
    PROVE  Event(n, t, c, b) \in Heard(L)
<1>1. PICK ev : ev = Event(n, t, c, b)
  OBVIOUS
<1>2. ev \in Events
  BY <1>1, EventIsEvent
<1>3. ev.tab = n /\ ev.target = t /\ ev.ok
  BY <1>1 DEF Event
<1>4. QED
  BY <1>1, <1>2, <1>3 DEF Heard

\* The listeners, told of what is known.
LEMMA CacheIsHeard ==
    ASSUME Types, NEW E, E = Heard(listeners[Profile])
    PROVE  \A t \in Targets : \A n \in listeners[t] :
              /\ Event(n, t, cache[t], TRUE) \in E
              /\ Event(n, t, cache[t], FALSE) \in E
<1>1. ASSUME NEW t \in Targets, NEW n \in listeners[t], NEW b \in BOOLEAN
      PROVE  Event(n, t, cache[t], b) \in E
  BY <1>1, IsHeard DEF Types, Listened
<1>2. TRUE \in BOOLEAN /\ FALSE \in BOOLEAN
  OBVIOUS
<1>3. QED
  BY <1>1, <1>2

\* Listeners of the profile are tabs, and none of them is at its end.
LEMMA ListenersGoOn ==
    ASSUME Types, Reading, ErrorsEnd
    PROVE  listeners[Profile] \in SUBSET Tabs /\ \A n \in listeners[Profile] : ~Ended(n)
<1>1. listeners[Profile] \in SUBSET Tabs
  BY TargetsAre DEF Types, Listened
<1>2. QED
  BY <1>1, NotEnded

\* Told of the online state.
LEMMA ToldEnds ==
    ASSUME Types, Reading, ErrorsEnd, Kinds(w'), Told, UNCHANGED <<listeners, profile>>
    PROVE  ErrorsEnd'
<1>1. PICK E : E = Heard(listeners[Profile])
  OBVIOUS
<1>2. \A t \in Targets : \A n \in listeners[t] :
         /\ Event(n, t, cache[t], TRUE) \in E
         /\ t \in current => Event(n, t, cache[t], FALSE) \in E
  BY <1>1, CacheIsHeard
<1>3. Posts(E)
  BY <1>2, ToldShows
<1>4. PICK L : L = listeners[Profile]
  OBVIOUS
<1>5. L \in SUBSET Tabs /\ (\A n \in L : ~Ended(n)) /\ E = Heard(L) /\ listeners'[Profile] \subseteq L
  BY <1>1, <1>4, ListenersGoOn
<1>6. QED
  BY <1>3, <1>5, PostedEnds

\* Who is told of what is known is a reader yet, or one that starts.
LEMMA TakeListenEnds ==
    ASSUME Base, Reading, ErrorsEnd, TakeListen
    PROVE  ErrorsEnd'
<1>0. Types
  BY DEF Base
<1>1. PICK n \in Tabs : n = Head(worker).tab
  BY <1>0, WorkerTail DEF TakeListen, Tasks
<1>2. PICK t \in Targets : t = Head(worker).target
  BY <1>0, WorkerTail DEF TakeListen, Tasks
<1>3. profile' = profile /\ listeners' = [listeners EXCEPT ![t] = @ \cup {n}]
  BY <1>1, <1>2 DEF TakeListen
<1>4. PICK L : L = listeners[Profile] \cup (IF t = Profile THEN {n} ELSE {})
  OBVIOUS
<1>5. listeners'[Profile] \subseteq L
  BY <1>0, <1>3, <1>4, TargetsAre DEF Types, Listened
<1>6. t = Profile => NotAsked(n)
  <2>1. worker \in Seq(Tasks) /\ worker # <<>>
    BY <1>0 DEF Types, TakeListen
  <2>2. 1 \in 1..Len(worker) /\ Head(worker) = worker[1]
    BY <2>1
  <2>3. QED
    BY <1>1, <1>2, <2>2 DEF NotAsked, IsRead, TakeListen
<1>7. L \in SUBSET Tabs /\ \A m \in L : ~Ended(m)
  BY <1>0, <1>4, <1>6, ListenersGoOn, NotEnded
<1>8. PICK E : E = Heard(L)
  OBVIOUS
<1>9. Posts(E)
  <2>1. PICK c : c = (listeners[t] = {} \/ t \notin current)
    OBVIOUS
  <2>2. PICK yes : yes = TRUE
    OBVIOUS
  <2>3. PICK e : e = Effects
    OBVIOUS
  <2>4. PICK f : f = OnViewSnapshot(e, t, {n}, cache[t], c, yes)
    OBVIOUS
  <2>5. Take(f)
    BY <1>1, <1>2, <2>1, <2>2, <2>3, <2>4 DEF TakeListen
  <2>6. e \in EffectsIn(E)
    BY <1>0, <2>3, EffectsStart DEF Types, Kinds
  <2>7. c \in BOOLEAN /\ cache[t] \in Contents
    BY <1>0, <2>1 DEF Types
  <2>8. t = Profile => n \in L
    BY <1>4
  <2>9. \A m \in {n} : Event(m, t, cache[t], c) \in E
    BY <1>8, <2>7, <2>8, IsHeard
  <2>10. f \in EffectsIn(E)
    BY <2>4, <2>6, <2>9, ViewShown
  <2>11. QED
    BY <2>5, <2>10, Taken
<1>10. QED
  BY <1>0, <1>3, <1>5, <1>7, <1>8, <1>9, PostedEnds

\* Those that are left on the query hear of the online state.
LEMMA TakeRemoveEnds ==
    ASSUME Base, Reading, ErrorsEnd, TakeRemove
    PROVE  ErrorsEnd'
<1> DEFINE t == Profile
<1>0. Types /\ t \in Targets
  BY TargetsAre DEF Base
<1>1. PICK n \in Tabs : n = Head(worker).tab
  BY <1>0, WorkerTail DEF TakeRemove, Tasks
<1>2. profile' = profile /\ listeners' = [listeners EXCEPT ![t] = @ \ {n}]
  BY <1>1 DEF TakeRemove
<1>3. PICK L : L = listeners[t]
  OBVIOUS
<1>4. L \in SUBSET Tabs /\ (\A m \in L : ~Ended(m)) /\ listeners'[Profile] \subseteq L
  BY <1>0, <1>2, <1>3, ListenersGoOn DEF Types, Listened
<1>5. PICK E : E = Heard(L)
  OBVIOUS
<1>6. Posts(E)
  <2> DEFINE gone == [Effects EXCEPT !.current = @ \ {t}, !.raised[t] = {}]
  <2>1. CASE UNCHANGED main
    <3>1. main \in Seq(Events)
      BY <1>0 DEF Types
    <3>2. << >> \in Seq(E) /\ main' = main \o << >>
      BY <2>1, <3>1
    <3>3. QED
      BY <3>2 DEF Posts
  <2>2. CASE Take(HandleOnlineStateChange(gone, w'.online))
    <3>1. PICK e : e = gone
      OBVIOUS
    <3>2. Effects \in EffectsIn(E) /\ Effects.current = current
      BY <1>0, EffectsStart DEF Types, Kinds
    <3>3. e \in EffectsIn(E)
      BY <3>1, <3>2 DEF EffectsIn
    <3>4. Kinds(w')
      <4>1. w' = w \/ w' = StopListening(w, t)
        BY DEF TakeRemove
      <4>2. QED
        BY <1>0, <4>1, StopListeningKinds DEF Types
    <3>5. PICK o \in Onlines : o = w'.online
      BY <3>4 DEF Kinds
    <3>6. PICK f : f = HandleOnlineStateChange(e, o)
      OBVIOUS
    <3>7. \A x \in Targets : \A m \in listeners[x] :
            /\ Event(m, x, cache[x], TRUE) \in E
            /\ x \in e.current => Event(m, x, cache[x], FALSE) \in E
      BY <1>0, <1>3, <1>5, CacheIsHeard
    <3>8. Listened
      BY <1>0 DEF Types
    <3>9. f \in EffectsIn(E)
      BY ONLY <3>3, <3>6, <3>7, <3>8, OnlineStateShown
    <3>10. Take(f)
      BY <2>2, <3>1, <3>5, <3>6
    <3>11. QED
      BY <3>9, <3>10, Taken
  <2>3. QED
    BY <1>1, <2>1, <2>2 DEF TakeRemove
<1>7. QED
  BY <1>0, <1>2, <1>4, <1>5, <1>6, PostedEnds

\* The sequence of a finite set has each of its members once.
LEMMA OnceEach ==
    ASSUME NEW S, IsFiniteSet(S), NEW s, s = SetToSeq(S)
    PROVE  /\ Len(s) \in Nat
           /\ \A i \in 1..Len(s) : s[i] \in S
           /\ \A i, j \in 1..Len(s) : i # j => s[i] # s[j]
<1>1. PICK n \in Nat : s \in [1..n -> S] /\ IsInjective(s)
  BY SetAsSeq
<1>2. Len(s) = n
  BY <1>1
<1>3. \A i, j \in 1..n : i # j => s[i] # s[j]
  BY <1>1 DEF IsInjective
<1>4. QED
  BY <1>1, <1>2, <1>3

\* Two sequences, one after the other.
LEMMA Joined ==
    ASSUME NEW S, NEW a \in Seq(S), NEW b \in Seq(S), NEW x, x = a \o b
    PROVE  /\ x \in Seq(S) /\ Len(a) \in Nat /\ Len(b) \in Nat /\ Len(x) = Len(a) + Len(b)
           /\ \A i \in 1..Len(a) : x[i] = a[i]
           /\ \A i \in 1..(Len(a) + Len(b)) : i > Len(a) => i - Len(a) \in 1..Len(b) /\ x[i] = b[i - Len(a)]
  OBVIOUS

\* The listeners of the profile are told of an error and go.
LEMMA ErrorsPostedEnd ==
    ASSUME Types, Reading, ErrorsEnd, NEW L, L = listeners[Profile],
           NEW E, E = Heard(L), NEW s \in Seq(E), NEW told, told = SetToSeq(L),
           NEW r, r = [i \in 1..Len(told) |-> ErrorEvent(told[i], Profile)],
           main' = main \o (s \o r), listeners'[Profile] = {}, profile' = profile
    PROVE  ErrorsEnd'
<1>1. L \in SUBSET Tabs /\ \A n \in L : ~Ended(n)
  BY ListenersGoOn
<1>f. IsFiniteSet(L)
  BY <1>1, ListenersAreFinite
<1>2. PICK l \in Nat : l = Len(told)
  BY <1>f, OnceEach
<1>3. /\ \A i \in 1..l : told[i] \in L
      /\ \A i, j \in 1..l : i # j => told[i] # told[j]
  BY <1>f, <1>2, OnceEach
<1>4. \A i \in 1..l : r[i] = ErrorEvent(told[i], Profile) /\ r[i] \in Events
  BY <1>1, <1>2, <1>3, ErrorIsEvent, TargetsAre
<1>5. r \in Seq(Events) /\ Len(r) = l
  BY <1>2, <1>4
<1>6. main \in Seq(Events) /\ s \in Seq(Events)
  BY DEF Types, Heard
<1>7. PICK m \in Nat : m = Len(main)
  BY <1>6
<1>8. PICK k \in Nat : k = Len(s)
  BY <1>6
<1>q. PICK q : q = s \o r
  OBVIOUS
<1>9. /\ q \in Seq(Events) /\ Len(q) = k + l
      /\ \A i \in 1..k : q[i] = s[i]
      /\ \A i \in 1..(k + l) : i > k => i - k \in 1..l /\ q[i] = r[i - k]
  <2>1. PICK S : S = Events
    OBVIOUS
  <2>2. PICK a \in Seq(S) : a = s
    BY <1>6, <2>1
  <2>3. PICK b \in Seq(S) : b = r
    BY <1>5, <2>1
  <2>4. q = a \o b
    BY <1>q, <2>2, <2>3
  <2>5. /\ q \in Seq(S) /\ Len(q) = Len(a) + Len(b)
        /\ \A i \in 1..Len(a) : q[i] = a[i]
        /\ \A i \in 1..(Len(a) + Len(b)) : i > Len(a) => i - Len(a) \in 1..Len(b) /\ q[i] = b[i - Len(a)]
    BY ONLY <2>2, <2>3, <2>4, Joined
  <2>6. Len(a) = k /\ Len(b) = l
    BY <1>5, <1>8, <2>2, <2>3
  <2>7. /\ Len(q) = k + l /\ \A i \in 1..k : q[i] = s[i]
        /\ \A i \in 1..(k + l) : i > k => i - k \in 1..l /\ q[i] = r[i - k]
    BY ONLY <2>2, <2>3, <2>5, <2>6
  <2>8. QED
    BY <2>1, <2>5, <2>7
<1>x. PICK x : x = main'
  OBVIOUS
<1>10. x = main \o q
  BY <1>q, <1>x
<1>j. /\ Len(x) = Len(main) + Len(q)
      /\ \A i \in 1..Len(main) : x[i] = main[i]
      /\ \A i \in 1..(Len(main) + Len(q)) : i > Len(main) =>
           i - Len(main) \in 1..Len(q) /\ x[i] = q[i - Len(main)]
  <2>1. PICK S : S = Events
    OBVIOUS
  <2>2. main \in Seq(S) /\ q \in Seq(S)
    BY <1>6, <1>9, <2>1
  <2>3. PICK a \in Seq(S) : a = main
    BY <2>2
  <2>4. x = a \o q
    BY <1>10, <2>3
  <2>5. QED
    BY ONLY <2>2, <2>3, <2>4, Joined
<1>11. /\ Len(x) = m + (k + l)
       /\ \A i \in 1..m : x[i] = main[i]
       /\ \A i \in 1..(m + (k + l)) : i > m => i - m \in 1..(k + l) /\ x[i] = q[i - m]
  BY <1>7, <1>9, <1>j
<1>12. ASSUME NEW i \in 1..(m + (k + l)), i > m, i <= m + k
       PROVE  x[i].target = Profile => x[i].ok /\ x[i].tab \in L
  <2>1. i - m \in 1..k /\ x[i] = s[i - m]
    BY <1>9, <1>11, <1>12
  <2>2. s[i - m] \in E
    BY <1>8, <2>1
  <2>3. QED
    BY <2>1, <2>2 DEF Heard
<1>13. ASSUME NEW i \in 1..(m + (k + l)), i > m + k
       PROVE  /\ i - m - k \in 1..l /\ x[i].tab = told[i - m - k]
              /\ x[i].tab \in L
  <2>1. i - m \in 1..(k + l) /\ x[i] = q[i - m] /\ i - m > k
    BY <1>11, <1>13
  <2>2. q[i - m] = r[i - m - k] /\ i - m - k \in 1..l
    BY <1>9, <2>1
  <2>3. x[i] = ErrorEvent(told[i - m - k], Profile)
    BY <1>4, <2>1, <2>2
  <2>4. x[i].tab = told[i - m - k]
    BY <2>3 DEF ErrorEvent
  <2>5. QED
    BY <1>3, <2>2, <2>4
<1>14. ASSUME NEW n, n \notin L, NEW i \in 1..(m + (k + l)), i > m PROVE ~For(x[i], n)
  BY <1>12, <1>13, <1>14 DEF For
<1>15. \A i \in 1..m : main[i].tab \in Tabs
  <2>1. \A i \in 1..m : main[i] \in Events
    BY <1>6, <1>7
  <2>2. QED
    BY <2>1 DEF Events
<1>16. ASSUME NEW n \in Tabs, Errored(n)
       PROVE  \A i \in 1..(m + (k + l)) : ~For(x[i], n)
  <2>1. n \notin L
    BY <1>1, <1>16 DEF Ended
  <2>2. \A i \in 1..m : ~For(x[i], n)
    BY <1>7, <1>11, <1>16 DEF ErrorsEnd
  <2>3. \A i \in 1..(m + (k + l)) : i \in 1..m \/ i > m
    OBVIOUS
  <2>4. QED
    BY <1>14, <2>1, <2>2, <2>3
<1>17. ASSUME NEW i \in 1..(m + (k + l)), x[i].target = Profile, ~x[i].ok
       PROVE  \A j \in 1..(m + (k + l)) : j > i => ~For(x[j], x[i].tab)
  <2>1. CASE i <= m
    <3>1. i \in 1..m /\ x[i] = main[i]
      BY <1>11, <2>1
    <3>2. PICK n \in Tabs : n = main[i].tab
      BY <1>15, <3>1
    <3>3. For(main[i], n) /\ ~main[i].ok
      BY <1>17, <3>1, <3>2 DEF For
    <3>4. n \notin L
      BY <1>1, <1>7, <3>1, <3>3 DEF Ended
    <3>5. \A j \in 1..m : j > i => ~For(x[j], n)
      BY <1>7, <1>11, <3>1, <3>2, <3>3 DEF ErrorsEnd, For
    <3>6. QED
      BY <1>2, <1>7, <1>8, <1>14, <3>1, <3>2, <3>4, <3>5
  <2>2. CASE i > m /\ i <= m + k
    BY <1>12, <1>17, <2>2
  <2>3. CASE i > m + k
    <3>1. i - m - k \in 1..l /\ x[i].tab = told[i - m - k]
      BY <1>13, <2>3
    <3>2. ASSUME NEW j \in 1..(m + (k + l)), j > i PROVE ~For(x[j], x[i].tab)
      <4>1. j - m - k \in 1..l /\ x[j].tab = told[j - m - k]
        BY <1>13, <2>3, <3>2
      <4>2. told[j - m - k] # told[i - m - k]
        BY <1>3, <3>1, <3>2, <4>1
      <4>3. QED
        BY <3>1, <4>1, <4>2 DEF For
    <3>3. QED
      BY <3>2
  <2>4. i <= m \/ (i > m /\ i <= m + k) \/ i > m + k
    OBVIOUS
  <2>5. QED
    BY <2>1, <2>2, <2>3, <2>4
<1>18. \A n \in Tabs : Errored(n)' => Errored(n)
  BY DEF Errored
<1>19. Len(x) = m + (k + l)
  BY <1>11
<1>20. QED
  BY <1>16, <1>17, <1>18, <1>19, <1>x DEF ErrorsEnd

\* What a step tells of the connection when it reads an answer.
LEMMA OnlineHeard ==
    ASSUME Types, NEW E, E = Heard(listeners[Profile]), NEW e, e = HandleOnlineStateChange(Effects, "Online")
    PROVE  e \in EffectsIn(E)
<1>1. PICK o \in Onlines : o = "Online"
  BY DEF Onlines
<1>2. PICK f : f = Effects
  OBVIOUS
<1>3. f \in EffectsIn(E) /\ f.current = current
  BY <1>2, EffectsStart DEF Types, Kinds
<1>4. \A x \in Targets : \A n \in listeners[x] :
        /\ Event(n, x, cache[x], TRUE) \in E
        /\ x \in f.current => Event(n, x, cache[x], FALSE) \in E
  BY CacheIsHeard
<1>5. Listened /\ e = HandleOnlineStateChange(f, o)
  BY <1>1, <1>2 DEF Types
<1>6. QED
  BY ONLY <1>3, <1>4, <1>5, OnlineStateShown

\* What is refused is told as an error, and nothing after it.
LEMMA ReadAnswerEnds ==
    ASSUME Base, Types', Reading, ErrorsEnd, ReadAnswer
    PROVE  ErrorsEnd'
<1>0. Types /\ Shape(w)
  BY DEF Base, Truth, Inv
<1>1. PICK L : L = listeners[Profile]
  OBVIOUS
<1>2. L \in SUBSET Tabs /\ (\A n \in L : ~Ended(n))
  BY <1>0, <1>1, ListenersGoOn
<1>3. PICK E : E = Heard(L)
  OBVIOUS
<1>4. PICK e : e = HandleOnlineStateChange(Effects, "Online")
  OBVIOUS
<1>5. e \in EffectsIn(E)
  BY <1>0, <1>1, <1>3, <1>4, OnlineHeard
<1>6. profile' = profile
  BY DEF ReadAnswer
<1>7. ASSUME Posts(E), listeners'[Profile] \subseteq L PROVE ErrorsEnd'
  BY <1>0, <1>2, <1>3, <1>6, <1>7, PostedEnds
<1>8. CASE Take(e) /\ listeners' = listeners
  <2>1. Posts(E)
    BY <1>5, <1>8, Taken
  <2>2. QED
    BY <1>1, <1>7, <1>8, <2>1
<1>9. CASE \E version : /\ RaiseWatchSnapshot(UpdateState(w, "Online"), e, version)
                        /\ version \in Nat \ {0} /\ listeners' = listeners
  <2>1. PICK version \in Nat \ {0} : RaiseWatchSnapshot(UpdateState(w, "Online"), e, version)
    BY <1>9
  <2>2. PICK now : now = Now
    OBVIOUS
  <2>3. ASSUME NEW t \in Targets, NEW n \in listeners[t]
        PROVE  Event(n, t, cache'[t], t \notin now) \in E
    <3>1. n \in Tabs /\ cache'[t] \in Contents
      BY <1>0 DEF Types, Listened
    <3>2. PICK b \in BOOLEAN : b = (t \notin now)
      OBVIOUS
    <3>3. PICK c \in Contents : c = cache'[t]
      BY <3>1
    <3>4. Event(n, t, c, b) \in E
      BY <1>1, <1>3, <3>1, IsHeard
    <3>5. QED
      BY <3>2, <3>3, <3>4
  <2>4. Listened
    BY <1>0 DEF Types
  <2>5. Posts(E)
    BY <1>0, <1>5, <2>1, <2>2, <2>3, <2>4, SnapshotShows
  <2>6. QED
    BY <1>1, <1>7, <1>9, <2>5
<1>10. CASE \E v : \E t \in Targets : RejectListen(v, e, t)
  <2>1. PICK t \in Targets : \E v : RejectListen(v, e, t)
    BY <1>10
  <2> DEFINE told == SetToSeq(listeners[t])
             s == [i \in 1..Len(told) |-> ErrorEvent(told[i], t)]
             g == [e EXCEPT !.current = @ \ {t}, !.raised[t] = {}, !.events = @ \o s]
             added == e.events \o s
  <2>2. listeners' = [listeners EXCEPT ![t] = {}] /\ Take(g)
    BY <2>1 DEF RejectListen
  <2>3. g.events = added
    BY <1>5 DEF EffectsIn
  <2> HIDE DEF g, added
  <2>4. main' = main \o added
    BY <2>2, <2>3 DEF Take
  <2> USE DEF added
  <2>5. e.events \in Seq(E)
    BY <1>5 DEF EffectsIn
  <2>6. CASE t = Profile
    <3>1. listeners'[Profile] = {}
      BY <1>0, <2>2, <2>6, TargetsAre DEF Types, Listened
    <3>2. PICK p \in Seq(E) : p = e.events
      BY <2>5
    <3>3. PICK names : names = SetToSeq(L)
      OBVIOUS
    <3>4. PICK r : r = [i \in 1..Len(names) |-> ErrorEvent(names[i], Profile)]
      OBVIOUS
    <3>5. main' = main \o (p \o r)
      BY <1>1, <2>4, <2>6, <3>2, <3>3, <3>4
    <3> HIDE DEF s, told, added
    <3>6. QED
      BY <1>0, <1>1, <1>3, <1>6, <3>1, <3>2, <3>3, <3>4, <3>5, ErrorsPostedEnd
  <2>7. CASE t # Profile
    <3>1. listeners[t] \in SUBSET Tabs
      BY <1>0 DEF Types, Listened
    <3>2. \A n \in listeners[t] : ErrorEvent(n, t) \in E
      <4>1. ASSUME NEW n \in listeners[t] PROVE ErrorEvent(n, t) \in E
        <5>1. ErrorEvent(n, t) \in Events /\ ErrorEvent(n, t).target # Profile
          BY <2>7, <3>1, ErrorIsEvent DEF ErrorEvent
        <5>2. QED
          BY <1>3, <5>1 DEF Heard
      <4>2. QED
        BY <4>1
    <3>3. s \in Seq(E)
      BY <3>1, <3>2, ErrorsForAll
    <3> HIDE DEF s, told
    <3>4. added \in Seq(E)
      BY <1>5, <3>3, EventsAdded
    <3> HIDE DEF added
    <3>5. Posts(E)
      BY <2>4, <3>4 DEF Posts
    <3>6. listeners'[Profile] \subseteq L
      BY <1>0, <1>1, <2>2, TargetsAre DEF Types, Listened
    <3>7. QED
      BY <1>7, <3>5, <3>6
  <2>8. QED
    BY <2>6, <2>7
<1>11. QED
  <2>1. PICK m : m = Head(answers)
    OBVIOUS
  <2>2. m = answers[1] /\ 1 \in Places
    <3>1. answers # <<>>
      BY DEF ReadAnswer
    <3>2. QED
      BY <2>1, <3>1, Tailed DEF Base, Truth, Inv, Places
  <2>3. /\ m.op = "refused" => m.target \in Targets
        /\ m.op = "snapshot" => m.version \in Nat \ {0}
    <3>1. LastVersion \in Nat \ {0}
      BY <1>0, VersionsAre DEF Base
    <3>2. QED
      BY <2>2, <3>1 DEF Base, Truth, Messages
  <2>4. CASE m.op \in {"added", "removed", "current", "document"}
    BY <1>4, <1>8, <2>1, <2>4 DEF ReadAnswer
  <2>5. CASE m.op = "snapshot"
    BY <1>4, <1>9, <2>1, <2>3, <2>5 DEF ReadAnswer
  <2>6. CASE m.op = "refused"
    BY <1>4, <1>8, <1>10, <2>1, <2>3, <2>6 DEF ReadAnswer
  <2>7. QED
    BY <2>1, <2>4, <2>5, <2>6 DEF ReadAnswer

\* The next event is read.  If it is the second for a read that is not mute, the
\* first was an error, and after that there is none.
LEMMA RunEventEnds ==
    ASSUME Base, ErrorsEnd, RunEvent
    PROVE  ErrorsEnd' /\ (~w.broken => ~w'.broken)
<1>1. PICK ev : ev = Head(main)
  OBVIOUS
<1>2. main \in Seq(Events) /\ main # <<>> /\ main' = Tail(main) /\ listeners' = listeners
  BY DEF Base, Types, RunEvent
<1>3. ev \in Events /\ ev = main[1] /\ 1 \in 1..Len(main)
  BY <1>1, <1>2
<1>4. PICK k \in Nat : k = Len(main')
  BY <1>2
<1>5. Len(main) = k + 1 /\ \A i \in 1..k : main'[i] = main[i + 1]
  BY <1>2, <1>4
<1>6. PICK n \in Tabs : n = ev.tab
  BY <1>3 DEF Events
<1>7. profile \in [Tabs -> Events \cup {Nothing}]
  BY DEF Base, Types
<1>8. \/ profile' = profile /\ w' = w
      \/ /\ ev.target = Profile /\ profile' = [profile EXCEPT ![n] = ev]
         /\ profile[n] = Nothing \/ ~profile[n].ok
         /\ w' = Assert_(w, profile[n] = Nothing)
  BY <1>1, <1>6 DEF RunEvent
<1>9. ev.target = Profile => ~Errored(n)
  BY <1>3, <1>6 DEF ErrorsEnd, For
<1>10. ~w.broken => ~w'.broken
  <2>1. CASE w' = w
    BY <2>1
  <2>2. CASE w' = Assert_(w, profile[n] = Nothing) /\ profile[n] = Nothing
    BY <2>2 DEF Assert_, Base, Truth, Inv, Shape, Fields
  <2>3. QED
    BY <1>8, <1>9, <2>1, <2>2 DEF Errored
<1>11. ASSUME NEW x \in Tabs, Errored(x)'
       PROVE  x \notin listeners'[Profile] /\ \A i \in 1..k : ~For(main'[i], x)
  <2>1. CASE Errored(x)
    BY <1>2, <1>5, <2>1 DEF ErrorsEnd
  <2>2. CASE ~Errored(x)
    <3>1. x = n /\ ev.target = Profile /\ profile'[x] = ev
      BY <1>7, <1>8, <1>11, <2>2 DEF Errored
    <3>2. ~ev.ok
      BY <1>11, <3>1 DEF Errored
    <3>3. QED
      BY <1>2, <1>3, <1>5, <1>6, <3>1, <3>2 DEF ErrorsEnd
  <2>3. QED
    BY <2>1, <2>2
<1>12. ASSUME NEW i \in 1..k, main'[i].target = Profile, ~main'[i].ok
       PROVE  /\ main'[i].tab \notin listeners'[Profile]
              /\ \A j \in 1..k : j > i => ~For(main'[j], main'[i].tab)
  BY <1>2, <1>5, <1>12 DEF ErrorsEnd
<1>13. QED
  BY <1>4, <1>10, <1>11, <1>12 DEF ErrorsEnd

(***************************************************************************)
(* No document is in limbo.  What there is of a document at one time, in   *)
(* the cache, with the aggregator or on its way, agrees, and the cache has *)
(* the oldest of it.  A document in the cache is in its target when the    *)
(* target's view is current; and where a snapshot will make the view       *)
(* current that has been sent no document, what is in the cache is older.  *)
(***************************************************************************)

IsCopy(c, t) ==
    \/ c = cache[t]
    \/ t \in DOMAIN w.updates /\ c = w.updates[t]
    \/ \E i \in Places : IsDocument(answers[i], t) /\ c = answers[i].content

Consistent ==
    \A t \in Targets : \A c : IsCopy(c, t) =>
       /\ cache[t].at <= c.at
       /\ \A d : IsCopy(d, t) /\ c.at = d.at => c.exists = d.exists

Ahead == \A t \in Targets : cache[t].at > server[t].at => Covered(t)

Whole == Questions \in keys <=> cache[Questions].exists

InView ==
    \A t \in current : /\ cache[t].exists => t \in keys
                       /\ t \in DOMAIN w.updates => InForce(t)

\* Nothing the client has of the profile is as new as the version.
KeptBack(version) ==
    /\ cache[Profile].exists => cache[Profile].at < version
    /\ Profile \in DOMAIN w.updates /\ w.updates[Profile].exists => w.updates[Profile].at < version

Explained(i, version) ==
    \/ Profile \in keys
    \/ Has
    \/ \E k \in Places : k < i /\ Since(answers, k, Profile) /\ IsDocument(answers[k], Profile)
    \/ KeptBack(version)

Explaining ==
    Settled(Profile) =>
      \A i \in Places : IsSnapshot(answers[i]) /\ Since(answers, i, Profile)
                        => Explained(i, answers[i].version)

Backed == Consistent /\ Ahead /\ Whole /\ InView /\ Explaining

\* There are fewer copies.
LEMMA FewerConsistent ==
    ASSUME Consistent, cache' = cache,
           \A t \in Targets : \A c : IsCopy(c, t)' => IsCopy(c, t)
    PROVE  Consistent'
<1>1. ASSUME NEW t \in Targets, NEW c, IsCopy(c, t)'
      PROVE  /\ cache'[t].at <= c.at
             /\ \A d : IsCopy(d, t)' /\ c.at = d.at => c.exists = d.exists
  BY <1>1 DEF Consistent
<1>2. QED
  BY <1>1 DEF Consistent

\* A step of which nothing that is known changes, and after which the server
\* serves no more than before.
LEMMA QuietBacked ==
    ASSUME Backed, UNCHANGED <<cache, token, keys, server>>, current' \subseteq current,
           \A i \in Places' : \E k \in Places : answers'[i] = answers[k],
           \A t : t \in DOMAIN w'.updates => t \in DOMAIN w.updates /\ w'.updates[t] = w.updates[t],
           Settled(Profile)' => Settled(Profile) /\ w'.updates = w.updates /\ answers' = answers,
           \A t \in current' : t \in DOMAIN w'.updates /\ InForce(t) => InForce(t)'
    PROVE  Backed'
<1>1. Consistent'
  <2>1. ASSUME NEW t \in Targets, NEW c, IsCopy(c, t)' PROVE IsCopy(c, t)
    BY <2>1 DEF IsCopy
  <2>2. QED
    BY <2>1, FewerConsistent DEF Backed
<1>2. Ahead' /\ Whole'
  BY DEF Backed, Ahead, Whole, Covered
<1>3. InView'
  BY DEF Backed, InView
<1>4. Explaining'
  <2>1. ASSUME Settled(Profile)', NEW i \in Places', IsSnapshot(answers'[i]), Since(answers', i, Profile)
        PROVE  Explained(i, answers[i].version)'
    <3>1. Settled(Profile) /\ w'.updates = w.updates /\ answers' = answers /\ Places' = Places
      BY <2>1 DEF Places
    <3>2. PICK version : version = answers[i].version
      OBVIOUS
    <3>3. Explained(i, version)
      BY <2>1, <3>1, <3>2 DEF Backed, Explaining
    <3>4. Has => Has'
      BY <2>1, <3>1 DEF Has, InForce, Settled
    <3>5. KeptBack(version) => KeptBack(version)'
      BY <3>1 DEF KeptBack
    <3>6. Explained(i, version)'
      BY <3>1, <3>3, <3>4, <3>5 DEF Explained
    <3>7. QED
      BY <3>1, <3>2, <3>6 DEF Explained, KeptBack
  <2>2. QED
    BY <2>1 DEF Explaining
<1>5. QED
  BY <1>1, <1>2, <1>3, <1>4 DEF Backed

\* The numbers of the copies.
LEMMA CopiesAreTyped ==
    ASSUME Base, NEW t \in Targets, NEW c, IsCopy(c, t)
    PROVE  /\ c.at \in Nat /\ cache[t].at \in Nat /\ server[t].at \in Nat /\ LastVersion \in Nat
           /\ server[t].at <= LastVersion /\ cache[t].at <= LastVersion /\ c.at <= LastVersion
           /\ c.at >= server[t].at => c.exists = server[t].exists
<1>1. Truth /\ Typed
  BY DEF Base, Truth
<1>2. LastVersion \in Nat /\ server[t].at <= LastVersion /\ server[t].at \in Nat
  BY <1>1, LastVersionIsLast DEF Typed
<1>3. /\ cache[t].at \in 0..LastVersion
      /\ cache[t].at >= server[t].at => cache[t].exists = server[t].exists
  BY <1>1 DEF Truth, Knowledge
<1>4. CASE c = cache[t]
  BY <1>2, <1>3, <1>4
<1>5. ASSUME Past(c, t) PROVE /\ c.at \in Nat /\ c.at <= LastVersion
                              /\ c.at >= server[t].at => c.exists = server[t].exists
  BY <1>2, <1>5 DEF Past
<1>6. t \in DOMAIN w.updates => Past(w.updates[t], t)
  BY <1>1 DEF Truth, Updates
<1>7. \A i \in Places : IsDocument(answers[i], t) => Past(answers[i].content, t)
  <2>1. ASSUME NEW i \in Places, IsDocument(answers[i], t) PROVE Past(answers[i].content, t)
    <3>1. answers[i].op = "document" /\ answers[i].target = t
      BY <2>1 DEF IsDocument
    <3>2. QED
      BY <1>1, <3>1 DEF Truth, Messages
  <2>2. QED
    BY <2>1
<1>8. QED
  BY <1>2, <1>3, <1>4, <1>5, <1>6, <1>7 DEF IsCopy

\* One more copy: the server's document, newer than what the token stands for or
\* newer than all.
LEMMA CopyAdded ==
    ASSUME Base, Consistent, cache' = cache, NEW x \in Targets, NEW new,
           /\ new.at >= server[x].at /\ new.at \in Nat
           /\ new.at >= cache[x].at
           /\ \A c : IsCopy(c, x) /\ c.at = new.at => c.exists = new.exists,
           \A t \in Targets : \A c : IsCopy(c, t)' => IsCopy(c, t) \/ (t = x /\ c = new)
    PROVE  Consistent'
<1>1. ASSUME NEW t \in Targets, NEW c, IsCopy(c, t)'
      PROVE  /\ cache'[t].at <= c.at
             /\ \A d : IsCopy(d, t)' /\ c.at = d.at => c.exists = d.exists
  <2>1. IsCopy(c, t) \/ (t = x /\ c = new)
    BY <1>1
  <2>2. cache[t].at <= c.at
    <3>1. CASE IsCopy(c, t)
      BY <3>1 DEF Consistent
    <3>2. CASE t = x /\ c = new
      <4>1. cache[x].at \in Nat
        BY DEF Base, Types, Contents, Versions
      <4>2. QED
        BY <3>2, <4>1
    <3>3. QED
      BY <2>1, <3>1, <3>2
  <2>3. ASSUME NEW d, IsCopy(d, t)', c.at = d.at PROVE c.exists = d.exists
    <3>1. IsCopy(d, t) \/ (t = x /\ d = new)
      BY <2>3
    <3>2. CASE IsCopy(c, t) /\ IsCopy(d, t)
      BY <2>3, <3>2 DEF Consistent
    <3>3. QED
      BY <2>1, <2>3, <3>1, <3>2
  <2>4. QED
    BY <2>2, <2>3
<1>2. QED
  BY <1>1 DEF Consistent

\* The last answer is a snapshot of the last version: where the server's document
\* of the profile is explains it.
LEMMA LastExplained ==
    ASSUME Truth', Types', Settled(Profile)', NEW z, z = Len(answers'), z \in Places',
           IsSnapshot(answers'[z]), NEW version, version = LastVersion'
    PROVE  Explained(z, version)'
<1>1. Typed'
  BY DEF Truth
<1>2. /\ LastVersion' \in Nat /\ server'[Profile].at <= LastVersion'
      /\ server'[Profile].at \in Nat /\ cache'[Profile].at \in Nat /\ token'[Profile] \in Nat
  <2>1. /\ LastVersion' \in Nat \ {0} /\ \A t \in Targets : server'[t].at <= LastVersion'
    <3>1. PICK s : s = server'
      OBVIOUS
    <3>2. PICK v : v = CHOOSE u \in {s[t].at : t \in Targets} : \A t \in Targets : s[t].at <= u
      OBVIOUS
    <3>3. v = LastVersion'
      BY <3>1, <3>2 DEF LastVersion
    <3>4. \A t \in Targets : s[t].at \in Nat \ {0}
      BY <1>1, <3>1 DEF Typed
    <3>5. v \in Nat \ {0} /\ \A t \in Targets : s[t].at <= v
      BY ONLY <3>2, <3>4, Greatest
    <3>6. QED
      BY <3>1, <3>3, <3>5
  <2>2. QED
    BY <2>1, TargetsAre DEF Types, Contents, Versions
<1>3. /\ cache'[Profile].at >= server'[Profile].at => cache'[Profile].exists = server'[Profile].exists
      /\ Covered(Profile)' => (Profile \in keys' <=> server'[Profile].exists)
  BY TargetsAre DEF Truth, Knowledge
<1>4. Profile \in DOMAIN w'.updates =>
        /\ w'.updates[Profile].at \in Nat /\ w'.updates[Profile].at <= server'[Profile].at
        /\ w'.updates[Profile].at = server'[Profile].at => w'.updates[Profile].exists = server'[Profile].exists
        /\ token'[Profile] < w'.updates[Profile].at
  BY DEF Truth, Updates, Past
<1>5. CASE Coming(Profile)'
  <2>1. PICK j \in Places' : Since(answers', j, Profile) /\ IsDocument(answers'[j], Profile)
    BY <1>5 DEF Coming
  <2>2. j # z
    BY <2>1 DEF IsDocument, IsSnapshot
  <2>3. j < z
    BY <2>2 DEF Places
  <2>4. QED
    BY <2>1, <2>3 DEF Explained
<1>6. CASE Pending(Profile)'
  BY <1>6 DEF Pending, Settled, InForce, Has, Explained
<1>7. CASE ~server'[Profile].exists
  <2> DEFINE x == w'.updates[Profile]
  <2>1. PICK l \in Nat : l = LastVersion' /\ l = version
    BY <1>2
  <2>2. PICK s \in Nat : s = server'[Profile].at /\ s <= l
    BY <1>2, <2>1
  <2>3. PICK c \in Nat : c = cache'[Profile].at
    BY <1>2
  <2>4. ASSUME cache'[Profile].exists PROVE c < version
    <3>1. ~(c >= s)
      BY <1>3, <1>7, <2>2, <2>3, <2>4
    <3>2. QED
      BY <2>1, <2>2, <2>3, <3>1
  <2>5. ASSUME Profile \in DOMAIN w'.updates, x.exists PROVE x.at < version
    <3>1. x.at \in Nat /\ x.at <= s /\ x.at # s
      BY <1>4, <1>7, <2>2, <2>5
    <3>2. QED
      BY <2>1, <2>2, <3>1
  <2>6. cache'[Profile].exists => cache'[Profile].at < version
    BY <2>3, <2>4
  <2>7. QED
    BY <2>5, <2>6 DEF Explained, KeptBack
<1>8. CASE Covered(Profile)' /\ server'[Profile].exists
  BY <1>3, <1>8 DEF Explained
<1>9. QED
  <2>1. Coming(Profile)' \/ Pending(Profile)' \/ Covered(Profile)' \/ Absent(Profile)'
    BY TargetsAre DEF Truth, Accounted
  <2>2. QED
    BY <1>5, <1>6, <1>7, <1>8, <2>1 DEF Absent

\* Answers are added, a snapshot only at their end and of the last version.
LEMMA AddedExplains ==
    ASSUME Explaining, Truth', Types', UNCHANGED <<cache, keys>>, w'.updates = w.updates,
           NEW n \in Nat, n = Len(answers), NEW z \in Nat, z = Len(answers'), n <= z,
           \A i \in 1..n : answers'[i] = answers[i],
           \A i \in (n + 1)..z : IsSnapshot(answers'[i]) => i = z /\ answers'[i].version = LastVersion',
           Settled(Profile)' => Settled(Profile) \/ \E k \in (n + 1)..z : Counts(answers'[k], Profile)
    PROVE  Explaining'
<1>1. Places = 1..n /\ Places' = 1..z
  BY DEF Places
<1>2. ASSUME Settled(Profile)', NEW i \in 1..z, IsSnapshot(answers'[i]), Since(answers', i, Profile)
      PROVE  Explained(i, answers[i].version)'
  <2>1. PICK version : version = answers'[i].version
    OBVIOUS
  <2>2. CASE i > n
    <3>1. i \in (n + 1)..z
      BY <2>2
    <3>2. i = z /\ version = LastVersion'
      BY <1>2, <2>1, <3>1
    <3>3. Explained(i, version)'
      BY <1>1, <1>2, <3>2, LastExplained
    <3>4. QED
      BY <2>1, <3>3 DEF Explained, KeptBack
  <2>3. CASE i <= n
    <3>1. i \in 1..n /\ answers'[i] = answers[i]
      BY <2>3
    <3>2. \A k \in (n + 1)..z : k > i /\ k \in 1..z
      BY <3>1
    <3>3. \A k \in (n + 1)..z : ~Counts(answers'[k], Profile)
      BY <1>2, <3>2 DEF Since
    <3>4. Settled(Profile)
      BY <1>2, <3>3
    <3>5. \A j \in 0..n : Since(answers, j, Profile) => Since(answers', j, Profile)
      <4>1. ASSUME NEW j \in 0..n, Since(answers, j, Profile), NEW k \in 1..z, k > j
            PROVE  ~Counts(answers'[k], Profile)
        <5>1. k \in 1..n \/ k \in (n + 1)..z
          OBVIOUS
        <5>2. QED
          BY <3>3, <4>1, <5>1 DEF Since
      <4>2. QED
        BY <4>1 DEF Since
    <3>6. Since(answers, i, Profile)
      BY <1>2, <3>1 DEF Since
    <3>7. Explained(i, version)
      BY <1>1, <1>2, <2>1, <3>1, <3>4, <3>6 DEF Explaining
    <3>8. Has => Has'
      <4>1. Since(answers, 0, Profile) => Since(answers', 0, Profile)
        BY <3>5
      <4>2. QED
        BY <1>2, <4>1 DEF Has, InForce, Settled
    <3>9. KeptBack(version) => KeptBack(version)'
      BY DEF KeptBack
    <3>10. ASSUME NEW k \in Places, k < i, Since(answers, k, Profile), IsDocument(answers[k], Profile)
           PROVE  Explained(i, version)'
      <4>1. k \in 0..n /\ k \in Places' /\ answers'[k] = answers[k]
        BY <1>1
      <4>2. Since(answers', k, Profile) /\ IsDocument(answers'[k], Profile)
        BY <3>5, <3>10, <4>1
      <4>3. QED
        BY <3>10, <4>1, <4>2 DEF Explained
    <3>11. Explained(i, version)'
      BY <3>7, <3>8, <3>9, <3>10 DEF Explained
    <3>12. QED
      BY <2>1, <3>11 DEF Explained, KeptBack
  <2>4. QED
    BY <2>2, <2>3
<1>3. QED
  BY <1>1, <1>2 DEF Explaining

\* Answers are added that are not for requests of the targets in force.
LEMMA AddedInView ==
    ASSUME InView, current \subseteq Targets, UNCHANGED <<cache, keys, current>>,
           w'.listens = w.listens, w'.updates = w.updates,
           NEW n \in Nat, n = Len(answers), NEW z \in Nat, z = Len(answers'), n <= z,
           \A i \in 1..n : answers'[i] = answers[i],
           \A x \in Targets : InForce(x) =>
              /\ Silent(x)'
              /\ \A i \in (n + 1)..z : ~Counts(answers'[i], x)
    PROVE  InView'
<1>1. ASSUME NEW x \in Targets, InForce(x) PROVE InForce(x)'
  <2>1. \A i \in 1..n : ~Counts(answers[i], x)
    BY <1>1 DEF InForce, Since
  <2>2. \A i \in (n + 1)..z : ~Counts(answers'[i], x)
    BY <1>1
  <2>3. \A i \in 1..z : i \in 1..n \/ i \in (n + 1)..z
    OBVIOUS
  <2>4. \A i \in 1..z : ~Counts(answers'[i], x)
    BY <2>1, <2>2, <2>3
  <2>5. Since(answers', 0, x)
    BY <2>4 DEF Since
  <2>6. QED
    BY <1>1, <2>5 DEF InForce
<1>2. QED
  BY <1>1 DEF InView

\* What the server answers a watch with.
LEMMA WatchAdds ==
    ASSUME NEW t, NEW n, NEW z, AnswersWatch(t, n, z)
    PROVE  /\ n \in Nat /\ z \in Nat /\ n <= z /\ n = Len(answers) /\ z = Len(answers')
           /\ Places = 1..n /\ Places' = 1..z
           /\ \A i \in 1..n : answers'[i] = answers[i]
           /\ n + 1 \in (n + 1)..z /\ Counts(answers'[n + 1], t)
           /\ \A i \in (n + 1)..z :
                /\ \A x : Counts(answers'[i], x) => x = t
                /\ IsSnapshot(answers'[i]) => i = z /\ answers'[i].version = LastVersion
                /\ \A x : IsDocument(answers'[i], x)
                          => x = t /\ answers'[i].content = server[t] /\ server[t].at > token[t]
<1>1. /\ n \in Nat /\ n = Len(answers) /\ z = Len(answers') /\ z \in {n + 3, n + 4}
      /\ \A i \in 1..n : answers'[i] = answers[i]
      /\ answers'[n + 1] = [op |-> "added", target |-> t]
      /\ answers'[z - 1] = [op |-> "current", target |-> t]
      /\ answers'[z] = [op |-> "snapshot", version |-> LastVersion]
      /\ z = n + 4 => /\ answers'[n + 2] = [op |-> "document", target |-> t, content |-> server[t]]
                      /\ server[t].at > token[t]
  BY DEF AnswersWatch
<1>2. \A i \in (n + 1)..z : i = n + 1 \/ i = z - 1 \/ i = z \/ (z = n + 4 /\ i = n + 2)
  BY <1>1
<1>3. z \in Nat /\ n <= z /\ n + 1 \in (n + 1)..z
  BY <1>1
<1>4. ASSUME NEW i \in (n + 1)..z
      PROVE  /\ \A x : Counts(answers'[i], x) => x = t
             /\ IsSnapshot(answers'[i]) => i = z /\ answers'[i].version = LastVersion
             /\ \A x : IsDocument(answers'[i], x)
                       => x = t /\ answers'[i].content = server[t] /\ server[t].at > token[t]
  <2>1. CASE i = n + 1
    BY <1>1, <2>1 DEF Counts, IsDocument, IsSnapshot
  <2>2. CASE i = z - 1
    BY <1>1, <2>2 DEF Counts, IsDocument, IsSnapshot
  <2>3. CASE i = z
    BY <1>1, <2>3 DEF Counts, IsDocument, IsSnapshot
  <2>4. CASE z = n + 4 /\ i = n + 2
    BY <1>1, <2>4 DEF Counts, IsDocument, IsSnapshot
  <2>5. QED
    BY <1>2, <2>1, <2>2, <2>3, <2>4
<1>5. Counts(answers'[n + 1], t)
  BY <1>1 DEF Counts
<1>6. QED
  BY <1>1, <1>3, <1>4, <1>5 DEF Places

\* Every document sent is the server's, and new to the client.
LEMMA SentConsistent ==
    ASSUME Base, Consistent, Ahead, UNCHANGED <<cache, server>>, w'.updates = w.updates,
           NEW t \in Targets, server[t].at > token[t],
           NEW n \in Nat, Places = 1..n, NEW z \in Nat, Places' = 1..z,
           \A i \in 1..n : answers'[i] = answers[i],
           \A i \in (n + 1)..z : \A x : IsDocument(answers'[i], x)
                                        => x = t /\ answers'[i].content = server[t]
    PROVE  Consistent'
<1>1. \A x \in Targets : \A c : IsCopy(c, x)' => IsCopy(c, x) \/ (x = t /\ c = server[t])
  <2>1. ASSUME NEW x \in Targets, NEW c, IsCopy(c, x)' PROVE IsCopy(c, x) \/ (x = t /\ c = server[t])
    <3>1. CASE c = cache'[x] \/ (x \in DOMAIN w'.updates /\ c = w'.updates[x])
      BY <3>1 DEF IsCopy
    <3>2. ASSUME NEW i \in 1..z, IsDocument(answers'[i], x), c = answers'[i].content
          PROVE  IsCopy(c, x) \/ (x = t /\ c = server[t])
      <4>1. i \in 1..n \/ i \in (n + 1)..z
        OBVIOUS
      <4>2. CASE i \in 1..n
        BY <3>2, <4>2 DEF IsCopy
      <4>3. CASE i \in (n + 1)..z
        BY <3>2, <4>3
      <4>4. QED
        BY ONLY <4>1, <4>2, <4>3
    <3>3. QED
      BY <2>1, <3>1, <3>2 DEF IsCopy
  <2>2. QED
    BY <2>1
<1>2. QED
  <2>1. PICK new : new = server[t]
    OBVIOUS
  <2>2. /\ new.at \in Nat /\ cache[t].at \in Nat /\ token[t] \in Nat
    BY <2>1, TargetsAre DEF Base, Types, Contents, Versions
  <2>3. new.at >= cache[t].at
    <3>1. ~Covered(t)
      BY <2>1, <2>2 DEF Covered
    <3>2. ~(cache[t].at > server[t].at)
      BY <3>1 DEF Ahead
    <3>3. QED
      BY <2>1, <2>2, <3>2
  <2>4. \A c : IsCopy(c, t) /\ c.at = new.at => c.exists = new.exists
    BY <2>1, <2>2, CopiesAreTyped
  <2>5. new.at >= server[t].at
    BY <2>1, <2>2
  <2>6. \A x \in Targets : \A c : IsCopy(c, x)' => IsCopy(c, x) \/ (x = t /\ c = new)
    BY <1>1, <2>1
  <2>7. QED
    BY <2>2, <2>3, <2>4, <2>5, <2>6, CopyAdded

\* The server answers a request.
LEMMA ServeBacked ==
    ASSUME Base, Types', Backed, Serve
    PROVE  Backed'
<1>1. /\ Takes /\ UNCHANGED <<cache, token, keys, current, server, denied>>
  BY DEF Serve, storeVars
<1>2. PICK t, n : AnswersRequest(t, n)
  BY ServeAnswers DEF Base
<1>3. PICK r : r = Head(w.outgoing)
  OBVIOUS
<1>4. t = r.target /\ t \in Targets /\ n = Len(answers) /\ n \in Nat
  BY <1>2, <1>3 DEF AnswersRequest
<1>5. /\ w'.listens = w.listens /\ w'.updates = w.updates
      /\ ~Silent(t) /\ \A x : x # t => (Silent(x)' <=> Silent(x))
  BY <1>1, <1>3, <1>4, TakenRequest DEF Base
<1>6. Ahead' /\ Whole'
  BY <1>1 DEF Backed, Ahead, Whole, Covered
<1>7. Truth' /\ current \subseteq Targets
  BY ServeTruth DEF Base, Types
<1>8. LastVersion' = LastVersion
  BY <1>1, SameLastVersion
<1>9. \A x : InForce(x) => x # t /\ Silent(x)'
  BY <1>5 DEF InForce
<1>10. CASE /\ denied # {} /\ serving' = {}
            /\ \A i \in 1..Len(answers') : answers'[i].op \in {"refused", "removed"}
  <2>1. DOMAIN w'.updates = {}
    BY <1>5, <1>10 DEF Base, Truth, Denials
  <2>2. \A i \in Places' : \A x : ~IsDocument(answers'[i], x)
    BY <1>10 DEF Places, IsDocument
  <2>3. \A x \in Targets : \A c : IsCopy(c, x)' => IsCopy(c, x)
    BY <1>1, <2>1, <2>2 DEF IsCopy
  <2>4. Consistent'
    BY <1>1, <2>3, FewerConsistent DEF Backed
  <2>5. InView'
    BY <1>1, <2>1 DEF Backed, InView
  <2>6. Explaining'
    BY <1>10 DEF Explaining, Settled
  <2>7. QED
    BY <1>6, <2>4, <2>5, <2>6 DEF Backed
<1>11. CASE /\ serving' = serving \ {t}
            /\ Len(answers') = n + 1 /\ answers'[n + 1] = [op |-> "removed", target |-> t]
            /\ \A i \in 1..n : answers'[i] = answers[i]
  <2>1. PICK z \in Nat : z = n + 1
    BY <1>4
  <2>2. /\ z = Len(answers') /\ n <= z /\ Places = 1..n /\ Places' = 1..z
    BY <1>4, <1>11, <2>1 DEF Places
  <2>3. \A i \in (n + 1)..z : i = n + 1
    BY <1>4, <2>1
  <2>4. \A i \in (n + 1)..z :
           /\ \A x : Counts(answers'[i], x) => x = t
           /\ \A x : ~IsDocument(answers'[i], x)
           /\ ~IsSnapshot(answers'[i])
    BY <1>11, <2>3 DEF Counts, IsDocument, IsSnapshot
  <2>5. Consistent'
    <3>1. \A i \in 1..z : i \in 1..n \/ i \in (n + 1)..z
      BY <1>4
    <3>2. ASSUME NEW x \in Targets, NEW c, IsCopy(c, x)' PROVE IsCopy(c, x)
      BY <1>1, <1>5, <1>11, <2>2, <2>4, <3>1, <3>2 DEF IsCopy
    <3>3. QED
      BY <1>1, <3>2, FewerConsistent DEF Backed
  <2>6. InView'
    <3>1. \A x \in Targets : InForce(x) => Silent(x)' /\ \A i \in (n + 1)..z : ~Counts(answers'[i], x)
      BY <1>9, <2>4
    <3>2. QED
      BY <1>1, <1>4, <1>5, <1>7, <1>11, <2>2, <3>1, AddedInView DEF Backed
  <2>7. Explaining'
    <3>1. Settled(Profile)' => Settled(Profile)
      <4>1. CASE t = Profile
        BY <1>11, <4>1 DEF Settled
      <4>2. CASE t # Profile
        BY <1>5, <1>11, <4>2 DEF Settled
      <4>3. QED
        BY <4>1, <4>2
    <3>2. QED
      BY <1>1, <1>4, <1>5, <1>7, <1>11, <2>2, <2>4, <3>1, AddedExplains DEF Backed
  <2>8. QED
    BY <1>6, <2>5, <2>6, <2>7 DEF Backed
<1>12. ASSUME NEW z, AnswersWatch(t, n, z) PROVE Backed'
  <2>1. /\ n \in Nat /\ z \in Nat /\ n <= z /\ n = Len(answers) /\ z = Len(answers')
        /\ Places = 1..n /\ Places' = 1..z
        /\ \A i \in 1..n : answers'[i] = answers[i]
        /\ n + 1 \in (n + 1)..z /\ Counts(answers'[n + 1], t)
        /\ \A i \in (n + 1)..z :
             /\ \A x : Counts(answers'[i], x) => x = t
             /\ IsSnapshot(answers'[i]) => i = z /\ answers'[i].version = LastVersion
             /\ \A x : IsDocument(answers'[i], x)
                       => x = t /\ answers'[i].content = server[t] /\ server[t].at > token[t]
    BY ONLY <1>12, WatchAdds
  <2>2. Consistent'
    <3>1. CASE server[t].at > token[t]
      <4>1. /\ Base /\ Consistent /\ Ahead /\ UNCHANGED <<cache, server>> /\ w'.updates = w.updates
            /\ t \in Targets
        BY <1>1, <1>4, <1>5 DEF Backed
      <4>2. \A i \in (n + 1)..z : \A x : IsDocument(answers'[i], x) => x = t /\ answers'[i].content = server[t]
        BY <2>1
      <4>3. QED
        BY ONLY <2>1, <3>1, <4>1, <4>2, SentConsistent
    <3>2. CASE ~(server[t].at > token[t])
      <4>1. \A i \in 1..z : i \in 1..n \/ i \in (n + 1)..z
        BY <2>1
      <4>2. ASSUME NEW x \in Targets, NEW c, IsCopy(c, x)' PROVE IsCopy(c, x)
        BY <1>1, <1>5, <2>1, <3>2, <4>1, <4>2 DEF IsCopy
      <4>3. QED
        BY <1>1, <4>2, FewerConsistent DEF Backed
    <3>3. QED
      BY <3>1, <3>2
  <2>3. InView'
    <3>1. \A x \in Targets : InForce(x) => Silent(x)' /\ \A i \in (n + 1)..z : ~Counts(answers'[i], x)
      BY <1>9, <2>1
    <3>2. QED
      BY <1>1, <1>5, <1>7, <2>1, <3>1, AddedInView DEF Backed
  <2>4. Explaining'
    <3>1. Settled(Profile)' => Settled(Profile) \/ \E k \in (n + 1)..z : Counts(answers'[k], Profile)
      <4>1. CASE t = Profile
        BY <2>1, <4>1
      <4>2. CASE t # Profile
        BY <1>5, <1>12, <4>2 DEF Settled, AnswersWatch
      <4>3. QED
        BY <4>1, <4>2
    <3>2. \A i \in (n + 1)..z : IsSnapshot(answers'[i]) => i = z /\ answers'[i].version = LastVersion'
      BY <1>8, <2>1
    <3>3. QED
      BY <1>1, <1>5, <1>7, <2>1, <3>1, <3>2, AddedExplains DEF Backed
  <2>5. QED
    BY <1>6, <2>2, <2>3, <2>4 DEF Backed
<1>13. QED
  BY <1>2, <1>10, <1>11, <1>12 DEF AnswersRequest

\* The server's document changes.
LEMMA ChangeBacked ==
    ASSUME Base, Types', Backed, NEW t \in Targets, Change(t)
    PROVE  Backed'
<1>1. UNCHANGED <<cache, keys, token, current, w, serving>>
  BY DEF Change, clientVars, storeVars
<1>2. PICK n, z : AnswersChange(t, n, z)
  BY ChangeAnswers DEF Base
<1>3. /\ n = Len(answers) /\ n \in Nat /\ z = Len(answers') /\ (z = n \/ z = n + 2)
      /\ \A i \in 1..n : answers'[i] = answers[i]
      /\ z = n + 2 => /\ answers'[n + 1] = [op |-> "document", target |-> t, content |-> server'[t]]
                      /\ answers'[z] = [op |-> "snapshot", version |-> LastVersion']
  BY <1>2 DEF AnswersChange
<1>4. LastVersion \in Nat /\ \A x \in Targets : server[x].at <= LastVersion /\ server[x].at \in Nat
  <2>1. \A x \in Targets : server[x].at \in Nat
    BY DEF Base, Types, Contents, Versions
  <2>2. QED
    BY <2>1, LastVersionIsLast DEF Base, Truth
<1>5. Truth' /\ current \subseteq Targets
  BY ChangeTruth DEF Base, Types
<1>6. /\ server'[t].at = LastVersion + 1 /\ \A x \in Targets : x # t => server'[x] = server[x]
  <2>1. PICK e \in BOOLEAN : server' = [server EXCEPT ![t] = [at |-> LastVersion + 1, exists |-> e]]
    BY DEF Change
  <2>2. QED
    BY <2>1 DEF Base, Truth, Typed
<1>7. z \in Nat /\ n <= z /\ Places = 1..n /\ Places' = 1..z
  BY <1>3 DEF Places
<1>8. \A i \in (n + 1)..z : z = n + 2 /\ (i = n + 1 \/ i = z)
  BY <1>3
<1>9. \A i \in (n + 1)..z :
         /\ \A x : ~Counts(answers'[i], x)
         /\ IsSnapshot(answers'[i]) => i = z /\ answers'[i].version = LastVersion'
         /\ \A x : IsDocument(answers'[i], x) => x = t /\ answers'[i].content = server'[t]
  <2>1. ASSUME NEW i \in (n + 1)..z
        PROVE  /\ \A x : ~Counts(answers'[i], x)
               /\ IsSnapshot(answers'[i]) => i = z /\ answers'[i].version = LastVersion'
               /\ \A x : IsDocument(answers'[i], x) => x = t /\ answers'[i].content = server'[t]
    <3>1. CASE i = n + 1
      BY <1>3, <1>8, <3>1 DEF Counts, IsDocument, IsSnapshot
    <3>2. CASE i = z
      BY <1>3, <1>8, <3>2 DEF Counts, IsDocument, IsSnapshot
    <3>3. QED
      BY <1>8, <3>1, <3>2
  <2>2. QED
    BY <2>1
<1>10. Consistent'
  <2>1. PICK new : new = server'[t]
    OBVIOUS
  <2>2. \A c : IsCopy(c, t) => c.at \in Nat /\ c.at <= LastVersion /\ cache[t].at \in Nat /\ cache[t].at <= LastVersion
    BY CopiesAreTyped
  <2>3. IsCopy(cache[t], t)
    BY DEF IsCopy
  <2>4. /\ new.at \in Nat /\ new.at >= server[t].at /\ new.at >= cache[t].at
        /\ \A c : IsCopy(c, t) /\ c.at = new.at => c.exists = new.exists
    <3>1. new.at = LastVersion + 1
      BY <1>6, <2>1
    <3>2. new.at \in Nat /\ new.at >= server[t].at /\ new.at >= cache[t].at
      BY <1>4, <2>2, <2>3, <3>1
    <3>3. \A c : IsCopy(c, t) => c.at # new.at
      BY <1>4, <2>2, <3>1
    <3>4. QED
      BY <3>2, <3>3
  <2>5. \A x \in Targets : \A c : IsCopy(c, x)' => IsCopy(c, x) \/ (x = t /\ c = new)
    <3>1. \A i \in 1..z : i \in 1..n \/ i \in (n + 1)..z
      BY <1>3
    <3>2. ASSUME NEW x \in Targets, NEW c, IsCopy(c, x)' PROVE IsCopy(c, x) \/ (x = t /\ c = new)
      BY <1>1, <1>3, <1>7, <1>9, <2>1, <3>1, <3>2 DEF IsCopy
    <3>3. QED
      BY <3>2
  <2>6. QED
    BY <1>1, <2>4, <2>5, CopyAdded DEF Backed
<1>11. Ahead'
  <2>1. ASSUME NEW x \in Targets, cache'[x].at > server'[x].at PROVE Covered(x)'
    <3>1. CASE x = t
      <4>1. IsCopy(cache[t], t)
        BY DEF IsCopy
      <4>2. cache[t].at \in Nat /\ cache[t].at <= LastVersion
        BY <4>1, CopiesAreTyped
      <4>3. QED
        BY <1>1, <1>4, <1>6, <2>1, <3>1, <4>2
    <3>2. CASE x # t
      BY <1>1, <1>6, <2>1, <3>2 DEF Backed, Ahead, Covered
    <3>3. QED
      BY <3>1, <3>2
  <2>2. QED
    BY <2>1 DEF Ahead
<1>12. Whole'
  BY <1>1 DEF Backed, Whole
<1>13. InView'
  <2>1. \A x \in Targets : InForce(x) => Silent(x)' /\ \A i \in (n + 1)..z : ~Counts(answers'[i], x)
    BY <1>1, <1>9 DEF InForce, Silent
  <2>2. QED
    BY <1>1, <1>3, <1>5, <1>7, <2>1, AddedInView DEF Backed
<1>14. Explaining'
  <2>1. Settled(Profile)' => Settled(Profile)
    BY <1>1 DEF Settled, Silent
  <2>2. QED
    BY <1>1, <1>3, <1>5, <1>7, <1>9, <2>1, AddedExplains DEF Backed
<1>15. QED
  BY <1>10, <1>11, <1>12, <1>13, <1>14 DEF Backed

\* The first answer is read: what explained a later one still does.
LEMMA AnswerExplained ==
    ASSUME Explaining, IsSeq(answers), answers # <<>>, answers' = Tail(answers),
           Settled(Profile)' => Settled(Profile),
           Settled(Profile) =>
             \A version : \/ Profile \in keys \/ Has \/ KeptBack(version)
                          \/ IsDocument(answers[1], Profile) /\ Since(answers, 1, Profile)
                          => Profile \in keys' \/ Has' \/ KeptBack(version)'
    PROVE  Explaining'
<1>1. PICK n, z : n = Len(answers) /\ z = Len(answers')
  OBVIOUS
<1>2. /\ z \in Nat /\ n = z + 1
      /\ Places = 1..n /\ Places' = 1..z
      /\ \A i \in 1..z : i + 1 \in 1..n /\ answers'[i] = answers[i + 1]
      /\ \A i \in 1..n : i # 1 => i - 1 \in 1..z /\ answers'[i - 1] = answers[i]
      /\ \A i \in 1..z : Since(answers', i, Profile) <=> Since(answers, i + 1, Profile)
      /\ \A i \in 1..n : Since(answers, i, Profile) => Since(answers', i - 1, Profile)
  BY <1>1, AnswerTaken
<1>3. ASSUME Settled(Profile)', NEW i \in 1..z, IsSnapshot(answers'[i]), Since(answers', i, Profile)
      PROVE  Explained(i, answers[i].version)'
  <2>1. PICK version : version = answers'[i].version
    OBVIOUS
  <2>2. i + 1 \in Places /\ answers'[i] = answers[i + 1] /\ Since(answers, i + 1, Profile)
    BY <1>2, <1>3
  <2>3. Explained(i + 1, version)
    BY <1>3, <2>1, <2>2 DEF Explaining
  <2>4. Profile \in keys \/ Has \/ KeptBack(version) => Explained(i, version)'
    BY <1>3 DEF Explained
  <2>5. ASSUME NEW k \in Places, k < i + 1, Since(answers, k, Profile), IsDocument(answers[k], Profile)
        PROVE  Explained(i, version)'
    <3>1. CASE k = 1
      BY <1>3, <2>5, <3>1 DEF Explained
    <3>2. CASE k # 1
      <4>1. k - 1 \in Places' /\ k - 1 < i
        BY <1>2, <2>5, <3>2
      <4>2. Since(answers', k - 1, Profile) /\ IsDocument(answers'[k - 1], Profile)
        BY <1>2, <2>5, <3>2
      <4>3. QED
        BY <4>1, <4>2 DEF Explained
    <3>3. QED
      BY <3>1, <3>2
  <2>6. Explained(i, version)'
    BY <2>3, <2>4, <2>5 DEF Explained
  <2>7. QED
    BY <2>1, <2>6 DEF Explained, KeptBack
<1>4. QED
  BY <1>2, <1>3 DEF Explaining

\* A message about a target.
LEMMA UpdatesBacked ==
    ASSUME Base, Backed, denied = {}, answers # <<>>, answers' = Tail(answers),
           NEW m, m = Head(answers),
           UNCHANGED <<cache, keys, token, server, serving>>, current' \subseteq current,
           m.op \in {"added", "removed", "current", "document"}, m.target \in Targets,
           SameWishes(w, w'),
           m.op # "document" => w'.updates = w.updates,
           m.op = "document" => w'.updates = IF InForce(m.target)
                                             THEN Put(w.updates, m.target, m.content)
                                             ELSE w.updates
    PROVE  Backed'
<1>1. w'.listens = w.listens /\ w'.outgoing = w.outgoing
  BY DEF SameWishes
<1>2. /\ 1 \in Places /\ m = answers[1]
      /\ Settled(Profile)' <=> Settled(Profile)
      /\ \A t : InForce(t) => InForce(t)'
      /\ ~Counts(m, Profile) => (InForce(Profile)' <=> InForce(Profile))
      /\ ~Counts(m, Profile) /\ Since(answers, 1, Profile) => Since(answers, 0, Profile)
  BY <1>1, AnswerShifts DEF Base
<1>3. IsSeq(answers) /\ Truth
  BY DEF Base, Truth, Inv
<1>4. \/ w'.updates = w.updates
      \/ m.op = "document" /\ InForce(m.target) /\ w'.updates = Put(w.updates, m.target, m.content)
  OBVIOUS
<1>5. \A t : t \in DOMAIN w'.updates =>
         \/ t \in DOMAIN w.updates /\ w'.updates[t] = w.updates[t]
         \/ m.op = "document" /\ InForce(t) /\ t = m.target /\ w'.updates[t] = m.content
  BY <1>4 DEF Put
<1>6. Consistent'
  <2>1. \A i \in Places' : \E k \in Places : answers'[i] = answers[k]
    BY <1>3, StillThere
  <2>2. ASSUME NEW t \in Targets, NEW c, IsCopy(c, t)' PROVE IsCopy(c, t)
    <3>1. CASE c = cache'[t]
      BY <3>1 DEF IsCopy
    <3>2. CASE t \in DOMAIN w'.updates /\ c = w'.updates[t]
      BY <1>2, <1>5, <3>2 DEF IsCopy, IsDocument
    <3>3. CASE \E i \in Places' : IsDocument(answers'[i], t) /\ c = answers'[i].content
      BY <2>1, <3>3 DEF IsCopy
    <3>4. QED
      BY <2>2, <3>1, <3>2, <3>3 DEF IsCopy
  <2>3. QED
    BY <2>2, FewerConsistent DEF Backed
<1>7. Ahead' /\ Whole'
  BY DEF Backed, Ahead, Whole, Covered
<1>8. InView'
  <2>1. ASSUME NEW t \in current'
        PROVE  /\ cache'[t].exists => t \in keys'
               /\ t \in DOMAIN w'.updates => InForce(t)'
    BY <1>2, <1>5 DEF Backed, InView
  <2>2. QED
    BY <2>1 DEF InView
<1>9. ASSUME Settled(Profile), NEW version,
             \/ Profile \in keys \/ Has \/ KeptBack(version)
             \/ IsDocument(answers[1], Profile) /\ Since(answers, 1, Profile)
      PROVE  Profile \in keys' \/ Has' \/ KeptBack(version)'
  <2>1. CASE m.op \in {"added", "removed"}
    <3>1. Counts(m, m.target) /\ \A k \in Places : ~(k < 1)
      BY <2>1 DEF Counts, Places
    <3>2. DOMAIN w.updates = {}
      BY <1>2, <1>3, <3>1 DEF Truth, Flushed
    <3>3. ~Has /\ ~IsDocument(answers[1], Profile) /\ w'.updates = w.updates
      BY <1>2, <2>1, <3>2 DEF Has, IsDocument
    <3>4. QED
      BY <1>9, <3>3 DEF KeptBack
  <2>2. CASE m.op = "current" \/ (m.op = "document" /\ m.target # Profile)
    <3>1. ~Counts(m, Profile) /\ ~IsDocument(answers[1], Profile)
      BY <1>2, <2>2 DEF Counts, IsDocument
    <3>2. /\ Profile \in DOMAIN w'.updates <=> Profile \in DOMAIN w.updates
          /\ Profile \in DOMAIN w.updates => w'.updates[Profile] = w.updates[Profile]
      <4>1. CASE w'.updates = w.updates
        BY <4>1
      <4>2. CASE m.target # Profile /\ w'.updates = Put(w.updates, m.target, m.content)
        BY <4>2 DEF Put
      <4>3. QED
        BY <2>2, <4>1, <4>2
    <3>3. Has' <=> Has
      BY <1>2, <3>1, <3>2 DEF Has
    <3>4. KeptBack(version) => KeptBack(version)'
      BY <3>2 DEF KeptBack
    <3>5. QED
      BY <1>9, <3>1, <3>3, <3>4
  <2>3. CASE m.op = "document" /\ m.target = Profile
    <3>1. ~Counts(m, Profile)
      BY <2>3 DEF Counts
    <3>2. CASE InForce(Profile)
      <4>1. w'.updates = Put(w.updates, Profile, m.content)
        BY <2>3, <3>2
      <4>2. Profile \in DOMAIN w'.updates
        BY <4>1 DEF Put
      <4>3. QED
        BY <1>2, <3>1, <3>2, <4>2 DEF Has
    <3>3. CASE ~InForce(Profile)
      <4>1. ~Has /\ w'.updates = w.updates
        BY <2>3, <3>3 DEF Has
      <4>2. ~Since(answers, 1, Profile)
        BY <1>2, <1>9, <3>1, <3>3 DEF InForce, Settled
      <4>3. QED
        BY <1>9, <4>1, <4>2 DEF KeptBack
    <3>4. QED
      BY <3>2, <3>3
  <2>4. QED
    BY <2>1, <2>2, <2>3
<1>10. Explaining'
  BY <1>2, <1>3, <1>9, AnswerExplained DEF Backed
<1>11. QED
  BY <1>6, <1>7, <1>8, <1>10 DEF Backed

\* An answer is read that is no snapshot.
LEMMA MessageBacked ==
    ASSUME Base, Reading, Backed, ReadAnswer, NEW m, m = Head(answers), m.op # "snapshot"
    PROVE  Backed'
<1>1. PICK v : v = UpdateState(w, "Online")
  OBVIOUS
<1>2. PICK e : e = HandleOnlineStateChange(Effects, "Online")
  OBVIOUS
<1>3. PICK E : E = {ev \in Events : Fresh(ev)'}
  OBVIOUS
<1>4. /\ answers # <<>> /\ answers' = Tail(answers)
      /\ UNCHANGED <<server, serving, denied>>
      /\ e \in EffectsIn(E) /\ e.current \subseteq current
      /\ Shape(w) /\ DOMAIN w = Fields /\ SameWishes(w, v)
      /\ m.target \in Targets
      /\ denied # {} => serving = {} /\ m.op \in {"refused", "removed"}
      /\ m.op = "refused" => denied # {}
  BY <1>1, <1>2, <1>3, AnswerRead
<1>5. v.updates = w.updates
  BY <1>1, <1>4, OnlineLeaves
<1>6. UNCHANGED <<cache, token, keys>>
  BY DEF ReadAnswer, storeVars
<1>7. ASSUME denied # {}, w'.updates = w.updates, current' \subseteq current PROVE Backed'
  <2>1. DOMAIN w.updates = {} /\ ~Settled(Profile)'
    BY <1>4, <1>7 DEF Base, Truth, Denials, Settled
  <2>2. \A i \in Places' : \E k \in Places : answers'[i] = answers[k]
    BY <1>4, StillThere DEF Base
  <2>3. QED
    BY <1>4, <1>6, <1>7, <2>1, <2>2, QuietBacked
<1>8. CASE m.op = "refused"
  <2>1. CASE m.target \notin w.listens
    <3>1. w' = v /\ Take(e)
      BY <1>1, <1>2, <1>8, <2>1 DEF ReadAnswer
    <3>2. current' \subseteq current
      BY <1>4, <3>1, Taken
    <3>3. QED
      BY <1>4, <1>5, <1>7, <1>8, <3>1, <3>2
  <2>2. CASE m.target \in w.listens
    <3>1. RejectListen(v, e, m.target)
      BY <1>1, <1>2, <1>8, <2>2 DEF ReadAnswer
    <3>2. w' = RemoveTarget(v, m.target) /\ current' = e.current \ {m.target}
      BY <1>4, <3>1 DEF RejectListen, Take, EffectsIn
    <3>3. w'.updates = w.updates
      BY <1>4, <1>5, <3>2 DEF RemoveTarget, SameWishes, Fields
    <3>4. QED
      BY <1>4, <1>7, <1>8, <3>2, <3>3
  <2>3. QED
    BY <2>1, <2>2
<1>9. CASE m.op \in {"added", "removed", "current", "document"}
  <2>1. /\ w' = CASE m.op = "added"    -> HandleAdded(v, m.target)
                  [] m.op = "removed"  -> HandleRemoved(v, m.target)
                  [] m.op = "current"  -> HandleCurrent(v, m.target)
                  [] m.op = "document" -> HandleDocumentChange(v, m.target, m.content, keys)
        /\ Take(e)
    BY <1>1, <1>2, <1>9 DEF ReadAnswer
  <2>2. current' \subseteq current
    BY <1>4, <2>1, Taken
  <2>3. \/ m.op = "added" /\ w' = HandleAdded(v, m.target)
        \/ m.op = "removed" /\ w' = HandleRemoved(v, m.target)
        \/ m.op = "current" /\ w' = HandleCurrent(v, m.target)
        \/ m.op = "document" /\ w' = HandleDocumentChange(v, m.target, m.content, keys)
    BY <1>9, <2>1
  <2>4. CASE denied # {}
    <3>1. w' = HandleRemoved(v, m.target)
      BY <1>4, <2>3, <2>4
    <3>2. Shape(v)
      BY <1>1, <1>4, OnlineLeaves, AlikeSteps DEF Alike, SameWishes
    <3>3. w'.updates = v.updates
      BY <3>1, <3>2, RemovedTouches
    <3>4. QED
      BY <1>5, <1>7, <2>2, <2>4, <3>3
  <2>5. CASE denied = {}
    <3>1. /\ SameWishes(w, w')
          /\ m.op # "document" => w'.updates = w.updates
          /\ m.op = "document" => w'.updates = IF InForce(m.target)
                                               THEN Put(w.updates, m.target, m.content)
                                               ELSE w.updates
      BY <1>1, <1>4, <2>3, <2>5, AnswerUpdates DEF Base
    <3>2. QED
      BY <1>4, <1>6, <1>9, <2>2, <2>5, <3>1, UpdatesBacked
  <2>6. QED
    BY <2>4, <2>5
<1>10. QED
  BY <1>8, <1>9 DEF ReadAnswer

\* A snapshot is read.
Snapshots(m, version, e) ==
    /\ denied = {} /\ answers # <<>> /\ answers' = Tail(answers) /\ UNCHANGED <<server, serving>>
    /\ m = Head(answers) /\ IsSnapshot(m) /\ version = m.version
    /\ RaiseWatchSnapshot(UpdateState(w, "Online"), e, version)

\* What the snapshot makes of a document.
LEMMA SnapshotMakes ==
    ASSUME Base, Consistent, NEW m, NEW version \in Nat \ {0}, NEW e, Snapshots(m, version, e),
           NEW t \in Targets
    PROVE  /\ SameWishes(w, w') /\ DOMAIN w'.updates = {}
           /\ 1 \in Places /\ m = answers[1]
           /\ t \in Active(w) <=> InForce(t) /\ t \in DOMAIN w.states
           /\ InForce(t) => Settled(t) /\ Since(answers, 1, t)
           /\ t \in DOMAIN w.updates =>
                /\ cache'[t].exists = w.updates[t].exists
                /\ cache'[t] = cache[t] \/ cache'[t] = w.updates[t]
                /\ InForce(t) => t \in Active(w) /\ (t \in keys' <=> w.updates[t].exists)
           /\ ~(InForce(t) /\ t \in DOMAIN w.updates) => (t \in keys' <=> t \in keys)
           /\ t \notin DOMAIN w.updates /\ t \notin Missing => cache'[t] = cache[t]
           /\ t \in Missing => /\ t \notin DOMAIN w.updates /\ t = Profile /\ t \notin keys
                               /\ t \in Active(w)
                               /\ \/ cache'[t] = NoDocument(version) /\ version > cache[t].at
                                  \/ cache'[t] = cache[t] /\ ~(version > cache[t].at)
           /\ token'[t] = IF t \in Active(w) THEN version ELSE token[t]
           /\ token[t] <= version
<1>1. Truth /\ Types /\ Inv /\ Shape(w) /\ IsOpen(w) /\ IsSeq(answers) /\ denied = {}
  BY DEF Base, Truth, Inv, Snapshots
<1>2. /\ SameWishes(w, w') /\ DOMAIN w'.updates = {}
      /\ \A x : x \in keys' <=>
           \/ x \in Active(w) /\ x \notin Missing /\ w.states[x].change = "added"
           \/ x \in keys /\ ~(x \in Active(w) /\ x \notin Missing /\ w.states[x].change = "removed")
      /\ token'[t] = IF t \in Active(w) THEN version ELSE token[t]
      /\ cache'[t] = IF t \in DOMAIN w.updates \cup Missing
                     THEN Newer(TakenIn(t, version), cache[t]) ELSE cache[t]
  BY <1>1, SnapshotTakes DEF Snapshots
<1>3. w'.listens = w.listens /\ w'.outgoing = w.outgoing
  BY <1>2 DEF SameWishes
<1>4. /\ 1 \in Places /\ m = answers[1]
      /\ Since(answers, 0, t) => Since(answers, 1, t)
  BY <1>1, <1>3, AnswerShifts DEF Snapshots
<1>5. t \in Active(w) <=> InForce(t) /\ t \in DOMAIN w.states
  BY <1>1, ActiveMeans DEF Active
<1>6. InForce(t) => Settled(t) /\ Since(answers, 1, t)
  BY <1>1, <1>4 DEF InForce, Settled, Truth, Watched
<1>7. token[t] <= version
  BY <1>1, <1>4 DEF Truth, Messages, Snapshots, IsSnapshot
<1>8. InForce(t) =>
         /\ t \in DOMAIN w.updates => t \in DOMAIN w.states /\ w.states[t].change = ChangeFor(w.updates[t], t)
         /\ t \notin DOMAIN w.updates /\ t \in DOMAIN w.states => w.states[t].change = "none"
  BY <1>1 DEF Truth, Changes
<1>9. t \in Missing => /\ t \notin DOMAIN w.updates /\ t = Profile /\ t \notin keys
                       /\ t \in Active(w)
  BY TargetsAssumption DEF Missing
<1>10. ASSUME t \in DOMAIN w.updates, InForce(t)
       PROVE  t \in Active(w) /\ (t \in keys' <=> w.updates[t].exists)
  <2>1. t \in Active(w) /\ t \notin Missing /\ w.states[t].change = ChangeFor(w.updates[t], t)
    BY <1>5, <1>8, <1>9, <1>10
  <2>2. t \in keys' <=> \/ w.states[t].change = "added"
                        \/ t \in keys /\ ~(w.states[t].change = "removed")
    BY <1>2, <2>1
  <2>3. w.updates[t].exists \in BOOLEAN
    BY <1>1, <1>10 DEF Types, Kinds, Contents
  <2>4. QED
    BY <2>1, <2>2, <2>3 DEF ChangeFor
<1>11. ASSUME ~(InForce(t) /\ t \in DOMAIN w.updates)
       PROVE  t \in keys' <=> t \in keys
  <2>1. CASE t \notin Active(w) \/ t \in Missing
    BY <1>2, <1>9, <2>1
  <2>2. CASE t \in Active(w)
    <3>1. w.states[t].change = "none"
      BY <1>5, <1>8, <1>11, <2>2
    <3>2. QED
      BY <1>2, <3>1
  <2>3. QED
    BY <2>1, <2>2
<1>12. ASSUME t \in DOMAIN w.updates
       PROVE  /\ cache'[t].exists = w.updates[t].exists
              /\ cache'[t] = cache[t] \/ cache'[t] = w.updates[t]
  <2>1. PICK u : u = w.updates[t]
    OBVIOUS
  <2>2. u.at \in Nat /\ cache[t].at \in Nat
    BY <1>1, <1>12, <2>1 DEF Types, Kinds, Contents, Versions
  <2>3. cache'[t] = Newer(u, cache[t])
    BY <1>2, <1>9, <1>12, <2>1 DEF TakenIn
  <2>4. IsCopy(u, t) /\ IsCopy(cache[t], t)
    BY <1>12, <2>1 DEF IsCopy
  <2>5. cache[t].at <= u.at /\ (cache[t].at = u.at => cache[t].exists = u.exists)
    BY <2>4 DEF Consistent
  <2>6. CASE u.at > cache[t].at
    BY <2>1, <2>3, <2>6 DEF Newer
  <2>7. CASE ~(u.at > cache[t].at)
    <3>1. cache[t].exists = u.exists
      BY <2>2, <2>5, <2>7
    <3>2. QED
      BY <2>1, <2>3, <2>7, <3>1 DEF Newer
  <2>8. QED
    BY <2>6, <2>7
<1>13. ASSUME t \in Missing
       PROVE  \/ cache'[t] = NoDocument(version) /\ version > cache[t].at
              \/ cache'[t] = cache[t] /\ ~(version > cache[t].at)
  <2>1. cache'[t] = Newer(NoDocument(version), cache[t])
    BY <1>2, <1>13 DEF TakenIn
  <2>2. NoDocument(version).at = version
    BY DEF NoDocument
  <2>3. QED
    BY <2>1, <2>2 DEF Newer
<1>14. t \notin DOMAIN w.updates /\ t \notin Missing => cache'[t] = cache[t]
  BY <1>2
<1>15. QED
  BY <1>2, <1>4, <1>5, <1>6, <1>7, <1>9, <1>10, <1>11, <1>12, <1>13, <1>14

\* No document is in limbo after a snapshot.
LEMMA NoLimbo ==
    ASSUME Base, Backed, NEW m, NEW version \in Nat \ {0}, NEW e, Snapshots(m, version, e),
           NEW t \in Now, cache'[t].exists
    PROVE  t \in keys'
<1>0. t \in Targets /\ Consistent
  BY DEF Now, Backed
<1>1. /\ 1 \in Places /\ m = answers[1]
      /\ t \in Active(w) <=> InForce(t) /\ t \in DOMAIN w.states
      /\ InForce(t) => Settled(t) /\ Since(answers, 1, t)
      /\ t \in DOMAIN w.updates =>
           /\ cache'[t].exists = w.updates[t].exists
           /\ InForce(t) => t \in Active(w) /\ (t \in keys' <=> w.updates[t].exists)
      /\ ~(InForce(t) /\ t \in DOMAIN w.updates) => (t \in keys' <=> t \in keys)
      /\ t \notin DOMAIN w.updates /\ t \notin Missing => cache'[t] = cache[t]
      /\ t \in Missing => /\ t \notin DOMAIN w.updates /\ t = Profile /\ t \notin keys
                          /\ t \in Active(w)
                          /\ \/ cache'[t] = NoDocument(version) /\ version > cache[t].at
                             \/ cache'[t] = cache[t] /\ ~(version > cache[t].at)
  BY <1>0, SnapshotMakes
<1>2. CASE t \in DOMAIN w.updates
  <2>1. InForce(t)
    <3>1. CASE t \in Active(w)
      BY <1>1, <3>1
    <3>2. CASE t \notin Active(w)
      BY <1>2, <3>2 DEF Now, Backed, InView
    <3>3. QED
      BY <3>1, <3>2
  <2>2. QED
    BY <1>1, <1>2, <2>1
<1>3. CASE t \in Missing
  <2>1. ~NoDocument(version).exists
    BY DEF NoDocument
  <2>2. cache[t].exists /\ ~(version > cache[t].at)
    BY <1>1, <1>3, <2>1
  <2>3. Settled(Profile) /\ Since(answers, 1, Profile) /\ Profile \notin keys
        /\ Profile \notin DOMAIN w.updates /\ t = Profile
    BY <1>1, <1>3
  <2>4. IsSnapshot(answers[1]) /\ answers[1].version = version
    BY <1>1 DEF Snapshots
  <2>5. Explained(1, version)
    BY <1>1, <2>3, <2>4 DEF Backed, Explaining
  <2>6. ~KeptBack(version)
    <3>1. cache[Profile].at \in Nat
      BY TargetsAre, ServerIsTyped DEF Base
    <3>2. QED
      BY <2>2, <2>3, <3>1 DEF KeptBack
  <2>7. \A k \in Places : ~(k < 1)
    BY DEF Places
  <2>8. QED
    BY <2>3, <2>5, <2>6, <2>7 DEF Explained, Has
<1>4. CASE t \notin DOMAIN w.updates /\ t \notin Missing
  <2>1. cache[t].exists /\ (t \in keys' <=> t \in keys)
    BY <1>1, <1>4
  <2>2. CASE t \notin Active(w)
    BY <2>1, <2>2 DEF Now, Backed, InView
  <2>3. CASE t \in Active(w) /\ t = Profile
    <3>1. w.states[t].current
      BY <2>3 DEF Now
    <3>2. t \in keys
      BY <1>4, <2>3, <3>1, TargetsAssumption DEF Missing
    <3>3. QED
      BY <2>1, <3>2
  <2>4. CASE t = Questions
    BY <2>1, <2>4 DEF Backed, Whole
  <2>5. QED
    BY <1>0, <2>2, <2>3, <2>4, TargetsAre
<1>5. QED
  BY <1>2, <1>3, <1>4

\* A snapshot's assertion holds.
LEMMA SnapshotCalm ==
    ASSUME Base, Backed, Calm(w), NEW m, NEW version \in Nat \ {0}, NEW e, Snapshots(m, version, e)
    PROVE  Calm(w')
<1> DEFINE v == HandleNoChange(UpdateState(w, "Online"), version)
           a == AfterRemoteEvent(v, version, keys)
           event == RemoteEvent(v, version, keys)
           changed == DOMAIN event.changes
           Of(change) == {t \in changed : event.changes[t].change = change}
           views   == {t \in Targets : listeners[t] # {}}
           now     == {t \in views : IF t \in changed THEN event.changes[t].current ELSE t \in current}
           limbo   == {t \in now : cache'[t].exists /\ t \notin keys'}
           ok      == Of("modified") \subseteq keys /\ limbo = {}
<1>1. w' = Assert_(a, ok)
  <2> DEFINE Changed(y) == DOMAIN y.changes
             Marked(y) == {t \in Changed(y) : y.changes[t].change = "modified"}
             Shows(y) == {t \in views : IF t \in Changed(y) THEN y.changes[t].current ELSE t \in current}
             Fine(y) == Marked(y) \subseteq keys /\ {t \in Shows(y) : cache'[t].exists /\ t \notin keys'} = {}
  <2>1. \E x \in {v} : \E y \in {RemoteEvent(x, version, keys)} :
           w' = Assert_(AfterRemoteEvent(x, version, keys), Fine(y))
    <3>1. RaiseWatchSnapshot(UpdateState(w, "Online"), e, version)
      BY DEF Snapshots
    <3>2. \E x \in {v} : \E y \in {RemoteEvent(x, version, keys)} :
           w' = Assert_(AfterRemoteEvent(x, version, keys),
                        /\ {t \in DOMAIN y.changes : y.changes[t].change = "modified"} \subseteq keys
                        /\ {t \in {u \in {q \in Targets : listeners[q] # {}} :
                                     IF u \in DOMAIN y.changes THEN y.changes[u].current ELSE u \in current} :
                              cache'[t].exists /\ t \notin keys'} = {})
      BY <3>1 DEF RaiseWatchSnapshot
    <3>3. QED
      BY <3>2
  <2>2. ok = Fine(event)
    OBVIOUS
  <2> HIDE DEF Fine, ok, v
  <2>3. QED
    BY <2>1, <2>2
<1>2. Shape(w) /\ DOMAIN w = Fields /\ Truth /\ denied = {} /\ Inv /\ IsOpen(w)
  BY DEF Base, Truth, Inv, Shape, Snapshots
<1>3. /\ DOMAIN event.changes = Active(w)
      /\ \A t \in Active(w) :
           /\ event.changes[t].current = w.states[t].current
           /\ event.changes[t].change = IF t \in Missing THEN "none" ELSE w.states[t].change
  <2>1. PICK x : x = v
    OBVIOUS
  <2>2. PICK y : y = event
    OBVIOUS
  <2>3. PICK b : b = a
    OBVIOUS
  <2>4. /\ DOMAIN y.changes = Active(w)
        /\ \A t \in Active(w) :
             /\ y.changes[t].current = w.states[t].current
             /\ y.changes[t].change = IF t \in Missing THEN "none" ELSE w.states[t].change
    BY <1>2, <2>1, <2>2, <2>3, SnapshotEvent
  <2>5. QED
    BY <2>2, <2>4
<1>4. Calm(a) /\ DOMAIN a = Fields
  <2>1. PICK u : u = UpdateState(w, "Online")
    OBVIOUS
  <2>2. Calm(u) /\ DOMAIN u = Fields
    BY <1>2, <2>1, UpdatedCalm DEF UpdateState
  <2>3. a = AfterRemoteEvent(HandleNoChange(u, version), version, keys)
    BY <2>1
  <2> HIDE DEF a
  <2>4. Alikeness(u, a) /\ DOMAIN a = Fields
    BY <2>2, <2>3, SnapshotStays
  <2>5. QED
    BY <2>2, <2>4, AlikeCalm
<1> HIDE DEF a, event
<1>5. Of("modified") \subseteq keys
  <2>1. ASSUME NEW t \in Active(w), event.changes[t].change = "modified" PROVE t \in keys
    <3>1. w.states[t].change = "modified"
      BY <1>3, <2>1
    <3>2. t \in DOMAIN w.states /\ IsActiveTarget(w, t) /\ t \in Targets
      BY <1>2 DEF Active, IsActiveTarget, Truth, Typed
    <3>3. InForce(t)
      BY <1>2, <3>2, ActiveMeans
    <3>4. t \in DOMAIN w.updates /\ ChangeFor(w.updates[t], t) = "modified"
      BY <1>2, <3>1, <3>2, <3>3 DEF Truth, Changes
    <3>5. QED
      BY <3>4 DEF ChangeFor
  <2>2. QED
    BY <1>3, <2>1
<1>6. now = Now
  BY <1>3 DEF Now
<1>7. limbo = {}
  BY <1>6, NoLimbo
<1>8. ok
  BY <1>5, <1>7
<1> HIDE DEF ok
<1>9. QED
  BY <1>1, <1>4, <1>8 DEF Assert_, Calm, Fields, IsOpen, IsStarted

\* After a snapshot what is known still agrees.
LEMMA SnapshotConsistent ==
    ASSUME Base, Types', Consistent, NEW m, NEW version \in Nat \ {0}, NEW e, Snapshots(m, version, e)
    PROVE  Consistent'
<1>1. Truth /\ DOMAIN w'.updates = {}
  <2>1. Profile \in Targets
    BY TargetsAre
  <2>2. QED
    BY <2>1, SnapshotMakes DEF Base
<1>2. \A i \in Places' : \E k \in Places : 1 < k /\ answers'[i] = answers[k]
  BY <1>1, StillThere DEF Snapshots
<1>3. ASSUME NEW t \in Targets, NEW c, IsCopy(c, t)'
      PROVE  /\ cache'[t].at <= c.at
             /\ \A d : IsCopy(d, t)' /\ c.at = d.at => c.exists = d.exists
  <2>1. /\ 1 \in Places /\ m = answers[1]
        /\ t \in Active(w) <=> InForce(t) /\ t \in DOMAIN w.states
        /\ InForce(t) => Settled(t) /\ Since(answers, 1, t)
        /\ t \in DOMAIN w.updates => cache'[t] = cache[t] \/ cache'[t] = w.updates[t]
        /\ t \notin DOMAIN w.updates /\ t \notin Missing => cache'[t] = cache[t]
        /\ t \in Missing => /\ t \in Active(w)
                            /\ \/ cache'[t] = NoDocument(version) /\ version > cache[t].at
                               \/ cache'[t] = cache[t] /\ ~(version > cache[t].at)
    BY SnapshotMakes
  <2>2. cache'[t].at \in Nat /\ cache[t].at \in Nat
    BY DEF Base, Types, Contents, Versions
  <2>3. ASSUME NEW d, NEW k \in Places, 1 < k, IsDocument(answers[k], t), d = answers[k].content
        PROVE  /\ IsCopy(d, t) /\ d.at \in Nat
               /\ t \in DOMAIN w.updates => w.updates[t].at <= d.at
               /\ t \in Missing => version < d.at
    <3>1. IsCopy(d, t)
      BY <2>3 DEF IsCopy
    <3>2. d.at \in Nat
      BY <3>1, CopiesAreTyped
    <3>3. t \in DOMAIN w.updates => w.updates[t].at <= d.at
      BY <1>1, <2>3 DEF Truth, Updates
    <3>4. t \in Missing => version < d.at
      <4>1. IsSnapshot(answers[1]) /\ answers[1].version = version
        BY <2>1 DEF Snapshots
      <4>2. ASSUME t \in Missing PROVE Since(answers, 1, t)
        BY <2>1, <4>2
      <4>3. QED
        BY <1>1, <2>1, <2>3, <4>1, <4>2 DEF Truth, InOrder
    <3>5. QED
      BY <3>1, <3>2, <3>3, <3>4
  <2>4. \A d : IsCopy(d, t)' =>
           \/ d = cache'[t]
           \/ \E k \in Places : 1 < k /\ IsDocument(answers[k], t) /\ d = answers[k].content
    BY <1>1, <1>2 DEF IsCopy
  <2>5. CASE cache'[t] = NoDocument(version) /\ t \in Missing
    <3>1. cache'[t].at = version
      BY <2>5 DEF NoDocument
    <3>2. \A d : IsCopy(d, t)' => d = cache'[t] \/ (IsCopy(d, t) /\ d.at \in Nat /\ version < d.at)
      BY <2>3, <2>4, <2>5
    <3>3. cache'[t].at <= c.at
      BY <1>3, <2>2, <3>1, <3>2
    <3>4. ASSUME NEW d, IsCopy(d, t)', c.at = d.at PROVE c.exists = d.exists
      <4>1. CASE c = cache'[t]
        BY <2>2, <3>1, <3>2, <3>4, <4>1
      <4>2. CASE d = cache'[t]
        BY <1>3, <2>2, <3>1, <3>2, <3>4, <4>2
      <4>3. CASE IsCopy(c, t) /\ IsCopy(d, t)
        BY <3>4, <4>3 DEF Consistent
      <4>4. QED
        BY <1>3, <3>2, <3>4, <4>1, <4>2, <4>3
    <3>5. QED
      BY <3>3, <3>4
  <2>6. CASE IsCopy(cache'[t], t) /\ (cache'[t] = cache[t] \/ (t \in DOMAIN w.updates /\ cache'[t] = w.updates[t]))
    <3>1. \A d : IsCopy(d, t)' => IsCopy(d, t)
      BY <2>3, <2>4, <2>6
    <3>2. cache'[t].at <= c.at
      <4>1. CASE c = cache'[t]
        BY <2>2, <4>1
      <4>2. CASE cache'[t] = cache[t]
        BY <1>3, <3>1, <4>2 DEF Consistent
      <4>3. CASE c # cache'[t] /\ t \in DOMAIN w.updates /\ cache'[t] = w.updates[t]
        BY <1>3, <2>3, <2>4, <4>3
      <4>4. QED
        BY <2>6, <4>1, <4>2, <4>3
    <3>3. ASSUME NEW d, IsCopy(d, t)', c.at = d.at PROVE c.exists = d.exists
      BY <1>3, <3>1, <3>3 DEF Consistent
    <3>4. QED
      BY <3>2, <3>3
  <2>7. QED
    BY <2>1, <2>5, <2>6 DEF IsCopy
<1>4. QED
  BY <1>3 DEF Consistent

\* What explains the next snapshots after one is read.
LEMMA SnapshotExplained ==
    ASSUME Base, Backed, NEW m, NEW version \in Nat \ {0}, NEW e, Snapshots(m, version, e)
    PROVE  Explaining'
<1>0. Consistent /\ Profile \in Targets /\ Truth /\ IsSeq(answers)
  BY TargetsAre DEF Backed, Base, Truth, Inv
<1>1. /\ SameWishes(w, w') /\ DOMAIN w'.updates = {}
      /\ 1 \in Places /\ m = answers[1]
      /\ Profile \in Active(w) <=> InForce(Profile) /\ Profile \in DOMAIN w.states
      /\ Profile \in DOMAIN w.updates =>
           /\ cache'[Profile].exists = w.updates[Profile].exists
           /\ cache'[Profile] = cache[Profile] \/ cache'[Profile] = w.updates[Profile]
           /\ InForce(Profile) => Profile \in Active(w) /\ (Profile \in keys' <=> w.updates[Profile].exists)
      /\ ~(InForce(Profile) /\ Profile \in DOMAIN w.updates) => (Profile \in keys' <=> Profile \in keys)
      /\ Profile \notin DOMAIN w.updates /\ Profile \notin Missing => cache'[Profile] = cache[Profile]
      /\ Profile \in Missing => \/ cache'[Profile] = NoDocument(version) /\ version > cache[Profile].at
                                \/ cache'[Profile] = cache[Profile] /\ ~(version > cache[Profile].at)
  BY <1>0, SnapshotMakes
<1>2. w'.listens = w.listens /\ w'.outgoing = w.outgoing
  BY <1>1 DEF SameWishes
<1>3. Settled(Profile)' => Settled(Profile)
  BY <1>0, <1>2, AnswerShifts DEF Snapshots
<1>4. ASSUME NEW q,
             \/ Profile \in keys \/ Has \/ KeptBack(q)
             \/ IsDocument(answers[1], Profile) /\ Since(answers, 1, Profile)
      PROVE  Profile \in keys' \/ Has' \/ KeptBack(q)'
  <2>1. ~IsDocument(answers[1], Profile)
    BY <1>1 DEF IsDocument, IsSnapshot, Snapshots
  <2>2. ~NoDocument(version).exists
    BY DEF NoDocument
  <2>3. CASE InForce(Profile) /\ Profile \in DOMAIN w.updates
    BY <1>1, <2>3 DEF KeptBack
  <2>4. CASE ~(InForce(Profile) /\ Profile \in DOMAIN w.updates)
    <3>1. CASE Profile \in keys
      BY <1>1, <2>4, <3>1
    <3>2. CASE KeptBack(q)
      <4>1. CASE Profile \in DOMAIN w.updates
        BY <1>1, <3>2, <4>1 DEF KeptBack
      <4>2. CASE Profile \notin DOMAIN w.updates
        BY <1>1, <2>2, <3>2, <4>2 DEF KeptBack
      <4>3. QED
        BY <4>1, <4>2
    <3>3. QED
      BY <1>4, <2>1, <2>4, <3>1, <3>2 DEF Has
  <2>5. QED
    BY <2>3, <2>4
<1>5. QED
  BY <1>0, <1>3, <1>4, AnswerExplained DEF Backed, Snapshots

\* A snapshot leaves nothing in limbo.
LEMMA SnapshotBacked ==
    ASSUME Base, Types', Backed, NEW m, NEW version \in Nat \ {0}, NEW e, Snapshots(m, version, e),
           current' = Now
    PROVE  Backed'
<1>1. Consistent /\ Truth /\ Types /\ server' = server
  BY DEF Backed, Base, Snapshots
<1>2. Consistent'
  BY <1>1, SnapshotConsistent
<1>3. Ahead'
  <2>1. ASSUME NEW t \in Targets, cache'[t].at > server'[t].at PROVE Covered(t)'
    <3>1. /\ t \in DOMAIN w.updates => cache'[t] = cache[t] \/ cache'[t] = w.updates[t]
          /\ t \notin DOMAIN w.updates /\ t \notin Missing => cache'[t] = cache[t]
          /\ t \in Missing => /\ t \in Active(w)
                              /\ \/ cache'[t] = NoDocument(version) /\ version > cache[t].at
                                 \/ cache'[t] = cache[t] /\ ~(version > cache[t].at)
          /\ token'[t] = IF t \in Active(w) THEN version ELSE token[t]
          /\ token[t] <= version
      BY <1>1, SnapshotMakes
    <3>2. server[t].at \in Nat /\ token[t] \in Nat /\ token'[t] >= token[t]
      <4>1. server[t].at \in Nat /\ token[t] \in Nat
        BY <1>1 DEF Types, Contents, Versions
      <4>2. QED
        BY <3>1, <4>1
    <3>3. CASE cache'[t] = cache[t]
      <4>1. token[t] >= server[t].at
        BY <1>1, <2>1, <3>3 DEF Backed, Ahead, Covered
      <4>2. token'[t] \in Nat
        BY DEF Types, Versions
      <4>3. QED
        BY <1>1, <3>2, <4>1, <4>2 DEF Covered
    <3>4. CASE t \in DOMAIN w.updates /\ cache'[t] = w.updates[t]
      <4>1. w.updates[t].at \in Nat /\ w.updates[t].at <= server[t].at
        BY <1>1, <3>4 DEF Truth, Updates, Past
      <4>2. QED
        BY <1>1, <2>1, <3>2, <3>4, <4>1
    <3>5. CASE t \in Missing /\ cache'[t] = NoDocument(version)
      <4>1. cache'[t].at = version /\ token'[t] = version
        BY <3>1, <3>5 DEF NoDocument
      <4>2. QED
        BY <1>1, <2>1, <3>2, <4>1 DEF Covered
    <3>6. QED
      BY <3>1, <3>3, <3>4, <3>5
  <2>2. QED
    BY <2>1 DEF Ahead
<1>4. Whole'
  <2>1. Questions \in Targets
    BY TargetsAre
  <2>2. /\ Questions \in DOMAIN w.updates =>
           /\ cache'[Questions].exists = w.updates[Questions].exists
           /\ InForce(Questions) => (Questions \in keys' <=> w.updates[Questions].exists)
        /\ ~(InForce(Questions) /\ Questions \in DOMAIN w.updates) => (Questions \in keys' <=> Questions \in keys)
        /\ Questions \notin DOMAIN w.updates /\ Questions \notin Missing => cache'[Questions] = cache[Questions]
        /\ Questions \in Missing => Questions = Profile
    BY <1>1, <2>1, SnapshotMakes
  <2>3. Questions \in DOMAIN w.updates => InForce(Questions)
    BY <1>1 DEF Truth, Updates
  <2>4. QED
    BY <2>2, <2>3, TargetsAre DEF Backed, Whole
<1>5. InView'
  <2>1. DOMAIN w'.updates = {}
    BY <1>1, SnapshotMakes, TargetsAre
  <2>2. \A t \in Now : cache'[t].exists => t \in keys'
    BY NoLimbo
  <2>3. QED
    BY <2>1, <2>2 DEF InView
<1>6. Explaining'
  BY SnapshotExplained
<1>7. QED
  BY <1>2, <1>3, <1>4, <1>5, <1>6 DEF Backed

\* An answer read keeps what is known.
LEMMA ReadAnswerBacked ==
    ASSUME Base, Types', Reading, Backed, Calm(w), ReadAnswer
    PROVE  Backed' /\ Calm(w')
<1>1. PICK m : m = Head(answers)
  OBVIOUS
<1>2. PICK v : v = UpdateState(w, "Online")
  OBVIOUS
<1>3. PICK e : e = HandleOnlineStateChange(Effects, "Online")
  OBVIOUS
<1>4. PICK E : E = {ev \in Events : Fresh(ev)'}
  OBVIOUS
<1>5. /\ answers # <<>> /\ answers' = Tail(answers)
      /\ UNCHANGED <<server, serving, denied>>
      /\ e \in EffectsIn(E)
      /\ Shape(w) /\ DOMAIN w = Fields
      /\ m.op = "snapshot" => m.version \in Nat \ {0}
      /\ denied # {} => m.op \in {"refused", "removed"}
  BY <1>1, <1>2, <1>3, <1>4, AnswerRead
<1>6. CASE m.op = "snapshot"
  <2>1. PICK version \in Nat \ {0} : version = m.version
    BY <1>5, <1>6
  <2>2. RaiseWatchSnapshot(UpdateState(w, "Online"), e, version)
    BY <1>1, <1>3, <1>6, <2>1 DEF ReadAnswer
  <2>3. Snapshots(m, version, e)
    BY <1>1, <1>5, <1>6, <2>1, <2>2 DEF Snapshots, IsSnapshot
  <2>4. current' = Now
    <3>1. PICK F : F = Events
      OBVIOUS
    <3>2. PICK now : now = Now
      OBVIOUS
    <3>3. ASSUME NEW t \in Targets, NEW n \in listeners[t]
          PROVE  Event(n, t, cache'[t], t \notin now) \in F
      <4>1. n \in Tabs /\ cache'[t] \in Contents
        BY DEF Base, Types, Listened
      <4>2. PICK b \in BOOLEAN : b = (t \notin now)
        OBVIOUS
      <4>3. QED
        BY <3>1, <4>1, <4>2, EventIsEvent
    <3>4. PICK f : f = e
      OBVIOUS
    <3>5. f \in EffectsIn(F)
      <4>1. Effects \in EffectsIn(F)
        BY EffectsStart DEF Base, Types, Kinds
      <4>2. "Online" \in Onlines /\ Listened
        BY DEF Onlines, Base, Types
      <4>3. PICK g : g = Effects
        OBVIOUS
      <4>4. g.current = current
        BY <4>3, EffectsStart DEF Base, Types, Kinds
      <4>5. \A t \in Targets : \A n \in listeners[t] :
              /\ Event(n, t, cache[t], TRUE) \in F
              /\ t \in g.current => Event(n, t, cache[t], FALSE) \in F
        BY <3>1, <4>4, AllAreEvents DEF Base
      <4>6. f = HandleOnlineStateChange(g, "Online")
        BY <1>3, <3>4, <4>3
      <4>7. QED
        BY ONLY <4>1, <4>2, <4>3, <4>5, <4>6, OnlineStateShown
    <3>6. Listened /\ RaiseWatchSnapshot(UpdateState(w, "Online"), f, version)
      BY <2>2, <3>4 DEF Base, Types
    <3>7. current' = now
      BY ONLY <1>5, <2>1, <3>2, <3>3, <3>5, <3>6, SnapshotShows
    <3>8. QED
      BY <3>2, <3>7
  <2>5. QED
    BY <2>3, <2>4, SnapshotBacked, SnapshotCalm
<1>7. CASE m.op # "snapshot"
  <2>1. Backed'
    BY <1>1, <1>7, MessageBacked
  <2>2. Calm(v) /\ DOMAIN v = Fields
    BY <1>2, <1>5, UpdatedCalm DEF UpdateState
  <2>3. PICK t : t = m.target
    OBVIOUS
  <2>4. w' \in {v, HandleAdded(v, t), HandleRemoved(v, t), HandleCurrent(v, t),
                HandleDocumentChange(v, t, m.content, keys), RemoveTarget(v, t)}
    <3>1. CASE m.op \in {"added", "removed", "current", "document"}
      <4>1. w' = CASE m.op = "added"    -> HandleAdded(v, m.target)
                   [] m.op = "removed"  -> HandleRemoved(v, m.target)
                   [] m.op = "current"  -> HandleCurrent(v, m.target)
                   [] m.op = "document" -> HandleDocumentChange(v, m.target, m.content, keys)
        BY <1>1, <1>2, <3>1 DEF ReadAnswer
      <4>2. QED
        BY <2>3, <3>1, <4>1
    <3>2. CASE m.op = "refused"
      <4>1. w' = v \/ RejectListen(v, e, m.target)
        BY <1>1, <1>2, <1>3, <3>2 DEF ReadAnswer
      <4>2. QED
        BY <2>3, <4>1 DEF RejectListen
    <3>3. QED
      BY <1>1, <1>7, <3>1, <3>2 DEF ReadAnswer
  <2>5. Alikeness(v, w')
    <3>1. Alikeness(v, v)
      BY DEF Alikeness
    <3>2. QED
      BY <2>2, <2>4, <3>1, AnswerStays
  <2>6. QED
    BY <2>1, <2>2, <2>5, AlikeCalm
<1>8. QED
  BY <1>6, <1>7

\* Where nothing is served and nothing has been sent, nothing is in question.
LEMMA UnservedBacked ==
    ASSUME Backed, UNCHANGED <<cache, token, keys, server>>, current' \subseteq current,
           serving' = {}, answers' = <<>> \/ answers' = answers, DOMAIN w'.updates = {}
    PROVE  Backed'
<1>1. \A i \in Places' : \E k \in Places : answers'[i] = answers[k]
  <2>1. CASE answers' = <<>>
    BY <2>1, EmptyIsSeq DEF Places
  <2>2. CASE answers' = answers
    BY <2>2 DEF Places
  <2>3. QED
    BY <2>1, <2>2
<1>2. ~Settled(Profile)'
  BY DEF Settled
<1>3. QED
  BY <1>1, <1>2, QuietBacked

\* Nothing changes but the timers and the state of the stream.
LEMMA SameBacked ==
    ASSUME Backed, UNCHANGED <<cache, token, keys, server, serving, answers>>,
           current' \subseteq current,
           w'.listens = w.listens, w'.outgoing = w.outgoing, w'.updates = w.updates
    PROVE  Backed'
<1>1. \A i \in Places' : \E k \in Places : answers'[i] = answers[k]
  BY DEF Places
<1>2. Settled(Profile)' => Settled(Profile)
  BY DEF Settled, Silent
<1>3. \A t : InForce(t) => InForce(t)'
  BY DEF InForce, Silent, Since
<1>4. QED
  BY <1>1, <1>2, <1>3, QuietBacked

\* Nobody's view becomes current when the online state is told.
LEMMA ToldCurrent ==
    ASSUME Types, Kinds(w'), Told
    PROVE  current' \subseteq current
<1>1. PICK E : E = Events
  OBVIOUS
<1>2. \A t \in Targets : \A n \in listeners[t] :
        /\ Event(n, t, cache[t], TRUE) \in E
        /\ t \in current => Event(n, t, cache[t], FALSE) \in E
  BY <1>1, AllAreEvents
<1>3. QED
  BY <1>2, ToldShows

\* A stream ends, and with it all that was on its way.
LEMMA StreamEndsBacked ==
    ASSUME Base, Backed, Calm(w), StreamEnds
    PROVE  Backed' /\ Calm(w')
<1>1. DOMAIN w = Fields /\ Kinds(w) /\ w' = Break(w)
  BY DEF Base, Truth, Inv, Shape, Types, StreamEnds, Ends
<1>2. Kinds(w') /\ DOMAIN w'.updates = {}
  BY <1>1, BreakKinds, BreakLeaves
<1>3. current' \subseteq current
  BY <1>2, ToldCurrent DEF Base, StreamEnds
<1>4. UNCHANGED <<cache, token, keys, server>> /\ serving' = {} /\ answers' = <<>>
  BY DEF StreamEnds, storeVars, Abandon
<1>5. Calm(w')
  BY <1>1, BreakCalm
<1>6. QED
  BY <1>2, <1>3, <1>4, <1>5, UnservedBacked

\* The other steps of which listeners hear only the online state.
LEMMA TellingBacked ==
    ASSUME Base, Backed, Calm(w),
           HandleCredential \/ StreamOpens \/ BackoffElapses \/ RunOnlineTimer \/ RunIdleTimer
    PROVE  Backed' /\ Calm(w')
<1>1. Shape(w) /\ DOMAIN w = Fields /\ Kinds(w) /\ Inv
  BY DEF Base, Truth, Inv, Shape, Types
<1>2. ~IsOpen(w) => serving = {} /\ Closed(w) /\ DOMAIN w.updates = {}
  BY <1>1 DEF Inv, Base, Truth, Denials
<1>3. CASE HandleCredential
  <2>1. Kinds(w') /\ DOMAIN w'.updates = {} /\ Calm(w')
    BY <1>1, <1>3, CredentialChangeKinds, CredentialChangeLeaves, CredentialChangeCalm
       DEF HandleCredential
  <2>2. current' \subseteq current
    BY <1>3, <2>1, ToldCurrent DEF Base, HandleCredential
  <2>3. UNCHANGED <<cache, token, keys, server>> /\ serving' = {} /\ answers' = <<>>
    BY <1>3 DEF HandleCredential, storeVars, Abandon
  <2>4. QED
    BY <2>1, <2>2, <2>3, UnservedBacked
<1>4. CASE StreamOpens
  <2>1. PICK order \in SetToSeqs(w.listens) : w' = OnWatchStreamOpen(w, order, token)
    BY <1>4 DEF StreamOpens, Opens
  <2>2. ~IsOpen(w) /\ w.state = "Starting"
    BY <1>4 DEF StreamOpens, Opens, IsOpen
  <2>3. Kinds(w')
    BY <1>1, <2>1, OpenKinds DEF Base, Truth, Typed
  <2>4. w'.updates = w.updates
    BY <1>1, <1>2, <2>1, <2>2, OpenRequests DEF AsksForAll
  <2>5. current' \subseteq current
    BY <1>4, <2>3, ToldCurrent DEF Base, StreamOpens
  <2>6. /\ UNCHANGED <<cache, token, keys, server>> /\ serving' = {} /\ answers' = answers
        /\ DOMAIN w'.updates = {}
    BY <1>2, <1>4, <2>2, <2>4 DEF StreamOpens, storeVars, streamVars, worldVars
  <2>7. Calm(w')
    BY <1>1, <2>1, <2>2, OpenCalm
  <2>8. QED
    BY <2>5, <2>6, <2>7, UnservedBacked
<1>5. CASE BackoffElapses
  <2>1. w' = [w EXCEPT !.state = "Starting"] /\ ~IsOpen(w) /\ w.state = "Backoff"
    BY <1>5 DEF BackoffElapses, Retries, IsOpen
  <2>2. Kinds(w') /\ w'.updates = w.updates
    BY <1>1, <2>1 DEF Kinds, Fields, States
  <2>3. current' \subseteq current
    BY <1>5, <2>2, ToldCurrent DEF Base, BackoffElapses
  <2>4. /\ UNCHANGED <<cache, token, keys, server>> /\ serving' = {} /\ answers' = answers
        /\ DOMAIN w'.updates = {}
    BY <1>2, <1>5, <2>1, <2>2 DEF BackoffElapses, storeVars, streamVars, worldVars
  <2>5. Calm(w')
    BY <1>1, <2>1 DEF Calm, Fields, IsStarted, IsOpen
  <2>6. QED
    BY <2>3, <2>4, <2>5, UnservedBacked
<1>6. CASE RunOnlineTimer
  <2>1. w' = TimeOut(w) /\ w.timer
    BY <1>6 DEF RunOnlineTimer
  <2>2. Kinds(w')
    BY <1>1, <2>1, TrackerKinds DEF Onlines
  <2>3. w'.listens = w.listens /\ w'.outgoing = w.outgoing /\ w'.updates = w.updates
    BY <1>1, <2>1 DEF TimeOut, Assert_, Fields
  <2>4. current' \subseteq current
    BY <1>6, <2>2, ToldCurrent DEF Base, RunOnlineTimer
  <2>5. UNCHANGED <<cache, token, keys, server, serving, answers>>
    BY <1>6 DEF RunOnlineTimer, storeVars, streamVars, worldVars
  <2>6. Calm(w')
    BY <1>1, <2>1, TimeOutCalm
  <2>7. QED
    BY <2>3, <2>4, <2>5, <2>6, SameBacked
<1>7. CASE RunIdleTimer
  <2>1. PICK yes : yes = TRUE
    OBVIOUS
  <2>2. w' = Stop(w, yes) /\ w.idle
    BY <1>7, <2>1 DEF RunIdleTimer
  <2>3. w.listens = {} /\ IsOpen(w)
    BY <2>2 DEF Calm
  <2>4. Kinds(w') /\ DOMAIN w'.updates = {}
    BY <1>1, <2>2, <2>3, StopKinds, StopLeaves
  <2>5. current' \subseteq current
    BY <1>7, <2>4, ToldCurrent DEF Base, RunIdleTimer
  <2>6. UNCHANGED <<cache, token, keys, server>> /\ serving' = {} /\ answers' = <<>>
    BY <1>7 DEF RunIdleTimer, storeVars, Abandon, worldVars
  <2>7. Calm(w')
    BY <1>1, <2>2, <2>3, StopCalm
  <2>8. QED
    BY <2>4, <2>5, <2>6, <2>7, UnservedBacked
<1>8. QED
  BY <1>3, <1>4, <1>5, <1>6, <1>7

\* A listen leaves the other target as it was.
LEMMA ListenBacked ==
    ASSUME Base, Reading, Backed, NEW t \in Targets, listeners[t] = {},
           w' = Listen(w, t, token[t]), UNCHANGED <<cache, token, keys, server, serving, answers>>,
           current' \subseteq current
    PROVE  Backed'
<1>1. t \notin w.listens /\ t \notin current /\ ~Settled(t)'
  BY ListenUnsettles DEF Reading, Wanted
<1>2. DOMAIN w = Fields /\ IsSeq(w.outgoing) /\ (~IsOpen(w) => DOMAIN w.updates = {})
  BY DEF Base, Truth, Inv, Shape, Denials
<1>3. PICK r : r = WatchRequest(t, token[t])
  OBVIOUS
<1>4. /\ IsOpen(w) => Requested(w, w', r, w.listens \cup {t})
      /\ ~IsOpen(w) => w'.listens = w.listens \cup {t} /\ DOMAIN w'.updates = {}
  BY <1>1, <1>2, <1>3, ListenRequests
<1>5. CASE ~IsOpen(w)
  <2>1. serving' = {}
    BY <1>5 DEF Base, Truth, Inv
  <2>2. QED
    BY <1>4, <1>5, <2>1, UnservedBacked
<1>6. CASE IsOpen(w)
  <2>1. /\ w'.listens = w.listens \cup {t} /\ w'.updates = w.updates
        /\ w'.outgoing = Append(w.outgoing, r)
    BY <1>4, <1>6 DEF Requested
  <2>2. PICK len \in Nat : /\ len = Len(w.outgoing) /\ Len(w'.outgoing) = len + 1
                           /\ w'.outgoing[len + 1] = r
                           /\ \A i \in 1..len : w'.outgoing[i] = w.outgoing[i]
    BY <1>2, <2>1, Appended
  <2>3. r.target = t
    BY <1>3 DEF WatchRequest
  <2>4. \A x : x # t /\ Silent(x) => Silent(x)'
    BY <2>2, <2>3 DEF Silent
  <2>5. \A x : x # t /\ InForce(x) => InForce(x)'
    BY <2>1, <2>4 DEF InForce, Since
  <2>6. \A x \in current' : x # t
    BY <1>1
  <2>7. Settled(Profile)' => Settled(Profile)
    BY TargetsAre, ListenUnsettles
  <2>8. \A i \in Places' : \E k \in Places : answers'[i] = answers[k]
    BY DEF Places
  <2>9. QED
    BY <2>1, <2>5, <2>6, <2>7, <2>8, QuietBacked
<1>7. QED
  BY <1>5, <1>6

\* A query is listened to.
LEMMA TakeListenBacked ==
    ASSUME Base, Reading, Backed, Calm(w), TakeListen
    PROVE  Backed' /\ Calm(w')
<1>0. Types /\ Head(worker) \in Tasks /\ DOMAIN w = Fields
  BY WorkerTail DEF Base, Truth, Inv, Shape, TakeListen
<1>1. PICK n \in Tabs : n = Head(worker).tab
  BY <1>0 DEF Tasks
<1>2. PICK t \in Targets : t = Head(worker).target
  BY <1>0 DEF Tasks
<1>3. UNCHANGED <<cache, token, keys, server, serving, answers>>
  BY DEF TakeListen, storeVars, streamVars, worldVars
<1>4. w' = IF listeners[t] = {} THEN Listen(w, t, token[t]) ELSE w
  BY <1>1, <1>2 DEF TakeListen
<1>5. current' = current
  <2>1. PICK c : c = (listeners[t] = {} \/ t \notin current)
    OBVIOUS
  <2>2. PICK yes : yes = TRUE
    OBVIOUS
  <2>3. PICK e : e = Effects
    OBVIOUS
  <2>4. PICK f : f = OnViewSnapshot(e, t, {n}, cache[t], c, yes)
    OBVIOUS
  <2>5. Take(f)
    BY <1>1, <1>2, <2>1, <2>2, <2>3, <2>4 DEF TakeListen
  <2>6. PICK E : E = Events
    OBVIOUS
  <2>7. e \in EffectsIn(E) /\ e.current = current
    BY <1>0, <2>3, EffectsStart DEF Types, Kinds
  <2>8. c \in BOOLEAN /\ cache[t] \in Contents
    BY <1>0, <2>1 DEF Types
  <2>9. \A m \in {n} : Event(m, t, cache[t], c) \in E
    BY <2>6, <2>8, EventIsEvent
  <2>10. f \in EffectsIn(E) /\ f.current = current
    BY <2>4, <2>7, <2>9, ViewShown
  <2>11. QED
    BY <2>5, <2>10, Taken
<1>6. CASE listeners[t] = {}
  <2>1. PICK from : from = token[t]
    OBVIOUS
  <2>2. w' = Listen(w, t, from)
    BY <1>4, <1>6, <2>1
  <2>3. Calm(w')
    BY <1>0, <2>2, ListenCalm
  <2>4. Backed'
    BY <1>3, <1>5, <1>6, <2>1, <2>2, ListenBacked
  <2>5. QED
    BY <2>3, <2>4
<1>7. CASE listeners[t] # {}
  <2>1. w' = w
    BY <1>4, <1>7
  <2>2. Backed'
    BY <1>3, <1>5, <2>1, SameBacked
  <2>3. QED
    BY <2>1, <2>2
<1>8. QED
  BY <1>6, <1>7

\* A reader is removed from its query.
LEMMA TakeRemoveBacked ==
    ASSUME Base, Reading, Backed, Calm(w), TakeRemove
    PROVE  Backed' /\ Calm(w')
<1> DEFINE t == Profile
<1>0. Types /\ Head(worker) \in Tasks /\ DOMAIN w = Fields /\ IsSeq(w.outgoing) /\ Wanted
  BY WorkerTail DEF Base, Reading, Truth, Inv, Shape, TakeRemove
<1>1. PICK n \in Tabs : n = Head(worker).tab
  BY <1>0 DEF Tasks
<1>2. UNCHANGED <<cache, token, keys, server, serving, answers>>
  BY DEF TakeRemove, storeVars, streamVars, worldVars
<1>3. CASE listeners[t] # {} /\ listeners[t] \ {n} = {}
  <2> DEFINE gone == [Effects EXCEPT !.current = @ \ {t}, !.raised[t] = {}]
  <2>1. /\ w' = StopListening(w, Profile)
        /\ Take(HandleOnlineStateChange(gone, w'.online))
    BY <1>1, <1>3 DEF TakeRemove
  <2>2. t \in w.listens
    BY <1>0, <1>3, TargetsAre DEF Wanted
  <2>3. Calm(w')
    BY <1>0, <2>1, <2>2, StopListeningCalm
  <2>4. current' \subseteq current \ {t}
    <3>1. PICK E : E = Events
      OBVIOUS
    <3>2. PICK e : e = gone
      OBVIOUS
    <3>3. Effects \in EffectsIn(E) /\ Effects.current = current
      BY <1>0, EffectsStart DEF Types, Kinds
    <3>4. e \in EffectsIn(E) /\ e.current = current \ {t}
      BY <3>2, <3>3 DEF EffectsIn
    <3>5. PICK o \in Onlines : o = w'.online
      <4>1. Kinds(w')
        BY <1>0, <2>1, StopListeningKinds, TargetsAre DEF Types
      <4>2. QED
        BY <4>1 DEF Kinds
    <3>6. PICK f : f = HandleOnlineStateChange(e, o)
      OBVIOUS
    <3>7. \A x \in Targets : \A m \in listeners[x] :
            /\ Event(m, x, cache[x], TRUE) \in E
            /\ x \in e.current => Event(m, x, cache[x], FALSE) \in E
      BY <1>0, <3>1, <3>4, AllAreEvents
    <3>8. Listened
      BY <1>0 DEF Types
    <3>9. f \in EffectsIn(E) /\ f.current \subseteq e.current
      BY ONLY <3>4, <3>6, <3>7, <3>8, OnlineStateShown
    <3>10. Take(f)
      BY <2>1, <3>2, <3>5, <3>6
    <3>11. QED
      BY <3>4, <3>9, <3>10, Taken
  <2>5. PICK r : r = UnwatchRequest(Profile)
    OBVIOUS
  <2>6. /\ IsOpen(w) => Requested(w, w', r, w.listens \ {Profile})
        /\ ~IsOpen(w) => w'.listens = w.listens \ {Profile} /\ w'.updates = w.updates
    BY <1>0, <2>1, <2>5, StopListeningRequests
  <2>7. CASE ~IsOpen(w)
    <3>1. serving' = {} /\ DOMAIN w'.updates = {}
      BY <1>2, <2>6, <2>7 DEF Base, Truth, Inv, Denials
    <3>2. QED
      BY <1>2, <2>3, <2>4, <3>1, UnservedBacked
  <2>8. CASE IsOpen(w)
    <3>1. /\ w'.listens = w.listens \ {t} /\ w'.updates = w.updates
          /\ w'.outgoing = Append(w.outgoing, r)
      BY <2>6, <2>8 DEF Requested
    <3>2. PICK len \in Nat : /\ len = Len(w.outgoing) /\ Len(w'.outgoing) = len + 1
                             /\ w'.outgoing[len + 1] = r
                             /\ \A i \in 1..len : w'.outgoing[i] = w.outgoing[i]
      BY <1>0, <3>1, Appended
    <3>3. r.target = t
      BY <2>5 DEF UnwatchRequest
    <3>4. \A x : x # t /\ Silent(x) => Silent(x)'
      BY <3>2, <3>3 DEF Silent
    <3>5. \A x : x # t /\ InForce(x) => InForce(x)'
      BY <1>2, <3>1, <3>4 DEF InForce, Since
    <3>6. ~Settled(Profile)'
      BY <3>1 DEF Settled
    <3>7. \A i \in Places' : \E k \in Places : answers'[i] = answers[k]
      BY <1>2 DEF Places
    <3>8. \A x \in current' : x # t
      BY <2>4
    <3>9. Backed'
      BY <1>2, <2>4, <3>1, <3>5, <3>6, <3>7, <3>8, QuietBacked
    <3>10. QED
      BY <2>3, <3>9
  <2>9. QED
    BY <2>7, <2>8
<1>4. CASE ~(listeners[t] # {} /\ listeners[t] \ {n} = {})
  <2>1. UNCHANGED <<w, current>>
    BY <1>1, <1>4 DEF TakeRemove
  <2>2. Backed'
    BY <1>2, <2>1, SameBacked
  <2>3. QED
    BY <2>1, <2>2
<1>5. QED
  BY <1>3, <1>4

\* What the application does on the main queue.
LEMMA RunEventBacked ==
    ASSUME Base, Backed, Calm(w), ErrorsEnd, RunEvent
    PROVE  Backed' /\ Calm(w')
<1>1. PICK n : n = Head(main).tab
  OBVIOUS
<1>2. DOMAIN w = Fields
  BY DEF Base, Truth, Inv, Shape
<1>3. PICK b : w' = w \/ w' = Assert_(w, b)
  BY DEF RunEvent
<1>4. /\ w'.listens = w.listens /\ w'.outgoing = w.outgoing /\ w'.updates = w.updates
      /\ w'.timer = w.timer /\ w'.online = w.online /\ w'.failing = w.failing
      /\ w'.state = w.state /\ w'.idle = w.idle
  BY <1>2, <1>3 DEF Assert_, Fields
<1>5. ~w'.broken
  BY RunEventEnds DEF Calm
<1>6. Calm(w')
  BY <1>4, <1>5 DEF Calm, IsStarted, IsOpen
<1>7. UNCHANGED <<cache, token, keys, server, serving, answers, current>>
  BY DEF RunEvent, storeVars, streamVars, worldVars
<1>8. QED
  BY <1>4, <1>6, <1>7, SameBacked

\* A request taken by the server changes no timer.
LEMMA ServeCalm ==
    ASSUME Base, Calm(w), Serve
    PROVE  Calm(w')
<1>1. DOMAIN w = Fields /\ w' = [w EXCEPT !.outgoing = Tail(@)]
  BY DEF Base, Truth, Inv, Shape, Serve, Takes
<1>2. QED
  BY <1>1 DEF Calm, Fields, IsStarted, IsOpen

\* Nothing the client has changes.
LEMMA StillBacked ==
    ASSUME Backed, Calm(w), UNCHANGED <<clientVars, streamVars, server>>
    PROVE  Backed' /\ Calm(w')
<1>1. UNCHANGED <<cache, token, keys, server, serving, answers, current, w>>
  BY DEF clientVars, storeVars, streamVars
<1>2. QED
  BY <1>1, SameBacked

\* No step breaks what is Backed and Calm.
LEMMA NextKeepsBacked ==
    ASSUME Base, Types', Reading, ErrorsEnd, Backed, Calm(w), [Next]_vars
    PROVE  Backed' /\ Calm(w')
<1>1. CASE NetworkChanges
  <2>1. CASE StreamEnds
    BY <2>1, StreamEndsBacked
  <2>2. CASE UNCHANGED <<tabs, worker, main, clientVars, profile, questions, streamVars, server,
                         denied, asOf>>
    BY <2>2, StillBacked
  <2>3. QED
    BY <1>1, <2>1, <2>2 DEF NetworkChanges
<1>2. CASE UNCHANGED vars
  BY <1>2, StillBacked DEF vars, worldVars
<1>3. CASE OpenTab
  BY <1>3, StillBacked DEF OpenTab, worldVars
<1>4. CASE \E t \in Targets : Change(t)
  <2>1. w' = w
    BY <1>4 DEF Change, clientVars
  <2>2. QED
    BY <1>4, <2>1, ChangeBacked
<1>5. CASE StreamEnds
  BY <1>5, StreamEndsBacked
<1>6. CASE Serve
  BY <1>6, ServeBacked, ServeCalm
<1>7. QED
  BY <1>1, <1>2, <1>3, <1>4, <1>5, <1>6, TellingBacked, RunEventBacked, TakeListenBacked,
     TakeRemoveBacked, ReadAnswerBacked
     DEF Next, Task, NoNetwork, StreamBreaks

\* Listeners hear of a stream's end as of the online state.
LEMMA StreamEndsEnds ==
    ASSUME Base, Reading, ErrorsEnd, StreamEnds
    PROVE  ErrorsEnd'
<1>1. Types /\ DOMAIN w = Fields /\ Kinds(w) /\ w' = Break(w)
  BY DEF Base, Truth, Inv, Shape, Types, StreamEnds, Ends
<1>2. Kinds(w') /\ Told /\ UNCHANGED <<listeners, profile>>
  BY <1>1, BreakKinds DEF StreamEnds
<1>3. QED
  BY <1>1, <1>2, ToldEnds

\* The same of the other steps like it.
LEMMA TellingEnds ==
    ASSUME Base, Types', Reading, ErrorsEnd,
           HandleCredential \/ StreamOpens \/ BackoffElapses \/ RunOnlineTimer \/ RunIdleTimer
    PROVE  ErrorsEnd'
<1>1. Types /\ Kinds(w')
  BY DEF Base, Types
<1>2. Told /\ UNCHANGED <<listeners, profile>>
  BY DEF HandleCredential, StreamOpens, BackoffElapses, RunOnlineTimer, RunIdleTimer
<1>3. QED
  BY <1>1, <1>2, ToldEnds

\* An error stays the last a read hears of.
LEMMA NextKeepsErrorsEnd ==
    ASSUME Base, Types', Reading, ErrorsEnd, [Next]_vars
    PROVE  ErrorsEnd'
<1>1. CASE NetworkChanges
  <2>1. CASE StreamEnds
    BY <2>1, StreamEndsEnds
  <2>2. CASE UNCHANGED <<tabs, worker, main, clientVars, profile, questions, streamVars, server,
                         denied, asOf>>
    BY <2>2, QuietEnds DEF clientVars
  <2>3. QED
    BY <1>1, <2>1, <2>2 DEF NetworkChanges
<1>2. CASE UNCHANGED vars \/ OpenTab \/ Serve \/ \E t \in Targets : Change(t)
  <2>1. UNCHANGED <<main, listeners, profile>>
    BY <1>2 DEF vars, clientVars, OpenTab, Serve, Change
  <2>2. QED
    BY <2>1, QuietEnds
<1>3. CASE StreamEnds
  BY <1>3, StreamEndsEnds
<1>4. QED
  BY <1>1, <1>2, <1>3, TellingEnds, RunEventEnds, TakeListenEnds, TakeRemoveEnds, ReadAnswerEnds
     DEF Next, Task, NoNetwork, StreamBreaks

\* It is so at first.
LEMMA InitBacked ==
    ASSUME Init
    PROVE  Backed /\ Calm(w) /\ ErrorsEnd
<1>1. /\ answers = <<>> /\ main = <<>> /\ current = {} /\ serving = {} /\ w = Nowhere
      /\ \A n \in Tabs : profile[n] = Nothing
  BY DEF Init
<1>2. Calm(w)
  BY <1>1 DEF Calm, Nowhere, IsStarted, IsOpen
<1>3. ErrorsEnd
  BY <1>1, EmptyIsSeq DEF ErrorsEnd, Errored
<1>4. /\ Places = {} /\ DOMAIN w.updates = {} /\ ~Settled(Profile)
  BY <1>1 DEF Places, Nowhere, Settled
<1>5. \/ /\ \A t \in Targets : cache[t] = Unknown /\ server[t].at = 1
         /\ keys = {}
      \/ /\ cache = server /\ keys = Targets
         /\ \A t \in Targets : server[t].at = 1 /\ server[t].exists
  BY DEF Init
<1>6. Unknown.at = 0 /\ Unknown.exists = FALSE
  BY DEF Unknown, NoDocument
<1>7. \A t \in Targets : cache[t].at \in Nat /\ cache[t].at <= server[t].at /\ server[t].at \in Nat
  BY <1>5, <1>6
<1>8. Consistent
  BY <1>4, <1>7 DEF Consistent, IsCopy
<1>9. Ahead
  BY <1>7 DEF Ahead
<1>10. Whole
  BY <1>5, <1>6, TargetsAre DEF Whole
<1>11. InView /\ Explaining
  BY <1>1, <1>4 DEF InView, Explaining
<1>12. QED
  BY <1>2, <1>3, <1>8, <1>9, <1>10, <1>11 DEF Backed

\* No HARD_ASSERT of the read path fails (stream.cc:307-314,
\* online_state_tracker.cc:62-90, remote_store.cc:152, 215, view.cc:362), a read's
\* registration is handed over once (document_reference.cc:141) and no document is in
\* limbo (view.cc:374-405), whatever order tasks, messages, timers, changes of user
\* and of the network come in, for any number of tabs, versions and troubles.
THEOREM ReadsAssertNothingFalse == Spec => []NoAssertionFails
<1> DEFINE All == Base /\ Reading /\ ErrorsEnd /\ Backed /\ Calm(w)
<1>1. Init => All
  BY InitTruth, InitTypes, InitReading, InitBacked DEF Base
<1>2. All /\ [Next]_vars => All'
  <2>1. ASSUME All, [Next]_vars PROVE All'
    <3>1. Truth' /\ Posted'
      BY <2>1, NextKeepsTruth, NextKeepsPosted DEF Base
    <3>2. Types'
      BY <2>1, <3>1, NextKeepsTypes DEF Base
    <3>3. Reading'
      BY <2>1, <3>2, NextKeepsReading
    <3>4. ErrorsEnd'
      BY <2>1, <3>2, NextKeepsErrorsEnd
    <3>5. Backed' /\ Calm(w')
      BY <2>1, <3>2, NextKeepsBacked
    <3>6. QED
      BY <3>1, <3>2, <3>3, <3>4, <3>5 DEF Base
  <2>2. QED
    BY <2>1
<1>3. All => NoAssertionFails
  BY DEF NoAssertionFails, Calm
<1>4. QED
  BY <1>1, <1>2, <1>3, PTL DEF Spec

=============================================================================
