# Croesus: specification and verification

Croesus is an iOS application (`src/Croesus/Croesus`, 1359 lines of Swift) that
asks its users an expenditure survey. It keeps who its user is in four places
(FirebaseAuth, the keychain, a global variable, the survey tab), runs the survey
with ResearchKit, and writes the answers to Firestore. The libraries are
vendored under `src/Croesus/Pods`; those whose behaviour decides what the
application does (ResearchKit's task navigation, FirebaseAuth's sign-in flow,
Firestore's write queue) are part of the system as modelled here.

## Inventory

| Component | State | Operations | Interacts by | Correct when |
|---|---|---|---|---|
| Survey run: `ORKTaskViewController`, `ORKQuestionStepViewController`, `ORKReviewStepViewController`, `ORKOrderedTask` | stack of step identifiers, results under two keys, current step controller, text being edited | Continue, Back, Skip, review row, Save, Clear, Cancel, Done, keystrokes, late end of editing | delegate calls to the survey tab | result bookkeeping never asserts, the stack follows the task, what is handed over is what was entered |
| Survey tab: `FirstViewController` | profile, questions, the run on screen | profile answer, snapshot, row tap, end of the run | Firestore reads and writes, task delegate | Done sends every answer once, nothing else sends, nothing crashes |
| Session: `LoginViewController`, `RegistrationViewController`, `PersonalInformationViewController`, `SecondViewController`, `RootViewController`, `SceneDelegate` | keychain `uid`, global `uid`, screens, listeners | login, register, submit personal information, logout, swipe a sheet away, restart | completion handlers and listeners on the main queue | nobody is taken for a user who has not signed in; a profile is filed under its owner |
| FirebaseAuth client (`FIRAuth.m`) | current user (persisted), last notified token, listeners | sign-in flow, change notification | work queue to main queue | listeners end up with the current user |
| Firestore facade: `FIRFirestoreService` | none | read once, listen, create, add response | completion closures | a write reported done is done |
| Firestore write path: `sync_engine.cc`, `local_store.cc`, `leveldb_mutation_queue.cc`, `remote_store.cc`, `stream.cc`, `write_stream.cc`, `grpc_stream.cc` | one queue of mutation batches per user on disk, write pipeline, stream, callbacks | enqueue, token, handshake, send, acknowledge, reject, idle, back off, change of user, restart | worker queue, FirebaseAuth's notifications, the server | a user's batches are decided in order, none is dropped, callbacks are told the truth |
| Firestore read path: `document_reference.cc`, `event_manager.cc`, `query_listener.cc`, `sync_engine.cc`, `view.cc`, `local_store.cc`, `remote_store.cc`, `watch_stream.cc`, `remote_event.cc`, `online_state_tracker.cc` | listeners, views, cached documents, resume tokens, watch stream, target states, online state | listen, unlisten, watch changes, snapshots, refusals, the online timer, change of user | worker queue, main queue, the server | a read is answered once, with what it asked for; listeners catch up |
| Photo upload: `RotateImageViewController` | image, pending uploads, photo URL of the personal information | rotate, upload, answer, notify | NotificationCenter | the photo filed is the one shown |
| Loading overlay: `ActivityIndicator.swift` | one global cover for all screens | show, hide (later, on the main queue) | every screen | a screen is covered while it waits, and not afterwards |
| Document codec: `EncodableExtension`, `SnapshotExtension`, models | none | encode, decode | Firestore facade | what is written can be read back |
| Unused: `SurveyTask`, `SurveyViewController`, Core Data stack of `AppDelegate` | | | | not modelled |

What is hard about it: answers arrive in any order and after their screen has
gone; several sign-ins may be under way; listeners are never removed; the
process may end at any point while the keychain, FirebaseAuth's user and
Firestore's queue stay; streams break between any two messages, and what was
sent on one may still reach the server while the next is opening; a stream's
responses name a target but not the listen they are for; the profile and the questions arrive independently of
the run that uses them; a write is reported done before it is; and ResearchKit
files each result under two keys whose agreement depends on the whole path of
the user through the task. `PROJECT.json` lists each hazard at its line with the
properties that would catch it.

## Modules

### TaskRun (`MCTaskRun`, `TaskRunProofs`)

One run of the survey. A step is named by its position; identifier and position
stand for each other because `ORKOrderedTask` refuses duplicate identifiers.

| Specification | Code |
|---|---|
| `stack` | `_managedStepIdentifiers` |
| `managed.byId`, `managed.byKey` | `_managedResults`, keyed by identifier and by `identifier:index` |
| `vc` | `_currentStepViewController`: `answer`, `originalAnswer`, its text field, whether that is being edited, `isBeingReviewed` |
| `SetResult`, `ManagedResults` | `setManagedResult:forKey:`, `managedResults` |
| `ShowStep`, `FlipToNextPage`, `FlipToPreviousPage` | the methods of those names, with every call that files a result, in order |
| `TypeText`, `EndEditing` | `saveAnswer:` after a keystroke and after `textFieldDidEndEditing:` |
| `Continue`, `Skip`, `GoBack` | buttons of a step met on the way |
| `ReviewRow`, `SaveEdit`, `ClearAnswer`, `AbandonEdit` | the detour from the review step |
| `Done`, `CancelAtOnce`, `AskCancel`, `ConfirmDiscard`, `KeepAnswering` | the ends of a run |
| `SwipeAway` | the page sheet is dismissed by UIKit; the delegate is not called |

`ShowStep` has two outcomes when the text field of the step being left is in
editing: UIKit may end the editing after the next step is current, and then the
old step's answer is filed once more. Answers are `Text`, `Null` (skipped or
emptied) or `Nil` (never touched). Left out: dates, the length limit of a text
(a refused keystroke changes nothing), step layout, state restoration, which the
application does not use.

`entered` and `reviewEdited` are history: what the user last committed for each
step, and whether from the review step.

### SurveyFlow (`MCSurveyFlow`, `SurveyFlowProofs`)

The survey tab around an instance of `TaskRun`. `ProfileArrives` and
`SnapshotArrives` come at any time; `SelectRow` builds the task from the
questions the tab has then, or ends the process where `ORKOrderedTask` throws;
`DidFinish` is the delegate method: whichever way the run finished, it hands the
results to `SendSurveyData`, which writes one response per result and ends the
process at a forced unwrapping of nil. A question that was never touched has a
step result without a question result; `Touched` leaves those out, as the loop of
`sendSurveyData` does. `sent` is what the last run added to the
responses collection; whether it reaches the server is the Outbox's matter.

### Session (`MCSession`, `SessionProofs`)

| Specification | Code |
|---|---|
| `authUser`, `main` | `FIRAuth._currentUser`; the main dispatch queue |
| `keychain`, `uid`, `tabUser` | `Constants.keychain["uid"]`, the global `uid`, the user whose profile `FirstViewController` asked for |
| `personal` | each `PersonalInformationViewController` of the process with the user its listener was last called with; the listener keeps it alive |
| `requests`, `Succeeds`, `Fails` | sign-in and sign-up requests and the sign-in flow of `FIRAuth.m` |
| `RunNotification`, `RunFirstCall` | the two ways a listener is called |
| `RunLoginAnswer`, `RunCreateAnswer`, `RunSignInAnswer` | the completion handlers |
| `Submit`, `Logout`, `Relaunch` | `sendUserData`, `logout`, a new process |

A handler of a screen that has gone still runs (it retains its controller) but
presents nothing; `live` records that. Taps are allowed whenever their screen is
in front: the loading cover is not a lock, because every `hideLoading` removes
the last cover made by any screen. External: the service (accounts, any order of
answers, an answer lost after the account was made), UIKit's sheets, which take
no touches while they are being presented, and the photo that personal
information waits for. The reset-password screen has no code. A notification
skips a listener whose last user is the current one, as
`addAuthStateDidChangeListener:` does.

### Outbox with RemoteStore (`MCOutbox`, `OutboxProofs`, `DeliveryProofs`), and Delivery

`RemoteStore` has the write half of `remote_store.cc` with its stream as
operators on one record: a call on the worker queue is one application of an
operator, because nothing interleaves with it there. `Outbox` puts it between the
application, FirebaseAuth, the disk and the server.

| Specification | Code |
|---|---|
| `conn.state`, `handshake`, `idle`, `requests` | `Stream::state_`, `handshake_complete_`, the idleness timer, token requests with the `close_count_` and the `token_counter` they were made under |
| `Start`, `Stop`, `Send`, `MarkIdle`, `TornDown`, `BackoffElapsed`, `ResumeStart` | the methods of `stream.cc` and `write_stream.cc` |
| `FillWritePipeline`, `HandshakeComplete`, `MutationResult`, `FinishTransient`, `FinishPermanent`, `HandleCredentialChange` | the methods of `remote_store.cc` |
| `Assert_`, `broken` | a `HARD_ASSERT`, and that one has failed |
| `Write`, `TakeWrite` | `FIRFirestoreService.createUser` and `addResponse`, whose completion is called at once; `SyncEngine::WriteMutations` |
| `SignIn`, `RunNotification`, `TakeCredential` | a change of `FIRAuth._currentUser`, the credentials provider's listener on the main queue, `SyncEngine::HandleCredentialChange` |
| `TokenAnswer` | the token and the task it puts on the worker queue, in one step |
| `ReadHandshake`, `ReadResult`, `ReadRefusal`, `Fail` | what the stream's observer is told |
| `Restart` | a new process: the queues and FirebaseAuth's user are on disk, everything else starts over. The first `Initialize` is the same step |
| `Serve`, `ServeAbandoned`, `wire` | the server, on the open stream and on what streams given up have left behind |

`Delivery` is the abstract specification: a write accepted stays in its user's
queue until the server has decided about it, and the server is not asked about it
before it has decided about the earlier ones. `KeepsThePromise` is its `Spec` with
`accepted`, `pending` and `decided` read off the worker queue, the mutation queues
and the server (a refinement mapping in `Outbox`); TLC checks it as a property of
`outbox`, and `DeliveryProofs` proves it.

Assumed of the server: messages of one client are handled in the order they were
sent, those of an abandoned stream included, as far as they arrive; answers come
in order; a stream is ended by the server only when it refuses a write; the same
write is decided the same way again. Left out: the stream token
(`write_stream.cc:72`: the handshake's answer matters, not the bytes), a permanent
error in the handshake (a transient one, and the token is dropped), and local
views of documents.

### PhotoUpload with LoadingOverlay (`MCPhotoUpload`, `PhotoUploadProofs`)

`LoadingOverlay` is `ActivityIndicator.swift`: a cover per view, but one variable
(`blurView`) that names the last one made, which `hideLoading` looks at only when
its block runs. `PhotoUpload` has every caller of it, because any screen's call
moves the variable for all of them.

| Specification | Code |
|---|---|
| `kind`, `front`, `base`, `alert` | the controllers of the process, the ones presented, the window's root, an alert |
| `arriving` | UIKit takes no touches while it presents: what is in the queue by then runs first |
| `image`, `photo`, `photoURL` | `imageToEdit.image`, `profilePicture.image` and `photoURL` |
| `requests`, `main` | calls of FirebaseAuth and FirebaseStorage not yet answered; the main queue with completion handlers and `hideLoading`'s blocks |
| `Logout`, `OpenRegistration`, `PickPhoto`, `TapLogin`, `TapRegister`, `TapSubmit`, `TapRotate`, `TapDone`, `SwipeAway`, `DismissAlert` | the user |
| `RunLoginAnswer`, `RunCreateAnswer`, `RunSignInAnswer`, `RunPutAnswer`, `RunURLAnswer`, `RunHide` | the handlers and the block |
| `Post` | the two notifications, to every personal information screen there ever was (its listener on FirebaseAuth keeps it) |

A covered view takes no touches, but the sheet it is on can be swiped away; no
request is cancelled by that. Every request is answered in the end. The image
picker is one step. `Spare` keeps a screen for each registration under way, so
that the bound on screens never suppresses a presentation. The check of the user
in `sendUserData` is `Session`'s matter.

### Reads with Watch (`MCReads`, `ReadsProofs`, `ReadFreshProofs`)

`Watch` has the read half of `remote_store.cc` with the stream, the online state
tracker and the aggregator of watch changes as operators on one record; `Reads`
has the survey tabs, the event manager, the sync engine's views and the local
store around it.

| Specification | Code |
|---|---|
| `w.listens`, `w.states`, `w.updates` | `listen_targets_`, the aggregator's `target_states_` with their outstanding responses, `pending_document_updates_` |
| `w.online`, `w.failing`, `w.timer` | `OnlineStateTracker` (`kMaxWatchStreamFailures` is 1) |
| `cache`, `token`, `keys`, `current` | the remote document cache, resume tokens, target keys, a view's `current_` |
| `listeners`, `raised`, `profile`, `questions` | `QueryListener` with `raised_initial_event_`; what each tab was told |
| `server`, `serving`, `answers`, `denied`, `up` | the server and the network |

A target's documents are one document with a version: what is checked concerns
whether the client has it and how new it is. A token request and the start of its
stream are one step here; they are taken apart in Outbox. The server sends a
target's document if its token does not cover it, then `CURRENT`, then a snapshot;
a target is denied as a whole. It sends no existence filters and resets no target,
and then no document is ever in limbo, which `NoAssertionFails` checks. Snapshot versions only grow, hence the guard
at `remote_store.cc:262` always holds and is left out. Tokens in memory and on
disk are the same: there is no restart in this module.

## Runs

| Run | Bounds | Shows |
|---|---|---|
| `task_run` | 0 to 2 questions, 2 texts (symmetric) | the bookkeeping invariants, completeness of a completed run, answers kept |
| `task_run_review` (violation) | 1 question | an edit from the review step is lost |
| `survey_flow` | 2 questions, one list that collides, 1 text | what is sent, when, and every way of failing |
| `survey_discard`, `survey_done`, `survey_skip` (violations) | 1 question | a discarded run is sent; Done without a profile sends nothing; a skip ends the process |
| `session` | 2 users (symmetric), 3 requests, 3 personal information screens | identity stays within who has signed in, listeners catch up, profiles are filed under their owners |
| `outbox` | 2 users, 3 writes, a pipeline of 2, 2 troubles (changes of user or token, broken streams, restarts) | no assertion fails, what is sent is the front of the queue, answers are paired with their writes, callbacks are told the truth, nothing is dropped, `Delivery` is implemented, everything settles |
| `outbox_token` (violation) | 2 users (symmetric), 1 write, 1 trouble | a write goes out with the next user's token |
| `outbox_reject` (violation) | 2 users (symmetric), 4 writes, no trouble | a committed write is rolled back and reported as failed |
| `photo` | 5 screens, 3 chains of requests, 1 rotation | which photo a profile gets, who can stay covered, that screens are freed |
| `reads` | 2 tabs, 2 versions of documents, 1 trouble | no assertion fails, responses are counted right, tokens claim no more than the cache has, reads are fresh and answered, questions catch up |

Why the bounds are enough. Two questions are the fewest for which going back,
reviewing one and leaving the other alone differ, and for which a failure can
come after one response and before another; a third adds longer walks of the
same steps, and the proofs cover every number. Two texts tell an answer from a
changed one. Two users are the fewest that can be mistaken for each other; three
requests let a login race both calls of a registration; three personal
information screens let old listeners outlive their screens twice. A pipeline of two is full
with a third write waiting, the case in which an answer makes room; two troubles
let a stream break, or a user change, while the messages of the one before are
still on the wire. `outbox_reject` needs a fourth write: one committed and
answered, one committed and not read, one refused, and one to fail on the closed
call. Five screens let a second rotate screen or registration come up over the
first, three chains of requests leave one unanswered on either side of another.
Two tabs listen to one target each after the other, which is when responses of the
listen before are still on their way; the invariants of `reads` were also checked
once with two troubles (7.9 million states), too long for a regular run.

Deadlock is checked in the runs of TaskRun, SurveyFlow and Session. The others
say `CHECK_DEADLOCK FALSE`: with the bounds used up and every request answered
the application rests.

### Fairness

| Specification | Weak fairness of | Because |
|---|---|---|
| `Outbox!FairSpec` | the worker queue; the main queue with FirebaseAuth behind it; the server | dispatch queues run what they have; `getToken` calls back or fails; a stream that is up is served. Nothing is assumed of the user, of the idle timer or of failures, which are finite (`MaxTroubles`) |
| `PhotoUpload!FairSpec` | the main queue; the services | FirebaseAuth and FirebaseStorage answer every request, with an error after their time limits |
| `Reads!FairSpec` | the worker and main queues; reading responses; a stream that is started opens or ends; the retry after a backoff; while there is a network the server takes requests, without one the stream ends | dispatch queues go on, gRPC reports a call that cannot be made, a timer fires. Nothing is assumed of the idle and the online timer |

`EverythingSettles` says nothing of a user who never comes back, `QuestionsCatchUp`
nothing while the network is gone or of a listener that was refused, and
`ScreensAreFreed` nothing of the two cases it names: those are not fairness but
what the code does.

## What the runs found

- **Edits from the review step are lost.** `setManagedResult:forKey:` files the
  edit under the index above the review step, `managedResults` reads the lower
  one. The review list, which looks results up by identifier, shows the edit, so
  the user sees an answer that is not the one sent.
- **Discarding sends.** The delegate ignores the reason of the end.
- **Done may send nothing.** Without a profile the survey is dropped silently.
- **A skipped question ends the process** after the responses before it were
  written; answering the survey again writes them again.

- **A write may carry the next user's token.** `FIRAuth` takes the new user at
  once, Firestore learns of it two queues later. A stream that opens in between
  sends the old user's batches with the new user's token: the server decides about
  them by the wrong user's rights.
- **A committed write may be reported as refused.** When the server refuses one
  write and ends the call, a client write that fails makes `FinishGrpcCall` cancel
  the read of an answer that has come; `HandleWriteError` then takes the error for
  the first write of the pipeline, which the server has committed. That one is
  rolled back and reported as failed, the refused one is sent again.

Met on the way, without a run of their own:

- A registration screen that was swiped away while its account was being created
  shows its cover all the same when the answer comes
  (`RegistrationViewController.swift:56`). `blurView` then forgets the cover of
  the screen in front; if that one is covered, nothing uncovers it. The set
  `disowned` of `PhotoUpload` records it, and `NobodyIsLockedOut` says that this
  and an image without JPEG data are the only ways.
- `StopListening` on a stream that is not open does not restart the online timer
  (`remote_store.cc:162`, against the comment at `online_state_tracker.cc:45`).
- A refusal of a target takes no account of responses still due
  (`remote_store.cc:337`), so `OutstandingResponsesMatch` speaks of targets that
  are not denied.
- A refused listen of the questions is not repeated and its error is ignored
  (`FIRFirestoreService.swift:74`): the tab shows what it had.
- Comments of `stream.h:81` and `write_stream.h:69`, `84` describe states of the
  stream that the code no longer has.

Session also contains behaviours that nothing in the code promises to exclude
and that no property therefore forbids: FirebaseAuth's user differing from the
keychain's when a login and an abandoned registration are answered together, and
a late login answer undoing a logout. `TabIsTheKeychainUsers` states how far the
keychain and the tab can be relied on.

## Proofs

`TaskRunProofs` proves, for every `MaxQuestions` and every set `Text`, from the
two assumptions of `TaskRun` (`MaxQuestionsAssumption`, `MarkersAssumption`):
`TypeCorrect`, `ManagedResultsNeverFail`, `BackTakesTheCurrentStep` and
`StackIsAWalk`. The inductive invariant `IInv` joins the type invariant with the
shape of the stack and the presence of a result under every key the stack
reads. None of the last three is inductive alone: that a pushed step finds a
result needs the stack to be a walk, that Back takes the right identifier needs
the current step on top, and `KeyPosition` stays in its range only because the
walk bounds the stack. The proof has a lemma per operator (`SetResult` keeps what
is filed, `ShowStep` restores the shape) and one step per action.

It then proves what a run hands over, from the same assumptions:
`CompletedRunsAreComplete` and `EnteredAnswersAreKept`. Results are filed under
identifier and index, and what is handed over for question `q` is the one under `q`
and the index `q`. `PassedInv` says of every question the run is beyond that this is
an answer or a skip, and the one last entered unless it was edited from the review.
It says nothing of the step on top of the stack: a result filed while that step is
shown may be an old one, and leaving the step files its answer anew. A detour from
the review files under the index above the review step's, so it disturbs none of
the answers below; this rests on `IInv`. `PlainInv` is the other half of what is
handed over: the introduction, the review and the completion step never have a
question result, whichever key they are filed under. `RunInv` is all of it together,
for those who use a run.

`SurveyFlowProofs` proves every property of `survey_flow`, for any surveys and
texts: `FlowTypeCorrect`, `EachQuestionOnce`, `CrashesKnown`, `ResponsesOnlyAtTheEnd`
and `DoneSends`. It instantiates `TaskRunProofs` for the tab's run (`RunInv` is kept
by every step of the tab) and rests on `MarkersAssumption` and on
`SurveysAssumption`: surveys are sequences, and there is a longest one, the
bound the run's `MaxQuestions` is. `FlowInv` adds what the tab knows about the run:

- the identifiers of the task on screen differ, because they were checked when it
  was presented; the questions may have changed since. `EachQuestionOnce` rests on it.
- `SentInOrder`: after a completed run, what was sent is the front of the task's
  texts. While a run is under way `sent` is empty, without which what one run sends
  would follow what another has sent.
- a run is only under way while the process is; with it, a failure at the end of a run
  is traced to the result that stopped `sendSurveyData` (`SendsAPrefix`), and from
  there to the answer last entered (`CompletingHandsOver`).

What `Touched` and the search for the first unsendable result compute for every
input needs induction. It is stated without an operator parameter: a set of numbers
that has 0 and with each number the next is everything up to `n` (`CountingUp`), from
the least element of a well-founded relation (`LeastNumber`).

`SessionProofs` proves every invariant of the `session` run for any set of users
and any `MaxRequests` and `MaxPersonal`, from `NoUserAssumption` alone
(`BoundsAssumption` is there for TLC): `TypeCorrect`, `NamesAreProved`,
`ProfilesAreFiledRight`, `UidFollows`, `ScreensAgree`, `TabIsRight`. Its `IInv`
says what the main queue still holds:

- `ListenerInv`: a listener that is behind FirebaseAuth has a notification or its
  first call in the queue. `UidFollowsAuth` is this with an empty queue.
- `FirstInv`: a queued first call belongs to the last screen, and that screen is
  in front or no answer before the call can present another. It is what makes a
  first call set the uid for the screen in front rather than an older one, so
  `PersonalScreenAgrees` and with it `ProfilesAreTheirOwners` rest on it. It needs
  that `segueToTabController` and swiping the registration away leave answers
  that present nothing (`live`), and that UIKit takes no touches while a sheet
  comes up (`Presenting`).
- `NamesInv`, `SignedInInv`: the users of queued successful answers are accepted,
  and somebody is signed in once a second sign-in was sent or a user is named.
- `UidInv`: the global uid is what some listener was last called with.

There is a lemma for what each step does to the queue (`TailShifts`,
`QueueAppend`, `QueueGoneKeeps`), one for a call of listeners (`TellStep`), and
one per action.

`PhotoUploadProofs` proves the three safety invariants of `photo` for every number
of screens, chains of requests and rotations, from `NoneAssumption` and
`BoundsAssumption`: `TypeCorrect`, `PhotosAreFiledRight` and `NobodyIsShutOut`.
Its `IInv` has three independent parts.

- `PhotosInv`: what an upload under way carries was confirmed, and photo and URL
  agree. `Unhandled` (requests, and answers not yet run) is the set it ranges
  over; a lemma for each class of step says what becomes of that set.
- `CoverInv` and `HideInv`: a screen that is covered and not forgotten is the one
  `blurView` names, and something that will hide it is queued or on its way. The
  first makes the second inductive: a handler calls `hideLoading` for its own
  screen, but its block removes whatever cover is current, so what has to be known
  is that there is no other. Unlike the property, both speak of screens that are
  gone too, because those go on moving the variable.
- `NumbersInv` and `SpareInv`: each chain of requests is in one place, and there is
  a screen for each registration under way. Type correctness of a presentation
  rests on them.

`OutboxProofs` proves every state invariant of `outbox` but `ServerKeepsTheLatest`
for any users, any pipeline limit and any number of writes and failures, from
`MaxPendingAssumption` and `BoundsAssumption`. The inductive invariant `Inv` is:

- `ConnInv`: the states of the stream and what each allows. The pipeline is the
  front of the queue and as full as it may be (`Fills`); a current token request
  exists exactly while the stream is starting; the idle timer runs only on an open
  stream with an empty queue. Every `HARD_ASSERT` follows from it, and
  `NeverStalled` is part of it.
- `TalkInv`: what is being said on the open stream. After the handshake the answers
  not yet read, at most one refused write (`Gap`) and the messages not yet answered
  are the pipeline, in this order (`Paired`). Reading an answer, sending from a
  refilled pipeline and serving each have a lemma of their own about `Paired`.
- `DecidedInv` (an answer is about a committed write, the gap is a refused one),
  with `TalkInv` the reason why a callback told of success is right.
- `CallbackInv`: a waiting callback's batch is in its queue; together with the
  order of ids in a queue (`QueueInv`) the batch removed is the one answered.
- `DropInv`: where a write can be; `AppInv`, `ServerInv`, `WireInv`, `ToldInv`.

There is a lemma for each operator of `RemoteStore` (what a call does to a
connection that satisfies `ConnInv`) and one for each action of `Outbox`.

`DeliveryProofs` proves the rest of Outbox's safety: `ServerKeepsTheLatest` and
the refinement `KeepsThePromise`. Both rest on `OrderInv`, the order of writes
wherever they are:

- `TaskInv`, `PastInv`, `RisingInv`: the worker queue and the queues on disk are in
  the order the writes were made, and what the worker has taken was made before
  what it has not.
- `WireShape`: whatever is on the wire comes from the last stream that got past its
  handshake, followed by handshakes only. A later stream's handshake is answered
  only when the wire is empty, and only then does it send batches; so batches of two
  streams never wait behind each other.
- `WireOrder`: a batch on the wire is still in its queue, and those before it in the
  queue have been decided or come before it on the wire. This is what lets the
  server's step on an abandoned message be a `Decide` of Delivery.
- `CommitInv`, `LatestInv`, `DisjointInv`: a committed write the documents are behind
  is still in its queue, after all that has been answered, and so will be sent again.

`TakeWrite` is then Delivery's `Accept`, `Serve` and `ServeAbandoned` are its
`Decide`, `ReadResult` and `ReadRefusal` its `Settle`; every other step leaves the
mapping unchanged (a restart too: what it loses had not been accepted).

`ReadsProofs` proves `ResponsesAreCounted` (`OutstandingResponsesMatch`) for any
tabs, users, number of versions and of troubles. Targets share a stream and a listen that follows
another one gets the same target, so the counter of outstanding responses is all
that tells the messages of the two apart. `Inv` adds that nothing is left of the RPC
unless the stream is open (no messages, no counters, nothing served), without which
a new stream could start with counters of the old one, and that only denied targets
are refused, which are the ones the property leaves out. There are lemmas that count
along a sequence, one for each operator of `Watch` and one for each action.

It also proves `TokensClaimWhatIsKnown` (`NothingIsMissed`). That the cache has what
a token claims depends on everything that is still on its way, so `Truth` adds to
`Inv` where the server's document of a target is and in which order things come:

- `Accounted`: of a target the server serves and the client wants (`Settled`), the
  server's document is among the answers that count (`Coming`), with the aggregator
  (`Pending`), covered by the token, or there is none and the client never saw one
  (`Absent`). With `Since`, only answers after the last response due count: what was
  meant for an earlier listen of the same target does not.
- `InOrder`: documents come by version, and no snapshot claims a document that comes
  after it. So when a snapshot raises the tokens, what it covers is not `Coming`.
- `Flushed`: the aggregator's documents are taken in before the next response to a
  request is read, without which a listen that starts over would drop them
  (`remote_event.cc`, `HandleAdded` clears the pending changes).
- `Changes`, `Updates`, `CurrentFirst`: the aggregator's change of a target is that
  of the document it has, and `CURRENT` comes before the first snapshot, so that a
  missing profile is known to be missing.
- `Requests`, `Watched`, `Denials`, `Messages`: requests carry the present tokens,
  the last of them says whether the client listens, and a user who is denied
  anything is sent nothing that could be taken for an answer.
- `Knowledge`: what the keys and the cache say of a target whose token covers the
  server's version; `NothingIsMissed` follows from it.

The server's and the aggregator's steps each have lemmas of their own; the client's
requests all go through `SentTruth`, and every end of a stream through `QuietTruth`.

`ReadFreshProofs` proves `ReadsTypeCorrect` (`TypeOK`), `ReadsAreFresh`
(`ReadIsFresh`) and `ReadsAssertNothingFalse` (`NoAssertionFails`), from `TargetsAssumption` and `BoundsAssumption`. `Types` has the
ranges of the variables and of what `w` and the messages hold; that nothing is left
of an RPC whose stream is not open comes from `Inv`. What listeners are told goes
through `SetToSeq` and a chain of record updates, so events have lemmas of their own:
`EffectsIn(E)` is closed under `OnViewSnapshot` and `HandleOnlineStateChange` for any
set `E` with the events of the listeners (`OnlineStateShown`, `SnapshotShows`). With
`E` all events they give the types, with `E` the fresh ones freshness.

`ReadIsFresh` relates what a tab is shown to when its query was asked for, with four
queues in between. Its invariant `Reading` says

- `Asking`: whose read is still to be asked for, and that nobody else's is.
  A read begins once, so an event that is fresh for a tab stays so (`Begun`).
- `Together`: the readers of the profile at one time were asked for at one time,
  and not after the server's present version.
- `Wanted`: who has listeners is listened to, and only that can be current. A reader
  who finds nobody listening finds a target that is not current, so what is cached
  is shown to it as such.
- `Answering`: while the profile is current the cache is as new as the readers' query,
  and as long as the server serves it (`Settled`), what is known of it is that new, or
  is with the aggregator or among the answers that count, or there is nothing known
  (`KnownBefore`); and so it is before each snapshot that counts. A snapshot makes
  the profile current, and whatever it finds is as new as the query: a document taken
  in, or one that is missing as of the snapshot's version (`SnapshotServed`). Messages
  to an earlier listener do not count (`Since`).
- `FreshEvents`: it holds of what is queued on the main queue too.

`NoAssertionFails` adds three parts to these:

- `Calm`: the online timer runs only while the state is unknown and nothing has
  failed, a failure means offline, and a stream is idle only while it is open and
  nobody listens; so neither the tracker's nor the stream's assertions fail.
- `ErrorsEnd`: an error is the last that a read hears. Its registration goes with its
  first answer, and after an error there is no second event to hand it over again.
- `Backed`: nothing comes to be in limbo, which is what the view would have to look
  for one document at a time. A snapshot that makes a view current must find the
  document in its target whenever the cache has it. The document was put in the
  cache under another listen, or for a target that had stopped being listened to
  (`Ahead`, `Whole`); what there is of it in the cache, with the aggregator and on
  its way agrees and the cache has the oldest (`Consistent`); and before every
  snapshot that counts there is a document that counts, or what is cached is older
  than the snapshot, which then says that it is not there (`Explaining`). `InView`
  keeps this for a view that is current already.

Every safety invariant of a passing run is stated by a theorem. Only model-checked
is every liveness property: liveness under fairness is out of TLAPS's reach.

## Not modelled, and why

- **The vendored libraries as such.** The repository holds 3157 files of C, C++ and
  headers (590 thousand lines: BoringSSL, gRPC, leveldb, abseil, nanopb and
  Firestore), and the application itself is 1359 lines of Swift and 5 thousand of
  the Objective-C it relies on (ResearchKit's task navigation, `FIRAuth.m`). The
  models cover the application's own logic and, of the libraries, the parts whose
  behaviour decides what the application does; by lines that is a small share of
  the tree. Ciphers, HTTP/2, compression and the log-structured store are not the
  application's logic, and the models rely on them as their callers do.
- **Document codec** (`EncodableExtension`, `SnapshotExtension`, the models): which
  documents decode is a matter of field names. That one undecodable question drops
  the whole snapshot (`FIRFirestoreService.swift:77`) is listed as a hazard; the
  models take decoding to succeed.
- **Of the write path**: transactions, `waitForPendingWrites`, enabling and
  disabling the network and termination (the application calls none of them),
  stream tokens, and the documents as local listeners see them before they are
  committed.
- **Of the read path**: limbo resolution, existence filters, target resets, limit
  queries, garbage collection, a restart, and views with pending local writes.
- **Of ResearchKit**: other question kinds than text, timed and form steps,
  state restoration: the application does not use them.
- **Dead code**: `SurveyTask`, `SurveyViewController`, the Core Data stack,
  `FIRFirestoreService.update`.

## Plan

1. `TaskRun`, `SurveyFlow`, `Session` with their proofs; `Outbox` with `Delivery` and
   their proofs; `PhotoUpload` with `LoadingOverlay` and its proofs; `Reads` (done).
2. Proofs left: none of the safety invariants the runs check.
3. Composition left: `Session` with `Outbox` (by whose rights a response is
   written), limbo and filters in `Reads`.
