---------------------------- MODULE PhotoUpload -----------------------------
(***************************************************************************)
(* The photo of a profile, and the loading cover every screen on the way   *)
(* to it shares: RotateImageViewController uploads the image and asks for  *)
(* its URL, both with a completion handler on the main queue, and posts    *)
(* image and URL to every PersonalInformationViewController there is; the  *)
(* login, registration and personal information screens show and hide the  *)
(* same cover.  A view under its cover takes no touches, but its sheet can *)
(* be swiped away, which stops no request.                                 *)
(*                                                                         *)
(* External: the services, which answer every request, with an error or    *)
(* without, in any order; UIKit, which presents a controller only from the *)
(* one in front; the image picker, which presents the rotate screen.       *)
(***************************************************************************)
EXTENDS Naturals, Sequences, FiniteSets, SequencesExt, LoadingOverlay

CONSTANTS
  NoImage,
  MaxScreens,  \* bound: screens in one process
  MaxTaps,     \* bound: logins, registrations and uploads begun
  MaxTurns     \* bound: rotations of an image

Screens == 1..MaxScreens
Images  == [pick : Screens, turns : 0..MaxTurns]

ASSUME NoneAssumption   == NoView \notin Screens /\ NoImage \notin Images
ASSUME BoundsAssumption == MaxScreens \in Nat \ {0} /\ MaxTaps \in Nat /\ MaxTurns \in Nat

VARIABLES
  kind,        \* what each screen of the process is
  base,        \* the window's root: "root" or "tabs"
  front,       \* the screens presented on it, the last one in front
  alert,       \* whether an alert is in front of them
  arriving,    \* how many blocks will have run when what was presented last takes
               \* touches
  image,       \* imageToEdit.image of each rotate screen
  photo,       \* profilePicture.image of each personal information screen
  photoURL,    \* its photoURL, as the image that is stored there
  overlay,     \* the cover
  requests,    \* unanswered requests
  main,        \* the main queue
  taps,        \* how many chains of requests were begun
  confirmed,   \* history: the images Done was tapped on
  unencodable, \* history: the rotate screens whose image had no JPEG data
  disowned     \* history: the screens that were covered when another one's cover
               \* was made

vars == <<kind, base, front, alert, arriving, image, photo, photoURL, overlay, requests,
          main, taps, confirmed, unencodable, disowned>>

screens == <<kind, base, front>>
photos  == <<photo, photoURL>>
history == <<confirmed, unencodable>>

Kinds    == {"none", "login", "register", "personal", "rotate"}
Requests == [n : 1..MaxTaps, kind : {"login", "create", "signIn", "put", "url"},
             by : Screens, image : Images \cup {NoImage}]
Blocks   == [block : {"hide"}] \cup [block : {"answer"}, request : Requests, ok : BOOLEAN]

Hide          == [block |-> "hide"]
Answer(r, ok) == [block |-> "answer", request |-> r, ok |-> ok]

Unused   == {s \in Screens : kind[s] = "none"}
Unhandled   == requests \cup {b.request : b \in {b \in ToSet(main) : b.block = "answer"}}
Registering == {r \in Unhandled : r.kind \in {"create", "signIn"}}

\* MaxScreens leaves a screen for every registration under way.
Spare    == Cardinality(Unused) > Cardinality(Registering)
New      == CHOOSE s \in Unused : TRUE
InFront(s) == front # <<>> /\ Last(front) = s

\* A touch reaches a control of s.
Touchable(s, k) ==
  kind[s] = k /\ InFront(s) /\ ~alert /\ arriving = 0 /\ ~Covered(overlay, s)

\* UIKit takes no touches while it presents: what is queued by then runs first.
Presenting(q) == arriving' = Len(q)
BlockRun      == arriving' = IF arriving = 0 THEN 0 ELSE arriving - 1

\* showLoadingAdded on the view of s.
Show(s) ==
  /\ overlay' = ShowLoadingAdded(overlay, s)
  /\ disowned' = disowned \cup {t \in Screens \ {overlay'.blur} : Covered(overlay, t)}

\* hideLoading, with q queued before.
HideLoading(q) == IF Hides(overlay') THEN Append(q, Hide) ELSE q

-----------------------------------------------------------------------------
\* viewDidLoad of the login screen shows the cover and hides it again.  With a
\* uid in the keychain it goes on to the tabs.
Init ==
  /\ kind = [s \in Screens |-> IF s = 1 THEN "login" ELSE "none"]
  /\ \/ base = "root" /\ front = <<1>>
     \/ base = "tabs" /\ front = <<>>
  /\ alert = FALSE
  /\ arriving = 1
  /\ image = [s \in Screens |-> NoImage]
  /\ photo = [s \in Screens |-> NoImage]
  /\ photoURL = [s \in Screens |-> NoImage]
  /\ overlay = ShowLoadingAdded(NoOverlay(Screens), 1)
  /\ requests = {}
  /\ main = <<Hide>>
  /\ taps = 0
  /\ confirmed = {}
  /\ unencodable = {}
  /\ disowned = {}

-----------------------------------------------------------------------------
(* The user                                                                *)

\* A controller of this kind is presented.
Open(k) ==
  /\ kind' = [kind EXCEPT ![New] = k]
  /\ front' = Append(front, New)
  /\ UNCHANGED base

\* Logout presents a new login screen.
Logout ==
  /\ base = "tabs" /\ front = <<>>
  /\ Spare /\ Open("login")
  /\ Show(New)
  /\ main' = HideLoading(main)
  /\ Presenting(main')
  /\ UNCHANGED <<alert, image, photos, requests, taps, history>>

OpenRegistration(s) ==
  /\ Touchable(s, "login")
  /\ Spare /\ Open("register")
  /\ Presenting(main)
  /\ UNCHANGED <<alert, image, photos, overlay, requests, main, taps, history, disowned>>

\* A picked photo is handed to a new rotate screen.
PickPhoto(s) ==
  /\ Touchable(s, "personal")
  /\ Spare /\ Open("rotate")
  /\ image' = [image EXCEPT ![New] = [pick |-> New, turns |-> 0]]
  /\ Presenting(main)
  /\ UNCHANGED <<alert, photos, overlay, requests, main, taps, history, disowned>>

Ask(k, s, i) == requests' = requests \cup {[n |-> taps', kind |-> k, by |-> s, image |-> i]}

Tap == taps < MaxTaps /\ taps' = taps + 1

TapLogin(s) ==
  /\ Touchable(s, "login")
  /\ Tap
  /\ Show(s)
  /\ Ask("login", s, NoImage)
  /\ UNCHANGED <<screens, alert, arriving, image, photos, main, history>>

\* With an empty field it shows the cover, hides it and says so.
TapRegister(s) ==
  /\ Touchable(s, "register")
  /\ Show(s)
  /\ \/ Spare /\ Tap /\ Ask("create", s, NoImage) /\ UNCHANGED <<main, alert, arriving>>
     \/ main' = HideLoading(main) /\ alert' = TRUE /\ Presenting(main') /\ UNCHANGED <<requests, taps>>
  /\ UNCHANGED <<screens, image, photos, history>>

DismissAlert ==
  /\ alert /\ arriving = 0
  /\ alert' = FALSE
  /\ UNCHANGED <<screens, arriving, image, photos, overlay, requests, main, taps, history, disowned>>

SegueToTabs == base' = "tabs" /\ front' = <<>> /\ alert' = FALSE /\ arriving' = 0 /\ UNCHANGED kind

\* sendUserData: without a photo it only hides the cover it has just shown; with
\* one the profile is handed to Firestore, which reports success at once.
TapSubmit(s) ==
  /\ Touchable(s, "personal")
  /\ Show(s)
  /\ main' = HideLoading(main)
  /\ IF photoURL[s] = NoImage THEN UNCHANGED <<screens, alert, arriving>> ELSE SegueToTabs
  /\ UNCHANGED <<image, photos, requests, taps, history>>

TapRotate(s) ==
  /\ Touchable(s, "rotate")
  /\ image[s].turns < MaxTurns
  /\ image' = [image EXCEPT ![s].turns = @ + 1]
  /\ UNCHANGED <<screens, alert, arriving, photos, overlay, requests, main, taps, history, disowned>>

\* uploadPhoto.  An image without JPEG data is not uploaded, and nothing hides the
\* cover.
TapDone(s) ==
  /\ Touchable(s, "rotate")
  /\ Tap
  /\ Show(s)
  /\ confirmed' = confirmed \cup {image[s]}
  /\ \/ Ask("put", s, image[s]) /\ UNCHANGED unencodable
     \/ unencodable' = unencodable \cup {s} /\ UNCHANGED requests
  /\ UNCHANGED <<screens, alert, arriving, image, photos, main>>

\* The sheet in front is swiped away, covered or not.
SwipeAway ==
  /\ front # <<>> /\ ~alert /\ arriving = 0
  /\ front' = Front(front)
  /\ UNCHANGED <<kind, base, alert, arriving, image, photos, overlay, requests, main, taps, history, disowned>>

-----------------------------------------------------------------------------
(* The services                                                            *)

Respond(r) ==
  /\ \E ok \in BOOLEAN : main' = Append(main, Answer(r, ok))
  /\ requests' = requests \ {r}
  /\ UNCHANGED <<screens, alert, arriving, image, photos, overlay, taps, history, disowned>>

-----------------------------------------------------------------------------
(* The main queue                                                          *)

RunHide ==
  /\ main # <<>> /\ Head(main) = Hide
  /\ overlay' = RemoveCover(overlay)
  /\ main' = Tail(main)
  /\ BlockRun
  /\ UNCHANGED <<screens, alert, image, photos, requests, taps, history, disowned>>

NextAnswer(k) == main # <<>> /\ Head(main).block = "answer" /\ Head(main).request.kind = k
Asked == Head(main).request

\* An alert needs its controller in front.
SayFailed(s) ==
  /\ alert' = (alert \/ InFront(s))
  /\ IF InFront(s) /\ ~alert THEN Presenting(main') ELSE BlockRun

\* login's handler.
RunLoginAnswer ==
  /\ NextAnswer("login")
  /\ UNCHANGED overlay
  /\ main' = HideLoading(Tail(main))
  /\ IF Head(main).ok THEN SegueToTabs ELSE SayFailed(Asked.by) /\ UNCHANGED screens
  /\ UNCHANGED <<image, photos, requests, taps, history, disowned>>

\* The request the handler goes on to: r's chain, next kind.
GoOn(k) == requests' = requests \cup {[Asked EXCEPT !.kind = k]}

\* createUser's handler in registerUser.
RunCreateAnswer ==
  /\ NextAnswer("create")
  /\ IF Head(main).ok
     THEN /\ Show(Asked.by)
          /\ GoOn("signIn")
          /\ main' = Tail(main)
          /\ BlockRun /\ UNCHANGED alert
     ELSE /\ UNCHANGED <<overlay, requests, disowned>>
          /\ main' = HideLoading(Tail(main))
          /\ SayFailed(Asked.by)
  /\ UNCHANGED <<screens, image, photos, taps, history>>

\* signIn's handler in registerUser presents the personal information, whatever
\* the answer.
RunSignInAnswer ==
  /\ NextAnswer("signIn")
  /\ UNCHANGED overlay
  /\ main' = HideLoading(Tail(main))
  /\ IF InFront(Asked.by) /\ ~alert
     THEN Open("personal") /\ Presenting(main')
     ELSE BlockRun /\ UNCHANGED screens
  /\ UNCHANGED <<alert, image, photos, requests, taps, history, disowned>>

\* Mutant: an error is left to the user.
RunPutAnswerHidingLate ==
  /\ NextAnswer("put")
  /\ UNCHANGED overlay
  /\ IF Head(main).ok THEN GoOn("url") /\ main' = HideLoading(Tail(main))
     ELSE UNCHANGED requests /\ main' = Tail(main)
  /\ BlockRun
  /\ UNCHANGED <<screens, alert, image, photos, taps, history, disowned>>

\* putData's handler hides the cover and asks for the URL.
RunPutAnswer ==
  /\ NextAnswer("put")
  /\ UNCHANGED overlay
  /\ main' = HideLoading(Tail(main))
  /\ IF Head(main).ok THEN GoOn("url") ELSE UNCHANGED requests
  /\ BlockRun
  /\ UNCHANGED <<screens, alert, image, photos, taps, history, disowned>>

\* Mutant: the image posted is the one the screen shows by now.
PostCurrent(r) ==
  LET told(f, i) == [s \in Screens |-> IF kind[s] = "personal" THEN i ELSE f[s]]
  IN photo' = told(photo, image[r.by]) /\ photoURL' = told(photoURL, r.image)

\* Image and URL are posted to every personal information screen: their listener
\* on FirebaseAuth keeps those that have gone alive.
Post(r) ==
  LET told(f, i) == [s \in Screens |-> IF kind[s] = "personal" THEN i ELSE f[s]]
  IN photo' = told(photo, r.image) /\ photoURL' = told(photoURL, r.image)

\* downloadURL's handler posts and dismisses its screen, if it is still up.
RunURLAnswer ==
  /\ NextAnswer("url")
  /\ main' = Tail(main)
  /\ IF Head(main).ok
     THEN /\ Post(Asked)
          /\ front' = IF InFront(Asked.by) THEN Front(front) ELSE front
     ELSE UNCHANGED <<photos, front>>
  /\ BlockRun
  /\ UNCHANGED <<kind, base, alert, image, overlay, requests, taps, history, disowned>>

-----------------------------------------------------------------------------
User ==
  \/ Logout
  \/ DismissAlert
  \/ SwipeAway
  \/ \E s \in Screens :
       \/ OpenRegistration(s) \/ PickPhoto(s)
       \/ TapLogin(s) \/ TapRegister(s) \/ TapSubmit(s)
       \/ TapRotate(s) \/ TapDone(s)

MainQueue ==
  \/ RunHide
  \/ RunLoginAnswer \/ RunCreateAnswer \/ RunSignInAnswer
  \/ RunPutAnswer \/ RunURLAnswer

Services == \E r \in requests : Respond(r)

Next == User \/ MainQueue \/ Services

Spec == Init /\ [][Next]_vars

\* The main queue runs what is queued and every request is answered in the end:
\* FirebaseAuth and FirebaseStorage give up after a time.
FairSpec == Spec /\ WF_vars(MainQueue) /\ WF_vars(Services)

-----------------------------------------------------------------------------
TypeOK ==
  /\ kind \in [Screens -> Kinds]
  /\ base \in {"root", "tabs"}
  /\ front \in Seq({s \in Screens : kind[s] # "none"})
  /\ alert \in BOOLEAN /\ arriving \in 0..Len(main)
  /\ image \in [Screens -> Images \cup {NoImage}]
  /\ photo \in [Screens -> Images \cup {NoImage}]
  /\ photoURL \in [Screens -> Images \cup {NoImage}]
  /\ overlay \in [covers : [Screens -> {0, 1}], blur : Screens \cup {NoView},
                  attached : BOOLEAN]
  /\ requests \subseteq Requests
  /\ main \in Seq(Blocks)
  /\ taps \in 0..MaxTaps
  /\ confirmed \subseteq Images
  /\ unencodable \subseteq Screens /\ disowned \subseteq Screens

\* The photo a personal information screen shows is the one its profile will
\* name, and it is an image as it was when somebody tapped Done on it, although
\* the rotate screen is uncovered again before its URL is there, may then be
\* rotated and uploaded again, and answers come in any order
\* (RotateImageViewController.swift:59, 65).
PhotoShownIsPhotoFiled ==
  \A s \in Screens :
    kind[s] = "personal" =>
      photo[s] = photoURL[s] /\ photo[s] \in confirmed \cup {NoImage}

\* What is going to take the cover off s: a block or an answer in the queue, or an
\* answer to come, that hides.
WillHide(s) ==
  \/ \E i \in 1..Len(main) :
       \/ main[i] = Hide
       \/ main[i].block = "answer" /\ main[i].request.kind # "url" /\ main[i].request.by = s
  \/ \E r \in requests : r.kind # "url" /\ r.by = s

\* No screen presented, in front or behind, is covered for good: its cover is the
\* one the next hideLoading removes, and there is a next one, although other
\* screens make covers and run the same blocks meanwhile.  Except for an image
\* without JPEG data (RotateImageViewController.swift:57), and for a screen that
\* was covered when another one's cover was made: blurView has forgotten it
\* (ActivityIndicator.swift:21, 35).
NobodyIsLockedOut ==
  \A s \in ToSet(front) :
    Covered(overlay, s) /\ s \notin unencodable \cup disowned =>
      overlay.attached /\ overlay.blur = s /\ WillHide(s)

\* Whatever screen is in front, its user gets it back, in the same cases: every
\* answer comes and every block runs (ActivityIndicator.swift:33).
ScreensAreFreed ==
  \A s \in Screens :
    []<>(InFront(s) /\ s \notin unencodable \cup disowned => ~Covered(overlay, s))
=============================================================================
