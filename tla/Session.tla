------------------------------ MODULE Session -------------------------------
(***************************************************************************)
(* Who the application takes its user to be.  Four places say so:          *)
(*   - authUser: FirebaseAuth's current user, persisted by FirebaseAuth;   *)
(*   - keychain: the "uid" entry, written by LoginViewController and by    *)
(*     the listeners of PersonalInformationViewController, removed by      *)
(*     SecondViewController's logout;                                      *)
(*   - uid: the global variable in AppDelegate.swift;                      *)
(*   - tabUser: the user whose profile the survey tab asked for.           *)
(* Requests to the authentication service are answered in any order.  An   *)
(* answer is digested on FirebaseAuth's work queue, which queues a change  *)
(* notification and the completion handler on the main queue; the main     *)
(* queue runs them first in, first out, between the user's taps.           *)
(*                                                                         *)
(* Taps are allowed whenever their screen is in front: the loading cover   *)
(* is not a lock, every hideLoading removes the last cover of any screen.  *)
(***************************************************************************)
EXTENDS Naturals, Sequences, SequencesExt, FiniteSets

CONSTANTS
    Users,
    NoUser,
    MaxRequests,   \* bound: requests unanswered, or answered and not handled
    MaxPersonal    \* bound: PersonalInformationViewControllers in one process

ASSUME NoUserAssumption == NoUser \notin Users
ASSUME BoundsAssumption == MaxRequests \in Nat /\ MaxPersonal \in Nat

VARIABLES
    accounts,   \* the accounts the authentication service has
    profile,    \* users/<uid>: the owner of the e-mail address filed there
    keychain, authUser, uid, tabUser,
    base,       \* the window's root: "root" or "tabs"
    sheets,     \* what is presented on it, the last one in front
    requests,   \* unanswered requests; live: the screen that asked is still up
    main,       \* the main queue
    personal,   \* every PersonalInformationViewController of this process
    accepted    \* history: the users whose credentials this device has proved

vars == <<accounts, profile, keychain, authUser, uid, tabUser, base, sheets,
          requests, main, personal, accepted>>

identity == <<keychain, authUser, uid, tabUser>>
screens  == <<base, sheets>>
server   == <<accounts, profile, accepted>>

MaybeUser == Users \cup {NoUser}

Ids   == 1..MaxRequests
Kinds == {"login", "create", "signIn"}   \* signIn: registration's second call
Requests == [id : Ids, kind : Kinds, user : Users, live : BOOLEAN]
Blocks == [block : {"notify"}]
     \cup [block : {"answer"}, request : Requests, ok : BOOLEAN]
     \cup [block : {"first"}, vc : Nat \ {0}]

Notify == [block |-> "notify"]
Answer(r, ok) == [block |-> "answer", request |-> r, ok |-> ok]
First(i) == [block |-> "first", vc |-> i]

Sheets == {<<>>, <<"login">>, <<"login", "register">>, <<"login", "register", "personal">>}
InFront(s) == sheets # <<>> /\ Last(sheets) = s

-----------------------------------------------------------------------------
(* A process starts: the root controller presents the login screen, which  *)
(* hands over to the tab bar at once when the keychain has a uid.          *)
Started(kc) ==
    /\ base = IF kc = NoUser THEN "root" ELSE "tabs"
    /\ sheets = IF kc = NoUser THEN <<"login">> ELSE <<>>
    /\ tabUser = kc
    /\ uid = NoUser
    /\ requests = {}
    /\ main = <<>>
    /\ personal = <<>>

Init ==
    /\ accounts \in SUBSET Users
    /\ profile = [u \in Users |-> NoUser]
    /\ keychain = NoUser
    /\ authUser = NoUser
    /\ accepted = {}
    /\ Started(NoUser)

(* The process ends at any moment and is started again.  FirebaseAuth and  *)
(* the keychain keep their users; a request under way may still have       *)
(* created its account.                                                    *)
Relaunch ==
    /\ \E made \in SUBSET {r.user : r \in {q \in requests : q.kind = "create"}} :
         accounts' = accounts \cup made
    /\ base' = IF keychain = NoUser THEN "root" ELSE "tabs"
    /\ sheets' = IF keychain = NoUser THEN <<"login">> ELSE <<>>
    /\ tabUser' = keychain
    /\ uid' = NoUser
    /\ requests' = {}
    /\ main' = <<>>
    /\ personal' = <<>>
    /\ UNCHANGED <<keychain, authUser, profile, accepted>>

-----------------------------------------------------------------------------
(* The user's taps.                                                        *)

InUse == {r.id : r \in requests}
         \cup {main[i].request.id : i \in {j \in 1..Len(main) : main[j].block = "answer"}}
FreeIds == Ids \ InUse

Ask(kind, u) ==
    /\ FreeIds # {}
    /\ LET id == CHOOSE i \in FreeIds : TRUE
       IN requests' = requests \cup {[id |-> id, kind |-> kind, user |-> u, live |-> TRUE]}

TapLogin(u) ==
    /\ InFront("login")
    /\ Ask("login", u)
    /\ UNCHANGED <<server, identity, screens, main, personal>>

OpenRegistration ==
    /\ InFront("login")
    /\ sheets' = Append(sheets, "register")
    /\ UNCHANGED <<server, identity, base, requests, main, personal>>

\* The guard on personal is MaxPersonal's, the program has none.
TapRegister(u) ==
    /\ InFront("register")
    /\ Len(personal) + Cardinality(InUse) < MaxPersonal
    /\ Ask("create", u)
    /\ UNCHANGED <<server, identity, screens, main, personal>>

(* Completion handlers keep their controller alive when its screen goes,   *)
(* but a controller without a screen presents nothing.                     *)
GoneFrom(r) == IF r.kind = "login" THEN r ELSE [r EXCEPT !.live = FALSE]
RequestsGone == {GoneFrom(r) : r \in requests}
QueueGone(q) == [i \in 1..Len(q) |->
                   IF q[i].block = "answer" THEN [q[i] EXCEPT !.request = GoneFrom(@)] ELSE q[i]]

(* UIKit takes no touches while a sheet is being presented, so the block   *)
(* queued when the personal information's view was loaded has run by the   *)
(* time the user can touch the sheet.                                      *)
Presenting == InFront("personal") /\ Contains(main, First(Len(personal)))

\* The sheet in front is swiped away.
SwipeAway ==
    /\ sheets # <<>> /\ ~Presenting
    /\ sheets' = Front(sheets)
    /\ IF InFront("register")
       THEN requests' = RequestsGone /\ main' = QueueGone(main)
       ELSE UNCHANGED <<requests, main>>
    /\ UNCHANGED <<server, identity, base, personal>>

(* logout removes the uid from the keychain and shows the login screen.    *)
(* FirebaseAuth is not told.                                               *)
Logout ==
    /\ base = "tabs" /\ sheets = <<>>
    /\ keychain' = NoUser
    /\ sheets' = <<"login">>
    /\ UNCHANGED <<server, authUser, uid, tabUser, base, requests, main, personal>>

(* segueToTabController replaces the root, and the new survey tab asks for *)
(* the profile of the keychain's user.                                     *)
SegueToTabs(kc, q) ==
    /\ base' = "tabs"
    /\ sheets' = <<>>
    /\ tabUser' = kc
    /\ requests' = RequestsGone
    /\ main' = QueueGone(q)

(* sendUserData of the personal information in front.  It needs a photo    *)
(* (the upload is external to this module and may answer at any time) and  *)
(* the global uid.  user! without a user ends the process, which Relaunch  *)
(* covers.                                                                 *)
Submit ==
    /\ InFront("personal") /\ ~Presenting
    /\ uid # NoUser
    /\ LET user == Last(personal)
       IN /\ user # NoUser
          /\ profile' = [profile EXCEPT ![uid] = user]
    /\ SegueToTabs(keychain, main)
    /\ UNCHANGED <<accounts, accepted, keychain, authUser, uid, personal>>

-----------------------------------------------------------------------------
\* Mutant: the notification is only posted for the first user of a process.
SucceedsQuietly(r) ==
    /\ r \in requests
    /\ IF r.kind = "create"
       THEN r.user \notin accounts /\ accounts' = accounts \cup {r.user}
       ELSE r.user \in accounts /\ UNCHANGED accounts
    /\ authUser' = r.user
    /\ accepted' = accepted \cup {r.user}
    /\ requests' = requests \ {r}
    /\ main' = main \o (IF authUser = NoUser THEN <<Notify>> ELSE <<>>) \o <<Answer(r, TRUE)>>
    /\ UNCHANGED <<profile, keychain, uid, tabUser, screens, personal>>

(* An answer of the authentication service reaches FirebaseAuth's work     *)
(* queue.  A successful one, of any kind, makes its user the current user; *)
(* the token is a new one, so listeners are always notified.               *)
Succeeds(r) ==
    /\ r \in requests
    /\ IF r.kind = "create"
       THEN r.user \notin accounts /\ accounts' = accounts \cup {r.user}
       ELSE r.user \in accounts /\ UNCHANGED accounts
    /\ authUser' = r.user
    /\ accepted' = accepted \cup {r.user}
    /\ requests' = requests \ {r}
    /\ main' = main \o <<Notify, Answer(r, TRUE)>>
    /\ UNCHANGED <<profile, keychain, uid, tabUser, screens, personal>>

\* It fails, or its success is lost on the way back.
Fails(r) ==
    /\ r \in requests
    /\ \/ UNCHANGED accounts
       \/ r.kind = "create" /\ accounts' = accounts \cup {r.user}
    /\ requests' = requests \ {r}
    /\ main' = Append(main, Answer(r, FALSE))
    /\ UNCHANGED <<profile, accepted, identity, screens, personal>>

-----------------------------------------------------------------------------
(* The main queue.                                                         *)

NextBlock(b) == main # <<>> /\ Head(main).block = b

\* Mutant: the listener sets the global uid only once.
TellOnce(vcs) ==
    /\ personal' = [i \in 1..Len(personal) |-> IF i \in vcs THEN authUser ELSE personal[i]]
    /\ IF \E i \in vcs : personal[i] # authUser
       THEN uid' = (IF uid = NoUser THEN authUser ELSE uid) /\ keychain' = authUser
       ELSE UNCHANGED <<uid, keychain>>

\* Mutant: the listener leaves the keychain alone.
TellWithoutKeychain(vcs) ==
    /\ personal' = [i \in 1..Len(personal) |-> IF i \in vcs THEN authUser ELSE personal[i]]
    /\ IF \E i \in vcs : personal[i] # authUser THEN uid' = authUser ELSE UNCHANGED uid
    /\ UNCHANGED keychain

(* The listener PersonalInformationViewController adds and never removes:  *)
(* called when the user differs from the last it was called with, it reads *)
(* the current user when it runs, not when the notification was queued.    *)
Tell(vcs) ==
    /\ personal' = [i \in 1..Len(personal) |-> IF i \in vcs THEN authUser ELSE personal[i]]
    /\ IF \E i \in vcs : personal[i] # authUser
       THEN uid' = authUser /\ keychain' = authUser
       ELSE UNCHANGED <<uid, keychain>>

RunNotification ==
    /\ NextBlock("notify")
    /\ Tell(1..Len(personal))
    /\ main' = Tail(main)
    /\ UNCHANGED <<server, authUser, tabUser, screens, requests>>

RunFirstCall ==
    /\ NextBlock("first")
    /\ Tell({Head(main).vc})
    /\ main' = Tail(main)
    /\ UNCHANGED <<server, authUser, tabUser, screens, requests>>

NextAnswer(kind) == NextBlock("answer") /\ Head(main).request.kind = kind

\* Mutant: the completion does not return early without a user.
RunLoginAnswerUnchecked ==
    /\ NextAnswer("login")
    /\ keychain' = Head(main).request.user
    /\ SegueToTabs(keychain', Tail(main))
    /\ UNCHANGED <<server, authUser, uid, personal>>

\* Mutant: the tab bar is brought up before the keychain is written.
RunLoginAnswerTabsFirst ==
    /\ NextAnswer("login")
    /\ IF Head(main).ok
       THEN /\ keychain' = Head(main).request.user
            /\ SegueToTabs(keychain, Tail(main))
       ELSE /\ main' = Tail(main)
            /\ UNCHANGED <<keychain, tabUser, screens, requests>>
    /\ UNCHANGED <<server, authUser, uid, personal>>

\* LoginViewController's completion: an alert, or the uid and the tabs.
RunLoginAnswer ==
    /\ NextAnswer("login")
    /\ IF Head(main).ok
       THEN /\ keychain' = Head(main).request.user
            /\ SegueToTabs(keychain', Tail(main))
       ELSE /\ main' = Tail(main)
            /\ UNCHANGED <<keychain, tabUser, screens, requests>>
    /\ UNCHANGED <<server, authUser, uid, personal>>

\* createUser's completion: an alert, or a second sign-in of the same user.
RunCreateAnswer ==
    /\ NextAnswer("create")
    /\ main' = Tail(main)
    /\ requests' = IF Head(main).ok
                   THEN requests \cup {[Head(main).request EXCEPT !.kind = "signIn"]}
                   ELSE requests
    /\ UNCHANGED <<server, identity, screens, personal>>

\* Mutant: the screen is presented on whatever is in front.
RunSignInAnswerAnywhere ==
    /\ NextAnswer("signIn")
    /\ sheets' = Append(sheets, "personal")
    /\ personal' = Append(personal, NoUser)
    /\ main' = Append(Tail(main), First(Len(personal) + 1))
    /\ UNCHANGED <<server, identity, base, requests>>

(* Its completion does not look at the error.  The personal information    *)
(* screen comes up if the registration screen is still in front; loading   *)
(* its view adds the listener, whose first call is queued.                 *)
RunSignInAnswer ==
    /\ NextAnswer("signIn")
    /\ IF Head(main).request.live /\ InFront("register")
       THEN /\ sheets' = Append(sheets, "personal")
            /\ personal' = Append(personal, NoUser)
            /\ main' = Append(Tail(main), First(Len(personal) + 1))
       ELSE /\ main' = Tail(main)
            /\ UNCHANGED <<sheets, personal>>
    /\ UNCHANGED <<server, identity, base, requests>>

Next ==
    \/ Relaunch
    \/ \E u \in Users : TapLogin(u)
    \/ OpenRegistration
    \/ \E u \in Users : TapRegister(u)
    \/ SwipeAway
    \/ Logout
    \/ Submit
    \/ \E r \in requests : Succeeds(r)
    \/ \E r \in requests : Fails(r)
    \/ RunNotification
    \/ RunFirstCall
    \/ RunLoginAnswer
    \/ RunCreateAnswer
    \/ RunSignInAnswer

Spec == Init /\ [][Next]_vars

-----------------------------------------------------------------------------
(* Variables stay in their ranges; the screens are presented one on the    *)
(* other as the storyboard has them, whatever handlers run late.           *)
TypeOK ==
    /\ accounts \subseteq Users
    /\ profile \in [Users -> MaybeUser]
    /\ {keychain, authUser, uid, tabUser} \subseteq MaybeUser
    /\ base \in {"root", "tabs"}
    /\ sheets \in Sheets
    /\ requests \subseteq Requests
    /\ main \in Seq(Blocks)
    /\ personal \in Seq(MaybeUser)
    /\ accepted \subseteq Users

(* Whatever order answers, handlers, swipes and restarts come in, no place *)
(* ever names a user whose credentials this device has not proved, and a   *)
(* keychain that names a user comes with a signed-in FirebaseAuth.         *)
OnlyProvedUsersAreNamed ==
    /\ {keychain, authUser, uid, tabUser} \subseteq accepted \cup {NoUser}
    /\ keychain # NoUser => authUser # NoUser

(* The profile document of a user holds that user's own e-mail address,    *)
(* although its key comes from the global uid and its contents from the    *)
(* screen's own listener, with other screens' listeners still around.      *)
ProfilesAreTheirOwners ==
    \A u \in Users : profile[u] \in {u, NoUser}

(* Once the notifications are run, the listeners have brought the global   *)
(* uid in line with FirebaseAuth, whichever of several sign-ins came last. *)
UidFollowsAuth ==
    personal # <<>> /\ (\A i \in 1..Len(main) : main[i].block = "answer") =>
        uid = authUser /\ \A i \in 1..Len(personal) : personal[i] = authUser

(* The personal information in front, the global uid and the keychain name *)
(* the same user: what is submitted is filed for the user whose tab opens. *)
PersonalScreenAgrees ==
    InFront("personal") /\ Last(personal) # NoUser =>
        Last(personal) = uid /\ uid = keychain

(* In a process without such a listener the tab in front is the keychain's *)
(* user's, or the user has logged out: only the listeners take the two     *)
(* apart.                                                                  *)
TabIsTheKeychainUsers ==
    base = "tabs" /\ personal = <<>> => keychain \in {tabUser, NoUser}
=============================================================================
