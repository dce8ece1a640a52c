---------------------------- MODULE SessionProofs ----------------------------
(***************************************************************************)
(* The invariants of Session hold for any set of users, any number of      *)
(* requests at a time and any number of personal information screens.      *)
(*                                                                         *)
(* What makes them inductive is an account of what the main queue still    *)
(* holds: who an unread answer is about (NamesInv), which listener a       *)
(* queued first call belongs to and that no other screen can come up       *)
(* before it (FirstInv), and that a listener that is behind FirebaseAuth   *)
(* has a call to come (ListenerInv).                                       *)
(***************************************************************************)
EXTENDS Session, SequenceTheorems, TLAPS

Ok(b) == b.block = "answer" /\ b.ok

\* Everyone named anywhere, queued answers included, has been accepted.
NamesInv ==
    /\ {keychain, authUser, uid, tabUser} \subseteq accepted \cup {NoUser}
    /\ \A p \in DOMAIN main : Ok(main[p]) => main[p].request.user \in accepted
    /\ \A i \in DOMAIN personal : personal[i] \in accepted \cup {NoUser}

(* A user is signed in once one is named, and once a registration has got  *)
(* as far as its second sign-in.                                           *)
SignedInInv ==
    authUser = NoUser =>
        /\ keychain = NoUser
        /\ personal = <<>>
        /\ \A r \in requests : r.kind # "signIn"
        /\ \A p \in DOMAIN main : main[p].block = "answer" =>
             main[p].request.kind # "signIn" /\ ~main[p].ok

\* The answers that can bring up another personal information screen.
Presents(b) == b.block = "answer" /\ b.request.kind = "signIn" /\ b.request.live

(* A queued first call is the last screen's, which is in front, or no      *)
(* answer before the call can present another.                             *)
FirstInv ==
    \A p \in DOMAIN main : main[p].block = "first" =>
        /\ main[p].vc = Len(personal)
        /\ InFront("personal") \/ \A q \in 1..(p - 1) : ~Presents(main[q])

\* A listener that is behind has a call to come.
ListenerInv ==
    \A i \in DOMAIN personal : personal[i] # authUser =>
        \E p \in DOMAIN main : main[p] = Notify \/ main[p] = First(i)

\* The global uid is what some listener was last called with, if any was.
UidInv ==
    IF uid = NoUser
    THEN \A i \in DOMAIN personal : personal[i] = NoUser
    ELSE \E i \in DOMAIN personal : personal[i] = uid

IInv ==
    /\ TypeOK
    /\ NamesInv
    /\ SignedInInv
    /\ FirstInv
    /\ ListenerInv
    /\ UidInv
    /\ PersonalScreenAgrees
    /\ ProfilesAreTheirOwners
    /\ TabIsTheKeychainUsers

(***************************************************************************)
(* The main queue: its blocks, what taking the first and adding one does.  *)
(***************************************************************************)

\* A block is determined by its kind and what it carries.
LEMMA BlockKinds ==
    ASSUME NEW b \in Blocks
    PROVE  /\ b.block \in {"notify", "answer", "first"}
           /\ b.block = "notify" <=> b = Notify
           /\ b.block = "answer" => /\ b.request \in Requests /\ b.ok \in BOOLEAN
                                   /\ b = Answer(b.request, b.ok)
           /\ b.block = "first" => b.vc \in Nat \ {0} /\ b = First(b.vc)
<1>1. CASE b \in [block : {"notify"}]
  BY <1>1 DEF Notify
<1>2. CASE b \in [block : {"answer"}, request : Requests, ok : BOOLEAN]
  BY <1>2 DEF Notify, Answer
<1>3. CASE b \in [block : {"first"}, vc : Nat \ {0}]
  BY <1>3 DEF Notify, First
<1>4. QED
  BY <1>1, <1>2, <1>3 DEF Blocks

\* The blocks the actions queue.
LEMMA NewBlocks ==
    /\ Notify \in Blocks /\ Notify.block = "notify"
    /\ \A r \in Requests, ok \in BOOLEAN :
         /\ Answer(r, ok) \in Blocks
         /\ Answer(r, ok).block = "answer"
         /\ Answer(r, ok).request = r
         /\ Answer(r, ok).ok = ok
    /\ \A i \in Nat \ {0} :
         First(i) \in Blocks /\ First(i).block = "first" /\ First(i).vc = i
BY DEF Notify, Answer, First, Blocks

\* Taking the first block moves every other one up.
LEMMA TailShifts ==
    ASSUME NEW q \in Seq(Blocks), q # <<>>
    PROVE  /\ Tail(q) \in Seq(Blocks)
           /\ Head(q) = q[1] /\ 1 \in DOMAIN q /\ Head(q) \in Blocks
           /\ DOMAIN Tail(q) = 1..(Len(q) - 1)
           /\ \A p \in DOMAIN Tail(q) :
                p \in Nat /\ p + 1 \in DOMAIN q /\ Tail(q)[p] = q[p + 1]
           /\ \A p \in DOMAIN q : p # 1 =>
                p - 1 \in DOMAIN Tail(q) /\ Tail(q)[p - 1] = q[p]
<1>1. Len(q) \in Nat \ {0} /\ DOMAIN q = 1..Len(q)
  OBVIOUS
<1>2. Tail(q) \in Seq(Blocks) /\ Len(Tail(q)) = Len(q) - 1 /\ Head(q) = q[1]
  OBVIOUS
<1>3. \A p \in 1..(Len(q) - 1) : Tail(q)[p] = q[p + 1]
  OBVIOUS
<1>4. QED
  BY <1>1, <1>2, <1>3

\* A screen going keeps the queue but for the answers that can present one.
LEMMA QueueGoneKeeps ==
    ASSUME NEW q \in Seq(Blocks)
    PROVE  /\ QueueGone(q) \in Seq(Blocks)
           /\ DOMAIN QueueGone(q) = DOMAIN q
           /\ \A p \in DOMAIN q :
                /\ QueueGone(q)[p].block = q[p].block
                /\ q[p].block # "answer" => QueueGone(q)[p] = q[p]
                /\ q[p].block = "answer" =>
                     /\ QueueGone(q)[p].ok = q[p].ok
                     /\ QueueGone(q)[p].request.user = q[p].request.user
                     /\ QueueGone(q)[p].request.kind = q[p].request.kind
                /\ ~Presents(QueueGone(q)[p])
<1>1. DOMAIN q = 1..Len(q) /\ DOMAIN QueueGone(q) = DOMAIN q /\ Len(q) \in Nat
  BY DEF QueueGone
<1>2. ASSUME NEW p \in DOMAIN q
      PROVE  /\ QueueGone(q)[p] \in Blocks
             /\ QueueGone(q)[p].block = q[p].block
             /\ q[p].block # "answer" => QueueGone(q)[p] = q[p]
             /\ q[p].block = "answer" =>
                  /\ QueueGone(q)[p].ok = q[p].ok
                  /\ QueueGone(q)[p].request.user = q[p].request.user
                  /\ QueueGone(q)[p].request.kind = q[p].request.kind
             /\ ~Presents(QueueGone(q)[p])
  <2>1. q[p] \in Blocks
    OBVIOUS
  <2>2. CASE q[p].block # "answer"
    <3>1. QueueGone(q)[p] = q[p]
      BY <1>1, <2>2 DEF QueueGone
    <3>2. QED
      BY <2>1, <2>2, <3>1 DEF Presents
  <2>3. CASE q[p].block = "answer"
    <3> DEFINE r == q[p].request
    <3>1. r \in Requests /\ q[p].ok \in BOOLEAN /\ q[p] = Answer(r, q[p].ok)
      BY <2>1, <2>3, BlockKinds
    <3>2. /\ GoneFrom(r) \in Requests
          /\ GoneFrom(r).user = r.user /\ GoneFrom(r).kind = r.kind
          /\ GoneFrom(r).kind = "signIn" => ~GoneFrom(r).live
      BY <3>1 DEF GoneFrom, Requests, Kinds
    <3>3. QueueGone(q)[p] = [q[p] EXCEPT !.request = GoneFrom(r)]
      BY <1>1, <2>3 DEF QueueGone
    <3> HIDE DEF r
    <3>4. QueueGone(q)[p] = Answer(GoneFrom(r), q[p].ok)
      BY <3>1, <3>3 DEF Answer
    <3>5. QED
      BY <2>3, <3>1, <3>2, <3>4, NewBlocks DEF Presents, r
  <2>4. QED
    BY <2>2, <2>3
<1>3. QueueGone(q) \in Seq(Blocks)
  BY <1>1, <1>2 DEF QueueGone
<1>4. QED
  BY <1>1, <1>2, <1>3

\* Requests keep their type and kind when their screen goes.
LEMMA RequestsGoneKeeps ==
    ASSUME requests \subseteq Requests
    PROVE  /\ RequestsGone \subseteq Requests
           /\ \A g \in RequestsGone : \E r \in requests : g.kind = r.kind
BY DEF RequestsGone, GoneFrom, Requests, Kinds

(***************************************************************************)
(* Screens and listeners.                                                  *)
(***************************************************************************)

Names == {"login", "register", "personal"}

\* Swiping away leaves the screens below.
LEMMA FrontKeeps ==
    ASSUME NEW s \in Seq(Names), NEW n \in Nat, Len(s) = n + 1
    PROVE  /\ Front(s) \in Seq(Names) /\ Len(Front(s)) = n
           /\ \A i \in 1..n : Front(s)[i] = s[i]
<1>1. Front(s) = SubSeq(s, 1, n)
  BY DEF Front
<1>2. \A i \in 1..n : s[i] \in Names
  OBVIOUS
<1>3. /\ SubSeq(s, 1, n) \in Seq(Names)
      /\ Len(SubSeq(s, 1, n)) = IF 1 <= n THEN n - 1 + 1 ELSE 0
      /\ \A i \in 1..(n - 1 + 1) : SubSeq(s, 1, n)[i] = s[1 + i - 1]
  <2>1. 1 \in Int /\ n \in Int
    OBVIOUS
  <2>2. QED
    BY <1>2, <2>1, SubSeqProperties
<1>4. QED
  BY <1>1, <1>3

\* Which screen is in front, and what swiping one away gives.
LEMMA SheetsInFront ==
    ASSUME NEW s \in Sheets
    PROVE  /\ s # <<>> /\ Last(s) = "login" => s = <<"login">>
           /\ s # <<>> /\ Last(s) = "register" => s = <<"login", "register">>
           /\ s # <<>> /\ Last(s) = "personal" <=> s = <<"login", "register", "personal">>
           /\ s # <<>> => Front(s) \in Sheets \ {<<"login", "register", "personal">>}
<1>1. CASE s = <<>>
  BY <1>1
<1>2. CASE s = <<"login">>
  <2>1. Last(s) = "login" /\ Front(s) = <<>> /\ s # <<>>
    BY <1>2 DEF Last, Front
  <2>2. QED
    BY <1>2, <2>1 DEF Sheets
<1>3. CASE s = <<"login", "register">>
  <2>1. s \in Seq(Names) /\ Len(s) = 2 /\ s[1] = "login" /\ s[2] = "register"
    BY <1>3 DEF Names
  <2>2. Last(s) = "register"
    BY <2>1 DEF Last
  <2>3. /\ Front(s) \in Seq(Names) /\ Len(Front(s)) = 1
        /\ Front(s)[1] = "login"
    <3>1. s \in Seq(Names) /\ 1 \in Nat /\ Len(s) = 1 + 1
      BY <2>1
    <3>2. /\ Front(s) \in Seq(Names) /\ Len(Front(s)) = 1
          /\ \A i \in 1..1 : Front(s)[i] = s[i]
      BY <3>1, FrontKeeps, Zenon
    <3>3. QED
      BY <2>1, <3>2
  <2>4. Front(s) = <<"login">>
    BY <2>3
  <2>5. QED
    BY <1>3, <2>2, <2>4 DEF Sheets
<1>4. CASE s = <<"login", "register", "personal">>
  <2>1. s \in Seq(Names) /\ Len(s) = 3 /\ s[1] = "login" /\ s[2] = "register" /\ s[3] = "personal"
    BY <1>4 DEF Names
  <2>2. Last(s) = "personal"
    BY <2>1 DEF Last
  <2>3. /\ Front(s) \in Seq(Names) /\ Len(Front(s)) = 2
        /\ Front(s)[1] = "login" /\ Front(s)[2] = "register"
    <3>1. s \in Seq(Names) /\ 2 \in Nat /\ Len(s) = 2 + 1
      BY <2>1
    <3>2. /\ Front(s) \in Seq(Names) /\ Len(Front(s)) = 2
          /\ \A i \in 1..2 : Front(s)[i] = s[i]
      BY <3>1, FrontKeeps, Zenon
    <3>3. QED
      BY <2>1, <3>2
  <2>4. Front(s) = <<"login", "register">>
    BY <2>3
  <2>5. QED
    BY <1>4, <2>2, <2>4 DEF Sheets
<1>5. QED
  BY <1>1, <1>2, <1>3, <1>4 DEF Sheets

\* Presenting a screen on the one in front.
LEMMA Presented ==
    /\ Append(<<"login">>, "register") = <<"login", "register">>
    /\ Append(<<"login", "register">>, "personal") = <<"login", "register", "personal">>
<1>1. ASSUME NEW s \in Seq(Names), NEW e \in Names
      PROVE  /\ Append(s, e) \in Seq(Names) /\ Len(Append(s, e)) = Len(s) + 1
             /\ \A i \in 1..Len(s) : Append(s, e)[i] = s[i]
             /\ Append(s, e)[Len(s) + 1] = e
  BY AppendProperties
<1>2. Append(<<"login">>, "register") = <<"login", "register">>
  <2> DEFINE s == <<"login">>
             t == Append(s, "register")
  <2>1. s \in Seq(Names) /\ Len(s) = 1 /\ s[1] = "login"
    BY DEF Names
  <2>2. "register" \in Names
    BY DEF Names
  <2> HIDE DEF s
  <2>3. /\ t \in Seq(Names) /\ Len(t) = Len(s) + 1
        /\ \A i \in 1..Len(s) : t[i] = s[i]
        /\ t[Len(s) + 1] = "register"
    BY <1>1, <2>1, <2>2, Zenon
  <2> HIDE DEF t
  <2>4. t = <<"login", "register">>
    BY <2>1, <2>3
  <2>5. QED
    BY <2>4 DEF s, t
<1>3. Append(<<"login", "register">>, "personal") = <<"login", "register", "personal">>
  <2> DEFINE s == <<"login", "register">>
             t == Append(s, "personal")
  <2>1. s \in Seq(Names) /\ Len(s) = 2 /\ s[1] = "login" /\ s[2] = "register"
    BY DEF Names
  <2>2. "personal" \in Names
    BY DEF Names
  <2> HIDE DEF s
  <2>3. /\ t \in Seq(Names) /\ Len(t) = Len(s) + 1
        /\ \A i \in 1..Len(s) : t[i] = s[i]
        /\ t[Len(s) + 1] = "personal"
    BY <1>1, <2>1, <2>2, Zenon
  <2> HIDE DEF t
  <2>4. t = <<"login", "register", "personal">>
    BY <2>1, <2>3
  <2>5. QED
    BY <2>4 DEF s, t
<1>4. QED
  BY <1>2, <1>3

\* What calling some listeners does.
LEMMA TellEffect ==
    ASSUME personal \in Seq(MaybeUser), authUser \in MaybeUser,
           NEW vcs \in SUBSET (DOMAIN personal), Tell(vcs)
    PROVE  /\ personal' \in Seq(MaybeUser)
           /\ Len(personal') = Len(personal) /\ DOMAIN personal' = DOMAIN personal
           /\ \A i \in DOMAIN personal :
                personal'[i] = IF i \in vcs THEN authUser ELSE personal[i]
           /\ \/ personal' = personal /\ uid' = uid /\ keychain' = keychain
              \/ /\ uid' = authUser /\ keychain' = authUser
                 /\ \E i \in DOMAIN personal : personal'[i] = authUser
<1>1. DOMAIN personal = 1..Len(personal) /\ Len(personal) \in Nat
  OBVIOUS
<1>2. personal' = [i \in 1..Len(personal) |-> IF i \in vcs THEN authUser ELSE personal[i]]
  BY DEF Tell
<1>3. /\ personal' \in Seq(MaybeUser)
      /\ Len(personal') = Len(personal) /\ DOMAIN personal' = DOMAIN personal
  BY <1>1, <1>2
<1>4. \A i \in DOMAIN personal : personal'[i] = IF i \in vcs THEN authUser ELSE personal[i]
  BY <1>1, <1>2
<1>5. CASE \E i \in vcs : personal[i] # authUser
  BY <1>3, <1>4, <1>5 DEF Tell
<1>6. CASE ~\E i \in vcs : personal[i] # authUser
  <2>1. \A i \in 1..Len(personal) : personal'[i] = personal[i]
    BY <1>1, <1>4, <1>6
  <2>2. personal' = personal
    BY <1>3, <2>1, SeqEqual
  <2>3. QED
    BY <1>3, <1>4, <1>6, <2>2 DEF Tell
<1>7. QED
  BY <1>5, <1>6

(***************************************************************************)
(* The inductive invariant holds initially and says what the properties    *)
(* say.                                                                    *)
(***************************************************************************)

LEMMA InitIInv == Init => IInv
<1> SUFFICES ASSUME Init PROVE IInv
  OBVIOUS
<1> USE DEF Init, Started
<1>1. TypeOK
  BY DEF TypeOK, MaybeUser, Sheets
<1>2. FirstInv /\ ListenerInv /\ UidInv
  BY DEF FirstInv, ListenerInv, UidInv
<1>3. NamesInv /\ SignedInInv
  BY DEF NamesInv, SignedInInv
<1>4. PersonalScreenAgrees
  <2>1. ~InFront("personal")
    BY SheetsInFront DEF InFront, Sheets
  <2>2. QED
    BY <2>1 DEF PersonalScreenAgrees
<1>5. ProfilesAreTheirOwners /\ TabIsTheKeychainUsers
  BY DEF ProfilesAreTheirOwners, TabIsTheKeychainUsers
<1>6. QED
  BY <1>1, <1>2, <1>3, <1>4, <1>5 DEF IInv

\* Listeners that have no call to come have all been told of the user.
LEMMA ToldListeners ==
    ASSUME IInv
    PROVE  UidFollowsAuth /\ OnlyProvedUsersAreNamed
<1>1. OnlyProvedUsersAreNamed
  BY DEF OnlyProvedUsersAreNamed, IInv, NamesInv, SignedInInv
<1>2. SUFFICES ASSUME personal # <<>>, \A i \in 1..Len(main) : main[i].block = "answer"
               PROVE  uid = authUser /\ \A i \in 1..Len(personal) : personal[i] = authUser
  BY <1>1 DEF UidFollowsAuth
<1>3. /\ main \in Seq(Blocks) /\ DOMAIN main = 1..Len(main)
      /\ personal \in Seq(MaybeUser) /\ DOMAIN personal = 1..Len(personal)
      /\ 1 \in DOMAIN personal
  BY <1>2 DEF IInv, TypeOK
<1>4. ASSUME NEW i \in DOMAIN personal
      PROVE  personal[i] = authUser
  <2>1. \A p \in DOMAIN main : main[p] # Notify /\ main[p] # First(i)
    BY <1>2, <1>3 DEF Notify, First
  <2>2. QED
    BY <2>1 DEF IInv, ListenerInv
<1>5. authUser # NoUser
  BY <1>2 DEF IInv, SignedInInv
<1>6. uid = authUser
  BY <1>3, <1>4, <1>5 DEF IInv, UidInv
<1>7. QED
  BY <1>3, <1>4, <1>6

(***************************************************************************)
(* One lemma per action: it preserves the inductive invariant.             *)
(***************************************************************************)

\* The process starts again: nothing is queued, asked or presented.
LEMMA RelaunchStep ==
    ASSUME IInv, Relaunch
    PROVE  IInv'
<1> USE DEF IInv, Relaunch
<1>1. TypeOK'
  <2>1. accounts' \subseteq Users
    BY DEF TypeOK, Requests
  <2>2. sheets' \in Sheets /\ main' = <<>> /\ personal' = <<>>
    BY DEF Sheets
  <2>3. {keychain', authUser', uid', tabUser'} \subseteq MaybeUser
    BY DEF TypeOK, MaybeUser
  <2>4. main' \in Seq(Blocks) /\ personal' \in Seq(MaybeUser)
    BY <2>2
  <2>5. base' \in {"root", "tabs"} /\ requests' \subseteq Requests
    OBVIOUS
  <2>6. profile' \in [Users -> MaybeUser] /\ accepted' \subseteq Users
    BY DEF TypeOK
  <2>7. QED
    BY <2>1, <2>2, <2>3, <2>4, <2>5, <2>6 DEF TypeOK
<1>2. NamesInv' /\ SignedInInv'
  BY DEF NamesInv, SignedInInv
<1>3. FirstInv' /\ ListenerInv' /\ UidInv'
  BY DEF FirstInv, ListenerInv, UidInv
<1>4. PersonalScreenAgrees'
  <2>1. sheets' \in Sheets /\ sheets' # <<"login", "register", "personal">>
    BY DEF Sheets
  <2>2. ~InFront("personal")'
    BY <2>1, SheetsInFront DEF InFront
  <2>3. QED
    BY <2>2 DEF PersonalScreenAgrees
<1>5. ProfilesAreTheirOwners' /\ TabIsTheKeychainUsers'
  BY DEF ProfilesAreTheirOwners, TabIsTheKeychainUsers
<1>6. QED
  BY <1>1, <1>2, <1>3, <1>4, <1>5

\* A request adds itself and nothing else.
LEMMA AskAdds ==
    ASSUME NEW kind \in {"login", "create"}, NEW u \in Users, TypeOK, Ask(kind, u)
    PROVE  \E id \in Ids :
             requests' = requests \cup {[id |-> id, kind |-> kind, user |-> u, live |-> TRUE]}
<1>1. FreeIds # {} /\ FreeIds \subseteq Ids
  BY DEF Ask, FreeIds
<1>2. (CHOOSE i \in FreeIds : TRUE) \in FreeIds
  BY <1>1
<1>3. QED
  BY <1>1, <1>2 DEF Ask

LEMMA AskStep ==
    ASSUME IInv, NEW kind \in {"login", "create"}, NEW u \in Users, Ask(kind, u),
           UNCHANGED <<server, identity, screens, main, personal>>
    PROVE  IInv'
<1>1. PICK id \in Ids :
        requests' = requests \cup {[id |-> id, kind |-> kind, user |-> u, live |-> TRUE]}
  BY AskAdds DEF IInv
<1>2. UNCHANGED <<accounts, profile, accepted, keychain, authUser, uid, tabUser,
                  base, sheets, main, personal>>
  BY DEF server, identity, screens
<1> USE DEF IInv
<1>3. TypeOK'
  <2>1. [id |-> id, kind |-> kind, user |-> u, live |-> TRUE] \in Requests
    BY DEF Requests, Kinds
  <2>2. requests' \subseteq Requests
    BY <1>1, <2>1 DEF TypeOK
  <2>3. QED
    BY <1>2, <2>2 DEF TypeOK
<1>4. NamesInv' /\ SignedInInv'
  BY <1>1, <1>2 DEF NamesInv, SignedInInv
<1>5. FirstInv' /\ ListenerInv' /\ UidInv'
  BY <1>2 DEF FirstInv, ListenerInv, UidInv, InFront
<1>6. PersonalScreenAgrees' /\ ProfilesAreTheirOwners' /\ TabIsTheKeychainUsers'
  BY <1>2 DEF PersonalScreenAgrees, ProfilesAreTheirOwners, TabIsTheKeychainUsers, InFront
<1>7. QED
  BY <1>3, <1>4, <1>5, <1>6

LEMMA OpenRegistrationStep ==
    ASSUME IInv, OpenRegistration
    PROVE  IInv'
<1>1. UNCHANGED <<accounts, profile, accepted, keychain, authUser, uid, tabUser,
                  base, requests, main, personal>>
  BY DEF OpenRegistration, server, identity
<1> USE DEF IInv
<1>2. sheets = <<"login">>
  BY SheetsInFront DEF OpenRegistration, TypeOK, InFront
<1>3. sheets' = <<"login", "register">>
  BY <1>2, Presented DEF OpenRegistration
<1>4. sheets' \in Sheets /\ ~InFront("personal") /\ ~InFront("personal")'
  <2>1. sheets \in Sheets /\ sheets' \in Sheets
    BY <1>2, <1>3 DEF Sheets
  <2>2. /\ sheets # <<"login", "register", "personal">>
        /\ sheets' # <<"login", "register", "personal">>
    BY <1>2, <1>3
  <2>3. QED
    BY <2>1, <2>2, SheetsInFront DEF InFront
<1>5. TypeOK'
  BY <1>1, <1>4 DEF TypeOK
<1>6. NamesInv' /\ SignedInInv'
  BY <1>1 DEF NamesInv, SignedInInv
<1>7. FirstInv' /\ ListenerInv' /\ UidInv'
  BY <1>1, <1>4 DEF FirstInv, ListenerInv, UidInv
<1>8. PersonalScreenAgrees' /\ ProfilesAreTheirOwners' /\ TabIsTheKeychainUsers'
  BY <1>1, <1>4 DEF PersonalScreenAgrees, ProfilesAreTheirOwners, TabIsTheKeychainUsers
<1>9. QED
  BY <1>5, <1>6, <1>7, <1>8

LEMMA LogoutStep ==
    ASSUME IInv, Logout
    PROVE  IInv'
<1>1. UNCHANGED <<accounts, profile, accepted, authUser, uid, tabUser,
                  base, requests, main, personal>>
  BY DEF Logout, server
<1> USE DEF IInv
<1>2. sheets = <<>> /\ sheets' = <<"login">> /\ keychain' = NoUser
  BY DEF Logout
<1>3. sheets' \in Sheets /\ ~InFront("personal") /\ ~InFront("personal")'
  <2>1. sheets' \in Sheets /\ sheets' # <<"login", "register", "personal">>
    BY <1>2 DEF Sheets
  <2>2. QED
    BY <1>2, <2>1, SheetsInFront DEF InFront
<1>4. TypeOK'
  BY <1>1, <1>2, <1>3 DEF TypeOK, MaybeUser
<1>5. NamesInv' /\ SignedInInv'
  BY <1>1, <1>2 DEF NamesInv, SignedInInv
<1>6. FirstInv' /\ ListenerInv' /\ UidInv'
  BY <1>1, <1>3 DEF FirstInv, ListenerInv, UidInv
<1>7. PersonalScreenAgrees' /\ ProfilesAreTheirOwners' /\ TabIsTheKeychainUsers'
  BY <1>1, <1>2, <1>3 DEF PersonalScreenAgrees, ProfilesAreTheirOwners, TabIsTheKeychainUsers
<1>8. QED
  BY <1>4, <1>5, <1>6, <1>7

\* Adding a block leaves the others where they are.
LEMMA QueueAppend ==
    ASSUME NEW q \in Seq(Blocks), NEW b \in Blocks
    PROVE  /\ Append(q, b) \in Seq(Blocks)
           /\ DOMAIN q = 1..Len(q) /\ Len(q) \in Nat
           /\ DOMAIN Append(q, b) = 1..(Len(q) + 1)
           /\ \A p \in DOMAIN q : p \in DOMAIN Append(q, b) /\ Append(q, b)[p] = q[p]
           /\ Len(q) + 1 \in DOMAIN Append(q, b) /\ Append(q, b)[Len(q) + 1] = b
           /\ \A p \in DOMAIN Append(q, b) : p \in DOMAIN q \/ p = Len(q) + 1
           /\ \A p \in DOMAIN Append(q, b) : 1..(p - 1) \subseteq DOMAIN q
<1>1. DOMAIN q = 1..Len(q) /\ Len(q) \in Nat
  OBVIOUS
<1>2. /\ Append(q, b) \in Seq(Blocks) /\ Len(Append(q, b)) = Len(q) + 1
      /\ \A p \in 1..Len(q) : Append(q, b)[p] = q[p]
      /\ Append(q, b)[Len(q) + 1] = b
  BY AppendProperties
<1>3. DOMAIN Append(q, b) = 1..(Len(q) + 1)
  BY <1>2
<1>4. QED
  BY <1>1, <1>2, <1>3

(* A sheet is swiped away.  No first call is queued when it is the         *)
(* personal information, and none of the answers can present one when it   *)
(* is the registration.                                                    *)
LEMMA SwipeAwayStep ==
    ASSUME IInv, SwipeAway
    PROVE  IInv'
<1>1. UNCHANGED <<accounts, profile, accepted, keychain, authUser, uid, tabUser,
                  base, personal>>
  BY DEF SwipeAway, server, identity
<1>2. /\ main \in Seq(Blocks) /\ requests \subseteq Requests
      /\ sheets \in Sheets /\ sheets # <<>>
  BY DEF IInv, TypeOK, SwipeAway
<1>3. sheets' \in Sheets /\ ~InFront("personal")'
  <2>1. sheets' \in Sheets /\ sheets' # <<"login", "register", "personal">>
    BY <1>2, SheetsInFront DEF SwipeAway
  <2>2. QED
    BY <2>1, SheetsInFront DEF InFront
<1>4. \/ requests' = requests /\ main' = main
      \/ requests' = RequestsGone /\ main' = QueueGone(main)
  BY DEF SwipeAway
<1>5. /\ requests' \subseteq Requests
      /\ \A g \in requests' : \E r \in requests : g.kind = r.kind
  BY <1>2, <1>4, RequestsGoneKeeps
<1>6. /\ main' \in Seq(Blocks) /\ DOMAIN main' = DOMAIN main
      /\ \A p \in DOMAIN main :
           /\ main'[p].block = main[p].block
           /\ main[p].block # "answer" => main'[p] = main[p]
           /\ main[p].block = "answer" =>
                /\ main'[p].ok = main[p].ok
                /\ main'[p].request.user = main[p].request.user
                /\ main'[p].request.kind = main[p].request.kind
  BY <1>2, <1>4, QueueGoneKeeps
<1> USE DEF IInv
<1>7. TypeOK'
  BY <1>1, <1>3, <1>5, <1>6 DEF TypeOK
<1>8. NamesInv'
  BY <1>1, <1>6 DEF NamesInv, Ok
<1>9. SignedInInv'
  BY <1>1, <1>5, <1>6 DEF SignedInInv
<1>10. FirstInv'
  <2>1. SUFFICES ASSUME NEW p \in DOMAIN main, main[p].block = "first"
                 PROVE  /\ main[p].vc = Len(personal)
                        /\ \A q \in 1..(p - 1) : ~Presents(main'[q])
    BY <1>1, <1>6 DEF FirstInv
  <2>2. main[p].vc = Len(personal)
    BY <2>1 DEF FirstInv
  <2>3. DOMAIN main = 1..Len(main) /\ Len(main) \in Nat
    BY <1>2
  <2>4. ~InFront("personal")
    <3>1. main[p] = First(Len(personal))
      BY <1>2, <2>1, <2>2, BlockKinds
    <3>2. Contains(main, First(Len(personal)))
      BY <2>3, <3>1 DEF Contains
    <3>3. QED
      BY <3>2 DEF SwipeAway, Presenting
  <2>5. \A q \in 1..(p - 1) : q \in DOMAIN main /\ ~Presents(main[q])
    BY <2>1, <2>3, <2>4 DEF FirstInv
  <2>6. QED
    BY <1>2, <1>4, <2>2, <2>5, QueueGoneKeeps
<1>11. ListenerInv'
  <2>1. \A i : First(i).block # "answer" /\ Notify.block # "answer"
    BY DEF First, Notify
  <2>2. QED
    BY <1>1, <1>6, <2>1 DEF ListenerInv
<1>12. UidInv' /\ PersonalScreenAgrees' /\ ProfilesAreTheirOwners' /\ TabIsTheKeychainUsers'
  BY <1>1, <1>3
  DEF UidInv, PersonalScreenAgrees, ProfilesAreTheirOwners, TabIsTheKeychainUsers
<1>13. QED
  BY <1>7, <1>8, <1>9, <1>10, <1>11, <1>12

\* The personal information is submitted, by its own user.
LEMMA SubmitStep ==
    ASSUME IInv, Submit
    PROVE  IInv'
<1>1. /\ UNCHANGED <<accounts, accepted, keychain, authUser, uid, personal>>
      /\ base' = "tabs" /\ sheets' = <<>> /\ tabUser' = keychain
      /\ requests' = RequestsGone /\ main' = QueueGone(main)
  BY DEF Submit, SegueToTabs
<1> USE DEF IInv
<1>2. main \in Seq(Blocks) /\ requests \subseteq Requests
  BY DEF TypeOK
<1>3. profile' = [profile EXCEPT ![uid] = uid] /\ uid \in Users
  <2>1. uid # NoUser /\ uid \in MaybeUser
    BY DEF Submit, TypeOK
  <2>2. QED
    BY <2>1 DEF Submit, PersonalScreenAgrees, MaybeUser
<1>4. ~InFront("personal")' /\ sheets' \in Sheets
  BY <1>1 DEF InFront, Sheets
<1>5. TypeOK'
  <2>1. main' \in Seq(Blocks) /\ requests' \subseteq Requests
    BY <1>1, <1>2, QueueGoneKeeps, RequestsGoneKeeps
  <2>2. profile' \in [Users -> MaybeUser]
    BY <1>3 DEF TypeOK, MaybeUser
  <2>3. QED
    BY <1>1, <1>4, <2>1, <2>2 DEF TypeOK
<1>6. NamesInv'
  BY <1>1, <1>2, QueueGoneKeeps DEF NamesInv, Ok
<1>7. SignedInInv'
  BY <1>1, <1>2, QueueGoneKeeps, RequestsGoneKeeps DEF SignedInInv
<1>8. FirstInv'
  <2>1. ASSUME NEW p \in DOMAIN main', main'[p].block = "first"
        PROVE  /\ main'[p].vc = Len(personal)
               /\ \A q \in 1..(p - 1) : ~Presents(main'[q])
    <3>1. p \in DOMAIN main /\ main[p] = main'[p]
      BY <1>1, <1>2, <2>1, QueueGoneKeeps
    <3>2. \A q \in 1..(p - 1) : q \in DOMAIN main
      BY <1>2, <3>1
    <3>3. QED
      BY <1>1, <1>2, <2>1, <3>1, <3>2, QueueGoneKeeps DEF FirstInv
  <2>2. QED
    BY <1>1, <2>1 DEF FirstInv
<1>9. ListenerInv'
  <2>1. \A i : First(i).block # "answer" /\ Notify.block # "answer"
    BY DEF First, Notify
  <2>2. QED
    BY <1>1, <1>2, <2>1, QueueGoneKeeps DEF ListenerInv
<1>10. UidInv' /\ PersonalScreenAgrees' /\ TabIsTheKeychainUsers'
  BY <1>1, <1>4 DEF UidInv, PersonalScreenAgrees, TabIsTheKeychainUsers
<1>11. ProfilesAreTheirOwners'
  BY <1>3 DEF ProfilesAreTheirOwners, TypeOK
<1>12. QED
  BY <1>5, <1>6, <1>7, <1>8, <1>9, <1>10, <1>11

\* Adding two blocks is adding one after the other.
LEMMA QueueAppendTwo ==
    ASSUME NEW q \in Seq(Blocks), NEW a \in Blocks, NEW b \in Blocks
    PROVE  q \o <<a, b>> = Append(Append(q, a), b)
<1> DEFINE two == <<a, b>>
           long == q \o two
           steps == Append(Append(q, a), b)
<1>1. /\ two \in Seq(Blocks) /\ Len(two) = 2 /\ two[1] = a /\ two[2] = b
      /\ Len(q) \in Nat
  OBVIOUS
<1> HIDE DEF two
<1>2. /\ long \in Seq(Blocks) /\ Len(long) = Len(q) + 2
      /\ \A i \in 1..(Len(q) + 2) :
           long[i] = IF i <= Len(q) THEN q[i] ELSE two[i - Len(q)]
  <2>1. /\ long \in Seq(Blocks) /\ Len(long) = Len(q) + Len(two)
        /\ \A i \in 1..(Len(q) + Len(two)) :
             long[i] = IF i <= Len(q) THEN q[i] ELSE two[i - Len(q)]
    BY <1>1, ConcatProperties, Zenon
  <2> HIDE DEF long
  <2>2. QED
    BY <1>1, <2>1
<1>3. /\ Append(q, a) \in Seq(Blocks) /\ Len(Append(q, a)) = Len(q) + 1
      /\ \A i \in 1..Len(q) : Append(q, a)[i] = q[i]
      /\ Append(q, a)[Len(q) + 1] = a
  BY AppendProperties
<1>4. /\ steps \in Seq(Blocks) /\ Len(steps) = Len(q) + 2
      /\ \A i \in 1..(Len(q) + 1) : steps[i] = Append(q, a)[i]
      /\ steps[Len(q) + 2] = b
  BY <1>1, <1>3, AppendProperties
<1>5. ASSUME NEW i \in 1..Len(long)
      PROVE  long[i] = steps[i]
  <2>1. CASE i \in 1..Len(q)
    BY <1>1, <1>2, <1>3, <1>4, <2>1
  <2>2. CASE i = Len(q) + 1
    BY <1>1, <1>2, <1>3, <1>4, <2>2
  <2>3. CASE i = Len(q) + 2
    BY <1>1, <1>2, <1>3, <1>4, <2>3
  <2>4. QED
    BY <1>1, <1>2, <2>1, <2>2, <2>3
<1> HIDE DEF long, steps
<1>6. Len(long) = Len(steps)
  BY <1>2, <1>4
<1>7. long = steps
  BY <1>2, <1>4, <1>5, <1>6, SeqEqual
<1>8. QED
  BY <1>7 DEF long, steps, two

(* An answer succeeds: every listener is behind for a moment, and has the  *)
(* notification to come.                                                   *)
LEMMA SucceedsStep ==
    ASSUME IInv, NEW r \in requests, Succeeds(r)
    PROVE  IInv'
<1> DEFINE last == Answer(r, TRUE)
           told == Append(main, Notify)
<1>1. /\ UNCHANGED <<profile, keychain, uid, tabUser, base, sheets, personal>>
      /\ authUser' = r.user /\ accepted' = accepted \cup {r.user}
      /\ requests' = requests \ {r}
      /\ main' = main \o <<Notify, last>>
      /\ accounts' = accounts \/ accounts' = accounts \cup {r.user}
  BY DEF Succeeds, screens
<1> USE DEF IInv
<1>2. /\ main \in Seq(Blocks) /\ r \in Requests /\ requests \subseteq Requests
      /\ r.user \in Users
  BY DEF TypeOK, Requests
<1>3. /\ last \in Blocks /\ Notify \in Blocks
      /\ last.block = "answer" /\ last.request = r /\ last.ok = TRUE
      /\ Notify.block = "notify"
  BY <1>2, NewBlocks
<1> HIDE DEF last
<1>4. main' = Append(told, last)
  BY <1>1, <1>2, <1>3, QueueAppendTwo
<1>5. /\ told \in Seq(Blocks) /\ DOMAIN main = 1..Len(main) /\ Len(main) \in Nat
      /\ Len(told) = Len(main) + 1 /\ told[Len(told)] = Notify
      /\ \A p \in DOMAIN main : p \in DOMAIN told /\ told[p] = main[p]
      /\ \A p \in DOMAIN told : p \in DOMAIN main \/ p = Len(told)
  BY <1>2, <1>3, QueueAppend
<1>6. /\ main' \in Seq(Blocks)
      /\ \A p \in DOMAIN told : p \in DOMAIN main' /\ main'[p] = told[p]
      /\ \A p \in DOMAIN main' : p \in DOMAIN told \/ main'[p] = last
  BY <1>3, <1>4, <1>5, QueueAppend
<1>7. /\ \A p \in DOMAIN main : p \in DOMAIN main' /\ main'[p] = main[p]
      /\ \A p \in DOMAIN main' : p \in DOMAIN main \/ main'[p] \in {Notify, last}
      /\ \E p \in DOMAIN main' : main'[p] = Notify
  <2>1. Len(told) \in DOMAIN told
    BY <1>5
  <2>2. QED
    BY <1>5, <1>6, <2>1
<1> HIDE DEF told
<1>8. r.user # NoUser
  BY <1>2, NoUserAssumption
<1>9. TypeOK'
  <2>1. {keychain', authUser', uid', tabUser'} \subseteq MaybeUser
    BY <1>1, <1>2 DEF TypeOK, MaybeUser
  <2>2. QED
    BY <1>1, <1>2, <1>6, <2>1 DEF TypeOK
<1>10. NamesInv'
  BY <1>1, <1>3, <1>7 DEF NamesInv, Ok
<1>11. SignedInInv'
  BY <1>1, <1>8 DEF SignedInInv
<1>12. FirstInv'
  <2>1. SUFFICES ASSUME NEW p \in DOMAIN main', main'[p].block = "first"
                 PROVE  /\ main'[p].vc = Len(personal)
                        /\ InFront("personal") \/ \A q \in 1..(p - 1) : ~Presents(main'[q])
    BY <1>1 DEF FirstInv, InFront
  <2>2. p \in DOMAIN main /\ main'[p] = main[p]
    BY <1>3, <1>7, <2>1
  <2>3. \A q \in 1..(p - 1) : q \in DOMAIN main /\ main'[q] = main[q]
    BY <1>5, <1>7, <2>2
  <2>4. QED
    BY <2>1, <2>2, <2>3 DEF FirstInv, Presents
<1>13. ListenerInv'
  BY <1>7 DEF ListenerInv
<1>14. UidInv' /\ PersonalScreenAgrees' /\ ProfilesAreTheirOwners' /\ TabIsTheKeychainUsers'
  BY <1>1
  DEF UidInv, PersonalScreenAgrees, ProfilesAreTheirOwners, TabIsTheKeychainUsers, InFront
<1>15. QED
  BY <1>9, <1>10, <1>11, <1>12, <1>13, <1>14

\* An answer fails: it is queued, and nobody is signed in.
LEMMA FailsStep ==
    ASSUME IInv, NEW r \in requests, Fails(r)
    PROVE  IInv'
<1> DEFINE last == Answer(r, FALSE)
<1>1. /\ UNCHANGED <<profile, accepted, keychain, authUser, uid, tabUser,
                     base, sheets, personal>>
      /\ requests' = requests \ {r}
      /\ main' = Append(main, last)
      /\ accounts' = accounts \/ accounts' = accounts \cup {r.user}
  BY DEF Fails, screens, identity
<1> USE DEF IInv
<1>2. /\ main \in Seq(Blocks) /\ r \in Requests /\ requests \subseteq Requests
      /\ r.user \in Users
  BY DEF TypeOK, Requests
<1>3. /\ last \in Blocks
      /\ last.block = "answer" /\ last.request = r /\ last.ok = FALSE
  BY <1>2, NewBlocks
<1> HIDE DEF last
<1>4. /\ main' \in Seq(Blocks) /\ DOMAIN main = 1..Len(main) /\ Len(main) \in Nat
      /\ \A p \in DOMAIN main : p \in DOMAIN main' /\ main'[p] = main[p]
      /\ \A p \in DOMAIN main' : p \in DOMAIN main \/ main'[p] = last
  BY <1>1, <1>2, <1>3, QueueAppend
<1>5. TypeOK'
  BY <1>1, <1>2, <1>4 DEF TypeOK
<1>6. NamesInv'
  BY <1>1, <1>3, <1>4 DEF NamesInv, Ok
<1>7. SignedInInv'
  BY <1>1, <1>3, <1>4 DEF SignedInInv
<1>8. FirstInv'
  <2>1. SUFFICES ASSUME NEW p \in DOMAIN main', main'[p].block = "first"
                 PROVE  /\ main'[p].vc = Len(personal)
                        /\ InFront("personal") \/ \A q \in 1..(p - 1) : ~Presents(main'[q])
    BY <1>1 DEF FirstInv, InFront
  <2>2. p \in DOMAIN main /\ main'[p] = main[p]
    BY <1>3, <1>4, <2>1
  <2>3. \A q \in 1..(p - 1) : q \in DOMAIN main /\ main'[q] = main[q]
    BY <1>4, <2>2
  <2>4. QED
    BY <2>1, <2>2, <2>3 DEF FirstInv, Presents
<1>9. ListenerInv'
  BY <1>1, <1>4 DEF ListenerInv
<1>10. UidInv' /\ PersonalScreenAgrees' /\ ProfilesAreTheirOwners' /\ TabIsTheKeychainUsers'
  BY <1>1
  DEF UidInv, PersonalScreenAgrees, ProfilesAreTheirOwners, TabIsTheKeychainUsers, InFront
<1>11. QED
  BY <1>5, <1>6, <1>7, <1>8, <1>9, <1>10

(* Running a block that presents nothing moves the first calls up, still   *)
(* before the answers that could present another screen.                   *)
LEMMA FirstCallsMoveUp ==
    ASSUME TypeOK, FirstInv, main # <<>>, main' = Tail(main),
           Len(personal') = Len(personal), sheets' = sheets
    PROVE  FirstInv'
<1>1. main \in Seq(Blocks)
  BY DEF TypeOK
<1>2. ASSUME NEW p \in DOMAIN main', main'[p].block = "first"
      PROVE  /\ main'[p].vc = Len(personal)
             /\ InFront("personal") \/ \A q \in 1..(p - 1) : ~Presents(main'[q])
  <2>1. p \in Nat /\ p + 1 \in DOMAIN main /\ main'[p] = main[p + 1]
    BY <1>1, <1>2, TailShifts
  <2>2. /\ main[p + 1].vc = Len(personal)
        /\ InFront("personal") \/ \A q \in 1..(p + 1 - 1) : ~Presents(main[q])
    BY <1>2, <2>1 DEF FirstInv
  <2>3. \A q \in 1..(p - 1) : q \in DOMAIN main' /\ q + 1 \in 1..(p + 1 - 1)
    BY <1>1, <1>2, <2>1, TailShifts
  <2>4. \A q \in 1..(p - 1) : main'[q] = main[q + 1]
    BY <1>1, <2>3, TailShifts
  <2>5. QED
    BY <2>1, <2>2, <2>3, <2>4
<1>3. QED
  BY <1>2 DEF FirstInv, InFront

\* What every handler of the main queue finds of the blocks left.
LEMMA BlocksLeft ==
    ASSUME TypeOK, main # <<>>
    PROVE  /\ main[1] \in Blocks /\ Head(main) = main[1] /\ 1 \in DOMAIN main
           /\ Tail(main) \in Seq(Blocks)
           /\ \A p \in DOMAIN Tail(main) :
                \E q \in DOMAIN main : Tail(main)[p] = main[q]
           /\ \A q \in DOMAIN main :
                q = 1 \/ \E p \in DOMAIN Tail(main) : Tail(main)[p] = main[q]
<1>1. main \in Seq(Blocks)
  BY DEF TypeOK
<1>2. QED
  BY <1>1, TailShifts

(* Listeners are called: each is brought in line with the current user,    *)
(* and the uid and the keychain with them if one was behind.               *)
LEMMA TellStep ==
    ASSUME IInv, main # <<>>, NEW vcs \in SUBSET (DOMAIN personal), Tell(vcs),
           personal # <<>> => Len(personal) \in vcs,
           \A i \in DOMAIN personal \ vcs : main[1] # Notify /\ main[1] # First(i),
           main' = Tail(main),
           UNCHANGED <<server, authUser, tabUser, screens, requests>>
    PROVE  IInv'
<1> USE DEF IInv
<1>1. UNCHANGED <<accounts, profile, accepted, authUser, tabUser, base, sheets, requests>>
  BY DEF server, screens
<1>2. /\ personal \in Seq(MaybeUser) /\ authUser \in MaybeUser
      /\ DOMAIN personal = 1..Len(personal) /\ Len(personal) \in Nat
      /\ Len(personal) = 0 <=> personal = <<>>
  BY DEF TypeOK
<1>3. /\ personal' \in Seq(MaybeUser)
      /\ Len(personal') = Len(personal) /\ DOMAIN personal' = DOMAIN personal
      /\ \A i \in DOMAIN personal :
           personal'[i] = IF i \in vcs THEN authUser ELSE personal[i]
      /\ \/ personal' = personal /\ uid' = uid /\ keychain' = keychain
         \/ /\ uid' = authUser /\ keychain' = authUser
            /\ \E i \in DOMAIN personal : personal'[i] = authUser
  BY <1>2, TellEffect
<1>4. personal' = <<>> <=> personal = <<>>
  BY <1>2, <1>3
<1>5. personal # <<>> => authUser # NoUser
  BY DEF SignedInInv
<1>6. /\ main' \in Seq(Blocks)
      /\ \A p \in DOMAIN main' : \E q \in DOMAIN main : main'[p] = main[q]
      /\ \A q \in DOMAIN main : q = 1 \/ \E p \in DOMAIN main' : main'[p] = main[q]
  BY BlocksLeft
<1>7. TypeOK'
  BY <1>1, <1>3, <1>6 DEF TypeOK
<1>8. NamesInv'
  <2>1. \A p \in DOMAIN main' : Ok(main'[p]) => main'[p].request.user \in accepted
    BY <1>6 DEF NamesInv, Ok
  <2>2. \A i \in DOMAIN personal' : personal'[i] \in accepted \cup {NoUser}
    BY <1>3 DEF NamesInv
  <2>3. QED
    BY <1>1, <1>3, <2>1, <2>2 DEF NamesInv
<1>9. SignedInInv'
  <2>1. SUFFICES ASSUME authUser = NoUser
                 PROVE  /\ keychain' = NoUser /\ personal' = <<>>
                        /\ \A r \in requests : r.kind # "signIn"
                        /\ \A p \in DOMAIN main' : main'[p].block = "answer" =>
                             main'[p].request.kind # "signIn" /\ ~main'[p].ok
    BY <1>1 DEF SignedInInv
  <2>2. personal = <<>> /\ DOMAIN personal = {}
    BY <1>2, <2>1 DEF SignedInInv
  <2>3. QED
    BY <1>3, <1>4, <1>6, <2>1, <2>2 DEF SignedInInv
<1>10. FirstInv'
  BY <1>1, <1>3, FirstCallsMoveUp
<1>11. ListenerInv'
  <2>1. SUFFICES ASSUME NEW i \in DOMAIN personal, personal'[i] # authUser
                 PROVE  \E p \in DOMAIN main' : main'[p] = Notify \/ main'[p] = First(i)
    BY <1>1, <1>3 DEF ListenerInv
  <2>2. i \notin vcs /\ personal[i] # authUser
    BY <1>3, <2>1
  <2>3. PICK q \in DOMAIN main : main[q] = Notify \/ main[q] = First(i)
    BY <2>2 DEF ListenerInv
  <2>4. q # 1
    BY <2>2, <2>3
  <2>5. QED
    BY <1>6, <2>3, <2>4
<1>12. UidInv'
  <2>1. CASE personal' = personal /\ uid' = uid
    BY <2>1 DEF UidInv
  <2>2. CASE uid' = authUser /\ \E i \in DOMAIN personal : personal'[i] = authUser
    <3>1. authUser # NoUser
      BY <1>2, <1>5, <2>2
    <3>2. QED
      BY <1>3, <2>2, <3>1 DEF UidInv
  <2>3. QED
    BY <1>3, <2>1, <2>2
<1>13. PersonalScreenAgrees'
  <2>1. CASE personal' = personal /\ uid' = uid /\ keychain' = keychain
    BY <1>1, <2>1 DEF PersonalScreenAgrees, InFront
  <2>2. CASE /\ uid' = authUser /\ keychain' = authUser
             /\ \E i \in DOMAIN personal : personal'[i] = authUser
    <3>1. Len(personal) \in vcs
      BY <1>2, <2>2
    <3>2. Last(personal') = authUser
      BY <1>3, <3>1 DEF Last
    <3>3. QED
      BY <2>2, <3>2 DEF PersonalScreenAgrees
  <2>3. QED
    BY <1>3, <2>1, <2>2
<1>14. ProfilesAreTheirOwners'
  BY <1>1 DEF ProfilesAreTheirOwners
<1>15. TabIsTheKeychainUsers'
  <2>1. personal = <<>> => keychain' = keychain
    BY <1>2, <1>3
  <2>2. QED
    BY <1>1, <1>4, <2>1 DEF TabIsTheKeychainUsers
<1>16. QED
  BY <1>7, <1>8, <1>9, <1>10, <1>11, <1>12, <1>13, <1>14, <1>15

\* A notification reaches every listener.
LEMMA RunNotificationStep ==
    ASSUME IInv, RunNotification
    PROVE  IInv'
<1>1. /\ personal \in Seq(MaybeUser)
      /\ DOMAIN personal = 1..Len(personal) /\ Len(personal) \in Nat
      /\ personal # <<>> => Len(personal) \in 1..Len(personal)
  BY DEF IInv, TypeOK
<1> DEFINE vcs == 1..Len(personal)
<1>2. /\ main # <<>> /\ Tell(vcs) /\ main' = Tail(main)
      /\ UNCHANGED <<server, authUser, tabUser, screens, requests>>
  BY DEF RunNotification, NextBlock
<1>3. vcs \in SUBSET (DOMAIN personal) /\ DOMAIN personal \ vcs = {}
  BY <1>1
<1> HIDE DEF vcs
<1>4. personal # <<>> => Len(personal) \in vcs
  BY <1>1 DEF vcs
<1>5. QED
  BY <1>2, <1>3, <1>4, TellStep

\* A first call reaches the listener of the last screen only.
LEMMA RunFirstCallStep ==
    ASSUME IInv, RunFirstCall
    PROVE  IInv'
<1> DEFINE vcs == {Head(main).vc}
<1>1. /\ main # <<>> /\ Head(main).block = "first" /\ Tell(vcs) /\ main' = Tail(main)
      /\ UNCHANGED <<server, authUser, tabUser, screens, requests>>
  BY DEF RunFirstCall, NextBlock
<1>2. main[1] \in Blocks /\ Head(main) = main[1] /\ 1 \in DOMAIN main
  BY <1>1, BlocksLeft DEF IInv
<1>3. main[1].vc \in Nat \ {0} /\ main[1] = First(main[1].vc) /\ main[1] # Notify
  BY <1>1, <1>2, BlockKinds
<1>4. main[1].vc = Len(personal) /\ vcs = {Len(personal)}
  BY <1>1, <1>2 DEF IInv, FirstInv
<1>5. DOMAIN personal = 1..Len(personal) /\ Len(personal) \in Nat
  BY DEF IInv, TypeOK
<1>6. vcs \in SUBSET (DOMAIN personal) /\ Len(personal) \in vcs
  BY <1>3, <1>4, <1>5
<1>7. \A i \in DOMAIN personal \ vcs : main[1] # Notify /\ main[1] # First(i)
  BY <1>3, <1>4, <1>5 DEF First
<1> HIDE DEF vcs
<1>8. QED
  BY <1>1, <1>6, <1>7, TellStep

(* An answer is handled that changes no more than the requests: it may     *)
(* have sent the second sign-in, of somebody who is signed in.             *)
LEMMA AnswerHandledStep ==
    ASSUME IInv, main # <<>>, main[1].block = "answer", main' = Tail(main),
           requests' \subseteq Requests,
           authUser = NoUser => \A r \in requests' : r.kind # "signIn",
           UNCHANGED <<server, identity, screens, personal>>
    PROVE  IInv'
<1> USE DEF IInv
<1>1. UNCHANGED <<accounts, profile, accepted, keychain, authUser, uid, tabUser,
                  base, sheets, personal>>
  BY DEF server, identity, screens
<1>2. /\ main' \in Seq(Blocks)
      /\ \A p \in DOMAIN main' : \E q \in DOMAIN main : main'[p] = main[q]
      /\ \A q \in DOMAIN main : q = 1 \/ \E p \in DOMAIN main' : main'[p] = main[q]
  BY BlocksLeft
<1>3. TypeOK'
  BY <1>1, <1>2 DEF TypeOK
<1>4. NamesInv'
  BY <1>1, <1>2 DEF NamesInv, Ok
<1>5. SignedInInv'
  BY <1>1, <1>2 DEF SignedInInv
<1>6. FirstInv'
  BY <1>1, FirstCallsMoveUp
<1>7. ListenerInv'
  <2>1. \A i : main[1] # Notify /\ main[1] # First(i)
    BY DEF Notify, First
  <2>2. QED
    BY <1>1, <1>2, <2>1 DEF ListenerInv
<1>8. UidInv' /\ PersonalScreenAgrees' /\ ProfilesAreTheirOwners' /\ TabIsTheKeychainUsers'
  BY <1>1
  DEF UidInv, PersonalScreenAgrees, ProfilesAreTheirOwners, TabIsTheKeychainUsers, InFront
<1>9. QED
  BY <1>3, <1>4, <1>5, <1>6, <1>7, <1>8

\* What an answer at the head of the main queue carries.
LEMMA AnswerFacts ==
    ASSUME TypeOK, NEW kind, NextAnswer(kind)
    PROVE  /\ main # <<>> /\ Head(main) = main[1] /\ 1 \in DOMAIN main
           /\ main[1].block = "answer" /\ main[1].request \in Requests
           /\ main[1].request.kind = kind /\ main[1].ok \in BOOLEAN
           /\ main[1].request.user \in Users
<1>1. main # <<>> /\ Head(main).block = "answer" /\ Head(main).request.kind = kind
  BY DEF NextAnswer, NextBlock
<1>2. main[1] \in Blocks /\ Head(main) = main[1] /\ 1 \in DOMAIN main
  BY <1>1, BlocksLeft
<1>3. main[1].request \in Requests /\ main[1].ok \in BOOLEAN
  BY <1>1, <1>2, BlockKinds
<1>4. QED
  BY <1>1, <1>2, <1>3 DEF Requests

LEMMA RunCreateAnswerStep ==
    ASSUME IInv, RunCreateAnswer
    PROVE  IInv'
<1>1. /\ main # <<>> /\ Head(main) = main[1] /\ 1 \in DOMAIN main
      /\ main[1].block = "answer" /\ main[1].request \in Requests
  BY AnswerFacts DEF IInv, RunCreateAnswer
<1> DEFINE again == [main[1].request EXCEPT !.kind = "signIn"]
<1>2. /\ main' = Tail(main)
      /\ UNCHANGED <<server, identity, screens, personal>>
      /\ \/ requests' = requests
         \/ main[1].ok /\ requests' = requests \cup {again}
  BY <1>1 DEF RunCreateAnswer
<1>3. again \in Requests
  BY <1>1 DEF Requests, Kinds
<1> HIDE DEF again
<1>4. requests' \subseteq Requests
  BY <1>2, <1>3 DEF IInv, TypeOK
<1>5. authUser = NoUser => \A r \in requests' : r.kind # "signIn"
  BY <1>1, <1>2 DEF IInv, SignedInInv
<1>6. QED
  BY <1>1, <1>2, <1>4, <1>5, AnswerHandledStep

\* Nothing can be presented behind the tab bar.
LEMMA RunLoginAnswerStep ==
    ASSUME IInv, RunLoginAnswer
    PROVE  IInv'
<1> USE DEF IInv
<1>1. /\ main # <<>> /\ Head(main) = main[1] /\ 1 \in DOMAIN main
      /\ main[1].block = "answer" /\ main[1].request.user \in Users
  BY AnswerFacts DEF RunLoginAnswer
<1>2. CASE ~main[1].ok
  <2>1. /\ main' = Tail(main) /\ UNCHANGED requests
        /\ UNCHANGED <<server, identity, screens, personal>>
    BY <1>1, <1>2 DEF RunLoginAnswer, identity
  <2>2. requests' \subseteq Requests
    BY <2>1 DEF TypeOK
  <2>3. authUser = NoUser => \A r \in requests' : r.kind # "signIn"
    BY <2>1 DEF SignedInInv
  <2>4. QED
    BY <1>1, <2>1, <2>2, <2>3, AnswerHandledStep
<1>3. CASE main[1].ok
  <2> DEFINE left == Tail(main)
             user == main[1].request.user
  <2>1. /\ UNCHANGED <<accounts, profile, accepted, authUser, uid, personal>>
        /\ keychain' = user /\ tabUser' = user
        /\ base' = "tabs" /\ sheets' = <<>>
        /\ requests' = RequestsGone /\ main' = QueueGone(left)
    BY <1>1, <1>3 DEF RunLoginAnswer, SegueToTabs, server
  <2>2. user \in Users /\ user \in accepted /\ authUser # NoUser
    BY <1>1, <1>3 DEF NamesInv, Ok, SignedInInv
  <2> HIDE DEF user
  <2>3. /\ left \in Seq(Blocks) /\ DOMAIN left = 1..Len(left) /\ Len(left) \in Nat
        /\ \A p \in DOMAIN left : \E q \in DOMAIN main : left[p] = main[q]
        /\ \A q \in DOMAIN main : q = 1 \/ \E p \in DOMAIN left : left[p] = main[q]
    BY <1>1, BlocksLeft
  <2> HIDE DEF left
  <2>4. /\ main' \in Seq(Blocks) /\ DOMAIN main' = DOMAIN left
        /\ \A p \in DOMAIN left :
             /\ main'[p].block = left[p].block
             /\ left[p].block # "answer" => main'[p] = left[p]
             /\ left[p].block = "answer" =>
                  /\ main'[p].ok = left[p].ok
                  /\ main'[p].request.user = left[p].request.user
             /\ ~Presents(main'[p])
    BY <2>1, <2>3, QueueGoneKeeps
  <2>5. ~InFront("personal")' /\ sheets' \in Sheets
    BY <2>1 DEF InFront, Sheets
  <2>6. TypeOK'
    <3>1. requests' \subseteq Requests
      BY <2>1, RequestsGoneKeeps DEF TypeOK
    <3>2. {keychain', authUser', uid', tabUser'} \subseteq MaybeUser
      BY <2>1, <2>2 DEF TypeOK, MaybeUser
    <3>3. QED
      BY <2>1, <2>4, <2>5, <3>1, <3>2 DEF TypeOK
  <2>7. NamesInv'
    <3>1. ASSUME NEW p \in DOMAIN main', Ok(main'[p])
          PROVE  main'[p].request.user \in accepted
      <4>1. Ok(left[p]) /\ main'[p].request.user = left[p].request.user
        BY <2>4, <3>1 DEF Ok
      <4>2. QED
        BY <2>3, <2>4, <3>1, <4>1 DEF NamesInv
    <3>2. QED
      BY <2>1, <2>2, <3>1 DEF NamesInv
  <2>8. SignedInInv'
    BY <2>1, <2>2 DEF SignedInInv
  <2>9. FirstInv'
    <3>1. ASSUME NEW p \in DOMAIN main', main'[p].block = "first"
          PROVE  main'[p].vc = Len(personal) /\ \A q \in 1..(p - 1) : ~Presents(main'[q])
      <4>1. p \in DOMAIN left /\ main'[p] = left[p] /\ 1..(p - 1) \subseteq DOMAIN left
        BY <2>3, <2>4, <3>1
      <4>2. QED
        BY <2>3, <2>4, <3>1, <4>1 DEF FirstInv
    <3>2. QED
      BY <2>1, <3>1 DEF FirstInv
  <2>10. ListenerInv'
    <3>1. ASSUME NEW i \in DOMAIN personal, personal[i] # authUser
          PROVE  \E p \in DOMAIN main' : main'[p] = Notify \/ main'[p] = First(i)
      <4>1. First(i).block # "answer" /\ Notify.block # "answer"
        BY DEF First, Notify
      <4>2. PICK q \in DOMAIN main : main[q] = Notify \/ main[q] = First(i)
        BY <3>1 DEF ListenerInv
      <4>3. PICK p \in DOMAIN left : left[p] = main[q]
        BY <1>1, <2>3, <4>1, <4>2
      <4>4. QED
        BY <2>4, <4>1, <4>2, <4>3
    <3>2. QED
      BY <2>1, <3>1 DEF ListenerInv
  <2>11. UidInv' /\ PersonalScreenAgrees' /\ ProfilesAreTheirOwners' /\ TabIsTheKeychainUsers'
    BY <2>1, <2>5
    DEF UidInv, PersonalScreenAgrees, ProfilesAreTheirOwners, TabIsTheKeychainUsers
  <2>12. QED
    BY <2>6, <2>7, <2>8, <2>9, <2>10, <2>11
<1>4. QED
  BY <1>2, <1>3

(* The personal information comes up: no first call is left in the queue,  *)
(* because this answer was before it, and the new screen's is put last.    *)
LEMMA RunSignInAnswerStep ==
    ASSUME IInv, RunSignInAnswer
    PROVE  IInv'
<1> USE DEF IInv
<1>1. /\ main # <<>> /\ Head(main) = main[1] /\ 1 \in DOMAIN main
      /\ main[1].block = "answer" /\ main[1].request.kind = "signIn"
  BY AnswerFacts DEF RunSignInAnswer
<1>2. UNCHANGED <<server, identity, base, requests>>
  BY DEF RunSignInAnswer
<1>3. authUser # NoUser
  BY <1>1 DEF SignedInInv
<1>4. CASE ~(main[1].request.live /\ InFront("register"))
  <2>1. main' = Tail(main) /\ UNCHANGED <<server, identity, screens, personal>>
    BY <1>1, <1>2, <1>4 DEF RunSignInAnswer, screens
  <2>2. requests' \subseteq Requests
    BY <1>2 DEF TypeOK
  <2>3. QED
    BY <1>1, <1>3, <2>1, <2>2, AnswerHandledStep
<1>5. CASE main[1].request.live /\ InFront("register")
  <2> DEFINE left == Tail(main)
             n == Len(personal) + 1
             call == First(n)
  <2>1. /\ UNCHANGED <<accounts, profile, accepted, keychain, authUser, uid, tabUser,
                       base, requests>>
        /\ sheets' = Append(sheets, "personal")
        /\ personal' = Append(personal, NoUser)
        /\ main' = Append(left, call)
    BY <1>1, <1>5 DEF RunSignInAnswer, server, identity
  <2>2. /\ sheets = <<"login", "register">> /\ sheets' = <<"login", "register", "personal">>
        /\ ~InFront("personal") /\ InFront("personal")' /\ sheets' \in Sheets
    <3>1. sheets \in Sheets /\ sheets = <<"login", "register">>
      BY <1>5, SheetsInFront DEF TypeOK, InFront
    <3>2. sheets' = <<"login", "register", "personal">>
      BY <2>1, <3>1, Presented
    <3>3. sheets' \in Sheets /\ sheets # <<"login", "register", "personal">>
      BY <3>1, <3>2 DEF Sheets
    <3>4. QED
      BY <3>1, <3>2, <3>3, SheetsInFront DEF InFront
  <2>3. /\ personal' \in Seq(MaybeUser) /\ n \in Nat \ {0} /\ Len(personal') = n
        /\ DOMAIN personal = 1..Len(personal) /\ DOMAIN personal' = 1..n
        /\ \A i \in DOMAIN personal : i \in DOMAIN personal' /\ personal'[i] = personal[i]
        /\ personal'[n] = NoUser
        /\ \A i \in DOMAIN personal' : i \in DOMAIN personal \/ i = n
    <3>1. personal \in Seq(MaybeUser) /\ NoUser \in MaybeUser
      BY DEF TypeOK, MaybeUser
    <3>2. QED
      BY <2>1, <3>1, AppendProperties
  <2>4. call \in Blocks /\ call.block = "first" /\ call.vc = n
    BY <2>3, NewBlocks
  <2>5. /\ left \in Seq(Blocks)
        /\ \A p \in DOMAIN left : \E q \in DOMAIN main : left[p] = main[q]
        /\ \A q \in DOMAIN main : q = 1 \/ \E p \in DOMAIN left : left[p] = main[q]
    BY <1>1, BlocksLeft
  <2> HIDE DEF left, n, call
  <2>6. /\ main' \in Seq(Blocks)
        /\ \A p \in DOMAIN left : p \in DOMAIN main' /\ main'[p] = left[p]
        /\ \A p \in DOMAIN main' : p \in DOMAIN left \/ main'[p] = call
        /\ \E p \in DOMAIN main' : main'[p] = call
    BY <2>1, <2>4, <2>5, QueueAppend
  <2>7. TypeOK'
    BY <2>1, <2>2, <2>3, <2>6 DEF TypeOK
  <2>8. NamesInv'
    <3>1. \A p \in DOMAIN main' : Ok(main'[p]) => main'[p].request.user \in accepted
      BY <2>4, <2>5, <2>6 DEF NamesInv, Ok
    <3>2. \A i \in DOMAIN personal' : personal'[i] \in accepted \cup {NoUser}
      BY <2>3 DEF NamesInv
    <3>3. QED
      BY <2>1, <3>1, <3>2 DEF NamesInv
  <2>9. SignedInInv'
    BY <1>3, <2>1 DEF SignedInInv
  <2>10. FirstInv'
    <3>1. ASSUME NEW q \in DOMAIN main
          PROVE  main[q].block # "first"
      <4>1. SUFFICES ASSUME main[q].block = "first" PROVE FALSE
        OBVIOUS
      <4>2. \A k \in 1..(q - 1) : ~Presents(main[k])
        BY <2>2, <4>1 DEF FirstInv
      <4>3. q # 1 /\ q \in Nat \ {0}
        BY <1>1, <4>1 DEF TypeOK
      <4>4. 1 \in 1..(q - 1)
        BY <4>3
      <4>5. QED
        BY <1>1, <1>5, <4>2, <4>4 DEF Presents
    <3>2. \A p \in DOMAIN main' : main'[p].block = "first" => main'[p] = call
      BY <2>5, <2>6, <3>1
    <3>3. QED
      BY <2>2, <2>3, <2>4, <3>2 DEF FirstInv
  <2>11. ListenerInv'
    <3>1. SUFFICES ASSUME NEW i \in DOMAIN personal', personal'[i] # authUser
                   PROVE  \E p \in DOMAIN main' : main'[p] = Notify \/ main'[p] = First(i)
      BY <2>1 DEF ListenerInv
    <3>2. CASE i = n
      BY <2>6, <3>2 DEF call
    <3>3. CASE i \in DOMAIN personal
      <4>1. PICK q \in DOMAIN main : main[q] = Notify \/ main[q] = First(i)
        BY <2>3, <3>1, <3>3 DEF ListenerInv
      <4>2. q # 1
        BY <1>1, <4>1 DEF Notify, First
      <4>3. QED
        BY <2>5, <2>6, <4>1, <4>2
    <3>4. QED
      BY <2>3, <3>2, <3>3
  <2>12. UidInv'
    BY <2>1, <2>3 DEF UidInv
  <2>13. PersonalScreenAgrees'
    BY <2>3 DEF PersonalScreenAgrees, Last
  <2>14. ProfilesAreTheirOwners' /\ TabIsTheKeychainUsers'
    <3>1. personal' # <<>>
      BY <2>3
    <3>2. QED
      BY <2>1, <3>1 DEF ProfilesAreTheirOwners, TabIsTheKeychainUsers
  <2>15. QED
    BY <2>7, <2>8, <2>9, <2>10, <2>11, <2>12, <2>13, <2>14
<1>6. QED
  BY <1>4, <1>5

(***************************************************************************)
(* The theorems.                                                           *)
(***************************************************************************)

\* A step that changes nothing.
LEMMA StutterStep ==
    ASSUME IInv, UNCHANGED vars
    PROVE  IInv'
<1> USE DEF IInv
<1>1. UNCHANGED <<accounts, profile, keychain, authUser, uid, tabUser, base, sheets,
                  requests, main, personal, accepted>>
  BY DEF vars
<1>2. TypeOK' /\ NamesInv' /\ SignedInInv'
  BY <1>1 DEF TypeOK, NamesInv, SignedInInv
<1>3. FirstInv' /\ ListenerInv' /\ UidInv'
  BY <1>1 DEF FirstInv, ListenerInv, UidInv, InFront
<1>4. PersonalScreenAgrees' /\ ProfilesAreTheirOwners' /\ TabIsTheKeychainUsers'
  BY <1>1 DEF PersonalScreenAgrees, ProfilesAreTheirOwners, TabIsTheKeychainUsers, InFront
<1>5. QED
  BY <1>2, <1>3, <1>4

(* Whatever the taps, the answers, the main queue and restarts do, the     *)
(* account of the main queue stays true.                                   *)
THEOREM Invariance == Spec => []IInv
<1>1. Init => IInv
  BY InitIInv
<1>2. ASSUME IInv, [Next]_vars
      PROVE  IInv'
  <2>1. CASE Relaunch
    BY <1>2, <2>1, RelaunchStep
  <2>2. ASSUME NEW u \in Users, TapLogin(u)
        PROVE  IInv'
    <3>1. Ask("login", u) /\ UNCHANGED <<server, identity, screens, main, personal>>
      BY <2>2 DEF TapLogin
    <3>2. QED
      BY <1>2, <3>1, AskStep
  <2>3. CASE OpenRegistration
    BY <1>2, <2>3, OpenRegistrationStep
  <2>4. ASSUME NEW u \in Users, TapRegister(u)
        PROVE  IInv'
    <3>1. Ask("create", u) /\ UNCHANGED <<server, identity, screens, main, personal>>
      BY <2>4 DEF TapRegister
    <3>2. QED
      BY <1>2, <3>1, AskStep
  <2>5. CASE SwipeAway
    BY <1>2, <2>5, SwipeAwayStep
  <2>6. CASE Logout
    BY <1>2, <2>6, LogoutStep
  <2>7. CASE Submit
    BY <1>2, <2>7, SubmitStep
  <2>8. ASSUME NEW r \in requests, Succeeds(r)
        PROVE  IInv'
    BY <1>2, <2>8, SucceedsStep
  <2>9. ASSUME NEW r \in requests, Fails(r)
        PROVE  IInv'
    BY <1>2, <2>9, FailsStep
  <2>10. CASE RunNotification
    BY <1>2, <2>10, RunNotificationStep
  <2>11. CASE RunFirstCall
    BY <1>2, <2>11, RunFirstCallStep
  <2>12. CASE RunLoginAnswer
    BY <1>2, <2>12, RunLoginAnswerStep
  <2>13. CASE RunCreateAnswer
    BY <1>2, <2>13, RunCreateAnswerStep
  <2>14. CASE RunSignInAnswer
    BY <1>2, <2>14, RunSignInAnswerStep
  <2>15. CASE UNCHANGED vars
    BY <1>2, <2>15, StutterStep
  <2>16. QED
    BY <1>2, <2>1, <2>2, <2>3, <2>4, <2>5, <2>6, <2>7, <2>8, <2>9, <2>10, <2>11,
       <2>12, <2>13, <2>14, <2>15 DEF Next
<1>3. QED
  BY <1>1, <1>2, PTL DEF Spec

\* Variables stay in their ranges and the screens in the storyboard's order.
THEOREM TypeCorrect == Spec => []TypeOK
<1>1. IInv => TypeOK
  BY DEF IInv
<1>2. QED
  BY <1>1, Invariance, PTL

(* No place names a user whose credentials this device has not proved: not *)
(* LoginViewController's keychain entry, the listeners' uid, nor the tab.  *)
THEOREM NamesAreProved == Spec => []OnlyProvedUsersAreNamed
<1>1. IInv => OnlyProvedUsersAreNamed
  BY ToldListeners
<1>2. QED
  BY <1>1, Invariance, PTL

\* sendUserData files no user's e-mail address under another user.
THEOREM ProfilesAreFiledRight == Spec => []ProfilesAreTheirOwners
<1>1. IInv => ProfilesAreTheirOwners
  BY DEF IInv
<1>2. QED
  BY <1>1, Invariance, PTL

\* Once their notifications are run, the listeners agree with FirebaseAuth.
THEOREM UidFollows == Spec => []UidFollowsAuth
<1>1. IInv => UidFollowsAuth
  BY ToldListeners
<1>2. QED
  BY <1>1, Invariance, PTL

\* The personal information in front, the uid and the keychain agree.
THEOREM ScreensAgree == Spec => []PersonalScreenAgrees
<1>1. IInv => PersonalScreenAgrees
  BY DEF IInv
<1>2. QED
  BY <1>1, Invariance, PTL

\* Only listeners take the keychain's user and the tab's apart.
THEOREM TabIsRight == Spec => []TabIsTheKeychainUsers
<1>1. IInv => TabIsTheKeychainUsers
  BY DEF IInv
<1>2. QED
  BY <1>1, Invariance, PTL
=============================================================================
