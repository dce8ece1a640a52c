-------------------------- MODULE PhotoUploadProofs --------------------------
(***************************************************************************)
(* The safety invariants of PhotoUpload hold for any number of screens, of *)
(* requests under way and of rotations.                                    *)
(*                                                                         *)
(* That a profile names the photo its screen shows is inductive with an    *)
(* account of what uploads under way still carry (PhotosInv).  That nobody *)
(* is locked out follows from two facts about the one cover all screens    *)
(* share: a screen that is covered and was not forgotten is the one        *)
(* blurView names (CoverInv), and something that will hide its cover is    *)
(* queued or on its way (HideInv), screens that are gone included.         *)
(***************************************************************************)
EXTENDS PhotoUpload, FiniteSetTheorems, SequenceTheorems, TLAPS

Overlays == [covers : [Screens -> {0, 1}], blur : Screens \cup {NoView}, attached : BOOLEAN]

\* A request on the way from Done to the photo's URL.
Uploads(r) == r.kind \in {"put", "url"}

\* The cover that is attached is on the view it was made for.
OverlayInv == overlay.attached => overlay.blur \in Screens /\ overlay.covers[overlay.blur] = 1

\* Photo and URL are of the same image; what is being uploaded was confirmed.
PhotosInv ==
    /\ photo = photoURL
    /\ \A s \in Screens : photo[s] \in confirmed \cup {NoImage}
    /\ \A r \in Unhandled : Uploads(r) => r.image \in confirmed

\* A rotate screen has an image.
ImagesInv == \A s \in Screens : kind[s] = "rotate" => image[s] \in Images

\* A cover that was not forgotten is the one blurView names, and is attached.
CoverInv ==
    \A s \in Screens :
        Covered(overlay, s) /\ s \notin disowned => overlay.attached /\ overlay.blur = s

\* And something is going to hide it.
HideInv ==
    \A s \in Screens :
        Covered(overlay, s) /\ s \notin unencodable \cup disowned => WillHide(s)

\* The chains of requests are numbered, and each has one request or answer.
NumbersInv ==
    /\ \A r \in requests : r.n <= taps
    /\ \A i \in 1..Len(main) : main[i].block = "answer" =>
         /\ main[i].request.n <= taps
         /\ \A r \in requests : r.n # main[i].request.n
         /\ \A j \in 1..Len(main) :
              main[j].block = "answer" /\ main[j].request.n = main[i].request.n => i = j
    /\ \A r, s \in requests : r.n = s.n => r = s

\* There is a screen left for every registration under way.
SpareInv ==
    /\ IsFiniteSet(Unhandled)
    /\ Cardinality(Registering) <= Cardinality(Unused)

IInv ==
    /\ TypeOK
    /\ NumbersInv
    /\ SpareInv
    /\ OverlayInv
    /\ PhotosInv
    /\ ImagesInv
    /\ CoverInv
    /\ HideInv

(***************************************************************************)
(* The main queue.                                                         *)
(***************************************************************************)

\* A block is the hiding of the cover or an answer.
LEMMA BlockKinds ==
    /\ Hide \in Blocks /\ Hide.block = "hide"
    /\ \A b \in Blocks : \/ b = Hide
                         \/ b.block = "answer" /\ b.request \in Requests /\ b.ok \in BOOLEAN
    /\ \A r \in Requests, ok \in BOOLEAN :
         /\ Answer(r, ok) \in Blocks
         /\ Answer(r, ok).block = "answer"
         /\ Answer(r, ok).request = r
BY DEF Blocks, Hide, Answer

\* Taking the first block moves every other one up.
LEMMA TailShifts ==
    ASSUME NEW q \in Seq(Blocks), q # <<>>
    PROVE  /\ Tail(q) \in Seq(Blocks)
           /\ Len(q) \in Nat \ {0} /\ Len(Tail(q)) = Len(q) - 1
           /\ Head(q) = q[1] /\ Head(q) \in Blocks
           /\ \A i \in 1..Len(Tail(q)) : i + 1 \in 1..Len(q) /\ Tail(q)[i] = q[i + 1]
           /\ \A i \in 1..Len(q) : i # 1 => i - 1 \in 1..Len(Tail(q)) /\ Tail(q)[i - 1] = q[i]
OBVIOUS

\* Adding a block.
LEMMA Appended ==
    ASSUME NEW q \in Seq(Blocks), NEW b \in Blocks
    PROVE  /\ Append(q, b) \in Seq(Blocks)
           /\ Len(q) \in Nat /\ Len(Append(q, b)) = Len(q) + 1
           /\ \A i \in 1..Len(q) : Append(q, b)[i] = q[i]
           /\ Append(q, b)[Len(q) + 1] = b
OBVIOUS

\* hideLoading adds its block at most, and does when a cover was ever made.
LEMMA Hiding ==
    ASSUME NEW q \in Seq(Blocks)
    PROVE  /\ HideLoading(q) \in Seq(Blocks)
           /\ Len(q) \in Nat /\ Len(HideLoading(q)) \in Nat /\ Len(HideLoading(q)) >= Len(q)
           /\ \A i \in 1..Len(q) : HideLoading(q)[i] = q[i]
           /\ \A i \in 1..Len(HideLoading(q)) : i \in 1..Len(q) \/ HideLoading(q)[i] = Hide
           /\ overlay'.blur # NoView => \E i \in 1..Len(HideLoading(q)) : HideLoading(q)[i] = Hide
<1>1. CASE Hides(overlay')
  <2>1. HideLoading(q) = Append(q, Hide) /\ Hide \in Blocks
    BY <1>1, BlockKinds DEF HideLoading
  <2>2. QED
    BY <2>1, Appended
<1>2. CASE ~Hides(overlay')
  BY <1>2 DEF HideLoading, Hides
<1>3. QED
  BY <1>1, <1>2

(***************************************************************************)
(* What is under way: p is q, with only blocks that hide the cover added.  *)
(***************************************************************************)
Grown(p, q) ==
    /\ p \in Seq(Blocks)
    /\ Len(p) \in Nat /\ Len(q) \in Nat /\ Len(p) >= Len(q)
    /\ \A i \in 1..Len(q) : p[i] = q[i]
    /\ \A i \in 1..Len(p) : i \in 1..Len(q) \/ p[i] = Hide

LEMMA GrownQueues ==
    ASSUME NEW q \in Seq(Blocks)
    PROVE  Grown(q, q) /\ Grown(HideLoading(q), q)
<1>1. Grown(q, q)
  BY DEF Grown
<1>2. Grown(HideLoading(q), q)
  BY Hiding DEF Grown
<1>3. QED
  BY <1>1, <1>2

\* Membership in Unhandled, spelled out.
LEMMA UnhandledMembers ==
    ASSUME main \in Seq(Blocks)
    PROVE  \A x : x \in Unhandled <=>
             \/ x \in requests
             \/ \E i \in 1..Len(main) : main[i].block = "answer" /\ x = main[i].request
<1>1. DOMAIN main = 1..Len(main)
  OBVIOUS
<1>2. \A b : b \in ToSet(main) <=> \E i \in 1..Len(main) : b = main[i]
  BY <1>1 DEF ToSet
<1>3. QED
  BY <1>2 DEF Unhandled

LEMMA UnhandledMembersNext ==
    ASSUME main' \in Seq(Blocks)
    PROVE  \A x : x \in Unhandled' <=>
             \/ x \in requests'
             \/ \E i \in 1..Len(main') : main'[i].block = "answer" /\ x = main'[i].request
<1>1. DOMAIN main' = 1..Len(main')
  OBVIOUS
<1>2. \A b : b \in ToSet(main)' <=> \E i \in 1..Len(main') : b = main'[i]
  BY <1>1 DEF ToSet
<1>3. QED
  BY <1>2 DEF Unhandled

\* Nothing is asked or answered.
LEMMA NothingHandled ==
    ASSUME main \in Seq(Blocks), Grown(main', main), requests' = requests, taps' = taps,
           NumbersInv
    PROVE  Unhandled' = Unhandled /\ NumbersInv'
<1>1. main' \in Seq(Blocks) /\ Hide.block # "answer"
  BY DEF Grown, Hide
<1>2. \A i \in 1..Len(main') : main'[i].block = "answer" => i \in 1..Len(main) /\ main'[i] = main[i]
  BY <1>1 DEF Grown
<1>3. \A i \in 1..Len(main) : i \in 1..Len(main') /\ main'[i] = main[i]
  BY DEF Grown
<1>4. \A x : x \in Unhandled' <=> x \in Unhandled
  BY <1>1, <1>2, <1>3, UnhandledMembers, UnhandledMembersNext
<1>5. NumbersInv'
  BY <1>2, <1>3 DEF NumbersInv
<1>6. QED
  BY <1>4, <1>5

\* A block that hides the cover is run.
LEMMA HideHandled ==
    ASSUME main \in Seq(Blocks), main # <<>>, Head(main) = Hide, main' = Tail(main),
           requests' = requests, taps' = taps, NumbersInv
    PROVE  Unhandled' = Unhandled /\ NumbersInv'
<1>1. main' \in Seq(Blocks) /\ main[1].block # "answer" /\ Len(main) \in Nat \ {0}
  BY TailShifts DEF Hide
<1>2. \A i \in 1..Len(main') : i + 1 \in 1..Len(main) /\ main'[i] = main[i + 1]
  BY TailShifts
<1>3. \A i \in 1..Len(main) : i # 1 => i - 1 \in 1..Len(main') /\ main'[i - 1] = main[i]
  BY TailShifts
<1>4. ASSUME NEW x, x \in Unhandled' PROVE x \in Unhandled
  BY <1>1, <1>2, <1>4, UnhandledMembers, UnhandledMembersNext
<1>5. ASSUME NEW x, x \in Unhandled PROVE x \in Unhandled'
  <2>1. CASE x \in requests
    BY <1>1, <2>1, UnhandledMembersNext
  <2>2. CASE \E i \in 1..Len(main) : main[i].block = "answer" /\ x = main[i].request
    <3>1. PICK i \in 1..Len(main) : main[i].block = "answer" /\ x = main[i].request
      BY <2>2
    <3>2. i # 1
      BY <1>1, <3>1
    <3>3. \E j \in 1..Len(main') : main'[j].block = "answer" /\ x = main'[j].request
      BY <1>3, <3>1, <3>2
    <3>4. QED
      BY <1>1, <3>3, UnhandledMembersNext, Zenon
  <2>3. QED
    BY <1>5, <2>1, <2>2, UnhandledMembers
<1>6. NumbersInv'
  BY <1>2, <1>3 DEF NumbersInv
<1>7. QED
  BY <1>4, <1>5, <1>6

\* Something is asked.
LEMMA Asking ==
    ASSUME main \in Seq(Blocks), requests \subseteq Requests, taps \in Nat,
           NEW r \in Requests, r.n = taps + 1,
           main' = main, requests' = requests \cup {r}, taps' = taps + 1, NumbersInv
    PROVE  Unhandled' = Unhandled \cup {r} /\ NumbersInv'
<1>1. \A x : x \in Unhandled' <=> x \in Unhandled \cup {r}
  BY UnhandledMembers, UnhandledMembersNext
<1>2. \A x \in requests : x.n \in Nat /\ x.n <= taps
  BY DEF NumbersInv, Requests
<1>3. \A i \in 1..Len(main) : main[i].block = "answer" => main[i].request.n \in Nat
  <2>1. \A i \in 1..Len(main) : main[i] \in Blocks
    OBVIOUS
  <2>2. QED
    BY <2>1, BlockKinds DEF Requests, Hide
<1>4. NumbersInv'
  <2>1. \A x \in requests' : x.n <= taps'
    BY <1>2
  <2>2. \A x, y \in requests' : x.n = y.n => x = y
    BY <1>2 DEF NumbersInv
  <2>3. ASSUME NEW i \in 1..Len(main'), main'[i].block = "answer"
        PROVE  /\ main'[i].request.n <= taps'
               /\ \A x \in requests' : x.n # main'[i].request.n
               /\ \A j \in 1..Len(main') :
                    main'[j].block = "answer" /\ main'[j].request.n = main'[i].request.n => i = j
    BY <1>2, <1>3, <2>3 DEF NumbersInv
  <2>4. QED
    BY <2>1, <2>2, <2>3 DEF NumbersInv
<1>5. QED
  BY <1>1, <1>4

\* Something is answered.
LEMMA Answering ==
    ASSUME main \in Seq(Blocks), requests \subseteq Requests,
           NEW r \in requests, NEW ok \in BOOLEAN,
           main' = Append(main, Answer(r, ok)), requests' = requests \ {r}, taps' = taps,
           NumbersInv
    PROVE  main' \in Seq(Blocks) /\ Unhandled' = Unhandled /\ NumbersInv'
<1> DEFINE a == Answer(r, ok)
<1>1. a \in Blocks /\ a.block = "answer" /\ a.request = r
  BY BlockKinds
<1> HIDE DEF a
<1>2. /\ main' \in Seq(Blocks) /\ Len(main) \in Nat /\ Len(main') = Len(main) + 1
      /\ \A i \in 1..Len(main) : main'[i] = main[i]
      /\ main'[Len(main) + 1] = a
  BY <1>1, Appended DEF a
<1>3. \A x : x \in Unhandled' <=> x \in Unhandled
  BY <1>1, <1>2, UnhandledMembers, UnhandledMembersNext
<1>4. \A i \in 1..Len(main') :
        (i \in 1..Len(main) /\ main'[i] = main[i]) \/ (i = Len(main) + 1 /\ main'[i] = a)
  BY <1>2
<1>5. NumbersInv'
  <2>1. ASSUME NEW i \in 1..Len(main'), main'[i].block = "answer"
        PROVE  /\ main'[i].request.n <= taps'
               /\ \A x \in requests' : x.n # main'[i].request.n
    BY <1>1, <1>4, <2>1 DEF NumbersInv
  <2>2. ASSUME NEW i \in 1..Len(main'), main'[i].block = "answer",
               NEW j \in 1..Len(main'), main'[j].block = "answer",
               main'[j].request.n = main'[i].request.n
        PROVE  i = j
    BY <1>1, <1>4, <2>2 DEF NumbersInv
  <2>3. QED
    BY <2>1, <2>2 DEF NumbersInv
<1>6. QED
  BY <1>2, <1>3, <1>5

\* An answer is handled, for good.
LEMMA Handled ==
    ASSUME main \in Seq(Blocks), requests \subseteq Requests, main # <<>>,
           Head(main).block = "answer",
           Grown(main', Tail(main)), requests' = requests, taps' = taps, NumbersInv
    PROVE  Unhandled' = Unhandled \ {Head(main).request} /\ NumbersInv'
<1>1. main' \in Seq(Blocks) /\ Hide.block # "answer"
  BY DEF Grown, Hide
<1>2. \A i \in 1..Len(main') : main'[i].block = "answer" =>
        i + 1 \in 1..Len(main) /\ i + 1 # 1 /\ main'[i] = main[i + 1]
  BY <1>1, TailShifts DEF Grown
<1>3. \A i \in 1..Len(main) : i # 1 => i - 1 \in 1..Len(main') /\ main'[i - 1] = main[i]
  BY TailShifts DEF Grown
<1>4. Head(main) = main[1] /\ 1 \in 1..Len(main) /\ Len(main) \in Nat
  BY TailShifts
<1>5. ASSUME NEW x, x \in Unhandled' PROVE x \in Unhandled \ {Head(main).request}
  BY <1>1, <1>2, <1>4, <1>5, UnhandledMembers, UnhandledMembersNext DEF NumbersInv
<1>6. ASSUME NEW x, x \in Unhandled, x # Head(main).request PROVE x \in Unhandled'
  BY <1>1, <1>3, <1>4, <1>6, UnhandledMembers, UnhandledMembersNext
<1>7. NumbersInv'
  <2>1. ASSUME NEW i \in 1..Len(main'), main'[i].block = "answer"
        PROVE  /\ main'[i].request.n <= taps'
               /\ \A x \in requests' : x.n # main'[i].request.n
    BY <1>2, <2>1 DEF NumbersInv
  <2>2. ASSUME NEW i \in 1..Len(main'), main'[i].block = "answer",
               NEW j \in 1..Len(main'), main'[j].block = "answer",
               main'[j].request.n = main'[i].request.n
        PROVE  i = j
    <3>1. i \in Nat /\ j \in Nat
      BY <1>1
    <3>2. i + 1 = j + 1
      BY <1>2, <2>2 DEF NumbersInv
    <3>3. QED
      BY <3>1, <3>2
  <2>3. QED
    BY <2>1, <2>2 DEF NumbersInv
<1>8. QED
  BY <1>5, <1>6, <1>7

\* An answer is handled, and its chain goes on with a request k.
LEMMA GoingOn ==
    ASSUME main \in Seq(Blocks), requests \subseteq Requests, main # <<>>,
           Head(main).block = "answer",
           NEW r \in Requests, r.n = Head(main).request.n, r \notin {Head(main).request},
           Grown(main', Tail(main)), requests' = requests \cup {r}, taps' = taps, NumbersInv
    PROVE  Unhandled' = (Unhandled \ {Head(main).request}) \cup {r} /\ NumbersInv'
<1>1. main' \in Seq(Blocks) /\ Hide.block # "answer"
  BY DEF Grown, Hide
<1>2. \A i \in 1..Len(main') : main'[i].block = "answer" =>
        i + 1 \in 1..Len(main) /\ i + 1 # 1 /\ main'[i] = main[i + 1]
  BY <1>1, TailShifts DEF Grown
<1>3. \A i \in 1..Len(main) : i # 1 => i - 1 \in 1..Len(main') /\ main'[i - 1] = main[i]
  BY TailShifts DEF Grown
<1>4. Head(main) = main[1] /\ 1 \in 1..Len(main) /\ Len(main) \in Nat
  BY TailShifts
<1>5. ASSUME NEW x, x \in Unhandled' PROVE x \in (Unhandled \ {Head(main).request}) \cup {r}
  BY <1>1, <1>2, <1>4, <1>5, UnhandledMembers, UnhandledMembersNext DEF NumbersInv
<1>6. ASSUME NEW x, x \in Unhandled, x # Head(main).request PROVE x \in Unhandled'
  BY <1>1, <1>3, <1>4, <1>6, UnhandledMembers, UnhandledMembersNext
<1>7. r \in Unhandled'
  BY <1>1, UnhandledMembersNext
<1>8. NumbersInv'
  <2>1. \A x \in requests' : x.n <= taps'
    BY <1>4 DEF NumbersInv
  <2>2. \A x, y \in requests' : x.n = y.n => x = y
    BY <1>4 DEF NumbersInv
  <2>3. ASSUME NEW i \in 1..Len(main'), main'[i].block = "answer"
        PROVE  /\ main'[i].request.n <= taps'
               /\ \A x \in requests' : x.n # main'[i].request.n
               /\ \A j \in 1..Len(main') :
                    main'[j].block = "answer" /\ main'[j].request.n = main'[i].request.n => i = j
    BY <1>2, <1>4, <2>3 DEF NumbersInv
  <2>4. QED
    BY <2>1, <2>2, <2>3 DEF NumbersInv
<1>9. QED
  BY <1>5, <1>6, <1>7, <1>8

(***************************************************************************)
(* The cover.                                                              *)
(***************************************************************************)

\* showLoadingAdded: a view that is covered afterwards and was not forgotten is
\* the one it was called for, or nothing has changed for it.
LEMMA Showing ==
    ASSUME overlay \in Overlays, disowned \subseteq Screens, OverlayInv, CoverInv,
           NEW s \in Screens, Show(s)
    PROVE  /\ overlay' \in Overlays /\ disowned' \subseteq Screens
           /\ disowned \subseteq disowned'
           /\ OverlayInv' /\ CoverInv'
           /\ Covered(overlay, s) => overlay' = overlay
           /\ \A t \in Screens : Covered(overlay', t) /\ t \notin disowned' =>
                t = s \/ (Covered(overlay, t) /\ t \notin disowned)
<1>1. CASE Covered(overlay, s)
  <2>1. overlay' = overlay /\ disowned \subseteq disowned' /\ disowned' \subseteq Screens
    BY <1>1 DEF Show, ShowLoadingAdded
  <2>2. QED
    BY <2>1 DEF OverlayInv, CoverInv, Covered
<1>2. CASE ~Covered(overlay, s)
  <2>1. overlay' = [covers |-> [overlay.covers EXCEPT ![s] = @ + 1], blur |-> s, attached |-> TRUE]
    BY <1>2 DEF Show, ShowLoadingAdded
  <2>2. overlay.covers \in [Screens -> {0, 1}] /\ overlay.covers[s] = 0
    BY <1>2 DEF Covered, Overlays
  <2>3. overlay' \in Overlays /\ overlay'.covers[s] = 1 /\ overlay'.blur = s /\ overlay'.attached
    BY <2>1, <2>2 DEF Overlays
  <2>4. \A t \in Screens : Covered(overlay', t) => t = s \/ Covered(overlay, t)
    BY <2>1, <2>2 DEF Covered
  <2>5. disowned' = disowned \cup {t \in Screens \ {s} : Covered(overlay, t)}
    BY <2>3 DEF Show
  <2>6. /\ disowned' \subseteq Screens /\ disowned \subseteq disowned'
        /\ \A t \in Screens : Covered(overlay', t) /\ t \notin disowned' => t = s
    BY <2>4, <2>5
  <2>7. QED
    BY <1>2, <2>3, <2>6 DEF OverlayInv, CoverInv
<1>3. QED
  BY <1>1, <1>2

\* The block of hideLoading: nobody is covered afterwards who was not forgotten.
LEMMA Removing ==
    ASSUME overlay \in Overlays, OverlayInv, CoverInv, NEW o, o = RemoveCover(overlay)
    PROVE  /\ o \in Overlays /\ ~o.attached
           /\ \A t \in Screens : Covered(o, t) => t \in disowned
<1>1. CASE overlay.attached
  <2> DEFINE b == overlay.blur
  <2>1. b \in Screens /\ overlay.covers \in [Screens -> {0, 1}] /\ overlay.covers[b] = 1
    BY <1>1 DEF OverlayInv, Overlays
  <2> DEFINE c == [overlay.covers EXCEPT ![b] = @ - 1]
  <2>2. c \in [Screens -> {0, 1}]
    BY <2>1
  <2>3. o = [covers |-> c, blur |-> b, attached |-> FALSE]
    BY <1>1 DEF RemoveCover, Overlays
  <2>4. o \in Overlays /\ ~o.attached
    BY <2>1, <2>2, <2>3 DEF Overlays
  <2>5. \A t \in Screens : Covered(o, t) => t # b /\ Covered(overlay, t)
    BY <2>1, <2>3 DEF Covered
  <2>6. QED
    BY <2>4, <2>5 DEF CoverInv
<1>2. CASE ~overlay.attached
  BY <1>2 DEF RemoveCover, CoverInv, Overlays
<1>3. QED
  BY <1>1, <1>2
(***************************************************************************)
(* Screens.                                                                *)
(***************************************************************************)

Presented(k) == {s \in Screens : k[s] # "none"}

\* A screen that is not used yet comes up.
LEMMA Opening ==
    ASSUME kind \in [Screens -> Kinds], front \in Seq(Presented(kind)),
           Unused # {}, NEW k \in Kinds \ {"none"}, Open(k)
    PROVE  /\ New \in Unused /\ New \in Screens
           /\ kind' \in [Screens -> Kinds] /\ kind'[New] = k
           /\ \A s \in Screens : s # New => kind'[s] = kind[s]
           /\ k # "rotate" => \A s \in Screens : kind'[s] = "rotate" => kind[s] = "rotate"
           /\ front' \in Seq(Presented(kind'))
           /\ Unused' = Unused \ {New}
           /\ base' = base
<1>1. New \in Unused /\ New \in Screens
  BY DEF New, Unused
<1>2. /\ kind' \in [Screens -> Kinds] /\ kind'[New] = k
      /\ \A s \in Screens : s # New => kind'[s] = kind[s]
  BY <1>1 DEF Open
<1>3. Unused' = Unused \ {New}
  BY <1>1, <1>2 DEF Unused
<1>4. Presented(kind) \subseteq Presented(kind') /\ New \in Presented(kind')
  BY <1>1, <1>2 DEF Presented, Unused
<1>5. front \in Seq(Presented(kind'))
  <2>1. \A i \in 1..Len(front) : front[i] \in Presented(kind')
    BY <1>4
  <2>2. QED
    BY <2>1
<1>6. front' \in Seq(Presented(kind'))
  BY <1>4, <1>5 DEF Open
<1>7. QED
  BY <1>1, <1>2, <1>3, <1>6 DEF Open

\* The screen in front goes.
LEMMA FrontGone ==
    ASSUME NEW S, NEW f \in Seq(S), f # <<>>
    PROVE  Front(f) \in Seq(S)
<1>1. Front(f) = SubSeq(f, 1, Len(f) - 1) /\ Len(f) \in Nat \ {0}
  BY DEF Front
<1>2. \A i \in 1..(Len(f) - 1) : f[i] \in S
  BY <1>1
<1>3. QED
  BY <1>1, <1>2

LEMMA NoneInFront == ASSUME NEW S PROVE <<>> \in Seq(S)
OBVIOUS

\* Screens are few; with one to spare there is an unused one.
LEMMA Sparing ==
    ASSUME IsFiniteSet(Unhandled)
    PROVE  /\ IsFiniteSet(Unused) /\ Cardinality(Unused) \in Nat
           /\ IsFiniteSet(Registering) /\ Cardinality(Registering) \in Nat
           /\ Spare => Unused # {}
           /\ SpareInv /\ Registering # {} => Unused # {}
<1>1. IsFiniteSet(Screens)
  BY BoundsAssumption, FS_Interval DEF Screens
<1>2. IsFiniteSet(Unused) /\ Cardinality(Unused) \in Nat
  BY <1>1, FS_Subset, FS_CardinalityType DEF Unused
<1>3. IsFiniteSet(Registering) /\ Cardinality(Registering) \in Nat
  BY FS_Subset, FS_CardinalityType DEF Registering
<1>4. Unused = {} => Cardinality(Unused) = 0
  BY FS_EmptySet
<1>5. Registering # {} => Cardinality(Registering) # 0
  BY <1>3, FS_EmptySet
<1>6. QED
  BY <1>2, <1>3, <1>4, <1>5 DEF Spare, SpareInv
\* Fewer are under way, or the same.
LEMMA SpareKept ==
    ASSUME SpareInv, Unhandled' \subseteq Unhandled, Unused' = Unused
    PROVE  SpareInv'
<1>1. /\ IsFiniteSet(Unhandled') /\ IsFiniteSet(Registering)
      /\ Registering' \subseteq Registering
  BY FS_Subset, Sparing DEF SpareInv, Registering
<1>2. Cardinality(Registering') <= Cardinality(Registering) /\ Cardinality(Registering') \in Nat
  BY <1>1, FS_Subset, FS_CardinalityType
<1>3. Cardinality(Registering) \in Nat /\ Cardinality(Unused) \in Nat
  BY Sparing DEF SpareInv
<1>4. QED
  BY <1>1, <1>2, <1>3 DEF SpareInv

\* The spare screen is used.
LEMMA SpareUsed ==
    ASSUME SpareInv, Spare, Unhandled' = Unhandled, NEW s \in Unused, Unused' = Unused \ {s}
    PROVE  SpareInv'
<1>1. Registering' = Registering
  BY DEF Registering
<1>2. /\ Cardinality(Unused') = Cardinality(Unused) - 1
      /\ Cardinality(Unused) \in Nat /\ Cardinality(Registering) \in Nat
  BY FS_RemoveElement, Sparing DEF SpareInv
<1>3. QED
  BY <1>1, <1>2 DEF SpareInv, Spare

\* A request is made; a registration takes the spare screen for itself.
LEMMA SpareAsked ==
    ASSUME SpareInv, NEW r, Unhandled' = Unhandled \cup {r}, Unused' = Unused,
           r.kind \in {"create", "signIn"} => Spare
    PROVE  SpareInv'
<1>1. IsFiniteSet(Unhandled') /\ IsFiniteSet(Registering)
  BY FS_AddElement, Sparing DEF SpareInv
<1>2. Cardinality(Registering) \in Nat /\ Cardinality(Unused) \in Nat
  BY Sparing DEF SpareInv
<1>3. CASE r.kind \in {"create", "signIn"}
  <2>1. Registering' = Registering \cup {r}
    BY <1>3 DEF Registering
  <2>2. Cardinality(Registering') \in {Cardinality(Registering), Cardinality(Registering) + 1}
    BY <1>1, <2>1, FS_AddElement
  <2>3. Cardinality(Unused) > Cardinality(Registering)
    BY <1>3 DEF Spare
  <2>4. QED
    BY <1>1, <1>2, <2>2, <2>3 DEF SpareInv
<1>4. CASE r.kind \notin {"create", "signIn"}
  <2>1. Registering' = Registering
    BY <1>4 DEF Registering
  <2>2. QED
    BY <1>1, <2>1 DEF SpareInv
<1>5. QED
  BY <1>3, <1>4

\* A registration goes on, or an upload.
LEMMA SpareGoingOn ==
    ASSUME SpareInv, NEW r, NEW next, r \in Unhandled, Unused' = Unused,
           Unhandled' = (Unhandled \ {r}) \cup {next},
           next.kind \in {"create", "signIn"} => r.kind \in {"create", "signIn"}
    PROVE  SpareInv'
<1>1. IsFiniteSet(Unhandled')
  BY FS_AddElement, FS_RemoveElement DEF SpareInv
<1>2. IsFiniteSet(Registering) /\ Cardinality(Registering) \in Nat /\ Cardinality(Unused) \in Nat
  BY Sparing DEF SpareInv
<1>3. CASE next.kind \in {"create", "signIn"}
  <2>1. r \in Registering /\ Registering' = (Registering \ {r}) \cup {next}
    BY <1>3 DEF Registering
  <2>2. /\ IsFiniteSet(Registering \ {r})
        /\ Cardinality(Registering \ {r}) = Cardinality(Registering) - 1
    BY <1>2, <2>1, FS_RemoveElement
  <2> DEFINE R == Registering \ {r}
  <2>3. Cardinality(R \cup {next}) = IF next \in R THEN Cardinality(R) ELSE Cardinality(R) + 1
    BY <2>2, FS_AddElement
  <2>4. Cardinality(Registering') <= Cardinality(Registering)
    BY <1>2, <2>1, <2>2, <2>3
  <2>5. Cardinality(Registering') \in Nat
    BY <1>1, FS_Subset, FS_CardinalityType DEF Registering
  <2>6. QED
    BY <1>1, <1>2, <2>4, <2>5 DEF SpareInv
<1>4. CASE next.kind \notin {"create", "signIn"}
  <2>1. Registering' \subseteq Registering
    BY <1>4 DEF Registering
  <2>2. Cardinality(Registering') <= Cardinality(Registering) /\ Cardinality(Registering') \in Nat
    BY <1>2, <2>1, FS_Subset, FS_CardinalityType
  <2>3. QED
    BY <1>1, <1>2, <2>2 DEF SpareInv
<1>5. QED
  BY <1>3, <1>4

\* A registration ends with its personal information screen.
LEMMA SpareArrived ==
    ASSUME SpareInv, NEW r \in Registering, Unhandled' = Unhandled \ {r},
           NEW s \in Unused, Unused' = Unused \ {s}
    PROVE  SpareInv'
<1>1. /\ IsFiniteSet(Registering) /\ Cardinality(Registering) \in Nat
      /\ IsFiniteSet(Unused) /\ Cardinality(Unused) \in Nat
  BY Sparing DEF SpareInv
<1>2. IsFiniteSet(Unhandled') /\ Registering' = Registering \ {r}
  BY FS_RemoveElement DEF SpareInv, Registering
<1>3. /\ Cardinality(Registering') = Cardinality(Registering) - 1
      /\ Cardinality(Unused') = Cardinality(Unused) - 1
  BY <1>1, <1>2, FS_RemoveElement
<1>4. QED
  BY <1>1, <1>2, <1>3 DEF SpareInv

(***************************************************************************)
(* What hides the cover.                                                   *)
(***************************************************************************)

\* What is queued and asked for stays.
LEMMA StillHides ==
    ASSUME main \in Seq(Blocks), Grown(main', main), requests \subseteq requests',
           NEW s \in Screens, WillHide(s)
    PROVE  WillHide(s)'
<1>1. CASE \E r \in requests : r.kind # "url" /\ r.by = s
  BY <1>1 DEF WillHide
<1>2. CASE \E i \in 1..Len(main) :
             \/ main[i] = Hide
             \/ main[i].block = "answer" /\ main[i].request.kind # "url" /\ main[i].request.by = s
  BY <1>2 DEF Grown, WillHide, Hide
<1>3. QED
  BY <1>1, <1>2 DEF WillHide

\* The cover is left alone.
LEMMA HideKept ==
    ASSUME main \in Seq(Blocks), HideInv, overlay' = overlay, disowned' = disowned,
           unencodable' = unencodable, Grown(main', main), requests \subseteq requests'
    PROVE  HideInv'
BY StillHides DEF HideInv, Covered

\* The cover is shown on s, with something on its way that hides it.
LEMMA HideShown ==
    ASSUME main \in Seq(Blocks), overlay \in Overlays, disowned \subseteq Screens,
           OverlayInv, CoverInv, HideInv, NEW s \in Screens, Show(s),
           Grown(main', main), requests \subseteq requests', unencodable \subseteq unencodable',
           s \in unencodable' \/ WillHide(s)'
    PROVE  HideInv'
<1>1. \A t \in Screens : Covered(overlay', t) /\ t \notin disowned' =>
        t = s \/ (Covered(overlay, t) /\ t \notin disowned)
  BY Showing
<1>2. ASSUME NEW t \in Screens, Covered(overlay', t), t \notin unencodable' \cup disowned'
      PROVE  WillHide(t)'
  <2>1. CASE t = s
    BY <1>2, <2>1
  <2>2. CASE Covered(overlay, t) /\ t \notin disowned
    BY <1>2, <2>2, StillHides DEF HideInv
  <2>3. QED
    BY <1>1, <1>2, <2>1, <2>2
<1>3. QED
  BY <1>2 DEF HideInv, Covered

\* hideLoading has just been called.
LEMMA HideQueued ==
    ASSUME CoverInv', NEW q \in Seq(Blocks), main' = HideLoading(q)
    PROVE  HideInv'
<1>1. overlay'.blur # NoView => \E i \in 1..Len(main') : main'[i] = Hide
  BY Hiding
<1>2. \A t \in Screens : Covered(overlay', t) /\ t \notin disowned' => overlay'.blur # NoView
  BY NoneAssumption DEF CoverInv, Covered
<1>3. QED
  BY <1>1, <1>2 DEF HideInv, WillHide, Covered

\* An answer was handled that another screen waited for, or none.
LEMMA HideHandledElse ==
    ASSUME main \in Seq(Blocks), main # <<>>, Head(main).block = "answer", main' = Tail(main),
           requests \subseteq requests', NEW s \in Screens, WillHide(s),
           Head(main).request.kind = "url" \/ Head(main).request.by # s
    PROVE  WillHide(s)'
<1>1. Head(main) = main[1] /\ main[1] # Hide
  BY TailShifts DEF Hide
<1>2. \A i \in 1..Len(main) : i # 1 => i - 1 \in 1..Len(main') /\ main'[i - 1] = main[i]
  BY TailShifts
<1>3. CASE \E r \in requests : r.kind # "url" /\ r.by = s
  BY <1>3 DEF WillHide
<1>4. CASE \E i \in 1..Len(main) :
             \/ main[i] = Hide
             \/ main[i].block = "answer" /\ main[i].request.kind # "url" /\ main[i].request.by = s
  <2>1. PICK i \in 1..Len(main) :
             \/ main[i] = Hide
             \/ main[i].block = "answer" /\ main[i].request.kind # "url" /\ main[i].request.by = s
    BY <1>4
  <2>2. i # 1
    BY <1>1, <2>1
  <2>3. \E j \in 1..Len(main') : main'[j] = main[i]
    BY <1>2, <2>2
  <2>4. QED
    BY <2>1, <2>3 DEF WillHide, Hide
<1>5. QED
  BY <1>3, <1>4 DEF WillHide

(***************************************************************************)
(* Types, the account of what is under way, and the cover.                 *)
(***************************************************************************)

LEMMA BaseTypes ==
    ASSUME TypeOK
    PROVE  /\ main \in Seq(Blocks) /\ requests \subseteq Requests /\ taps \in Nat
           /\ Len(main) \in Nat /\ arriving \in Nat /\ arriving <= Len(main)
           /\ kind \in [Screens -> Kinds] /\ front \in Seq(Presented(kind))
           /\ overlay \in Overlays /\ disowned \subseteq Screens
           /\ Presented(kind) \subseteq Screens
BY BoundsAssumption DEF TypeOK, Presented, Overlays

\* TypeOK, in the words of the lemmas.
LEMMA TypesNext ==
    ASSUME TypeOK,
           kind' \in [Screens -> Kinds], front' \in Seq(Presented(kind')),
           base' \in {"root", "tabs"}, alert' \in BOOLEAN,
           main' \in Seq(Blocks), arriving' \in Nat, arriving' <= Len(main'),
           image' \in [Screens -> Images \cup {NoImage}],
           photo' \in [Screens -> Images \cup {NoImage}],
           photoURL' \in [Screens -> Images \cup {NoImage}],
           overlay' \in Overlays, requests' \subseteq Requests,
           taps' \in 0..MaxTaps, confirmed' \subseteq Images,
           unencodable' \subseteq Screens, disowned' \subseteq Screens
    PROVE  TypeOK'
<1>1. Len(main') \in Nat
  OBVIOUS
<1>2. arriving' \in 0..Len(main')
  BY <1>1
<1>3. QED
  BY <1>2 DEF TypeOK, Presented, Overlays

\* A request of the chain that starts.
LEMMA FirstRequest ==
    ASSUME TypeOK, Tap, NEW k \in {"login", "create", "put"}, NEW s \in Screens,
           NEW i \in Images \cup {NoImage}, Ask(k, s, i), NEW r,
           r = [n |-> taps', kind |-> k, by |-> s, image |-> i]
    PROVE  /\ r \in Requests /\ r.n = taps + 1 /\ r.kind = k /\ r.by = s /\ r.image = i
           /\ taps' = taps + 1 /\ taps' \in 0..MaxTaps /\ requests' = requests \cup {r}
           /\ requests \subseteq requests' /\ requests' \subseteq Requests
<1>1. taps' = taps + 1 /\ taps' \in 1..MaxTaps
  BY BoundsAssumption DEF TypeOK, Tap
<1>2. r \in Requests
  BY <1>1 DEF Requests
<1>3. QED
  BY <1>1, <1>2 DEF Ask, TypeOK

\* The cover is left alone.
LEMMA CoverKept ==
    ASSUME OverlayInv, CoverInv, overlay' = overlay, disowned' = disowned
    PROVE  OverlayInv' /\ CoverInv'
BY DEF OverlayInv, CoverInv, Covered

\* No image is picked or turned, and no rotate screen opened.
LEMMA ImagesKept ==
    ASSUME ImagesInv, image' = image, \A s \in Screens : kind'[s] = "rotate" => kind[s] = "rotate"
    PROVE  ImagesInv'
BY DEF ImagesInv

\* No photo is posted.
LEMMA PhotosKept ==
    ASSUME PhotosInv, photo' = photo, photoURL' = photoURL, confirmed \subseteq confirmed',
           \A r \in Unhandled' : Uploads(r) => r \in Unhandled \/ r.image \in confirmed'
    PROVE  PhotosInv'
BY DEF PhotosInv

LEMMA LogoutKeeps ==
    ASSUME IInv, Logout
    PROVE  IInv'
<1>1. /\ main \in Seq(Blocks) /\ overlay \in Overlays /\ disowned \subseteq Screens
      /\ kind \in [Screens -> Kinds] /\ front \in Seq(Presented(kind)) /\ Unused # {}
  BY BaseTypes, Sparing DEF IInv, SpareInv, Logout
<1>2. /\ New \in Unused /\ New \in Screens
      /\ kind' \in [Screens -> Kinds] /\ front' \in Seq(Presented(kind'))
      /\ Unused' = Unused \ {New} /\ base' = base
      /\ \A t \in Screens : kind'[t] = "rotate" => kind[t] = "rotate"
  BY <1>1, Opening DEF Logout, Kinds
<1>3. /\ overlay' \in Overlays /\ disowned' \subseteq Screens /\ OverlayInv' /\ CoverInv'
  BY <1>1, <1>2, Showing DEF Logout, IInv
<1>4. Grown(main', main) /\ main' \in Seq(Blocks) /\ arriving' = Len(main') /\ Len(main') \in Nat
  BY <1>1, GrownQueues DEF Logout, Presenting, Grown
<1>5. Unhandled' = Unhandled /\ NumbersInv'
  BY <1>1, <1>4, NothingHandled DEF Logout, IInv
<1>6. SpareInv'
  BY <1>2, <1>5, SpareUsed DEF Logout, IInv
<1>7. TypeOK'
  BY <1>2, <1>3, <1>4, TypesNext DEF Logout, photos, history, IInv, TypeOK
<1>8. PhotosInv'
  BY <1>5, PhotosKept DEF Logout, photos, history, IInv
<1>9. HideInv'
  BY <1>1, <1>3, HideQueued DEF Logout
<1>10. ImagesInv'
  BY <1>2, ImagesKept DEF Logout, IInv
<1>11. QED
  BY <1>3, <1>5, <1>6, <1>7, <1>8, <1>9, <1>10 DEF IInv

LEMMA OpenRegistrationKeeps ==
    ASSUME IInv, NEW s \in Screens, OpenRegistration(s)
    PROVE  IInv'
<1>1. /\ main \in Seq(Blocks) /\ Len(main) \in Nat /\ overlay \in Overlays
      /\ kind \in [Screens -> Kinds] /\ front \in Seq(Presented(kind)) /\ Unused # {}
  BY BaseTypes, Sparing DEF IInv, SpareInv, OpenRegistration
<1>2. /\ New \in Unused
      /\ kind' \in [Screens -> Kinds] /\ front' \in Seq(Presented(kind'))
      /\ Unused' = Unused \ {New} /\ base' = base
      /\ \A t \in Screens : kind'[t] = "rotate" => kind[t] = "rotate"
  BY <1>1, Opening DEF OpenRegistration, Kinds
<1>3. OverlayInv' /\ CoverInv'
  BY CoverKept DEF OpenRegistration, IInv
<1>4. Grown(main', main) /\ main' = main /\ arriving' = Len(main)
  BY <1>1, GrownQueues DEF OpenRegistration, Presenting
<1>5. Unhandled' = Unhandled /\ NumbersInv'
  BY <1>1, <1>4, NothingHandled DEF OpenRegistration, IInv
<1>6. SpareInv'
  BY <1>2, <1>5, SpareUsed DEF OpenRegistration, IInv
<1>7. TypeOK'
  BY <1>1, <1>2, <1>4, TypesNext DEF OpenRegistration, photos, history, IInv, TypeOK, Overlays
<1>8. PhotosInv'
  BY <1>5, PhotosKept DEF OpenRegistration, photos, history, IInv
<1>9. HideInv'
  BY <1>1, <1>4, HideKept DEF OpenRegistration, history, IInv
<1>10. ImagesInv'
  BY <1>2, ImagesKept DEF OpenRegistration, IInv
<1>11. QED
  BY <1>3, <1>5, <1>6, <1>7, <1>8, <1>9, <1>10 DEF IInv

LEMMA PickPhotoKeeps ==
    ASSUME IInv, NEW s \in Screens, PickPhoto(s)
    PROVE  IInv'
<1>1. /\ main \in Seq(Blocks) /\ Len(main) \in Nat /\ overlay \in Overlays
      /\ kind \in [Screens -> Kinds] /\ front \in Seq(Presented(kind)) /\ Unused # {}
  BY BaseTypes, Sparing DEF IInv, SpareInv, PickPhoto
<1>2. /\ New \in Unused /\ New \in Screens
      /\ kind' \in [Screens -> Kinds] /\ front' \in Seq(Presented(kind'))
      /\ Unused' = Unused \ {New} /\ base' = base
      /\ \A t \in Screens : t # New => kind'[t] = kind[t]
  BY <1>1, Opening DEF PickPhoto, Kinds
<1>3. OverlayInv' /\ CoverInv'
  BY CoverKept DEF PickPhoto, IInv
<1>4. Grown(main', main) /\ main' = main /\ arriving' = Len(main)
  BY <1>1, GrownQueues DEF PickPhoto, Presenting
<1>5. Unhandled' = Unhandled /\ NumbersInv'
  BY <1>1, <1>4, NothingHandled DEF PickPhoto, IInv
<1>6. SpareInv'
  BY <1>2, <1>5, SpareUsed DEF PickPhoto, IInv
<1>7. TypeOK'
  <2>1. [pick |-> New, turns |-> 0] \in Images
    BY <1>2, BoundsAssumption DEF Images
  <2>2. image' \in [Screens -> Images \cup {NoImage}]
    BY <2>1 DEF PickPhoto, IInv, TypeOK
  <2>3. QED
    BY <1>1, <1>2, <1>4, <2>2, TypesNext DEF PickPhoto, photos, history, IInv, TypeOK, Overlays
<1>8. PhotosInv'
  BY <1>5, PhotosKept DEF PickPhoto, photos, history, IInv
<1>9. HideInv'
  BY <1>1, <1>4, HideKept DEF PickPhoto, history, IInv
<1>10. ImagesInv'
  <2>1. [pick |-> New, turns |-> 0] \in Images
    BY <1>2, BoundsAssumption DEF Images
  <2>2. \A t \in Screens : t # New => image'[t] = image[t]
    BY DEF PickPhoto, IInv, TypeOK
  <2>3. image'[New] \in Images
    BY <1>2, <2>1 DEF PickPhoto, IInv, TypeOK
  <2>4. QED
    BY <1>2, <2>2, <2>3 DEF ImagesInv, IInv
<1>11. QED
  BY <1>3, <1>5, <1>6, <1>7, <1>8, <1>9, <1>10 DEF IInv

LEMMA TapLoginKeeps ==
    ASSUME IInv, NEW s \in Screens, TapLogin(s)
    PROVE  IInv'
<1> DEFINE r == [n |-> taps', kind |-> "login", by |-> s, image |-> NoImage]
<1>1. /\ main \in Seq(Blocks) /\ Len(main) \in Nat /\ overlay \in Overlays
      /\ disowned \subseteq Screens /\ requests \subseteq Requests /\ taps \in Nat
  BY BaseTypes DEF IInv
<1>2. /\ r \in Requests /\ r.n = taps + 1 /\ r.kind = "login" /\ r.by = s /\ r.image = NoImage
      /\ taps' = taps + 1 /\ taps' \in 0..MaxTaps /\ requests' = requests \cup {r}
      /\ requests \subseteq requests' /\ requests' \subseteq Requests
  BY FirstRequest DEF TapLogin, IInv
<1> HIDE DEF r
<1>3. /\ overlay' \in Overlays /\ disowned' \subseteq Screens /\ OverlayInv' /\ CoverInv'
  BY <1>1, Showing DEF TapLogin, IInv
<1>4. Grown(main', main) /\ main' = main
  BY <1>1, GrownQueues DEF TapLogin
<1>5. Unhandled' = Unhandled \cup {r} /\ NumbersInv'
  BY <1>1, <1>2, <1>4, Asking DEF IInv
<1>6. SpareInv'
  BY <1>2, <1>5, SpareAsked DEF TapLogin, screens, Unused, IInv
<1>7. TypeOK'
  BY <1>1, <1>2, <1>3, <1>4, TypesNext, BaseTypes DEF TapLogin, screens, photos, history, IInv, TypeOK
<1>8. PhotosInv'
  <2>1. ~Uploads(r)
    BY <1>2 DEF Uploads
  <2>2. QED
    BY <1>5, <2>1, PhotosKept DEF TapLogin, photos, history, IInv
<1>9. HideInv'
  <2>1. WillHide(s)'
    BY <1>2 DEF WillHide
  <2>2. QED
    BY <1>1, <1>2, <1>4, <2>1, HideShown DEF TapLogin, history, IInv
<1>10. ImagesInv'
  BY ImagesKept DEF TapLogin, screens, SegueToTabs, IInv
<1>11. QED
  BY <1>3, <1>5, <1>6, <1>7, <1>8, <1>9, <1>10 DEF IInv

LEMMA TapRegisterKeeps ==
    ASSUME IInv, NEW s \in Screens, TapRegister(s)
    PROVE  IInv'
<1>1. /\ main \in Seq(Blocks) /\ Len(main) \in Nat /\ overlay \in Overlays
      /\ disowned \subseteq Screens /\ requests \subseteq Requests /\ taps \in Nat
  BY BaseTypes DEF IInv
<1>2. /\ overlay' \in Overlays /\ disowned' \subseteq Screens /\ OverlayInv' /\ CoverInv'
  BY <1>1, Showing DEF TapRegister, IInv
<1>3. ImagesInv'
  BY ImagesKept DEF TapRegister, screens, IInv
<1>4. CASE Spare /\ Tap /\ Ask("create", s, NoImage) /\ UNCHANGED <<main, alert, arriving>>
  <2> DEFINE r == [n |-> taps', kind |-> "create", by |-> s, image |-> NoImage]
  <2>1. /\ r \in Requests /\ r.n = taps + 1 /\ r.kind = "create" /\ r.by = s /\ r.image = NoImage
        /\ taps' = taps + 1 /\ taps' \in 0..MaxTaps /\ requests' = requests \cup {r}
        /\ requests \subseteq requests' /\ requests' \subseteq Requests
    BY <1>4, FirstRequest DEF IInv
  <2> HIDE DEF r
  <2>2. Grown(main', main) /\ main' = main
    BY <1>1, <1>4, GrownQueues
  <2>3. Unhandled' = Unhandled \cup {r} /\ NumbersInv'
    BY <1>1, <2>1, <2>2, Asking DEF IInv
  <2>4. SpareInv'
    BY <1>4, <2>1, <2>3, SpareAsked DEF TapRegister, screens, Unused, IInv
  <2>5. TypeOK'
    BY <1>1, <1>2, <1>4, <2>1, <2>2, TypesNext, BaseTypes
    DEF TapRegister, screens, photos, history, IInv, TypeOK
  <2>6. PhotosInv'
    <3>1. ~Uploads(r)
      BY <2>1 DEF Uploads
    <3>2. QED
      BY <2>3, <3>1, PhotosKept DEF TapRegister, photos, history, IInv
  <2>7. HideInv'
    <3>1. WillHide(s)'
      BY <2>1 DEF WillHide
    <3>2. QED
      BY <1>1, <2>1, <2>2, <3>1, HideShown DEF TapRegister, history, IInv
  <2>8. QED
    BY <1>2, <1>3, <2>3, <2>4, <2>5, <2>6, <2>7 DEF IInv
<1>5. CASE main' = HideLoading(main) /\ alert' = TRUE /\ Presenting(main') /\ UNCHANGED <<requests, taps>>
  <2>1. Grown(main', main) /\ main' \in Seq(Blocks) /\ arriving' = Len(main') /\ Len(main') \in Nat
    BY <1>1, <1>5, GrownQueues DEF Presenting, Grown
  <2>2. Unhandled' = Unhandled /\ NumbersInv'
    BY <1>1, <1>5, <2>1, NothingHandled DEF IInv
  <2>3. SpareInv'
    BY <2>2, SpareKept DEF TapRegister, screens, Unused, IInv
  <2>4. TypeOK'
    BY <1>1, <1>2, <1>5, <2>1, TypesNext, BaseTypes
    DEF TapRegister, screens, photos, history, IInv, TypeOK
  <2>5. PhotosInv'
    BY <2>2, PhotosKept DEF TapRegister, photos, history, IInv
  <2>6. HideInv'
    BY <1>1, <1>2, <1>5, HideQueued
  <2>7. QED
    BY <1>2, <1>3, <2>2, <2>3, <2>4, <2>5, <2>6 DEF IInv
<1>6. QED
  BY <1>4, <1>5 DEF TapRegister

LEMMA DismissAlertKeeps ==
    ASSUME IInv, DismissAlert
    PROVE  IInv'
<1>1. main \in Seq(Blocks) /\ Len(main) \in Nat
  BY BaseTypes DEF IInv
<1>2. OverlayInv' /\ CoverInv'
  BY CoverKept DEF DismissAlert, IInv
<1>3. Grown(main', main) /\ main' = main
  BY <1>1, GrownQueues DEF DismissAlert
<1>4. Unhandled' = Unhandled /\ NumbersInv'
  BY <1>1, <1>3, NothingHandled DEF DismissAlert, IInv
<1>5. SpareInv'
  BY <1>4, SpareKept DEF DismissAlert, screens, Unused, IInv
<1>6. TypeOK'
  BY BaseTypes, TypesNext DEF DismissAlert, screens, photos, history, IInv, TypeOK
<1>7. PhotosInv'
  BY <1>4, PhotosKept DEF DismissAlert, photos, history, IInv
<1>8. HideInv'
  BY <1>1, <1>3, HideKept DEF DismissAlert, history, IInv
<1>9. ImagesInv'
  BY ImagesKept DEF DismissAlert, screens, SegueToTabs, IInv
<1>10. QED
  BY <1>2, <1>4, <1>5, <1>6, <1>7, <1>8, <1>9 DEF IInv

LEMMA TapSubmitKeeps ==
    ASSUME IInv, NEW s \in Screens, TapSubmit(s)
    PROVE  IInv'
<1>1. /\ main \in Seq(Blocks) /\ Len(main) \in Nat /\ overlay \in Overlays
      /\ disowned \subseteq Screens /\ requests \subseteq Requests /\ taps \in Nat
      /\ arriving \in Nat /\ arriving <= Len(main)
      /\ kind \in [Screens -> Kinds] /\ front \in Seq(Presented(kind))
  BY BaseTypes DEF IInv
<1>2. /\ overlay' \in Overlays /\ disowned' \subseteq Screens /\ OverlayInv' /\ CoverInv'
  BY <1>1, Showing DEF TapSubmit, IInv
<1>3. /\ Grown(main', main) /\ main' = HideLoading(main)
      /\ main' \in Seq(Blocks) /\ Len(main') \in Nat /\ Len(main') >= Len(main)
  BY <1>1, GrownQueues DEF TapSubmit, Grown
<1>4. Unhandled' = Unhandled /\ NumbersInv'
  BY <1>1, <1>3, NothingHandled DEF TapSubmit, IInv
<1>5. /\ kind' = kind /\ front' \in Seq(Presented(kind)) /\ base' \in {"root", "tabs"}
      /\ alert' \in BOOLEAN /\ arriving' \in {0, arriving}
  <2>1. CASE UNCHANGED <<screens, alert, arriving>>
    BY <1>1, <2>1 DEF screens, IInv, TypeOK
  <2>2. CASE SegueToTabs
    BY <2>2, NoneInFront DEF SegueToTabs
  <2>3. QED
    BY <2>1, <2>2 DEF TapSubmit
<1>6. SpareInv'
  BY <1>4, <1>5, SpareKept DEF Unused, IInv
<1>7. TypeOK'
  BY <1>1, <1>2, <1>3, <1>5, TypesNext DEF TapSubmit, photos, history, IInv, TypeOK
<1>8. PhotosInv'
  BY <1>4, PhotosKept DEF TapSubmit, photos, history, IInv
<1>9. HideInv'
  BY <1>1, <1>2, <1>3, HideQueued
<1>10. ImagesInv'
  BY ImagesKept DEF TapSubmit, screens, SegueToTabs, IInv
<1>11. QED
  BY <1>2, <1>4, <1>6, <1>7, <1>8, <1>9, <1>10 DEF IInv

LEMMA TapRotateKeeps ==
    ASSUME IInv, NEW s \in Screens, TapRotate(s)
    PROVE  IInv'
<1>1. main \in Seq(Blocks) /\ Len(main) \in Nat
  BY BaseTypes DEF IInv
<1>2. OverlayInv' /\ CoverInv'
  BY CoverKept DEF TapRotate, IInv
<1>3. Grown(main', main) /\ main' = main
  BY <1>1, GrownQueues DEF TapRotate
<1>4. Unhandled' = Unhandled /\ NumbersInv'
  BY <1>1, <1>3, NothingHandled DEF TapRotate, IInv
<1>5. SpareInv'
  BY <1>4, SpareKept DEF TapRotate, screens, Unused, IInv
<1>6. image' \in [Screens -> Images \cup {NoImage}] /\ ImagesInv'
  <2> DEFINE i == image[s]
  <2>1. i \in Images /\ i.turns < MaxTurns
    BY DEF TapRotate, Touchable, IInv, ImagesInv
  <2>2. [i EXCEPT !.turns = @ + 1] \in Images
    BY <2>1, BoundsAssumption DEF Images
  <2>3. image' = [image EXCEPT ![s] = [i EXCEPT !.turns = @ + 1]]
    BY DEF TapRotate
  <2>4. image \in [Screens -> Images \cup {NoImage}]
    BY DEF IInv, TypeOK
  <2> HIDE DEF i
  <2>5. QED
    BY <2>2, <2>3, <2>4 DEF TapRotate, screens, ImagesInv, IInv
<1>7. TypeOK'
  BY <1>6, BaseTypes, TypesNext DEF TapRotate, screens, photos, history, IInv, TypeOK
<1>8. PhotosInv'
  BY <1>4, PhotosKept DEF TapRotate, photos, history, IInv
<1>9. HideInv'
  BY <1>1, <1>3, HideKept DEF TapRotate, history, IInv
<1>10. QED
  BY <1>2, <1>4, <1>5, <1>6, <1>7, <1>8, <1>9 DEF IInv

LEMMA SwipeAwayKeeps ==
    ASSUME IInv, SwipeAway
    PROVE  IInv'
<1>1. /\ main \in Seq(Blocks) /\ Len(main) \in Nat
      /\ front \in Seq(Presented(kind)) /\ front # <<>>
  BY BaseTypes DEF IInv, SwipeAway
<1>2. OverlayInv' /\ CoverInv'
  BY CoverKept DEF SwipeAway, IInv
<1>3. Grown(main', main) /\ main' = main
  BY <1>1, GrownQueues DEF SwipeAway
<1>4. Unhandled' = Unhandled /\ NumbersInv'
  BY <1>1, <1>3, NothingHandled DEF SwipeAway, IInv
<1>5. SpareInv'
  BY <1>4, SpareKept DEF SwipeAway, Unused, IInv
<1>6. front' \in Seq(Presented(kind))
  BY <1>1, FrontGone DEF SwipeAway
<1>7. TypeOK'
  BY <1>6, BaseTypes, TypesNext DEF SwipeAway, photos, history, IInv, TypeOK
<1>8. PhotosInv'
  BY <1>4, PhotosKept DEF SwipeAway, photos, history, IInv
<1>9. HideInv'
  BY <1>1, <1>3, HideKept DEF SwipeAway, history, IInv
<1>10. ImagesInv'
  BY ImagesKept DEF SwipeAway, screens, SegueToTabs, IInv
<1>11. QED
  BY <1>2, <1>4, <1>5, <1>7, <1>8, <1>9, <1>10 DEF IInv

LEMMA TapDoneKeeps ==
    ASSUME IInv, NEW s \in Screens, TapDone(s)
    PROVE  IInv'
<1>1. /\ main \in Seq(Blocks) /\ Len(main) \in Nat /\ overlay \in Overlays
      /\ disowned \subseteq Screens /\ requests \subseteq Requests /\ taps \in Nat
  BY BaseTypes DEF IInv
<1>2. /\ overlay' \in Overlays /\ disowned' \subseteq Screens /\ OverlayInv' /\ CoverInv'
  BY <1>1, Showing DEF TapDone, IInv
<1>3. Grown(main', main) /\ main' = main
  BY <1>1, GrownQueues DEF TapDone
<1>4. ImagesInv'
  BY ImagesKept DEF TapDone, screens, IInv
<1>5. image[s] \in Images
  BY DEF TapDone, Touchable, IInv, ImagesInv
<1>6. /\ confirmed' \subseteq Images /\ image[s] \in confirmed' /\ confirmed \subseteq confirmed'
      /\ taps' \in 0..MaxTaps
  BY <1>1, <1>5, BoundsAssumption DEF TapDone, Tap, IInv, TypeOK
<1>7. CASE Ask("put", s, image[s]) /\ UNCHANGED unencodable
  <2> DEFINE r == [n |-> taps', kind |-> "put", by |-> s, image |-> image[s]]
  <2>1. /\ r \in Requests /\ r.n = taps + 1 /\ r.kind = "put" /\ r.by = s /\ r.image = image[s]
        /\ taps' = taps + 1 /\ taps' \in 0..MaxTaps /\ requests' = requests \cup {r}
        /\ requests \subseteq requests' /\ requests' \subseteq Requests
    BY <1>5, <1>7, FirstRequest DEF TapDone, IInv
  <2> HIDE DEF r
  <2>2. Unhandled' = Unhandled \cup {r} /\ NumbersInv'
    BY <1>1, <1>3, <2>1, Asking DEF IInv
  <2>3. SpareInv'
    BY <2>1, <2>2, SpareAsked DEF TapDone, screens, Unused, IInv
  <2>4. TypeOK'
    BY <1>1, <1>2, <1>3, <1>6, <1>7, <2>1, TypesNext, BaseTypes
    DEF TapDone, screens, photos, IInv, TypeOK
  <2>5. PhotosInv'
    BY <1>6, <2>1, <2>2, PhotosKept DEF TapDone, photos, IInv
  <2>6. HideInv'
    <3>1. WillHide(s)'
      BY <2>1 DEF WillHide
    <3>2. QED
      BY <1>1, <1>3, <1>7, <2>1, <3>1, HideShown DEF TapDone, IInv
  <2>7. QED
    BY <1>2, <1>4, <2>2, <2>3, <2>4, <2>5, <2>6 DEF IInv
<1>8. CASE unencodable' = unencodable \cup {s} /\ UNCHANGED requests
  <2>1. Unhandled' = Unhandled
    BY <1>3, <1>8 DEF Unhandled
  <2>2. NumbersInv'
    <3>1. taps' \in Nat /\ taps' >= taps
      BY <1>1 DEF TapDone, Tap
    <3>2. \A r \in requests : r.n \in Nat
      BY <1>1 DEF Requests
    <3>3. \A i \in 1..Len(main) : main[i].block = "answer" => main[i].request.n \in Nat
      <4>1. \A i \in 1..Len(main) : main[i] \in Blocks
        BY <1>1
      <4>2. QED
        BY <4>1, BlockKinds DEF Requests, Hide
    <3>4. QED
      BY <1>1, <1>3, <1>8, <3>1, <3>2, <3>3 DEF NumbersInv, IInv
  <2>3. SpareInv'
    BY <2>1, SpareKept DEF TapDone, screens, Unused, IInv
  <2>4. TypeOK'
    BY <1>1, <1>2, <1>3, <1>6, <1>8, TypesNext, BaseTypes
    DEF TapDone, screens, photos, IInv, TypeOK
  <2>5. PhotosInv'
    BY <1>6, <2>1, PhotosKept DEF TapDone, photos, IInv
  <2>6. HideInv'
    BY <1>1, <1>3, <1>8, HideShown DEF TapDone, IInv
  <2>7. QED
    BY <1>2, <1>4, <2>2, <2>3, <2>4, <2>5, <2>6 DEF IInv
<1>9. QED
  BY <1>7, <1>8 DEF TapDone

LEMMA RespondKeeps ==
    ASSUME IInv, NEW r \in requests, Respond(r)
    PROVE  IInv'
<1>1. /\ main \in Seq(Blocks) /\ Len(main) \in Nat /\ overlay \in Overlays
      /\ disowned \subseteq Screens /\ requests \subseteq Requests /\ taps \in Nat
      /\ arriving \in Nat /\ arriving <= Len(main)
  BY BaseTypes DEF IInv
<1>2. PICK ok \in BOOLEAN : main' = Append(main, Answer(r, ok))
  BY DEF Respond
<1>3. main' \in Seq(Blocks) /\ Unhandled' = Unhandled /\ NumbersInv'
  BY <1>1, <1>2, Answering DEF Respond, IInv
<1>4. OverlayInv' /\ CoverInv'
  BY CoverKept DEF Respond, IInv
<1>5. SpareInv'
  BY <1>3, SpareKept DEF Respond, screens, Unused, IInv
<1>6. /\ Len(main') = Len(main) + 1 /\ main'[Len(main) + 1] = Answer(r, ok)
      /\ \A i \in 1..Len(main) : main'[i] = main[i]
  BY <1>1, <1>2, BlockKinds, Appended
<1>7. TypeOK'
  BY <1>1, <1>3, <1>6, TypesNext, BaseTypes DEF Respond, screens, photos, history, IInv, TypeOK
<1>8. PhotosInv'
  BY <1>3, PhotosKept DEF Respond, photos, history, IInv
<1>9. ImagesInv'
  BY ImagesKept DEF Respond, screens, IInv
<1>10. HideInv'
  <2>1. ASSUME NEW s \in Screens, WillHide(s) PROVE WillHide(s)'
    <3>1. CASE \E i \in 1..Len(main) :
                 \/ main[i] = Hide
                 \/ main[i].block = "answer" /\ main[i].request.kind # "url" /\ main[i].request.by = s
      BY <1>1, <1>6, <3>1 DEF WillHide, Hide
    <3>2. CASE \E x \in requests : x.kind # "url" /\ x.by = s
      <4>1. PICK x \in requests : x.kind # "url" /\ x.by = s
        BY <3>2
      <4>2. CASE x # r
        BY <4>1, <4>2 DEF Respond, WillHide
      <4>3. CASE x = r
        <5>1. Answer(r, ok).block = "answer" /\ Answer(r, ok).request = r
          BY <1>1, BlockKinds
        <5>2. Len(main) + 1 \in 1..Len(main')
          BY <1>1, <1>6
        <5>3. QED
          BY <1>6, <4>1, <4>3, <5>1, <5>2 DEF WillHide, Hide
      <4>4. QED
        BY <4>2, <4>3
    <3>3. QED
      BY <2>1, <3>1, <3>2 DEF WillHide
  <2>2. QED
    BY <2>1 DEF Respond, history, HideInv, Covered, IInv
<1>11. QED
  BY <1>3, <1>4, <1>5, <1>7, <1>8, <1>9, <1>10 DEF IInv

LEMMA RunHideKeeps ==
    ASSUME IInv, RunHide
    PROVE  IInv'
<1>1. /\ main \in Seq(Blocks) /\ Len(main) \in Nat /\ overlay \in Overlays
      /\ disowned \subseteq Screens /\ arriving \in Nat /\ arriving <= Len(main)
      /\ kind \in [Screens -> Kinds] /\ front \in Seq(Presented(kind))
      /\ main # <<>> /\ main' = Tail(main)
  BY BaseTypes DEF IInv, RunHide
<1>2. main' \in Seq(Blocks) /\ Len(main') = Len(main) - 1 /\ Len(main) # 0
  BY <1>1, TailShifts
<1>3. Unhandled' = Unhandled /\ NumbersInv'
  BY <1>1, HideHandled DEF RunHide, IInv
<1>4. /\ overlay' \in Overlays /\ ~overlay'.attached
      /\ \A t \in Screens : Covered(overlay', t) => t \in disowned
  BY <1>1, Removing DEF RunHide, IInv
<1>5. OverlayInv' /\ CoverInv'
  BY <1>4 DEF RunHide, OverlayInv, CoverInv, Covered
<1>6. SpareInv'
  BY <1>3, SpareKept DEF RunHide, screens, Unused, IInv
<1>7. arriving' \in Nat /\ arriving' <= Len(main')
  BY <1>1, <1>2 DEF RunHide, BlockRun
<1>8. TypeOK'
  BY <1>1, <1>2, <1>4, <1>7, TypesNext, BaseTypes
  DEF RunHide, screens, photos, history, IInv, TypeOK
<1>9. PhotosInv'
  BY <1>3, PhotosKept DEF RunHide, photos, history, IInv
<1>10. ImagesInv'
  BY ImagesKept DEF RunHide, screens, IInv
<1>11. HideInv'
  BY <1>4 DEF RunHide, history, HideInv, Covered
<1>12. QED
  BY <1>3, <1>5, <1>6, <1>8, <1>9, <1>10, <1>11 DEF IInv

(***************************************************************************)
(* The completion handlers.                                                *)
(***************************************************************************)

\* An answer at the head of the main queue.
LEMMA AnswerAtHead ==
    ASSUME TypeOK, NEW k, NextAnswer(k)
    PROVE  /\ main # <<>> /\ Head(main).block = "answer"
           /\ Asked \in Requests /\ Asked.kind = k /\ Asked.by \in Screens
           /\ Asked \in Unhandled
           /\ Tail(main) \in Seq(Blocks) /\ Len(main) \in Nat \ {0}
           /\ Len(Tail(main)) = Len(main) - 1
           /\ Grown(Tail(main), Tail(main))
           /\ Grown(HideLoading(Tail(main)), Tail(main))
           /\ arriving \in Nat /\ arriving <= Len(main)
<1>1. main \in Seq(Blocks) /\ main # <<>> /\ Head(main).block = "answer" /\ Asked.kind = k
  BY BaseTypes DEF NextAnswer, Asked
<1>2. /\ Tail(main) \in Seq(Blocks) /\ Len(main) \in Nat \ {0}
      /\ Len(Tail(main)) = Len(main) - 1
      /\ Head(main) = main[1] /\ Head(main) \in Blocks
  BY <1>1, TailShifts
<1>3. Asked \in Requests
  BY <1>1, <1>2, BlockKinds DEF Asked, Hide
<1>4. Asked.by \in Screens
  BY <1>3 DEF Requests
<1>5. Asked \in Unhandled
  <2>1. 1 \in 1..Len(main)
    BY <1>2
  <2>2. QED
    BY <1>1, <1>2, <2>1, UnhandledMembers DEF Asked
<1>6. QED
  BY <1>1, <1>2, <1>3, <1>4, <1>5, GrownQueues, BaseTypes

\* The main queue after a handler that adds blocks that hide, and how long until
\* what was presented takes touches.
LEMMA QueueAfter ==
    ASSUME NEW n \in Nat \ {0}, NEW q, Len(q) = n - 1, Grown(main', q),
           arriving \in Nat, arriving <= n, BlockRun \/ Presenting(main')
    PROVE  main' \in Seq(Blocks) /\ arriving' \in Nat /\ arriving' <= Len(main')
<1>1. main' \in Seq(Blocks) /\ Len(main') \in Nat /\ Len(main') >= n - 1
  BY DEF Grown
<1>2. QED
  BY <1>1 DEF BlockRun, Presenting

\* The request a chain goes on to.
LEMMA NextRequest ==
    ASSUME requests \subseteq Requests, Asked \in Requests,
           NEW k \in {"signIn", "url"}, Asked.kind # k, GoOn(k),
           NEW r, r = [Asked EXCEPT !.kind = k]
    PROVE  /\ r \in Requests /\ r.n = Asked.n /\ r.kind = k /\ r.by = Asked.by
           /\ r.image = Asked.image /\ r # Asked
           /\ requests' = requests \cup {r} /\ requests' \subseteq Requests
<1>1. r \in Requests /\ r.n = Asked.n /\ r.kind = k /\ r.by = Asked.by /\ r.image = Asked.image
  BY DEF Requests
<1>2. QED
  BY <1>1 DEF GoOn

LEMMA RunLoginAnswerKeeps ==
    ASSUME IInv, RunLoginAnswer
    PROVE  IInv'
<1>1. /\ main \in Seq(Blocks) /\ requests \subseteq Requests
      /\ kind \in [Screens -> Kinds] /\ front \in Seq(Presented(kind))
  BY BaseTypes DEF IInv
<1>2. /\ main # <<>> /\ Head(main).block = "answer" /\ Tail(main) \in Seq(Blocks)
      /\ Len(main) \in Nat \ {0} /\ Len(Tail(main)) = Len(main) - 1
      /\ Grown(main', Tail(main)) /\ main' = HideLoading(Tail(main))
      /\ arriving \in Nat /\ arriving <= Len(main)
  BY AnswerAtHead DEF RunLoginAnswer, IInv
<1>3. Unhandled' = Unhandled \ {Asked} /\ NumbersInv'
  BY <1>1, <1>2, Handled DEF RunLoginAnswer, Asked, IInv
<1>4. OverlayInv' /\ CoverInv'
  BY CoverKept DEF RunLoginAnswer, IInv
<1>5. /\ kind' = kind /\ front' \in Seq(Presented(kind)) /\ base' \in {"root", "tabs"}
      /\ alert' \in BOOLEAN
      /\ main' \in Seq(Blocks) /\ arriving' \in Nat /\ arriving' <= Len(main')
  <2>1. CASE SegueToTabs
    <3>1. main' \in Seq(Blocks) /\ Len(main') \in Nat
      BY <1>2 DEF Grown
    <3>2. front' \in Seq(Presented(kind))
      BY <2>1, NoneInFront DEF SegueToTabs
    <3>3. kind' = kind /\ base' \in {"root", "tabs"} /\ alert' \in BOOLEAN
      BY <2>1 DEF SegueToTabs
    <3>4. arriving' = 0
      BY <2>1 DEF SegueToTabs
    <3>5. arriving' \in Nat /\ arriving' <= Len(main')
      BY <3>1, <3>4
    <3>6. QED
      BY <3>1, <3>2, <3>3, <3>5
  <2>2. CASE SayFailed(Asked.by) /\ UNCHANGED screens
    <3>1. BlockRun \/ Presenting(main')
      BY <2>2 DEF SayFailed
    <3>2. alert' \in BOOLEAN
      BY <2>2 DEF SayFailed
    <3>3. QED
      BY <1>1, <1>2, <2>2, <3>1, <3>2, QueueAfter DEF screens, IInv, TypeOK
  <2>3. QED
    BY <2>1, <2>2 DEF RunLoginAnswer
<1>6. SpareInv'
  BY <1>3, <1>5, SpareKept DEF Unused, IInv
<1>7. TypeOK'
  BY <1>5, TypesNext, BaseTypes DEF RunLoginAnswer, photos, history, IInv, TypeOK
<1>8. PhotosInv'
  BY <1>3, PhotosKept DEF RunLoginAnswer, photos, history, IInv
<1>9. ImagesInv'
  BY <1>5, ImagesKept DEF RunLoginAnswer, IInv
<1>10. HideInv'
  BY <1>2, <1>4, HideQueued
<1>11. QED
  BY <1>3, <1>4, <1>6, <1>7, <1>8, <1>9, <1>10 DEF IInv

LEMMA RunCreateAnswerKeeps ==
    ASSUME IInv, RunCreateAnswer
    PROVE  IInv'
<1>1. /\ main \in Seq(Blocks) /\ requests \subseteq Requests /\ overlay \in Overlays
      /\ disowned \subseteq Screens
  BY BaseTypes DEF IInv
<1>2. /\ main # <<>> /\ Head(main).block = "answer" /\ Tail(main) \in Seq(Blocks)
      /\ Len(main) \in Nat \ {0} /\ Len(Tail(main)) = Len(main) - 1
      /\ Grown(Tail(main), Tail(main)) /\ Grown(HideLoading(Tail(main)), Tail(main))
      /\ Asked \in Requests /\ Asked.kind = "create" /\ Asked.by \in Screens
      /\ Asked \in Unhandled /\ arriving \in Nat /\ arriving <= Len(main)
  BY AnswerAtHead DEF RunCreateAnswer, IInv
<1>3. ImagesInv'
  BY ImagesKept DEF RunCreateAnswer, screens, IInv
<1>4. CASE Show(Asked.by) /\ GoOn("signIn") /\ main' = Tail(main) /\ BlockRun /\ UNCHANGED alert
  <2> DEFINE r == [Asked EXCEPT !.kind = "signIn"]
  <2>1. /\ r \in Requests /\ r.n = Asked.n /\ r.kind = "signIn" /\ r.by = Asked.by /\ r # Asked
        /\ requests' = requests \cup {r} /\ requests' \subseteq Requests
    BY <1>1, <1>2, <1>4, NextRequest
  <2> HIDE DEF r
  <2>2. /\ overlay' \in Overlays /\ disowned' \subseteq Screens /\ OverlayInv' /\ CoverInv'
        /\ \A t \in Screens : Covered(overlay', t) /\ t \notin disowned' =>
             t = Asked.by \/ (Covered(overlay, t) /\ t \notin disowned)
    BY <1>1, <1>2, <1>4, Showing DEF IInv
  <2>3. Unhandled' = (Unhandled \ {Asked}) \cup {r} /\ NumbersInv'
    BY <1>1, <1>2, <1>4, <2>1, GoingOn DEF RunCreateAnswer, Asked, IInv
  <2>4. SpareInv'
    BY <1>2, <2>1, <2>3, SpareGoingOn DEF RunCreateAnswer, screens, Unused, IInv
  <2>5. main' \in Seq(Blocks) /\ arriving' \in Nat /\ arriving' <= Len(main')
    BY <1>2, <1>4, QueueAfter
  <2>6. TypeOK'
    BY <1>4, <2>1, <2>2, <2>5, TypesNext, BaseTypes
    DEF RunCreateAnswer, screens, photos, history, IInv, TypeOK
  <2>7. PhotosInv'
    <3>1. ~Uploads(r)
      BY <2>1 DEF Uploads
    <3>2. QED
      BY <2>3, <3>1, PhotosKept DEF RunCreateAnswer, photos, history, IInv
  <2>8. HideInv'
    <3>1. ASSUME NEW t \in Screens, Covered(overlay', t), t \notin unencodable' \cup disowned'
          PROVE  WillHide(t)'
      <4>1. CASE t = Asked.by
        BY <2>1, <4>1 DEF WillHide
      <4>2. CASE t # Asked.by
        <5>1. WillHide(t)
          BY <2>2, <3>1, <4>2 DEF RunCreateAnswer, history, HideInv, IInv
        <5>2. QED
          BY <1>1, <1>2, <1>4, <2>1, <4>2, <5>1, HideHandledElse DEF Asked
      <4>3. QED
        BY <4>1, <4>2
    <3>2. QED
      BY <3>1 DEF HideInv, Covered
  <2>9. QED
    BY <1>3, <2>2, <2>3, <2>4, <2>6, <2>7, <2>8 DEF IInv
<1>5. CASE /\ UNCHANGED <<overlay, requests, disowned>>
           /\ main' = HideLoading(Tail(main))
           /\ SayFailed(Asked.by)
  <2>1. Unhandled' = Unhandled \ {Asked} /\ NumbersInv'
    BY <1>1, <1>2, <1>5, Handled DEF RunCreateAnswer, Asked, IInv
  <2>2. OverlayInv' /\ CoverInv'
    BY <1>5, CoverKept DEF IInv
  <2>3. SpareInv'
    BY <2>1, SpareKept DEF RunCreateAnswer, screens, Unused, IInv
  <2>4. main' \in Seq(Blocks) /\ arriving' \in Nat /\ arriving' <= Len(main') /\ alert' \in BOOLEAN
    <3>1. BlockRun \/ Presenting(main')
      BY <1>5 DEF SayFailed
    <3>2. alert' \in BOOLEAN
      BY <1>5 DEF SayFailed
    <3>3. QED
      BY <1>2, <1>5, <3>1, <3>2, QueueAfter
  <2>5. TypeOK'
    BY <1>5, <2>4, TypesNext, BaseTypes
    DEF RunCreateAnswer, screens, photos, history, IInv, TypeOK
  <2>6. PhotosInv'
    BY <2>1, PhotosKept DEF RunCreateAnswer, photos, history, IInv
  <2>7. HideInv'
    BY <1>2, <1>5, <2>2, HideQueued
  <2>8. QED
    BY <1>3, <2>1, <2>2, <2>3, <2>5, <2>6, <2>7 DEF IInv
<1>6. QED
  BY <1>4, <1>5 DEF RunCreateAnswer

LEMMA RunSignInAnswerKeeps ==
    ASSUME IInv, RunSignInAnswer
    PROVE  IInv'
<1>1. /\ main \in Seq(Blocks) /\ requests \subseteq Requests
      /\ kind \in [Screens -> Kinds] /\ front \in Seq(Presented(kind))
  BY BaseTypes DEF IInv
<1>2. /\ main # <<>> /\ Head(main).block = "answer" /\ Tail(main) \in Seq(Blocks)
      /\ Len(main) \in Nat \ {0} /\ Len(Tail(main)) = Len(main) - 1
      /\ Grown(main', Tail(main)) /\ main' = HideLoading(Tail(main))
      /\ Asked.kind = "signIn" /\ Asked \in Unhandled
      /\ arriving \in Nat /\ arriving <= Len(main)
  BY AnswerAtHead DEF RunSignInAnswer, IInv
<1>3. Unhandled' = Unhandled \ {Asked} /\ NumbersInv'
  BY <1>1, <1>2, Handled DEF RunSignInAnswer, Asked, IInv
<1>4. OverlayInv' /\ CoverInv'
  BY CoverKept DEF RunSignInAnswer, IInv
<1>5. main' \in Seq(Blocks) /\ arriving' \in Nat /\ arriving' <= Len(main')
  <2>1. BlockRun \/ Presenting(main')
    BY DEF RunSignInAnswer
  <2>2. QED
    BY <1>2, <2>1, QueueAfter
<1>6. /\ SpareInv'
      /\ kind' \in [Screens -> Kinds] /\ front' \in Seq(Presented(kind')) /\ base' = base
      /\ \A t \in Screens : kind'[t] = "rotate" => kind[t] = "rotate"
  <2>1. CASE Open("personal")
    <3>1. Asked \in Registering
      BY <1>2 DEF Registering
    <3>2. Unused # {}
      BY <3>1, Sparing DEF IInv, SpareInv
    <3>3. /\ New \in Unused /\ Unused' = Unused \ {New}
          /\ kind' \in [Screens -> Kinds] /\ front' \in Seq(Presented(kind')) /\ base' = base
          /\ \A t \in Screens : kind'[t] = "rotate" => kind[t] = "rotate"
      BY <1>1, <2>1, <3>2, Opening DEF Kinds
    <3>4. SpareInv'
      BY <1>3, <3>1, <3>3, SpareArrived DEF IInv
    <3>5. QED
      BY <3>3, <3>4
  <2>2. CASE UNCHANGED screens
    BY <1>1, <1>3, <2>2, SpareKept DEF screens, Unused, IInv
  <2>3. QED
    BY <2>1, <2>2 DEF RunSignInAnswer
<1>7. TypeOK'
  BY <1>5, <1>6, TypesNext, BaseTypes DEF RunSignInAnswer, photos, history, IInv, TypeOK
<1>8. PhotosInv'
  BY <1>3, PhotosKept DEF RunSignInAnswer, photos, history, IInv
<1>9. ImagesInv'
  BY <1>6, ImagesKept DEF RunSignInAnswer, IInv
<1>10. HideInv'
  BY <1>2, <1>4, HideQueued
<1>11. QED
  BY <1>3, <1>4, <1>6, <1>7, <1>8, <1>9, <1>10 DEF IInv

LEMMA RunPutAnswerKeeps ==
    ASSUME IInv, RunPutAnswer
    PROVE  IInv'
<1>1. main \in Seq(Blocks) /\ requests \subseteq Requests
  BY BaseTypes DEF IInv
<1>2. /\ main # <<>> /\ Head(main).block = "answer" /\ Tail(main) \in Seq(Blocks)
      /\ Len(main) \in Nat \ {0} /\ Len(Tail(main)) = Len(main) - 1
      /\ Grown(main', Tail(main)) /\ main' = HideLoading(Tail(main))
      /\ Asked \in Requests /\ Asked.kind = "put" /\ Asked \in Unhandled
      /\ arriving \in Nat /\ arriving <= Len(main)
  BY AnswerAtHead DEF RunPutAnswer, IInv
<1>3. OverlayInv' /\ CoverInv'
  BY CoverKept DEF RunPutAnswer, IInv
<1>4. main' \in Seq(Blocks) /\ arriving' \in Nat /\ arriving' <= Len(main')
  BY <1>2, QueueAfter DEF RunPutAnswer
<1>5. NumbersInv' /\ SpareInv' /\ PhotosInv' /\ requests' \subseteq Requests
  <2>1. CASE GoOn("url")
    <3> DEFINE r == [Asked EXCEPT !.kind = "url"]
    <3>1. /\ r \in Requests /\ r.n = Asked.n /\ r.kind = "url" /\ r.image = Asked.image /\ r # Asked
          /\ requests' = requests \cup {r} /\ requests' \subseteq Requests
      BY <1>1, <1>2, <2>1, NextRequest
    <3> HIDE DEF r
    <3>2. Unhandled' = (Unhandled \ {Asked}) \cup {r} /\ NumbersInv'
      BY <1>1, <1>2, <3>1, GoingOn DEF RunPutAnswer, Asked, IInv
    <3>3. SpareInv'
      BY <1>2, <3>1, <3>2, SpareGoingOn DEF RunPutAnswer, screens, Unused, IInv
    <3>4. r.image \in confirmed
      BY <1>2, <3>1 DEF Uploads, PhotosInv, IInv
    <3>5. PhotosInv'
      BY <3>2, <3>4, PhotosKept DEF RunPutAnswer, photos, history, IInv
    <3>6. QED
      BY <3>1, <3>2, <3>3, <3>5
  <2>2. CASE UNCHANGED requests
    <3>1. Unhandled' = Unhandled \ {Asked} /\ NumbersInv'
      BY <1>1, <1>2, <2>2, Handled DEF RunPutAnswer, Asked, IInv
    <3>2. SpareInv'
      BY <3>1, SpareKept DEF RunPutAnswer, screens, Unused, IInv
    <3>3. PhotosInv'
      BY <3>1, PhotosKept DEF RunPutAnswer, photos, history, IInv
    <3>4. QED
      BY <1>1, <2>2, <3>1, <3>2, <3>3
  <2>3. QED
    BY <2>1, <2>2 DEF RunPutAnswer
<1>6. TypeOK'
  BY <1>4, <1>5, TypesNext, BaseTypes
  DEF RunPutAnswer, screens, photos, history, IInv, TypeOK
<1>7. ImagesInv'
  BY ImagesKept DEF RunPutAnswer, screens, IInv
<1>8. HideInv'
  BY <1>2, <1>3, HideQueued
<1>9. QED
  BY <1>3, <1>5, <1>6, <1>7, <1>8 DEF IInv

LEMMA RunURLAnswerKeeps ==
    ASSUME IInv, RunURLAnswer
    PROVE  IInv'
<1>1. /\ main \in Seq(Blocks) /\ requests \subseteq Requests
      /\ kind \in [Screens -> Kinds] /\ front \in Seq(Presented(kind))
  BY BaseTypes DEF IInv
<1>2. /\ main # <<>> /\ Head(main).block = "answer" /\ Tail(main) \in Seq(Blocks)
      /\ Len(main) \in Nat \ {0} /\ Len(Tail(main)) = Len(main) - 1
      /\ main' = Tail(main) /\ Grown(main', Tail(main))
      /\ Asked \in Requests /\ Asked.kind = "url" /\ Asked \in Unhandled
      /\ arriving \in Nat /\ arriving <= Len(main)
  BY AnswerAtHead DEF RunURLAnswer, IInv
<1>3. Unhandled' = Unhandled \ {Asked} /\ NumbersInv'
  BY <1>1, <1>2, Handled DEF RunURLAnswer, Asked, IInv
<1>4. OverlayInv' /\ CoverInv'
  BY CoverKept DEF RunURLAnswer, IInv
<1>5. main' \in Seq(Blocks) /\ arriving' \in Nat /\ arriving' <= Len(main')
  BY <1>2, QueueAfter DEF RunURLAnswer
<1>6. SpareInv'
  BY <1>3, SpareKept DEF RunURLAnswer, Unused, IInv
<1>7. Asked.image \in confirmed /\ confirmed \subseteq Images
  BY <1>2 DEF Uploads, PhotosInv, IInv, TypeOK
<1>8. /\ photo' \in [Screens -> Images \cup {NoImage}] /\ photoURL' \in [Screens -> Images \cup {NoImage}]
      /\ photo' = photoURL'
      /\ \A s \in Screens : photo'[s] \in confirmed \cup {NoImage}
  <2>1. /\ photo \in [Screens -> Images \cup {NoImage}]
        /\ photo = photoURL /\ \A s \in Screens : photo[s] \in confirmed \cup {NoImage}
    BY DEF IInv, TypeOK, PhotosInv
  <2>2. CASE Post(Asked)
    BY <1>7, <2>1, <2>2 DEF Post
  <2>3. CASE UNCHANGED photos
    BY <2>1, <2>3 DEF photos
  <2>4. QED
    BY <2>2, <2>3 DEF RunURLAnswer
<1>9. front' \in Seq(Presented(kind))
  BY <1>1, FrontGone DEF RunURLAnswer, InFront
<1>10. TypeOK'
  BY <1>5, <1>8, <1>9, TypesNext, BaseTypes DEF RunURLAnswer, history, IInv, TypeOK
<1>11. PhotosInv'
  BY <1>3, <1>8 DEF RunURLAnswer, history, PhotosInv, IInv
<1>12. ImagesInv'
  BY ImagesKept DEF RunURLAnswer, IInv
<1>13. HideInv'
  <2>1. ASSUME NEW t \in Screens, WillHide(t) PROVE WillHide(t)'
    BY <1>1, <1>2, <2>1, HideHandledElse DEF RunURLAnswer, Asked
  <2>2. QED
    BY <2>1 DEF RunURLAnswer, history, HideInv, Covered, IInv
<1>14. QED
  BY <1>3, <1>4, <1>6, <1>10, <1>11, <1>12, <1>13 DEF IInv

(***************************************************************************)
(* The theorems.                                                           *)
(***************************************************************************)

LEMMA InitIInv == Init => IInv
<1> SUFFICES ASSUME Init PROVE IInv
  OBVIOUS
<1>1. 1 \in Screens
  BY BoundsAssumption DEF Screens
<1>2. /\ main = <<Hide>> /\ main \in Seq(Blocks) /\ Len(main) = 1 /\ main[1] = Hide
      /\ Hide.block # "answer" /\ requests = {} /\ disowned = {} /\ unencodable = {}
  BY BlockKinds DEF Init, Hide
<1>3. overlay \in Overlays /\ overlay.attached /\ overlay.blur = 1
      /\ \A s \in Screens : Covered(overlay, s) <=> s = 1
  <2> DEFINE c == [v \in Screens |-> 0]
  <2>1. NoOverlay(Screens) = [covers |-> c, blur |-> NoView, attached |-> FALSE]
    BY DEF NoOverlay
  <2>2. overlay = [covers |-> [c EXCEPT ![1] = @ + 1], blur |-> 1, attached |-> TRUE]
    BY <1>1, <2>1 DEF Init, ShowLoadingAdded, Covered
  <2>3. /\ [c EXCEPT ![1] = @ + 1] \in [Screens -> {0, 1}]
        /\ \A s \in Screens : [c EXCEPT ![1] = @ + 1][s] = IF s = 1 THEN 1 ELSE 0
    BY <1>1
  <2> HIDE DEF c
  <2>4. QED
    BY <1>1, <2>2, <2>3 DEF Overlays, Covered
<1>4. OverlayInv /\ CoverInv
  BY <1>1, <1>3 DEF OverlayInv, CoverInv, Covered, Overlays
<1>5. Unhandled = {}
  BY <1>2, UnhandledMembers
<1>6. NumbersInv
  BY <1>2 DEF NumbersInv
<1>7. SpareInv
  <2>1. IsFiniteSet(Unhandled) /\ Registering = {} /\ Cardinality(Registering) = 0
    BY <1>5, FS_EmptySet DEF Registering
  <2>2. QED
    BY <2>1, Sparing DEF SpareInv
<1>8. PhotosInv
  BY <1>5 DEF Init, PhotosInv
<1>9. ImagesInv
  BY DEF Init, ImagesInv
<1>10. HideInv
  BY <1>2 DEF HideInv, WillHide
<1>11. TypeOK
  <2>1. kind \in [Screens -> Kinds] /\ kind[1] = "login"
    BY <1>1 DEF Init, Kinds
  <2>2. 1 \in {s \in Screens : kind[s] # "none"}
    BY <1>1, <2>1
  <2>3. front \in Seq({s \in Screens : kind[s] # "none"})
    <3> DEFINE P == {s \in Screens : kind[s] # "none"}
    <3>1. 1 \in P
      BY <2>2
    <3> HIDE DEF P
    <3>2. <<1>> \in Seq(P) /\ <<>> \in Seq(P)
      BY <3>1
    <3>3. front = <<1>> \/ front = <<>>
      BY DEF Init
    <3>4. front \in Seq(P)
      BY <3>2, <3>3
    <3>5. QED
      BY <3>4 DEF P
  <2>4. /\ arriving \in 0..Len(main) /\ taps \in 0..MaxTaps /\ base \in {"root", "tabs"}
        /\ alert \in BOOLEAN
    <3>1. base \in {"root", "tabs"} /\ alert \in BOOLEAN
      BY DEF Init
    <3>2. arriving = 1 /\ taps = 0
      BY DEF Init
    <3>3. arriving \in 0..Len(main) /\ taps \in 0..MaxTaps
      BY <1>2, <3>2, BoundsAssumption
    <3>4. QED
      BY <3>1, <3>3
  <2>5. /\ image \in [Screens -> Images \cup {NoImage}]
        /\ photo \in [Screens -> Images \cup {NoImage}]
        /\ photoURL \in [Screens -> Images \cup {NoImage}]
    BY DEF Init
  <2>6. confirmed = {}
    BY DEF Init
  <2>7. QED
    BY <1>2, <1>3, <2>1, <2>3, <2>4, <2>5, <2>6 DEF TypeOK, Overlays
<1>12. QED
  BY <1>4, <1>6, <1>7, <1>8, <1>9, <1>10, <1>11 DEF IInv

LEMMA StutterKeeps ==
    ASSUME IInv, UNCHANGED vars
    PROVE  IInv'
<1>1. /\ TypeOK' /\ OverlayInv' /\ CoverInv' /\ HideInv' /\ NumbersInv' /\ ImagesInv'
  BY DEF IInv, vars, TypeOK, OverlayInv, CoverInv, HideInv, NumbersInv, ImagesInv, Covered, WillHide
<1>2. Unhandled' = Unhandled /\ Unused' = Unused
  BY DEF vars, Unhandled, Unused
<1>3. SpareInv' /\ PhotosInv'
  BY <1>2, SpareKept, PhotosKept DEF IInv, vars
<1>4. QED
  BY <1>1, <1>3 DEF IInv

\* Every step of the program keeps the invariant.
LEMMA NextIInv == IInv /\ [Next]_vars => IInv'
<1> SUFFICES ASSUME IInv, [Next]_vars PROVE IInv'
  OBVIOUS
<1>1. ASSUME User PROVE IInv'
  <2>1. ASSUME NEW s \in Screens,
               \/ OpenRegistration(s) \/ PickPhoto(s)
               \/ TapLogin(s) \/ TapRegister(s) \/ TapSubmit(s)
               \/ TapRotate(s) \/ TapDone(s)
        PROVE  IInv'
    BY <2>1, OpenRegistrationKeeps, PickPhotoKeeps, TapLoginKeeps, TapRegisterKeeps,
       TapSubmitKeeps, TapRotateKeeps, TapDoneKeeps
  <2>2. QED
    BY <1>1, <2>1, LogoutKeeps, DismissAlertKeeps, SwipeAwayKeeps DEF User
<1>2. ASSUME MainQueue PROVE IInv'
  BY <1>2, RunHideKeeps, RunLoginAnswerKeeps, RunCreateAnswerKeeps, RunSignInAnswerKeeps,
     RunPutAnswerKeeps, RunURLAnswerKeeps DEF MainQueue
<1>3. ASSUME Services PROVE IInv'
  BY <1>3, RespondKeeps DEF Services
<1>4. QED
  BY <1>1, <1>2, <1>3, StutterKeeps DEF Next

LEMMA Invariance == Spec => []IInv
<1>1. Init => IInv
  BY InitIInv
<1>2. IInv /\ [Next]_vars => IInv'
  BY NextIInv
<1>3. QED
  BY <1>1, <1>2, PTL DEF Spec

\* Every variable keeps its type; in particular a view never has more than one
\* cover (ActivityIndicator.swift:18), and a screen opens only when one is left.
THEOREM TypeCorrect == Spec => []TypeOK
<1>1. IInv => TypeOK
  BY DEF IInv
<1>2. QED
  BY <1>1, Invariance, PTL

\* The photo a personal information screen shows is the one its profile will name,
\* and one Done was tapped on, however many uploads are under way and in whatever
\* order they are answered (RotateImageViewController.swift:59, 65).
THEOREM PhotosAreFiledRight == Spec => []PhotoShownIsPhotoFiled
<1>1. IInv => PhotoShownIsPhotoFiled
  BY DEF IInv, PhotosInv, PhotoShownIsPhotoFiled
<1>2. QED
  BY <1>1, Invariance, PTL

\* No screen presented is covered for good: what hides its cover is the next
\* hideLoading, and one is under way, whatever the other screens do with the one
\* cover they share.  Except for an image without JPEG data and for a screen
\* covered when another one's cover was made (ActivityIndicator.swift:21, 35).
THEOREM NobodyIsShutOut == Spec => []NobodyIsLockedOut
<1>1. IInv => NobodyIsLockedOut
  <2> SUFFICES ASSUME IInv PROVE NobodyIsLockedOut
    OBVIOUS
  <2>1. front \in Seq(Presented(kind)) /\ Presented(kind) \subseteq Screens
    BY BaseTypes DEF IInv
  <2>2. \A s \in ToSet(front) : s \in Screens
    BY <2>1 DEF ToSet
  <2>3. QED
    BY <2>2 DEF NobodyIsLockedOut, IInv, CoverInv, HideInv
<1>2. QED
  BY <1>1, Invariance, PTL
=============================================================================
