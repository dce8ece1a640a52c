-------------------------- MODULE SurveyFlowProofs --------------------------
(***************************************************************************)
(* Proofs about the survey tab: what a run sends, for any surveys, texts   *)
(* and paths through a run.  What a run keeps is proved in TaskRunProofs   *)
(* and used here of the tab's run.                                         *)
(***************************************************************************)
EXTENDS SurveyFlow, SequenceTheorems, WellFoundedInduction, TLAPS

Proved == INSTANCE TaskRunProofs

(***************************************************************************)
(* Counting up: induction as a fact about sets of numbers.                 *)
(***************************************************************************)

\* A set of numbers has a least one.
LEMMA LeastNumber ==
    ASSUME NEW T, T \subseteq Nat, T # {}
    PROVE  \E x \in T : \A y \in T : x <= y
<1> DEFINE R == OpToRel(<, Nat)
<1>1. IsWellFoundedOn(R, Nat)
  BY NatLessThanWellFounded
<1>2. \A x, y \in Nat : <<x, y>> \in R <=> x < y
  BY DEF OpToRel
<1> HIDE DEF R
<1>3. PICK x \in T : \A y \in T : ~(<<y, x>> \in R)
  BY <1>1, WFMin
<1>4. x \in Nat /\ \A y \in T : y \in Nat
  BY <1>3
<1>5. \A y \in T : ~(y < x)
  BY <1>2, <1>3, <1>4
<1>6. \A y \in T : x <= y
  BY <1>4, <1>5
<1>7. QED
  BY <1>3, <1>6

\* A set that has 0 and with every number the next one, up to n.
LEMMA CountingUp ==
    ASSUME NEW n \in Nat, NEW T, 0 \in T,
           \A i \in 1..n : i - 1 \in T => i \in T
    PROVE  \A i \in 0..n : i \in T
<1> SUFFICES ASSUME NEW k \in 0..n, k \notin T
             PROVE  FALSE
  OBVIOUS
<1> DEFINE B == {i \in 0..n : i \notin T}
<1>1. B \subseteq Nat /\ B # {}
  OBVIOUS
<1> HIDE DEF B
<1>2. PICK x \in B : \A y \in B : x <= y
  BY <1>1, LeastNumber
<1>3. x \in 0..n /\ x \notin T /\ x # 0
  BY <1>2 DEF B
<1>4. x - 1 \in 0..n /\ x - 1 \notin B
  BY <1>2, <1>3 DEF B
<1>5. QED
  BY <1>3, <1>4 DEF B

(***************************************************************************)
(* Touched: the results with a question result, in their order.            *)
(***************************************************************************)

\* What Touched has taken after i of the results.
Taken(r, f, i) ==
    IF i = 0 THEN <<>>
    ELSE IF r[i].answer = Nil THEN f[i - 1]
    ELSE Append(f[i - 1], r[i])

LEMMA TouchedIsDefined ==
    ASSUME NEW r, Len(r) \in Nat
    PROVE  \E f : /\ f = [i \in 0..Len(r) |-> Taken(r, f, i)]
                  /\ Touched(r) = f[Len(r)]
<1> DEFINE n == Len(r)
           T == {k \in 0..n : \E f : f = [i \in 0..k |-> Taken(r, f, i)]}
<1>1. 0 \in T
  <2>1. [i \in 0..0 |-> <<>>] = [i \in 0..0 |-> Taken(r, [j \in 0..0 |-> <<>>], i)]
    BY DEF Taken
  <2>2. QED
    BY <2>1
<1>2. ASSUME NEW k \in 1..n, k - 1 \in T PROVE k \in T
  <2>1. PICK f : f = [i \in 0..(k - 1) |-> Taken(r, f, i)]
    BY <1>2
  <2> DEFINE g == [i \in 0..k |-> IF i < k THEN f[i] ELSE Taken(r, f, k)]
  <2>2. ASSUME NEW i \in 0..k PROVE g[i] = Taken(r, g, i)
    <3>1. CASE i < k
      <4>1. i \in 0..(k - 1) /\ g[i] = f[i]
        BY <3>1
      <4>2. f[i] = Taken(r, f, i)
        BY <2>1, <4>1
      <4>3. i # 0 => i - 1 \in 0..k /\ i - 1 < k /\ g[i - 1] = f[i - 1]
        BY <3>1
      <4> HIDE DEF g
      <4>4. QED
        BY <4>1, <4>2, <4>3 DEF Taken
    <3>2. CASE i = k
      <4>1. g[i] = Taken(r, f, k) /\ i # 0 /\ g[i - 1] = f[i - 1]
        BY <3>2
      <4> HIDE DEF g
      <4>2. QED
        BY <3>2, <4>1 DEF Taken
    <3>3. QED
      BY <3>1, <3>2
  <2>3. g = [i \in 0..k |-> g[i]]
    OBVIOUS
  <2> HIDE DEF g
  <2>4. g = [i \in 0..k |-> Taken(r, g, i)]
    BY <2>2, <2>3
  <2>5. QED
    BY <2>4
<1> HIDE DEF T
<1>3. n \in T
  <2>1. \A i \in 0..n : i \in T
    BY <1>1, <1>2, CountingUp
  <2>2. QED
    BY <2>1
<1>4. \E f : f = [i \in 0..n |-> Taken(r, f, i)]
  BY <1>3 DEF T
<1> DEFINE F == CHOOSE f : f = [i \in 0..n |-> Taken(r, f, i)]
<1>5. F = [i \in 0..n |-> Taken(r, F, i)]
  BY <1>4
<1>6. Touched(r) = F[n]
  BY DEF Touched, Taken
<1>7. QED
  BY <1>5, <1>6

\* Everything taken is one of the results, with a question result.
LEMMA TouchedType ==
    ASSUME NEW r, Len(r) \in Nat, NEW S,
           \A i \in 1..Len(r) : r[i].answer # Nil => r[i] \in S
    PROVE  Touched(r) \in Seq(S)
<1> DEFINE n == Len(r)
<1>1. PICK f : f = [i \in 0..n |-> Taken(r, f, i)] /\ Touched(r) = f[n]
  BY TouchedIsDefined
<1> DEFINE T == {k \in 0..n : f[k] \in Seq(S)}
<1>2. 0 \in T
  BY <1>1 DEF Taken
<1>3. ASSUME NEW k \in 1..n, k - 1 \in T PROVE k \in T
  <2>1. f[k - 1] \in Seq(S) /\ k \in 0..n
    BY <1>3
  <2>2. f[k] = Taken(r, f, k)
    BY <1>1, <2>1
  <2>3. f[k] \in Seq(S)
    BY <2>1, <2>2 DEF Taken
  <2>4. QED
    BY <2>1, <2>3
<1> HIDE DEF T
<1>4. n \in T
  <2>1. \A i \in 0..n : i \in T
    BY <1>2, <1>3, CountingUp
  <2>2. QED
    BY <2>1
<1>5. QED
  BY <1>1, <1>4 DEF T

\* When the results but the first and the last two are answered.
LEMMA TouchedWhole ==
    ASSUME NEW r, NEW q \in Nat, Len(r) = q + 3,
           r[1].answer = Nil, r[q + 2].answer = Nil, r[q + 3].answer = Nil,
           \A i \in 2..(q + 1) : r[i].answer # Nil
    PROVE  Touched(r) = [i \in 1..q |-> r[i + 1]]
<1>1. PICK f : f = [i \in 0..(q + 3) |-> Taken(r, f, i)] /\ Touched(r) = f[q + 3]
  BY TouchedIsDefined
<1>2. \A i \in 0..(q + 3) : f[i] = Taken(r, f, i)
  BY <1>1
<1> DEFINE part(k) == [i \in 1..k |-> r[i + 1]]
           T == {k \in 0..q : f[k + 1] = part(k)}
<1>3. 0 \in T
  <2>1. f[0] = <<>> /\ f[1] = f[0]
    BY <1>2 DEF Taken
  <2>2. part(0) = <<>>
    OBVIOUS
  <2>3. QED
    BY <2>1, <2>2
<1>4. ASSUME NEW k \in 1..q, k - 1 \in T PROVE k \in T
  <2>1. f[k] = part(k - 1) /\ r[k + 1].answer # Nil
    BY <1>4
  <2>2. f[k + 1] = Append(f[k], r[k + 1])
    <3>1. f[k + 1] = Taken(r, f, k + 1) /\ (k + 1) - 1 = k /\ k + 1 # 0
      BY <1>2
    <3>2. QED
      BY <2>1, <3>1 DEF Taken
  <2>3. Append(part(k - 1), r[k + 1]) = part(k)
    <3> DEFINE S == {r[i + 1] : i \in 1..k}
    <3> k \in Nat /\ k - 1 \in Nat
      OBVIOUS
    <3>1. part(k - 1) \in Seq(S) /\ Len(part(k - 1)) = k - 1 /\ r[k + 1] \in S
      <4>1. \A i \in 1..(k - 1) : r[i + 1] \in S
        OBVIOUS
      <4>2. r[k + 1] \in S
        OBVIOUS
      <4> HIDE DEF S
      <4>3. QED
        BY <4>1, <4>2
    <3>2. part(k) \in Seq(S) /\ Len(part(k)) = k
      <4>1. \A i \in 1..k : r[i + 1] \in S
        OBVIOUS
      <4> HIDE DEF S
      <4>2. QED
        BY <4>1
    <3>3. \A i \in 1..k : part(k)[i] = r[i + 1]
      OBVIOUS
    <3>4. \A i \in 1..(k - 1) : part(k - 1)[i] = r[i + 1]
      OBVIOUS
    <3> DEFINE a == part(k - 1)
               b == part(k)
    <3> HIDE DEF S, a, b
    <3>5. Append(a, r[k + 1]) \in Seq(S) /\ Len(Append(a, r[k + 1])) = k
      BY <3>1 DEF a
    <3>6. \A i \in 1..k : Append(a, r[k + 1])[i] = r[i + 1]
      BY <3>1, <3>4 DEF a
    <3>7. Append(a, r[k + 1]) = b
      BY <3>2, <3>3, <3>5, <3>6, SeqEqual DEF b
    <3>8. QED
      BY <3>7 DEF a, b
  <2>4. f[k + 1] = part(k) /\ k \in 0..q
    BY <2>1, <2>2, <2>3
  <2>5. QED
    BY <2>4
<1> HIDE DEF T
<1>5. q \in T
  <2>1. q \in Nat
    OBVIOUS
  <2>2. \A i \in 0..q : i \in T
    BY ONLY <1>3, <1>4, <2>1, CountingUp
  <2>3. QED
    BY <2>2
<1>6. f[q + 1] = part(q)
  BY <1>5 DEF T
<1>7. f[q + 2] = f[q + 1] /\ f[q + 3] = f[q + 2]
  <2>1. /\ f[q + 2] = Taken(r, f, q + 2) /\ (q + 2) - 1 = q + 1 /\ q + 2 # 0
        /\ f[q + 3] = Taken(r, f, q + 3) /\ (q + 3) - 1 = q + 2 /\ q + 3 # 0
    BY <1>2
  <2>2. QED
    BY <2>1 DEF Taken
<1>8. QED
  BY <1>1, <1>6, <1>7

(***************************************************************************)
(* The first element that stops sendSurveyData.                            *)
(***************************************************************************)

\* What SelectInSeq finds: nothing, or the first place of I.
IsFirstOf(b, I) == IF I = {} THEN b = 0 ELSE b \in I /\ \A i \in I : b <= i

LEMMA FirstIsFirst ==
    ASSUME NEW n \in Nat, NEW I, I \subseteq 1..n
    PROVE  IsFirstOf(IF I # {} THEN Min(I) ELSE 0, I)
<1>1. CASE I = {}
  BY <1>1 DEF IsFirstOf
<1>2. CASE I # {}
  <2>1. \E x \in I : \A y \in I : x <= y
    <3>1. I \subseteq Nat
      OBVIOUS
    <3>2. QED
      BY <1>2, <3>1, LeastNumber
  <2>2. QED
    BY <1>2, <2>1 DEF Min, IsFirstOf
<1>3. QED
  BY <1>1, <1>2

LEMMA FirstUnsendable ==
    ASSUME NEW r, Len(r) \in Nat
    PROVE  IsFirstOf(SelectInSeq(r, Unsendable), {i \in 1..Len(r) : Unsendable(r[i])})
<1> DEFINE I == {i \in 1..Len(r) : Unsendable(r[i])}
<1>1. SelectInSeq(r, Unsendable) = IF I # {} THEN Min(I) ELSE 0
  BY DEF SelectInSeq
<1>2. I \subseteq 1..Len(r)
  OBVIOUS
<1> HIDE DEF I
<1>3. IsFirstOf(SelectInSeq(r, Unsendable), I)
  BY <1>1, <1>2, FirstIsFirst
<1>4. QED
  BY <1>3 DEF I

LEMMA FirstSkippedIsFirst ==
    ASSUME nq \in Nat
    PROVE  IsFirstOf(FirstSkipped, {i \in 1..nq : entered[i + 1] = Null})
<1> DEFINE s == [i \in 1..nq |-> entered[i + 1]]
           I == {i \in 1..Len(s) : s[i] = Null}
<1>1. FirstSkipped = IF I # {} THEN Min(I) ELSE 0
  BY DEF FirstSkipped, SelectInSeq
<1>2. Len(s) = nq /\ \A i \in 1..nq : s[i] = entered[i + 1]
  OBVIOUS
<1>3. I = {i \in 1..nq : entered[i + 1] = Null}
  BY <1>2
<1>4. I \subseteq 1..nq
  BY <1>3
<1> HIDE DEF I
<1>5. QED
  BY <1>1, <1>3, <1>4, FirstIsFirst

(***************************************************************************)
(* The tab's run is one of those TaskRunProofs is about.                   *)
(***************************************************************************)

LEMMA LongestSurvey ==
    /\ MaxQuestions \in Nat
    /\ \A s \in Surveys : s \in Seq(ToSet(s)) /\ Len(s) \in 0..MaxQuestions
<1>1. \A s \in Surveys : s \in Seq(ToSet(s)) /\ Len(s) \in Nat
  BY SurveysAssumption
<1>2. PICK s \in Surveys : \A t \in Surveys : Len(t) <= Len(s)
  BY SurveysAssumption
<1>3. Len(s) \in {Len(t) : t \in Surveys} /\ \A t \in Surveys : Len(t) <= Len(s)
  BY <1>2
<1>4. MaxQuestions \in {Len(t) : t \in Surveys} /\ \A t \in Surveys : Len(t) <= MaxQuestions
  BY <1>3 DEF MaxQuestions
<1>5. QED
  BY <1>1, <1>4

LEMMA InitRun == Run!Init => Proved!RunInv
<1>1. Run!Init => Proved!Init
  BY DEF Run!Init, Proved!Init, Run!NoResults, Proved!NoResults, Run!NoVC, Proved!NoVC,
         Run!NothingEntered, Proved!NothingEntered, Run!AllSteps, Proved!AllSteps,
         Run!Positions, Proved!Positions
<1>2. QED
  BY <1>1, LongestSurvey, MarkersAssumption, Proved!InitIsRunInv

\* The operators of the two instances are the same.
LEMMA SameSteps ==
    /\ Run!Summary = Proved!Summary /\ Run!Review = Proved!Review /\ Run!Intro = Proved!Intro
    /\ Run!Questions = Proved!Questions /\ Run!AllSteps = Proved!AllSteps
    /\ Run!Positions = Proved!Positions
    /\ Run!NoResults = Proved!NoResults /\ Run!NoVC = Proved!NoVC
    /\ Run!NothingEntered = Proved!NothingEntered
    /\ \A st : Run!Pop(st) = Proved!Pop(st)
  BY DEF Run!Summary, Proved!Summary, Run!Review, Proved!Review, Run!Intro, Proved!Intro,
         Run!Questions, Proved!Questions, Run!AllSteps, Proved!AllSteps,
         Run!Positions, Proved!Positions, Run!NoResults, Proved!NoResults,
         Run!NoVC, Proved!NoVC, Run!NothingEntered, Proved!NothingEntered,
         Run!Pop, Proved!Pop

LEMMA SameTop ==
    ASSUME NEW st, NEW s PROVE Run!IsTop(st, s) <=> Proved!IsTop(st, s)
  BY DEF Run!IsTop, Proved!IsTop, Run!TopOf, Proved!TopOf

LEMMA SamePosition ==
    ASSUME NEW st, NEW s PROVE Run!KeyPosition(st, s) = Proved!KeyPosition(st, s)
  BY SameTop DEF Run!KeyPosition, Proved!KeyPosition

LEMMA SameSetResult ==
    ASSUME NEW m, NEW st, NEW s, NEW r
    PROVE  Run!SetResult(m, st, s, r) = Proved!SetResult(m, st, s, r)
  BY SamePosition DEF Run!SetResult, Proved!SetResult

LEMMA SameNewStepVC ==
    ASSUME NEW m, NEW s, NEW b PROVE Run!NewStepVC(m, s, b) = Proved!NewStepVC(m, s, b)
  BY DEF Run!NewStepVC, Proved!NewStepVC, Run!RestoredAnswer, Proved!RestoredAnswer

LEMMA SameShown ==
    ASSUME NEW st, NEW s PROVE Run!Shown(st, s) = Proved!Shown(st, s)
  BY SameTop DEF Run!Shown, Proved!Shown

LEMMA SameShowStep ==
    ASSUME NEW m, NEW st, NEW from, NEW v
    PROVE  Run!ShowStep(m, st, from, v) <=> Proved!ShowStep(m, st, from, v)
  BY SameShown, SameSetResult DEF Run!ShowStep, Proved!ShowStep

LEMMA SameFlips ==
    ASSUME NEW from
    PROVE  /\ Run!FlipToNextPage(from) <=> Proved!FlipToNextPage(from)
           /\ Run!FlipToPreviousPage(from) <=> Proved!FlipToPreviousPage(from)
<1>1. Run!FlipToNextPage(from) <=> Proved!FlipToNextPage(from)
  BY SameSetResult, SameNewStepVC, SameShowStep DEF Run!FlipToNextPage, Proved!FlipToNextPage
<1>2. Run!FlipToPreviousPage(from) <=> Proved!FlipToPreviousPage(from)
  BY SameSteps, SameSetResult, SameNewStepVC, SameShowStep
  DEF Run!FlipToPreviousPage, Proved!FlipToPreviousPage
<1>3. QED
  BY <1>1, <1>2

LEMMA SameGuards ==
    /\ Run!OnQuestion <=> Proved!OnQuestion
    /\ Run!HasAnswer <=> Proved!HasAnswer
    /\ Run!OnInstruction <=> Proved!OnInstruction
    /\ Run!Saveable <=> Proved!Saveable
    /\ \A s, a, b : Run!Commit(s, a, b) <=> Proved!Commit(s, a, b)
    /\ \A reason : Run!Finish(reason) <=> Proved!Finish(reason)
<1>1. /\ Run!OnQuestion <=> Proved!OnQuestion
      /\ Run!HasAnswer <=> Proved!HasAnswer
      /\ Run!OnInstruction <=> Proved!OnInstruction
  BY SameSteps DEF Run!OnQuestion, Proved!OnQuestion, Run!HasAnswer, Proved!HasAnswer,
                   Run!OnInstruction, Proved!OnInstruction
<1>2. Run!Saveable <=> Proved!Saveable
  BY SameSteps DEF Run!Saveable, Proved!Saveable
<1>3. \A s, a, b : Run!Commit(s, a, b) <=> Proved!Commit(s, a, b)
  BY DEF Run!Commit, Proved!Commit
<1>4. \A reason : Run!Finish(reason) <=> Proved!Finish(reason)
  BY SameSetResult DEF Run!Finish, Proved!Finish
<1>5. QED
  BY <1>1, <1>2, <1>3, <1>4

\* What the run does in the tab keeps what is proved of a run.
LEMMA RunStep ==
    ASSUME Proved!RunInv,
           \/ \E n \in 0..MaxQuestions : Run!Present(n)
           \/ InsideRun \/ Run!Done \/ Run!CancelAtOnce \/ Run!ConfirmDiscard
           \/ Run!SwipeAway
    PROVE  Proved!RunInv'
<1>1. ASSUME NEW n \in 0..MaxQuestions, Run!Present(n) PROVE Proved!Present(n)
  BY <1>1, SameSteps, SameSetResult, SameNewStepVC DEF Run!Present, Proved!Present
<1>2. ASSUME NEW t \in Text \cup {Null}, Run!TypeText(t) PROVE Proved!TypeText(t)
  BY <1>2, SameGuards, SameSetResult DEF Run!TypeText, Proved!TypeText
<1>3. Run!EndEditing => Proved!EndEditing
  BY SameGuards, SameSetResult DEF Run!EndEditing, Proved!EndEditing
<1>4. Run!Continue => Proved!Continue
  BY SameSteps, SameGuards, SameFlips DEF Run!Continue, Proved!Continue
<1>5. Run!Skip => Proved!Skip
  BY SameGuards, SameFlips DEF Run!Skip, Proved!Skip
<1>6. Run!GoBack => Proved!GoBack
  BY SameSteps, SameGuards, SameFlips DEF Run!GoBack, Proved!GoBack
<1>7. ASSUME NEW s \in Run!AllSteps, Run!ReviewRow(s)
      PROVE  s \in Proved!AllSteps /\ Proved!ReviewRow(s)
  BY <1>7, SameSteps, SameSetResult, SameNewStepVC, SameShowStep
  DEF Run!ReviewRow, Proved!ReviewRow
<1>8. Run!SaveEdit => Proved!SaveEdit
  BY SameSteps, SameGuards, SameFlips DEF Run!SaveEdit, Proved!SaveEdit
<1>9. Run!ClearAnswer => Proved!ClearAnswer
  BY SameGuards, SameFlips DEF Run!ClearAnswer, Proved!ClearAnswer
<1>10. Run!AbandonEdit => Proved!AbandonEdit
  BY SameFlips DEF Run!AbandonEdit, Proved!AbandonEdit
<1>11. Run!AskCancel => Proved!AskCancel
  BY SameGuards DEF Run!AskCancel, Proved!AskCancel
<1>12. Run!KeepAnswering => Proved!KeepAnswering
  BY DEF Run!KeepAnswering, Proved!KeepAnswering
<1>13. Run!Done => Proved!Done
  BY SameSteps, SameGuards DEF Run!Done, Proved!Done
<1>14. Run!CancelAtOnce => Proved!CancelAtOnce
  BY SameGuards DEF Run!CancelAtOnce, Proved!CancelAtOnce
<1>15. Run!ConfirmDiscard => Proved!ConfirmDiscard
  BY SameGuards DEF Run!ConfirmDiscard, Proved!ConfirmDiscard
<1>16. Run!SwipeAway => Proved!SwipeAway
  BY SameSteps DEF Run!SwipeAway, Proved!SwipeAway
<1>17. Proved!Next
  BY <1>1, <1>2, <1>3, <1>4, <1>5, <1>6, <1>7, <1>8, <1>9, <1>10, <1>11, <1>12, <1>13,
     <1>14, <1>15, <1>16 DEF InsideRun, Proved!Next
<1>18. QED
  BY <1>17, LongestSurvey, MarkersAssumption, Proved!NextKeepsRunInv

(***************************************************************************)
(* What the end of a run hands over.                                       *)
(***************************************************************************)

TextsOK == texts \in Surveys \cup {<<>>} /\ Len(texts) = nq

Given(q) == Run!ManagedResults(managed, stack)[q]

\* The responses a result may become, with those that cannot be sent.
GivenResults == [question : UNION {ToSet(s) : s \in Surveys}, answer : Text \cup {Null}]

HandedOK ==
    phase # "idle" =>
      /\ HandedOver(managed, stack) \in Seq(GivenResults)
      /\ phase = "completed" =>
           /\ nq \in Nat
           /\ HandedOver(managed, stack)
                = [i \in 1..nq |-> [question |-> texts[i], answer |-> Given(i + 1)]]
           /\ \A q \in 2..(nq + 1) : q \notin reviewEdited => Given(q) = entered[q]

LEMMA RunHandsOver == Proved!RunInv /\ TextsOK => HandedOK
<1> SUFFICES ASSUME Proved!RunInv, TextsOK, phase # "idle" PROVE HandedOK
  BY DEF HandedOK
<1> DEFINE n == Len(stack)
           r == [i \in 1..n |->
                   [question |-> IF stack[i] \in Run!Questions THEN texts[stack[i] - 1] ELSE "",
                    answer |-> Given(i)]]
<1>1. HandedOver(managed, stack) = Touched(r)
  BY DEF HandedOver, Given
<1>2. \A i : Run!ManagedResults(managed, stack)[i] = Proved!ManagedResults(managed, stack)[i]
  BY DEF Run!ManagedResults, Proved!ManagedResults
<1>3. /\ n \in Nat
      /\ \A i \in 1..n : /\ Given(i) \in Text \cup {Nil, Null}
                         /\ stack[i] \notin Run!Questions => Given(i) = Nil
  <2>1. /\ n \in Nat
        /\ \A i \in 1..n : /\ Proved!ManagedResults(managed, stack)[i] \in Proved!Answers
                           /\ stack[i] \notin Proved!Questions =>
                                Proved!ManagedResults(managed, stack)[i] = Nil
    BY LongestSurvey, MarkersAssumption, Proved!ResultsHandedOver
  <2>2. QED
    BY <1>2, <2>1, SameSteps DEF Given, Proved!Answers
<1>4. nq \in Nat /\ (texts \in Surveys \/ nq = 0)
  BY LongestSurvey DEF TextsOK
<1>5. \A j \in 1..nq : texts[j] \in UNION {ToSet(s) : s \in Surveys}
  <2> SUFFICES ASSUME NEW j \in 1..nq PROVE texts[j] \in UNION {ToSet(s) : s \in Surveys}
    OBVIOUS
  <2>1. texts \in Surveys /\ texts \in Seq(ToSet(texts)) /\ j \in 1..Len(texts)
    BY <1>4, LongestSurvey DEF TextsOK
  <2>2. texts[j] \in ToSet(texts)
    BY <2>1
  <2>3. QED
    BY <2>1, <2>2
<1> HIDE DEF n
<1>6. Len(r) = n /\ \A i \in 1..n : r[i] = [question |-> IF stack[i] \in Run!Questions
                                                     THEN texts[stack[i] - 1] ELSE "",
                                         answer |-> Given(i)]
  BY <1>3
<1>7. \A i \in 1..n : r[i].answer = Given(i)
  BY <1>6
<1> HIDE DEF r
<1>8. ASSUME NEW i \in 1..n, r[i].answer # Nil PROVE r[i] \in GivenResults
  <2>1. Given(i) # Nil /\ Given(i) \in Text \cup {Null} /\ stack[i] \in Run!Questions
    BY <1>3, <1>7, <1>8
  <2>2. stack[i] - 1 \in 1..nq
    BY <1>4, <2>1 DEF Run!Questions
  <2>3. r[i] = [question |-> texts[stack[i] - 1], answer |-> Given(i)]
    BY <1>6, <2>1
  <2>4. QED
    BY <1>5, <2>1, <2>2, <2>3 DEF GivenResults
<1>9. Touched(r) \in Seq(GivenResults)
  BY <1>3, <1>6, <1>8, TouchedType
<1>10. ASSUME phase = "completed"
      PROVE  /\ Touched(r) = [i \in 1..nq |-> [question |-> texts[i], answer |-> Given(i + 1)]]
             /\ \A q \in 2..(nq + 1) : q \notin reviewEdited => Given(q) = entered[q]
  <2>1. /\ stack = Proved!Walk(nq + 3)
        /\ \A q \in 2..(nq + 1) :
             /\ Proved!ManagedResults(managed, stack)[q] \in Text \cup {Null}
             /\ q \notin reviewEdited => Proved!ManagedResults(managed, stack)[q] = entered[q]
    BY <1>10, LongestSurvey, MarkersAssumption, Proved!CompletedHandsOver
  <2>2. \A q \in 2..(nq + 1) : /\ Given(q) # Nil
                               /\ q \notin reviewEdited => Given(q) = entered[q]
    BY <1>2, <2>1, MarkersAssumption DEF Given
  <2>3. n = nq + 3 /\ \A i \in 1..n : stack[i] = i
    BY <1>4, <2>1 DEF Proved!Walk, n
  <2>4. \A i \in 1..n : i \in Run!Questions <=> i \in 2..(nq + 1)
    BY DEF Run!Questions
  <2>5. /\ r[1].answer = Nil /\ r[nq + 2].answer = Nil /\ r[nq + 3].answer = Nil
        /\ \A i \in 2..(nq + 1) : r[i].answer # Nil
    <3>1. /\ 1 \in 1..n /\ nq + 2 \in 1..n /\ nq + 3 \in 1..n
          /\ 1 \notin 2..(nq + 1) /\ nq + 2 \notin 2..(nq + 1) /\ nq + 3 \notin 2..(nq + 1)
          /\ \A i \in 2..(nq + 1) : i \in 1..n
      BY <1>4, <2>3
    <3>2. \A i \in 1..n : i \notin 2..(nq + 1) => Given(i) = Nil
      BY <1>3, <2>3, <2>4
    <3>3. QED
      BY <1>7, <2>2, <3>1, <3>2
  <2>6. Touched(r) = [i \in 1..nq |-> r[i + 1]]
    BY <1>4, <1>6, <2>3, <2>5, TouchedWhole
  <2>7. \A i \in 1..nq : r[i + 1] = [question |-> texts[i], answer |-> Given(i + 1)]
    <3> SUFFICES ASSUME NEW i \in 1..nq
                 PROVE  r[i + 1] = [question |-> texts[i], answer |-> Given(i + 1)]
      OBVIOUS
    <3>1. i + 1 \in 1..n /\ stack[i + 1] \in Run!Questions /\ stack[i + 1] - 1 = i
      BY <1>4, <2>3, <2>4
    <3>2. QED
      BY <1>6, <3>1
  <2>8. QED
    BY <2>2, <2>6, <2>7
<1>11. QED
  BY <1>1, <1>4, <1>9, <1>10 DEF HandedOK

\* The same of the state after a step.
LEMMA RunHandsOverNext == Proved!RunInv' /\ TextsOK' => HandedOK'
  BY RunHandsOver, PTL

LEMMA InitRunNext == Run!Init' => Proved!RunInv'
  BY InitRun, PTL

(***************************************************************************)
(* The inductive invariant of the tab.  What a run has sent is known to be *)
(* each question's once because the identifiers of its task were checked   *)
(* when it was presented, and because what was sent before is gone then.   *)
(***************************************************************************)

SentInOrder ==
    phase = "completed" =>
        /\ Len(sent) \in 0..nq
        /\ \A i \in 1..Len(sent) : sent[i].question = texts[i]

FlowInv ==
    /\ TypeOK
    /\ Proved!RunInv
    /\ phase \in {"running", "confirm"} => app = "up"
    /\ phase \notin {"completed", "discarded"} => sent = <<>>
    /\ phase # "idle" => IsInjective(StepIdentifiers(texts))
    /\ SentInOrder
    /\ CrashesAreKnown

\* What comes after a first element and before two more keeps its order.
LEMMA Between ==
    ASSUME NEW T, NEW a \in Seq(T), NEW s \in Seq(T), NEW b \in Seq(T), Len(a) = 1, Len(b) = 2
    PROVE  /\ (a \o s) \o b \in Seq(T)
           /\ Len((a \o s) \o b) = Len(s) + 3
           /\ \A i \in 1..Len(s) : ((a \o s) \o b)[i + 1] = s[i]
<1> DEFINE c == a \o s
<1>1. Len(a) \in Nat /\ Len(s) \in Nat /\ Len(b) \in Nat
  OBVIOUS
<1>2. c \in Seq(T) /\ Len(c) = Len(a) + Len(s)
  <2>1. c \in Seq(T)
    BY ConcatProperties, Zenon
  <2>2. Len(c) = Len(a) + Len(s)
    BY ConcatProperties, Zenon
  <2>3. QED
    BY <2>1, <2>2
<1>3. \A i \in 1..Len(s) : c[i + 1] = s[i]
  <2> SUFFICES ASSUME NEW i \in 1..Len(s) PROVE c[i + 1] = s[i]
    OBVIOUS
  <2>1. i + 1 \in 1..Len(a) + Len(s) /\ ~(i + 1 <= Len(a)) /\ (i + 1) - Len(a) = i
    BY <1>1
  <2>2. c[i + 1] = s[(i + 1) - Len(a)]
    BY <2>1, ConcatProperties, Zenon
  <2>3. QED
    BY <2>1, <2>2
<1> HIDE DEF c
<1>4. c \o b \in Seq(T) /\ Len(c \o b) = Len(c) + Len(b) /\ Len(c) = Len(s) + 1
  <2>1. c \o b \in Seq(T)
    BY <1>2, ConcatProperties, Zenon
  <2>2. Len(c \o b) = Len(c) + Len(b)
    BY <1>2, ConcatProperties, Zenon
  <2>3. QED
    BY <1>1, <1>2, <2>1, <2>2
<1>5. \A i \in 1..Len(s) : (c \o b)[i + 1] = c[i + 1]
  <2> SUFFICES ASSUME NEW i \in 1..Len(s) PROVE (c \o b)[i + 1] = c[i + 1]
    OBVIOUS
  <2>1. i + 1 \in 1..Len(c) + Len(b) /\ i + 1 <= Len(c)
    BY <1>1, <1>4
  <2>2. QED
    BY <1>2, <2>1, ConcatProperties, Zenon
<1>6. Len(c \o b) = Len(s) + 3
  BY <1>1, <1>4
<1>7. QED
  BY <1>3, <1>4, <1>5, <1>6 DEF c

\* The texts of a task whose identifiers differ, differ.
LEMMA DifferentTexts ==
    ASSUME NEW s, NEW S, s \in Seq(S), IsInjective(StepIdentifiers(s))
    PROVE  \A i, j \in 1..Len(s) : s[i] = s[j] => i = j
<1> DEFINE T == S \cup {"IntroStep", "reviewSteps", "SummaryStep"}
           a == <<"IntroStep">>
           b == <<"reviewSteps", "SummaryStep">>
<1>1. s \in Seq(T) /\ a \in Seq(T) /\ b \in Seq(T) /\ Len(a) = 1 /\ Len(b) = 2
  <2> S \subseteq T
    OBVIOUS
  <2>1. "IntroStep" \in T /\ "reviewSteps" \in T /\ "SummaryStep" \in T
    OBVIOUS
  <2> HIDE DEF T
  <2>2. QED
    BY <2>1
<1> HIDE DEF T, a, b
<1> DEFINE d == (a \o s) \o b
<1>2. StepIdentifiers(s) = d
  BY DEF StepIdentifiers, a, b
<1>3. /\ d \in Seq(T) /\ Len(d) = Len(s) + 3 /\ Len(s) \in Nat
      /\ \A i \in 1..Len(s) : d[i + 1] = s[i]
  BY <1>1, Between
<1> HIDE DEF d
<1>4. DOMAIN d = 1..Len(d) /\ IsInjective(d)
  BY <1>2, <1>3
<1>5. ASSUME NEW i \in 1..Len(s), NEW j \in 1..Len(s), s[i] = s[j] PROVE i = j
  <2>1. i + 1 \in DOMAIN d /\ j + 1 \in DOMAIN d /\ d[i + 1] = d[j + 1]
    BY <1>3, <1>4, <1>5
  <2>2. i + 1 = j + 1
    BY <1>4, <2>1 DEF IsInjective
  <2>3. QED
    BY <1>3, <2>2
<1>6. QED
  BY <1>5

LEMMA TypeGivesTexts ==
    ASSUME FlowInv
    PROVE  TextsOK /\ texts \in Seq(ToSet(texts)) /\ nq \in Nat
<1>1. TextsOK
  BY DEF FlowInv, TypeOK, TextsOK
<1>2. CASE texts = <<>>
  BY <1>1, <1>2 DEF TextsOK
<1>3. CASE texts \in Surveys
  BY <1>1, <1>3, LongestSurvey DEF TextsOK
<1>4. QED
  BY <1>1, <1>2, <1>3 DEF TextsOK

\* The end of a run: what it hands over, and what is sent of it.
LEMMA FinishingHandsOver ==
    ASSUME FlowInv, Finishing
    PROVE  /\ phase' \in {"completed", "discarded"} /\ phase \in {"running", "confirm"}
           /\ nq' = nq /\ UNCHANGED tabVars /\ sent = <<>> /\ app = "up"
           /\ Proved!RunInv' /\ HandedOK'
           /\ SendSurveyData(HandedOver(managed, stack)')
           /\ \A q \in 1..(nq + 1) : entered'[q] = entered[q] \/ phase' # "completed"
<1>1. /\ phase' \in {"completed", "discarded"} /\ phase \in {"running", "confirm"}
      /\ nq' = nq /\ UNCHANGED tabVars /\ app = "up"
      /\ SendSurveyData(HandedOver(managed', stack'))
  BY DEF Finishing, DidFinish, Run!Done, Run!CancelAtOnce, Run!ConfirmDiscard, Run!Finish
<1>2. Proved!RunInv'
  BY RunStep DEF Finishing, DidFinish, FlowInv
<1>3. TextsOK'
  BY <1>1, TypeGivesTexts DEF TextsOK, tabVars
<1>4. HandedOver(managed', stack') = HandedOver(managed, stack)'
  BY <1>1 DEF HandedOver, Run!Questions, Run!ManagedResults, tabVars
<1>5. sent = <<>>
  BY <1>1 DEF FlowInv
<1>6. \A q \in 1..(nq + 1) : entered'[q] = entered[q] \/ phase' # "completed"
  <2>1. CASE Run!Done
    <3>1. entered' = [entered EXCEPT ![nq + 3] = vc.answer]
      BY <2>1 DEF Run!Done, Run!Commit, Run!Summary
    <3>2. \A q \in 1..(nq + 1) : q # nq + 3
      BY TypeGivesTexts
    <3>3. QED
      BY <3>1, <3>2
  <2>2. CASE ~Run!Done
    BY <2>2 DEF Finishing, DidFinish, Run!CancelAtOnce, Run!ConfirmDiscard, Run!Finish
  <2>3. QED
    BY <2>1, <2>2
<1>7. QED
  BY <1>1, <1>2, <1>3, <1>4, <1>5, <1>6, RunHandsOverNext

(***************************************************************************)
(* sendSurveyData: how far it gets.                                        *)
(***************************************************************************)

SentCount(r, b) == IF b = 0 THEN Len(r) ELSE b - 1

LEMMA SendsAPrefix ==
    ASSUME NEW r, r \in Seq(GivenResults), profile \in {"nil", "loaded", "partial"},
           sent = <<>>, app = "up", SendSurveyData(r)
    PROVE  /\ app' \in {"up", "crashed"}
           /\ sent' \in Seq(Responses)
           /\ Len(sent') \in 0..Len(r)
           /\ \A i \in 1..Len(sent') : sent'[i] = r[i]
           /\ app' = "crashed" =>
                \/ profile = "partial" /\ sent' = <<>>
                \/ profile = "loaded" /\ \E i \in 1..Len(r) : r[i].answer = Null
           /\ profile = "loaded" =>
                \E b : /\ IsFirstOf(b, {i \in 1..Len(r) : r[i].answer = Null})
                       /\ Len(sent') = SentCount(r, b)
<1> DEFINE bad == SelectInSeq(r, Unsendable)
           I == {i \in 1..Len(r) : Unsendable(r[i])}
<1>1. Len(r) \in Nat /\ \A i \in 1..Len(r) : r[i] \in GivenResults
  OBVIOUS
<1>2. IsFirstOf(bad, I)
  BY <1>1, FirstUnsendable
<1>3. CASE profile = "nil"
  BY <1>1, <1>3 DEF SendSurveyData
<1>4. ASSUME NEW i \in 1..Len(r), ~Unsendable(r[i]) PROVE r[i] \in Responses
  <2>1. r[i] \in GivenResults /\ r[i].answer # Null
    BY <1>1, <1>4 DEF Unsendable, IsSkipped
  <2>2. QED
    BY <2>1 DEF GivenResults, Responses
<1>5. CASE profile # "nil" /\ bad = 0
  <2>1. sent' = r /\ app' = "up"
    BY <1>5 DEF SendSurveyData
  <2>2. \A i \in 1..Len(r) : ~Unsendable(r[i])
    BY <1>1, <1>2, <1>5 DEF IsFirstOf
  <2>3. r \in Seq(Responses)
    BY <1>1, <1>4, <2>2
  <2>4. IsFirstOf(0, {i \in 1..Len(r) : r[i].answer = Null})
    BY <2>2 DEF IsFirstOf, Unsendable, IsSkipped
  <2>5. Len(sent') = SentCount(r, 0)
    BY <2>1 DEF SentCount
  <2>6. \E b : /\ IsFirstOf(b, {i \in 1..Len(r) : r[i].answer = Null})
               /\ Len(sent') = SentCount(r, b)
    BY <2>4, <2>5
  <2>7. /\ sent' \in Seq(Responses) /\ app' = "up"
        /\ Len(sent') \in 0..Len(r) /\ \A i \in 1..Len(sent') : sent'[i] = r[i]
    BY <1>1, <2>1, <2>3
  <2>8. QED
    BY <2>6, <2>7
<1>6. CASE profile # "nil" /\ bad # 0
  <2> DEFINE s == SubSeq(r, 1, bad - 1)
  <2>1. bad \in 1..Len(r) /\ Unsendable(r[bad]) /\ \A i \in 1..(bad - 1) : ~Unsendable(r[i])
    <3>1. bad \in 1..Len(r) /\ Unsendable(r[bad]) /\ \A i \in I : bad <= i
      BY <1>2, <1>6 DEF IsFirstOf
    <3>2. \A i \in 1..(bad - 1) : i \in 1..Len(r) /\ ~(bad <= i)
      BY <1>1, <3>1
    <3>3. QED
      BY <3>1, <3>2
  <2> HIDE DEF bad
  <2>2. s \in Seq(GivenResults) /\ Len(s) = bad - 1 /\ \A i \in 1..(bad - 1) : s[i] = r[i]
    BY <1>1, <2>1
  <2>3. sent' = s /\ app' = "crashed"
    <3>1. sent' = <<>> \o s /\ app' = "crashed"
      BY <1>6 DEF SendSurveyData, bad
    <3>2. QED
      BY <2>2, <3>1, ConcatEmptySeq
  <2> HIDE DEF s
  <2>4. \A i \in 1..(bad - 1) : s[i] \in Responses
    <3>1. \A i \in 1..(bad - 1) : i \in 1..Len(r)
      BY <1>1, <2>1
    <3>2. QED
      BY <1>4, <2>1, <2>2, <3>1
  <2>5. s \in Seq(Responses)
    BY <2>1, <2>2, <2>4
  <2>6. profile = "partial" => s = <<>>
    <3>1. ASSUME profile = "partial" PROVE bad = 1
      <4>1. \A i \in 1..(bad - 1) : FALSE
        BY <2>1, <3>1 DEF Unsendable
      <4>2. QED
        BY <1>1, <2>1, <4>1
    <3>2. QED
      BY <2>2, <3>1
  <2>7. profile = "loaded" => /\ r[bad].answer = Null
                              /\ IsFirstOf(bad, {i \in 1..Len(r) : r[i].answer = Null})
    <3> SUFFICES ASSUME profile = "loaded"
                 PROVE  /\ r[bad].answer = Null
                        /\ IsFirstOf(bad, {i \in 1..Len(r) : r[i].answer = Null})
      OBVIOUS
    <3>1. I = {i \in 1..Len(r) : r[i].answer = Null}
      BY DEF Unsendable, IsSkipped
    <3>2. QED
      BY <1>2, <2>1, <3>1 DEF Unsendable, IsSkipped
  <2>8. profile \in {"partial", "loaded"} /\ Len(sent') = SentCount(r, bad)
    BY <1>6, <2>1, <2>2, <2>3 DEF SentCount, bad
  <2>9. Len(sent') \in 0..Len(r) /\ \A i \in 1..Len(sent') : sent'[i] = r[i]
    BY <1>1, <2>1, <2>2, <2>3
  <2>10. /\ profile = "partial" => sent' = <<>>
         /\ profile = "loaded" => \E i \in 1..Len(r) : r[i].answer = Null
    BY <2>1, <2>3, <2>6, <2>7
  <2>11. profile = "loaded" => \E b : /\ IsFirstOf(b, {i \in 1..Len(r) : r[i].answer = Null})
                                      /\ Len(sent') = SentCount(r, b)
    BY <2>7, <2>8
  <2>12. sent' \in Seq(Responses) /\ app' = "crashed"
    BY <2>3, <2>5
  <2>13. QED
    BY <2>8, <2>9, <2>10, <2>11, <2>12
<1>7. QED
  BY <1>3, <1>5, <1>6

(***************************************************************************)
(* Every step keeps the invariant.                                         *)
(***************************************************************************)

Phases == {"idle", "running", "confirm", "completed", "discarded"}

LEMMA PhaseRange ==
    ASSUME FlowInv PROVE phase \in Phases
  BY DEF FlowInv, Phases, Proved!RunInv, Proved!AInv, Proved!IInv, Proved!TypeOK

LEMMA SameRun ==
    ASSUME FlowInv, UNCHANGED runVars PROVE Proved!RunInv'
<1>1. UNCHANGED Proved!vars
  BY DEF runVars, Proved!vars
<1>2. QED
  BY <1>1, LongestSurvey, MarkersAssumption, Proved!SameRunKeepsRunInv DEF FlowInv

LEMMA ArrivalsKeep ==
    ASSUME FlowInv, app = "up", UNCHANGED <<app, texts, sent, runVars>>,
           profile' \in {"nil", "loaded", "partial"}, survey' \in Surveys \cup {NoSurvey}
    PROVE  FlowInv'
<1>1. Proved!RunInv'
  BY SameRun
<1>2. TypeOK'
  BY DEF FlowInv, TypeOK, runVars
<1>3. QED
  BY <1>1, <1>2 DEF FlowInv, SentInOrder, CrashesAreKnown, runVars

LEMMA StutterKeeps ==
    ASSUME FlowInv, UNCHANGED vars PROVE FlowInv'
<1>1. Proved!RunInv'
  BY SameRun DEF vars
<1>2. TypeOK'
  BY DEF FlowInv, TypeOK, vars, runVars
<1>3. CrashesAreKnown'
  BY DEF FlowInv, CrashesAreKnown, vars, runVars, TableShown, RowQuestions, Run!Questions
<1>4. QED
  BY <1>1, <1>2, <1>3 DEF FlowInv, SentInOrder, vars, runVars

LEMMA RowFacts ==
    ASSUME TypeOK
    PROVE  RowQuestions \in Surveys \cup {<<>>} /\ Len(RowQuestions) \in 0..MaxQuestions
<1>1. RowQuestions \in Surveys \cup {<<>>}
  BY DEF TypeOK, RowQuestions
<1>2. QED
  BY <1>1, LongestSurvey

LEMMA SelectRowKeeps ==
    ASSUME FlowInv, SelectRow PROVE FlowInv'
<1>1. TypeOK /\ TableShown /\ app = "up" /\ UNCHANGED <<profile, survey>>
  BY DEF SelectRow, FlowInv
<1>2. CASE IsInjective(StepIdentifiers(RowQuestions))
  <2>1. /\ Run!Present(Len(RowQuestions)) /\ texts' = RowQuestions
        /\ sent' = <<>> /\ app' = "up"
    BY <1>1, <1>2 DEF SelectRow
  <2>2. nq' = Len(RowQuestions) /\ phase' = "running"
    BY <2>1 DEF Run!Present
  <2>3. Proved!RunInv'
    BY <1>1, <2>1, RowFacts, RunStep DEF FlowInv
  <2>4. TypeOK'
    BY <1>1, <2>1, <2>2, RowFacts DEF TypeOK
  <2>5. IsInjective(StepIdentifiers(texts'))
    BY <1>2, <2>1
  <2>6. QED
    BY <2>1, <2>2, <2>3, <2>4, <2>5 DEF FlowInv, SentInOrder, CrashesAreKnown
<1>3. CASE ~IsInjective(StepIdentifiers(RowQuestions))
  <2>1. app' = "crashed" /\ UNCHANGED <<texts, sent, runVars>>
    BY <1>3 DEF SelectRow
  <2>2. Proved!RunInv'
    BY <2>1, SameRun
  <2>3. TypeOK'
    BY <1>1, <2>1 DEF TypeOK, runVars
  <2>4. CrashesAreKnown'
    BY <1>1, <1>3, <2>1 DEF CrashesAreKnown, TableShown, RowQuestions, runVars
  <2>5. phase \notin {"running", "confirm"}
    BY <1>1 DEF TableShown
  <2>6. QED
    BY <2>1, <2>2, <2>3, <2>4, <2>5 DEF FlowInv, SentInOrder, runVars
<1>4. QED
  BY <1>2, <1>3

\* A step inside a run leaves it running, or asks whether to end it.
LEMMA InsideRunPhases ==
    ASSUME InsideRun
    PROVE  phase \in {"running", "confirm"} /\ phase' \in {"running", "confirm"} /\ nq' = nq
<1>1. CASE \E t \in Text \cup {Null} : Run!TypeText(t)
  BY <1>1 DEF Run!TypeText, Run!OnQuestion
<1>2. CASE Run!EndEditing
  BY <1>2 DEF Run!EndEditing, Run!OnQuestion
<1>3. CASE Run!Continue \/ Run!Skip \/ Run!GoBack
  BY <1>3 DEF Run!Continue, Run!Skip, Run!GoBack, Run!OnQuestion
<1>4. CASE \E s \in Run!AllSteps : Run!ReviewRow(s)
  BY <1>4 DEF Run!ReviewRow
<1>5. CASE Run!SaveEdit \/ Run!ClearAnswer \/ Run!AbandonEdit
  BY <1>5 DEF Run!SaveEdit, Run!ClearAnswer, Run!AbandonEdit, Run!OnQuestion
<1>6. CASE Run!AskCancel \/ Run!KeepAnswering
  BY <1>6 DEF Run!AskCancel, Run!KeepAnswering
<1>7. QED
  BY <1>1, <1>2, <1>3, <1>4, <1>5, <1>6 DEF InsideRun

LEMMA AnsweringKeeps ==
    ASSUME FlowInv, Answering PROVE FlowInv'
<1>1. /\ app = "up" /\ InsideRun /\ UNCHANGED <<app, sent, profile, survey, texts>>
  BY DEF Answering, tabVars
<1>2. phase \in {"running", "confirm"} /\ phase' \in {"running", "confirm"} /\ nq' = nq
  BY <1>1, InsideRunPhases
<1>3. Proved!RunInv'
  BY <1>1, RunStep DEF FlowInv
<1>4. TypeOK'
  BY <1>1, <1>2 DEF FlowInv, TypeOK
<1>5. IsInjective(StepIdentifiers(texts'))
  BY <1>1, <1>2 DEF FlowInv
<1>6. QED
  BY <1>1, <1>2, <1>3, <1>4, <1>5 DEF FlowInv, SentInOrder, CrashesAreKnown

LEMMA SwipingKeeps ==
    ASSUME FlowInv, Swiping PROVE FlowInv'
<1>1. /\ app = "up" /\ phase = "running" /\ phase' = "idle" /\ nq' = 0 /\ texts' = <<>>
      /\ UNCHANGED <<app, sent, profile, survey>>
  BY DEF Swiping, Run!SwipeAway
<1>2. Proved!RunInv'
  BY RunStep DEF Swiping, FlowInv
<1>3. TypeOK' /\ sent' = <<>>
  BY <1>1 DEF FlowInv, TypeOK
<1>4. QED
  BY <1>1, <1>2, <1>3 DEF FlowInv, SentInOrder, CrashesAreKnown

LEMMA StartKeeps ==
    ASSUME app' = "up", profile' = "nil", survey' = NoSurvey, texts' = <<>>, sent' = <<>>,
           Run!Init'
    PROVE  FlowInv'
<1>1. Proved!RunInv'
  BY InitRunNext
<1>2. nq' = 0 /\ phase' = "idle"
  BY DEF Run!Init
<1>3. TypeOK'
  BY <1>2 DEF TypeOK
<1>4. QED
  BY <1>1, <1>2, <1>3 DEF FlowInv, SentInOrder, CrashesAreKnown

\* What is sent at the end of a run is a part of what is handed over, from its
\* start to the first result that stops sendSurveyData.
LEMMA FinishingSends ==
    ASSUME FlowInv, Finishing
    PROVE  LET r == HandedOver(managed, stack)' IN
           /\ app' \in {"up", "crashed"}
           /\ sent' \in Seq(Responses)
           /\ Len(sent') \in 0..Len(r)
           /\ \A i \in 1..Len(sent') : sent'[i] = r[i]
           /\ app' = "crashed" =>
                \/ profile = "partial" /\ sent' = <<>>
                \/ profile = "loaded" /\ \E i \in 1..Len(r) : r[i].answer = Null
           /\ profile = "loaded" =>
                \E b : /\ IsFirstOf(b, {i \in 1..Len(r) : r[i].answer = Null})
                       /\ Len(sent') = SentCount(r, b)
<1> DEFINE r == HandedOver(managed, stack)'
<1>1. /\ phase' # "idle" /\ HandedOK' /\ sent = <<>> /\ app = "up" /\ SendSurveyData(r)
      /\ profile \in {"nil", "loaded", "partial"}
  BY FinishingHandsOver DEF FlowInv, TypeOK
<1>2. r \in Seq(GivenResults)
  BY <1>1 DEF HandedOK
<1> HIDE DEF r
<1>3. QED
  BY <1>1, <1>2, SendsAPrefix DEF r

\* What a completed run hands over, after the step that completed it.
LEMMA CompletingHandsOver ==
    ASSUME FlowInv, Finishing, phase' = "completed"
    PROVE  LET r == HandedOver(managed, stack)' IN
           /\ nq \in Nat /\ Len(r) = nq
           /\ \A i \in 1..nq : /\ r[i] = [question |-> texts[i], answer |-> Given(i + 1)']
                               /\ i + 1 \notin reviewEdited' => Given(i + 1)' = entered[i + 1]
                               /\ entered'[i + 1] = entered[i + 1]
<1> DEFINE r == HandedOver(managed, stack)'
           g(i) == Given(i + 1)'
<1>1. /\ HandedOK' /\ nq' = nq /\ texts' = texts /\ phase' # "idle"
      /\ \A q \in 1..(nq + 1) : entered'[q] = entered[q]
  BY FinishingHandsOver DEF tabVars
<1>2. /\ nq \in Nat /\ r = [i \in 1..nq |-> [question |-> texts[i], answer |-> g(i)]]
      /\ \A q \in 2..(nq + 1) : q \notin reviewEdited' => Given(q)' = entered'[q]
  BY <1>1 DEF HandedOK
<1>3. \A i \in 1..nq : i + 1 \in 2..(nq + 1) /\ i + 1 \in 1..(nq + 1)
  BY <1>2
<1>4. \A i \in 1..nq : /\ i + 1 \notin reviewEdited' => g(i) = entered[i + 1]
                       /\ entered'[i + 1] = entered[i + 1]
  BY <1>1, <1>2, <1>3
<1> HIDE DEF g
<1>5. Len(r) = nq /\ \A i \in 1..nq : r[i] = [question |-> texts[i], answer |-> g(i)]
  BY <1>2
<1>6. QED
  BY <1>2, <1>4, <1>5 DEF g

LEMMA FinishingKeeps ==
    ASSUME FlowInv, Finishing PROVE FlowInv'
<1> DEFINE r == HandedOver(managed, stack)'
<1>1. /\ phase' \in {"completed", "discarded"} /\ phase \in {"running", "confirm"}
      /\ nq' = nq /\ UNCHANGED <<profile, survey, texts>> /\ Proved!RunInv'
      /\ profile \in {"nil", "loaded", "partial"}
  BY FinishingHandsOver DEF tabVars, FlowInv, TypeOK
<1>2. /\ app' \in {"up", "crashed"} /\ sent' \in Seq(Responses)
      /\ Len(sent') \in 0..Len(r) /\ \A i \in 1..Len(sent') : sent'[i] = r[i]
  BY FinishingSends
<1>3. app' = "crashed" =>
        \/ profile = "partial" /\ sent' = <<>>
        \/ profile = "loaded" /\ \E i \in 1..Len(r) : r[i].answer = Null
  BY FinishingSends
<1>4. phase' = "completed" =>
           /\ nq \in Nat /\ Len(r) = nq
           /\ \A i \in 1..nq : /\ r[i] = [question |-> texts[i], answer |-> Given(i + 1)']
                               /\ i + 1 \notin reviewEdited' => Given(i + 1)' = entered[i + 1]
                               /\ entered'[i + 1] = entered[i + 1]
  BY CompletingHandsOver
<1> HIDE DEF r
<1>5. TypeOK'
  BY <1>1, <1>2 DEF FlowInv, TypeOK
<1>6. IsInjective(StepIdentifiers(texts'))
  BY <1>1 DEF FlowInv
<1>7. SentInOrder'
  <2> SUFFICES ASSUME phase' = "completed"
               PROVE  /\ Len(sent') \in 0..nq
                      /\ \A i \in 1..Len(sent') : sent'[i].question = texts[i]
    BY <1>1 DEF SentInOrder
  <2>1. \A i \in 1..Len(sent') : i \in 1..nq
    BY <1>2, <1>4
  <2>2. QED
    BY <1>2, <1>4, <2>1
<1>8. CrashesAreKnown'
  <2> SUFFICES ASSUME profile = "loaded", phase' = "completed",
                      NEW i \in 1..Len(r), r[i].answer = Null
               PROVE  \E q \in 2..(nq + 1) : entered'[q] = Null \/ q \in reviewEdited'
    BY <1>1, <1>3 DEF CrashesAreKnown, Run!Questions
  <2>1. /\ nq \in Nat /\ i \in 1..nq /\ r[i].answer = Given(i + 1)'
        /\ i + 1 \notin reviewEdited' => Given(i + 1)' = entered'[i + 1]
    BY <1>4
  <2>2. i + 1 \in 2..(nq + 1)
    BY <2>1
  <2>3. entered'[i + 1] = Null \/ i + 1 \in reviewEdited'
    BY <2>1
  <2>4. QED
    BY <2>2, <2>3
<1>9. QED
  BY <1>1, <1>5, <1>6, <1>7, <1>8 DEF FlowInv

LEMMA FlowInvariance == Spec => []FlowInv
<1>1. Init => FlowInv
  <2> SUFFICES ASSUME Init PROVE FlowInv
    OBVIOUS
  <2>1. Proved!RunInv
    BY InitRun DEF Init
  <2>2. nq = 0 /\ phase = "idle"
    BY DEF Init, Run!Init
  <2>3. TypeOK
    BY <2>2 DEF Init, TypeOK
  <2>4. QED
    BY <2>1, <2>2, <2>3 DEF Init, FlowInv, SentInOrder, CrashesAreKnown
<1>2. FlowInv /\ [Next]_vars => FlowInv'
  <2> SUFFICES ASSUME FlowInv, [Next]_vars PROVE FlowInv'
    OBVIOUS
  <2>1. ASSUME NEW o \in {"loaded", "partial"}, ProfileArrives(o) PROVE FlowInv'
    <3>1. /\ app = "up" /\ profile' \in {"nil", "loaded", "partial"}
          /\ UNCHANGED <<app, survey, texts, sent, runVars>>
          /\ survey \in Surveys \cup {NoSurvey}
      BY <2>1 DEF ProfileArrives, FlowInv, TypeOK
    <3>2. QED
      BY <3>1, ArrivalsKeep
  <2>2. ASSUME NEW qs \in Surveys, SnapshotArrives(qs) PROVE FlowInv'
    <3>1. /\ app = "up" /\ survey' \in Surveys \cup {NoSurvey}
          /\ UNCHANGED <<app, profile, texts, sent, runVars>>
          /\ profile \in {"nil", "loaded", "partial"}
      BY <2>2 DEF SnapshotArrives, FlowInv, TypeOK
    <3>2. QED
      BY <3>1, ArrivalsKeep
  <2>3. CASE SelectRow
    BY <2>3, SelectRowKeeps
  <2>4. CASE Answering
    BY <2>4, AnsweringKeeps
  <2>5. CASE Finishing
    BY <2>5, FinishingKeeps
  <2>6. CASE Swiping
    BY <2>6, SwipingKeeps
  <2>7. CASE Relaunch
    <3>1. Run!Init'
      BY <2>7 DEF Relaunch, Run!Init, Run!NoResults, Run!NoVC, Run!NothingEntered,
                  Run!AllSteps, Run!Positions
    <3>2. QED
      BY <2>7, <3>1, StartKeeps DEF Relaunch
  <2>8. CASE UNCHANGED vars
    BY <2>8, StutterKeeps
  <2>9. QED
    BY <2>1, <2>2, <2>3, <2>4, <2>5, <2>6, <2>7, <2>8 DEF Next
<1>3. QED
  BY <1>1, <1>2, PTL DEF Spec

(***************************************************************************)
(* The theorems.                                                           *)
(***************************************************************************)

(* The tab's variables stay in their ranges: only answered questions of    *)
(* the surveys there are become response documents.                        *)
THEOREM FlowTypeCorrect == Spec => []TypeOK
<1>1. FlowInv => TypeOK
  BY DEF FlowInv
<1>2. QED
  BY <1>1, FlowInvariance, PTL

(* A completed run sends no question twice, whatever the paths through it  *)
(* and the snapshots that arrived meanwhile: what is sent follows the      *)
(* texts of its task, which differ.                                        *)
THEOREM EachQuestionOnce == Spec => []CompletedRunSendsEachQuestionOnce
<1>1. FlowInv => CompletedRunSendsEachQuestionOnce
  <2> SUFFICES ASSUME FlowInv, phase = "completed"
               PROVE  IsInjective([i \in 1..Len(sent) |-> sent[i].question])
    BY DEF CompletedRunSendsEachQuestionOnce
  <2>1. /\ Len(sent) \in 0..nq /\ nq = Len(texts) /\ nq \in Nat
        /\ \A i \in 1..Len(sent) : sent[i].question = texts[i]
        /\ IsInjective(StepIdentifiers(texts))
    BY TypeGivesTexts DEF FlowInv, SentInOrder, TypeOK
  <2>2. \A i, j \in 1..Len(texts) : texts[i] = texts[j] => i = j
    BY <2>1, TypeGivesTexts, DifferentTexts
  <2>3. \A i \in 1..Len(sent) : i \in 1..Len(texts)
    BY <2>1
  <2>4. \A i, j \in 1..Len(sent) : sent[i].question = sent[j].question => i = j
    BY <2>1, <2>2, <2>3
  <2>5. QED
    BY <2>4 DEF IsInjective
<1>2. QED
  BY <1>1, FlowInvariance, PTL

(* The application fails in the four known ways and in no other.           *)
THEOREM CrashesKnown == Spec => []CrashesAreKnown
<1>1. FlowInv => CrashesAreKnown
  BY DEF FlowInv
<1>2. QED
  BY <1>1, FlowInvariance, PTL

\* Only the end of a run sends, and only it completes or discards a run.
LEMMA OnlyFinishing ==
    ASSUME FlowInv, Next
    PROVE  \/ Finishing
           \/ sent' \in {sent, <<>>} /\ (phase' = phase \/ phase' \in {"idle", "running", "confirm"})
<1>1. CASE \E o \in {"loaded", "partial"} : ProfileArrives(o)
  BY <1>1 DEF ProfileArrives, runVars
<1>2. CASE \E qs \in Surveys : SnapshotArrives(qs)
  BY <1>2 DEF SnapshotArrives, runVars
<1>3. CASE SelectRow
  BY <1>3 DEF SelectRow, runVars, Run!Present
<1>4. CASE Answering
  BY <1>4, InsideRunPhases DEF Answering
<1>5. CASE Swiping
  BY <1>5 DEF Swiping, Run!SwipeAway
<1>6. CASE Relaunch
  BY <1>6 DEF Relaunch
<1>7. QED
  BY <1>1, <1>2, <1>3, <1>4, <1>5, <1>6 DEF Next

(* Responses are added by the step that ends a run and by no other.        *)
THEOREM ResponsesOnlyAtTheEnd == Spec => ResponsesOnlyAtTheEndOfARun
<1> DEFINE A == sent' # sent /\ sent' # <<>> =>
                  phase \in {"running", "confirm"} /\ phase' \in {"completed", "discarded"}
<1>1. FlowInv /\ [Next]_vars => [A]_vars
  <2> SUFFICES ASSUME FlowInv, Next PROVE A
    BY DEF vars
  <2>1. CASE Finishing
    BY <2>1, FinishingHandsOver
  <2>2. QED
    BY <2>1, OnlyFinishing
<1>2. QED
  BY <1>1, FlowInvariance, PTL DEF Spec, ResponsesOnlyAtTheEndOfARun

(* Done sends, with a profile and without review edits, what was entered   *)
(* last, question by question, up to the first that was skipped: for every *)
(* survey and every way through it.                                        *)
THEOREM DoneSends == Spec => DoneSendsWhatWasEntered
<1> DEFINE told == [i \in 1..Answered |-> [question |-> texts[i], answer |-> entered[i + 1]]]
           A == phase' = "completed" /\ phase # phase' /\ profile = "loaded" /\ reviewEdited' = {}
                  => sent' = told
<1>1. FlowInv /\ [Next]_vars => [A]_vars
  <2> SUFFICES ASSUME FlowInv, Next, phase' = "completed", phase # phase', profile = "loaded",
                      reviewEdited' = {}
               PROVE  sent' = told
    BY DEF vars
  <2> DEFINE r == HandedOver(managed, stack)'
  <2>1. Finishing
    BY OnlyFinishing
  <2>2. /\ nq \in Nat /\ Len(r) = nq
        /\ \A i \in 1..nq : r[i] = [question |-> texts[i], answer |-> entered[i + 1]]
    BY <2>1, CompletingHandsOver
  <2>3. PICK b : /\ IsFirstOf(b, {i \in 1..Len(r) : r[i].answer = Null})
                 /\ Len(sent') = SentCount(r, b)
    BY <2>1, FinishingSends
  <2>4. /\ sent' \in Seq(Responses) /\ Len(sent') \in 0..Len(r)
        /\ \A i \in 1..Len(sent') : sent'[i] = r[i]
    BY <2>1, FinishingSends
  <2> HIDE DEF r
  <2>5. {i \in 1..Len(r) : r[i].answer = Null} = {i \in 1..nq : entered[i + 1] = Null}
    BY <2>2
  <2>6. b = FirstSkipped
    <3> DEFINE I == {i \in 1..nq : entered[i + 1] = Null}
    <3>1. IsFirstOf(b, I) /\ IsFirstOf(FirstSkipped, I) /\ I \subseteq Nat
      <4>1. IsFirstOf(b, I)
        BY <2>3, <2>5
      <4>2. IsFirstOf(FirstSkipped, I)
        BY <2>2, FirstSkippedIsFirst
      <4>3. QED
        BY <2>2, <4>1, <4>2
    <3> HIDE DEF I
    <3>2. CASE I = {}
      BY <3>1, <3>2 DEF IsFirstOf
    <3>3. CASE I # {}
      <4>1. b \in Nat /\ FirstSkipped \in Nat /\ b <= FirstSkipped /\ FirstSkipped <= b
        BY <3>1, <3>3 DEF IsFirstOf
      <4>2. QED
        BY <4>1
    <3>4. QED
      BY <3>2, <3>3
  <2>7. Len(sent') = Answered
    BY <2>2, <2>3, <2>6 DEF SentCount, Answered
  <2>8. \A i \in 1..Len(sent') : sent'[i] = [question |-> texts[i], answer |-> entered[i + 1]]
    BY <2>2, <2>4
  <2>9. sent' = [i \in 1..Len(sent') |-> sent'[i]]
    BY <2>4
  <2>10. QED
    BY <2>7, <2>8, <2>9
<1>2. QED
  BY <1>1, FlowInvariance, PTL DEF Spec, DoneSendsWhatWasEntered
=============================================================================
