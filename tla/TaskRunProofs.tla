--------------------------- MODULE TaskRunProofs ---------------------------
(* Proofs about TaskRun, for every number of questions and every set of    *)
(* texts.                                                                  *)
EXTENDS TaskRun, SequenceTheorems, TLAPS

(***************************************************************************)
(* Stacks: what pushing and popping does to a walk through the task.       *)
(***************************************************************************)

\* A walk is a sequence of its length.
LEMMA WalkIsSeq ==
    ASSUME NEW k \in Nat
    PROVE  Walk(k) \in Seq(1..k) /\ Len(Walk(k)) = k
BY DEF Walk

\* The top of a non-empty walk is its last step.
LEMMA WalkTop ==
    ASSUME NEW k \in Nat \ {0}, NEW s
    PROVE  IsTop(Walk(k), s) <=> s = k
<1>1. Walk(k) # <<>> /\ TopOf(Walk(k)) = k
  BY WalkIsSeq DEF Walk, TopOf
<1>2. QED
  BY <1>1 DEF IsTop

\* Pushing the next step extends a walk by one.
LEMMA WalkPush ==
    ASSUME NEW k \in Nat
    PROVE  Append(Walk(k), k + 1) = Walk(k + 1)
<1> DEFINE push == Append(Walk(k), k + 1)
<1>1. push \in Seq(Nat) /\ Walk(k + 1) \in Seq(Nat)
  BY WalkIsSeq
<1>2. Len(push) = k + 1 /\ Len(Walk(k + 1)) = k + 1
  BY WalkIsSeq
<1>3. \A i \in 1..Len(push) : push[i] = Walk(k + 1)[i]
  BY <1>2, WalkIsSeq DEF Walk
<1>4. QED
  <2> HIDE DEF push
  <2>1. Len(push) = Len(Walk(k + 1))
    BY <1>2
  <2>2. push = Walk(k + 1)
    BY <1>1, <1>3, <2>1, SeqEqual
  <2>3. QED
    BY <2>2 DEF push

\* Popping a walk shortens it by one.
LEMMA WalkPop ==
    ASSUME NEW k \in Nat \ {0}
    PROVE  Pop(Walk(k)) = Walk(k - 1)
<1>1. Len(Walk(k)) - 1 = k - 1
  BY WalkIsSeq
<1>2. Pop(Walk(k)) = SubSeq(Walk(k), 1, k - 1)
  BY <1>1 DEF Pop
<1>3. \A i \in 1..(k - 1) : SubSeq(Walk(k), 1, k - 1)[i] = i
  BY WalkIsSeq DEF Walk
<1>4. QED
  BY <1>2, <1>3, WalkIsSeq DEF Walk

\* A step under review lies on top of the walk to the review step, and
\* taking it off gives that walk back.
LEMMA DetourTop ==
    ASSUME NEW k \in Nat \ {0}, NEW s \in 1..k
    PROVE  /\ Append(Walk(k), s) \in Seq(1..k)
           /\ Len(Append(Walk(k), s)) = k + 1
           /\ \A x : IsTop(Append(Walk(k), s), x) <=> x = s
           /\ Pop(Append(Walk(k), s)) = Walk(k)
           /\ \A i \in 1..k : Append(Walk(k), s)[i] = i
           /\ Append(Walk(k), s)[k + 1] = s
<1>1. Walk(k) \in Seq(1..k) /\ Len(Walk(k)) = k
  BY WalkIsSeq
<1>2. Append(Walk(k), s) \in Seq(1..k) /\ Len(Append(Walk(k), s)) = k + 1
  BY <1>1
<1>3. Append(Walk(k), s)[k + 1] = s /\ \A i \in 1..k : Append(Walk(k), s)[i] = i
  BY <1>1 DEF Walk
<1>4. \A x : IsTop(Append(Walk(k), s), x) <=> x = s
  BY <1>2, <1>3 DEF IsTop, TopOf
<1>5. Pop(Append(Walk(k), s)) = Walk(k)
  <2>1. Pop(Append(Walk(k), s)) = SubSeq(Append(Walk(k), s), 1, k)
    BY <1>2 DEF Pop
  <2>2. \A i \in 1..k : SubSeq(Append(Walk(k), s), 1, k)[i] = i
    BY <1>2, <1>3
  <2>3. QED
    BY <1>1, <1>2, <2>1, <2>2 DEF Walk
<1>6. QED
  BY <1>2, <1>3, <1>4, <1>5

(***************************************************************************)
(* Results: filing one keeps the type and never takes a result away.       *)
(***************************************************************************)

\* Every indexed result of m1 is still there in m2.
Kept(m1, m2) ==
    \A s \in AllSteps, i \in Positions :
        m1.byKey[s][i] # Absent => m2.byKey[s][i] # Absent

\* A stack short enough for its next push to have a position.
Fits(st) == st \in Seq(Nat) /\ Len(st) <= MaxQuestions + 3

\* The index of a key lies within the positions.
LEMMA KeyPositionInRange ==
    ASSUME NEW st, Fits(st), NEW s
    PROVE  KeyPosition(st, s) \in Positions
<1>1. Len(st) \in Nat /\ (st # <<>> => Len(st) > 0)
  BY DEF Fits
<1>2. QED
  BY <1>1, MaxQuestionsAssumption DEF KeyPosition, Positions, IsTop, Fits

\* Filing an answer keeps what is there and adds the key it files under.
LEMMA SetResultKeeps ==
    ASSUME NEW m \in ManagedType, NEW st, Fits(st),
           NEW s \in AllSteps, NEW r \in Answers
    PROVE  /\ SetResult(m, st, s, r) \in ManagedType
           /\ Kept(m, SetResult(m, st, s, r))
           /\ SetResult(m, st, s, r).byKey[s][KeyPosition(st, s)] # Absent
<1>1. KeyPosition(st, s) \in Positions
  BY KeyPositionInRange
<1> DEFINE p == KeyPosition(st, s)
<1>2. r \in Results /\ r # Absent
  BY MarkersAssumption DEF Results, Answers
<1> HIDE DEF p
<1>3. [m EXCEPT !.byId[s] = r, !.byKey[s][p] = r] \in ManagedType
  BY <1>1, <1>2 DEF ManagedType, p
<1>4. /\ Kept(m, [m EXCEPT !.byId[s] = r, !.byKey[s][p] = r])
      /\ [m EXCEPT !.byId[s] = r, !.byKey[s][p] = r].byKey[s][p] # Absent
  BY <1>1, <1>2 DEF ManagedType, Kept, p
<1>5. QED
  BY <1>3, <1>4 DEF SetResult, p

\* A new controller is well formed and starts outside the text field.
LEMMA NewStepVCIsWellFormed ==
    ASSUME nq \in 0..MaxQuestions, NEW m \in ManagedType,
           NEW s \in Steps, NEW b \in BOOLEAN
    PROVE  /\ NewStepVC(m, s, b) \in VCType
           /\ NewStepVC(m, s, b).step = s
           /\ NewStepVC(m, s, b).reviewing = b
<1>1. s \in AllSteps
  BY MaxQuestionsAssumption DEF Steps, AllSteps, Summary
<1>2. RestoredAnswer(m, s) \in Answers
  BY <1>1 DEF RestoredAnswer, ManagedType, Results, Answers
<1>3. QED
  BY <1>2 DEF NewStepVC, VCType

(* Showing a step leaves it current, keeps every indexed result and files  *)
(* the new step's own.                                                     *)
LEMMA ShowStepKeeps ==
    ASSUME nq \in 0..MaxQuestions,
           NEW m \in ManagedType, NEW st, Fits(st),
           NEW from \in VCType, NEW v \in VCType,
           Fits(Shown(st, v.step)),
           ShowStep(m, st, from, v)
    PROVE  /\ stack' = Shown(st, v.step)
           /\ vc' = v
           /\ managed' \in ManagedType
           /\ Kept(m, managed')
           /\ managed'.byKey[v.step][KeyPosition(stack', v.step)] # Absent
<1> DEFINE shown == Shown(st, v.step)
           m1 == SetResult(m, st, from.step, from.answer)
           m2 == SetResult(m1, shown, v.step, v.answer)
           m3 == SetResult(m2, shown, from.step, from.text)
<1>1. /\ from.step \in AllSteps /\ from.answer \in Answers /\ from.text \in Answers
      /\ v.step \in AllSteps /\ v.answer \in Answers
  BY MaxQuestionsAssumption DEF VCType, Steps, AllSteps, Summary, Answers
<1>2. stack' = shown /\ vc' = v /\ (managed' = m2 \/ managed' = m3)
  BY DEF ShowStep
<1>3. m1 \in ManagedType /\ Kept(m, m1)
  BY <1>1, SetResultKeeps
<1>4. /\ m2 \in ManagedType /\ Kept(m1, m2)
      /\ m2.byKey[v.step][KeyPosition(shown, v.step)] # Absent
  <2> HIDE DEF m1, shown
  <2> QED BY <1>1, <1>3, SetResultKeeps DEF shown
<1>5. m3 \in ManagedType /\ Kept(m2, m3)
  <2> HIDE DEF m2, shown
  <2> QED BY <1>1, <1>4, SetResultKeeps DEF shown
<1>6. KeyPosition(shown, v.step) \in Positions
  BY KeyPositionInRange
<1> HIDE DEF m1, m2, m3, shown
<1>7. managed' \in ManagedType /\ Kept(m, managed')
  BY <1>2, <1>3, <1>4, <1>5 DEF Kept
<1>8. managed'.byKey[v.step][KeyPosition(shown, v.step)] # Absent
  BY <1>1, <1>2, <1>4, <1>5, <1>6 DEF Kept
<1>9. QED
  BY <1>2, <1>7, <1>8 DEF shown

(***************************************************************************)
(* The inductive invariant.  EveryManagedResultPresent is not inductive    *)
(* alone: which key a result is filed under depends on the top of the      *)
(* stack, so the shape of the stack has to be part of it.                  *)
(***************************************************************************)

IInv ==
    /\ TypeOK
    /\ phase = "idle" => stack = <<>>
    /\ StackFollowsTask
    /\ EveryManagedResultPresent

\* What the shape of the stack gives each step: it is short, the current
\* step is on top, and its identifiers are steps of the task.
LEMMA ShapeFacts ==
    ASSUME IInv, phase # "idle"
    PROVE  /\ Fits(stack)
           /\ stack \in Seq(Steps)
           /\ IsTop(stack, vc.step)
           /\ vc.step \in Steps /\ nq \in Nat
           /\ vc.reviewing => /\ vc.step \in 1..(nq + 1)
                              /\ stack = Append(Walk(Review), vc.step)
           /\ ~vc.reviewing => stack = Walk(vc.step)
<1>1. nq \in 0..MaxQuestions /\ vc \in VCType /\ stack \in Seq(Steps)
  BY DEF IInv, TypeOK
<1>2. vc.step \in Steps /\ nq \in Nat /\ nq <= MaxQuestions
  BY <1>1, MaxQuestionsAssumption DEF VCType
<1>3. CASE vc.reviewing
  <2>1. vc.step \in 1..(nq + 1) /\ stack = Append(Walk(Review), vc.step)
    BY <1>2, <1>3 DEF IInv, StackFollowsTask, Questions, Intro
  <2>2. Review \in Nat \ {0} /\ vc.step \in 1..Review
    BY <1>2, <2>1 DEF Review
  <2>3. /\ stack \in Seq(1..Review) /\ Len(stack) = Review + 1
        /\ IsTop(stack, vc.step)
    BY <2>1, <2>2, DetourTop
  <2>4. Fits(stack)
    BY <1>1, <1>2, <2>3, MaxQuestionsAssumption DEF Fits, Review, Steps, Summary
  <2>5. QED
    BY <1>1, <1>2, <1>3, <2>1, <2>3, <2>4
<1>4. CASE ~vc.reviewing
  <2>1. stack = Walk(vc.step)
    BY <1>4 DEF IInv, StackFollowsTask
  <2>2. vc.step \in Nat \ {0} /\ vc.step <= nq + 3
    BY <1>2 DEF Steps, Summary
  <2>3. Len(stack) = vc.step /\ IsTop(stack, vc.step)
    BY <2>1, <2>2, WalkIsSeq, WalkTop
  <2>4. Fits(stack)
    BY <1>1, <1>2, <2>2, <2>3, MaxQuestionsAssumption DEF Fits, Steps, Summary
  <2>5. QED
    BY <1>1, <1>2, <1>4, <2>1, <2>3, <2>4
<1>5. vc.reviewing \in BOOLEAN
  BY <1>1 DEF VCType
<1>6. QED
  BY <1>3, <1>4, <1>5

\* Filing the current step's result changes nothing the invariant is about.
LEMMA RefileKeepsInv ==
    ASSUME IInv, phase # "idle", NEW a \in Answers,
           managed' = SetResult(managed, stack, vc.step, a),
           UNCHANGED <<nq, stack>>,
           vc' \in VCType, vc'.step = vc.step, vc'.reviewing = vc.reviewing,
           phase' \in {"running", "confirm", "completed", "discarded"},
           entered' \in [AllSteps -> Answers], reviewEdited' \subseteq AllSteps
    PROVE  IInv'
<1>1. Fits(stack) /\ stack \in Seq(Steps) /\ vc.step \in Steps /\ nq \in Nat
  BY ShapeFacts
<1>2. managed \in ManagedType /\ vc.step \in AllSteps /\ nq <= MaxQuestions
  BY <1>1, MaxQuestionsAssumption DEF IInv, TypeOK, Steps, AllSteps, Summary
<1>3. managed' \in ManagedType /\ Kept(managed, managed')
  BY <1>1, <1>2, SetResultKeeps
<1>4. TypeOK'
  <2>1. nq' \in 0..MaxQuestions /\ stack' \in Seq(Steps') /\ vc' \in VCType'
    BY <1>1 DEF IInv, TypeOK, Steps, Summary, VCType
  <2>2. QED
    BY <1>3, <2>1 DEF TypeOK, ManagedType
<1>5. StackFollowsTask'
  BY DEF IInv, StackFollowsTask, Review, Questions, Intro
<1>6. EveryManagedResultPresent'
  <2>1. \A i \in 1..Len(stack) : stack[i] \in AllSteps /\ i \in Positions
    BY <1>1, <1>2, MaxQuestionsAssumption DEF Fits, Steps, Summary, AllSteps, Positions
  <2>2. QED
    BY <1>3, <2>1 DEF IInv, EveryManagedResultPresent, Kept
<1>7. QED
  BY <1>4, <1>5, <1>6 DEF IInv

\* What a step that shows v establishes, given the stack it leaves.
LEMMA ShownStepKeepsInv ==
    ASSUME IInv, phase = "running",
           nq' = nq, phase' = "running",
           stack' \in Seq(Steps), vc' \in VCType, managed' \in ManagedType,
           entered' \in [AllSteps -> Answers], reviewEdited' \subseteq AllSteps,
           StackFollowsTask', EveryManagedResultPresent'
    PROVE  IInv'
<1>1. TypeOK'
  BY DEF IInv, TypeOK, Steps, Summary, VCType, ManagedType
<1>2. QED
  BY <1>1 DEF IInv

\* Going forward walks one step further.
LEMMA FlipToNextPageKeepsInv ==
    ASSUME IInv, phase = "running", ~vc.reviewing, vc.step # Summary,
           NEW from \in VCType, from.step = vc.step,
           FlipToNextPage(from), UNCHANGED <<nq, phase>>,
           entered' \in [AllSteps -> Answers], reviewEdited' \subseteq AllSteps
    PROVE  IInv'
<1> DEFINE k == vc.step
           m1 == SetResult(managed, stack, from.step, from.answer)
           v  == NewStepVC(m1, from.step + 1, FALSE)
           m2 == SetResult(m1, stack, v.step, v.answer)
<1>1. /\ Fits(stack) /\ stack = Walk(k) /\ k \in Steps /\ nq \in Nat
      /\ nq \in 0..MaxQuestions /\ managed \in ManagedType
  BY ShapeFacts DEF IInv, TypeOK
<1>2. k \in Nat \ {0} /\ k + 1 \in Steps /\ k \in AllSteps /\ k + 1 \in AllSteps
  BY <1>1, MaxQuestionsAssumption DEF Steps, Summary, AllSteps
<1>3. m1 \in ManagedType /\ Kept(managed, m1)
  BY <1>1, <1>2, SetResultKeeps DEF VCType
<1>4. v \in VCType /\ v.step = k + 1 /\ v.reviewing = FALSE
  <2>1. from.step + 1 = k + 1 /\ from.step + 1 \in Steps
    BY <1>2
  <2> HIDE DEF m1
  <2>2. QED
    BY <1>1, <1>3, <2>1, NewStepVCIsWellFormed
<1>5. m2 \in ManagedType /\ Kept(m1, m2)
  <2> HIDE DEF m1, v
  <2> QED BY <1>1, <1>2, <1>3, <1>4, SetResultKeeps DEF VCType
<1>6. Shown(stack, v.step) = Walk(k + 1)
  BY <1>1, <1>2, <1>4, WalkTop, WalkPush DEF Shown
<1>7. /\ Walk(k + 1) \in Seq(1..(k + 1)) /\ Len(Walk(k + 1)) = k + 1
      /\ Walk(k + 1) \in Seq(Steps)
      /\ Fits(Walk(k + 1))
  <2>1. Walk(k + 1) \in Seq(1..(k + 1)) /\ Len(Walk(k + 1)) = k + 1
    BY <1>2, WalkIsSeq
  <2>2. k + 1 <= nq + 3 /\ nq <= MaxQuestions
    BY <1>1, <1>2, MaxQuestionsAssumption DEF Steps, Summary
  <2>3. QED
    BY <1>1, <1>2, <2>1, <2>2, MaxQuestionsAssumption DEF Fits, Steps, Summary
<1>8. ShowStep(m2, stack, from, v)
  BY DEF FlipToNextPage
<1>9. /\ stack' = Walk(k + 1) /\ vc' = v
      /\ managed' \in ManagedType /\ Kept(m2, managed')
      /\ managed'.byKey[k + 1][KeyPosition(stack', k + 1)] # Absent
  <2> HIDE DEF m2, v
  <2> QED BY <1>1, <1>4, <1>5, <1>6, <1>7, <1>8, ShowStepKeeps
<1> HIDE DEF m1, m2, v
<1>10. StackFollowsTask'
  BY <1>4, <1>9 DEF StackFollowsTask
<1>11. EveryManagedResultPresent'
  <2>1. \A i \in 1..k : i \in AllSteps /\ i \in Positions
    BY <1>1, <1>2, MaxQuestionsAssumption DEF Steps, Summary, AllSteps, Positions
  <2>2. \A i \in 1..k : managed.byKey[i][i] # Absent
    BY <1>1, <1>2, WalkIsSeq DEF IInv, EveryManagedResultPresent, Walk
  <2>3. \A i \in 1..k : managed'.byKey[i][i] # Absent
    BY <1>3, <1>5, <1>9, <2>1, <2>2 DEF Kept
  <2>4. KeyPosition(stack', k + 1) = k + 1
    BY <1>2, <1>7, <1>9, WalkTop DEF KeyPosition
  <2>5. \A i \in 1..(k + 1) : managed'.byKey[i][i] # Absent
    BY <1>2, <1>9, <2>3, <2>4
  <2>6. QED
    BY <1>2, <1>7, <1>9, <2>5 DEF EveryManagedResultPresent, Walk
<1>12. QED
  BY <1>4, <1>7, <1>9, <1>10, <1>11, ShownStepKeepsInv

\* Going back walks one step less, or returns from a detour to the review.
LEMMA FlipToPreviousPageKeepsInv ==
    ASSUME IInv, phase = "running", vc.reviewing \/ vc.step # Intro,
           NEW from \in VCType, from.step = vc.step, from.reviewing = vc.reviewing,
           FlipToPreviousPage(from), UNCHANGED <<nq, phase>>,
           entered' \in [AllSteps -> Answers], reviewEdited' \subseteq AllSteps
    PROVE  IInv'
<1> DEFINE k == IF from.reviewing THEN Review ELSE from.step - 1
           m1 == SetResult(managed, stack, from.step, from.answer)
           v  == NewStepVC(m1, k, FALSE)
           m2 == SetResult(m1, stack, v.step, v.answer)
<1>1. /\ Fits(stack) /\ vc.step \in Steps /\ nq \in Nat /\ stack \in Seq(Steps)
      /\ nq \in 0..MaxQuestions /\ managed \in ManagedType
      /\ vc.reviewing => /\ vc.step \in 1..(nq + 1)
                         /\ stack = Append(Walk(Review), vc.step)
      /\ ~vc.reviewing => stack = Walk(vc.step)
  BY ShapeFacts DEF IInv, TypeOK
<1>2. k \in Nat \ {0} /\ k \in Steps /\ k \in AllSteps /\ vc.step \in AllSteps
  BY <1>1, MaxQuestionsAssumption DEF Steps, Summary, AllSteps, Review, Intro
<1>3. /\ Pop(stack) = Walk(k)
      /\ \A i \in 1..k : i \in 1..Len(stack) /\ stack[i] = i
  <2>1. CASE vc.reviewing
    <3>1. k = Review /\ Review \in Nat \ {0} /\ vc.step \in 1..Review
      BY <1>1, <2>1 DEF Review
    <3>2. stack = Append(Walk(Review), vc.step)
      BY <1>1, <2>1
    <3> HIDE DEF k
    <3>3. /\ Pop(Append(Walk(Review), vc.step)) = Walk(Review)
          /\ Len(Append(Walk(Review), vc.step)) = Review + 1
          /\ \A i \in 1..Review : Append(Walk(Review), vc.step)[i] = i
      BY <3>1, DetourTop
    <3>4. QED
      BY <3>1, <3>2, <3>3
  <2>2. CASE ~vc.reviewing
    <3>1. k = vc.step - 1 /\ vc.step \in Nat \ {0}
      BY <1>1, <2>2 DEF Steps, Summary
    <3> HIDE DEF k
    <3>2. stack = Walk(vc.step) /\ Pop(stack) = Walk(k) /\ Len(stack) = vc.step
      BY <1>1, <2>2, <3>1, WalkPop, WalkIsSeq
    <3>3. \A i \in 1..k : i \in 1..Len(stack) /\ stack[i] = i
      BY <1>2, <3>1, <3>2 DEF Walk
    <3>4. QED
      BY <3>2, <3>3
  <2>3. QED
    BY <2>1, <2>2
<1>4. m1 \in ManagedType /\ Kept(managed, m1)
  BY <1>1, <1>2, SetResultKeeps DEF VCType
<1>5. v \in VCType /\ v.step = k /\ v.reviewing = FALSE
  <2> HIDE DEF m1, k
  <2> QED BY <1>1, <1>2, <1>4, NewStepVCIsWellFormed
<1>6. m2 \in ManagedType /\ Kept(m1, m2)
  <2> HIDE DEF m1, v, k
  <2> QED BY <1>1, <1>2, <1>4, <1>5, SetResultKeeps DEF VCType
<1>7. ShowStep(m2, Pop(stack), from, v)
  BY DEF FlipToPreviousPage
<1> HIDE DEF m1, m2, v, k
<1>8. Shown(Pop(stack), v.step) = Walk(k)
  BY <1>2, <1>3, <1>5, WalkTop DEF Shown
<1>9. Walk(k) \in Seq(Steps) /\ Len(Walk(k)) = k /\ Fits(Walk(k))
  <2>1. Walk(k) \in Seq(1..k) /\ Len(Walk(k)) = k
    BY <1>2, WalkIsSeq
  <2>2. k <= nq + 3 /\ nq <= MaxQuestions
    BY <1>1, <1>2, MaxQuestionsAssumption DEF Steps, Summary
  <2>3. QED
    BY <1>1, <1>2, <2>1, <2>2, MaxQuestionsAssumption DEF Fits, Steps, Summary
<1>10. /\ stack' = Walk(k) /\ vc' = v
       /\ managed' \in ManagedType /\ Kept(m2, managed')
  BY <1>1, <1>3, <1>5, <1>6, <1>7, <1>8, <1>9, ShowStepKeeps
<1>11. StackFollowsTask'
  BY <1>5, <1>10 DEF StackFollowsTask
<1>12. EveryManagedResultPresent'
  <2>1. \A i \in 1..k : i \in AllSteps /\ i \in Positions
    BY <1>1, <1>2, MaxQuestionsAssumption DEF Steps, Summary, AllSteps, Positions
  <2>2. \A i \in 1..k : managed.byKey[i][i] # Absent
    BY <1>3 DEF IInv, EveryManagedResultPresent
  <2>3. \A i \in 1..k : managed'.byKey[i][i] # Absent
    BY <1>4, <1>6, <1>10, <2>1, <2>2 DEF Kept
  <2>4. QED
    BY <1>2, <1>9, <1>10, <2>3 DEF EveryManagedResultPresent, Walk
<1>13. QED
  BY <1>5, <1>9, <1>10, <1>11, <1>12, ShownStepKeepsInv

\* A tapped review row lays its step on top of the review step.
LEMMA ReviewRowKeepsInv ==
    ASSUME IInv, NEW s \in AllSteps, ReviewRow(s)
    PROVE  IInv'
<1> DEFINE v == NewStepVC(managed, s, TRUE)
           m == SetResult(managed, stack, s, v.answer)
<1>1. /\ phase = "running" /\ vc.step = Review /\ s \in Questions \cup {Intro}
      /\ nq' = nq /\ phase' = phase /\ entered' = entered
      /\ reviewEdited' = reviewEdited
      /\ ShowStep(m, stack, vc, v)
  BY DEF ReviewRow
<1>2. /\ Fits(stack) /\ nq \in Nat /\ nq \in 0..MaxQuestions
      /\ managed \in ManagedType /\ vc \in VCType
  BY <1>1, ShapeFacts DEF IInv, TypeOK
<1>3. stack = Walk(Review)
  <2>1. ~vc.reviewing
    BY <1>1, <1>2, ShapeFacts DEF Review
  <2>2. QED
    BY <1>1, <2>1, ShapeFacts
<1>4. /\ Review \in Nat \ {0} /\ s \in 1..Review /\ s \in 1..(nq + 1) /\ s # Review
      /\ s \in Steps /\ Review \in Steps
  BY <1>1, <1>2 DEF Review, Questions, Intro, Steps, Summary
<1>5. v \in VCType /\ v.step = s /\ v.reviewing = TRUE
  BY <1>2, <1>4, NewStepVCIsWellFormed
<1>6. m \in ManagedType /\ Kept(managed, m)
  <2> HIDE DEF v
  <2> QED BY <1>2, <1>5, SetResultKeeps DEF VCType
<1> HIDE DEF v, m
<1> DEFINE top == Append(Walk(Review), s)
<1>7. Shown(stack, v.step) = top
  BY <1>3, <1>4, <1>5, WalkTop DEF Shown
<1>8. /\ top \in Seq(1..Review) /\ Len(top) = Review + 1
      /\ \A x : IsTop(top, x) <=> x = s
      /\ \A i \in 1..Review : top[i] = i
      /\ top[Review + 1] = s
  BY <1>4, DetourTop
<1> HIDE DEF top
<1>9. top \in Seq(Steps) /\ Fits(top)
  BY <1>2, <1>8, MaxQuestionsAssumption DEF Fits, Review, Steps, Summary
<1>10. /\ stack' = top /\ vc' = v
       /\ managed' \in ManagedType /\ Kept(m, managed')
       /\ managed'.byKey[s][KeyPosition(stack', s)] # Absent
  BY <1>1, <1>2, <1>5, <1>6, <1>7, <1>9, ShowStepKeeps
<1>11. StackFollowsTask'
  BY <1>1, <1>4, <1>5, <1>10 DEF StackFollowsTask, Review, Questions, Intro, top
<1>12. EveryManagedResultPresent'
  <2>1. \A i \in 1..Review : i \in AllSteps /\ i \in Positions
    BY <1>2, MaxQuestionsAssumption DEF Review, AllSteps, Positions
  <2>2. \A i \in 1..Review : managed.byKey[i][i] # Absent
    BY <1>3, <1>4, WalkIsSeq DEF IInv, EveryManagedResultPresent, Walk
  <2>3. \A i \in 1..Review : managed'.byKey[i][i] # Absent
    BY <1>6, <1>10, <2>1, <2>2 DEF Kept
  <2>4. top # <<>> /\ IsTop(top, s)
    BY <1>8 DEF IsTop
  <2>5. KeyPosition(stack', s) = Review + 1
    BY <1>8, <1>10, <2>4 DEF KeyPosition
  <2>6. \A i \in 1..(Review + 1) : managed'.byKey[top[i]][i] # Absent
    BY <1>4, <1>8, <1>10, <2>3, <2>5
  <2>7. QED
    BY <1>8, <1>10, <2>6 DEF EveryManagedResultPresent
<1>13. QED
  BY <1>1, <1>5, <1>9, <1>10, <1>11, <1>12, ShownStepKeepsInv DEF IInv, TypeOK

\* A presented task starts with the introduction alone on the stack.
LEMMA PresentKeepsInv ==
    ASSUME NEW n \in 0..MaxQuestions, Present(n)
    PROVE  IInv'
<1> DEFINE v  == NewStepVC(NoResults, Intro, FALSE)
           m1 == SetResult(NoResults, <<>>, Intro, v.answer)
           m2 == SetResult(m1, <<Intro>>, Intro, v.answer)
<1>1. /\ nq' = n /\ phase' = "running" /\ vc' = v
      /\ stack' = <<Intro>> /\ managed' = m2
      /\ entered' = NothingEntered /\ reviewEdited' = {}
  BY DEF Present
<1>2. /\ NoResults \in ManagedType
      /\ NoResults.byId[Intro] = Absent
      /\ Intro \in AllSteps
  BY MaxQuestionsAssumption DEF NoResults, ManagedType, Results, AllSteps, Intro
<1>3. v = [step |-> 1, answer |-> Nil, original |-> Nil, text |-> Null,
           editing |-> FALSE, reviewing |-> FALSE]
  BY <1>2, MarkersAssumption DEF NewStepVC, RestoredAnswer, Intro
<1>4. Fits(<<>>) /\ Fits(<<Intro>>) /\ KeyPosition(<<Intro>>, Intro) = 1
  BY MaxQuestionsAssumption DEF Fits, Intro, KeyPosition, IsTop, TopOf
<1> HIDE DEF v
<1>5. v.answer \in Answers
  BY <1>3 DEF Answers
<1>6. m1 \in ManagedType
  BY <1>2, <1>4, <1>5, SetResultKeeps
<1> HIDE DEF m1
<1>7. m2 \in ManagedType /\ m2.byKey[Intro][1] # Absent
  BY <1>2, <1>4, <1>5, <1>6, SetResultKeeps
<1> HIDE DEF m2
<1>8. TypeOK'
  <2>1. Intro \in Steps' /\ vc' \in VCType' /\ NothingEntered \in [AllSteps -> Answers]
    BY <1>1, <1>3, MaxQuestionsAssumption
       DEF Steps, Summary, VCType, Answers, NothingEntered, Intro
  <2>2. QED
    BY <1>1, <1>7, <2>1 DEF TypeOK, ManagedType
<1>9. StackFollowsTask'
  <2>1. <<Intro>> = Walk(1)
    BY DEF Walk, Intro
  <2>2. QED
    BY <1>1, <1>3, <2>1 DEF StackFollowsTask
<1>10. EveryManagedResultPresent'
  BY <1>1, <1>7 DEF EveryManagedResultPresent
<1>11. QED
  BY <1>1, <1>8, <1>9, <1>10 DEF IInv

\* The controllers the user's actions leave: well formed, same step.
LEMMA CommittedTypes ==
    ASSUME TypeOK, NEW a \in Answers, NEW b \in BOOLEAN, Commit(vc.step, a, b)
    PROVE  entered' \in [AllSteps -> Answers] /\ reviewEdited' \subseteq AllSteps
<1>1. vc.step \in AllSteps
  BY MaxQuestionsAssumption DEF TypeOK, VCType, Steps, Summary, AllSteps
<1>2. QED
  BY <1>1 DEF TypeOK, Commit

\* Every step of a run, and every start and end of one, keeps the invariant.
LEMMA NextKeepsInv ==
    ASSUME IInv, Next
    PROVE  IInv'
<1>1. TypeOK /\ vc \in VCType /\ Null \in Answers /\ vc.answer \in Answers
  BY DEF IInv, TypeOK, VCType, Answers
<1>2. ASSUME NEW n \in 0..MaxQuestions, Present(n) PROVE IInv'
  BY <1>2, PresentKeepsInv
<1>3. ASSUME NEW t \in Text \cup {Null}, TypeText(t) PROVE IInv'
  <2>1. t \in Answers
    BY DEF Answers
  <2>2. /\ phase = "running" /\ phase' = "running" /\ UNCHANGED <<nq, stack>>
        /\ managed' = SetResult(managed, stack, vc.step, t)
        /\ vc' \in VCType /\ vc'.step = vc.step /\ vc'.reviewing = vc.reviewing
        /\ entered' = entered /\ reviewEdited' = reviewEdited
    BY <1>1, <1>3, <2>1 DEF TypeText, OnQuestion, VCType
  <2>3. QED
    BY <1>1, <2>1, <2>2, RefileKeepsInv DEF TypeOK
<1>4. CASE EndEditing
  <2>1. vc.text \in Answers /\ vc.text \in Text \cup {Null}
    BY <1>1 DEF VCType, Answers
  <2>2. /\ phase = "running" /\ phase' = "running" /\ UNCHANGED <<nq, stack>>
        /\ managed' = SetResult(managed, stack, vc.step, vc.text)
        /\ vc' \in VCType /\ vc'.step = vc.step /\ vc'.reviewing = vc.reviewing
        /\ entered' = entered /\ reviewEdited' = reviewEdited
    BY <1>1, <1>4, <2>1 DEF EndEditing, OnQuestion, VCType
  <2>3. QED
    BY <1>1, <2>1, <2>2, RefileKeepsInv DEF TypeOK
<1>5. CASE Continue
  BY <1>1, <1>5, CommittedTypes, FlipToNextPageKeepsInv DEF Continue
<1>6. CASE Skip
  <2> DEFINE from == [vc EXCEPT !.answer = Null, !.text = Null]
  <2>1. from \in VCType /\ from.step = vc.step
    BY <1>1 DEF VCType
  <2>2. vc.step # Summary
    BY <1>1, <1>6, MaxQuestionsAssumption
       DEF Skip, OnQuestion, Questions, Summary, TypeOK
  <2>3. QED
    BY <1>1, <1>6, <2>1, <2>2, CommittedTypes, FlipToNextPageKeepsInv
       DEF Skip, OnQuestion
<1>7. CASE GoBack
  BY <1>1, <1>7, CommittedTypes, FlipToPreviousPageKeepsInv DEF GoBack
<1>8. ASSUME NEW s \in AllSteps, ReviewRow(s) PROVE IInv'
  BY <1>8, ReviewRowKeepsInv
<1>9. CASE SaveEdit
  BY <1>1, <1>9, CommittedTypes, FlipToPreviousPageKeepsInv DEF SaveEdit
<1>10. CASE ClearAnswer
  <2> DEFINE from == [vc EXCEPT !.answer = Null, !.text = Null]
  <2>1. from \in VCType /\ from.step = vc.step /\ from.reviewing = vc.reviewing
    BY <1>1 DEF VCType, Answers
  <2>2. QED
    BY <1>1, <1>10, <2>1, CommittedTypes, FlipToPreviousPageKeepsInv
       DEF ClearAnswer, OnQuestion
<1>11. CASE AbandonEdit
  <2> DEFINE from == [vc EXCEPT !.answer = vc.original]
  <2>1. from \in VCType /\ from.step = vc.step /\ from.reviewing = vc.reviewing
    BY <1>1 DEF VCType
  <2>2. QED
    BY <1>1, <1>11, <2>1, FlipToPreviousPageKeepsInv DEF AbandonEdit, TypeOK
<1>12. CASE Done
  BY <1>1, <1>12, CommittedTypes, RefileKeepsInv DEF Done, Finish
<1>13. CASE CancelAtOnce
  BY <1>1, <1>13, RefileKeepsInv DEF CancelAtOnce, Finish, TypeOK
<1>14. CASE ConfirmDiscard
  BY <1>1, <1>14, RefileKeepsInv DEF ConfirmDiscard, Finish, TypeOK
<1>15. CASE AskCancel \/ KeepAnswering
  <2>1. /\ phase # "idle" /\ phase' \in {"confirm", "running"}
        /\ UNCHANGED <<nq, stack, managed, vc, entered, reviewEdited>>
    BY <1>15 DEF AskCancel, KeepAnswering
  <2>2. QED
    BY <2>1 DEF IInv, TypeOK, StackFollowsTask, EveryManagedResultPresent,
                Steps, Summary, Review, Questions, Intro, VCType, ManagedType
<1>16. CASE SwipeAway
  <2>1. /\ nq' = 0 /\ phase' = "idle" /\ stack' = <<>> /\ managed' = NoResults
        /\ vc' = NoVC /\ entered' = NothingEntered /\ reviewEdited' = {}
    BY <1>16 DEF SwipeAway
  <2>2. TypeOK'
    BY <2>1, MaxQuestionsAssumption
       DEF TypeOK, Steps, Summary, VCType, ManagedType, NoVC, NoResults,
           NothingEntered, Answers, Results
  <2>3. QED
    BY <2>1, <2>2 DEF IInv, StackFollowsTask, EveryManagedResultPresent
<1>17. QED
  BY <1>2, <1>3, <1>4, <1>5, <1>6, <1>7, <1>8, <1>9, <1>10, <1>11, <1>12, <1>13,
     <1>14, <1>15, <1>16 DEF Next

LEMMA InitIsIInv == Init => IInv
<1>1. Init => TypeOK
  BY MaxQuestionsAssumption
     DEF Init, TypeOK, Steps, Summary, VCType, ManagedType, NoVC, NoResults,
         NothingEntered, Answers, Results
<1>2. QED
  BY <1>1 DEF Init, IInv, StackFollowsTask, EveryManagedResultPresent

(* The inductive invariant holds of every run.                             *)
THEOREM Invariance == Spec => []IInv
<1>1. Init => IInv
  BY InitIsIInv
<1>2. IInv /\ [Next]_vars => IInv'
  <2>1. ASSUME IInv, UNCHANGED vars PROVE IInv'
    BY <2>1 DEF vars, IInv, TypeOK, StackFollowsTask, EveryManagedResultPresent,
                Steps, Summary, Review, Questions, Intro, VCType, ManagedType
  <2>2. QED
    BY <2>1, NextKeepsInv
<1>3. QED
  BY <1>1, <1>2, PTL DEF Spec

(* The variables of a run stay in their ranges.                            *)
THEOREM TypeCorrect == Spec => []TypeOK
<1>1. IInv => TypeOK
  BY DEF IInv
<1>2. QED
  BY <1>1, Invariance, PTL

(* The assertion of managedResults never fails: every identifier on the    *)
(* stack has a result under its indexed key.                               *)
THEOREM ManagedResultsNeverFail == Spec => []EveryManagedResultPresent
<1>1. IInv => EveryManagedResultPresent
  BY DEF IInv
<1>2. QED
  BY <1>1, Invariance, PTL

(* The assertion of flipToPreviousPageFrom: never fails: the current step  *)
(* is on top of the stack whenever a run is going on.                      *)
THEOREM BackTakesTheCurrentStep == Spec => []CurrentStepIsOnTop
<1>1. IInv => CurrentStepIsOnTop
  BY ShapeFacts DEF CurrentStepIsOnTop
<1>2. QED
  BY <1>1, Invariance, PTL

(* The stack is always the task up to the current step, with at most one   *)
(* step under review on top of the review step.                            *)
THEOREM StackIsAWalk == Spec => []StackFollowsTask
<1>1. IInv => StackFollowsTask
  BY DEF IInv
<1>2. QED
  BY <1>1, Invariance, PTL

(***************************************************************************)
(* The answers a run hands over: none is missing, and those given on the   *)
(* way are the ones last entered.                                          *)
(***************************************************************************)

(***************************************************************************)
(* What a run hands over for question q is filed under q's identifier and  *)
(* the index q.  A question is passed once the run is beyond it: its       *)
(* identifier is on the stack, below the top.                              *)
(***************************************************************************)

Passed(q) == vc.reviewing \/ q < vc.step

HandedAnswer(m, q) == m.byKey[q][q]

\* The handed over answers do not say anything of the step on top: its own
\* answer is filed anew whenever the user leaves it.
PassedInv ==
    phase # "idle" =>
        \A q \in Questions : Passed(q) =>
            /\ HandedAnswer(managed, q) \in Text \cup {Null}
            /\ q \notin reviewEdited => HandedAnswer(managed, q) = entered[q]

AInv == IInv /\ PassedInv

\* Filing a result for another step, or under another index, leaves the
\* answer of q alone; filing one for q under the index q replaces it.
LEMMA FilingAnAnswer ==
    ASSUME NEW m \in ManagedType, NEW st, Fits(st), NEW s \in AllSteps, NEW r,
           NEW q \in AllSteps
    PROVE  /\ s # q \/ KeyPosition(st, s) # q =>
                HandedAnswer(SetResult(m, st, s, r), q) = HandedAnswer(m, q)
           /\ s = q /\ KeyPosition(st, s) = q =>
                HandedAnswer(SetResult(m, st, s, r), q) = r
<1>1. KeyPosition(st, s) \in Positions /\ q \in Positions
  BY KeyPositionInRange, MaxQuestionsAssumption DEF AllSteps, Positions
<1> DEFINE p == KeyPosition(st, s)
<1> HIDE DEF p
<1>2. /\ m.byKey \in [AllSteps -> [Positions -> Results]]
      /\ SetResult(m, st, s, r).byKey = [m.byKey EXCEPT ![s][p] = r]
  BY DEF ManagedType, SetResult, p
<1>3. p \in Positions
  BY <1>1 DEF p
<1>4. /\ s # q \/ p # q => [m.byKey EXCEPT ![s][p] = r][q][q] = m.byKey[q][q]
      /\ s = q /\ p = q => [m.byKey EXCEPT ![s][p] = r][q][q] = r
  BY <1>1, <1>2, <1>3
<1>5. QED
  BY <1>2, <1>4 DEF HandedAnswer, p

\* Showing a step files results for the step left and the step shown only,
\* and leaves an answer alone that neither is filed over.
LEMMA ShowingAStep ==
    ASSUME nq \in 0..MaxQuestions,
           NEW m \in ManagedType, NEW st, Fits(st),
           NEW from \in VCType, NEW v \in VCType,
           Fits(Shown(st, v.step)),
           NEW q \in AllSteps,
           v.step # q \/ KeyPosition(Shown(st, v.step), v.step) # q,
           from.step # q \/ KeyPosition(Shown(st, v.step), from.step) # q,
           ShowStep(m, st, from, v)
    PROVE  HandedAnswer(managed', q) =
             IF from.step = q /\ KeyPosition(st, from.step) = q
             THEN from.answer ELSE HandedAnswer(m, q)
<1> DEFINE shown == Shown(st, v.step)
           m1 == SetResult(m, st, from.step, from.answer)
           m2 == SetResult(m1, shown, v.step, v.answer)
           m3 == SetResult(m2, shown, from.step, from.text)
<1>1. /\ from.step \in AllSteps /\ from.answer \in Answers
      /\ v.step \in AllSteps /\ v.answer \in Answers
  BY MaxQuestionsAssumption DEF VCType, Steps, AllSteps, Summary
<1>2. managed' = m2 \/ managed' = m3
  BY DEF ShowStep
<1>3. /\ m1 \in ManagedType
      /\ HandedAnswer(m1, q) = IF from.step = q /\ KeyPosition(st, from.step) = q
                               THEN from.answer ELSE HandedAnswer(m, q)
  BY <1>1, SetResultKeeps, FilingAnAnswer
<1> HIDE DEF m1
<1>4. m2 \in ManagedType /\ HandedAnswer(m2, q) = HandedAnswer(m1, q)
  BY <1>1, <1>3, SetResultKeeps, FilingAnAnswer
<1> HIDE DEF m2
<1>5. HandedAnswer(m3, q) = HandedAnswer(m2, q)
  BY <1>1, <1>4, FilingAnAnswer
<1> HIDE DEF m3
<1>6. QED
  BY <1>2, <1>3, <1>4, <1>5

(***************************************************************************)
(* The steps of a run.                                                     *)
(***************************************************************************)

\* Where results are filed while the run is on step vc.step.
LEMMA PositionFacts ==
    ASSUME IInv, phase # "idle"
    PROVE  /\ nq \in 0..MaxQuestions /\ nq \in Nat
           /\ Questions \subseteq AllSteps /\ vc.step \in AllSteps
           /\ vc.step \in Steps /\ vc \in VCType /\ managed \in ManagedType
           /\ Fits(stack)
           /\ ~vc.reviewing => KeyPosition(stack, vc.step) = vc.step
           /\ vc.reviewing => /\ KeyPosition(stack, vc.step) = Review + 1
                              /\ vc.step \in 1..(nq + 1)
<1>1. /\ nq \in 0..MaxQuestions /\ nq \in Nat /\ vc \in VCType
      /\ managed \in ManagedType /\ Fits(stack) /\ vc.step \in Steps
      /\ IsTop(stack, vc.step)
  BY ShapeFacts DEF IInv, TypeOK
<1>2. Questions \subseteq AllSteps /\ vc.step \in AllSteps
  BY <1>1, MaxQuestionsAssumption DEF Questions, AllSteps, Steps, Summary
<1>3. KeyPosition(stack, vc.step) = Len(stack)
  BY <1>1 DEF KeyPosition
<1>4. ASSUME ~vc.reviewing PROVE Len(stack) = vc.step
  <2>1. stack = Walk(vc.step) /\ vc.step \in Nat
    BY <1>1, <1>4, ShapeFacts DEF Steps, Summary
  <2>2. QED
    BY <2>1, WalkIsSeq
<1>5. ASSUME vc.reviewing
      PROVE  Len(stack) = Review + 1 /\ vc.step \in 1..(nq + 1)
  <2>1. stack = Append(Walk(Review), vc.step) /\ vc.step \in 1..(nq + 1)
    BY <1>5, ShapeFacts
  <2>2. Review \in Nat \ {0} /\ vc.step \in 1..Review
    BY <1>1, <2>1 DEF Review
  <2>3. QED
    BY <2>1, <2>2, DetourTop
<1>6. QED
  BY <1>1, <1>2, <1>3, <1>4, <1>5

\* Filing the step on screen anew does not touch a passed answer.
LEMMA RefilingKeepsPassed ==
    ASSUME IInv, phase # "idle", NEW a, NEW q \in Questions, Passed(q)
    PROVE  HandedAnswer(SetResult(managed, stack, vc.step, a), q)
             = HandedAnswer(managed, q)
<1>1. vc.step # q \/ KeyPosition(stack, vc.step) # q
  BY PositionFacts DEF Passed, Review, Questions
<1>2. QED
  BY <1>1, PositionFacts, FilingAnAnswer

\* Steps that only file the step on screen, and leave the history alone.
LEMMA RefilingKeepsPassedInv ==
    ASSUME AInv, phase # "idle", NEW a,
           managed' = SetResult(managed, stack, vc.step, a),
           vc'.step = vc.step, vc'.reviewing = vc.reviewing,
           UNCHANGED <<nq, entered, reviewEdited>>
    PROVE  PassedInv'
<1>1. ASSUME NEW q \in Questions', Passed(q)'
      PROVE  /\ HandedAnswer(managed', q) \in Text \cup {Null}
             /\ q \notin reviewEdited' => HandedAnswer(managed', q) = entered'[q]
  <2>1. q \in Questions /\ Passed(q)
    BY <1>1 DEF Questions, Passed
  <2>2. HandedAnswer(managed', q) = HandedAnswer(managed, q)
    BY <2>1, RefilingKeepsPassed DEF AInv
  <2>3. QED
    BY <2>1, <2>2 DEF AInv, PassedInv
<1>2. QED
  BY <1>1 DEF PassedInv

\* A commit for one step leaves the history of the others alone.
LEMMA CommitElsewhere ==
    ASSUME TypeOK, NEW s \in AllSteps, NEW a, NEW b \in BOOLEAN, Commit(s, a, b)
    PROVE  /\ \A q \in AllSteps \ {s} :
                /\ entered'[q] = entered[q]
                /\ q \in reviewEdited' <=> q \in reviewEdited
           /\ entered'[s] = a
           /\ s \in reviewEdited' <=> b
  BY DEF Commit, TypeOK

\* Going forward passes the step left, with the answer it was left with.
LEMMA FlipToNextPageKeepsPassed ==
    ASSUME AInv, phase = "running", ~vc.reviewing, vc.step # Summary,
           NEW from \in VCType, from.step = vc.step,
           vc.step \in Questions => from.answer \in Text \cup {Null},
           FlipToNextPage(from), Commit(vc.step, from.answer, FALSE),
           UNCHANGED <<nq, phase>>
    PROVE  PassedInv'
<1> DEFINE k == vc.step
           m1 == SetResult(managed, stack, k, from.answer)
           v  == NewStepVC(m1, k + 1, FALSE)
           m2 == SetResult(m1, stack, v.step, v.answer)
<1>1. /\ nq \in 0..MaxQuestions /\ nq \in Nat /\ Questions \subseteq AllSteps
      /\ k \in AllSteps /\ k \in Steps /\ k \in Nat \ {0}
      /\ managed \in ManagedType /\ Fits(stack) /\ KeyPosition(stack, k) = k
      /\ IInv /\ TypeOK /\ from.answer \in Answers
  BY PositionFacts DEF AInv, IInv, AllSteps, VCType
<1>2. k + 1 \in Steps /\ k + 1 \in AllSteps
  BY <1>1, MaxQuestionsAssumption DEF Steps, Summary, AllSteps
<1>3. stack = Walk(k)
  BY <1>1, ShapeFacts
<1>4. m1 \in ManagedType
  BY <1>1, SetResultKeeps
<1>5. v \in VCType /\ v.step = k + 1 /\ v.reviewing = FALSE
  <2> HIDE DEF m1
  <2> QED BY <1>1, <1>2, <1>4, NewStepVCIsWellFormed
<1>6. ShowStep(m2, stack, from, v)
  BY DEF FlipToNextPage
<1>7. Shown(stack, v.step) = Walk(k + 1)
  <2> HIDE DEF v
  <2> QED BY <1>1, <1>3, <1>5, WalkTop, WalkPush DEF Shown
<1>8. Fits(Walk(k + 1)) /\ Len(Walk(k + 1)) = k + 1
  <2>1. Walk(k + 1) \in Seq(1..(k + 1)) /\ Len(Walk(k + 1)) = k + 1
    <3>1. k + 1 \in Nat
      BY <1>1
    <3> HIDE DEF k
    <3>2. QED
      BY <3>1, WalkIsSeq
  <2>2. k + 1 <= MaxQuestions + 3
    BY <1>2 DEF AllSteps
  <2>3. QED
    BY <1>1, <2>1, <2>2 DEF Fits
<1>9. KeyPosition(Walk(k + 1), k) # k
  BY <1>1, <1>8, WalkTop DEF KeyPosition
<1>10. vc' = v
  BY <1>6 DEF ShowStep
<1>11. ASSUME NEW q \in Questions, q < k + 1
       PROVE  HandedAnswer(managed', q) =
                IF q = k THEN from.answer ELSE HandedAnswer(managed, q)
  <2>1. q \in AllSteps /\ q # k + 1
    BY <1>1, <1>11 DEF Questions
  <2>2. HandedAnswer(m1, q) = IF q = k THEN from.answer ELSE HandedAnswer(managed, q)
    BY <1>1, <2>1, FilingAnAnswer
  <2> HIDE DEF m1, v
  <2>3. m2 \in ManagedType /\ HandedAnswer(m2, q) = HandedAnswer(m1, q)
    BY <1>1, <1>2, <1>4, <1>5, <2>1, SetResultKeeps, FilingAnAnswer DEF VCType
  <2> HIDE DEF m2
  <2>4. HandedAnswer(managed', q) =
          IF from.step = q /\ KeyPosition(stack, from.step) = q
          THEN from.answer ELSE HandedAnswer(m2, q)
    BY <1>1, <1>5, <1>6, <1>7, <1>8, <1>9, <2>1, <2>3, ShowingAStep
  <2>5. QED
    BY <1>1, <2>2, <2>3, <2>4
<1> HIDE DEF m1, m2, v
<1>12. ASSUME NEW q \in Questions', Passed(q)'
       PROVE  /\ HandedAnswer(managed', q) \in Text \cup {Null}
              /\ q \notin reviewEdited' => HandedAnswer(managed', q) = entered'[q]
  <2>1. q \in Questions /\ q \in AllSteps /\ q < k + 1
    BY <1>1, <1>5, <1>10, <1>12 DEF Questions, Passed
  <2>2. CASE q = k
    BY <1>1, <1>11, <2>1, <2>2, CommitElsewhere
  <2>3. CASE q # k
    <3>1. Passed(q)
      BY <1>1, <2>1, <2>3 DEF Passed, Questions
    <3>2. /\ HandedAnswer(managed', q) = HandedAnswer(managed, q)
          /\ entered'[q] = entered[q] /\ (q \in reviewEdited' <=> q \in reviewEdited)
      BY <1>1, <1>11, <2>1, <2>3, CommitElsewhere
    <3>3. QED
      BY <2>1, <3>1, <3>2 DEF AInv, PassedInv
  <2>4. QED
    BY <2>2, <2>3
<1>13. QED
  BY <1>12 DEF PassedInv

\* Going back leaves the answers alone of the steps it does not go back over.
LEMMA FlipToPreviousPageKeepsAnswers ==
    ASSUME AInv, phase = "running", vc.reviewing \/ vc.step # Intro,
           NEW from \in VCType, from.step = vc.step, from.reviewing = vc.reviewing,
           FlipToPreviousPage(from), nq' = nq,
           NEW q \in Questions, Passed(q)'
    PROVE  /\ HandedAnswer(managed', q) = HandedAnswer(managed, q)
           /\ Passed(q)
           /\ ~vc.reviewing => q # vc.step
<1> DEFINE k == IF from.reviewing THEN Review ELSE from.step - 1
           m1 == SetResult(managed, stack, from.step, from.answer)
           v  == NewStepVC(m1, k, FALSE)
           m2 == SetResult(m1, stack, v.step, v.answer)
<1>1. /\ nq \in 0..MaxQuestions /\ nq \in Nat /\ Questions \subseteq AllSteps
      /\ vc.step \in AllSteps /\ vc.step \in Steps /\ vc.step \in Nat \ {0}
      /\ managed \in ManagedType /\ Fits(stack) /\ IInv
      /\ from.answer \in Answers /\ q \in AllSteps /\ q \in Nat
      /\ q > 1 /\ q < Review
      /\ vc.reviewing => vc.step \in 1..(nq + 1)
      /\ vc.reviewing \in BOOLEAN
  BY PositionFacts DEF AInv, AllSteps, VCType, Questions, Review
<1>2. k \in Steps /\ k \in AllSteps /\ k \in Nat \ {0} /\ k # vc.step
  BY <1>1, MaxQuestionsAssumption DEF Steps, Summary, AllSteps, Review, Intro
<1>3. m1 \in ManagedType
  BY <1>1, SetResultKeeps
<1>4. v \in VCType /\ v.step = k /\ v.reviewing = FALSE
  <2> HIDE DEF m1, k
  <2> QED BY <1>1, <1>2, <1>3, NewStepVCIsWellFormed
<1>5. ShowStep(m2, Pop(stack), from, v)
  BY DEF FlipToPreviousPage
<1>6. Pop(stack) = Walk(k)
  <2>1. CASE vc.reviewing
    <3>1. stack = Append(Walk(Review), vc.step) /\ k = Review
      BY <1>1, <2>1, ShapeFacts
    <3>2. Review \in Nat \ {0} /\ vc.step \in 1..Review
      BY <1>1, <2>1 DEF Review
    <3>3. QED
      BY <3>1, <3>2, DetourTop
  <2>2. CASE ~vc.reviewing
    <3>1. stack = Walk(vc.step) /\ k = vc.step - 1
      BY <1>1, <2>2, ShapeFacts
    <3>2. QED
      BY <1>1, <3>1, WalkPop
  <2>3. QED
    BY <2>1, <2>2
<1> HIDE DEF k
<1>7. Len(Walk(k)) = k /\ Fits(Walk(k))
  <2>1. Walk(k) \in Seq(1..k) /\ Len(Walk(k)) = k
    BY <1>2, WalkIsSeq
  <2>2. QED
    BY <1>2, <2>1, MaxQuestionsAssumption DEF Fits, AllSteps
<1>8. Shown(Pop(stack), v.step) = Walk(k)
  <2> HIDE DEF v
  <2> QED BY <1>2, <1>4, <1>6, WalkTop DEF Shown
<1>9. KeyPosition(Walk(k), vc.step) = k + 1 /\ KeyPosition(Walk(k), k) = k
  BY <1>2, <1>7, WalkTop DEF KeyPosition
<1>10. vc' = v
  BY <1>5 DEF ShowStep
<1>11. q < k
  BY <1>4, <1>10 DEF Passed
<1>12. Passed(q) /\ (~vc.reviewing => q # vc.step)
  BY <1>1, <1>11 DEF Passed, k
<1>13. HandedAnswer(m1, q) = HandedAnswer(managed, q)
  BY <1>1, <1>12, RefilingKeepsPassed
<1> HIDE DEF m1, v
<1>14. m2 \in ManagedType /\ HandedAnswer(m2, q) = HandedAnswer(m1, q)
  BY <1>1, <1>2, <1>3, <1>4, <1>11, SetResultKeeps, FilingAnAnswer DEF VCType
<1> HIDE DEF m2
<1>15. HandedAnswer(managed', q) = HandedAnswer(m2, q)
  <2>1. v.step # q /\ KeyPosition(Shown(Pop(stack), v.step), from.step) # q
        /\ KeyPosition(Pop(stack), from.step) # q
    BY <1>1, <1>2, <1>4, <1>6, <1>8, <1>9, <1>11
  <2>2. QED
    BY <1>1, <1>4, <1>5, <1>6, <1>7, <1>8, <1>14, <2>1, ShowingAStep
<1>16. QED
  BY <1>12, <1>13, <1>14, <1>15

\* Going back with a commit of the step left.
LEMMA FlipToPreviousPageKeepsPassed ==
    ASSUME AInv, phase = "running", vc.reviewing \/ vc.step # Intro,
           NEW from \in VCType, from.step = vc.step, from.reviewing = vc.reviewing,
           FlipToPreviousPage(from), UNCHANGED <<nq, phase>>,
           \/ UNCHANGED <<entered, reviewEdited>>
           \/ \E a : Commit(vc.step, a, vc.reviewing)
    PROVE  PassedInv'
<1>1. /\ Questions \subseteq AllSteps /\ vc.step \in AllSteps /\ TypeOK
      /\ vc.reviewing \in BOOLEAN
  BY PositionFacts DEF AInv, IInv, VCType
<1>2. ASSUME NEW q \in Questions', Passed(q)'
      PROVE  /\ HandedAnswer(managed', q) \in Text \cup {Null}
             /\ q \notin reviewEdited' => HandedAnswer(managed', q) = entered'[q]
  <2>1. q \in Questions /\ q \in AllSteps
    BY <1>1, <1>2 DEF Questions
  <2>2. /\ HandedAnswer(managed', q) = HandedAnswer(managed, q)
        /\ Passed(q) /\ (~vc.reviewing => q # vc.step)
    BY <1>2, <2>1, FlipToPreviousPageKeepsAnswers
  <2>3. q \notin reviewEdited' => q \notin reviewEdited /\ entered'[q] = entered[q]
    <3>1. CASE UNCHANGED <<entered, reviewEdited>>
      BY <3>1
    <3>2. CASE \E a : Commit(vc.step, a, vc.reviewing)
      BY <1>1, <2>1, <2>2, <3>2, CommitElsewhere
    <3>3. QED
      BY <3>1, <3>2
  <2>4. QED
    BY <2>1, <2>2, <2>3 DEF AInv, PassedInv
<1>3. QED
  BY <1>2 DEF PassedInv

\* A review row files its step under the index above the review step only.
LEMMA ReviewRowKeepsPassed ==
    ASSUME AInv, NEW s \in AllSteps, ReviewRow(s)
    PROVE  PassedInv'
<1> DEFINE v == NewStepVC(managed, s, TRUE)
           m == SetResult(managed, stack, s, v.answer)
<1>1. /\ phase = "running" /\ vc.step = Review /\ s \in Questions \cup {Intro}
      /\ nq' = nq /\ phase' = phase /\ UNCHANGED <<entered, reviewEdited>>
      /\ ShowStep(m, stack, vc, v)
  BY DEF ReviewRow
<1>2. /\ nq \in 0..MaxQuestions /\ nq \in Nat /\ Questions \subseteq AllSteps
      /\ Fits(stack) /\ managed \in ManagedType /\ vc \in VCType /\ IInv
  BY <1>1, PositionFacts DEF AInv
<1>3. /\ Review \in Nat \ {0} /\ s \in 1..Review /\ s # Review /\ s \in Steps
      /\ Len(Walk(Review)) = Review
  BY <1>1, <1>2, WalkIsSeq DEF Review, Questions, Intro, Steps, Summary
<1>4. ~vc.reviewing /\ stack = Walk(Review)
  <2>1. ~vc.reviewing
    BY <1>1, <1>2, PositionFacts DEF Review
  <2>2. QED
    BY <1>1, <1>2, <2>1, ShapeFacts
<1>5. v \in VCType /\ v.step = s /\ v.reviewing = TRUE
  BY <1>2, <1>3, NewStepVCIsWellFormed
<1> HIDE DEF v
<1>6. KeyPosition(stack, s) = Review + 1
  BY <1>3, <1>4, WalkTop DEF KeyPosition
<1> DEFINE top == Append(Walk(Review), s)
<1>7. Shown(stack, v.step) = top
  BY <1>3, <1>4, <1>5, WalkTop DEF Shown
<1>8. /\ top \in Seq(1..Review) /\ Len(top) = Review + 1 /\ IsTop(top, s)
  BY <1>3, DetourTop
<1> HIDE DEF top
<1>9. Fits(top) /\ KeyPosition(top, s) = Review + 1
  BY <1>2, <1>8, MaxQuestionsAssumption DEF Fits, KeyPosition, Review
<1>10. ASSUME NEW q \in Questions
       PROVE  HandedAnswer(managed', q) = HandedAnswer(managed, q)
  <2>1. q \in AllSteps /\ q # Review + 1 /\ q # Review
    BY <1>2, <1>10 DEF Questions, Review
  <2>2. m \in ManagedType /\ HandedAnswer(m, q) = HandedAnswer(managed, q)
    BY <1>2, <1>5, <1>6, <2>1, SetResultKeeps, FilingAnAnswer DEF VCType
  <2> HIDE DEF m
  <2>3. HandedAnswer(managed', q) = HandedAnswer(m, q)
    BY <1>1, <1>2, <1>5, <1>7, <1>9, <2>1, <2>2, ShowingAStep
  <2>4. QED
    BY <2>2, <2>3
<1>11. ASSUME NEW q \in Questions
       PROVE  Passed(q)
  BY <1>1, <1>2, <1>11 DEF Passed, Questions, Review
<1>12. QED
  BY <1>1, <1>10, <1>11 DEF AInv, PassedInv, Questions

(* Every step of a run, and every start and end of one, keeps the passed   *)
(* answers.                                                                *)
LEMMA NextKeepsPassed ==
    ASSUME AInv, Next
    PROVE  PassedInv'
<1>1. IInv /\ TypeOK /\ vc \in VCType /\ PassedInv
  BY DEF AInv, IInv, TypeOK
<1>2. ASSUME NEW n \in 0..MaxQuestions, Present(n) PROVE PassedInv'
  <2>1. vc'.step = 1 /\ vc'.reviewing = FALSE /\ nq' \in Nat
    BY <1>2, MaxQuestionsAssumption DEF Present, NewStepVC, Intro
  <2>2. QED
    BY <2>1 DEF PassedInv, Passed, Questions
<1>3. ASSUME NEW t \in Text \cup {Null}, TypeText(t) PROVE PassedInv'
  <2>1. /\ phase # "idle" /\ managed' = SetResult(managed, stack, vc.step, t)
        /\ vc'.step = vc.step /\ vc'.reviewing = vc.reviewing
        /\ UNCHANGED <<nq, entered, reviewEdited>>
    BY <1>1, <1>3 DEF TypeText, OnQuestion, VCType
  <2>2. QED
    BY <2>1, RefilingKeepsPassedInv
<1>4. CASE EndEditing
  <2>1. /\ phase # "idle" /\ managed' = SetResult(managed, stack, vc.step, vc.text)
        /\ vc'.step = vc.step /\ vc'.reviewing = vc.reviewing
        /\ UNCHANGED <<nq, entered, reviewEdited>>
    BY <1>1, <1>4 DEF EndEditing, OnQuestion, VCType
  <2>2. QED
    BY <2>1, RefilingKeepsPassedInv
<1>5. CASE Continue
  BY <1>1, <1>5, FlipToNextPageKeepsPassed DEF Continue, HasAnswer
<1>6. CASE Skip
  <2> DEFINE from == [vc EXCEPT !.answer = Null, !.text = Null]
  <2>1. from \in VCType /\ from.step = vc.step /\ from.answer = Null
    BY <1>1 DEF VCType, Answers
  <2>2. phase = "running" /\ ~vc.reviewing /\ vc.step \in Questions
        /\ FlipToNextPage(from) /\ Commit(vc.step, Null, FALSE)
        /\ UNCHANGED <<nq, phase>>
    BY <1>6 DEF Skip, OnQuestion
  <2>3. vc.step # Summary
    BY <1>1, <2>2, MaxQuestionsAssumption DEF Questions, Summary, TypeOK
  <2> HIDE DEF from
  <2>4. QED
    BY <2>1, <2>2, <2>3, FlipToNextPageKeepsPassed
<1>7. CASE GoBack
  BY <1>1, <1>7, FlipToPreviousPageKeepsPassed DEF GoBack, VCType
<1>8. ASSUME NEW s \in AllSteps, ReviewRow(s) PROVE PassedInv'
  BY <1>8, ReviewRowKeepsPassed
<1>9. CASE SaveEdit
  BY <1>1, <1>9, FlipToPreviousPageKeepsPassed DEF SaveEdit, VCType
<1>10. CASE ClearAnswer
  <2> DEFINE from == [vc EXCEPT !.answer = Null, !.text = Null]
  <2>1. from \in VCType /\ from.step = vc.step /\ from.reviewing = vc.reviewing
    BY <1>1 DEF VCType, Answers
  <2>2. /\ phase = "running" /\ vc.reviewing = TRUE
        /\ FlipToPreviousPage(from) /\ Commit(vc.step, Null, TRUE)
        /\ UNCHANGED <<nq, phase>>
    BY <1>1, <1>10 DEF ClearAnswer, OnQuestion, VCType
  <2> HIDE DEF from
  <2>3. QED
    BY <2>1, <2>2, FlipToPreviousPageKeepsPassed
<1>11. CASE AbandonEdit
  <2> DEFINE from == [vc EXCEPT !.answer = vc.original]
  <2>1. from \in VCType /\ from.step = vc.step /\ from.reviewing = vc.reviewing
    BY <1>1 DEF VCType
  <2>2. /\ phase = "running" /\ vc.reviewing
        /\ FlipToPreviousPage(from)
        /\ UNCHANGED <<nq, phase, entered, reviewEdited>>
    BY <1>11 DEF AbandonEdit
  <2> HIDE DEF from
  <2>3. QED
    BY <2>1, <2>2, FlipToPreviousPageKeepsPassed
<1>12. CASE Done
  <2>1. /\ phase # "idle" /\ managed' = SetResult(managed, stack, vc.step, vc.answer)
        /\ vc' = vc /\ nq' = nq /\ vc.step = Summary /\ Commit(vc.step, vc.answer, FALSE)
    BY <1>12 DEF Done, Finish
  <2>2. ASSUME NEW q \in Questions, Passed(q)
        PROVE  /\ HandedAnswer(managed', q) = HandedAnswer(managed, q)
               /\ entered'[q] = entered[q] /\ (q \in reviewEdited' <=> q \in reviewEdited)
    <3>1. q # vc.step /\ q \in AllSteps /\ vc.step \in AllSteps
      BY <1>1, <2>1, <2>2, PositionFacts DEF Questions, Summary
    <3>2. QED
      BY <1>1, <2>1, <2>2, <3>1, RefilingKeepsPassed, CommitElsewhere
  <2>3. QED
    BY <1>1, <2>1, <2>2 DEF PassedInv, Passed, Questions
<1>13. CASE CancelAtOnce
  BY <1>13, RefilingKeepsPassedInv DEF CancelAtOnce, Finish
<1>14. CASE ConfirmDiscard
  BY <1>14, RefilingKeepsPassedInv DEF ConfirmDiscard, Finish
<1>15. CASE AskCancel \/ KeepAnswering
  <2>1. /\ phase # "idle"
        /\ UNCHANGED <<nq, managed, vc, entered, reviewEdited>>
    BY <1>15 DEF AskCancel, KeepAnswering
  <2>2. QED
    BY <1>1, <2>1 DEF PassedInv, Passed, Questions
<1>16. CASE SwipeAway
  BY <1>16 DEF SwipeAway, PassedInv
<1>17. QED
  BY <1>2, <1>3, <1>4, <1>5, <1>6, <1>7, <1>8, <1>9, <1>10, <1>11, <1>12, <1>13,
     <1>14, <1>15, <1>16 DEF Next

LEMMA AInvariance == Spec => []AInv
<1>1. Init => PassedInv
  BY DEF Init, PassedInv
<1>2. IInv /\ PassedInv /\ [Next]_vars => PassedInv'
  <2>1. ASSUME IInv, PassedInv, UNCHANGED vars PROVE PassedInv'
    BY <2>1 DEF vars, PassedInv, Passed, Questions
  <2>2. QED
    BY <2>1, NextKeepsPassed DEF AInv
<1>3. IInv /\ PassedInv <=> AInv
  BY DEF AInv
<1>4. QED
  BY <1>1, <1>2, <1>3, Invariance, PTL DEF Spec

\* What the run hands over for a question it has passed.
LEMMA HandedOverAnswer ==
    ASSUME AInv, phase # "idle", NEW q \in Questions, Passed(q)
    PROVE  ManagedResults(managed, stack)[q] = HandedAnswer(managed, q)
<1>1. nq \in Nat /\ vc.step \in Steps /\ q \in Nat \ {0} /\ q < Review /\ IInv
  BY PositionFacts DEF AInv, Questions, Review
<1>2. q \in 1..Len(stack) /\ stack[q] = q
  <2>1. CASE vc.reviewing
    <3>1. stack = Append(Walk(Review), vc.step) /\ vc.step \in 1..(nq + 1)
      BY <1>1, <2>1, ShapeFacts
    <3>2. Review \in Nat \ {0} /\ vc.step \in 1..Review /\ q \in 1..Review
      BY <1>1, <3>1 DEF Review
    <3>3. QED
      BY <3>1, <3>2, DetourTop
  <2>2. CASE ~vc.reviewing
    <3>1. stack = Walk(vc.step) /\ vc.step \in Nat /\ q \in 1..vc.step
      BY <1>1, <2>2, ShapeFacts DEF Passed, Steps, Summary
    <3>2. QED
      BY <3>1, WalkIsSeq DEF Walk
  <2>3. QED
    BY <2>1, <2>2
<1>3. QED
  BY <1>2 DEF ManagedResults, HandedAnswer

\* A completed run ended on the completion step, outside the review.
CompletedOnSummary == phase = "completed" => vc.step = Summary /\ ~vc.reviewing

LEMMA NextKeepsCompletion ==
    ASSUME IInv, CompletedOnSummary, Next
    PROVE  CompletedOnSummary'
<1> SUFFICES ASSUME phase' = "completed"
             PROVE  (vc.step = Summary /\ ~vc.reviewing)'
  BY DEF CompletedOnSummary
<1>1. CASE Done
  <2>1. vc' = vc /\ nq' = nq /\ vc.step = Summary /\ phase # "idle"
    BY <1>1 DEF Done, Finish
  <2>2. ~vc.reviewing
    BY <2>1, PositionFacts DEF Summary
  <2>3. QED
    BY <2>1, <2>2 DEF Summary
<1>2. CASE ~Done
  BY <1>2 DEF Next, Present, TypeText, EndEditing, OnQuestion, Continue, Skip, GoBack,
              ReviewRow, SaveEdit, ClearAnswer, AbandonEdit, CancelAtOnce,
              ConfirmDiscard, Finish, AskCancel, KeepAnswering, SwipeAway
<1>3. QED
  BY <1>1, <1>2

LEMMA CompletionOnSummary == Spec => []CompletedOnSummary
<1>1. Init => CompletedOnSummary
  BY DEF Init, CompletedOnSummary
<1>2. IInv /\ CompletedOnSummary /\ [Next]_vars => CompletedOnSummary'
  <2>1. ASSUME CompletedOnSummary, UNCHANGED vars PROVE CompletedOnSummary'
    BY <2>1 DEF vars, CompletedOnSummary, Summary
  <2>2. QED
    BY <2>1, NextKeepsCompletion
<1>3. QED
  BY <1>1, <1>2, Invariance, PTL DEF Spec

(* A run that ends with Done hands over one result per step, and every     *)
(* question in it was answered or skipped, for every length of the survey. *)
THEOREM CompletedRunsAreComplete == Spec => []CompletedRunIsComplete
<1>1. AInv /\ CompletedOnSummary => CompletedRunIsComplete
  <2> SUFFICES ASSUME AInv, CompletedOnSummary, phase = "completed"
               PROVE  /\ Len(stack) = Summary
                      /\ \A q \in Questions :
                           ManagedResults(managed, stack)[q] \in Text \cup {Null}
    BY DEF CompletedRunIsComplete
  <2>1. vc.step = Summary /\ ~vc.reviewing /\ phase # "idle" /\ IInv /\ nq \in Nat
    BY PositionFacts DEF CompletedOnSummary, AInv
  <2>2. stack = Walk(Summary) /\ Summary \in Nat
    BY <2>1, ShapeFacts DEF Summary
  <2>3. \A q \in Questions : Passed(q)
    BY <2>1 DEF Passed, Questions, Summary
  <2>4. QED
    BY <2>1, <2>2, <2>3, WalkIsSeq, HandedOverAnswer DEF AInv, PassedInv
<1>2. QED
  BY <1>1, AInvariance, CompletionOnSummary, PTL

(* An answer given on the way through the task, and not changed from the   *)
(* review step since, is handed over as last entered, however often the    *)
(* user went back over it.                                                 *)
THEOREM EnteredAnswersAreKept == Spec => []AnswersEnteredInOrderAreKept
<1>1. AInv /\ CompletedOnSummary => AnswersEnteredInOrderAreKept
  <2> SUFFICES ASSUME AInv, CompletedOnSummary, NEW q \in Questions,
                      \/ phase = "completed"
                      \/ phase = "running" /\ vc.step \in {Review, Summary},
                      q \notin reviewEdited
               PROVE  ManagedResults(managed, stack)[q] = entered[q]
    BY DEF AnswersEnteredInOrderAreKept
  <2>1. phase # "idle" /\ vc.step \in {Review, Summary} /\ nq \in Nat
    BY PositionFacts DEF CompletedOnSummary, AInv
  <2>2. Passed(q)
    BY <2>1 DEF Passed, Questions, Review, Summary
  <2>3. QED
    BY <2>1, <2>2, HandedOverAnswer DEF AInv, PassedInv
<1>2. QED
  BY <1>1, AInvariance, CompletionOnSummary, PTL

(***************************************************************************)
(* Steps that ask nothing: the introduction, the review step and the       *)
(* completion step have results without a question result.                 *)
(***************************************************************************)

Plain(m, Q) ==
    \A s \in AllSteps \ Q :
        /\ m.byId[s] \in {Absent, Nil}
        /\ \A i \in Positions : m.byKey[s][i] \in {Absent, Nil}

PlainVC(v, Q) == v.step \notin Q => v.answer = Nil /\ v.original = Nil /\ ~v.editing

PlainInv == phase # "idle" => Plain(managed, Questions) /\ PlainVC(vc, Questions)

\* Filing nothing for a step that asks nothing.
LEMMA PlainResult ==
    ASSUME NEW m \in ManagedType, NEW st, Fits(st), NEW s \in AllSteps, NEW r, NEW Q,
           Plain(m, Q), s \notin Q => r = Nil
    PROVE  Plain(SetResult(m, st, s, r), Q)
<1>1. KeyPosition(st, s) \in Positions
  BY KeyPositionInRange
<1> DEFINE p == KeyPosition(st, s)
<1> HIDE DEF p
<1>2. /\ m.byId \in [AllSteps -> Results]
      /\ m.byKey \in [AllSteps -> [Positions -> Results]]
      /\ SetResult(m, st, s, r).byId = [m.byId EXCEPT ![s] = r]
      /\ SetResult(m, st, s, r).byKey = [m.byKey EXCEPT ![s][p] = r]
  BY DEF ManagedType, SetResult, p
<1>3. p \in Positions
  BY <1>1 DEF p
<1>4. ASSUME NEW q \in AllSteps \ Q
      PROVE  /\ [m.byId EXCEPT ![s] = r][q] \in {Absent, Nil}
             /\ \A i \in Positions : [m.byKey EXCEPT ![s][p] = r][q][i] \in {Absent, Nil}
  <2>1. /\ m.byId[q] \in {Absent, Nil}
        /\ \A i \in Positions : m.byKey[q][i] \in {Absent, Nil}
    BY <1>4 DEF Plain
  <2>2. CASE q = s
    BY <1>2, <1>3, <1>4, <2>1, <2>2
  <2>3. CASE q # s
    BY <1>2, <1>3, <1>4, <2>1, <2>3
  <2>4. QED
    BY <2>2, <2>3
<1>5. QED
  BY <1>2, <1>4 DEF Plain

\* A new controller of such a step has no answer.
LEMMA PlainNewVC ==
    ASSUME NEW m, NEW Q, Plain(m, Q), NEW s \in AllSteps, NEW b
    PROVE  PlainVC(NewStepVC(m, s, b), Q)
<1>1. s \notin Q => RestoredAnswer(m, s) = Nil
  BY DEF Plain, RestoredAnswer
<1>2. QED
  BY <1>1 DEF NewStepVC, PlainVC

LEMMA PlainShowStep ==
    ASSUME nq \in 0..MaxQuestions,
           NEW m \in ManagedType, NEW st, Fits(st), NEW Q, Plain(m, Q),
           NEW from \in VCType, PlainVC(from, Q), NEW v \in VCType, PlainVC(v, Q),
           Fits(Shown(st, v.step)),
           ShowStep(m, st, from, v)
    PROVE  Plain(managed', Q) /\ PlainVC(vc', Q)
<1> DEFINE shown == Shown(st, v.step)
           m1 == SetResult(m, st, from.step, from.answer)
           m2 == SetResult(m1, shown, v.step, v.answer)
           m3 == SetResult(m2, shown, from.step, from.text)
<1>1. /\ from.step \in AllSteps /\ from.answer \in Answers /\ from.text \in Answers
      /\ v.step \in AllSteps /\ v.answer \in Answers
  BY MaxQuestionsAssumption DEF VCType, Steps, AllSteps, Summary, Answers
<1>2. vc' = v /\ (managed' = m2 \/ (from.editing /\ managed' = m3))
  BY DEF ShowStep
<1>3. m1 \in ManagedType /\ Plain(m1, Q)
  BY <1>1, SetResultKeeps, PlainResult DEF PlainVC
<1> HIDE DEF m1
<1>4. m2 \in ManagedType /\ Plain(m2, Q)
  BY <1>1, <1>3, SetResultKeeps, PlainResult DEF PlainVC
<1> HIDE DEF m2
<1>5. from.editing => Plain(m3, Q)
  BY <1>1, <1>4, PlainResult DEF PlainVC
<1>6. QED
  BY <1>2, <1>4, <1>5

LEMMA FlipToNextPageKeepsPlain ==
    ASSUME IInv, phase = "running", ~vc.reviewing, vc.step # Summary,
           NEW Q, Plain(managed, Q),
           NEW from \in VCType, from.step = vc.step, PlainVC(from, Q),
           FlipToNextPage(from)
    PROVE  Plain(managed', Q) /\ PlainVC(vc', Q)
<1> DEFINE m1 == SetResult(managed, stack, from.step, from.answer)
           v  == NewStepVC(m1, from.step + 1, FALSE)
           m2 == SetResult(m1, stack, v.step, v.answer)
<1>1. /\ Fits(stack) /\ stack = Walk(vc.step) /\ vc.step \in Steps /\ nq \in Nat
      /\ nq \in 0..MaxQuestions /\ managed \in ManagedType
  BY ShapeFacts DEF IInv, TypeOK
<1>2. /\ from.step \in AllSteps /\ from.step + 1 \in AllSteps /\ from.step + 1 \in Steps
      /\ vc.step \in Nat \ {0} /\ nq <= MaxQuestions
  BY <1>1, MaxQuestionsAssumption DEF Steps, Summary, AllSteps
<1>3. m1 \in ManagedType /\ Plain(m1, Q)
  BY <1>1, <1>2, SetResultKeeps, PlainResult DEF VCType, PlainVC
<1> HIDE DEF m1
<1>4. v \in VCType /\ v.step = from.step + 1 /\ PlainVC(v, Q)
  BY <1>1, <1>2, <1>3, NewStepVCIsWellFormed, PlainNewVC
<1> HIDE DEF v
<1>5. m2 \in ManagedType /\ Plain(m2, Q)
  BY <1>1, <1>2, <1>3, <1>4, SetResultKeeps, PlainResult DEF VCType, PlainVC
<1>6. Fits(Shown(stack, v.step))
  <2>1. Shown(stack, v.step) = Walk(vc.step + 1)
    BY <1>1, <1>2, <1>4, WalkTop, WalkPush DEF Shown
  <2>2. Walk(vc.step + 1) \in Seq(1..(vc.step + 1)) /\ Len(Walk(vc.step + 1)) = vc.step + 1
    BY <1>2, WalkIsSeq
  <2>3. QED
    BY <1>1, <1>2, <2>1, <2>2, MaxQuestionsAssumption DEF Fits, Steps, Summary
<1>7. ShowStep(m2, stack, from, v)
  BY DEF FlipToNextPage, m1, v
<1> HIDE DEF m2
<1>8. QED
  BY <1>1, <1>4, <1>5, <1>6, <1>7, PlainShowStep

LEMMA FlipToPreviousPageKeepsPlain ==
    ASSUME IInv, phase = "running", vc.reviewing \/ vc.step # Intro,
           NEW Q, Plain(managed, Q),
           NEW from \in VCType, from.step = vc.step, from.reviewing = vc.reviewing,
           PlainVC(from, Q),
           FlipToPreviousPage(from)
    PROVE  Plain(managed', Q) /\ PlainVC(vc', Q)
<1> DEFINE k == IF from.reviewing THEN Review ELSE from.step - 1
           m1 == SetResult(managed, stack, from.step, from.answer)
           v  == NewStepVC(m1, k, FALSE)
           m2 == SetResult(m1, stack, v.step, v.answer)
<1>1. /\ nq \in 0..MaxQuestions /\ nq \in Nat
      /\ vc.step \in AllSteps /\ vc.step \in Steps /\ vc.step \in Nat \ {0}
      /\ managed \in ManagedType /\ Fits(stack)
      /\ from.answer \in Answers
      /\ vc.reviewing => vc.step \in 1..(nq + 1)
      /\ vc.reviewing \in BOOLEAN
  BY PositionFacts DEF AllSteps, VCType
<1>2. k \in Steps /\ k \in AllSteps /\ k \in Nat \ {0} /\ k # vc.step
  BY <1>1, MaxQuestionsAssumption DEF Steps, Summary, AllSteps, Review, Intro
<1>3. Pop(stack) = Walk(k)
  <2>1. CASE vc.reviewing
    <3>1. stack = Append(Walk(Review), vc.step) /\ k = Review
      BY <1>1, <2>1, ShapeFacts
    <3>2. Review \in Nat \ {0} /\ vc.step \in 1..Review
      BY <1>1, <2>1 DEF Review
    <3>3. Pop(Append(Walk(Review), vc.step)) = Walk(Review)
      BY <3>2, DetourTop
    <3>4. QED
      BY <3>1, <3>3
  <2>2. CASE ~vc.reviewing
    <3>1. stack = Walk(vc.step) /\ k = vc.step - 1
      BY <1>1, <2>2, ShapeFacts
    <3>2. QED
      BY <1>1, <3>1, WalkPop
  <2>3. QED
    BY <2>1, <2>2
<1>4. ShowStep(m2, Pop(stack), from, v)
  BY DEF FlipToPreviousPage
<1> HIDE DEF k
<1>5. Fits(Walk(k)) /\ IsTop(Walk(k), k)
  <2>1. Walk(k) \in Seq(1..k) /\ Len(Walk(k)) = k
    BY <1>2, WalkIsSeq
  <2>2. QED
    BY <1>2, <2>1, WalkTop, MaxQuestionsAssumption DEF Fits, AllSteps
<1>6. m1 \in ManagedType /\ Plain(m1, Q)
  BY <1>1, SetResultKeeps, PlainResult DEF PlainVC
<1> HIDE DEF m1
<1>7. v \in VCType /\ v.step = k /\ PlainVC(v, Q)
  BY <1>1, <1>2, <1>6, NewStepVCIsWellFormed, PlainNewVC
<1> HIDE DEF v
<1>8. m2 \in ManagedType /\ Plain(m2, Q)
  BY <1>1, <1>2, <1>6, <1>7, SetResultKeeps, PlainResult DEF VCType, PlainVC
<1> HIDE DEF m2
<1>9. Shown(Walk(k), v.step) = Walk(k)
  BY <1>5, <1>7 DEF Shown
<1>10. QED
  BY <1>1, <1>3, <1>4, <1>5, <1>7, <1>8, <1>9, PlainShowStep

LEMMA ReviewRowKeepsPlain ==
    ASSUME IInv, NEW s \in AllSteps, ReviewRow(s),
           NEW Q, Plain(managed, Q), PlainVC(vc, Q)
    PROVE  Plain(managed', Q) /\ PlainVC(vc', Q)
<1> DEFINE v == NewStepVC(managed, s, TRUE)
           m == SetResult(managed, stack, s, v.answer)
<1>1. /\ phase = "running" /\ vc.step = Review /\ s \in Questions \cup {Intro}
      /\ ShowStep(m, stack, vc, v)
  BY DEF ReviewRow
<1>2. /\ nq \in 0..MaxQuestions /\ nq \in Nat
      /\ Fits(stack) /\ managed \in ManagedType /\ vc \in VCType
  BY <1>1, PositionFacts
<1>3. /\ Review \in Nat \ {0} /\ s \in 1..Review /\ s # Review /\ s \in Steps
  BY <1>1, <1>2 DEF Review, Questions, Intro, Steps, Summary
<1>4. stack = Walk(Review)
  <2>1. ~vc.reviewing
    BY <1>1, <1>2, PositionFacts DEF Review
  <2>2. QED
    BY <1>1, <1>2, <2>1, ShapeFacts
<1>5. v \in VCType /\ v.step = s /\ PlainVC(v, Q)
  BY <1>2, <1>3, NewStepVCIsWellFormed, PlainNewVC
<1> HIDE DEF v
<1>6. Fits(Shown(stack, v.step))
  <2>1. Shown(stack, v.step) = Append(Walk(Review), s)
    BY <1>3, <1>4, <1>5, WalkTop DEF Shown
  <2>2. /\ Append(Walk(Review), s) \in Seq(1..Review)
        /\ Len(Append(Walk(Review), s)) = Review + 1
    BY <1>3, DetourTop
  <2>3. Append(Walk(Review), s) \in Seq(Nat) /\ Review + 1 <= MaxQuestions + 3
    BY <1>2, <2>2, MaxQuestionsAssumption DEF Review
  <2>4. QED
    BY <2>1, <2>2, <2>3 DEF Fits
<1>7. m \in ManagedType /\ Plain(m, Q)
  BY <1>2, <1>5, SetResultKeeps, PlainResult DEF VCType, PlainVC
<1> HIDE DEF m
<1>8. QED
  BY <1>1, <1>2, <1>5, <1>6, <1>7, PlainShowStep

\* Filing the step on screen, with an answer if it is a question.
LEMMA RefilingKeepsPlain ==
    ASSUME IInv, phase # "idle", NEW Q, Plain(managed, Q), NEW a, vc.step \notin Q => a = Nil
    PROVE  Plain(SetResult(managed, stack, vc.step, a), Q)
  BY PositionFacts, PlainResult

LEMMA NextKeepsPlain ==
    ASSUME IInv, PlainInv, Next
    PROVE  PlainInv'
<1>1. TypeOK /\ vc \in VCType
  BY DEF IInv, TypeOK
<1>2. ASSUME NEW n \in 0..MaxQuestions, Present(n) PROVE PlainInv'
  <2> DEFINE v  == NewStepVC(NoResults, Intro, FALSE)
             m1 == SetResult(NoResults, <<>>, Intro, v.answer)
             Q  == 2..(n + 1)
  <2>1. /\ nq' = n /\ Questions' = Q /\ vc' = v
        /\ managed' = SetResult(m1, <<Intro>>, Intro, v.answer)
    BY <1>2 DEF Present, Questions
  <2>2. /\ Intro \in AllSteps /\ Intro \notin Q /\ Fits(<<>>) /\ Fits(<<Intro>>)
    BY MaxQuestionsAssumption DEF Intro, AllSteps, Fits
  <2>3. NoResults \in ManagedType /\ Plain(NoResults, Q)
    BY DEF NoResults, ManagedType, Results, Plain
  <2>4. PlainVC(v, Q) /\ v.step = Intro
    BY <2>2, <2>3, PlainNewVC DEF NewStepVC
  <2>5. v.answer = Nil /\ Nil \in Answers
    BY <2>2, <2>4 DEF PlainVC, Answers
  <2> HIDE DEF v
  <2>6. m1 \in ManagedType /\ Plain(m1, Q)
    BY <2>2, <2>3, <2>5, PlainResult, SetResultKeeps
  <2> HIDE DEF m1, Q
  <2>7. Plain(SetResult(m1, <<Intro>>, Intro, v.answer), Q)
    BY <2>2, <2>5, <2>6, PlainResult
  <2>8. Plain(managed', Questions')
    BY <2>1, <2>7
  <2>9. PlainVC(vc', Questions')
    BY <2>1, <2>4
  <2>10. QED
    BY <2>8, <2>9 DEF PlainInv, Plain, PlainVC, AllSteps, Positions
<1>3. ASSUME phase # "idle", nq' = nq,
             Plain(managed', Questions), PlainVC(vc', Questions)
      PROVE  PlainInv'
  BY <1>3 DEF PlainInv, Plain, PlainVC, AllSteps, Positions, Questions
<1>4. ASSUME NEW t \in Text \cup {Null}, TypeText(t) PROVE PlainInv'
  <2>1. phase # "idle" /\ nq' = nq /\ vc.step \in Questions /\ vc'.step = vc.step
        /\ managed' = SetResult(managed, stack, vc.step, t)
    BY <1>1, <1>4 DEF TypeText, OnQuestion, VCType
  <2>2. QED
    BY <1>3, <2>1, RefilingKeepsPlain DEF PlainInv, PlainVC
<1>5. CASE EndEditing
  <2>1. phase # "idle" /\ nq' = nq /\ vc.step \in Questions /\ vc'.step = vc.step
        /\ managed' = SetResult(managed, stack, vc.step, vc.text)
    BY <1>1, <1>5 DEF EndEditing, OnQuestion, VCType
  <2>2. QED
    BY <1>3, <2>1, RefilingKeepsPlain DEF PlainInv, PlainVC
<1>6. CASE Continue
  <2>1. phase = "running" /\ ~vc.reviewing /\ vc.step # Summary /\ nq' = nq
        /\ FlipToNextPage(vc)
    BY <1>6 DEF Continue
  <2>2. QED
    BY <1>1, <1>3, <2>1, FlipToNextPageKeepsPlain DEF PlainInv
<1>7. CASE Skip
  <2> DEFINE from == [vc EXCEPT !.answer = Null, !.text = Null]
  <2>1. from \in VCType /\ from.step = vc.step
    BY <1>1 DEF VCType, Answers
  <2>2. phase = "running" /\ ~vc.reviewing /\ vc.step \in Questions
        /\ FlipToNextPage(from) /\ nq' = nq
    BY <1>7 DEF Skip, OnQuestion
  <2>3. vc.step # Summary
    BY <1>1, <2>2, MaxQuestionsAssumption DEF Questions, Summary, TypeOK
  <2> HIDE DEF from
  <2>4. PlainVC(from, Questions)
    BY <2>1, <2>2 DEF PlainVC
  <2>5. QED
    BY <1>3, <2>1, <2>2, <2>3, <2>4, FlipToNextPageKeepsPlain DEF PlainInv
<1>8. CASE GoBack \/ SaveEdit
  <2>1. phase = "running" /\ (vc.reviewing \/ vc.step # Intro) /\ nq' = nq
        /\ FlipToPreviousPage(vc)
    BY <1>8 DEF GoBack, SaveEdit
  <2>2. QED
    BY <1>1, <1>3, <2>1, FlipToPreviousPageKeepsPlain DEF PlainInv
<1>9. ASSUME NEW s \in AllSteps, ReviewRow(s) PROVE PlainInv'
  <2>1. phase # "idle" /\ nq' = nq
    BY <1>9 DEF ReviewRow
  <2>2. QED
    BY <1>3, <1>9, <2>1, ReviewRowKeepsPlain DEF PlainInv
<1>10. CASE ClearAnswer
  <2> DEFINE from == [vc EXCEPT !.answer = Null, !.text = Null]
  <2>1. from \in VCType /\ from.step = vc.step /\ from.reviewing = vc.reviewing
    BY <1>1 DEF VCType, Answers
  <2>2. /\ phase = "running" /\ vc.reviewing /\ vc.step \in Questions
        /\ FlipToPreviousPage(from) /\ nq' = nq
    BY <1>1, <1>10 DEF ClearAnswer, OnQuestion
  <2> HIDE DEF from
  <2>3. PlainVC(from, Questions)
    BY <2>1, <2>2 DEF PlainVC
  <2>4. QED
    BY <1>3, <2>1, <2>2, <2>3, FlipToPreviousPageKeepsPlain DEF PlainInv
<1>11. CASE AbandonEdit
  <2> DEFINE from == [vc EXCEPT !.answer = vc.original]
  <2>1. /\ from \in VCType /\ from.step = vc.step /\ from.reviewing = vc.reviewing
        /\ from.answer = vc.original /\ from.original = vc.original
        /\ from.editing = vc.editing
    BY <1>1 DEF VCType
  <2>2. /\ phase = "running" /\ vc.reviewing
        /\ FlipToPreviousPage(from) /\ nq' = nq
    BY <1>11 DEF AbandonEdit
  <2> HIDE DEF from
  <2>3. PlainVC(from, Questions)
    BY <2>1, <2>2 DEF PlainVC, PlainInv
  <2>4. QED
    BY <1>3, <2>1, <2>2, <2>3, FlipToPreviousPageKeepsPlain DEF PlainInv
<1>12. CASE Done \/ CancelAtOnce \/ ConfirmDiscard
  <2>1. phase # "idle" /\ nq' = nq /\ vc' = vc
        /\ managed' = SetResult(managed, stack, vc.step, vc.answer)
    BY <1>12 DEF Done, CancelAtOnce, ConfirmDiscard, Finish
  <2>2. QED
    BY <1>3, <2>1, RefilingKeepsPlain DEF PlainInv, PlainVC
<1>13. CASE AskCancel \/ KeepAnswering
  <2>1. phase # "idle" /\ UNCHANGED <<nq, managed, vc>>
    BY <1>13 DEF AskCancel, KeepAnswering
  <2>2. QED
    BY <1>3, <2>1 DEF PlainInv
<1>14. CASE SwipeAway
  BY <1>14 DEF SwipeAway, PlainInv
<1>15. QED
  BY <1>2, <1>4, <1>5, <1>6, <1>7, <1>8, <1>9, <1>10, <1>11, <1>12, <1>13, <1>14
  DEF Next

(***************************************************************************)
(* All of it together, for those who use a run.                            *)
(***************************************************************************)

RunInv == AInv /\ PlainInv /\ CompletedOnSummary

LEMMA InitIsRunInv ==
    ASSUME Init PROVE RunInv
<1>1. IInv
  BY InitIsIInv
<1>2. PassedInv /\ PlainInv /\ CompletedOnSummary
  BY DEF Init, PassedInv, PlainInv, CompletedOnSummary
<1>3. QED
  BY <1>1, <1>2 DEF RunInv, AInv

LEMMA NextKeepsRunInv ==
    ASSUME RunInv, Next PROVE RunInv'
  BY NextKeepsInv, NextKeepsPassed, NextKeepsPlain, NextKeepsCompletion DEF RunInv, AInv

LEMMA SameRunKeepsRunInv ==
    ASSUME RunInv, UNCHANGED vars PROVE RunInv'
<1>1. IInv'
  BY DEF vars, RunInv, AInv, IInv, TypeOK, StackFollowsTask, EveryManagedResultPresent,
         Steps, Summary, Review, Questions, Intro, VCType, ManagedType
<1>2. PassedInv'
  BY DEF vars, RunInv, AInv, PassedInv, Passed, Questions
<1>3. PlainInv' /\ CompletedOnSummary'
  BY DEF vars, RunInv, PlainInv, Plain, PlainVC, Questions, CompletedOnSummary, Summary
<1>4. QED
  BY <1>1, <1>2, <1>3 DEF RunInv, AInv

\* A run hands over a result for every step on its stack, and one without a
\* question result for a step that asks nothing.
LEMMA ResultsHandedOver ==
    ASSUME RunInv, phase # "idle"
    PROVE  /\ Len(stack) \in Nat
           /\ \A i \in 1..Len(stack) :
                /\ stack[i] \in Steps
                /\ ManagedResults(managed, stack)[i] \in Answers
                /\ stack[i] \notin Questions => ManagedResults(managed, stack)[i] = Nil
<1>1. /\ IInv /\ PlainInv /\ Fits(stack) /\ stack \in Seq(Steps)
      /\ managed \in ManagedType /\ nq \in 0..MaxQuestions /\ Len(stack) \in Nat
  BY ShapeFacts DEF RunInv, AInv, IInv, TypeOK
<1>2. ASSUME NEW i \in 1..Len(stack)
      PROVE  /\ stack[i] \in Steps /\ stack[i] \in AllSteps
             /\ i \in Positions
             /\ ManagedResults(managed, stack)[i] = managed.byKey[stack[i]][i]
             /\ managed.byKey[stack[i]][i] \in Answers
             /\ stack[i] \notin Questions => managed.byKey[stack[i]][i] = Nil
  <2>1. stack[i] \in Steps /\ stack[i] \in AllSteps /\ i \in Positions
    BY <1>1, MaxQuestionsAssumption DEF Fits, Steps, Summary, AllSteps, Positions
  <2>2. managed.byKey[stack[i]][i] \in Results /\ managed.byKey[stack[i]][i] # Absent
    BY <1>1, <2>1 DEF ManagedType, IInv, EveryManagedResultPresent
  <2>3. QED
    BY <1>1, <2>1, <2>2 DEF ManagedResults, Results, PlainInv, Plain
<1>3. QED
  BY <1>1, <1>2

\* And a completed one a result for every step of the task, in their order.
LEMMA CompletedHandsOver ==
    ASSUME RunInv, phase = "completed"
    PROVE  /\ nq \in Nat /\ stack = Walk(nq + 3)
           /\ \A q \in 2..(nq + 1) :
                /\ ManagedResults(managed, stack)[q] \in Text \cup {Null}
                /\ q \notin reviewEdited => ManagedResults(managed, stack)[q] = entered[q]
<1>1. vc.step = nq + 3 /\ ~vc.reviewing /\ phase # "idle" /\ AInv /\ IInv /\ nq \in Nat
  BY PositionFacts DEF RunInv, CompletedOnSummary, AInv, Summary
<1>2. stack = Walk(nq + 3)
  BY <1>1, ShapeFacts
<1>3. \A q \in Questions : Passed(q)
  BY <1>1 DEF Passed, Questions
<1>4. QED
  BY <1>1, <1>2, <1>3, HandedOverAnswer DEF AInv, PassedInv, Questions
=============================================================================
