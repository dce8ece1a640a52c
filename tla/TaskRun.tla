------------------------------ MODULE TaskRun ------------------------------
(***************************************************************************)
(* One run of the survey on the phone: the ORKOrderedTask that             *)
(* FirstViewController builds (an introduction, one text question per      *)
(* survey question, the embedded review step, a completion step) driven    *)
(* through ORKTaskViewController and its step view controllers.            *)
(*                                                                         *)
(* The task view controller keeps two things about the run: a stack of the *)
(* identifiers of the steps shown (_managedStepIdentifiers) and the        *)
(* results (_managedResults), each result filed twice, under the           *)
(* identifier of its step and under identifier:index.  The run's answers   *)
(* are read back through the second key.                                   *)
(*                                                                         *)
(* A step is named by its position in the task: ORKOrderedTask refuses     *)
(* steps whose identifiers are not unique (module SurveyFlow models that   *)
(* refusal), so identifier and position stand for each other.  Positions   *)
(* start at 1 where the code's indices start at 0.                         *)
(***************************************************************************)
EXTENDS Naturals, Sequences

CONSTANTS
    MaxQuestions,   \* bound: most questions a survey has
    Text,           \* the non-empty texts a user may type
    Nil,            \* no answer object yet: the question was never touched
    Null,           \* ORKNullAnswerValue(): skipped, or typed and emptied
    Absent          \* no entry in _managedResults

ASSUME MaxQuestionsAssumption == MaxQuestions \in Nat
ASSUME MarkersAssumption ==
    /\ Nil \notin Text /\ Null \notin Text /\ Absent \notin Text
    /\ Nil # Null /\ Nil # Absent /\ Null # Absent

VARIABLES
    nq,        \* number of question steps in this run's task
    phase,     \* "idle", "running", "confirm" (cancel sheet up), "completed", "discarded"
    stack,     \* _managedStepIdentifiers
    managed,   \* _managedResults, by identifier and by identifier:index
    vc,        \* _currentStepViewController
    entered,   \* history: what the user last committed for each step
    reviewEdited  \* history: the steps whose last commit was made from the review step

vars == <<nq, phase, stack, managed, vc, entered, reviewEdited>>

-----------------------------------------------------------------------------
(* The task, in the order setupSurveyScreen appends its steps.             *)

Intro     == 1
Review    == nq + 2
Summary   == nq + 3
Steps     == 1..Summary
Questions == 2..(nq + 1)

AllSteps  == 1..(MaxQuestions + 3)
\* The largest position used by any key is one past a full stack.
Positions == 1..(MaxQuestions + 4)

Answers   == Text \cup {Nil, Null}
Results   == Answers \cup {Absent}

TopOf(st)   == st[Len(st)]
IsTop(st, s) == st # <<>> /\ TopOf(st) = s
\* Mutant: removeLastObject is left out.
KeepAll(st) == st
Pop(st)     == SubSeq(st, 1, Len(st) - 1)

\* Mutant: the index is always that of the next push.
NextPosition(st, s) == Len(st) + 1

(* setManagedResult:forKey: files the result under the step and under the  *)
(* step with an index: the top of the stack if the step is there, else the *)
(* place it would get if it were pushed next.                              *)
KeyPosition(st, s) == IF IsTop(st, s) THEN Len(st) ELSE Len(st) + 1

\* Mutant: the indexed key is only written for a step without a result.
SetResultOnce(m, st, s, r) ==
    IF m.byId[s] = Absent
    THEN [m EXCEPT !.byId[s] = r, !.byKey[s][KeyPosition(st, s)] = r]
    ELSE [m EXCEPT !.byId[s] = r]

SetResult(m, st, s, r) ==
    [m EXCEPT !.byId[s] = r, !.byKey[s][KeyPosition(st, s)] = r]

\* managedResults: one result per identifier on the stack, found by its index.
ManagedResults(m, st) == [i \in 1..Len(st) |-> m.byKey[st[i]][i]]

\* Mutant: the restored text field is not emptied for a missing answer.
NewStepVCWithRawText(m, s, reviewing) ==
    [step |-> s, answer |-> m.byId[s], original |-> m.byId[s], text |-> m.byId[s],
     editing |-> FALSE, reviewing |-> reviewing]

(* A new step view controller starts from the result filed under its       *)
(* step's identifier; a result without a question result gives no answer.  *)
RestoredAnswer(m, s) == IF m.byId[s] \in {Absent, Nil} THEN Nil ELSE m.byId[s]

NewStepVC(m, s, reviewing) ==
    LET a == RestoredAnswer(m, s)
    IN [step |-> s, answer |-> a, original |-> a,
        text |-> IF a \in Text THEN a ELSE Null,
        editing |-> FALSE, reviewing |-> reviewing]

NoResults == [byId  |-> [s \in AllSteps |-> Absent],
              byKey |-> [s \in AllSteps |-> [i \in Positions |-> Absent]]]

NoVC == [step |-> 1, answer |-> Nil, original |-> Nil, text |-> Null,
         editing |-> FALSE, reviewing |-> FALSE]

-----------------------------------------------------------------------------
NothingEntered == [s \in AllSteps |-> Nil]

Init ==
    /\ nq = 0
    /\ phase = "idle"
    /\ stack = <<>>
    /\ managed = NoResults
    /\ vc = NoVC
    /\ entered = NothingEntered
    /\ reviewEdited = {}

(* A row of the survey table is tapped: the task is built, the controller  *)
(* presented, and viewWillAppear shows the first step.  The result getter  *)
(* runs inside showViewController with the new step already current.       *)
Present(n) ==
    /\ phase \in {"idle", "completed", "discarded"}
    /\ nq' = n
    /\ phase' = "running"
    /\ LET v  == NewStepVC(NoResults, Intro, FALSE)
           m1 == SetResult(NoResults, <<>>, Intro, v.answer)
       IN /\ vc' = v
          /\ stack' = <<Intro>>
          /\ managed' = SetResult(m1, <<Intro>>, Intro, v.answer)
    /\ entered' = NothingEntered
    /\ reviewEdited' = {}

(* showViewController: from is the controller being left, v the new one.   *)
(* [self result] is evaluated once while from is still current and once    *)
(* when v is.  If from's text field was being edited, UIKit ends the       *)
(* editing when the view goes away, and that answer is filed too, although *)
(* from is no longer current.                                              *)
\* Mutant: a step that is anywhere on the stack is not pushed again.
ShownOnce(st, s) == IF \E i \in 1..Len(st) : st[i] = s THEN st ELSE Append(st, s)

Shown(st, s) == IF IsTop(st, s) THEN st ELSE Append(st, s)

ShowStep(m, st, from, v) ==
    LET shown == Shown(st, v.step)
        m1 == SetResult(m, st, from.step, from.answer)
        m2 == SetResult(m1, shown, v.step, v.answer)
    IN /\ stack' = shown
       /\ vc' = v
       /\ \/ managed' = m2
          \/ /\ from.editing
             /\ managed' = SetResult(m2, shown, from.step, from.text)

(* flipToNextPageFrom: with a next step.  A step under review never comes  *)
(* here, its goForward goes in the reverse direction.                      *)
FlipToNextPage(from) ==
    LET m1 == SetResult(managed, stack, from.step, from.answer)
        v  == NewStepVC(m1, from.step + 1, FALSE)
        m2 == SetResult(m1, stack, v.step, v.answer)
    IN ShowStep(m2, stack, from, v)

(* flipToPreviousPageFrom: back to the review step that is the parent of   *)
(* the step, or to the step before it.  The target's result is filed       *)
(* before the current identifier is taken off the stack.                   *)
FlipToPreviousPage(from) ==
    LET m1 == SetResult(managed, stack, from.step, from.answer)
        v  == NewStepVC(m1, IF from.reviewing THEN Review ELSE from.step - 1, FALSE)
        m2 == SetResult(m1, stack, v.step, v.answer)
    IN ShowStep(m2, Pop(stack), from, v)

-----------------------------------------------------------------------------
(* The user's actions on the step shown.                                   *)

OnQuestion == phase = "running" /\ vc.step \in Questions

HasAnswer == vc.answer \in Text

(* Each keystroke replaces the answer, by Null when the field is emptied,  *)
(* and files the step's result at once.                                    *)
TypeText(t) ==
    /\ OnQuestion
    /\ t # vc.text
    /\ vc' = [vc EXCEPT !.answer = t, !.text = t, !.editing = TRUE]
    /\ managed' = SetResult(managed, stack, vc.step, t)
    /\ UNCHANGED <<nq, phase, stack, entered, reviewEdited>>

\* The Return key ends editing; textFieldDidEndEditing saves the text again.
EndEditing ==
    /\ OnQuestion
    /\ vc.editing
    /\ vc' = [vc EXCEPT !.answer = vc.text, !.editing = FALSE]
    /\ managed' = SetResult(managed, stack, vc.step, vc.text)
    /\ UNCHANGED <<nq, phase, stack, entered, reviewEdited>>

Commit(s, a, fromReview) ==
    /\ entered' = [entered EXCEPT ![s] = a]
    /\ reviewEdited' = IF fromReview THEN reviewEdited \cup {s} ELSE reviewEdited \ {s}

\* Mutant: the Continue button does not ask for an answer.
ContinueUnanswered ==
    /\ phase = "running" /\ ~vc.reviewing
    /\ vc.step # Summary
    /\ FlipToNextPage(vc)
    /\ Commit(vc.step, vc.answer, FALSE)
    /\ UNCHANGED <<nq, phase>>

\* Continue, on a step that is not the last: a question needs an answer.
Continue ==
    /\ phase = "running" /\ ~vc.reviewing
    /\ vc.step # Summary
    /\ vc.step \in Questions => HasAnswer
    /\ FlipToNextPage(vc)
    /\ Commit(vc.step, vc.answer, FALSE)
    /\ UNCHANGED <<nq, phase>>

\* Skip: every question step is optional.
Skip ==
    /\ OnQuestion /\ ~vc.reviewing
    /\ FlipToNextPage([vc EXCEPT !.answer = Null, !.text = Null])
    /\ Commit(vc.step, Null, FALSE)
    /\ UNCHANGED <<nq, phase>>

\* Back, on a step that is not under review; what was typed stays.
GoBack ==
    /\ phase = "running" /\ ~vc.reviewing
    /\ vc.step # Intro
    /\ FlipToPreviousPage(vc)
    /\ Commit(vc.step, vc.answer, FALSE)
    /\ UNCHANGED <<nq, phase>>

(* A row of the review list is tapped: the step comes up again on top of   *)
(* the review step, with Save and Clear answer in place of its buttons.    *)
ReviewRow(s) ==
    /\ phase = "running" /\ vc.step = Review
    /\ s \in Questions \cup {Intro}
    /\ LET v == NewStepVC(managed, s, TRUE)
       IN ShowStep(SetResult(managed, stack, s, v.answer), stack, vc, v)
    /\ UNCHANGED <<nq, phase, entered, reviewEdited>>

\* Save needs an answer that differs from the one the step came up with.
SaveEdit ==
    /\ phase = "running" /\ vc.reviewing
    /\ vc.step \in Questions => HasAnswer /\ vc.answer # vc.original
    /\ FlipToPreviousPage(vc)
    /\ Commit(vc.step, vc.answer, TRUE)
    /\ UNCHANGED <<nq, phase>>

\* Clear answer is offered only where there was one.
ClearAnswer ==
    /\ OnQuestion /\ vc.reviewing
    /\ vc.original \in Text
    /\ FlipToPreviousPage([vc EXCEPT !.answer = Null, !.text = Null])
    /\ Commit(vc.step, Null, TRUE)
    /\ UNCHANGED <<nq, phase>>

\* Back out of a step under review: its original answer is put back first.
AbandonEdit ==
    /\ phase = "running" /\ vc.reviewing
    /\ FlipToPreviousPage([vc EXCEPT !.answer = vc.original])
    /\ UNCHANGED <<nq, phase, entered, reviewEdited>>

-----------------------------------------------------------------------------
(* The ends of a run.  The delegate reads the controller's result, which   *)
(* files the current step's result first.                                  *)

Finish(reason) ==
    /\ phase' = reason
    /\ managed' = SetResult(managed, stack, vc.step, vc.answer)
    /\ UNCHANGED <<nq, stack, vc>>

\* Done, on the completion step.
Done ==
    /\ phase = "running"
    /\ vc.step = Summary
    /\ Finish("completed")
    /\ Commit(vc.step, vc.answer, FALSE)

Saveable ==
    \E s \in AllSteps :
        \/ managed.byId[s] \in Text \cup {Null}
        \/ \E i \in Positions : managed.byKey[s][i] \in Text \cup {Null}

OnInstruction == vc.step \in {Intro, Summary}

(* Cancel finishes at once from an instruction step of a run with nothing  *)
(* to save, and asks first everywhere else.                                *)
CancelAtOnce ==
    /\ phase = "running"
    /\ OnInstruction /\ ~Saveable
    /\ Finish("discarded")
    /\ UNCHANGED <<entered, reviewEdited>>

AskCancel ==
    /\ phase = "running"
    /\ ~(OnInstruction /\ ~Saveable)
    /\ phase' = "confirm"
    /\ UNCHANGED <<nq, stack, managed, vc, entered, reviewEdited>>

ConfirmDiscard ==
    /\ phase = "confirm"
    /\ Finish("discarded")
    /\ UNCHANGED <<entered, reviewEdited>>

KeepAnswering ==
    /\ phase = "confirm"
    /\ phase' = "running"
    /\ UNCHANGED <<nq, stack, managed, vc, entered, reviewEdited>>

(* The controller is presented as a page sheet, which a swipe takes away   *)
(* without the delegate hearing of it.  Nothing else refers to the         *)
(* controller, so its state goes with it.                                  *)
SwipeAway ==
    /\ phase = "running"
    /\ phase' = "idle"
    /\ nq' = 0
    /\ stack' = <<>>
    /\ managed' = NoResults
    /\ vc' = NoVC
    /\ entered' = NothingEntered
    /\ reviewEdited' = {}

Next ==
    \/ \E n \in 0..MaxQuestions : Present(n)
    \/ \E t \in Text \cup {Null} : TypeText(t)
    \/ EndEditing
    \/ Continue
    \/ Skip
    \/ GoBack
    \/ \E s \in AllSteps : ReviewRow(s)
    \/ SaveEdit
    \/ ClearAnswer
    \/ AbandonEdit
    \/ Done
    \/ CancelAtOnce
    \/ AskCancel
    \/ ConfirmDiscard
    \/ KeepAnswering
    \/ SwipeAway

Spec == Init /\ [][Next]_vars

-----------------------------------------------------------------------------
ManagedType == [byId  : [AllSteps -> Results],
                byKey : [AllSteps -> [Positions -> Results]]]

VCType == [step : Steps, answer : Answers, original : Answers,
           text : Text \cup {Null}, editing : BOOLEAN, reviewing : BOOLEAN]

(* Every variable stays in its range, and no key is ever written past the  *)
(* positions a run of this length can use.                                 *)
TypeOK ==
    /\ nq \in 0..MaxQuestions
    /\ phase \in {"idle", "running", "confirm", "completed", "discarded"}
    /\ stack \in Seq(Steps)
    /\ managed \in ManagedType
    /\ vc \in VCType
    /\ entered \in [AllSteps -> Answers]
    /\ reviewEdited \subseteq AllSteps

(* NSAssert2 in managedResults: no identifier on the stack is without a    *)
(* result under its indexed key, whatever mix of Continue, Back and review *)
(* detours led here.                                                       *)
EveryManagedResultPresent ==
    \A i \in 1..Len(stack) : managed.byKey[stack[i]][i] # Absent

(* assert in flipToPreviousPageFrom: the current step is the one on top of *)
(* the stack, so that Back takes the right identifier away.                *)
CurrentStepIsOnTop ==
    phase \in {"running", "confirm"} => IsTop(stack, vc.step)

\* The steps from the first to the k-th.
Walk(k) == [i \in 1..k |-> i]

(* The stack is the task walked from its start to the current step; only a *)
(* step under review lies above the review step.  Nothing the user does    *)
(* makes it grow without bound or skip a step.                             *)
StackFollowsTask ==
    phase # "idle" =>
        IF vc.reviewing
        THEN /\ vc.step \in Questions \cup {Intro}
             /\ stack = Append(Walk(Review), vc.step)
        ELSE stack = Walk(vc.step)

(* A run that ends with Done hands over exactly one result per step, and   *)
(* every question was answered or skipped: none is left untouched.         *)
CompletedRunIsComplete ==
    phase = "completed" =>
        /\ Len(stack) = Summary
        /\ \A q \in Questions : ManagedResults(managed, stack)[q] \in Text \cup {Null}

(* Answers given on the way through the task, changed by going back or     *)
(* not, are handed over as last entered, unless the last change to them    *)
(* was made from the review step.                                          *)
AnswersEnteredInOrderAreKept ==
    \A q \in Questions :
        /\ phase = "completed" \/ (phase = "running" /\ vc.step \in {Review, Summary})
        /\ q \notin reviewEdited
        => ManagedResults(managed, stack)[q] = entered[q]

(* An answer changed from the review step, as its text invites the user to *)
(* do, is the answer handed over when the run is completed.                *)
ReviewEditsAreHandedOver ==
    phase = "completed" =>
        \A q \in reviewEdited \cap Questions :
            ManagedResults(managed, stack)[q] = entered[q]
=============================================================================
