----------------------------- MODULE SurveyFlow -----------------------------
(***************************************************************************)
(* The survey tab: FirstViewController loads the user's profile once and   *)
(* follows the questions collection, builds a task from the questions it   *)
(* has when its row is tapped, runs it (module TaskRun) and, when the run  *)
(* ends, turns the task's results into response documents.                 *)
(*                                                                         *)
(* The profile, the snapshots and the user's taps arrive in any order: the *)
(* tab can be used before its profile is there, and the questions can      *)
(* change while a run built from older ones is on screen.                  *)
(***************************************************************************)
EXTENDS Naturals, Sequences, SequencesExt, FiniteSets

CONSTANTS
    Surveys,        \* the question lists the questions collection may hold
    Text, Nil, Null, Absent,   \* as in TaskRun
    NoSurvey        \* surveyOne before the first snapshot

MaxQuestions == CHOOSE n \in {Len(s) : s \in Surveys} : \A s \in Surveys : Len(s) <= n

ASSUME SurveysAssumption ==
    /\ NoSurvey \notin Surveys
    /\ \A s \in Surveys : s \in Seq(ToSet(s))
    /\ \E s \in Surveys : \A t \in Surveys : Len(t) <= Len(s)

\* As in TaskRun: the markers are not texts and differ.
ASSUME MarkersAssumption ==
    /\ Nil \notin Text /\ Null \notin Text /\ Absent \notin Text
    /\ Nil # Null /\ Nil # Absent /\ Null # Absent

VARIABLES
    app,       \* "up" or "crashed"
    profile,   \* currentUser: "nil", "loaded" or "partial"
    survey,    \* surveyOne
    texts,     \* the question texts of the task on screen
    sent,      \* the responses the last run has added, in order
    nq, phase, stack, managed, vc, entered, reviewEdited   \* the run

Run == INSTANCE TaskRun

runVars == <<nq, phase, stack, managed, vc, entered, reviewEdited>>
tabVars == <<profile, survey, texts>>
vars == <<app, profile, survey, texts, sent, runVars>>

-----------------------------------------------------------------------------
(* viewDidLoad asks for the profile of the keychain's user and listens to  *)
(* the questions.                                                          *)
Init ==
    /\ app = "up"
    /\ profile = "nil"
    /\ survey = NoSurvey
    /\ texts = <<>>
    /\ sent = <<>>
    /\ Run!Init

(* The answer to the one request for the profile.  No document, an         *)
(* unreadable one or an error change nothing: currentUser stays nil.       *)
(* UserData's fields are optional, so a document may lack one (partial).   *)
ProfileArrives(outcome) ==
    /\ app = "up"
    /\ profile = "nil"
    /\ profile' = outcome
    /\ UNCHANGED <<app, survey, texts, sent, runVars>>

\* The snapshot listener replaces the questions, also under a running task.
SnapshotArrives(qs) ==
    /\ app = "up"
    /\ qs # survey
    /\ survey' = qs
    /\ UNCHANGED <<app, profile, texts, sent, runVars>>

\* surveyOne?.forEach appends nothing while there is no snapshot.
RowQuestions == IF survey = NoSurvey THEN <<>> ELSE survey

\* Mutant: identifiers are told apart by their position, none collide.
NumberedIdentifiers(qs) == [i \in 1..(Len(qs) + 3) |-> i]

\* The step identifiers setupSurveyScreen gives the task.
StepIdentifiers(qs) == <<"IntroStep">> \o qs \o <<"reviewSteps", "SummaryStep">>

TableShown == phase \in {"idle", "completed", "discarded"}

\* Mutant: setupSurveyScreen unwraps surveyOne instead of skipping over nil.
SelectRowUnwrapping ==
    /\ app = "up"
    /\ TableShown
    /\ IF survey # NoSurvey /\ IsInjective(StepIdentifiers(RowQuestions))
       THEN /\ Run!Present(Len(RowQuestions))
            /\ texts' = RowQuestions
            /\ sent' = <<>>
            /\ UNCHANGED app
       ELSE /\ app' = "crashed"
            /\ UNCHANGED <<texts, sent, runVars>>
    /\ UNCHANGED <<profile, survey>>

(* The row is there whether or not there is a survey.  The task's          *)
(* initializer throws when two steps share an identifier.                  *)
SelectRow ==
    /\ app = "up"
    /\ TableShown
    /\ IF IsInjective(StepIdentifiers(RowQuestions))
       THEN /\ Run!Present(Len(RowQuestions))
            /\ texts' = RowQuestions
            /\ sent' = <<>>
            /\ UNCHANGED app
       ELSE /\ app' = "crashed"
            /\ UNCHANGED <<texts, sent, runVars>>
    /\ UNCHANGED <<profile, survey>>

\* The results that have a question result: a question that was never touched
\* has none, a skipped one has a result without a text.
Touched(results) ==
    LET upTo[i \in 0..Len(results)] ==
          IF i = 0 THEN <<>>
          ELSE IF results[i].answer = Nil THEN upTo[i - 1]
          ELSE Append(upTo[i - 1], results[i])
    IN upTo[Len(results)]

\* Mutant: the questions are looked up in the snapshot the tab has now.
HandedOverUnderNewQuestions(m, st) ==
    Touched([i \in 1..Len(st) |->
               [question |-> IF st[i] \in Run!Questions /\ st[i] - 1 \in DOMAIN RowQuestions
                             THEN RowQuestions[st[i] - 1] ELSE "",
                answer |-> Run!ManagedResults(m, st)[i]]])

(* What the delegate gets from taskViewController.result: the question     *)
(* results in stack order.                                                 *)
HandedOver(m, st) ==
    Touched([i \in 1..Len(st) |->
               [question |-> IF st[i] \in Run!Questions THEN texts[st[i] - 1] ELSE "",
                answer |-> Run!ManagedResults(m, st)[i]]])

\* Mutant: a skipped question is sent with the null answer for its text.
NeverSkipped(r) == FALSE

IsSkipped(r) == r.answer = Null

(* sendSurveyData: nothing without a profile; otherwise one new document   *)
(* per result, until a forced unwrapping meets a result without a text or  *)
(* a profile without a name.                                               *)
Unsendable(r) == IsSkipped(r) \/ profile = "partial"

SendSurveyData(results) ==
    LET bad == SelectInSeq(results, Unsendable)
    IN \/ /\ profile = "nil"
          /\ UNCHANGED <<app, sent>>
       \/ /\ profile # "nil" /\ bad = 0
          /\ sent' = sent \o results
          /\ UNCHANGED app
       \/ /\ profile # "nil" /\ bad # 0
          /\ sent' = sent \o SubSeq(results, 1, bad - 1)
          /\ app' = "crashed"

\* Mutant: the delegate hears of a run that goes on as well.
DidFinishOrNot ==
    /\ Run!Done \/ Run!CancelAtOnce \/ Run!ConfirmDiscard \/ Run!KeepAnswering
    /\ SendSurveyData(HandedOver(managed', stack'))
    /\ UNCHANGED tabVars

(* taskViewController(_:didFinishWith:) does not look at the reason.       *)
DidFinish ==
    /\ Run!Done \/ Run!CancelAtOnce \/ Run!ConfirmDiscard
    /\ SendSurveyData(HandedOver(managed', stack'))
    /\ UNCHANGED tabVars

InsideRun ==
    \/ \E t \in Text \cup {Null} : Run!TypeText(t)
    \/ Run!EndEditing
    \/ Run!Continue
    \/ Run!Skip
    \/ Run!GoBack
    \/ \E s \in Run!AllSteps : Run!ReviewRow(s)
    \/ Run!SaveEdit
    \/ Run!ClearAnswer
    \/ Run!AbandonEdit
    \/ Run!AskCancel
    \/ Run!KeepAnswering

Answering == app = "up" /\ InsideRun /\ UNCHANGED <<app, sent, tabVars>>

Finishing == app = "up" /\ DidFinish

\* The sheet is swiped away: the delegate is not told, nothing is sent.
Swiping ==
    /\ app = "up"
    /\ Run!SwipeAway
    /\ texts' = <<>>
    /\ UNCHANGED <<app, sent, profile, survey>>

(* A new process, after a crash or because the old one was ended: a new    *)
(* tab, with its request and its listener.                                 *)
Relaunch ==
    /\ app' = "up"
    /\ profile' = "nil"
    /\ survey' = NoSurvey
    /\ texts' = <<>>
    /\ sent' = <<>>
    /\ nq' = 0 /\ phase' = "idle" /\ stack' = <<>>
    /\ managed' = Run!NoResults /\ vc' = Run!NoVC
    /\ entered' = Run!NothingEntered /\ reviewEdited' = {}

Next ==
    \/ \E o \in {"loaded", "partial"} : ProfileArrives(o)
    \/ \E qs \in Surveys : SnapshotArrives(qs)
    \/ SelectRow
    \/ Answering
    \/ Finishing
    \/ Swiping
    \/ Relaunch

Spec == Init /\ [][Next]_vars

-----------------------------------------------------------------------------
Responses == [question : UNION {ToSet(s) : s \in Surveys}, answer : Text]

(* The tab's variables stay in their ranges (TaskRun has the run's): in    *)
(* particular only real texts, under the survey's questions, are sent.     *)
TypeOK ==
    /\ app \in {"up", "crashed"}
    /\ profile \in {"nil", "loaded", "partial"}
    /\ survey \in Surveys \cup {NoSurvey}
    /\ texts \in Surveys \cup {<<>>}
    /\ Len(texts) = nq
    /\ sent \in Seq(Responses)

FirstSkipped == SelectInSeq([i \in 1..nq |-> entered[i + 1]], LAMBDA a : a = Null)
Answered == IF FirstSkipped = 0 THEN nq ELSE FirstSkipped - 1

(* End to end: tapping Done on a run without review edits, with a profile, *)
(* sends one response per question in order, each with the answer last     *)
(* entered, up to the first question that was skipped.                     *)
DoneSendsWhatWasEntered ==
    [][phase' = "completed" /\ phase # phase' /\ profile = "loaded" /\ reviewEdited' = {} =>
         sent' = [i \in 1..Answered |-> [question |-> texts[i], answer |-> entered[i + 1]]]]_vars

(* A completed run sends no question twice, however often the user went    *)
(* back or through the review step, and whatever the questions changed to. *)
CompletedRunSendsEachQuestionOnce ==
    phase = "completed" => IsInjective([i \in 1..Len(sent) |-> sent[i].question])

(* Responses are only added by the end of a run, and never after it: no    *)
(* tap, snapshot or profile arriving later adds to a run already sent.     *)
ResponsesOnlyAtTheEndOfARun ==
    [][sent' # sent /\ sent' # <<>> =>
        phase \in {"running", "confirm"} /\ phase' \in {"completed", "discarded"}]_vars

(* The application fails in four ways only: on a survey with colliding     *)
(* identifiers, on a partial profile, on a discarded run, and on a         *)
(* completed one with a question whose last answer is a skip or came from  *)
(* the review step.  Completed runs without either never crash.            *)
CrashesAreKnown ==
    app = "crashed" =>
        \/ TableShown /\ ~IsInjective(StepIdentifiers(RowQuestions))
        \/ profile = "partial" /\ sent = <<>>
        \/ profile = "loaded" /\ phase = "discarded"
        \/ /\ profile = "loaded" /\ phase = "completed"
           /\ \E q \in Run!Questions : entered[q] = Null \/ q \in reviewEdited

(* The finish reason's documentation: the participant asked to discard the *)
(* result, so a discarded run sends nothing.                               *)
DiscardSendsNothing == phase = "discarded" => sent = <<>>

(* The completion step's text: tapping done submits the data.              *)
DoneSendsTheSurvey ==
    phase = "completed" /\ FirstSkipped = 0 => Len(sent) = nq

(* A question step is optional: the user can skip it and complete the run, *)
(* with a whole profile, without the application failing.                  *)
SkippingIsAllowed ==
    phase = "completed" /\ profile = "loaded" /\ IsInjective(StepIdentifiers(RowQuestions))
        => app = "up"
=============================================================================
