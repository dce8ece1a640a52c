\* Two questions: the fewest for which going back, reviewing one and
\* leaving the other alone are different things.  Two texts: an answer and
\* a changed answer.
CONSTANTS
    MaxQuestions = 2
    Text = {a, b}
    Nil = Nil
    Null = Null
    Absent = Absent
SPECIFICATION Spec
INVARIANTS
    TypeOK
    EveryManagedResultPresent
    CurrentStepIsOnTop
    StackFollowsTask
    CompletedRunIsComplete
    AnswersEnteredInOrderAreKept
SYMMETRY Symmetry
