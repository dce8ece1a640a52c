\* Two questions, so that a crash can come after a response and before
\* another; one text, the changed answers being checked in MCTaskRun.
CONSTANTS
    Surveys <- MCSurveys
    Text = {a}
    Nil = Nil
    Null = Null
    Absent = Absent
    NoSurvey = NoSurvey
SPECIFICATION Spec
INVARIANTS
    TypeOK
    CompletedRunSendsEachQuestionOnce
    CrashesAreKnown
PROPERTIES
    
    DoneSendsWhatWasEntered
