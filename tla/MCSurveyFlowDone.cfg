\* One question, answered, and a profile that is not there yet.
CONSTANTS
    Surveys <- SmallSurveys
    Text = {a}
    Nil = Nil
    Null = Null
    Absent = Absent
    NoSurvey = NoSurvey
SPECIFICATION Spec
INVARIANT DoneSendsTheSurvey
