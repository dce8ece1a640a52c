\* One question is enough for a discarded answer.
CONSTANTS
    Surveys <- SmallSurveys
    Text = {a}
    Nil = Nil
    Null = Null
    Absent = Absent
    NoSurvey = NoSurvey
SPECIFICATION Spec
INVARIANT DiscardSendsNothing
