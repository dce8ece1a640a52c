\* One question, skipped.
CONSTANTS
    Surveys <- SmallSurveys
    Text = {a}
    Nil = Nil
    Null = Null
    Absent = Absent
    NoSurvey = NoSurvey
SPECIFICATION Spec
INVARIANT SkippingIsAllowed
