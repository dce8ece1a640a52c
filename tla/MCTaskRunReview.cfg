\* One question is enough to lose an answer edited from the review step.
CONSTANTS
    MaxQuestions = 1
    Text = {a, b}
    Nil = Nil
    Null = Null
    Absent = Absent
SPECIFICATION Spec
INVARIANT ReviewEditsAreHandedOver
