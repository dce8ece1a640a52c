\* One write, and one change of user while its stream is opening.
CONSTANTS
    Users = {u1, u2}
    MaxPending = 2
    MaxWrites = 1
    MaxTroubles = 1
SPECIFICATION Spec
SYMMETRY Symmetry
INVARIANT SentWithTheirUsersToken
CHECK_DEADLOCK FALSE
