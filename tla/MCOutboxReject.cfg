\* Four writes, one of which is refused, and nothing else going wrong.
CONSTANTS
    Users = {u1, u2}
    MaxPending = 4
    MaxWrites = 4
    MaxTroubles = 0
SPECIFICATION Spec
SYMMETRY Symmetry
INVARIANT RejectedWasRefused
CHECK_DEADLOCK FALSE
