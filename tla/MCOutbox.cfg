\* Two users, three writes and a pipeline of two, so that it fills up; a change of
\* user or token, a broken stream and a restart.
CONSTANTS
    Users = {u1, u2}
    MaxPending = 2
    MaxWrites = 3
    MaxTroubles = 2
SPECIFICATION FairSpec
INVARIANTS
    TypeOK
    NoAssertionFails
    PipelineIsFrontOfQueue
    AnswersBelongToTheirWrites
    IdleMeansNothingToSend
    NeverStalled
    CallbacksAreTheirBatches
    ToldOkIsCommitted
    NothingIsDropped
    ServerKeepsTheLatest
PROPERTIES
    KeepsThePromise
    EverythingSettles
CHECK_DEADLOCK FALSE
