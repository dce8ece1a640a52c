SPECIFICATION FairSpec
CONSTANTS
  Profile = "profile"
  Questions = "questions"
  Nothing = Nothing
  DocumentQueries = {"profile"}
  MaxTabs = 2
  MaxVersions = 2
  MaxTroubles = 1
INVARIANTS
  TypeOK
  NoAssertionFails
  OutstandingResponsesMatch
  NothingIsMissed
  ReadIsFresh

PROPERTIES
  EveryReadIsAnswered
  QuestionsCatchUp
CHECK_DEADLOCK FALSE
