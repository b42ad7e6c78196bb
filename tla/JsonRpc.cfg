\* Two requests of every kind on one connection.
SPECIFICATION FairSpec
CONSTANT MaxRequests = 2
CHECK_DEADLOCK FALSE
INVARIANTS AnsweredOnce
PROPERTIES EventuallyAnswered
