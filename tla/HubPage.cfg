SPECIFICATION FairSpec
CONSTANTS
  s1 = s1
  s2 = s2
  Socket <- OneSocket
  Scripts <- PageScripts
  MaxPings <- ThreePings
  NameInTime = TRUE
INVARIANTS
  AnswerIsCurrent
  TimerStopped
  ListedIsHandled
  JoinCanEnd
PROPERTIES
  ClosedLeaves
  SkippedLeaves
  NamedIsLogged
CHECK_DEADLOCK FALSE
