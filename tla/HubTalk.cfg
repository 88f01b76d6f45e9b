SPECIFICATION FairSpec
CONSTANTS
  s1 = s1
  s2 = s2
  Socket <- OneSocket
  Scripts <- TalkingScripts
  MaxPings <- OnePing
  NameInTime = FALSE
PROPERTIES
  ClosedLeaves
CHECK_DEADLOCK FALSE
