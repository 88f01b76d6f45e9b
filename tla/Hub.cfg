SPECIFICATION Spec
CONSTANTS
  s1 = s1
  s2 = s2
  Socket <- TwoSockets
  Scripts <- MixedScripts
  MaxPings <- OnePing
  NameInTime = FALSE
INVARIANTS
  TypeOK
  ReaderAssertion
  OnlyPongsAfterClose
  ListedOnce
PROPERTIES
  MissedOnlyBehindDead
  ImplementsAnnouncement
CHECK_DEADLOCK FALSE
