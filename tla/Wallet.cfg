SPECIFICATION FairSpec
CONSTANTS
  Form <- MCForm
  MaxClicks = 6
  MaxLost = 1
INVARIANTS
  TypeOK
  WaitOwnsScreen
  AddressKnown
  Settled
  FreezeKept
PROPERTIES
  OutcomeIsSeen
  LoadingEnds
  AccountAppears
CHECK_DEADLOCK FALSE
