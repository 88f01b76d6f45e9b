SPECIFICATION FairSpec
CONSTANTS
  Form <- MCFormNoMemo
  MaxClicks = 4
  MaxLost = 0
PROPERTIES
  MemoIsOptional
CHECK_DEADLOCK FALSE
