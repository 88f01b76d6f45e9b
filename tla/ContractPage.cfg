SPECIFICATION PageSpec
CONSTANTS
  p1 = p1
  p2 = p2
  demo = demo
  fresh = fresh
  undefined = undefined
  t1 = t1
  Page = {p1, p2}
  Address <- MCAddress
  Issuable = {fresh}
  Title = {t1}
  DemoRows <- MCDemoRows
  UndefinedText = undefined
  TxMod = 8
  MaxRows = 6
  MaxClicks = 4
SYMMETRY MCSymmetry
INVARIANTS
  PageTypeOK
  ShownIsPast
  ListMovesOn
  OneRowPerConfirm
CHECK_DEADLOCK FALSE
