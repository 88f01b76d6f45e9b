SPECIFICATION Spec
CONSTANTS
  demo1 = demo1
  demo2 = demo2
  fresh = fresh
  made_up = made_up
  t1 = t1
  t2 = t2
  Address <- MCAddress
  Issuable <- MCIssuable
  Title <- MCTitle
  DemoRows <- MCDemoRows
  TxMod = 3
  MaxRows = 5
INVARIANTS
  TypeOK
  NumberedInOrder
  ShadowedRowsIdle
PROPERTIES
  RowsKeepIdentity
  ImplementsContractMap
