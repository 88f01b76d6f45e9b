SPECIFICATION Spec
CONSTANTS
  Sent <- MCSent
  Plain <- MCPlain
  TypoPlain <- OneLargePlain
  MaxTypos = 2
  TypoSymbol <- Symbol
  MaxCut = 4
INVARIANTS
  RoundTrip
  UnitTestAddresses
  EncodedIsCodeword
  CutNeverMisread
  CheckDigitsIgnored
  GmultIsFieldProduct
  TyposDetected
CHECK_DEADLOCK FALSE
