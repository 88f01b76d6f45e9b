SPECIFICATION Spec
CONSTANTS
  Sent <- MCSent
  Plain <- OneLargePlain
  TypoPlain <- OneLargePlain
  MaxTypos = 1
  TypoSymbol <- Symbol
  MaxCut = 0
INVARIANTS
  TyposRefused
CHECK_DEADLOCK FALSE
