CONSTANTS
  a = a
  b = b
  nul = nul
  Byte = {a, b, nul}
  NUL = nul
  Texts <- MCTexts
  MaxSent = 4
SPECIFICATION Spec
INVARIANTS TypeOK InOrder
PROPERTIES ImplementsChannel ConoutReturns
