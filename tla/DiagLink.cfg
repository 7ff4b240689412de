CONSTANTS
  NUL = nul
  ESC = esc
  G = g
  T = t
  Byte = {nul, esc, g, t}
  SubText <- MCSubText
  MaxAsked = 5
SPECIFICATION Spec
INVARIANTS TypeOK SequenceIsBacked
PROPERTIES ImplementsChannel CommandReturns
