CONSTANTS
  Params = {3, 255}
  SgrParams = {0, 7, 27, 31}
  GdcBytes = {0, 171}
  Glyphs = {65}
  Noise <- MCNoise
SPECIFICATION ParserSpec
INVARIANTS ParserTypeOK SequencesMean CarriageReturnEnds
