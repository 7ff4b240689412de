CONSTANTS
  Drive = {0, 1}
  Track = {0}
  SectorsPerSide = 1
  SystemRecords = 3
  Data = {x, y}
  Images <- MCImages
  TransferErrors = TRUE
  CarefulUser = TRUE
SPECIFICATION Spec
INVARIANTS TypeOK CacheCoherent
PROPERTIES WriteIsLocal SoundReadsAreTrue ImplementsRecords
SYMMETRY DataSymmetry
