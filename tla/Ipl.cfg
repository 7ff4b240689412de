CONSTANTS
  good = good
  other = other
  bad = bad
  none = none
  Drive = {0, 1}
  SectorsPerSide = 1
  CPM_LOAD_SECTORS = 4
  GoodDisk = {good, other}
  BadDisk = {bad}
  NoDisk = none
SPECIFICATION Spec
INVARIANTS TypeOK CodeIsThere PageZeroIsCpm ImageIsWhole
PROPERTY BootCompletes
