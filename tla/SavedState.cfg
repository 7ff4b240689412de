CONSTANTS
  Drive = {0, 1}
  Byte <- MCByte
  NUL <- MCNul
  MainOuts <- MCMainOuts
  SubPorts <- MCSubPorts
  SubBytes <- MCSubBytes
SPECIFICATION Spec
INVARIANTS TypeOK CopiesAgree
PROPERTY LoadRestores
