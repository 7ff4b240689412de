CONSTANTS
  FIFO_SIZE = 4
  Code <- MCCode
  Data <- MCData
  Fixed <- MCFixed
  kana_from_vk <- MCKana
  ascii_from_vk <- MCAscii
  ctrl_from_vk <- MCCtrl
SPECIFICATION Spec
INVARIANTS TypeOK RingConsistent ReadyStays
PROPERTIES ImplementsQueue ConinReturns
