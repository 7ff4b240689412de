SPECIFICATION Spec
CONSTANTS
  N = 3
  Type = {"off", "com", "tcp"}
  Kind <- MCKind
  MaxBytes = 5
INVARIANTS TypeOK BackendMatches InOrder
PROPERTIES ImplementsQueue LeftoversGoOut
