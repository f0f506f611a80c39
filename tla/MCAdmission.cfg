SPECIFICATION Spec
CONSTANTS
  R = R
  M = M
  B = B
  C = C
  P = P
  F = F
  D = D
  K = K
  ann = ann
  bob = bob
  cat = cat
  NoEvent = NoEvent
  MaxBatch = 2
  Event <- MCEvent
  Author <- MCAuthor
  Body <- MCBody
  ObserveBatches <- MCObserveBatches
  UnobserveBatches <- RootsFirstBatches
INVARIANTS
  TypeOK
  AgreesWithOracle
  ForeignPatchByTrustOnly
  UndoRestores
