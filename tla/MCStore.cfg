SPECIFICATION Spec
CONSTANTS
  R = R
  S = S
  P = P
  Q = Q
  F = F
  G = G
  X = X
  B = B
  N = N
  D = D
  ann = ann
  bob = bob
  NoEvent = NoEvent
  Event = {R, P, Q, S, F, D, B, N}
  Author <- MCAuthor
  Body <- ChainBody
  Content <- MCContent
  RootContent <- MCRootContent
  Effect <- MCEffect
  ObserveBatches <- Singles
  UnobserveBatches <- Some
  TrustBatches <- EachAuthor
INVARIANTS
  MemoFresh
  DeletedNeverApplied
  ViewShowsTrustedOverlays
PROPERTIES
  HistoryIsKept
