SPECIFICATION Spec
CONSTANTS
  R = R
  S = S
  P = P
  Q = Q
  F = F
  G = G
  X = X
  B = B
  N = N
  D = D
  ann = ann
  bob = bob
  NoEvent = NoEvent
  Event = {R, P, Q, F, G, X, D}
  Author <- MCAuthor
  Body <- VerdictBody
  Content <- MCContent
  RootContent <- MCRootContent
  Effect <- MCEffect
  ObserveBatches <- UpToTwo
  UnobserveBatches <- OneByOne
  TrustBatches = {}
INVARIANTS
  BatchOrderIrrelevant
  VerdictsComplete
  VerdictsPermanent
