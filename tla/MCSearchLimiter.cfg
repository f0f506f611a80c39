SPECIFICATION LimiterFairSpec
CONSTANTS
  UNSET = UNSET
  BAD = BAD
  CanonicalTags = {"scrutiny-fabric"}
  Twins <- MCTwins
  Loopback = {"127.0.0.1"}
  MaxPast = 2
  MaxFuture = 1
  MaxContent = 2
  MaxIndexableTags = 2
  MaxFilterAuthors = 0
  MaxFilterIDs = 0
  MaxFilterTagValues = 0
  Env <- MCEnv
  Client = {"tunnelled", "proxied", "direct"}
  PeerOf <- MCPeerOf
  ClaimsOf <- MCClaimsOf
  Filter <- MCFilter
  Handler = {h1, h2}
  NoClient = "nobody"
  Ceiling = 2
  Burst = 1
  Rate = 1
  MaxStale = 1
INVARIANT BudgetHolds
PROPERTY LoneClientIsServed
CHECK_DEADLOCK FALSE
