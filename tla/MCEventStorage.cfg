SPECIFICATION StorageSpec
CONSTANTS
  a1 = a1
  a2 = a2
  b1 = b1
  b2 = b2
  d1 = d1
  d2 = d2
  k1 = k1
  a = a
  b = b
  d = d
  k = k
  ann = ann
  bob = bob
  Copy <- MCCopy
  Fields <- MCFields
  Id = {a, b, d, k}
  Pubkey = {ann, bob}
  Kind = {1, 5}
  TagValue = {"fabric", "product", "patch", "cpe"}
  Deletion = 5
  TypeTags = {"product", "patch"}
  Filter <- MCFilter
  NoKey = NoKey
  NoCache = NoCache
INVARIANTS
  QueryIsExact
