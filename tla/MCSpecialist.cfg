SPECIFICATION Spec
CONSTANTS
  None = None
  Domains = {"airquality", "thermal"}
  Manifest <- MCManifest
  SAMPLES <- MCSamples
  RecallTopK = 2
  CANDIDATE_TOP_K = 1
  FINAL_TOP_K = 1
  RRF_K = 60
  Branches = {"b1"}
  WarmUp = "warm"
  DomainOf <- MCDomainOf
  MaxSubQueries = 2
  MAX_REWRITES = 1
  PageSize = 2
  MaxIngests = 2
INVARIANTS
  TypeOK
  Serialised
  GroundedUnlessTorn
  PrefixOfOwnDocument
PROPERTIES
  OneStack
  ForeignOnlyWhenStale
  ContractSpec
  BranchesSettle
CHECK_DEADLOCK FALSE
