SPECIFICATION Spec
CONSTANTS
  n1 = n1
  n2 = n2
  r1 = r1
  r2 = r2
  h1 = h1
  h2 = h2
  H1 = H1
  Normal <- MCNormal
  o1 = o1
  o2 = o2
  NoName = NoName
  NoOwner = NoOwner
  Nodes = {n1}
  Requests = {r1, r2}
  NodeOf <- MCOneNode
  Names = {h1}
  Reserved = {}
  Owners = {o1, o2}
  MaxId = 3
  Limit = 1
  CacheTTL = 1
  VerificationTTL = 0
  Restarts = FALSE
  Retries = TRUE
INVARIANTS
  TypeOK
  VerifiedOnlyByProof
  ServedOnlyProved
PROPERTIES
  ClaimsKept
  SerialChangesAtOnce
  SerialForgetsNone
