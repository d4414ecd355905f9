SPECIFICATION Spec
CONSTANTS
  r1 = r1
  r2 = r2
  oidc = oidc
  n1 = n1
  n2 = n2
  secret = secret
  k1 = k1
  k2 = k2
  Server = Server
  tool = tool
  Blank = Blank
  Mask = Mask
  NoKey = NoKey
  NoProvider = NoProvider
  NoFile = NoFile
  Garbled = Garbled
  Tools = {tool}
  Requests = {r1, r2}
  Sections = {oidc}
  Names = {n1, n2}
  Secrets = {secret}
  Keys = {k1, k2}
  Ports = {80, 65536}
  Installed <- MCInstalled
  MaxOps = 3
INVARIANTS
  TypeOK
  EncryptedAtRest
  ProvidersKept
  OneKey
  SealedReadable
SYMMETRY Symmetry
CHECK_DEADLOCK FALSE
