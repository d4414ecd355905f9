SPECIFICATION Spec
CONSTANTS
  r1 = r1
  r2 = r2
  c1 = c1
  c2 = c2
  alice = alice
  bob = bob
  u1 = u1
  u2 = u2
  secret = secret
  Admin = Admin
  NoCode = NoCode
  NoOwner = NoOwner
  NoPassword = NoPassword
  NoColumns = NoColumns
  Never = Never
  Requests = {r1, r2}
  Codes = {c1}
  Owners = {alice, bob}
  Urls = {u1}
  Passwords = {secret}
  Lifetimes = {0}
  Zone = 0
  MaxId = 2
  Workers = 1
  MaxFollows = 1
INVARIANTS
  TypeOK
PROPERTIES
  OwnerOrFormerOwner
  LostOnlyToOverlap
  RedirectsChecked
SYMMETRY Symmetry
