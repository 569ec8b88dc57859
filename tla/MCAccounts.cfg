\* Three calls, in any order and overlap, from the seeded tables.
SPECIFICATION FairSpec
CONSTANTS
  ann = ann  bob = bob  cy = cy  dan = dan  root = root  a = a  b = b
  e1 = e1  e2 = e2  e3 = e3  e4 = e4  p = p  q = q  None = None
  Users = {ann, bob, cy, dan, root}  SuperAdmins = {root}
  Emails = {e1, e2, e3, e4}  Passwords = {p, q}  Tenants = {a, b}
  Requests = {r1, r2, r3}
  SeedTenants = {a}
  SeedEmail <- MCSeedEmail
  SeedPassword <- MCSeedPassword
  SeedRole <- MCSeedRole
INVARIANTS AccountsTypeOK AccountsHaveTenants OneAccountPerEmail TokensServe
PROPERTIES PasswordsReplacedAsVerified RolesChangedByAdmins LastAdminLostOnlyByOverlap
  ImplementsDirectory EveryCallEnds
\* Every call has ended: each request is one call.
CHECK_DEADLOCK FALSE
