\* One start and one session of tenant a, while the admins of a and b create a
\* group, a zone and two tariffs and link them in every way they may.
SPECIFICATION Spec
CONSTANTS
  a = a  b = b  ann = ann  bob = bob  north = north  south = south
  east = east  west = west  p1 = p1  p2 = p2  None = None
  Tenants = {a, b}  Users = {ann}  Locations = {north, south}
  Groups = {g1}  Zones = {z1}  Tariffs = {x1, x2}
  Plugs = {p1}  Stations = {east}
  Sessions = {s1}  Requests = {r1}
  LocationOwner <- MCLocationOwner
  StationOf <- OnePlugOf
  StationOwner <- OneOwner
  Roles <- OneUser
INVARIANTS SessionPricedByItsTenant
PROPERTIES OthersOnlyGrantZones
