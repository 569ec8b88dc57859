SPECIFICATION Spec
CONSTANTS
  a = a  b = b  ann = ann  bob = bob  north = north  south = south
  east = east  west = west  p1 = p1  p2 = p2  None = None
  Tenants = {a, b}  Users = {ann, bob}  Locations = {north, south}
  Groups = {}  Zones = {}  Tariffs = {}
  Plugs = {p1, p2}  Stations = {east, west}
  Sessions = {s1}  Requests = {r1}
  LocationOwner <- MCLocationOwner
  StationOf <- MCStationOf
  StationOwner <- MCStationOwner
  Roles <- MCRoles
INVARIANT PlugOfTenant
