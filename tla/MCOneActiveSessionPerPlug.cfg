SPECIFICATION Spec
CONSTANTS
  a = a  b = b  ann = ann  bob = bob  north = north  south = south
  east = east  west = west  p1 = p1  p2 = p2  None = None
  Tenants = {a}  Users = {ann, bob}  Locations = {north}
  Groups = {}  Zones = {}  Tariffs = {}
  Plugs = {p1}  Stations = {east}
  Sessions = {s1, s2}  Requests = {r1, r2}
  LocationOwner <- OneLocation
  StationOf <- OnePlugOf
  StationOwner <- OneOwner
  Roles <- OneTenant
INVARIANT OneActiveSessionPerPlug
