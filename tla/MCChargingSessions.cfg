\* Three handlers, two drivers and three sessions on one plug; no prices.
SPECIFICATION Spec
CONSTANTS
  a = a  b = b  ann = ann  bob = bob  north = north  south = south
  east = east  west = west  p1 = p1  p2 = p2  None = None
  Tenants = {a}  Users = {ann, bob}  Locations = {north}
  Groups = {}  Zones = {}  Tariffs = {}
  Plugs = {p1}  Stations = {east}
  Sessions = {s1, s2, s3}  Requests = {r1, r2, r3}
  LocationOwner <- OneLocation
  StationOf <- OnePlugOf
  StationOwner <- OneOwner
  Roles <- OneTenant
SYMMETRY Symmetry
INVARIANTS SessionTypeOK EndedOnce DoubleStartOnlyByRace
PROPERTY NoStartAfterRemoval
