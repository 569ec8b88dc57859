SPECIFICATION QuoteSpec
CONSTANTS
  a = a  ann = ann  north = north  south = south  east = east  p1 = p1  None = None
  Tenants = {a}  Users = {ann}  Locations = {north, south}
  Groups = {g1}  Zones = {z1}  Tariffs = {x1}
  Plugs = {p1}  Stations = {east}
  Sessions = {s1}  Requests = {r1}
  LocationOwner <- TwoLocations
  StationOf <- OnePlugOf
  StationOwner <- OneOwner
  Roles <- OneUser
INVARIANT PricedByWhatApplied
