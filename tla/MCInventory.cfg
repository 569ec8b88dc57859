\* One read beside any changes of one location, two stations and two plugs.
SPECIFICATION Spec
CONSTANTS
  a = a  b = b  north = north  east = east  west = west  p1 = p1  p2 = p2  None = None
  Tenants = {a, b}  Users = {ann}  Locations = {north}
  Stations = {east, west}  Plugs = {p1, p2}  Requests = {r1}
  LocationOwner <- MCLocationOwner
  StationOwner <- MCStationOwner
  StationOf <- MCStationOf
  Models <- MCModels
  StationStatus = {"active"}  PlugStatus = {"available"}
  Paging <- MCPaging
SYMMETRY Symmetry
INVARIANTS InventoryTypeOK AnswersMissNothing AnswersWereTrue SummariesExact
