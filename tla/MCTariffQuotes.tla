-------------------------- MODULE MCTariffQuotes --------------------------
(* One tenant, one driver, one station, with a zone and a group; the station  *)
(* may move to a second location of the tenant.                               *)
EXTENDS TariffQuotes, TLC

CONSTANTS a, ann, north, south, east, p1

OneLocation == north :> a
TwoLocations == north :> a @@ south :> a
OnePlugOf   == p1 :> east
OneOwner    == east :> a
OneUser     == {<<ann, a>>}
=============================================================================
