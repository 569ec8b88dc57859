---------------------------- MODULE MCInventory ----------------------------
(* One location of tenant a, a station of each tenant, two plugs on one of *)
(* them, and one read beside any number of changes.                        *)
EXTENDS Inventory, TLC

CONSTANTS a, b, north, east, west, p1, p2

MCLocationOwner == north :> a
MCStationOwner  == east :> a @@ west :> b
MCStationOf     == p1 :> east @@ p2 :> east
MCModels        == {<<"ccs", 150>>}
MCPaging        == {<<1, 0>>, <<1, 1>>}

Symmetry == Permutations(Plugs)
============================================================================
