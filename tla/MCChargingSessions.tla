------------------------ MODULE MCChargingSessions ------------------------
(* Small instances of ChargingSessions.                                    *)
EXTENDS ChargingSessions, TLC

CONSTANTS a, b, ann, bob, north, south, east, west, p1, p2

\* A group, a zone and two tariffs, or nothing to be priced by.
MCLocationOwner == north :> a @@ south :> b
MCStationOf     == p1 :> east @@ p2 :> west
MCStationOwner  == east :> a @@ west :> b
MCRoles         == {<<ann, a>>, <<bob, b>>}

\* Two drivers of one tenant and one of another.
OnePlugOf    == p1 :> east
OneOwner     == east :> a
OneLocation  == north :> a
OneTenant    == {<<ann, a>>, <<bob, a>>}

OneUser      == {<<ann, a>>}

Symmetry == Permutations(Sessions) \cup Permutations(Requests)
=============================================================================
