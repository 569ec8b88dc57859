------------------------------ MODULE Pricing ------------------------------
(***************************************************************************)
(* What a tenant's admins configure to price charging: customer groups,    *)
(* tariff zones, tariffs and the five link tables between them (the routes *)
(* customer-groups.ts, tariff-zones.ts and tariffs.ts over their           *)
(* repositories), and the two queries resolveApplicableTariff makes.       *)
(*                                                                         *)
(* A handler first looks its rows up by id and tenant, then writes one     *)
(* link.  The rows never change tenant and are never deleted, so what the  *)
(* check saw still holds at the write and a handler is one action.         *)
(***************************************************************************)
EXTENDS FiniteSets

CONSTANTS
  Tenants, Users, Locations, Groups, Zones, Tariffs,
  LocationOwner,   \* the tenant of each location
  None

ASSUME PricingAssumption ==
  /\ None \notin Tenants \cup Tariffs \cup Locations
  /\ LocationOwner \in [Locations -> Tenants]

VARIABLES
  owner,           \* tenant_id of each group, zone and tariff, None before it exists
  members,         \* user_customer_groups
  groupTariffs,    \* customer_group_tariffs
  groupZones,      \* customer_group_tariff_zones
  zoneLocations,   \* tariff_zone_locations
  zoneTariffs      \* tariff_zone_tariffs

pricingVars == <<owner, members, groupTariffs, groupZones, zoneLocations, zoneTariffs>>

Entities == Groups \cup Zones \cup Tariffs

PricingTypeOK ==
  /\ owner \in [Entities -> Tenants \cup {None}]
  /\ members \subseteq Users \X Groups
  /\ groupTariffs \subseteq Groups \X Tariffs
  /\ groupZones \subseteq Groups \X Zones
  /\ zoneLocations \subseteq Zones \X Locations
  /\ zoneTariffs \subseteq Zones \X Tariffs

PricingInit ==
  /\ owner = [e \in Entities |-> None]
  /\ members = {} /\ groupTariffs = {} /\ groupZones = {}
  /\ zoneLocations = {} /\ zoneTariffs = {}

-----------------------------------------------------------------------------
\* findCustomerGroupById, findTariffZoneById, findTariffById: by id and tenant.
Finds(a, e) == owner[e] = a

\* The insert of a new row with the admin's tenant_id.
Create(a, e) ==
  /\ owner[e] = None
  /\ owner' = [owner EXCEPT ![e] = a]
  /\ UNCHANGED <<members, groupTariffs, groupZones, zoneLocations, zoneTariffs>>

\* POST /customer-groups, /tariff-zones and /tariffs by an admin of tenant a.
CreateCustomerGroup(a, g) == Create(a, g)
CreateTariffZone(a, z)    == Create(a, z)
CreateTariff(a, p)        == Create(a, p)

\* POST and DELETE /customer-groups/:id/members.  Any user may be added.
ChangeMember(a, g, u) ==
  /\ Finds(a, g)
  /\ \/ members' = members \cup {<<u, g>>}
     \/ <<u, g>> \in members /\ members' = members \ {<<u, g>>}
  /\ UNCHANGED <<owner, groupTariffs, groupZones, zoneLocations, zoneTariffs>>

\* POST and DELETE /customer-groups/:id/tariffs.
ChangeGroupTariff(a, g, p) ==
  /\ Finds(a, g)
  /\ \/ Finds(a, p) /\ groupTariffs' = groupTariffs \cup {<<g, p>>}
     \/ <<g, p>> \in groupTariffs /\ groupTariffs' = groupTariffs \ {<<g, p>>}
  /\ UNCHANGED <<owner, members, groupZones, zoneLocations, zoneTariffs>>

\* POST and DELETE /customer-groups/:id/tariff-zones.  The zone has to exist
\* (a foreign key) but may be another tenant's.
ChangeGroupZone(a, g, z) ==
  /\ Finds(a, g)
  /\ \/ owner[z] # None /\ groupZones' = groupZones \cup {<<g, z>>}
     \/ <<g, z>> \in groupZones /\ groupZones' = groupZones \ {<<g, z>>}
  /\ UNCHANGED <<owner, members, groupTariffs, zoneLocations, zoneTariffs>>

\* POST and DELETE /tariff-zones/:id/locations.
ChangeZoneLocation(a, z, l) ==
  /\ Finds(a, z)
  /\ \/ LocationOwner[l] = a /\ zoneLocations' = zoneLocations \cup {<<z, l>>}
     \/ <<z, l>> \in zoneLocations /\ zoneLocations' = zoneLocations \ {<<z, l>>}
  /\ UNCHANGED <<owner, members, groupTariffs, groupZones, zoneTariffs>>

\* Mutant: the zone is looked up without its tenant.
ChangeZoneTariff_AnyTenant(a, z, p) ==
  /\ owner[z] # None
  /\ \/ Finds(a, p) /\ zoneTariffs' = zoneTariffs \cup {<<z, p>>}
     \/ <<z, p>> \in zoneTariffs /\ zoneTariffs' = zoneTariffs \ {<<z, p>>}
  /\ UNCHANGED <<owner, members, groupTariffs, groupZones, zoneLocations>>

\* POST and DELETE /tariff-zones/:id/tariffs.
ChangeZoneTariff(a, z, p) ==
  /\ Finds(a, z)
  /\ \/ Finds(a, p) /\ zoneTariffs' = zoneTariffs \cup {<<z, p>>}
     \/ <<z, p>> \in zoneTariffs /\ zoneTariffs' = zoneTariffs \ {<<z, p>>}
  /\ UNCHANGED <<owner, members, groupTariffs, groupZones, zoneLocations>>

\* What an admin of tenant a may do.
ConfiguredBy(a) ==
  \/ \E g \in Groups :
       \/ CreateCustomerGroup(a, g)
       \/ \E u \in Users : ChangeMember(a, g, u)
       \/ \E p \in Tariffs : ChangeGroupTariff(a, g, p)
       \/ \E z \in Zones : ChangeGroupZone(a, g, z)
  \/ \E z \in Zones :
       \/ CreateTariffZone(a, z)
       \/ \E l \in Locations : ChangeZoneLocation(a, z, l)
       \/ \E p \in Tariffs : ChangeZoneTariff(a, z, p)
  \/ \E p \in Tariffs : CreateTariff(a, p)

PricingNext == \E a \in Tenants : ConfiguredBy(a)

-----------------------------------------------------------------------------
(* resolveApplicableTariff                                                 *)

\* Its first query: tariffs of the user's groups in the tenant.
DirectTariffs(u, a) ==
  {p \in Tariffs : \E g \in Groups :
     <<u, g>> \in members /\ <<g, p>> \in groupTariffs /\ owner[g] = a}

\* Mutant: the zones are not restricted to the session's tenant.
ZoneTariffs_AnyTenant(u, a, l) ==
  {p \in Tariffs : \E g \in Groups, z \in Zones :
     /\ <<u, g>> \in members /\ <<g, z>> \in groupZones
     /\ <<z, l>> \in zoneLocations /\ <<z, p>> \in zoneTariffs}

\* Its second: tariffs of the tenant's zones that hold the location and that a
\* group of the user, of whatever tenant, has been given.
ZoneTariffs(u, a, l) ==
  {p \in Tariffs : \E g \in Groups, z \in Zones :
     /\ <<u, g>> \in members /\ <<g, z>> \in groupZones
     /\ <<z, l>> \in zoneLocations /\ <<z, p>> \in zoneTariffs
     /\ owner[z] = a}

\* Both queries in one state, and what they answer together: the tariffs that
\* apply, or None for a free session.
Quotes(u, a, l) == [direct |-> DirectTariffs(u, a), zone |-> ZoneTariffs(u, a, l)]

Applicable(q) ==
  IF q.direct # {} THEN q.direct ELSE IF q.zone # {} THEN q.zone ELSE {None}

-----------------------------------------------------------------------------
(* Properties                                                              *)

\* The tariffs that tenant a's zones put on a location.
Offered(a, l) ==
  {p \in Tariffs : \E z \in Zones :
     owner[z] = a /\ <<z, l>> \in zoneLocations /\ <<z, p>> \in zoneTariffs}

\* What an admin of one tenant can do to another's prices.  The tariffs of the other's
\* groups and zones stay as they are.  A zone, though, is given to a group by its id
\* alone and any user may be added to a group: the admin brings a user the other's
\* zone tariffs, or takes them away, through a group of its own that the user is in,
\* and in no other way.
OthersOnlyGrantZones ==
  [][\A b \in Tenants : ConfiguredBy(b) =>
       \A a \in Tenants \ {b}, u \in Users, l \in Locations :
         /\ DirectTariffs(u, a)' = DirectTariffs(u, a)
         /\ Offered(a, l)' = Offered(a, l)
         /\ ZoneTariffs(u, a, l)' # ZoneTariffs(u, a, l) =>
              \E g \in Groups : owner[g] = b /\ <<u, g>> \in members \cup members']_pricingVars
=============================================================================
