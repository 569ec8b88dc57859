---------------------- MODULE ChargingSessionsProofs ----------------------
(***************************************************************************)
(* What TLAPS proves of ChargingSessions, for any tenants, users, plugs,   *)
(* prices and number of concurrent requests.                               *)
(***************************************************************************)
EXTENDS ChargingSessions, TLAPS

-----------------------------------------------------------------------------
(* The admins' changes                                                     *)

\* Tariffs are linked to groups and zones of their own tenant.  Nothing of the kind is
\* true of groupZones.
TariffsStayInTenant ==
  /\ \A g \in Groups, p \in Tariffs :
       <<g, p>> \in groupTariffs => owner[g] # None /\ owner[g] = owner[p]
  /\ \A z \in Zones, p \in Tariffs :
       <<z, p>> \in zoneTariffs => owner[z] # None /\ owner[z] = owner[p]

\* The tariff a start has in hand belongs to the tenant it acts in.
PricedInHand ==
  \A r \in Requests : call[r].tariff # None => owner[call[r].tariff] = call[r].tenant

\* What the start of r saw on its plug is over, and so it stays.
SeenAreOver ==
  \A r \in Requests : \A s \in call[r].seen :
    Exists(s) /\ (row[s].plug = call[r].plug => row[s].status = "completed")

\* The same of the sessions that existed when t's start checked the plug.
EarlierAreOver ==
  \A t \in Sessions : \A s \in after[t] :
    Exists(s) /\ (row[s].plug = row[t].plug => row[s].status = "completed")

\* A start whose plug had been removed when it came has not got past the lookup, and
\* the plug stays removed.
GoneIsNotFound ==
  \A r \in Requests : call[r].gone => At(r, "plug") /\ call[r].plug \in removed

\* The inductive invariant.
IInv ==
  /\ SessionTypeOK
  /\ TariffsStayInTenant
  /\ PricedInHand /\ SessionPricedByItsTenant
  /\ EndedOnce
  /\ SeenAreOver /\ EarlierAreOver
  /\ GoneIsNotFound

-----------------------------------------------------------------------------
\* A group, zone or tariff never changes tenant.
LEMMA OwnersStay ==
  ASSUME PricingTypeOK, PricingNext, NEW e \in Entities, owner[e] # None
  PROVE  owner'[e] = owner[e]
BY DEF PricingTypeOK, PricingNext, ConfiguredBy, CreateCustomerGroup, CreateTariffZone,
       CreateTariff, Create, ChangeMember, ChangeGroupTariff, ChangeGroupZone, ChangeZoneLocation, ChangeZoneTariff

\* The admins' handlers keep the types of the tables.
LEMMA PricingTypes ==
  ASSUME PricingTypeOK, PricingNext
  PROVE  PricingTypeOK'
<1> USE DEF PricingTypeOK
<1>1. ASSUME NEW a \in Tenants, NEW e \in Entities, Create(a, e)  PROVE PricingTypeOK'
  BY <1>1 DEF Create
<1>2. ASSUME NEW a \in Tenants, NEW g \in Groups, NEW u \in Users, ChangeMember(a, g, u)
      PROVE  PricingTypeOK'
  BY <1>2 DEF ChangeMember
<1>3. ASSUME NEW a \in Tenants, NEW g \in Groups, NEW p \in Tariffs, ChangeGroupTariff(a, g, p)
      PROVE  PricingTypeOK'
  BY <1>3 DEF ChangeGroupTariff
<1>4. ASSUME NEW a \in Tenants, NEW g \in Groups, NEW z \in Zones, ChangeGroupZone(a, g, z)
      PROVE  PricingTypeOK'
  BY <1>4 DEF ChangeGroupZone
<1>5. ASSUME NEW a \in Tenants, NEW z \in Zones, NEW l \in Locations, ChangeZoneLocation(a, z, l)
      PROVE  PricingTypeOK'
  BY <1>5 DEF ChangeZoneLocation
<1>6. ASSUME NEW a \in Tenants, NEW z \in Zones, NEW p \in Tariffs, ChangeZoneTariff(a, z, p)
      PROVE  PricingTypeOK'
  BY <1>6 DEF ChangeZoneTariff
<1>7. QED
  BY <1>1, <1>2, <1>3, <1>4, <1>5, <1>6
     DEF PricingNext, ConfiguredBy, CreateCustomerGroup, CreateTariffZone, CreateTariff, Entities

\* No admin's handler links a tariff to another tenant's group or zone.
LEMMA LinksStay ==
  ASSUME PricingTypeOK, TariffsStayInTenant, PricingNext
  PROVE  TariffsStayInTenant'
<1>1. ASSUME NEW g \in Groups, NEW p \in Tariffs, <<g, p>> \in groupTariffs'
      PROVE  owner'[g] # None /\ owner'[g] = owner'[p]
  <2>1. CASE <<g, p>> \in groupTariffs
    BY <2>1, OwnersStay DEF TariffsStayInTenant, Entities
  <2>2. CASE <<g, p>> \notin groupTariffs
    <3>1. groupTariffs' # groupTariffs
      BY <1>1, <2>2
    <3>2. PICK a \in Tenants, g1 \in Groups, p1 \in Tariffs : ChangeGroupTariff(a, g1, p1)
      BY <3>1 DEF PricingNext, ConfiguredBy, CreateCustomerGroup, CreateTariffZone,
                  CreateTariff, Create, ChangeMember, ChangeGroupZone,
                  ChangeZoneLocation, ChangeZoneTariff
    <3>3. g = g1 /\ p = p1
      BY <1>1, <2>2, <3>2 DEF ChangeGroupTariff
    <3>4. QED
      BY <1>1, <2>2, <3>2, <3>3, PricingAssumption DEF ChangeGroupTariff, Finds
  <2>3. QED
    BY <2>1, <2>2
<1>2. ASSUME NEW z \in Zones, NEW p \in Tariffs, <<z, p>> \in zoneTariffs'
      PROVE  owner'[z] # None /\ owner'[z] = owner'[p]
  <2>1. CASE <<z, p>> \in zoneTariffs
    BY <2>1, OwnersStay DEF TariffsStayInTenant, Entities
  <2>2. CASE <<z, p>> \notin zoneTariffs
    <3>1. zoneTariffs' # zoneTariffs
      BY <1>2, <2>2
    <3>2. PICK a \in Tenants, z1 \in Zones, p1 \in Tariffs : ChangeZoneTariff(a, z1, p1)
      BY <3>1 DEF PricingNext, ConfiguredBy, CreateCustomerGroup, CreateTariffZone,
                  CreateTariff, Create, ChangeMember, ChangeGroupTariff,
                  ChangeGroupZone, ChangeZoneLocation
    <3>3. z = z1 /\ p = p1
      BY <1>2, <2>2, <3>2 DEF ChangeZoneTariff
    <3>4. QED
      BY <1>2, <2>2, <3>2, <3>3, PricingAssumption DEF ChangeZoneTariff, Finds
  <2>3. QED
    BY <2>1, <2>2
<1>3. QED
  BY <1>1, <1>2 DEF TariffsStayInTenant

\* What an admin of b leaves of the prices of a.
LEMMA OthersPricesStay ==
  ASSUME PricingTypeOK, NEW b \in Tenants, ConfiguredBy(b),
         NEW a \in Tenants \ {b}, NEW u \in Users, NEW l \in Locations
  PROVE  /\ DirectTariffs(u, a)' = DirectTariffs(u, a)
         /\ Offered(a, l)' = Offered(a, l)
         /\ ZoneTariffs(u, a, l)' # ZoneTariffs(u, a, l) =>
              \E g \in Groups : owner[g] = b /\ <<u, g>> \in members \cup members'
<1> DEFINE Goal == /\ DirectTariffs(u, a)' = DirectTariffs(u, a)
                   /\ Offered(a, l)' = Offered(a, l)
                   /\ ZoneTariffs(u, a, l)' # ZoneTariffs(u, a, l) =>
                        \E g \in Groups : owner[g] = b /\ <<u, g>> \in members \cup members'
<1> USE DEF DirectTariffs, Offered, ZoneTariffs, Finds
<1>1. ASSUME NEW e \in Entities, Create(b, e) PROVE Goal
  <2>1. \A f \in Entities : owner'[f] = a <=> owner[f] = a
    BY <1>1, PricingAssumption DEF Create, PricingTypeOK
  <2> QED BY <1>1, <2>1 DEF Create, Entities
<1>2. ASSUME NEW g \in Groups, NEW v \in Users, ChangeMember(b, g, v) PROVE Goal
  <2>1. owner[g] = b /\ UNCHANGED <<owner, groupTariffs, groupZones, zoneLocations, zoneTariffs>>
    BY <1>2 DEF ChangeMember
  <2>2. \A h \in Groups : h # g => (<<u, h>> \in members' <=> <<u, h>> \in members)
    BY <1>2 DEF ChangeMember
  <2>3. DirectTariffs(u, a)' = DirectTariffs(u, a)
    BY <2>1, <2>2
  <2>4. <<u, g>> \notin members \cup members' => ZoneTariffs(u, a, l)' = ZoneTariffs(u, a, l)
    BY <2>1, <2>2
  <2> QED BY <2>1, <2>3, <2>4
<1>3. ASSUME NEW g \in Groups, NEW p \in Tariffs, ChangeGroupTariff(b, g, p) PROVE Goal
  <2>1. \A h \in Groups, q \in Tariffs :
          owner[h] = a => (<<h, q>> \in groupTariffs' <=> <<h, q>> \in groupTariffs)
    BY <1>3 DEF ChangeGroupTariff
  <2> QED BY <1>3, <2>1 DEF ChangeGroupTariff
<1>4. ASSUME NEW g \in Groups, NEW z \in Zones, ChangeGroupZone(b, g, z) PROVE Goal
  <2>1. UNCHANGED <<owner, members, groupTariffs, zoneLocations, zoneTariffs>> /\ owner[g] = b
    BY <1>4 DEF ChangeGroupZone
  <2>2. \A h \in Groups, y \in Zones :
          h # g => (<<h, y>> \in groupZones' <=> <<h, y>> \in groupZones)
    BY <1>4 DEF ChangeGroupZone
  <2>3. <<u, g>> \notin members => ZoneTariffs(u, a, l)' = ZoneTariffs(u, a, l)
    BY <2>1, <2>2
  <2> QED BY <2>1, <2>3
<1>5. ASSUME NEW z \in Zones, NEW k \in Locations, ChangeZoneLocation(b, z, k) PROVE Goal
  <2>1. \A y \in Zones :
          owner[y] = a => (<<y, l>> \in zoneLocations' <=> <<y, l>> \in zoneLocations)
    BY <1>5 DEF ChangeZoneLocation
  <2> QED BY <1>5, <2>1 DEF ChangeZoneLocation
<1>6. ASSUME NEW z \in Zones, NEW p \in Tariffs, ChangeZoneTariff(b, z, p) PROVE Goal
  <2>1. \A y \in Zones, q \in Tariffs :
          owner[y] = a => (<<y, q>> \in zoneTariffs' <=> <<y, q>> \in zoneTariffs)
    BY <1>6 DEF ChangeZoneTariff
  <2> QED BY <1>6, <2>1 DEF ChangeZoneTariff
<1> HIDE DEF Goal
<1>7. Goal
  BY <1>1, <1>2, <1>3, <1>4, <1>5, <1>6
     DEF ConfiguredBy, CreateCustomerGroup, CreateTariffZone, CreateTariff, Entities
<1> QED BY <1>7 DEF Goal

-----------------------------------------------------------------------------
(* The handlers                                                            *)

\* The invariant holds initially.
LEMMA InitIInv == Init => IInv
<1>1. ASSUME Init PROVE PricingTypeOK /\ TariffsStayInTenant
  BY <1>1 DEF Init, PricingInit, PricingTypeOK, TariffsStayInTenant
<1>2. ASSUME Init PROVE SessionTypeOK
  BY <1>1, <1>2 DEF Init, SessionTypeOK, Rows, NoRow, Calls, NoCall, Labels, Exists, Starting
<1>3. QED
  BY <1>1, <1>2 DEF IInv, Init, PricedInHand, SessionPricedByItsTenant, EndedOnce, SeenAreOver,
                    EarlierAreOver, GoneIsNotFound, NoRow, NoCall

\* A handler that returns leaves nothing behind.
LEMMA LeaveIInv ==
  ASSUME IInv, NEW r \in Requests, Leave(r),
         UNCHANGED <<pricingVars, location, removed, row, endings, after>>
  PROVE  IInv'
<1>1. SessionTypeOK'
  BY DEF IInv, Leave, SessionTypeOK, PricingTypeOK, pricingVars, Calls, NoCall, Labels, Exists, Starting
<1>2. QED
  BY <1>1 DEF IInv, Leave, NoCall, SessionTypeOK, pricingVars, TariffsStayInTenant, PricedInHand,
              SessionPricedByItsTenant, EndedOnce, SeenAreOver, EarlierAreOver, Exists,
              GoneIsNotFound, At

\* What a handler in progress has in hand.
CallOK(c) ==
  /\ c \in Calls /\ c.at # "idle" /\ <<c.user, c.tenant>> \in Roles
  /\ c.at \in Starting => c.plug \in Plugs
  /\ c.at \in {"direct", "zone"} => c.loc \in Locations
  /\ c.at = "check" => c.session \in Sessions
  /\ c.at = "end" => c.session \in Sessions /\ Exists(c.session)
  /\ c.tariff # None => owner[c.tariff] = c.tenant
  /\ \A s \in c.seen : Exists(s) /\ (row[s].plug = c.plug => row[s].status = "completed")
  /\ c.gone => c.at = "plug" /\ c.plug \in removed

\* The invariant says so of every handler in progress.
LEMMA CallsAreOK ==
  ASSUME IInv, NEW r \in Requests, ~At(r, "idle")
  PROVE  CallOK(call[r])
BY DEF IInv, At, CallOK, SessionTypeOK, PricedInHand, SeenAreOver, GoneIsNotFound

\* A handler that goes on to the next query, changing no table.
LEMMA GoOnIInv ==
  ASSUME IInv, NEW r \in Requests, NEW c, CallOK(c), call' = [call EXCEPT ![r] = c],
         UNCHANGED <<pricingVars, location, removed, row, endings, after>>
  PROVE  IInv'
<1>1. SessionTypeOK'
  BY DEF CallOK, IInv, SessionTypeOK, PricingTypeOK, pricingVars, Exists
<1>2. PricedInHand' /\ SeenAreOver' /\ GoneIsNotFound'
  BY DEF CallOK, IInv, SessionTypeOK, pricingVars, PricedInHand, SeenAreOver, GoneIsNotFound, At,
         Exists
<1>3. QED
  BY <1>1, <1>2 DEF IInv, pricingVars, TariffsStayInTenant, SessionPricedByItsTenant, EndedOnce,
                    EarlierAreOver, Exists

\* A call begins with nothing read yet.
LEMMA NewStart ==
  ASSUME NEW m \in Roles, NEW p \in Plugs
  PROVE  CallOK([NoCall EXCEPT !.at = "plug", !.user = m[1], !.tenant = m[2], !.plug = p,
                               !.gone = p \in removed])
<1>1. m = <<m[1], m[2]>> /\ m[1] \in Users /\ m[2] \in Tenants
  BY SessionsAssumption
<1>2. CASE p \in removed
  <2>1. (p \in removed) = TRUE
    BY <1>2
  <2>2. CallOK([NoCall EXCEPT !.at = "plug", !.user = m[1], !.tenant = m[2], !.plug = p,
                              !.gone = TRUE])
    BY <1>1, <1>2 DEF CallOK, NoCall, Calls, Labels, Starting
  <2> QED
    BY <2>1, <2>2, Zenon
<1>3. CASE p \notin removed
  <2>1. (p \in removed) = FALSE
    BY <1>3
  <2>2. CallOK([NoCall EXCEPT !.at = "plug", !.user = m[1], !.tenant = m[2], !.plug = p,
                              !.gone = FALSE])
    BY <1>1 DEF CallOK, NoCall, Calls, Labels, Starting
  <2> QED
    BY <2>1, <2>2, Zenon
<1> QED
  BY <1>2, <1>3

\* So does the call that ends a session.
LEMMA NewEnd ==
  ASSUME NEW m \in Roles, NEW s \in Sessions
  PROVE  CallOK([NoCall EXCEPT !.at = "check", !.user = m[1], !.tenant = m[2], !.session = s])
<1>1. m = <<m[1], m[2]>> /\ m[1] \in Users /\ m[2] \in Tenants
  BY SessionsAssumption
<1>2. QED
  BY <1>1 DEF CallOK, NoCall, Calls, Labels, Starting

\* The steps of a handler before its write.
LEMMA QueryIInv ==
  ASSUME IInv, NEW r \in Requests,
         \/ Start(r) \/ FindPlug(r) \/ FindActive(r) \/ FindStation(r)
         \/ FindDirect(r) \/ FindZone(r) \/ End(r) \/ CheckSession(r)
  PROVE  IInv'
<1> DEFINE c == call[r]
<1>0. UNCHANGED <<pricingVars, location, removed, row, endings, after>>
  BY DEF Start, FindPlug, FindActive, FindStation, FindDirect, FindZone, End, CheckSession
<1>a. ASSUME Leave(r) PROVE IInv'
  BY <1>0, <1>a, LeaveIInv
<1>b. ASSUME NEW d, CallOK(d), call' = [call EXCEPT ![r] = d] PROVE IInv'
  BY <1>0, <1>b, GoOnIInv
<1>c. ASSUME ~At(r, "idle") PROVE CallOK(c)
  BY <1>c, CallsAreOK
<1>d. call = [q \in Requests |-> call[q]]
  BY DEF IInv, SessionTypeOK
<1>1. CASE Start(r)
  BY <1>1, <1>b, NewStart DEF Start
<1>2. CASE FindPlug(r)
  <2>1. CASE c.plug \in removed
    BY <1>2, <1>a, <2>1 DEF FindPlug
  <2>2. CASE c.plug \notin removed
    <3>1. CallOK([c EXCEPT !.at = "busy"])
      BY <1>2, <1>c, <2>2 DEF FindPlug, At, CallOK, Calls, Labels, Starting
    <3>2. call' = [call EXCEPT ![r] = [c EXCEPT !.at = "busy"]]
      BY <1>2, <2>2 DEF FindPlug, Goto
    <3>3. QED
      BY <1>b, <3>1, <3>2
  <2>3. QED
    BY <2>1, <2>2
<1>3. CASE FindActive(r)
  <2> DEFINE d == [c EXCEPT !.at = "station", !.seen = {s \in Sessions : Exists(s)}]
  <2>1. CASE \E s \in Sessions : Active(s) /\ row[s].plug = call[r].plug
    BY <1>a, <1>3, <2>1 DEF FindActive
  <2>2. CASE ~ \E s \in Sessions : Active(s) /\ row[s].plug = call[r].plug
    <3>1. call' = [call EXCEPT ![r] = d]
      BY <1>3, <1>d, <2>2 DEF FindActive
    <3>2. CallOK(c)
      BY <1>3, <1>c DEF FindActive, At
    <3>3. \A s \in Sessions : row[s].status \in {"none", "active", "completed"}
      BY DEF IInv, SessionTypeOK, Rows
    <3>4. CallOK(d)
      <4>1. \A s \in d.seen : Exists(s) /\ (row[s].plug = d.plug => row[s].status = "completed")
        BY <2>2, <3>2, <3>3 DEF CallOK, Calls, Active, Exists
      <4>2. d \in Calls
        BY <3>2 DEF CallOK, Calls, Labels
      <4>3. QED
        BY <1>3, <3>2, <4>1, <4>2 DEF CallOK, Calls, Starting, FindActive, At
    <3>5. QED
      BY <1>b, <3>1, <3>4
  <2>3. QED
    BY <2>1, <2>2
<1>4. CASE FindStation(r)
  <2> DEFINE t == StationOf[c.plug]
             d == [c EXCEPT !.loc = location[t], !.at = "direct"]
             e == [c EXCEPT !.at = "insert"]
  <2>1. CallOK(c) /\ c.plug \in Plugs /\ c.at = "station"
    BY <1>4, <1>c DEF FindStation, At, CallOK, Starting
  <2>2. CallOK(e)
    BY <2>1 DEF CallOK, Calls, Labels, Starting
  <2>3. ASSUME location[t] # None PROVE CallOK(d)
    <3>1. location[t] \in Locations
      BY <2>1, <2>3, SessionsAssumption DEF IInv, SessionTypeOK
    <3>2. QED
      BY <2>1, <3>1 DEF CallOK, Calls, Labels, Starting
  <2>4. \/ location[t] # None /\ call' = [call EXCEPT ![r] = d]
        \/ call' = [call EXCEPT ![r] = e]
    BY <1>4, <1>d DEF FindStation, Goto
  <2>5. QED
    BY <1>b, <2>2, <2>3, <2>4
<1>5. CASE FindDirect(r)
  <2> DEFINE d(p) == [c EXCEPT !.tariff = p, !.at = "insert"]
             e == [c EXCEPT !.at = "zone"]
  <2>1. CallOK(c) /\ c.at = "direct"
    BY <1>5, <1>c DEF FindDirect, At
  <2>2. CallOK(e)
    BY <2>1 DEF CallOK, Calls, Labels, Starting
  <2>3. ASSUME NEW p \in DirectTariffs(c.user, c.tenant) PROVE CallOK(d(p))
    <3>1. p \in Tariffs /\ owner[p] = c.tenant
      BY DEF DirectTariffs, IInv, TariffsStayInTenant
    <3>2. QED
      BY <2>1, <3>1 DEF CallOK, Calls, Labels, Starting
  <2>4. \/ call' = [call EXCEPT ![r] = e]
        \/ \E p \in DirectTariffs(c.user, c.tenant) : call' = [call EXCEPT ![r] = d(p)]
    BY <1>5, <1>d DEF FindDirect, Goto
  <2>5. QED
    BY <1>b, <2>2, <2>3, <2>4
<1>6. CASE FindZone(r)
  <2> DEFINE d(p) == [c EXCEPT !.tariff = p, !.at = "insert"]
             e == [c EXCEPT !.at = "insert"]
  <2>1. CallOK(c) /\ c.at = "zone"
    BY <1>6, <1>c DEF FindZone, At
  <2>2. CallOK(e)
    BY <2>1 DEF CallOK, Calls, Labels, Starting
  <2>3. ASSUME NEW p \in ZoneTariffs(c.user, c.tenant, c.loc) PROVE CallOK(d(p))
    <3>1. p \in Tariffs /\ owner[p] = c.tenant
      BY DEF ZoneTariffs, IInv, TariffsStayInTenant
    <3>2. QED
      BY <2>1, <3>1 DEF CallOK, Calls, Labels, Starting
  <2>4. \/ call' = [call EXCEPT ![r] = e]
        \/ \E p \in ZoneTariffs(c.user, c.tenant, c.loc) : call' = [call EXCEPT ![r] = d(p)]
    BY <1>6, <1>d DEF FindZone, Goto
  <2>5. QED
    BY <1>b, <2>2, <2>3, <2>4
<1>7. CASE End(r)
  BY <1>7, <1>b, NewEnd DEF End
<1>8. CASE CheckSession(r)
  <2> DEFINE e == [c EXCEPT !.at = "end"]
  <2>1. CallOK(c) /\ c.at = "check"
    BY <1>8, <1>c DEF CheckSession, At
  <2>2. ASSUME Active(c.session) PROVE CallOK(e)
    BY <2>1, <2>2 DEF CallOK, Calls, Labels, Starting, Active, Exists
  <2>3. Leave(r) \/ (Active(c.session) /\ call' = [call EXCEPT ![r] = e])
    BY <1>8, <1>d DEF CheckSession, Goto
  <2>4. QED
    BY <1>a, <1>b, <2>2, <2>3
<1>9. QED
  BY <1>1, <1>2, <1>3, <1>4, <1>5, <1>6, <1>7, <1>8

\* The insert of a session, priced and checked by the steps before it.
LEMMA InsertIInv ==
  ASSUME IInv, NEW r \in Requests, Insert(r)
  PROVE  IInv'
<1>1. PICK s \in Sessions :
        /\ ~Exists(s)
        /\ row' = [row EXCEPT ![s] = [user |-> call[r].user, plug |-> call[r].plug,
                                      tenant |-> call[r].tenant, tariff |-> call[r].tariff,
                                      status |-> "active"]]
        /\ after' = [after EXCEPT ![s] = call[r].seen]
  BY DEF Insert
<1>2. /\ At(r, "insert") /\ Leave(r)
      /\ UNCHANGED <<pricingVars, location, removed, endings>>
  BY DEF Insert
<1>3. /\ \A t \in Sessions \ {s} : row'[t] = row[t]
      /\ row'[s].status = "active" /\ row'[s].plug = call[r].plug
      /\ row'[s].tariff = call[r].tariff /\ row'[s].tenant = call[r].tenant
      /\ row'[s].user = call[r].user
  BY <1>1 DEF IInv, SessionTypeOK
<1>4. SessionTypeOK'
  <2>1. row' \in [Sessions -> Rows] /\ after' \in [Sessions -> SUBSET Sessions]
    BY <1>1, <1>2 DEF IInv, SessionTypeOK, Calls, Rows
  <2>2. call' \in [Requests -> Calls]
    BY <1>2 DEF IInv, SessionTypeOK, Leave, NoCall, Calls, Labels
  <2>3. PricingTypeOK' /\ location' \in [Stations -> Locations \cup {None}]
        /\ removed' \subseteq Plugs /\ endings' \in [Sessions -> Nat]
    BY <1>2 DEF IInv, SessionTypeOK, PricingTypeOK, pricingVars
  <2>4. \A t \in Sessions : /\ ~Exists(t)' => row'[t] = NoRow
                            /\ Exists(t)' => <<row'[t].user, row'[t].tenant>> \in Roles
                                             /\ row'[t].plug \in Plugs
    BY <1>2, <1>3 DEF IInv, SessionTypeOK, Exists, At, Starting
  <2>5. \A q \in Requests : LET c == call'[q] IN
          /\ c.at = "idle" => c = NoCall
          /\ c.at # "idle" => <<c.user, c.tenant>> \in Roles
          /\ c.at \in Starting => c.plug \in Plugs
          /\ c.at \in {"direct", "zone"} => c.loc \in Locations
          /\ c.at = "check" => c.session \in Sessions
          /\ c.at = "end" => c.session \in Sessions /\ row'[c.session].status # "none"
    BY <1>2, <1>3 DEF IInv, SessionTypeOK, Exists, Leave, NoCall, Starting
  <2>6. QED
    BY <2>1, <2>2, <2>3, <2>4, <2>5 DEF SessionTypeOK, Exists
<1>5. TariffsStayInTenant' /\ PricedInHand' /\ SessionPricedByItsTenant'
  BY <1>2, <1>3 DEF IInv, SessionTypeOK, pricingVars, TariffsStayInTenant, PricedInHand,
                    SessionPricedByItsTenant, Leave, NoCall
<1>6. EndedOnce'
  BY <1>1, <1>2, <1>3 DEF IInv, EndedOnce, Exists
<1>7. SeenAreOver' /\ EarlierAreOver' /\ GoneIsNotFound'
  <2>0. GoneIsNotFound'
    BY <1>2 DEF IInv, SessionTypeOK, GoneIsNotFound, Leave, NoCall, At
  <2>1. SeenAreOver'
    BY <1>1, <1>2, <1>3 DEF IInv, SessionTypeOK, Calls, SeenAreOver, Leave, NoCall, Exists
  <2>2. \A t \in Sessions : \A u \in after'[t] :
          Exists(u)' /\ (row'[u].plug = row'[t].plug => row'[u].status = "completed")
    BY <1>1, <1>2, <1>3 DEF IInv, SessionTypeOK, Calls, SeenAreOver, EarlierAreOver, Exists, NoRow
  <2>3. QED
    BY <2>0, <2>1, <2>2 DEF EarlierAreOver
<1>8. QED
  BY <1>4, <1>5, <1>6, <1>7 DEF IInv

\* The UPDATE that ends a session, or finds it ended already.
LEMMA EndIInv ==
  ASSUME IInv, NEW r \in Requests, EndSession(r)
  PROVE  IInv'
<1> DEFINE s == call[r].session
<1>1. /\ Leave(r) /\ s \in Sessions /\ Exists(s)
      /\ UNCHANGED <<pricingVars, location, removed, after>>
  BY DEF EndSession, At, IInv, SessionTypeOK
<1>2. CASE UNCHANGED <<row, endings>>
  BY <1>1, <1>2, LeaveIInv
<1>3. CASE /\ Active(s)
           /\ row' = [row EXCEPT ![s].status = "completed"]
           /\ endings' = [endings EXCEPT ![s] = @ + 1]
  <2>1. /\ \A t \in Sessions \ {s} : row'[t] = row[t]
        /\ row' \in [Sessions -> Rows]
        /\ row'[s].status = "completed" /\ row'[s].plug = row[s].plug
        /\ row'[s].user = row[s].user /\ row'[s].tenant = row[s].tenant
        /\ row'[s].tariff = row[s].tariff
    BY <1>1, <1>3 DEF IInv, SessionTypeOK, Rows
  <2>2. SessionTypeOK'
    <3>1. PricingTypeOK' /\ location' \in [Stations -> Locations \cup {None}]
          /\ removed' \subseteq Plugs /\ after' \in [Sessions -> SUBSET Sessions]
      BY <1>1 DEF IInv, SessionTypeOK, PricingTypeOK, pricingVars
    <3>2. endings' \in [Sessions -> Nat]
      BY <1>1, <1>3 DEF IInv, SessionTypeOK
    <3>3. call' \in [Requests -> Calls]
      BY <1>1 DEF IInv, SessionTypeOK, Leave, NoCall, Calls, Labels
    <3>4. \A t \in Sessions : /\ ~Exists(t)' => row'[t] = NoRow
                              /\ Exists(t)' => <<row'[t].user, row'[t].tenant>> \in Roles
                                               /\ row'[t].plug \in Plugs
      BY <1>1, <2>1 DEF IInv, SessionTypeOK, Exists
    <3>5. \A q \in Requests : LET c == call'[q] IN
            /\ c.at = "idle" => c = NoCall
            /\ c.at # "idle" => <<c.user, c.tenant>> \in Roles
            /\ c.at \in Starting => c.plug \in Plugs
            /\ c.at \in {"direct", "zone"} => c.loc \in Locations
            /\ c.at = "check" => c.session \in Sessions
            /\ c.at = "end" => c.session \in Sessions /\ row'[c.session].status # "none"
      BY <1>1, <2>1 DEF IInv, SessionTypeOK, Exists, Leave, NoCall, Starting
    <3>6. QED
      BY <2>1, <3>1, <3>2, <3>3, <3>4, <3>5 DEF SessionTypeOK, Exists
  <2>3. TariffsStayInTenant' /\ PricedInHand' /\ SessionPricedByItsTenant'
    BY <1>1, <2>1 DEF IInv, SessionTypeOK, pricingVars, TariffsStayInTenant, PricedInHand,
                      SessionPricedByItsTenant, Leave, NoCall
  <2>4. EndedOnce'
    BY <1>3, <2>1 DEF IInv, SessionTypeOK, EndedOnce, Active
  <2>5. SeenAreOver' /\ EarlierAreOver'
    <3>1. \A t \in Sessions : row'[t].plug = row[t].plug /\ (Exists(t) => Exists(t)')
                              /\ (row[t].status = "completed" => row'[t].status = "completed")
      BY <2>1 DEF Exists
    <3>2. \A q \in Requests : call'[q] = call[q] \/ call'[q].seen = {}
      BY <1>1 DEF Leave, NoCall, IInv, SessionTypeOK
    <3>3. SeenAreOver'
      BY <3>1, <3>2 DEF IInv, SessionTypeOK, Calls, SeenAreOver, Exists
    <3>4. EarlierAreOver'
      BY <1>1, <3>1 DEF IInv, SessionTypeOK, EarlierAreOver, Exists
    <3>5. QED
      BY <3>3, <3>4
  <2>6. GoneIsNotFound'
    BY <1>1 DEF IInv, SessionTypeOK, GoneIsNotFound, Leave, NoCall, At
  <2>7. QED
    BY <2>2, <2>3, <2>4, <2>5, <2>6 DEF IInv
<1>4. QED
  BY <1>2, <1>3 DEF EndSession

\* The admins' requests touch neither a session nor a handler's variables.
LEMMA AdminIInv ==
  ASSUME IInv, RemovePlug \/ MoveStation \/ (PricingNext /\ UNCHANGED sessionVars)
  PROVE  IInv'
<1>1. /\ UNCHANGED <<row, call, endings, after>>
      /\ location' \in [Stations -> Locations \cup {None}] /\ removed' \subseteq Plugs
      /\ removed \subseteq removed'
  BY DEF RemovePlug, MoveStation, sessionVars, IInv, SessionTypeOK
<1>2. /\ PricingTypeOK' /\ TariffsStayInTenant'
      /\ \A e \in Entities : owner[e] # None => owner'[e] = owner[e]
  <2>1. CASE UNCHANGED pricingVars
    BY <2>1 DEF pricingVars, IInv, SessionTypeOK, PricingTypeOK, TariffsStayInTenant
  <2>2. CASE PricingNext
    BY <2>2, PricingTypes, LinksStay, OwnersStay DEF IInv, SessionTypeOK
  <2>3. QED
    BY <2>1, <2>2 DEF RemovePlug, MoveStation
<1>3. SessionTypeOK'
  BY <1>1, <1>2 DEF IInv, SessionTypeOK, Exists
<1>4. PricedInHand' /\ SessionPricedByItsTenant'
  <2>1. ASSUME NEW r \in Requests, call[r].tariff # None
        PROVE  owner'[call[r].tariff] = call[r].tenant
    <3>1. ~At(r, "idle")
      <4>1. call[r].at = "idle" => call[r] = NoCall
        BY DEF IInv, SessionTypeOK
      <4>2. QED
        BY <2>1, <4>1 DEF At, NoCall
    <3>2. CallOK(call[r]) /\ call[r].tenant \in Tenants
      BY <3>1, CallsAreOK, SessionsAssumption DEF CallOK
    <3>3. call[r].tariff \in Entities /\ owner[call[r].tariff] # None
      BY <2>1, <3>2, PricingAssumption DEF CallOK, Calls, Entities
    <3>4. QED
      BY <1>2, <2>1, <3>2, <3>3 DEF CallOK
  <2>2. ASSUME NEW s \in Sessions, row[s].tariff # None
        PROVE  owner'[row[s].tariff] = row[s].tenant
    <3>1. Exists(s)
      <4>1. ~Exists(s) => row[s] = NoRow
        BY DEF IInv, SessionTypeOK
      <4>2. QED
        BY <2>2, <4>1 DEF NoRow
    <3>2. row[s].tenant \in Tenants
      BY <3>1, SessionsAssumption DEF IInv, SessionTypeOK
    <3>3. row[s].tariff \in Entities /\ owner[row[s].tariff] # None
      BY <2>2, <3>2, PricingAssumption
         DEF IInv, SessionTypeOK, SessionPricedByItsTenant, Rows, Entities
    <3>4. QED
      BY <1>2, <2>2, <3>3 DEF IInv, SessionPricedByItsTenant
  <2>3. QED
    BY <1>1, <2>1, <2>2 DEF PricedInHand, SessionPricedByItsTenant
<1>5. EndedOnce' /\ SeenAreOver' /\ EarlierAreOver' /\ GoneIsNotFound'
  BY <1>1 DEF IInv, EndedOnce, SeenAreOver, EarlierAreOver, GoneIsNotFound, At, Exists
<1>6. QED
  BY <1>2, <1>3, <1>4, <1>5 DEF IInv

-----------------------------------------------------------------------------
\* Every step preserves the invariant.
LEMMA NextIInv == IInv /\ [Next]_vars => IInv'
<1> SUFFICES ASSUME IInv, [Next]_vars PROVE IInv'
  OBVIOUS
<1>1. CASE \E r \in Requests : StartStep(r) \/ EndStep(r) \/ Fail(r)
  <2>1. PICK r \in Requests : StartStep(r) \/ EndStep(r) \/ Fail(r)
    BY <1>1
  <2>2. CASE Fail(r)
    BY <2>2, LeaveIInv DEF Fail
  <2>3. CASE StartStep(r) \/ EndStep(r)
    BY <2>3, QueryIInv, InsertIInv, EndIInv DEF StartStep, EndStep
  <2>4. QED
    BY <2>1, <2>2, <2>3
<1>2. CASE RemovePlug \/ MoveStation \/ (PricingNext /\ UNCHANGED sessionVars)
  BY <1>2, AdminIInv
<1>3. CASE UNCHANGED vars
  <2>1. UNCHANGED <<pricingVars, location, removed, row, call, endings, after>>
    BY <1>3 DEF vars, sessionVars
  <2>2. QED
    BY <2>1 DEF IInv, SessionTypeOK, PricingTypeOK, pricingVars, TariffsStayInTenant, PricedInHand,
                SessionPricedByItsTenant, EndedOnce, SeenAreOver, EarlierAreOver, Exists,
                GoneIsNotFound, At
<1>4. QED
  BY <1>1, <1>2, <1>3 DEF Next

\* The inductive invariant holds in every reachable state.
THEOREM InductiveInvariant == Spec => []IInv
  BY InitIInv, NextIInv, PTL DEF Spec

\* The variables keep their types, and a handler has at each query what it needs:
\* a location for the tariff queries, an existing session for the update.
THEOREM TypeCorrect == Spec => []SessionTypeOK
<1>1. IInv => SessionTypeOK
  BY DEF IInv
<1>2. QED
  BY <1>1, InductiveInvariant, PTL

\* However many requests end a session at once, its row is completed once.
THEOREM SessionsEndOnce == Spec => []EndedOnce
<1>1. IInv => EndedOnce
  BY DEF IInv
<1>2. QED
  BY <1>1, InductiveInvariant, PTL

\* Two sessions are active on one plug only when their starts overlapped.
THEOREM DoubleStartsOverlap == Spec => []DoubleStartOnlyByRace
<1>1. IInv => DoubleStartOnlyByRace
  BY DEF IInv, EarlierAreOver, DoubleStartOnlyByRace, Active
<1>2. QED
  BY <1>1, InductiveInvariant, PTL

\* A tenant's admin reaches another tenant's prices through groups of its own only.
THEOREM OneTenantsAdminsAndAnothersPrices == Spec => OthersOnlyGrantZones
<1>1. IInv => [\A b \in Tenants : ConfiguredBy(b) =>
                 \A a \in Tenants \ {b}, u \in Users, l \in Locations :
                   /\ DirectTariffs(u, a)' = DirectTariffs(u, a)
                   /\ Offered(a, l)' = Offered(a, l)
                   /\ ZoneTariffs(u, a, l)' # ZoneTariffs(u, a, l) =>
                        \E g \in Groups : owner[g] = b /\ <<u, g>> \in members \cup members']_pricingVars
  BY OthersPricesStay DEF IInv, SessionTypeOK
<1>2. QED
  BY <1>1, InductiveInvariant, PTL DEF OthersOnlyGrantZones

\* A session is priced by a tariff of its own tenant, or by none.
THEOREM SessionsPricedByTheirTenant == Spec => []SessionPricedByItsTenant
<1>1. IInv => SessionPricedByItsTenant
  BY DEF IInv
<1>2. QED
  BY <1>1, InductiveInvariant, PTL
\* No request that comes after its plug was removed starts a session.
THEOREM RemovedPlugsGetNoStarts == Spec => NoStartAfterRemoval
<1> DEFINE A == \A s \in Sessions : ~Exists(s) /\ Exists(s)' =>
                  \E r \in Requests :
                    At(r, "insert") /\ call[r].plug = row'[s].plug /\ ~call[r].gone
<1>1. IInv /\ [Next]_vars => A
  <2> SUFFICES ASSUME IInv, [Next]_vars, NEW s \in Sessions, ~Exists(s), Exists(s)'
               PROVE  \E r \in Requests :
                        At(r, "insert") /\ call[r].plug = row'[s].plug /\ ~call[r].gone
    OBVIOUS
  <2>1. row' # row
    BY DEF Exists
  <2>2. PICK r \in Requests : Insert(r) \/ EndSession(r)
    BY <2>1 DEF Next, StartStep, EndStep, Start, FindPlug, FindActive, FindStation, FindDirect,
                FindZone, End, CheckSession, Fail, RemovePlug, MoveStation, vars, sessionVars
  <2>3. ~EndSession(r)
    BY DEF EndSession, Active, Exists, IInv, SessionTypeOK, At, Rows
  <2>4. At(r, "insert") /\ row'[s].plug = call[r].plug
    BY <2>2, <2>3 DEF Insert, Exists, IInv, SessionTypeOK
  <2> QED
    BY <2>4 DEF IInv, GoneIsNotFound, At
<1> QED
  BY <1>1, InductiveInvariant, PTL DEF Spec, NoStartAfterRemoval
=============================================================================
