----------------------------- MODULE Inventory -----------------------------
(***************************************************************************)
(* Locations, stations and plugs: what admins change (one UPDATE or INSERT *)
(* per handler) and what the read endpoints answer while they do.  A read  *)
(* is several queries, each on a connection of its own: a page and its     *)
(* total, or a location, then its stations, then their plugs.              *)
(*                                                                         *)
(* Tenants and parents are fixed when a row is created, so they are        *)
(* constants; no code deletes stations.  A handler that writes first looks *)
(* its row up in the admin's tenant: the lookup holds until the write, and *)
(* the handler is one step.                                                *)
(***************************************************************************)
EXTENDS FiniteSets, Integers

CONSTANTS
  Tenants, Users, Locations, Stations, Plugs, Requests,
  LocationOwner, StationOwner,   \* tenant_id
  StationOf,                     \* station_id of each plug
  Models,      \* <<connector_type, max_power_kw>> of the plugs that are built
  StationStatus, PlugStatus,     \* the values of the status columns
  Paging,      \* the <<limit, offset>> that clients ask for
  None

ASSUME InventoryAssumption ==
  /\ LocationOwner \in [Locations -> Tenants]
  /\ StationOwner \in [Stations -> Tenants]
  /\ StationOf \in [Plugs -> Stations]
  /\ \A m \in Models : m[2] \in Nat
  /\ \A n \in Paging : n[1] \in Nat \ {0} /\ n[2] \in Nat
  /\ IsFiniteSet(Locations) /\ IsFiniteSet(Stations) /\ IsFiniteSet(Plugs)
  /\ Locations \cap Stations = {} /\ Locations \cap Plugs = {} /\ Stations \cap Plugs = {}
  /\ None \notin Tenants \cup Users \cup Locations \cup Stations \cup Plugs \cup Models

VARIABLES
  loc,      \* visibility of each location; "none" before the insert
  sta,      \* visibility, location_id and status of each station
  plug,     \* model (None before the insert) and status of each plug
  gone,     \* the locations and plugs with deleted_at set
  access,   \* <<user, location>>: joined by a zone, a group and a membership
  req,      \* the read each request is running, with its local variables
  kept,     \* history: what the request might show at every moment since it came
  seen      \* history: what it might show at some moment since then

tables == <<loc, sta, plug, gone, access>>
vars   == <<loc, sta, plug, gone, access, req, kept, seen>>

Visibility == {"public", "private"}
Kinds  == {"locations", "tenantLocations", "location", "tenantLocation", "stations",
           "tenantStations", "station", "tenantStation", "plugs", "tenantPlugs"}
PublicKinds == {"locations", "location", "stations", "station", "plugs"}
LocationKinds == {"location", "tenantLocation"}
StationKinds  == {"station", "tenantStation"}
PlugKinds     == {"plugs", "tenantPlugs"}
Lists  == {"locations", "tenantLocations", "stations", "tenantStations"}
Labels == {"idle", "location", "stations", "plugs", "station", "page", "done"}

NoRead == [at |-> "idle", kind |-> None, user |-> None, tenant |-> None, id |-> None,
           page |-> None, total |-> -1, fetched |-> FALSE, rows |-> {},
           stations |-> {}, plugs |-> {}]

Rows == Locations \cup Stations \cup Plugs

Reads == [at : Labels, kind : Kinds \cup {None}, user : Users \cup {None},
          tenant : Tenants \cup {None}, id : Rows \cup {None}, page : Paging \cup {None},
          total : Int, fetched : BOOLEAN, rows : SUBSET Rows,
          stations : SUBSET Stations, plugs : SUBSET Plugs]

-----------------------------------------------------------------------------
(* The queries                                                             *)

LocationExists(l) == loc[l] # "none"
StationExists(s)  == sta[s].visibility # "none"
PlugExists(p)     == plug[p].model # None

LiveLocation(l) == LocationExists(l) /\ l \notin gone
LivePlug(p)     == PlugExists(p) /\ p \notin gone

\* findPublicLocationsWithSummary: the rows, and the separate query of the total.
PublicLocations      == {l \in Locations : LiveLocation(l) /\ loc[l] = "public"}

\* Mutant: the total counts the private locations too.
CountPublicLocations_All == Cardinality({l \in Locations : LiveLocation(l)})

CountPublicLocations == Cardinality({l \in Locations : LiveLocation(l) /\ loc[l] = "public"})

\* findAccessibleLocationsWithSummary: a tenant's public locations, and the
\* private ones in a zone that a group of the user has been given.
AccessibleLocations(u, a) ==
  {l \in Locations : /\ LocationOwner[l] = a /\ LiveLocation(l)
                     /\ loc[l] = "public" \/ <<u, l>> \in access}

CountAccessibleLocations(u, a) ==
  Cardinality({l \in Locations : /\ LocationOwner[l] = a /\ LiveLocation(l)
                                 /\ loc[l] = "public" \/ <<u, l>> \in access})

\* findPublicStations, findStationsByTenant
PublicStations   == {s \in Stations : sta[s].visibility = "public"}
TenantStations(a) == {s \in Stations : StationExists(s) /\ StationOwner[s] = a}

\* findPublicStationsWithPlugsForLocation and findAllStationsWithPlugsForLocation,
\* the stations; the second has no condition on the station's tenant.
PublicStationsAt(l) == {s \in PublicStations : sta[s].location = l}
AllStationsAt(l)    == {s \in Stations : StationExists(s) /\ sta[s].location = l}

\* findPlugsByStation
PlugsByStation(s) == {p \in Plugs : LivePlug(p) /\ StationOf[p] = s}

\* fetchPlugsForStations
PlugsForStations(ss) == {p \in Plugs : LivePlug(p) /\ StationOf[p] \in ss}

-----------------------------------------------------------------------------
(* The summary of a location in a list                                     *)

HIGH_POWER_KW == 150

\* The rows that l LEFT JOIN stations LEFT JOIN plugs has for one location: a
\* pair per plug, a station alone when it has none, nothing when l has no station.
JoinedRows(ss) ==
  IF ss = {} THEN {<<None, None>>}
  ELSE {<<StationOf[p], p>> : p \in PlugsForStations(ss)}
       \cup {<<s, None>> : s \in {t \in ss : PlugsByStation(t) = {}}}

MaxPower(ps) == IF ps = {} THEN None
                ELSE CHOOSE w \in {plug[p].model[2] : p \in ps} :
                       \A p \in ps : plug[p].model[2] <= w

\* Mutant: count(s.id) without distinct.
StationCount_NotDistinct(join) == Cardinality({j \in join : j[1] # None})

\* count(distinct s.id), which skips the nulls of the outer join
StationCount(join) == Cardinality({j[1] : j \in {k \in join : k[1] # None}})

\* summarySelectCols over the joined rows, then rowToLocationWithSummary
Summary(ss) ==
  LET join == JoinedRows(ss)
      ps   == {j[2] : j \in {k \in join : k[2] # None}}
  IN  [stationCount       |-> StationCount(join),
       activeStationCount |-> Cardinality({j[1] : j \in {k \in join : k[1] # None /\ sta[k[1]].status = "active"}}),
       total              |-> Cardinality({j \in join : j[2] # None}),
       available          |-> Cardinality({j \in join : j[2] # None /\ plug[j[2]].status = "available"}),
       maxPowerKw         |-> MaxPower(ps),
       hasHighPowerCharging |-> ps # {} /\ MaxPower(ps) >= HIGH_POWER_KW,
       connectorTypes     |-> {plug[p].model[1] : p \in ps}]

-----------------------------------------------------------------------------
(* What a request may show: the rules the documents give for each endpoint *)

Public(q) == q.kind \in PublicKinds

MayShowLocation(q, l) ==
  /\ LiveLocation(l)
  /\ IF Public(q) THEN loc[l] = "public" ELSE LocationOwner[l] = q.tenant
  /\ \/ q.kind = "locations"
     \/ q.kind = "tenantLocations" /\ (loc[l] = "public" \/ <<q.user, l>> \in access)
     \/ q.kind \in LocationKinds /\ l = q.id

MayShowStation(q, s) ==
  /\ StationExists(s)
  /\ Public(q) => sta[s].visibility = "public"
  /\ q.kind \in {"tenantStations", "tenantStation", "tenantPlugs"} => StationOwner[s] = q.tenant
  /\ \/ q.kind \in {"stations", "tenantStations"}
     \/ q.kind \in StationKinds \cup PlugKinds /\ s = q.id
     \/ q.kind \in LocationKinds /\ sta[s].location = q.id

MayShowPlug(q, p) ==
  /\ LivePlug(p)
  /\ q.kind \in LocationKinds \/ (q.kind \in PlugKinds /\ StationOf[p] = q.id)

MayShow(q) == {l \in Locations : MayShowLocation(q, l)}
         \cup {s \in Stations : MayShowStation(q, s)}
         \cup {p \in Plugs : MayShowPlug(q, p)}

-----------------------------------------------------------------------------
\* What a request has in hand at each of its steps.
ReadOK(q) ==
  /\ q.at = "idle" <=> q = NoRead
  /\ q.at # "idle" => q.kind \in Kinds /\ (q.kind \in PlugKinds => q.page \in Paging)
  /\ q.at \in {"location", "stations", "plugs"} =>
       q.id \in Locations /\ q.kind \in LocationKinds
  /\ q.at = "station" => q.id \in Stations /\ q.kind \in StationKinds \cup PlugKinds
  /\ q.at = "page" => /\ q.page \in Paging
                      /\ \/ q.kind \in Lists /\ q.id = None
                         \/ q.kind \in PlugKinds /\ q.id \in Stations
  /\ q.at = "done" /\ q.kind \in Lists \cup PlugKinds => q.fetched /\ q.total >= 0

TablesOK ==
  /\ loc \in [Locations -> Visibility \cup {"none"}]
  /\ sta \in [Stations -> [visibility : Visibility \cup {"none"},
                           location : Locations \cup {None}, status : StationStatus \cup {None}]]
  /\ plug \in [Plugs -> [model : Models \cup {None}, status : PlugStatus \cup {None}]]
  /\ gone \subseteq Locations \cup Plugs
  /\ access \subseteq Users \X Locations
  /\ \A p \in Plugs : PlugExists(p) => StationExists(StationOf[p])
  /\ \A s \in Stations : sta[s].location # None => LocationExists(sta[s].location)

RequestsOK ==
  /\ req \in [Requests -> Reads]
  /\ kept \in [Requests -> SUBSET Rows]
  /\ seen \in [Requests -> SUBSET Rows]
  /\ \A r \in Requests : ReadOK(req[r])

\* The types of the variables, the foreign keys (a plug's station and a station's
\* location exist), and what a request has in hand at each step: a page is answered
\* with both of its rows and its total.
InventoryTypeOK == TablesOK /\ RequestsOK

Init ==
  /\ loc = [l \in Locations |-> "none"]
  /\ sta = [s \in Stations |-> [visibility |-> "none", location |-> None, status |-> None]]
  /\ plug = [p \in Plugs |-> [model |-> None, status |-> None]]
  /\ gone = {} /\ access = {}
  /\ req = [r \in Requests |-> NoRead]
  /\ kept = [r \in Requests |-> {}]
  /\ seen = [r \in Requests |-> {}]

-----------------------------------------------------------------------------
(* The admins                                                              *)

\* POST /locations
CreateLocation(l) ==
  /\ ~LocationExists(l)
  /\ \E v \in Visibility : loc' = [loc EXCEPT ![l] = v]
  /\ UNCHANGED <<sta, plug, gone, access>>

\* PATCH /locations/:id
UpdateLocation(l) ==
  /\ LiveLocation(l)
  /\ \E v \in Visibility : loc' = [loc EXCEPT ![l] = v]
  /\ UNCHANGED <<sta, plug, gone, access>>

\* DELETE /locations/:id.  Its stations keep their location_id.
DeleteLocation(l) ==
  /\ LiveLocation(l)
  /\ gone' = gone \cup {l}
  /\ UNCHANGED <<loc, sta, plug, access>>

\* What the bodies of POST and PATCH /stations may set.  The location has to exist
\* (a foreign key), but may be deleted or another tenant's.
StationRows == [visibility : Visibility,
                location : {l \in Locations : LocationExists(l)} \cup {None}, status : StationStatus]

\* POST /stations
CreateStation(s) ==
  /\ ~StationExists(s)
  /\ \E x \in StationRows : sta' = [sta EXCEPT ![s] = x]
  /\ UNCHANGED <<loc, plug, gone, access>>

\* PATCH /stations/:id
UpdateStation(s) ==
  /\ StationExists(s)
  /\ \E x \in StationRows : sta' = [sta EXCEPT ![s] = x]
  /\ UNCHANGED <<loc, plug, gone, access>>

\* POST /stations/:stationId/plugs
CreatePlug(p) ==
  /\ ~PlugExists(p) /\ StationExists(StationOf[p])
  /\ \E m \in Models, x \in PlugStatus : plug' = [plug EXCEPT ![p] = [model |-> m, status |-> x]]
  /\ UNCHANGED <<loc, sta, gone, access>>

\* PATCH /stations/:stationId/plugs/:plugId
UpdatePlug(p) ==
  /\ LivePlug(p)
  /\ \E m \in Models, x \in PlugStatus : plug' = [plug EXCEPT ![p] = [model |-> m, status |-> x]]
  /\ UNCHANGED <<loc, sta, gone, access>>

\* DELETE /stations/:stationId/plugs/:plugId
DeletePlug(p) ==
  /\ LivePlug(p)
  /\ gone' = gone \cup {p}
  /\ UNCHANGED <<loc, sta, plug, access>>

\* The routes of module Pricing that add or remove a row of a link table: they bring
\* any number of users to locations, or take them away, at once.
ChangeAccess(joined) ==
  /\ \/ (\A x \in joined : LocationExists(x[2])) /\ access' = access \cup joined
     \/ access' = access \ joined
  /\ UNCHANGED <<loc, sta, plug, gone>>

Write ==
  \/ \E l \in Locations : CreateLocation(l) \/ UpdateLocation(l) \/ DeleteLocation(l)
  \/ \E joined \in SUBSET (Users \X Locations) : ChangeAccess(joined)
  \/ \E s \in Stations : CreateStation(s) \/ UpdateStation(s)
  \/ \E p \in Plugs : CreatePlug(p) \/ UpdatePlug(p) \/ DeletePlug(p)

At(r, label) == req[r].at = label

\* The history of the requests under way, when the tables change.
Watch ==
  LET now == [r \in Requests |-> IF At(r, "idle") THEN {} ELSE MayShow(req[r])']
  IN  /\ kept' = [r \in Requests |-> kept[r] \cap now[r]]
      /\ seen' = [r \in Requests |-> seen[r] \cup now[r]]

-----------------------------------------------------------------------------
(* The reads                                                               *)

Leave(r) ==
  /\ req' = [req EXCEPT ![r] = NoRead]
  /\ kept' = [kept EXCEPT ![r] = {}]
  /\ seen' = [seen EXCEPT ![r] = {}]
  /\ UNCHANGED tables

\* The request goes on with q.
Continue(r, q) ==
  /\ req' = [req EXCEPT ![r] = q]
  /\ UNCHANGED <<tables, kept, seen>>

Begin(r, q) ==
  /\ At(r, "idle")
  /\ req' = [req EXCEPT ![r] = q]
  /\ kept' = [kept EXCEPT ![r] = MayShow(q)]
  /\ seen' = [seen EXCEPT ![r] = MayShow(q)]
  /\ UNCHANGED tables

\* Who calls: nobody in particular, or a user with a role in a tenant.
Callers(k) == IF k \in PublicKinds THEN {<<None, None>>} ELSE Users \X Tenants

\* GET /locations, /tenant/locations, /stations and /tenant/stations
CallList(r) ==
  \E k \in Lists : \E c \in Callers(k), n \in Paging :
    Begin(r, [NoRead EXCEPT !.at = "page", !.kind = k, !.user = c[1], !.tenant = c[2], !.page = n])

\* GET /locations/:id and /tenant/locations/:id
CallLocation(r) ==
  \E k \in LocationKinds, l \in Locations : \E c \in Callers(k) :
    Begin(r, [NoRead EXCEPT !.at = "location", !.kind = k, !.user = c[1], !.tenant = c[2], !.id = l])

\* GET /stations/:id and /tenant/stations/:id
CallStation(r) ==
  \E k \in StationKinds, s \in Stations : \E c \in Callers(k) :
    Begin(r, [NoRead EXCEPT !.at = "station", !.kind = k, !.user = c[1], !.tenant = c[2], !.id = s])

\* GET /stations/:stationId/plugs and /tenant/stations/:stationId/plugs
CallPlugs(r) ==
  \E k \in PlugKinds, s \in Stations, n \in Paging : \E c \in Callers(k) :
    Begin(r, [NoRead EXCEPT !.at = "station", !.kind = k, !.user = c[1], !.tenant = c[2],
                            !.id = s, !.page = n])

\* findPublicLocationById, findLocationById: 404 when there is none.
FindLocation(r) ==
  /\ At(r, "location")
  /\ LET q == req[r]
         found == LiveLocation(q.id) /\ IF q.kind = "location" THEN loc[q.id] = "public"
                                        ELSE LocationOwner[q.id] = q.tenant
     IN  \/ found /\ Continue(r, [q EXCEPT !.at = "stations"])
         \/ ~found /\ Leave(r)

\* Its stations; without any the answer is complete.
ReadStations(r) ==
  /\ At(r, "stations")
  /\ LET q == req[r]
         ss == IF q.kind = "location" THEN PublicStationsAt(q.id) ELSE AllStationsAt(q.id)
     IN  Continue(r, [q EXCEPT !.stations = ss, !.at = IF ss = {} THEN "done" ELSE "plugs"])

\* Their plugs.
ReadPlugs(r) ==
  /\ At(r, "plugs")
  /\ LET q == req[r]
     IN  Continue(r, [q EXCEPT !.plugs = PlugsForStations(q.stations), !.at = "done"])

\* Mutant: the check does not ask whether the station is public.
FindStation_AnyVisibility(r) ==
  /\ At(r, "station")
  /\ LET q == req[r]
         found == q.id \in IF Public(q) THEN {s \in Stations : StationExists(s)}
                         ELSE TenantStations(q.tenant)
         next  == IF q.kind \in PlugKinds THEN "page" ELSE "done"
     IN  \/ found /\ Continue(r, [q EXCEPT !.at = next])
         \/ ~found /\ Leave(r)

\* findPublicStationById, findStationByIdForTenant: 404 when there is none.
FindStation(r) ==
  /\ At(r, "station")
  /\ LET q == req[r]
         found == q.id \in IF Public(q) THEN PublicStations ELSE TenantStations(q.tenant)
         next  == IF q.kind \in PlugKinds THEN "page" ELSE "done"
     IN  \/ found /\ Continue(r, [q EXCEPT !.at = next])
         \/ ~found /\ Leave(r)

\* The rows a list selects, before limit and offset.
Listed(q) ==
  CASE q.kind = "locations"       -> PublicLocations
    [] q.kind = "tenantLocations" -> AccessibleLocations(q.user, q.tenant)
    [] q.kind = "stations"        -> PublicStations
    [] q.kind = "tenantStations"  -> TenantStations(q.tenant)
    [] OTHER                      -> PlugsByStation(q.id)

Total(q) ==
  CASE q.kind = "locations"       -> CountPublicLocations
    [] q.kind = "tenantLocations" -> CountAccessibleLocations(q.user, q.tenant)
    [] OTHER                      -> Cardinality(Listed(q))

PageLength(n, page) == LET left == n - page[2]
                       IN  IF left < 0 THEN 0 ELSE IF left < page[1] THEN left ELSE page[1]

\* The pages a query may return: the order of rows is not modelled.
Pages(rows, page) ==
  {x \in SUBSET rows : Cardinality(x) = PageLength(Cardinality(rows), page)}

\* Mutant: the first of the two queries to answer completes the page.
PageDone_First(q) == IF q.fetched \/ q.total >= 0 THEN [q EXCEPT !.at = "done"] ELSE q

\* A list is complete when both of its queries have answered.
PageDone(q) == IF q.fetched /\ q.total >= 0 THEN [q EXCEPT !.at = "done"] ELSE q

\* The two queries of Promise.all, in either order.
FetchRows(r) ==
  /\ At(r, "page") /\ ~req[r].fetched
  /\ LET q == req[r]
     IN  \E x \in Pages(Listed(q), q.page) :
           Continue(r, PageDone([q EXCEPT !.rows = x, !.fetched = TRUE]))

CountRows(r) ==
  /\ At(r, "page") /\ req[r].total < 0
  /\ LET q == req[r] IN Continue(r, PageDone([q EXCEPT !.total = Total(q)]))

\* toLocationResponse parses its plugs with a schema that wants max_power_kw to be
\* a number; the column is numeric, which the driver delivers as a string.
Serializable(q) == q.kind \in LocationKinds => q.plugs = {}

\* The answer is sent, or its serialisation throws and the client gets a 500, or a
\* query before it fails.
Answer(r) == At(r, "done") /\ Serializable(req[r]) /\ Leave(r)
Reject(r) == At(r, "done") /\ ~Serializable(req[r]) /\ Leave(r)
Fail(r)   == req[r].at \notin {"idle", "done"} /\ Leave(r)

Read(r) ==
  \/ CallList(r) \/ CallLocation(r) \/ CallStation(r) \/ CallPlugs(r)
  \/ FindLocation(r) \/ ReadStations(r) \/ ReadPlugs(r) \/ FindStation(r)
  \/ FetchRows(r) \/ CountRows(r) \/ Answer(r) \/ Reject(r) \/ Fail(r)

-----------------------------------------------------------------------------
Next ==
  \/ Write /\ UNCHANGED req /\ Watch
  \/ \E r \in Requests : Read(r)

Spec == Init /\ [][Next]_vars

-----------------------------------------------------------------------------
(* Properties                                                              *)

\* What a complete answer shows: its rows, its stations and plugs, the row it was asked
\* for, and the stations its plugs are under.
Shown(q) == LET all == q.rows \cup q.stations \cup q.plugs
            IN  all \cup ({q.id} \ {None}) \cup {StationOf[p] : p \in all \cap Plugs}

\* Nothing is shown that the reader might not have been shown at some moment of
\* the request, however its queries interleave with admins who hide, move or
\* delete rows: each location and station was visible to it, each plug not deleted,
\* and the station a plug is listed under was visible.
AnswersWereTrue ==
  \A r \in Requests : At(r, "done") => Shown(req[r]) \subseteq seen[r]

\* Those of the rows that a page lists: under a station, its plugs.
Listable(q, rows) == IF q.kind \in PlugKinds THEN rows \cap Plugs ELSE rows

\* How far an answer may be from the rows that were visible at every moment of the
\* request, and from those that were visible at some moment.
Within(q, always, ever) ==
  /\ q.kind \in Lists \cup PlugKinds =>
       LET low  == Cardinality(Listable(q, always))
           high == Cardinality(Listable(q, ever))
       IN  /\ low <= q.total /\ q.total <= high
           /\ q.rows \subseteq Listable(q, ever)
           /\ PageLength(low, q.page) <= Cardinality(q.rows)
           /\ Cardinality(q.rows) <= PageLength(high, q.page)
  /\ q.kind \in LocationKinds =>
       /\ always \cap Stations \subseteq q.stations
       /\ {p \in always \cap Plugs : StationOf[p] \in q.stations} \subseteq q.plugs

\* Nothing is missed that was visible throughout.  A total, which no page limits, counts
\* at least the rows that stayed visible and at most those that ever were; a page is as
\* long as some number between the two makes it; a location comes with every station
\* that stayed at it and every plug that stayed on a station shown.  When no row changes
\* the two bounds are one, and the answer is exact.
AnswersMissNothing ==
  \A r \in Requests : At(r, "done") => Within(req[r], kept[r], seen[r])

\* The summary of the stations ss, counted without a join.
SummaryExact(ss) ==
  LET ps == {p \in Plugs : LivePlug(p) /\ StationOf[p] \in ss}
      x  == Summary(ss)
  IN  /\ x.stationCount = Cardinality(ss)
      /\ x.activeStationCount = Cardinality({s \in ss : sta[s].status = "active"})
      /\ x.total = Cardinality(ps)
      /\ x.available = Cardinality({p \in ps : plug[p].status = "available"})
      /\ IF ps = {} THEN x.maxPowerKw = None
         ELSE /\ x.maxPowerKw \in {plug[p].model[2] : p \in ps}
              /\ \A p \in ps : plug[p].model[2] <= x.maxPowerKw
      /\ x.hasHighPowerCharging = (\E p \in ps : plug[p].model[2] >= HIGH_POWER_KW)
      /\ x.connectorTypes = {plug[p].model[1] : p \in ps}

\* The summary that a list computes from the rows of its outer join counts each
\* station and plug once, and its maximum is that of the plugs it counts: a station
\* without plugs, or a location without stations, adds a row that counts for nothing.
SummariesExact ==
  \A l \in Locations : SummaryExact(PublicStationsAt(l)) /\ SummaryExact(AllStationsAt(l))
=============================================================================
