-------------------------- MODULE InventoryProofs --------------------------
(***************************************************************************)
(* The invariants of Inventory, for any tables and any number of reads:    *)
(* answers show nothing that was never visible and miss nothing that       *)
(* always was.                                                             *)
(***************************************************************************)
EXTENDS Inventory, FiniteSetTheorems, TLAPS

Found == {"stations", "plugs", "page", "done"}

\* What the tables show now is in seen and has all of kept; what the request has taken
\* from them is in seen.
SeenSoFar ==
  \A r \in Requests : LET q == req[r] IN
    /\ q.at # "idle" => kept[r] \subseteq MayShow(q) /\ MayShow(q) \subseteq seen[r]
    /\ q.at \in Found => Shown(q) \subseteq seen[r]
    /\ q.at \in {"location", "station"} => q.stations = {}
    /\ q.at \notin {"page", "done"} => q.rows = {} /\ q.plugs = {}

\* Each part of an answer, from the query that brought it on, is within the bounds.
PartsWithin(q, always, ever) ==
  /\ q.at \notin {"page", "done"} => ~q.fetched /\ q.total = -1
  /\ q.fetched =>
       /\ q.page \in Paging /\ q.rows \subseteq Listable(q, ever)
       /\ PageLength(Cardinality(Listable(q, always)), q.page) <= Cardinality(q.rows)
       /\ Cardinality(q.rows) <= PageLength(Cardinality(Listable(q, ever)), q.page)
  /\ q.total >= 0 =>
       /\ Cardinality(Listable(q, always)) <= q.total
       /\ q.total <= Cardinality(Listable(q, ever))
  /\ q.at \in {"plugs", "done"} /\ q.kind \in LocationKinds =>
       always \cap Stations \subseteq q.stations
  /\ q.at = "done" /\ q.kind \in LocationKinds =>
       {p \in always \cap Plugs : StationOf[p] \in q.stations} \subseteq q.plugs

WithinSoFar == \A r \in Requests : PartsWithin(req[r], kept[r], seen[r])

IInv == InventoryTypeOK /\ SeenSoFar /\ WithinSoFar

-----------------------------------------------------------------------------
(* What a query's rows depend on                                           *)

\* The question is the kind, the caller and the row asked for: the local variables
\* that a request fills do not change it.
SameQuestion(q, x) == x.kind = q.kind /\ x.user = q.user /\ x.tenant = q.tenant /\ x.id = q.id

LEMMA SameAnswers ==
  ASSUME NEW q, NEW x, SameQuestion(q, x)
  PROVE  MayShow(x) = MayShow(q) /\ Listed(x) = Listed(q) /\ Total(x) = Total(q)
<1>1. MayShow(x) = MayShow(q)
  BY DEF SameQuestion, MayShow, MayShowLocation, MayShowStation, MayShowPlug, Public
<1>2. Listed(x) = Listed(q)
  BY DEF SameQuestion, Listed
<1>3. Total(x) = Total(q)
  BY <1>2 DEF SameQuestion, Total
<1> QED BY <1>1, <1>2, <1>3

LEMMA ShownGrows ==
  ASSUME NEW q, NEW x, NEW S, x.id = q.id, Shown(q) \subseteq S,
         x.rows \cup x.stations \cup x.plugs \subseteq S,
         \A p \in (x.rows \cup x.stations \cup x.plugs) \cap Plugs : StationOf[p] \in S
  PROVE  Shown(x) \subseteq S
BY DEF Shown

\* Each list selects what its caller may be shown, and nothing else.
LEMMA ListedIsVisible ==
  ASSUME TablesOK, NEW q, q.kind \in Lists \cup PlugKinds
  PROVE  /\ Listed(q) = Listable(q, MayShow(q))
         /\ Total(q) = Cardinality(Listed(q))
         /\ q.kind \in {"locations", "tenantLocations"} => Listed(q) \subseteq Locations
         /\ q.kind \in {"stations", "tenantStations"} => Listed(q) \subseteq Stations
         /\ q.kind \in PlugKinds => Listed(q) \subseteq {p \in Plugs : StationOf[p] = q.id}
<1> USE InventoryAssumption DEF MayShow, MayShowLocation, MayShowStation, MayShowPlug, Public,
      PublicKinds, Listable, PlugKinds, LocationKinds, StationKinds
<1>1. CASE q.kind = "locations"
  BY <1>1 DEF Listed, Total, PublicLocations, CountPublicLocations
<1>2. CASE q.kind = "tenantLocations"
  BY <1>2 DEF Listed, Total, AccessibleLocations, CountAccessibleLocations
<1>3. CASE q.kind = "stations"
  BY <1>3 DEF Listed, Total, PublicStations, StationExists
<1>4. CASE q.kind = "tenantStations"
  BY <1>4 DEF Listed, Total, TenantStations, StationExists
<1>5. CASE q.kind \in PlugKinds
  BY <1>5 DEF Listed, Total, PlugsByStation
<1> QED BY <1>1, <1>2, <1>3, <1>4, <1>5 DEF Lists

LEMMA StationsAreVisible ==
  ASSUME TablesOK, NEW q
  PROVE  /\ q.kind = "location" => PublicStationsAt(q.id) = MayShow(q) \cap Stations
         /\ q.kind = "tenantLocation" => AllStationsAt(q.id) = MayShow(q) \cap Stations
BY InventoryAssumption DEF MayShow, MayShowLocation, MayShowStation, MayShowPlug, Public,
   PublicKinds, PublicStationsAt, PublicStations, AllStationsAt, StationExists, LocationKinds,
   StationKinds, PlugKinds

LEMMA PlugsAreVisible ==
  ASSUME NEW q, NEW ss, q.kind \in LocationKinds
  PROVE  PlugsForStations(ss) = {p \in MayShow(q) \cap Plugs : StationOf[p] \in ss}
BY InventoryAssumption DEF MayShow, MayShowPlug, PlugsForStations

LEMMA TotalIsNat ==
  ASSUME TablesOK, NEW q, q.kind \in Lists \cup PlugKinds
  PROVE  Total(q) \in Nat
<1>1. Listed(q) \subseteq Locations \/ Listed(q) \subseteq Stations \/ Listed(q) \subseteq Plugs
  BY ListedIsVisible DEF Lists, PlugKinds
<1>2. IsFiniteSet(Listed(q))
  BY <1>1, FS_Subset, InventoryAssumption
<1> QED BY <1>2, FS_CardinalityType, ListedIsVisible

-----------------------------------------------------------------------------
(* Counts and pages grow with the rows they count                          *)

LEMMA PagesGrow ==
  ASSUME NEW n \in Paging, NEW i \in Nat, NEW j \in Nat, i <= j
  PROVE  PageLength(i, n) \in Nat /\ PageLength(i, n) <= PageLength(j, n)
BY InventoryAssumption DEF PageLength

LEMMA CountsGrow ==
  ASSUME NEW q, NEW S, NEW T \in SUBSET Rows, S \subseteq T
  PROVE  /\ Listable(q, S) \subseteq Listable(q, T)
         /\ Cardinality(Listable(q, S)) \in Nat /\ Cardinality(Listable(q, T)) \in Nat
         /\ Cardinality(Listable(q, S)) <= Cardinality(Listable(q, T))
<1>1. IsFiniteSet(Rows)
  BY InventoryAssumption, FS_Union DEF Rows
<1>2. Listable(q, S) \subseteq Listable(q, T) /\ Listable(q, T) \subseteq Rows
  BY DEF Listable
<1>3. IsFiniteSet(Listable(q, S)) /\ IsFiniteSet(Listable(q, T))
  BY <1>1, <1>2, FS_Subset
<1> QED BY <1>2, <1>3, FS_Subset, FS_CardinalityType

\* A part that was within the bounds stays there when they move apart.
LEMMA BoundsMoveApart ==
  ASSUME NEW q \in Reads, NEW K \in SUBSET Rows, NEW S \in SUBSET Rows, PartsWithin(q, K, S),
         NEW L \in SUBSET K, NEW T \in SUBSET Rows, S \subseteq T
  PROVE  PartsWithin(q, L, T)
<1> DEFINE n(X) == Cardinality(Listable(q, X))
<1>1. /\ n(L) \in Nat /\ n(K) \in Nat /\ n(S) \in Nat /\ n(T) \in Nat
      /\ n(L) <= n(K) /\ n(S) <= n(T) /\ Listable(q, S) \subseteq Listable(q, T)
  BY CountsGrow
<1> HIDE DEF n
<1>2. ASSUME q.fetched
      PROVE  /\ q.page \in Paging /\ q.rows \subseteq Listable(q, T)
             /\ PageLength(n(L), q.page) <= Cardinality(q.rows)
             /\ Cardinality(q.rows) <= PageLength(n(T), q.page)
  <2>1. /\ q.page \in Paging /\ q.rows \subseteq Listable(q, S)
        /\ PageLength(n(K), q.page) <= Cardinality(q.rows)
        /\ Cardinality(q.rows) <= PageLength(n(S), q.page)
    BY <1>2 DEF PartsWithin, n
  <2>2. /\ PageLength(n(L), q.page) <= PageLength(n(K), q.page)
        /\ PageLength(n(S), q.page) <= PageLength(n(T), q.page)
        /\ PageLength(n(L), q.page) \in Nat /\ PageLength(n(K), q.page) \in Nat
        /\ PageLength(n(S), q.page) \in Nat /\ PageLength(n(T), q.page) \in Nat
    BY <1>1, <2>1, PagesGrow
  <2>3. Cardinality(q.rows) \in Nat
    <3>1. IsFiniteSet(Rows) /\ q.rows \subseteq Rows
      BY InventoryAssumption, FS_Union DEF Rows, Reads
    <3> QED BY <3>1, FS_Subset, FS_CardinalityType
  <2> QED BY <1>1, <2>1, <2>2, <2>3
<1>3. q.total >= 0 => n(L) <= q.total /\ q.total <= n(T)
  BY <1>1 DEF PartsWithin, n, Reads
<1> QED BY <1>2, <1>3 DEF PartsWithin, n

-----------------------------------------------------------------------------
(* Init and the steps of one request                                       *)

LEMMA NoReadOK ==
  /\ NoRead \in Reads /\ ReadOK(NoRead)
  /\ NoRead.at = "idle" /\ NoRead.total = -1 /\ NoRead.fetched = FALSE
  /\ NoRead.rows = {} /\ NoRead.stations = {} /\ NoRead.plugs = {}
  /\ \A K, S : PartsWithin(NoRead, K, S)
<1>1. NoRead \in Reads
  BY DEF NoRead, Reads, Labels
<1>2. ReadOK(NoRead)
  BY InventoryAssumption DEF NoRead, ReadOK, PlugKinds
<1>3. /\ NoRead.at = "idle" /\ NoRead.total = -1 /\ NoRead.fetched = FALSE
      /\ NoRead.rows = {} /\ NoRead.stations = {} /\ NoRead.plugs = {}
  BY DEF NoRead
<1> QED BY <1>1, <1>2, <1>3 DEF PartsWithin

LEMMA InitInv == Init => IInv
<1> SUFFICES ASSUME Init PROVE IInv
  OBVIOUS
<1>1. TablesOK
  BY InventoryAssumption DEF Init, TablesOK, Visibility, PlugExists, StationExists
<1>2. RequestsOK
  BY NoReadOK DEF Init, RequestsOK
<1>3. SeenSoFar
  BY NoReadOK DEF Init, SeenSoFar, Found
<1>4. WithinSoFar
  BY NoReadOK DEF Init, WithinSoFar
<1> QED BY <1>1, <1>2, <1>3, <1>4 DEF IInv, InventoryTypeOK

LEMMA VisibleAreRows == ASSUME NEW q PROVE MayShow(q) \subseteq Rows
BY DEF MayShow, Rows

LEMMA TablesStay == TablesOK /\ UNCHANGED tables => TablesOK'
BY DEF TablesOK, tables, PlugExists, StationExists, LocationExists

\* A request that goes on, or begins, with x.
LEMMA StepInv ==
  ASSUME IInv, UNCHANGED tables, NEW r \in Requests, NEW x \in Reads, NEW K \in SUBSET Rows,
         NEW S \in SUBSET Rows,
         req' = [req EXCEPT ![r] = x], kept' = [kept EXCEPT ![r] = K],
         seen' = [seen EXCEPT ![r] = S],
         ReadOK(x), PartsWithin(x, K, S),
         x.at # "idle" => K \subseteq MayShow(x) /\ MayShow(x) \subseteq S,
         x.at \in Found => Shown(x) \subseteq S,
         x.at \in {"location", "station"} => x.stations = {},
         x.at \notin {"page", "done"} => x.rows = {} /\ x.plugs = {}
  PROVE  IInv'
<1>1. TablesOK'
  BY TablesStay DEF IInv, InventoryTypeOK
<1>2. req \in [Requests -> Reads] /\ seen \in [Requests -> SUBSET Rows]
      /\ kept \in [Requests -> SUBSET Rows]
  BY DEF IInv, InventoryTypeOK, RequestsOK
<1>3. /\ req'[r] = x /\ seen'[r] = S /\ kept'[r] = K
      /\ \A t \in Requests \ {r} : req'[t] = req[t] /\ seen'[t] = seen[t] /\ kept'[t] = kept[t]
  BY <1>2
<1>4. RequestsOK'
  <2>1. /\ req' \in [Requests -> Reads] /\ seen' \in [Requests -> SUBSET Rows]
        /\ kept' \in [Requests -> SUBSET Rows]
    BY <1>2
  <2>2. \A t \in Requests : ReadOK(req'[t])
    BY <1>3 DEF IInv, InventoryTypeOK, RequestsOK
  <2> QED BY <2>1, <2>2 DEF RequestsOK, ReadOK
<1>5. SeenSoFar'
  <2> SUFFICES ASSUME NEW t \in Requests
               PROVE  /\ req'[t].at # "idle" => /\ kept'[t] \subseteq MayShow(req[t])'
                                                /\ MayShow(req[t])' \subseteq seen'[t]
                      /\ req'[t].at \in Found => Shown(req'[t]) \subseteq seen'[t]
                      /\ req'[t].at \in {"location", "station"} => req'[t].stations = {}
                      /\ req'[t].at \notin {"page", "done"} => req'[t].rows = {} /\ req'[t].plugs = {}
    BY DEF SeenSoFar, Shown
  <2>1. MayShow(req[t])' = MayShow(req'[t])
    BY DEF tables, MayShow, MayShowLocation, MayShowStation, MayShowPlug, LivePlug, LiveLocation,
       PlugExists, LocationExists, StationExists, Public
  <2>2. CASE t = r
    BY <1>3, <2>1, <2>2
  <2>3. CASE t # r
    BY <1>3, <2>1, <2>3 DEF IInv, SeenSoFar
  <2> QED BY <2>2, <2>3
<1>6. WithinSoFar'
  <2>1. \A t \in Requests : PartsWithin(req'[t], kept'[t], seen'[t])
    BY <1>3 DEF IInv, WithinSoFar
  <2> QED BY <2>1 DEF WithinSoFar, PartsWithin, Listable
<1> QED BY <1>1, <1>4, <1>5, <1>6 DEF IInv, InventoryTypeOK

LEMMA LeaveInv == ASSUME IInv, NEW r \in Requests, Leave(r) PROVE IInv'
BY StepInv, NoReadOK DEF Leave, Found

\* A request that begins with the question q.
LEMMA BeginInv ==
  ASSUME IInv, NEW r \in Requests, NEW q \in Reads, Begin(r, q), ReadOK(q),
         q.at \in {"page", "location", "station"}, q.at = "page" => q.id = None,
         q.rows = {}, q.stations = {}, q.plugs = {}, q.total = -1, q.fetched = FALSE
  PROVE  IInv'
<1>1. MayShow(q) \in SUBSET Rows
  BY VisibleAreRows
<1>2. Shown(q) \subseteq MayShow(q) \/ q.at # "page"
  BY DEF Shown
<1>3. PartsWithin(q, MayShow(q), MayShow(q))
  BY DEF PartsWithin
<1> QED BY <1>1, <1>2, <1>3, StepInv DEF Begin, Found

\* A request that goes on with x, the same question with more of its answer.
LEMMA ContinueInv ==
  ASSUME IInv, NEW r \in Requests, NEW x \in Reads, Continue(r, x), ReadOK(x),
         SameQuestion(req[r], x), req[r].at # "idle", x.at \in Found,
         x.at \notin {"page", "done"} => x.rows = {} /\ x.plugs = {},
         Shown(x) \subseteq seen[r], PartsWithin(x, kept[r], seen[r])
  PROVE  IInv'
<1>1. /\ kept[r] \in SUBSET Rows /\ kept' = [kept EXCEPT ![r] = kept[r]]
      /\ seen[r] \in SUBSET Rows /\ seen' = [seen EXCEPT ![r] = seen[r]]
  BY DEF IInv, InventoryTypeOK, RequestsOK, Continue
<1>2. kept[r] \subseteq MayShow(x) /\ MayShow(x) \subseteq seen[r]
  BY SameAnswers DEF IInv, SeenSoFar
<1> QED BY <1>1, <1>2, StepInv DEF Continue, Found

-----------------------------------------------------------------------------
(* The steps of the reads                                                  *)

LEMMA CallListInv == ASSUME IInv, NEW r \in Requests, CallList(r) PROVE IInv'
<1>1. PICK k \in Lists : \E c \in Callers(k), n \in Paging :
        Begin(r, [NoRead EXCEPT !.at = "page", !.kind = k, !.user = c[1], !.tenant = c[2], !.page = n])
  BY DEF CallList
<1>2. PICK c \in Callers(k), n \in Paging :
        Begin(r, [NoRead EXCEPT !.at = "page", !.kind = k, !.user = c[1], !.tenant = c[2], !.page = n])
  BY <1>1
<1> DEFINE q == [NoRead EXCEPT !.at = "page", !.kind = k, !.user = c[1], !.tenant = c[2], !.page = n]
<1>3. c[1] \in Users \cup {None} /\ c[2] \in Tenants \cup {None}
  BY DEF Callers
<1>4. q \in Reads
  BY <1>3, NoReadOK DEF Reads, Labels, Lists, Kinds
<1>5. ReadOK(q)
  BY DEF NoRead, ReadOK, Lists, Kinds
<1>6. /\ q.at = "page" /\ q.id = None /\ q.rows = {} /\ q.stations = {} /\ q.plugs = {}
      /\ q.total = -1 /\ q.fetched = FALSE
  BY DEF NoRead
<1> QED BY <1>2, <1>4, <1>5, <1>6, BeginInv

LEMMA CallLocationInv == ASSUME IInv, NEW r \in Requests, CallLocation(r) PROVE IInv'
<1>1. PICK k \in LocationKinds, l \in Locations : \E c \in Callers(k) :
        Begin(r, [NoRead EXCEPT !.at = "location", !.kind = k, !.user = c[1], !.tenant = c[2], !.id = l])
  BY DEF CallLocation
<1>2. PICK c \in Callers(k) :
        Begin(r, [NoRead EXCEPT !.at = "location", !.kind = k, !.user = c[1], !.tenant = c[2], !.id = l])
  BY <1>1
<1> DEFINE q == [NoRead EXCEPT !.at = "location", !.kind = k, !.user = c[1], !.tenant = c[2], !.id = l]
<1>3. c[1] \in Users \cup {None} /\ c[2] \in Tenants \cup {None}
  BY DEF Callers
<1>4. q \in Reads
  BY <1>3, NoReadOK DEF Reads, Labels, LocationKinds, Kinds, Rows
<1>5. ReadOK(q)
  BY DEF NoRead, ReadOK, LocationKinds, PlugKinds, Kinds
<1>6. /\ q.at = "location" /\ q.rows = {} /\ q.stations = {} /\ q.plugs = {}
      /\ q.total = -1 /\ q.fetched = FALSE
  BY DEF NoRead
<1> QED BY <1>2, <1>4, <1>5, <1>6, BeginInv

LEMMA CallStationInv == ASSUME IInv, NEW r \in Requests, CallStation(r) PROVE IInv'
<1>1. PICK k \in StationKinds, s \in Stations : \E c \in Callers(k) :
        Begin(r, [NoRead EXCEPT !.at = "station", !.kind = k, !.user = c[1], !.tenant = c[2], !.id = s])
  BY DEF CallStation
<1>2. PICK c \in Callers(k) :
        Begin(r, [NoRead EXCEPT !.at = "station", !.kind = k, !.user = c[1], !.tenant = c[2], !.id = s])
  BY <1>1
<1> DEFINE q == [NoRead EXCEPT !.at = "station", !.kind = k, !.user = c[1], !.tenant = c[2], !.id = s]
<1>3. c[1] \in Users \cup {None} /\ c[2] \in Tenants \cup {None}
  BY DEF Callers
<1>4. q \in Reads
  BY <1>3, NoReadOK DEF Reads, Labels, StationKinds, Kinds, Rows
<1>5. ReadOK(q)
  BY DEF NoRead, ReadOK, StationKinds, PlugKinds, Kinds
<1>6. /\ q.at = "station" /\ q.rows = {} /\ q.stations = {} /\ q.plugs = {}
      /\ q.total = -1 /\ q.fetched = FALSE
  BY DEF NoRead
<1> QED BY <1>2, <1>4, <1>5, <1>6, BeginInv

LEMMA CallPlugsInv == ASSUME IInv, NEW r \in Requests, CallPlugs(r) PROVE IInv'
<1>1. PICK k \in PlugKinds, s \in Stations, n \in Paging : \E c \in Callers(k) :
        Begin(r, [NoRead EXCEPT !.at = "station", !.kind = k, !.user = c[1], !.tenant = c[2],
                                !.id = s, !.page = n])
  BY DEF CallPlugs
<1>2. PICK c \in Callers(k) :
        Begin(r, [NoRead EXCEPT !.at = "station", !.kind = k, !.user = c[1], !.tenant = c[2],
                                !.id = s, !.page = n])
  BY <1>1
<1> DEFINE q == [NoRead EXCEPT !.at = "station", !.kind = k, !.user = c[1], !.tenant = c[2],
                               !.id = s, !.page = n]
<1>3. c[1] \in Users \cup {None} /\ c[2] \in Tenants \cup {None}
  BY DEF Callers
<1>4. q \in Reads
  BY <1>3, NoReadOK DEF Reads, Labels, PlugKinds, Kinds, Rows
<1>5. ReadOK(q)
  BY DEF NoRead, ReadOK, PlugKinds, Kinds
<1>6. /\ q.at = "station" /\ q.rows = {} /\ q.stations = {} /\ q.plugs = {}
      /\ q.total = -1 /\ q.fetched = FALSE
  BY DEF NoRead
<1> QED BY <1>2, <1>4, <1>5, <1>6, BeginInv

\* What the invariant says of the request that takes a step.
LEMMA InHand ==
  ASSUME IInv, NEW r \in Requests
  PROVE  /\ TablesOK /\ req[r] \in Reads /\ ReadOK(req[r])
         /\ PartsWithin(req[r], kept[r], seen[r])
         /\ seen[r] \in SUBSET Rows /\ kept[r] \in SUBSET Rows
         /\ req[r].at # "idle" => kept[r] \subseteq MayShow(req[r]) /\ MayShow(req[r]) \subseteq seen[r]
         /\ req[r].at \in Found => Shown(req[r]) \subseteq seen[r]
         /\ req[r].at \in {"location", "station"} => req[r].stations = {}
         /\ req[r].at \notin {"page", "done"} => req[r].rows = {} /\ req[r].plugs = {}
BY DEF IInv, InventoryTypeOK, RequestsOK, SeenSoFar, WithinSoFar

\* Nothing is found but what may be shown.
LEMMA FindLocationInv == ASSUME IInv, NEW r \in Requests, FindLocation(r) PROVE IInv'
<1> DEFINE q == req[r]
           x == [q EXCEPT !.at = "stations"]
<1>1. q.at = "location" /\ q.id \in Locations /\ q.kind \in LocationKinds
  BY InHand DEF FindLocation, At, ReadOK
<1>2. CASE Leave(r)
  BY <1>2, LeaveInv
<1>3. CASE /\ Continue(r, x)
           /\ LiveLocation(q.id)
           /\ IF q.kind = "location" THEN loc[q.id] = "public" ELSE LocationOwner[q.id] = q.tenant
  <2>1. /\ x \in Reads /\ ReadOK(x) /\ SameQuestion(q, x) /\ x.at = "stations"
        /\ x.rows = {} /\ x.plugs = {}
    BY <1>1, InHand DEF Reads, Labels, ReadOK, SameQuestion, NoRead
  <2>2. q.id \in MayShow(q)
    BY <1>1, <1>3 DEF MayShow, MayShowLocation, Public, PublicKinds, LocationKinds
  <2>3. Shown(x) \subseteq seen[r]
    BY <1>1, <2>2, InHand DEF Shown, Reads
  <2>4. PartsWithin(x, kept[r], seen[r])
    BY <1>1, InHand DEF PartsWithin, Reads
  <2> HIDE DEF x
  <2> QED BY <1>1, <1>3, <2>1, <2>3, <2>4, ContinueInv DEF Found
<1> QED BY <1>2, <1>3 DEF FindLocation

LEMMA ReadStationsInv == ASSUME IInv, NEW r \in Requests, ReadStations(r) PROVE IInv'
<1> DEFINE q  == req[r]
           ss == IF q.kind = "location" THEN PublicStationsAt(q.id) ELSE AllStationsAt(q.id)
           x  == [q EXCEPT !.stations = ss, !.at = IF ss = {} THEN "done" ELSE "plugs"]
<1>1. q.at = "stations" /\ q.id \in Locations /\ q.kind \in LocationKinds /\ Continue(r, x)
  BY InHand DEF ReadStations, At, ReadOK
<1>2. ss = MayShow(q) \cap Stations
  BY <1>1, InHand, StationsAreVisible DEF LocationKinds
<1>3. x \in Reads
  <2>1. ss \in SUBSET Stations /\ (IF ss = {} THEN "done" ELSE "plugs") \in Labels
    BY <1>2 DEF Labels
  <2> HIDE DEF ss
  <2> QED BY <2>1, InHand DEF Reads
<1>4. /\ SameQuestion(q, x) /\ x.at \in {"done", "plugs"} /\ x.stations = ss
      /\ x.rows = q.rows /\ x.plugs = q.plugs /\ x.total = q.total /\ x.fetched = q.fetched
      /\ x.page = q.page /\ (x.at = "done" => ss = {})
  BY InHand DEF SameQuestion, Reads
<1>5. ReadOK(x)
  BY <1>1, <1>4, InHand, NoReadOK DEF ReadOK, SameQuestion, LocationKinds, PlugKinds, Lists
<1>6. Shown(x) \subseteq seen[r]
  <2>1. Shown(q) \subseteq seen[r] /\ ss \subseteq seen[r] /\ x.id = q.id
    BY <1>1, <1>2, <1>4, InHand DEF Found, SameQuestion
  <2>2. \A p \in (x.rows \cup x.stations \cup x.plugs) \cap Plugs : StationOf[p] \in seen[r]
    BY <1>2, <1>4, <2>1, InventoryAssumption DEF Shown
  <2> QED BY <1>4, <2>1, <2>2, ShownGrows DEF Shown
<1>7. q.kind \notin Lists \cup PlugKinds
  BY <1>1 DEF LocationKinds, Lists, PlugKinds
<1>8. PartsWithin(x, kept[r], seen[r])
  <2>1. ~x.fetched /\ x.total = -1
    BY <1>1, <1>4, InHand DEF PartsWithin
  <2>2. kept[r] \cap Stations \subseteq ss
    BY <1>1, <1>2, InHand
  <2> HIDE DEF x, ss
  <2> QED BY <1>4, <2>1, <2>2 DEF PartsWithin
<1>9. x.rows = {} /\ x.plugs = {}
  BY <1>1, <1>4, InHand
<1> HIDE DEF x, ss
<1> QED BY <1>1, <1>3, <1>4, <1>5, <1>6, <1>8, <1>9, ContinueInv DEF Found

LEMMA ReadPlugsInv == ASSUME IInv, NEW r \in Requests, ReadPlugs(r) PROVE IInv'
<1> DEFINE q  == req[r]
           ps == PlugsForStations(q.stations)
           x  == [q EXCEPT !.plugs = ps, !.at = "done"]
<1>1. q.at = "plugs" /\ q.id \in Locations /\ q.kind \in LocationKinds /\ Continue(r, x)
  BY InHand DEF ReadPlugs, At, ReadOK
<1>2. ps = {p \in MayShow(q) \cap Plugs : StationOf[p] \in q.stations}
  BY <1>1, PlugsAreVisible
<1>3. x \in Reads
  BY <1>2, InHand DEF Reads, Labels
<1>4. /\ SameQuestion(q, x) /\ x.at = "done" /\ x.plugs = ps /\ x.stations = q.stations
      /\ x.rows = {} /\ x.total = q.total /\ x.fetched = q.fetched /\ x.page = q.page
  BY <1>1, InHand DEF SameQuestion, Reads
<1> HIDE DEF x, ps
<1>5. ReadOK(x)
  BY <1>1, <1>4, InHand, NoReadOK DEF ReadOK, SameQuestion, LocationKinds, PlugKinds, Lists
<1>6. Shown(x) \subseteq seen[r]
  <2>1. Shown(q) \subseteq seen[r] /\ MayShow(q) \subseteq seen[r] /\ x.id = q.id
    BY <1>1, <1>4, InHand DEF Found, SameQuestion
  <2>2. q.stations \subseteq seen[r] /\ ps \subseteq seen[r]
    BY <1>2, <2>1 DEF Shown
  <2>3. q.stations \cap Plugs = {}
    BY InHand, InventoryAssumption DEF Reads
  <2>4. \A p \in (x.rows \cup x.stations \cup x.plugs) \cap Plugs : StationOf[p] \in seen[r]
    BY <1>2, <1>4, <2>2, <2>3
  <2> QED BY <1>4, <2>1, <2>2, <2>4, ShownGrows
<1>7. q.kind \notin Lists \cup PlugKinds
  BY <1>1 DEF LocationKinds, Lists, PlugKinds
<1>8. PartsWithin(x, kept[r], seen[r])
  <2>1. ~x.fetched /\ x.total = -1
    BY <1>1, <1>4, InHand DEF PartsWithin
  <2>2. kept[r] \cap Stations \subseteq q.stations
    BY <1>1, InHand DEF PartsWithin
  <2>3. {p \in kept[r] \cap Plugs : StationOf[p] \in q.stations} \subseteq ps
    BY <1>1, <1>2, InHand
  <2> QED BY <1>4, <2>1, <2>2, <2>3 DEF PartsWithin
<1> QED BY <1>1, <1>3, <1>4, <1>5, <1>6, <1>8, ContinueInv DEF Found

LEMMA FindStationInv == ASSUME IInv, NEW r \in Requests, FindStation(r) PROVE IInv'
<1> DEFINE q == req[r]
           x == [q EXCEPT !.at = IF q.kind \in PlugKinds THEN "page" ELSE "done"]
<1>1. q.at = "station" /\ q.id \in Stations /\ q.kind \in StationKinds \cup PlugKinds
  BY InHand DEF FindStation, At, ReadOK
<1>2. CASE Leave(r)
  BY <1>2, LeaveInv
<1>3. CASE /\ Continue(r, x)
           /\ q.id \in IF Public(q) THEN PublicStations ELSE TenantStations(q.tenant)
  <2>1. /\ x \in Reads /\ SameQuestion(q, x) /\ x.page = q.page
        /\ x.at = IF q.kind \in PlugKinds THEN "page" ELSE "done"
        /\ x.rows = {} /\ x.plugs = {} /\ x.stations = {}
        /\ ~x.fetched /\ x.total = -1
    BY <1>1, InHand DEF Reads, Labels, SameQuestion, PartsWithin
  <2> HIDE DEF x
  <2>2. q.id \in MayShow(q)
    BY <1>1, <1>3 DEF MayShow, MayShowStation, Public, PublicKinds, PublicStations, TenantStations,
       StationExists, StationKinds, PlugKinds, LocationKinds
  <2>3. Shown(x) \subseteq seen[r]
    BY <1>1, <2>1, <2>2, InHand DEF Shown, SameQuestion
  <2>4. ReadOK(x)
    BY <1>1, <2>1, InHand, NoReadOK DEF ReadOK, SameQuestion, StationKinds, PlugKinds, Lists
  <2>5. PartsWithin(x, kept[r], seen[r])
    BY <1>1, <2>1 DEF PartsWithin, SameQuestion, StationKinds, PlugKinds, LocationKinds, Lists
  <2> QED BY <1>1, <1>3, <2>1, <2>3, <2>4, <2>5, ContinueInv DEF Found
<1> QED BY <1>2, <1>3 DEF FindStation

\* Either query of a page may complete the answer.
LEMMA PageDoneIs ==
  ASSUME NEW q \in Reads, q.at = "page"
  PROVE  LET x == PageDone(q) IN
         /\ x \in Reads /\ SameQuestion(q, x) /\ x.page = q.page /\ x.rows = q.rows
         /\ x.stations = q.stations /\ x.plugs = q.plugs /\ x.total = q.total
         /\ x.fetched = q.fetched /\ x.at \in {"page", "done"}
         /\ x.at = "done" => q.fetched /\ q.total >= 0
BY DEF PageDone, Reads, Labels, SameQuestion

\* A page with more of its answer.
LEMMA PageInv ==
  ASSUME IInv, NEW r \in Requests, req[r].at = "page", NEW q \in Reads, SameQuestion(req[r], q),
         Continue(r, PageDone(q)), q.at = "page", q.page = req[r].page,
         q.stations = req[r].stations, q.plugs = req[r].plugs,
         \/ q.rows = req[r].rows /\ q.fetched = req[r].fetched
         \/ q.rows \in Pages(Listed(q), q.page) /\ q.fetched,
         q.total = req[r].total \/ q.total = Total(q)
  PROVE  IInv'
<1> DEFINE x == PageDone(q)
<1>1. /\ x \in Reads /\ SameQuestion(q, x) /\ x.page = q.page /\ x.rows = q.rows
      /\ x.stations = q.stations /\ x.plugs = q.plugs /\ x.total = q.total
      /\ x.fetched = q.fetched /\ x.at \in {"page", "done"}
      /\ x.at = "done" => q.fetched /\ q.total >= 0
  BY PageDoneIs
<1>2. Continue(r, x)
  OBVIOUS
<1> HIDE DEF x
<1>3. SameQuestion(req[r], x)
  BY <1>1 DEF SameQuestion
<1>4. /\ x.page \in Paging
      /\ \/ x.kind \in Lists /\ x.id = None
         \/ x.kind \in PlugKinds /\ x.id \in Stations
  BY <1>1, <1>3, InHand DEF ReadOK, SameQuestion
<1>5. ReadOK(x)
  BY <1>1, <1>4, NoReadOK DEF ReadOK, Lists, PlugKinds, Kinds
<1>6. /\ Listed(x) = Listed(req[r]) /\ Total(x) = Total(req[r]) /\ MayShow(x) = MayShow(req[r])
      /\ Listed(q) = Listed(x) /\ Total(q) = Total(x)
  BY <1>1, <1>3, SameAnswers
<1>7. PartsWithin(x, kept[r], seen[r])
  <2> DEFINE low == Cardinality(Listable(x, kept[r]))
             all == Cardinality(Listed(x))
             high == Cardinality(Listable(x, seen[r]))
  <2>1. x.kind \notin LocationKinds /\ x.kind \in Lists \cup PlugKinds
    BY <1>4 DEF LocationKinds, Lists, PlugKinds
  <2>2. Listed(x) = Listable(x, MayShow(x)) /\ Total(x) = all
    BY <2>1, InHand, ListedIsVisible
  <2>3. kept[r] \subseteq MayShow(x) /\ MayShow(x) \subseteq seen[r]
        /\ kept[r] \in SUBSET Rows /\ seen[r] \in SUBSET Rows
    BY <1>6, InHand
  <2>4. /\ low \in Nat /\ all \in Nat /\ high \in Nat /\ low <= all /\ all <= high
        /\ Listed(x) \subseteq Listable(x, seen[r])
    BY <2>2, <2>3, CountsGrow
  <2>5. \A S : Listable(x, S) = Listable(req[r], S)
    BY <1>3 DEF Listable, SameQuestion
  <2>6. x.fetched =>
          /\ x.rows \subseteq Listable(x, seen[r])
          /\ PageLength(low, x.page) <= Cardinality(x.rows)
          /\ Cardinality(x.rows) <= PageLength(high, x.page)
    <3>1. CASE x.rows = req[r].rows /\ x.fetched = req[r].fetched
      BY <1>1, <2>5, <3>1, InHand DEF PartsWithin
    <3>2. CASE x.rows \in Pages(Listed(x), x.page)
      <4>1. x.rows \subseteq Listed(x) /\ Cardinality(x.rows) = PageLength(all, x.page)
        BY <3>2 DEF Pages
      <4> HIDE DEF low, all, high
      <4> QED BY <1>4, <2>4, <4>1, PagesGrow
    <3> QED BY <1>1, <1>6, <3>1, <3>2
  <2>7. x.total >= 0 => low <= x.total /\ x.total <= high
    BY <1>1, <1>6, <2>2, <2>4, <2>5, InHand DEF PartsWithin
  <2> QED BY <1>1, <1>4, <2>1, <2>6, <2>7 DEF PartsWithin
<1>8. Shown(x) \subseteq seen[r]
  <2>1. Shown(req[r]) \subseteq seen[r] /\ MayShow(req[r]) \subseteq seen[r] /\ x.id = req[r].id
    BY <1>3, InHand DEF Found, SameQuestion
  <2>2. CASE x.rows = req[r].rows
    BY <1>1, <2>1, <2>2 DEF Shown
  <2>3. CASE x.rows \in Pages(Listed(x), x.page)
    <3>1. x.rows \subseteq Listed(x)
      BY <2>3 DEF Pages
    <3>2. Listed(x) \subseteq MayShow(x)
      BY <1>4, InHand, ListedIsVisible DEF Listable, Lists, PlugKinds
    <3>3. \A p \in x.rows \cap Plugs : StationOf[p] \in seen[r]
      <4>1. CASE x.kind \in PlugKinds
        <5>1. x.id \in Stations /\ x.id \in seen[r]
          BY <1>4, <2>1, <4>1, InventoryAssumption DEF Shown, Lists, PlugKinds
        <5> QED BY <3>1, <4>1, <5>1, InHand, ListedIsVisible
      <4>2. CASE x.kind \in Lists
        BY <3>1, <4>2, InHand, ListedIsVisible, InventoryAssumption DEF Lists
      <4> QED BY <1>4, <4>1, <4>2
    <3>4. \A p \in (x.rows \cup x.stations \cup x.plugs) \cap Plugs : StationOf[p] \in seen[r]
      BY <1>1, <2>1, <3>3 DEF Shown
    <3>5. x.rows \cup x.stations \cup x.plugs \subseteq seen[r]
      BY <1>1, <1>6, <2>1, <3>1, <3>2 DEF Shown
    <3> QED BY <2>1, <3>4, <3>5, ShownGrows
  <2> QED BY <1>1, <1>6, <2>2, <2>3
<1> QED BY <1>1, <1>3, <1>5, <1>7, <1>8, <1>2, ContinueInv DEF Found

LEMMA FetchRowsInv == ASSUME IInv, NEW r \in Requests, FetchRows(r) PROVE IInv'
<1> DEFINE q == req[r]
<1>1. PICK x \in Pages(Listed(q), q.page) :
        Continue(r, PageDone([q EXCEPT !.rows = x, !.fetched = TRUE]))
  BY DEF FetchRows
<1> DEFINE y == [q EXCEPT !.rows = x, !.fetched = TRUE]
<1>2. q.at = "page" /\ q.kind \in Lists \cup PlugKinds
  BY InHand DEF FetchRows, At, ReadOK
<1>3. x \subseteq Rows
  BY <1>1, <1>2, InHand, ListedIsVisible DEF Pages, Lists, PlugKinds, Rows
<1>4. /\ y \in Reads /\ SameQuestion(q, y) /\ y.at = "page" /\ y.page = q.page
      /\ y.stations = q.stations /\ y.plugs = q.plugs /\ y.total = q.total /\ y.rows = x /\ y.fetched
  BY <1>2, <1>3, InHand DEF Reads, SameQuestion
<1> HIDE DEF y
<1>5. Listed(y) = Listed(q)
  BY <1>4, SameAnswers
<1> QED BY <1>1, <1>2, <1>4, <1>5, PageInv DEF y

LEMMA CountRowsInv == ASSUME IInv, NEW r \in Requests, CountRows(r) PROVE IInv'
<1> DEFINE q == req[r]
           y == [q EXCEPT !.total = Total(q)]
<1>1. q.at = "page" /\ q.kind \in Lists \cup PlugKinds /\ Continue(r, PageDone(y))
  BY InHand DEF CountRows, At, ReadOK
<1>2. Total(q) \in Nat
  BY <1>1, InHand, TotalIsNat
<1>3. /\ y \in Reads /\ SameQuestion(q, y) /\ y.at = "page" /\ y.page = q.page /\ y.rows = q.rows
      /\ y.stations = q.stations /\ y.plugs = q.plugs /\ y.fetched = q.fetched /\ y.total = Total(q)
  BY <1>1, <1>2, InHand DEF Reads, SameQuestion
<1>4. Total(y) = Total(q)
  BY <1>3, SameAnswers
<1> HIDE DEF y
<1> QED BY <1>1, <1>3, <1>4, PageInv

-----------------------------------------------------------------------------
(* The steps of the admins                                                 *)

LEMMA WriteTables == ASSUME TablesOK, Write PROVE TablesOK'
<1> USE DEF TablesOK, PlugExists, StationExists, LocationExists
<1>1. ASSUME NEW l \in Locations, CreateLocation(l) \/ UpdateLocation(l) PROVE TablesOK'
  <2>1. PICK v \in Visibility : loc' = [loc EXCEPT ![l] = v]
    BY <1>1 DEF CreateLocation, UpdateLocation
  <2>2. v # "none" /\ UNCHANGED <<sta, plug, gone, access>>
    BY <1>1 DEF CreateLocation, UpdateLocation, Visibility
  <2> QED BY <2>1, <2>2
<1>2. ASSUME NEW l \in Locations, DeleteLocation(l) PROVE TablesOK'
  BY <1>2 DEF DeleteLocation
<1>3. ASSUME NEW joined \in SUBSET (Users \X Locations), ChangeAccess(joined) PROVE TablesOK'
  BY <1>3 DEF ChangeAccess
<1>4. ASSUME NEW s \in Stations, CreateStation(s) \/ UpdateStation(s) PROVE TablesOK'
  <2>1. PICK x \in StationRows : sta' = [sta EXCEPT ![s] = x]
    BY <1>4 DEF CreateStation, UpdateStation
  <2>2. UNCHANGED <<loc, plug, gone, access>>
    BY <1>4 DEF CreateStation, UpdateStation
  <2>3. /\ x \in [visibility : Visibility \cup {"none"}, location : Locations \cup {None},
                  status : StationStatus \cup {None}]
        /\ x.visibility # "none" /\ (x.location # None => loc[x.location] # "none")
    BY DEF StationRows, Visibility
  <2> QED BY <2>1, <2>2, <2>3, InventoryAssumption
<1>5. ASSUME NEW p \in Plugs, CreatePlug(p) \/ UpdatePlug(p) PROVE TablesOK'
  <2>1. PICK m \in Models, x \in PlugStatus : plug' = [plug EXCEPT ![p] = [model |-> m, status |-> x]]
    BY <1>5 DEF CreatePlug, UpdatePlug
  <2>2. UNCHANGED <<loc, sta, gone, access>> /\ sta[StationOf[p]].visibility # "none"
    BY <1>5 DEF CreatePlug, UpdatePlug, LivePlug
  <2> QED BY <2>1, <2>2
<1>6. ASSUME NEW p \in Plugs, DeletePlug(p) PROVE TablesOK'
  BY <1>6 DEF DeletePlug
<1> QED BY <1>1, <1>2, <1>3, <1>4, <1>5, <1>6 DEF Write

\* A change moves the bounds of the requests under way apart.
LEMMA WriteInv == ASSUME IInv, Write, UNCHANGED req, Watch PROVE IInv'
<1>1. TablesOK'
  BY WriteTables DEF IInv, InventoryTypeOK
<1>2. \A r \in Requests :
        /\ kept'[r] = kept[r] \cap (IF req[r].at = "idle" THEN {} ELSE MayShow(req[r])')
        /\ seen'[r] = seen[r] \cup (IF req[r].at = "idle" THEN {} ELSE MayShow(req[r])')
  BY DEF Watch, At
<1>3. \A r \in Requests : MayShow(req[r])' \subseteq Rows
  BY DEF MayShow, Rows
<1>4. /\ kept' \in [Requests -> SUBSET Rows] /\ seen' \in [Requests -> SUBSET Rows]
      /\ req' \in [Requests -> Reads]
  BY <1>3, Zenon DEF Watch, At, IInv, InventoryTypeOK, RequestsOK
<1>5. RequestsOK'
  <2>1. \A r \in Requests : ReadOK(req[r])'
    BY DEF IInv, InventoryTypeOK, RequestsOK, ReadOK
  <2> QED BY <1>4, <2>1 DEF RequestsOK
<1>6. SeenSoFar'
  <2> SUFFICES ASSUME NEW r \in Requests, req[r].at # "idle"
               PROVE  /\ kept'[r] \subseteq MayShow(req[r])' /\ MayShow(req[r])' \subseteq seen'[r]
                      /\ req[r].at \in Found => Shown(req[r]) \subseteq seen'[r]
    BY InHand, NoReadOK DEF SeenSoFar, Found, Shown, ReadOK
  <2> QED BY <1>2, InHand
<1>7. WithinSoFar'
  <2>1. \A r \in Requests : PartsWithin(req[r], kept'[r], seen'[r])
    BY <1>2, <1>4, InHand, BoundsMoveApart
  <2> QED BY <2>1 DEF WithinSoFar, PartsWithin, Listable
<1> QED BY <1>1, <1>5, <1>6, <1>7 DEF IInv, InventoryTypeOK

-----------------------------------------------------------------------------
LEMMA NextInv == IInv /\ [Next]_vars => IInv'
<1> SUFFICES ASSUME IInv, [Next]_vars PROVE IInv'
  OBVIOUS
<1>1. ASSUME NEW r \in Requests, Read(r) PROVE IInv'
  BY <1>1, CallListInv, CallLocationInv, CallStationInv, CallPlugsInv, FindLocationInv,
     ReadStationsInv, ReadPlugsInv, FindStationInv, FetchRowsInv, CountRowsInv, LeaveInv
     DEF Read, Answer, Reject, Fail
<1>2. CASE Write /\ UNCHANGED req /\ Watch
  BY <1>2, WriteInv
<1>3. CASE UNCHANGED vars
  <2>1. IInv' = IInv
    BY <1>3 DEF vars, IInv, InventoryTypeOK, TablesOK, RequestsOK, SeenSoFar, WithinSoFar,
       PartsWithin, Listable, ReadOK, Shown, MayShow, MayShowLocation, MayShowStation,
       MayShowPlug, Public, LivePlug, LiveLocation, PlugExists, LocationExists, StationExists
  <2> QED BY <2>1
<1> QED BY <1>1, <1>2, <1>3 DEF Next

\* IInv holds in every state of the system.
THEOREM InductiveInvariant == Spec => []IInv
BY InitInv, NextInv, PTL DEF Spec

\* Rows are well formed, foreign keys hold, and each read has in hand what its step needs.
THEOREM TypeCorrect == Spec => []InventoryTypeOK
<1>1. IInv => InventoryTypeOK
  BY DEF IInv
<1> QED BY <1>1, InductiveInvariant, PTL

\* An answer shows nothing that its reader might not have been shown at some moment of
\* the request, whatever admins hide, move or delete between its queries.
THEOREM AnswersShowOnlyVisibleRows == Spec => []AnswersWereTrue
<1>1. IInv => AnswersWereTrue
  BY DEF IInv, SeenSoFar, AnswersWereTrue, Found, At
<1> QED BY <1>1, InductiveInvariant, PTL

\* An answer misses nothing that was visible all the time it took, and counts nothing that
\* never was.
THEOREM AnswersStayWithinBounds == Spec => []AnswersMissNothing
<1>1. ASSUME IInv, NEW r \in Requests, req[r].at = "done"
      PROVE  Within(req[r], kept[r], seen[r])
  BY <1>1, InHand DEF ReadOK, PartsWithin, Within
<1>2. IInv => AnswersMissNothing
  BY <1>1 DEF AnswersMissNothing, At
<1> QED BY <1>2, InductiveInvariant, PTL

-----------------------------------------------------------------------------
(* The summaries: one state, any number of rows                            *)

\* By descent: a smallest set of numbers without a greatest one has none to remove.
LEMMA FiniteSetsHaveMaxima ==
  ASSUME NEW S \in SUBSET Nat, IsFiniteSet(S), S # {}
  PROVE  \E m \in S : \A n \in S : n <= m
<1> DEFINE HasMax(T) == \E m \in T : \A n \in T : n <= m
           Bad == {T \in SUBSET S : T # {} /\ ~HasMax(T)}
<1>1. SUFFICES ASSUME Bad # {} PROVE FALSE
  OBVIOUS
<1>2. IsWellFoundedOn(StrictSubsetOrdering(S), SUBSET S)
  BY FS_StrictSubsetOrderingWellFounded, FS_FiniteSubsetsOfFinite
<1>3. PICK T \in Bad : \A U \in Bad : <<U, T>> \notin StrictSubsetOrdering(S)
  <2> HIDE DEF Bad
  <2>1. Bad \subseteq SUBSET S
    BY DEF Bad
  <2> QED BY <1>1, <1>2, <2>1, WFMin, Zenon
<1>4. PICK x \in T : TRUE
  BY <1>3
<1>5. CASE T \ {x} = {}
  BY <1>3, <1>4, <1>5
<1>6. CASE T \ {x} # {}
  <2>1. <<T \ {x}, T>> \in StrictSubsetOrdering(S)
    BY <1>3, <1>4 DEF StrictSubsetOrdering
  <2>2. PICK m \in T \ {x} : \A n \in T \ {x} : n <= m
    BY <1>3, <1>6, <2>1
  <2>3. HasMax(T)
    BY <1>3, <1>4, <2>2
  <2> QED BY <1>3, <2>3
<1> QED BY <1>5, <1>6

\* Pairs of a plug and its station are as many as the plugs.
LEMMA PairsCount ==
  ASSUME NEW ps, IsFiniteSet(ps)
  PROVE  Cardinality({<<StationOf[p], p>> : p \in ps}) = Cardinality(ps)
<1> DEFINE T == {<<StationOf[p], p>> : p \in ps}
           f == [p \in ps |-> <<StationOf[p], p>>]
<1>1. f \in Bijection(ps, T)
  BY DEF Bijection, Injection, Surjection, IsInjective
<1> QED BY <1>1, FS_Bijection DEF ExistsBijection

\* The greatest power among some of the plugs.
LEMMA MaxPowerIs ==
  ASSUME NEW ps, IsFiniteSet(ps), ps # {}, \A p \in ps : plug[p].model[2] \in Nat
  PROVE  /\ MaxPower(ps) \in {plug[p].model[2] : p \in ps}
         /\ \A p \in ps : plug[p].model[2] <= MaxPower(ps)
<1> DEFINE W == {plug[p].model[2] : p \in ps}
<1>1. IsFiniteSet(W)
  <2> DEFINE f == [p \in ps |-> plug[p].model[2]]
  <2>1. f \in Surjection(ps, W)
    BY DEF Surjection
  <2> QED BY <2>1, FS_Surjection
<1>2. W \in SUBSET Nat /\ W # {}
  OBVIOUS
<1> HIDE DEF W
<1>3. PICK w \in W : \A n \in W : n <= w
  BY <1>1, <1>2, FiniteSetsHaveMaxima
<1> USE DEF W
<1>4. \E v \in W : \A p \in ps : plug[p].model[2] <= v
  BY <1>3
<1> QED BY <1>4 DEF MaxPower

\* The rows of the outer join: a pair for each plug, a row without a plug for each
\* station that has none, and a row of nulls when there is no station.
LEMMA JoinIs ==
  ASSUME NEW ss, NEW j
  PROVE  j \in JoinedRows(ss) <=>
           \/ \E p \in PlugsForStations(ss) : ss # {} /\ j = <<StationOf[p], p>>
           \/ \E s \in ss : PlugsByStation(s) = {} /\ j = <<s, None>>
           \/ ss = {} /\ j = <<None, None>>
BY DEF JoinedRows

LEMMA JoinColumns ==
  ASSUME NEW ss \in SUBSET Stations
  PROVE  LET join == JoinedRows(ss)
             ps   == PlugsForStations(ss)
         IN  /\ ps \subseteq Plugs /\ \A p \in ps : StationOf[p] \in ss
             /\ {j[1] : j \in {k \in join : k[1] # None}} = ss
             /\ {j[1] : j \in {k \in join : k[1] # None /\ sta[k[1]].status = "active"}}
                  = {s \in ss : sta[s].status = "active"}
             /\ {j[2] : j \in {k \in join : k[2] # None}} = ps
             /\ {j \in join : j[2] # None} = {<<StationOf[p], p>> : p \in ps}
             /\ {j \in join : j[2] # None /\ plug[j[2]].status = "available"}
                  = {<<StationOf[p], p>> : p \in {p \in ps : plug[p].status = "available"}}
<1> DEFINE join == JoinedRows(ss)
           ps   == PlugsForStations(ss)
<1>1. ps \subseteq Plugs /\ \A p \in ps : StationOf[p] \in ss
  BY DEF PlugsForStations
<1>2. None \notin Plugs /\ None \notin ss
  BY InventoryAssumption
<1>3. \A p \in ps : <<StationOf[p], p>> \in join
  BY <1>1, JoinIs
<1>4. \A s \in ss : \E j \in join : j[1] = s
  <2> SUFFICES ASSUME NEW s \in ss PROVE \E j \in join : j[1] = s
    OBVIOUS
  <2>1. CASE PlugsByStation(s) = {}
    BY <2>1, JoinIs, <<s, None>>[1] = s
  <2>2. ASSUME NEW p \in PlugsByStation(s) PROVE \E j \in join : j[1] = s
    <3>1. p \in ps /\ StationOf[p] = s
      BY <2>2 DEF PlugsByStation, PlugsForStations
    <3> QED BY <1>3, <3>1
  <2> QED BY <2>1, <2>2
<1>5. ASSUME NEW j \in join
      PROVE  /\ j[1] # None => j[1] \in ss
             /\ j[2] # None => j[2] \in ps /\ j = <<StationOf[j[2]], j[2]>>
  BY <1>1, JoinIs
<1> HIDE DEF join, ps
<1>6. {j[1] : j \in {k \in join : k[1] # None}} = ss
  <2>1. \A s \in ss : \E j \in {k \in join : k[1] # None} : j[1] = s
    BY <1>2, <1>4
  <2>2. \A j \in {k \in join : k[1] # None} : j[1] \in ss
    BY <1>5
  <2> QED BY <2>1, <2>2
<1>7. {j[1] : j \in {k \in join : k[1] # None /\ sta[k[1]].status = "active"}}
        = {s \in ss : sta[s].status = "active"}
  <2> DEFINE active == {k \in join : k[1] # None /\ sta[k[1]].status = "active"}
  <2>1. \A s \in {s \in ss : sta[s].status = "active"} : \E j \in active : j[1] = s
    BY <1>2, <1>4
  <2>2. \A j \in active : j[1] \in {s \in ss : sta[s].status = "active"}
    BY <1>5
  <2> HIDE DEF active
  <2>3. {j[1] : j \in active} = {s \in ss : sta[s].status = "active"}
    BY <2>1, <2>2
  <2> QED BY <2>3 DEF active
<1>8. {j[2] : j \in {k \in join : k[2] # None}} = ps
  <2>1. \A p \in ps : \E j \in {k \in join : k[2] # None} : j[2] = p
    <3> SUFFICES ASSUME NEW p \in ps PROVE \E j \in {k \in join : k[2] # None} : j[2] = p
      OBVIOUS
    <3>1. <<StationOf[p], p>> \in join /\ <<StationOf[p], p>>[2] = p /\ p # None
      BY <1>1, <1>2, <1>3
    <3> QED BY <3>1
  <2>2. \A j \in {k \in join : k[2] # None} : j[2] \in ps
    BY <1>5
  <2> QED BY <2>1, <2>2
<1>9. {j \in join : j[2] # None} = {<<StationOf[p], p>> : p \in ps}
  <2>1. \A p \in ps : <<StationOf[p], p>> \in {j \in join : j[2] # None}
    BY <1>1, <1>2, <1>3
  <2>2. \A j \in {j \in join : j[2] # None} : \E p \in ps : j = <<StationOf[p], p>>
    BY <1>5
  <2> QED BY <2>1, <2>2
<1>10. {j \in join : j[2] # None /\ plug[j[2]].status = "available"}
         = {<<StationOf[p], p>> : p \in {p \in ps : plug[p].status = "available"}}
  <2> DEFINE free  == {p \in ps : plug[p].status = "available"}
             pairs == {j \in join : j[2] # None /\ plug[j[2]].status = "available"}
  <2>1. \A p \in free : <<StationOf[p], p>> \in pairs
    BY <1>1, <1>2, <1>3
  <2>2. \A j \in pairs : j[2] \in free /\ j = <<StationOf[j[2]], j[2]>>
    BY <1>5
  <2> HIDE DEF free, pairs
  <2>3. pairs = {<<StationOf[p], p>> : p \in free}
    BY <2>1, <2>2
  <2> QED BY <2>3 DEF free, pairs
<1> QED BY <1>1, <1>6, <1>7, <1>8, <1>9, <1>10 DEF join, ps

\* A location's summary, whatever its stations, from rows that are well typed.
LEMMA SummaryIsExact ==
  ASSUME TablesOK, NEW ss \in SUBSET Stations
  PROVE  SummaryExact(ss)
<1> DEFINE join == JoinedRows(ss)
           ps   == PlugsForStations(ss)
           x    == Summary(ss)
           high == ps # {} /\ MaxPower(ps) >= HIGH_POWER_KW
<1>1. ps \subseteq Plugs /\ {j[2] : j \in {k \in join : k[2] # None}} = ps
  BY JoinColumns
<1>2. /\ x.stationCount = StationCount(join)
      /\ x.activeStationCount =
           Cardinality({j[1] : j \in {k \in join : k[1] # None /\ sta[k[1]].status = "active"}})
      /\ x.total = Cardinality({j \in join : j[2] # None})
      /\ x.available = Cardinality({j \in join : j[2] # None /\ plug[j[2]].status = "available"})
      /\ x.maxPowerKw = MaxPower(ps)
      /\ x.hasHighPowerCharging = high
      /\ x.connectorTypes = {plug[p].model[1] : p \in ps}
  BY <1>1 DEF Summary
<1>3. IsFiniteSet(ps) /\ IsFiniteSet({p \in ps : plug[p].status = "available"})
  BY <1>1, InventoryAssumption, FS_Subset
<1>4. x.stationCount = Cardinality(ss)
  BY <1>2, JoinColumns DEF StationCount
<1>5. x.activeStationCount = Cardinality({s \in ss : sta[s].status = "active"})
  BY <1>2, JoinColumns
<1>6. x.total = Cardinality(ps)
  BY <1>2, <1>3, JoinColumns, PairsCount
<1>7. x.available = Cardinality({p \in ps : plug[p].status = "available"})
  BY <1>2, <1>3, JoinColumns, PairsCount
<1>8. \A p \in ps : plug[p].model[2] \in Nat
  BY InventoryAssumption DEF PlugsForStations, LivePlug, PlugExists, TablesOK
<1>9. IF ps = {} THEN MaxPower(ps) = None
      ELSE /\ MaxPower(ps) \in {plug[p].model[2] : p \in ps}
           /\ \A p \in ps : plug[p].model[2] <= MaxPower(ps)
  <2>1. CASE ps = {}
    BY <2>1 DEF MaxPower
  <2>2. CASE ps # {}
    <3> HIDE DEF ps
    <3> QED BY <1>3, <1>8, <2>2, MaxPowerIs
  <2> QED BY <2>1, <2>2
<1>10. high = (\E p \in ps : plug[p].model[2] >= HIGH_POWER_KW)
  <2>1. CASE ps = {}
    BY <2>1
  <2>2. CASE ps # {}
    <3> HIDE DEF ps
    <3>1. MaxPower(ps) >= HIGH_POWER_KW <=> \E p \in ps : plug[p].model[2] >= HIGH_POWER_KW
      BY <1>8, <1>9, <2>2 DEF HIGH_POWER_KW
    <3> QED BY <2>2, <3>1
  <2> QED BY <2>1, <2>2
<1> HIDE DEF x, high, ps, join
<1>11. SummaryExact(ss) <=>
         /\ x.stationCount = Cardinality(ss)
         /\ x.activeStationCount = Cardinality({s \in ss : sta[s].status = "active"})
         /\ x.total = Cardinality(ps)
         /\ x.available = Cardinality({p \in ps : plug[p].status = "available"})
         /\ IF ps = {} THEN x.maxPowerKw = None
            ELSE /\ x.maxPowerKw \in {plug[p].model[2] : p \in ps}
                 /\ \A p \in ps : plug[p].model[2] <= x.maxPowerKw
         /\ x.hasHighPowerCharging = (\E p \in ps : plug[p].model[2] >= HIGH_POWER_KW)
         /\ x.connectorTypes = {plug[p].model[1] : p \in ps}
  BY DEF SummaryExact, PlugsForStations, x, ps
<1> QED BY <1>2, <1>4, <1>5, <1>6, <1>7, <1>9, <1>10, <1>11

\* On any tables the rows of the outer join summarise to what there is, each station
\* and plug counted once.
THEOREM SummariesAreExact == Spec => []SummariesExact
<1>1. ASSUME TablesOK, NEW l \in Locations
      PROVE  SummaryExact(PublicStationsAt(l)) /\ SummaryExact(AllStationsAt(l))
  <2>1. PublicStationsAt(l) \in SUBSET Stations /\ AllStationsAt(l) \in SUBSET Stations
    BY DEF PublicStationsAt, AllStationsAt, PublicStations
  <2> QED BY <1>1, <2>1, SummaryIsExact
<1>2. IInv => SummariesExact
  BY <1>1 DEF IInv, InventoryTypeOK, SummariesExact
<1> QED BY <1>2, InductiveInvariant, PTL
=============================================================================
