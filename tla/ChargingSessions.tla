------------------------- MODULE ChargingSessions -------------------------
(***************************************************************************)
(* Starting and ending charging sessions (SessionsService), while admins   *)
(* change the prices (module Pricing), move stations and remove plugs.     *)
(* startSession and endSession run no transaction: each of their queries   *)
(* is a step of its own, and any other request may come in between.        *)
(***************************************************************************)
EXTENDS Pricing, Naturals

CONSTANTS
  Plugs, Stations, Sessions, Requests,
  StationOf,      \* station_id of each plug
  StationOwner,   \* tenant_id of each station
  Roles           \* user_tenant_roles: who may act, in which tenant

ASSUME SessionsAssumption ==
  /\ StationOf \in [Plugs -> Stations]
  /\ StationOwner \in [Stations -> Tenants]
  /\ Roles \subseteq Users \X Tenants
  /\ None \notin Users \cup Plugs \cup Sessions

VARIABLES
  location,   \* location_id of each station, or None
  removed,    \* the plugs with deleted_at set
  row,        \* charging_sessions; status "none" before the insert
  call,       \* the handler each request is running, with its local variables
  endings,    \* history: how often a session's row was changed to completed
  after       \* history: the sessions that existed when a session's start checked the plug

sessionVars == <<location, removed, row, call, endings, after>>
vars == <<pricingVars, sessionVars>>

NoRow  == [user |-> None, plug |-> None, tenant |-> None, tariff |-> None, status |-> "none"]
\* seen and gone are history: the sessions there were when the start checked the
\* plug, and whether the plug had been removed when the request came.
NoCall == [at |-> "idle", user |-> None, tenant |-> None, plug |-> None,
           loc |-> None, tariff |-> None, session |-> None, seen |-> {}, gone |-> FALSE]

Labels == {"idle", "plug", "busy", "station", "direct", "zone", "insert", "check", "end"}

Rows == [user : Users \cup {None}, plug : Plugs \cup {None}, tenant : Tenants \cup {None},
         tariff : Tariffs \cup {None}, status : {"none", "active", "completed"}]

Calls == [at : Labels, user : Users \cup {None}, tenant : Tenants \cup {None},
          plug : Plugs \cup {None}, loc : Locations \cup {None},
          tariff : Tariffs \cup {None}, session : Sessions \cup {None},
          seen : SUBSET Sessions, gone : BOOLEAN]

Exists(s) == row[s].status # "none"
Active(s) == row[s].status = "active"
Starting  == {"plug", "busy", "station", "direct", "zone", "insert"}

\* The types of the variables, and what a handler has in hand at each step: the
\* tariff queries have a location, the update a session that exists.
SessionTypeOK ==
  /\ PricingTypeOK
  /\ location \in [Stations -> Locations \cup {None}]
  /\ removed \subseteq Plugs
  /\ row \in [Sessions -> Rows]
  /\ call \in [Requests -> Calls]
  /\ endings \in [Sessions -> Nat]
  /\ after \in [Sessions -> SUBSET Sessions]
  /\ \A s \in Sessions :
       /\ ~Exists(s) => row[s] = NoRow
       /\ Exists(s) => <<row[s].user, row[s].tenant>> \in Roles /\ row[s].plug \in Plugs
  /\ \A r \in Requests : LET c == call[r] IN
       /\ c.at = "idle" => c = NoCall
       /\ c.at # "idle" => <<c.user, c.tenant>> \in Roles
       /\ c.at \in Starting => c.plug \in Plugs
       /\ c.at \in {"direct", "zone"} => c.loc \in Locations
       /\ c.at = "check" => c.session \in Sessions
       /\ c.at = "end" => c.session \in Sessions /\ Exists(c.session)

Init ==
  /\ PricingInit
  /\ location = [t \in Stations |-> None]
  /\ removed = {}
  /\ row = [s \in Sessions |-> NoRow]
  /\ call = [r \in Requests |-> NoCall]
  /\ endings = [s \in Sessions |-> 0]
  /\ after = [s \in Sessions |-> {}]

-----------------------------------------------------------------------------
(* Helpers                                                                 *)

At(r, label) == call[r].at = label

\* The handler of r goes on to its next query, or ends with an answer or error.
Goto(r, label) == call' = [call EXCEPT ![r].at = label]
Leave(r)       == call' = [call EXCEPT ![r] = NoCall]

\* Bound: Sessions still holds an id for every start under way.
RowsLeft == Cardinality({s \in Sessions : ~Exists(s)}) >
            Cardinality({r \in Requests : call[r].at \in Starting})

-----------------------------------------------------------------------------
(* POST /sessions                                                          *)

\* The preHandlers have let u in, as a member of tenant a.
Start(r) ==
  /\ At(r, "idle") /\ RowsLeft
  /\ \E m \in Roles, p \in Plugs :
       call' = [call EXCEPT ![r] = [NoCall EXCEPT !.at = "plug", !.user = m[1],
                                                  !.tenant = m[2], !.plug = p,
                                                  !.gone = p \in removed]]
  /\ UNCHANGED <<pricingVars, location, removed, row, endings, after>>

\* Mutant: the lookup does not leave out the removed plugs.
FindPlug_RemovedToo(r) ==
  /\ At(r, "plug")
  /\ Goto(r, "busy")
  /\ UNCHANGED <<pricingVars, location, removed, row, endings, after>>

\* findPlugById, of whatever tenant: 404 when the plug was removed.
FindPlug(r) ==
  /\ At(r, "plug")
  /\ IF call[r].plug \in removed THEN Leave(r) ELSE Goto(r, "busy")
  /\ UNCHANGED <<pricingVars, location, removed, row, endings, after>>

\* Mutant: only the caller's own sessions are looked at.
FindActive_OfCaller(r) ==
  /\ At(r, "busy")
  /\ IF \E s \in Sessions : Active(s) /\ row[s].plug = call[r].plug /\ row[s].user = call[r].user
     THEN Leave(r)
     ELSE call' = [call EXCEPT ![r].at = "station", ![r].seen = {s \in Sessions : Exists(s)}]
  /\ UNCHANGED <<pricingVars, location, removed, row, endings, after>>

\* findActiveSessionByPlug: 409 when the plug is in use.
FindActive(r) ==
  /\ At(r, "busy")
  /\ IF \E s \in Sessions : Active(s) /\ row[s].plug = call[r].plug
     THEN Leave(r)
     ELSE call' = [call EXCEPT ![r].at = "station", ![r].seen = {s \in Sessions : Exists(s)}]
  /\ UNCHANGED <<pricingVars, location, removed, row, endings, after>>

\* Mutant: the tariff is resolved for a station without a location too.
FindStation_NoLocationCheck(r) ==
  /\ At(r, "station")
  /\ call' = [call EXCEPT ![r].loc = location[StationOf[call[r].plug]], ![r].at = "direct"]
  /\ UNCHANGED <<pricingVars, location, removed, row, endings, after>>

\* Mutant: the two queries for a tariff are made in the other order.
FindStation_ZoneFirst(r) ==
  /\ At(r, "station")
  /\ LET t == StationOf[call[r].plug]
     IN  IF StationOwner[t] = call[r].tenant /\ location[t] # None
         THEN call' = [call EXCEPT ![r].loc = location[t], ![r].at = "zone"]
         ELSE Goto(r, "insert")
  /\ UNCHANGED <<pricingVars, location, removed, row, endings, after>>

\* findStationById in the caller's tenant.  A station of another tenant, or one
\* without a location, is not an error: the session is free.
FindStation(r) ==
  /\ At(r, "station")
  /\ LET t == StationOf[call[r].plug]
     IN  IF StationOwner[t] = call[r].tenant /\ location[t] # None
         THEN call' = [call EXCEPT ![r].loc = location[t], ![r].at = "direct"]
         ELSE Goto(r, "insert")
  /\ UNCHANGED <<pricingVars, location, removed, row, endings, after>>

\* resolveApplicableTariff's first query (LIMIT 1 without an order: any tariff).
FindDirect(r) ==
  /\ At(r, "direct")
  /\ LET found == DirectTariffs(call[r].user, call[r].tenant)
     IN  \/ /\ found = {} /\ Goto(r, "zone")
         \/ \E p \in found : call' = [call EXCEPT ![r].tariff = p, ![r].at = "insert"]
  /\ UNCHANGED <<pricingVars, location, removed, row, endings, after>>

\* Its second query.
FindZone(r) ==
  /\ At(r, "zone")
  /\ LET found == ZoneTariffs(call[r].user, call[r].tenant, call[r].loc)
     IN  \/ /\ found = {} /\ Goto(r, "insert")
         \/ \E p \in found : call' = [call EXCEPT ![r].tariff = p, ![r].at = "insert"]
  /\ UNCHANGED <<pricingVars, location, removed, row, endings, after>>

\* createSession.
Insert(r) ==
  /\ At(r, "insert")
  /\ \E s \in Sessions :
       /\ ~Exists(s)
       /\ row' = [row EXCEPT ![s] = [user |-> call[r].user, plug |-> call[r].plug,
                                     tenant |-> call[r].tenant, tariff |-> call[r].tariff,
                                     status |-> "active"]]
       /\ after' = [after EXCEPT ![s] = call[r].seen]
  /\ Leave(r)
  /\ UNCHANGED <<pricingVars, location, removed, endings>>

-----------------------------------------------------------------------------
(* PATCH /sessions/:id/end                                                 *)

End(r) ==
  /\ At(r, "idle")
  /\ \E m \in Roles, s \in Sessions :
       /\ Exists(s)
       /\ call' = [call EXCEPT ![r] = [NoCall EXCEPT !.at = "check", !.user = m[1],
                                                     !.tenant = m[2], !.session = s]]
  /\ UNCHANGED <<pricingVars, location, removed, row, endings, after>>

\* findSessionById, then 404 outside the tenant, 403 for another's session and
\* 409 for one that is not active.
CheckSession(r) ==
  /\ At(r, "check")
  /\ LET s == call[r].session
     IN  IF row[s].tenant = call[r].tenant /\ row[s].user = call[r].user /\ Active(s)
         THEN Goto(r, "end")
         ELSE Leave(r)
  /\ UNCHANGED <<pricingVars, location, removed, row, endings, after>>

\* Mutant: the UPDATE without its condition on the status.
EndSession_Unconditional(r) ==
  /\ At(r, "end")
  /\ LET s == call[r].session
     IN  /\ row' = [row EXCEPT ![s].status = "completed"]
         /\ endings' = [endings EXCEPT ![s] = @ + 1]
  /\ Leave(r)
  /\ UNCHANGED <<pricingVars, location, removed, after>>

\* endSession, the UPDATE ... WHERE status = 'active': 409 when it matches no row.
EndSession(r) ==
  /\ At(r, "end")
  /\ LET s == call[r].session
     IN  \/ /\ Active(s)
            /\ row' = [row EXCEPT ![s].status = "completed"]
            /\ endings' = [endings EXCEPT ![s] = @ + 1]
         \/ ~Active(s) /\ UNCHANGED <<row, endings>>
  /\ Leave(r)
  /\ UNCHANGED <<pricingVars, location, removed, after>>

-----------------------------------------------------------------------------
(* Failures and the admins                                                 *)

\* A query fails or the process stops: what was committed before stays.
Fail(r) ==
  /\ ~At(r, "idle")
  /\ Leave(r)
  /\ UNCHANGED <<pricingVars, location, removed, row, endings, after>>

\* DELETE /stations/:stationId/plugs/:plugId: deleted_at is set, sessions stay.
RemovePlug ==
  /\ \E p \in Plugs \ removed : removed' = removed \cup {p}
  /\ UNCHANGED <<pricingVars, location, row, call, endings, after>>

\* PATCH /stations/:id: any existing location, or none.
MoveStation ==
  /\ \E t \in Stations, l \in Locations \cup {None} :
       location' = [location EXCEPT ![t] = l]
  /\ UNCHANGED <<pricingVars, removed, row, call, endings, after>>

-----------------------------------------------------------------------------
StartStep(r) ==
  \/ Start(r) \/ FindPlug(r) \/ FindActive(r) \/ FindStation(r)
  \/ FindDirect(r) \/ FindZone(r) \/ Insert(r)

EndStep(r) == End(r) \/ CheckSession(r) \/ EndSession(r)

Next ==
  \/ \E r \in Requests : StartStep(r) \/ EndStep(r) \/ Fail(r)
  \/ RemovePlug \/ MoveStation
  \/ PricingNext /\ UNCHANGED sessionVars

Spec == Init /\ [][Next]_vars

-----------------------------------------------------------------------------
(* Properties                                                              *)

\* A session is ended at most once, though several requests may have found it
\* active: the row that is completed has been changed by exactly one of them, so
\* a later request can neither move ended_at nor be told it ended the session.
EndedOnce ==
  \A s \in Sessions : endings[s] = IF row[s].status = "completed" THEN 1 ELSE 0

\* Two sessions are active on one plug only when their starts overlapped: neither
\* was in the table when the other's start checked the plug.
DoubleStartOnlyByRace ==
  \A s, t \in Sessions :
    Active(s) /\ Active(t) /\ row[s].plug = row[t].plug => s \notin after[t]

\* A plug that was removed gets a session only from a start that was under way when
\* it was removed: no request that comes later starts one, at any interleaving.
NoStartAfterRemoval ==
  [][\A s \in Sessions : ~Exists(s) /\ Exists(s)' =>
       \E r \in Requests : At(r, "insert") /\ call[r].plug = row'[s].plug /\ ~call[r].gone
    ]_vars

\* The tariff a session will be charged by belongs to the session's own tenant,
\* whatever groups of other tenants the user is in and whatever admins of any
\* tenant link, unlink or move between the two queries that looked for it.
SessionPricedByItsTenant ==
  \A s \in Sessions : row[s].tariff # None => owner[row[s].tariff] = row[s].tenant

\* sessions.service.ts:35-38: a plug has at most one active session.
OneActiveSessionPerPlug ==
  \A s, t \in Sessions : Active(s) /\ Active(t) /\ row[s].plug = row[t].plug => s = t

\* doc/sessions/api.md:86: a session is on a plug of its tenant.
PlugOfTenant ==
  \A s \in Sessions : Exists(s) => StationOwner[StationOf[row[s].plug]] = row[s].tenant
=============================================================================
