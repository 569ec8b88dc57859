# Verification of chargeops

TLA+ models of chargeops (a multi-tenant backend for charging stations: Fastify,
Kysely, PostgreSQL), checked by TLC and proved about with TLAPS. Paths are
relative to the repository root, `service:line` to `src/`.

    tlc -config MCRefreshTokens.cfg MCRefreshTokens     # a run (see "The runs")
    tlapm RefreshTokensProofs.tla                       # the proofs of a module

`PROJECT.json` lists the runs, the lines each definition models, the hazards of
the code with the properties that cover them, and the theorems.

## The system

Every component is a set of HTTP handlers over PostgreSQL tables. The process
keeps no state of its own between requests: what matters is which SQL statements
a handler runs, in which order, and which of them share a transaction. There are
two transactions in the code (`rotateRefreshToken`, `register`); every other
handler is a sequence of statements that commit one by one, and any number of
handlers run at once (in one process, between two `await`s, or in several).

| Component | State | Operations | What makes it correct |
|---|---|---|---|
| Refresh tokens (`services/auth.service.ts`, `repositories/refresh-tokens.repo.ts`) | `refresh_tokens`: family, revoked_at, expires_at | login, refresh (rotate), logout (revoke the family) | one usable token per login session, each token exchanged once, revocations last, nobody waits for ever |
| Charging sessions (`services/sessions.service.ts`) | `charging_sessions` | start, end, list, get | a plug has one active session, none that comes after its removal, a session ends once, its tariff is right and of its own tenant |
| Pricing (`routes/customer-groups.ts`, `tariff-zones.ts`, `tariffs.ts`) | groups, zones, tariffs and five link tables | create, rename, link, unlink; `resolveApplicableTariff` | a tenant's tariffs are its own; what another tenant's admin can change of them is one thing (below) |
| Stations, plugs, locations | three tables with `deleted_at`, visibility | create, update, soft-delete, public and tenant views | deleted or private rows are never shown or used; totals fit pages |
| Accounts (`services/auth.service.ts`, `repositories/users.repo.ts`) | `users`, `user_tenant_roles` | register, login, change password, change e-mail | an account has a tenant, an e-mail one account; a password is replaced by one who knows it |
| Access control (`plugins/jwt-auth.ts`, `tenant-context.ts`, `routes/tenant-users.ts`) | access tokens held by clients, `user_tenant_roles` | verifyJwt, verifyTenant, verifyRole, role changes | a token serves as long as it lives; a role is changed by an admin of the tenant, and a tenant keeps one |
| Tenants, admin | `tenants` | create, list | - |
| HTTP shell, configuration, migrations, seeds | none at run time | - | - |

They meet in the tables. A login makes the access token that names the tenant of
every later request; a session start reads plugs, stations and all of the pricing
tables while admins change them; a role change races with requests that have
already passed `verifyRole`.

The hard behaviours, in the order of their weight: concurrent refreshes, retries
and logouts of one login session under row locks; a revocation that must commit
although its request fails; checks (`findActiveSessionByPlug`, `verifyRole`,
`findValidRefreshTokenByHash`) whose answer is stale when it is used; queries that
belong together but run in separate transactions; answers that are lost after
their commit. `PROJECT.json` lists each with its line.

## The modules

| Module | Models | Extends |
|---|---|---|
| `TokenChains` | what login sessions promise: each family is a chain of tokens with one head or none | |
| `RefreshTokens` | login, refresh, logout down to statements, row locks and commits | |
| `RefreshTokensProofs` | its inductive invariant, its theorems, the refinement of `TokenChains` | `RefreshTokens`, `TLAPS` |
| `Pricing` | groups, zones, tariffs, their links, the tariff queries | |
| `ChargingSessions` | starting and ending sessions, one step per query, beside the admins of `Pricing`, plug removals and station moves | `Pricing` |
| `ChargingSessionsProofs` | its inductive invariant and theorems, `Pricing`'s included | `ChargingSessions`, `TLAPS` |
| `TariffQuotes` | `ChargingSessions` with a history: at each moment of a start, what its two tariff queries would have answered in one step | `ChargingSessions` |
| `TariffQuotesProofs` | its invariant and theorem | `TariffQuotes`, `ChargingSessionsProofs` |
| `Directory` | what accounts promise: a directory that changes one account at a time, and the tokens it signs | |
| `DirectoryProofs` | that a directory stays consistent | `Directory`, `TLAPS` |
| `Accounts` | users, their roles, access tokens: registration, login, profile and role changes, one step per query | |
| `AccountsProofs` | its inductive invariant and theorems | `Accounts`, `TLAPS` |
| `AccountsRefinement` | the refinement of `Directory` | `AccountsProofs` |
| `Inventory` | locations, stations and plugs: the writes of admins, and every read endpoint query by query | |
| `InventoryProofs` | its inductive invariant and theorems | `Inventory`, `TLAPS` |
| `MCRefreshTokens`, `MCChargingSessions`, `MCTariffQuotes`, `MCAccounts`, `MCInventory` | the instances TLC checks | |

### RefreshTokens

The table is `status`, `family`, `expired`, as committed. PostgreSQL runs at READ
COMMITTED, and the model has what the code relies on: `holder` (row locks of
`SELECT ... FOR UPDATE` and `UPDATE`, held to the end of the transaction),
`revoking` and `inserting` (what an open transaction has written), and a statement
that waits for a row and then evaluates it again as it has become. Each request
has a program counter; its steps are the awaits of the handler:

- `Login` is `_generateAuthResult`'s insert, the last database step of a login or
  a registration.
- `Receive`, `Find`: a client presents any token it was ever given (a second tab,
  a retry with an old one), and both handlers look it up.
- `LockOld`, `Rotate`, `CommitRotation`: `rotateRefreshToken`. The branch for a
  missing row is left out: rows are never deleted, and `Find` saw it.
- `Scan`, `RevokeRow`, `CommitSweep`: `revokeByFamily`, for a logout and for a
  replay found under the lock. The UPDATE's snapshot is taken first; its rows are
  then locked one by one, in any order.
- `Respond` delivers the new token. `Fail` may strike before any of these steps:
  an open transaction is rolled back; after the commit only the answer is lost.
- `Expire`: `now()` passes a row's `expires_at`.

A token stands for its hash, as the values are 256 random bits. `parent` and
`swept` are history that no action reads. `TokensLeft` bounds a run to the finite
set `Tokens`. The refresh that finds its user gone is left out: no code deletes
users.

### Pricing and ChargingSessions

`Pricing` has one action per configuration route (a POST and its DELETE share
one). A handler checks that its rows belong to the admin's tenant and then writes
one link; as the rows never change tenant and are never deleted, the check still
holds at the write, and the handler is one step. A location that was soft-deleted
can no longer be added to a zone; the model allows it, which only adds behaviours.
Renames and price changes alter nothing modelled: sessions refer to a tariff by id.

`ChargingSessions` keeps one record per request, `call`, with the handler's local
variables: `FindPlug`, `FindActive`, `FindStation`, `FindDirect`, `FindZone`,
`Insert` are the queries of `startSession`, `CheckSession` and `EndSession` those
of `endSession`. Nothing protects what an earlier query answered: between any two
of them an admin of any tenant may change prices, remove the plug or move the
station (`RemovePlug`, `MoveStation`, `PricingNext`), other requests may run, or
the handler may fail. `LIMIT 1` without an order is a choice of any tariff found.
`Roles` are the user and tenant pairs the preHandlers let in. `RowsLeft` bounds a
run to the finite set `Sessions`. `endings`, `after` and the fields `seen` and
`gone` of a call are history. The endpoints that list and get sessions are left
out: each selects by owner and tenant, which a row never changes.

`TariffQuotes` observes it: `moments` has, for each start whose location has been
read, the `Quotes` of every moment since. `PricedByWhatApplied` is what the two queries
guarantee together (each priority as it was at some moment of the call, perhaps two
different ones), `ResolvesWhatApplied` what the function's comment promises (both at one).

### Accounts

The tables `email` and `password` (of `users`), `role` (`user_tenant_roles`) and
`tenants` are as committed; `issued` are the access tokens clients hold. `call`
holds, for each request, the handler's local variables and what its open
transaction has inserted. A request is one call, so their number bounds a run.

- `Register`, `InsertUser`, `InsertRole`, `Commit`, `IssueToken`: `findTenantById`,
  the two inserts, the commit, and `_generateAuthResult` after it. The unique index
  on `users.email` is `EmailSettled` and `EmailTaken`: a statement that writes an
  e-mail waits for an open registration that has inserted it, then fails with 409
  or goes on, by how that one ended. Everybody else sees the rows at the commit. The
  UPDATE of a profile change is one step: in PostgreSQL it may also wait for another
  profile change's UPDATE, and two that swap their e-mails deadlock until one is
  aborted. The wait is not modelled; the aborted one is a `Fail`.
- `Login`, `FindFirstTenant`, `IssueToken`: a super admin gets a token without a
  tenant; others one for a tenant they are a member of.
- `ChangePassword` reads and verifies the hash, `UpdatePassword` writes without
  looking again; `UpdateProfile` and `UpdateEmail` likewise.
- `ChangeRole` is the chain of preHandlers (`verifyJwt`, `verifyTenant`, `verifyRole`:
  `TenantOf`, `VerifiedAdmin`) and the checks of the handler, `UpdateRole` its write.
  The read of the member for the answer is left out.
- `CreateTenant` is a check of the token and one insert: a step.
- `Fail` may strike between any two steps. `CurrentRole` is what `GET /me` tells the
  holder of a token.

No code deletes users, memberships or tenants or changes the super admin flag, so
`findTenantById` and `findUserById` cannot become stale and are one step with what
precedes them. A password stands for its hash. A token is its claims: its signature is
taken as sound, and when it expires requests are refused, so `issued` only grows;
a refresh signs the same claims again (`RefreshTokens` has the rest of a refresh).
`Seed...` are the rows that scripts and SQL make: super admins, the first tenants and
a tenant's first admin. `overtaken` is history: another call has changed what
this one has checked.

`Directory` is what a client can tell from outside. Its `accounts` are the committed
rows, each with the roles of its user; `ImplementsDirectory` maps them to records,
keeps `tenants` and `issued`, and hides the calls. A commit is a `Join`, the writes are
`SetEmail`, `SetPassword` and `Appoint`, and a token is signed (`Sign`) only for an
account that is `Entitled` to it at that moment, however long before it was looked up. So a
registration is two steps, a `Join` and, unless it fails in between, a `Sign`; every other
call is one.

### Inventory

The tables are `loc`, `sta`, `plug` (with the columns that a read selects by or
summarises), `gone` (`deleted_at`) and `access` (who is joined to a location by a
zone and a group). Each write endpoint is one action: its UPDATE carries the tenant
and `deleted_at` in its own WHERE, or its lookup of the station cannot become
stale, as stations keep their tenant and are never deleted. A station may be
linked to a location that is deleted or another tenant's, as the foreign key is the only check.

A read is several queries, and `req` holds what the earlier ones answered:

- `CallList`, then `FetchRows` and `CountRows` in either order: the `Promise.all`
  of a page. `Pages` is any choice of rows of the right number, as the order of a
  page is not modelled.
- `CallLocation`, then `FindLocation`, `ReadStations`, `ReadPlugs`.
- `CallStation`, then `FindStation`; `CallPlugs`, then `FindStation` and a page.
- `Answer` sends what was read. `Reject` is a location with a plug: its
  serialisation throws (see "What the code does not do").

`kept` and `seen` are history: the rows the request might show at every moment since it
came, and at some moment. `MayShow` states the rules of the endpoints for that, apart
from the queries. The queries of one read may see different states, and the answer may
mix them: a plug added after its station became private is still listed by a request that
found the station public before, and a total may count a row that its page was too early
for. The two properties bound the mixture from both sides. `AnswersWereTrue`: every row
shown is in `seen`. `AnswersMissNothing`: no row of `kept` is missing, and a total and the
length of a page lie between what `kept` and what `seen` would make them; where no row
changes the two are equal, and the answer is exact.
`Summary` is the aggregation over the outer join, `SummariesExact` counts
without a join.

## The runs

| Run | Instance | Shows |
|---|---|---|
| `tokens` | 3 requests, 3 tokens, 2 families, symmetric | the safety of rotation: `OneLivePerFamily`, `NoFork`, `DeliveredIsStored`, `AcknowledgedSweepLasts`, `RevocationIsFinal`; `NoDeadlock` of its row locks |
| `tokens_live` | 2 requests, 3 tokens, 1 family, fair | `ImplementsChains` (the refinement), `EveryRequestEnds` |
| `logout_ends_family` | as above | *violated*: a logout can miss the successor a rotation is about to commit |
| `reuse_ends_family` | as above | *violated*: a reuse after the rotation is refused without revoking the family |
| `sessions` | 3 requests, 3 sessions, 2 drivers, 1 plug | `EndedOnce`, `DoubleStartOnlyByRace`, `NoStartAfterRemoval` |
| `session_pricing` | 2 tenants, a group, a zone, 2 tariffs, 2 locations, 1 start | `OthersOnlyGrantZones`, `SessionPricedByItsTenant` |
| `one_session_per_plug` | 2 requests, 1 plug | *violated*: two overlapping starts both insert |
| `plug_of_tenant` | 2 tenants | *violated*: the plug is not tied to the tenant |
| `tariff_quotes` | 1 start, 1 group, 1 zone, 1 tariff, 2 locations to move the station between | `PricedByWhatApplied` |
| `tariff_resolution` | the same with 1 location | *violated*: a free session though a tariff applied throughout |
| `accounts` | 3 calls; 2 admins of a tenant, a super admin, 2 accounts and a tenant to come, 4 e-mails, 2 passwords; fair | `AccountsHaveTenants`, `OneAccountPerEmail`, `TokensServe`, `PasswordsReplacedAsVerified`, `RolesChangedByAdmins`, `LastAdminLostOnlyByOverlap`, `ImplementsDirectory` (the refinement), `EveryCallEnds` |
| `inventory` | 1 location, stations of 2 tenants, 2 plugs on one station, 1 reader, 1 read | `AnswersWereTrue`, `AnswersMissNothing`, `SummariesExact` |

Type invariants (`TypeOK`, `SessionTypeOK`, `AccountsTypeOK`, `InventoryTypeOK`) are
checked in `tokens`, `sessions`, `accounts` and `inventory`.
Every checked property has a mutant in `PROJECT.json`: a plausible bug (the lock
dropped, an error thrown inside the transaction, an unconditional UPDATE, a tenant
filter forgotten) under which the run finds it violated.

**The bounds.** Three requests are the two that race for a row and one that waits
for, or comes after, both; three tokens give a chain a replaced token, a
successor and its successor, or two sessions beside each other; two families show
that one session's requests leave another alone. A double start needs two sessions, a third shows the one
after them. Prices leave a tenant through one foreign group, zone, tariff or
location each; two of a kind are there when the property compares them, and a second location
lets a station move away between the queries of a start. Two calls
race for an e-mail, a password or the role of an admin, and a third may follow
or come between; one free e-mail is enough to be raced for, and two admins are
what it takes to demote each other. A read changes
nothing, so one read beside the writes is all reads; two plugs make a page shorter
than its total and repeat their station in the join, the second station has none
and belongs to another tenant. All plugs there are of one model and status, as reads tell
no more apart: what `SummariesExact` says of others, its theorem covers. Plugs are symmetric.

**Deadlock checking** is off in the token runs, because the system may stop: all
tokens of the finite set used, all requests idle; and in `accounts`, where a run ends with its
three calls. `EveryRequestEnds` and `EveryCallEnds` say that nothing stops in the
middle, `NoDeadlock` that no requests wait for each other in a circle. The other runs check deadlock.

**Fairness** (`FairSpec`). A handler that is called keeps running: weak fairness of
its steps, which the event loop gives. PostgreSQL queues the waiters of a row lock,
so a request that waits for a lock released again and again gets it: strong
fairness of the two steps that take locks. In `Accounts` weak fairness of every
handler's `Step` is enough: a statement that waits for an e-mail waits for the end of
one registration after another, and the calls are finitely many. Nothing is assumed
of clients, logins, failures or the clock.

## What is proved

For any number of tokens, families, requests, tenants, users, plugs and prices:

*Refresh tokens* (`RefreshTokensProofs`). `IInv` strengthens `OneLivePerFamily` by
what the code relies on without saying so. A request between its lock and its
commit holds the row's lock, and only the holder of a lock writes the row, so the
token it is about to replace is live until it commits. A row that is to be
inserted is nobody else's and not yet in the table. A rotated token is revoked, so
it is rotated once. A sweep has dealt with every row of its snapshot that it no
longer has to visit: the row is revoked, or among those its transaction will
revoke, and it holds the lock. From `IInv` follow the theorems `AtMostOneLiveToken`,
`ChainsNeverFork`, `OnlyStoredTokensAreSent`, `AcknowledgedRevocationsLast`,
`TypeCorrect`; with the steps that change the table, `RevocationsAreFinal`; and
`Refinement`: a login starts a chain, a rotation's commit advances its head, a
sweep's commit ends it, and every other step leaves the chains alone. The only
assumption is that `None` is none of the constants' members.

`RequestsNeverDeadlock` needs `LockInv` besides. A family has one live row, so its UPDATE
asks for one lock at most (`SweepsOneRow`); only a replay asks for it while it holds
another, that of the row it was sent, which is revoked (`LocksAreUsed`,
`ReplaysAreRevoked`). In a circle every row waited for would thus be one that a replay
was sent; but of the replays that are revoking, the one whose UPDATE took its snapshot last
found those rows revoked already and waits for none of them (`LastReplayIsFree`).

*Sessions and prices* (`ChargingSessionsProofs`). `TariffsStayInTenant` (a
tariff is linked to groups and zones of its own tenant; of groups and zones nothing of
the kind is true) holds by the checks of the configuration routes and because owners
never change (`OwnersStay`). With it, the tariff a start has in its hands belongs to the tenant
it acts in (`PricedInHand`), however the links change afterwards:
`SessionsPricedByTheirTenant`. What a start saw on its plug had ended, and an ended
session stays so (`SeenAreOver`, `EarlierAreOver`): `DoubleStartsOverlap`. The
conditional UPDATE changes a row only once: `SessionsEndOnce`.
`OneTenantsAdminsAndAnothersPrices` goes through the routes of an admin: each writes a
link of a group or zone of the admin's own tenant (`OthersPricesStay`). The assumptions are
that stations, plugs and locations have owners and `None` is not a member.

`GoneIsNotFound` carries `RemovedPlugsGetNoStarts`: a plug stays removed, so a start
that comes later never passes the lookup.

*Tariffs* (`TariffQuotesProofs`). `TariffsAppliedWhileResolving` is proved with `IInv` and
the history: the present answer is always among the `moments` (`NowIsNoted`), so each
query picks from one of them, and `Sound` keeps, from query to query, that a second
priority is only read after a moment without a first.

*Accounts* (`AccountsProofs`). `IInv` adds what open calls rely on. `PendingIsNew`: an
open registration's user id and e-mail are nobody else's, neither in the table nor
in another open registration, so its commit adds an account and disturbs none
(`CommitOnlyAdds`). `TokensInHand`: who is about to get a token is a member of its
tenant, or a super admin without one. `VerifiedOrOvertaken`, `AdminOrOvertaken`: what a
call has checked still holds, or `overtaken` says that another call has changed it.
They give the theorems on tenants, e-mails and tokens as invariants, and with the
steps that write (`Writers`, `RoleWritten`) the three on what a step may never do. The last,
`AdminsLostOnlyByOverlap`, holds because the admin who demotes another is one
who stays. The assumptions: the seeded tables are well formed (an account that is no
super admin has a tenant, e-mails are unique), and `None` is no member.

*The directory* (`AccountsRefinement`, `DirectoryProofs`). `AccountsRefineDirectory` goes
step by step: six actions change what is committed or handed out, each is a step of
`Directory` or changes nothing there, and all others stutter. It takes `IInv` and two facts
more (`DInv`): tokens are signed with the super admin flag their user has
(`SignedClaims`), and whoever began a role change as an admin is still a member at its
write, as no step takes a member out (`CallersAreMembers`, `MembersStay`), so a member is
always appointed by another one. `DirectoryStaysConsistent` shows what the promised
steps alone imply.

*Inventory* (`InventoryProofs`). `SeenSoFar`: `kept` is among what a read may show now,
that is in `seen`, and so is what the read has in hand, because each query selects only
rows that it may show then. `WithinSoFar`: each part of an answer is within the bounds when
its query brings it, as the query selects exactly what may be shown then (`ListedIsVisible`),
and stays there, as `kept` only shrinks and `seen` only grows (`BoundsMoveApart`, by
`CountsGrow` and `PagesGrow`). These give `AnswersShowOnlyVisibleRows` and
`AnswersStayWithinBounds` for any number of rows and reads. `SummariesAreExact` is about every table of any size: the rows of the outer
join are the pairs of a plug and its station, a row without plug for each empty station, or
one row of nulls (`JoinIs`), so its distinct columns are the stations and the plugs
(`JoinColumns`, `PairsCount`), and the greatest power exists as the tables are finite
(`FiniteSetsHaveMaxima`, by descent). The assumptions: tables are finite and their ids disjoint, `None` is no member.

**Only model-checked:** `EveryRequestEnds` and `EveryCallEnds`, as liveness under fairness is
beyond the prover: of the first, `RequestsNeverDeadlock` proves the part that is a safety
property. The violated properties are shown by TLC's counterexamples.

## What the code does not do

- A logout that races with a refresh of the same session can leave the refreshed
  token usable, against `doc/auth/refresh-tokens.md:72-75` (`logout_ends_family`).
- A reused token is noticed only while the rotation is still between its lookup
  and its lock; a later reuse gets 401 and the family lives on, against
  `doc/auth/refresh-tokens.md:106-109` (`reuse_ends_family`).
- Two overlapping starts put two active sessions on one plug, against
  `src/services/sessions.service.ts:35-38` (`one_session_per_plug`).
- A session can be started on any tenant's plug, against
  `doc/sessions/api.md:86` (`plug_of_tenant`).
- A tenant's admin can give a group of its own another tenant's tariff zone:
  `routes/customer-groups.ts:187-205` looks the group up in the tenant and takes the zone by
  id, and any user may be put in the group (`:104-124`). A user of the other tenant who is
  in it gets that tenant's zone tariff there, and sees the zone's private locations, although
  `doc/rbac.md:22` gives a `tenant_admin` its own tenant as scope. `ChangeGroupZone` does as the code;
  `OthersOnlyGrantZones` says that this is all an admin can do to another tenant's prices.
- The two queries of `resolveApplicableTariff` can together miss a tariff that
  applied at every moment (`tariff_resolution`).
- `GET /locations/:id` and `GET /tenant/locations/:id` answer 500 as soon as the
  location has a plug to show: `max_power_kw` is `numeric`, which the driver delivers
  as a string, and `routes/locations.ts:47` hands it to `z.number()` unconverted
  (`toPlugResponse` and the summaries convert it). In the model it is `Reject`.
- `GET /tenant/locations` leaves out private locations that no group of the user
  reaches, although `doc/locations/api.md:110` says "locations of all visibility";
  its line 106 says "accessible". The model follows the code.
- Two password changes that overlap both succeed: the later one replaces a password
  it never verified, against `doc/auth/api.md:406`; `PasswordsReplacedAsVerified` says
  that only such an overlap does it. Two admins of a tenant who demote each other at
  once leave it without an admin (`LastAdminLostOnlyByOverlap`), which no endpoint
  can repair: only an admin of the tenant changes roles.
- A driver's role can be changed, against `src/routes/tenant-users.ts:38` and
  `doc/tenant-users/api.md:137`: the old role is not read. `UpdateRole` does as the code.
- Seen while reading, with no run: a password change leaves all refresh tokens of
  the account usable (`revokeAllForUser` has no caller). The price of a session is not
  recorded, only its tariff, whose prices an admin may change.
- Likewise: `endSession` sets neither `energy_kwh` nor
  `cost`, which `doc/sessions/api.md:147` says it calculates; nothing sets the
  status `error`; an abandoned session keeps its plug for ever, as only its owner
  can end it.

## Not modelled, and the plan

Not modelled for good: validation, error formatting, schemas, configuration,
logging and health checks (no state, no order); the migrations and seeds (run
offline, alone; their constraints are in the modules); argon2 and the JWT signature
(taken as sound); the connection pool (a request that times out waiting for a
connection is a `Fail`); the rate limits; the lists of tenants, members, groups,
zones and tariffs, and the reads of sessions (they change nothing, and rows do not
change owner). Renames of groups and zones and changes of a tariff's prices are the
only writes left out: nothing that is modelled reads them.

What could come next: `RefreshTokens` composed with `Accounts`, once the code has a
rule for the sessions that outlive a password; `verifyRole` as a step of its own
before the writes of `Pricing` and `Inventory`, as it is before a role change; the order
of `findFirstTenantForUser` for users of several tenants, whom no endpoint makes.
