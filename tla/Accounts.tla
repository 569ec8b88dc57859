------------------------------ MODULE Accounts ------------------------------
(***************************************************************************)
(* Users, their roles in tenants and the access tokens they hold: register,*)
(* login, password and e-mail changes (AuthService), the preHandlers       *)
(* verifyJwt, verifyTenant and verifyRole, role changes by tenant admins   *)
(* and new tenants.  Only the two inserts of a registration share a        *)
(* transaction; any other query is a step of its own, and other calls may  *)
(* come in between.  A password stands for its hash, a token for its       *)
(* claims.                                                                 *)
(***************************************************************************)
EXTENDS Naturals

CONSTANTS
  Users, SuperAdmins, Emails, Passwords, Tenants, None,
  Requests,       \* each is one call of a handler: a bound on the length of a run
  SeedTenants,    \* what scripts and SQL have put into the tables: no route makes
  SeedEmail,      \* a super admin, nor a tenant's first admin
  SeedPassword,
  SeedRole

Roles == {"tenant_admin", "tenant_view", "driver"}

ASSUME NoneIsNew ==
  None \notin Users \cup Emails \cup Passwords \cup Tenants \cup Roles \cup {"super_admin"}

ASSUME SeedsAssumption ==
  /\ SuperAdmins \subseteq Users
  /\ SeedTenants \subseteq Tenants
  /\ SeedEmail \in [Users -> Emails \cup {None}]
  /\ SeedPassword \in [Users -> Passwords \cup {None}]
  /\ SeedRole \in [Users -> [Tenants -> Roles \cup {None}]]
  /\ \A u, v \in Users : SeedEmail[u] = SeedEmail[v] => u = v \/ SeedEmail[u] = None
  /\ \A u \in Users :
       /\ SeedEmail[u] = None <=> SeedPassword[u] = None
       /\ u \in SuperAdmins => SeedEmail[u] # None
       /\ SeedEmail[u] # None /\ u \notin SuperAdmins =>
            \E t \in Tenants : SeedRole[u][t] # None
       /\ \A t \in Tenants : SeedRole[u][t] # None => SeedEmail[u] # None /\ t \in SeedTenants

VARIABLES
  \* The tables, as committed.
  tenants,
  email, password,   \* users; None where there is no row
  role,              \* user_tenant_roles; None where there is no row
  \* The handlers, with their local variables and their uncommitted rows.
  call,
  \* The access tokens clients hold.  Expiry is a request refused: no change.
  issued

tables == <<tenants, email, password, role>>
vars   == <<tables, call, issued>>

\* call: at is the next query; user, tenant, email, password, target and role are
\* what it will use; current is the hash that was verified; overtaken is history:
\* what the call has checked was changed since by another call.
NoCall == [at |-> "idle", user |-> None, tenant |-> None, email |-> None,
           password |-> None, current |-> None, target |-> None, role |-> None,
           overtaken |-> FALSE]

Labels == {"idle", "user", "role", "commit", "tenant", "token", "password", "email",
           "change", "done"}

Calls == [at : Labels, user : Users \cup {None}, tenant : Tenants \cup {None},
          email : Emails \cup {None}, password : Passwords \cup {None},
          current : Passwords \cup {None}, target : Users \cup {None},
          role : Roles \cup {None}, overtaken : BOOLEAN]

Tokens == [sub : Users, tid : Tenants \cup {None}, isSuperAdmin : BOOLEAN]

IsAccount(u) == email[u] # None

\* The types of the variables, and what a handler has in hand at each query.
AccountsTypeOK ==
  /\ tenants \subseteq Tenants
  /\ email \in [Users -> Emails \cup {None}]
  /\ password \in [Users -> Passwords \cup {None}]
  /\ role \in [Users -> [Tenants -> Roles \cup {None}]]
  /\ call \in [Requests -> Calls]
  /\ issued \subseteq Tokens
  /\ \A u \in Users : IsAccount(u) <=> password[u] # None
  /\ \A r \in Requests : LET c == call[r] IN
       /\ c.at \in {"user", "role", "commit"} =>
            c.email # None /\ c.password # None /\ c.tenant \in tenants
       /\ c.at \in {"role", "commit"} => c.user # None
       /\ c.at \in {"tenant", "token", "password", "email", "change"} =>
            c.user # None /\ IsAccount(c.user)
       /\ c.at = "password" => c.password # None
       /\ c.at = "email" => c.email # None
       /\ c.at = "change" => c.tenant # None /\ c.target # None /\ c.role # None

-----------------------------------------------------------------------------
(* Helpers                                                                 *)

At(r, label) == call[r].at = label

\* The handler answers or throws; what it has not committed is gone with it.
Ended  == [NoCall EXCEPT !.at = "done"]
End(r) == call' = [call EXCEPT ![r] = Ended]

\* The handler ends having changed what the calls in Q have checked.
EndOvertaking(r, Q) ==
  call' = [q \in Requests |-> IF q = r THEN Ended
                              ELSE IF q \in Q THEN [call[q] EXCEPT !.overtaken = TRUE]
                              ELSE call[q]]

\* An open registration: its user row is inserted and not committed.
Pending(r) == call[r].at \in {"role", "commit"}

\* Mutant: e-mails are looked up before the insert, no unique index decides.
EmailSettled_NoIndex(r) == TRUE

\* Mutant: the calls that wait for an e-mail are waited for as well.
EmailSettled_WaitsForWaiters(r) ==
  \A q \in Requests \ {r} :
    call[q].at \in {"user", "role", "commit", "email"} => call[q].email # call[r].email

\* The unique index on users.email makes a statement that writes an e-mail wait
\* while an open transaction has inserted it.  The UPDATE of a profile change is a
\* transaction of one statement and one step here: that it may wait for another such
\* UPDATE under way, or be aborted when two swap their e-mails, is left to Fail.
EmailSettled(r) ==
  \A q \in Requests \ {r} : Pending(q) => call[q].email # call[r].email

EmailTaken(e) == \E u \in Users : email[u] = e

\* gen_random_uuid: an id no row, committed or not, has.
NewUser(u) ==
  /\ u \notin SuperAdmins /\ ~IsAccount(u)
  /\ \A r \in Requests : Pending(r) => call[r].user # u

\* The claims signed for a user, and the token of a user of tenant t.
Claims(u, t) == [sub |-> u, tid |-> t, isSuperAdmin |-> u \in SuperAdmins]

\* verifyTenant: req.tenantId, null for a super admin.  A token whose tid is not
\* the x-tenant-id header's is refused.
TenantOf(k) == IF k.isSuperAdmin THEN None ELSE k.tid

\* Mutant: the role check accepts any role.
VerifiedAdmin_AnyRole(k) ==
  \/ k.isSuperAdmin
  \/ TenantOf(k) # None /\ role[k.sub][TenantOf(k)] # None

\* verifyRole(["tenant_admin"]): super admins bypass the query.
VerifiedAdmin(k) ==
  \/ k.isSuperAdmin
  \/ TenantOf(k) # None /\ role[k.sub][TenantOf(k)] = "tenant_admin"

\* findUsersInTenant, and the admins among them.
Members(t) == {u \in Users : IsAccount(u) /\ role[u][t] # None}
Admins(t)  == {u \in Members(t) : role[u][t] = "tenant_admin"}

\* Clients of the accounts the seeds made have logged in before.
Init ==
  /\ tenants = SeedTenants
  /\ email = SeedEmail
  /\ password = SeedPassword
  /\ role = SeedRole
  /\ call = [r \in Requests |-> NoCall]
  /\ issued = {Claims(u, None) : u \in SuperAdmins} \cup
              {Claims(m[1], m[2]) : m \in
                 {m \in (Users \ SuperAdmins) \X Tenants : SeedRole[m[1]][m[2]] # None}}

-----------------------------------------------------------------------------
(* POST /auth/register                                                     *)

\* findTenantById answers 404 for a tenant that is not there; tenants stay.
Register(r) ==
  /\ At(r, "idle")
  /\ \E e \in Emails, p \in Passwords, t \in tenants :
       call' = [call EXCEPT ![r] = [NoCall EXCEPT !.at = "user", !.email = e,
                                                  !.password = p, !.tenant = t]]
  /\ UNCHANGED <<tables, issued>>

\* Mutant: createUser is not given the transaction, its row is there at once.
InsertUser_OutsideTransaction(r) ==
  /\ At(r, "user") /\ EmailSettled(r)
  /\ ~EmailTaken(call[r].email)
  /\ \E u \in Users :
       /\ NewUser(u)
       /\ call' = [call EXCEPT ![r].user = u, ![r].at = "role"]
       /\ email' = [email EXCEPT ![u] = call[r].email]
       /\ password' = [password EXCEPT ![u] = call[r].password]
  /\ UNCHANGED <<tenants, role, issued>>

\* createUser opens the transaction: 409, which rolls it back, when the e-mail
\* belongs to an account.
InsertUser(r) ==
  /\ At(r, "user") /\ EmailSettled(r)
  /\ \/ /\ EmailTaken(call[r].email)
        /\ End(r)
     \/ /\ ~EmailTaken(call[r].email)
        /\ \E u \in Users :
             NewUser(u) /\ call' = [call EXCEPT ![r].user = u, ![r].at = "role"]
  /\ UNCHANGED <<tables, issued>>

\* Mutant: the transaction's end is not awaited, nor its commit seen to.
InsertRole_NotAwaited(r) ==
  /\ At(r, "role")
  /\ call' = [call EXCEPT ![r].role = "tenant_view", ![r].at = "token"]
  /\ UNCHANGED <<tables, issued>>

\* Mutant: the tokens are made inside the transaction, before its commit.
InsertRole_IssuesToken(r) ==
  /\ At(r, "role")
  /\ call' = [call EXCEPT ![r].role = "tenant_view", ![r].at = "commit"]
  /\ issued' = issued \cup {Claims(call[r].user, call[r].tenant)}
  /\ UNCHANGED tables

\* createUserTenantRole, in the same transaction.
InsertRole(r) ==
  /\ At(r, "role")
  /\ call' = [call EXCEPT ![r].role = "tenant_view", ![r].at = "commit"]
  /\ UNCHANGED <<tables, issued>>

\* COMMIT: the account and its role appear together.
Commit(r) ==
  /\ At(r, "commit")
  /\ LET c == call[r]
     IN  /\ email' = [email EXCEPT ![c.user] = c.email]
         /\ password' = [password EXCEPT ![c.user] = c.password]
         /\ role' = [role EXCEPT ![c.user][c.tenant] = c.role]
  /\ call' = [call EXCEPT ![r].at = "token"]
  /\ UNCHANGED <<tenants, issued>>

-----------------------------------------------------------------------------
(* POST /auth/login                                                        *)

\* findUserByEmail, and the password verified against the hash just read: a
\* client that does not know both gets 401.  Super admins need no tenant.
Login(r) ==
  /\ At(r, "idle")
  /\ \E u \in Users :
       /\ IsAccount(u)
       /\ call' = [call EXCEPT ![r] =
                     [NoCall EXCEPT !.user = u,
                                    !.at = IF u \in SuperAdmins THEN "token" ELSE "tenant"]]
  /\ UNCHANGED <<tables, issued>>

\* findFirstTenantForUser: 401 without one.  Which of several tenants is the
\* oldest is not modelled.
FindFirstTenant(r) ==
  /\ At(r, "tenant")
  /\ LET of == {t \in Tenants : role[call[r].user][t] # None}
     IN  \/ /\ of = {}
            /\ End(r)
         \/ \E t \in of : call' = [call EXCEPT ![r].tenant = t, ![r].at = "token"]
  /\ UNCHANGED <<tables, issued>>

\* _generateAuthResult, of a registration or a login: after the insert of the
\* refresh token (module RefreshTokens) the access token reaches the client.  A
\* refresh signs the same claims again.
IssueToken(r) ==
  /\ At(r, "token")
  /\ issued' = issued \cup {Claims(call[r].user, call[r].tenant)}
  /\ End(r)
  /\ UNCHANGED tables

-----------------------------------------------------------------------------
(* PATCH /me/password and PATCH /me                                        *)

\* Mutant: the current password is not verified.
ChangePassword_Unverified(r) ==
  /\ At(r, "idle")
  /\ \E k \in issued, current, new \in Passwords :
       /\ IsAccount(k.sub)
       /\ call' = [call EXCEPT ![r] = [NoCall EXCEPT !.at = "password", !.user = k.sub,
                                                     !.current = current, !.password = new]]
  /\ UNCHANGED <<tables, issued>>

\* findUserById, and the current password verified against the hash just read.
ChangePassword(r) ==
  /\ At(r, "idle")
  /\ \E k \in issued, current, new \in Passwords :
       /\ IsAccount(k.sub) /\ current = password[k.sub]
       /\ call' = [call EXCEPT ![r] = [NoCall EXCEPT !.at = "password", !.user = k.sub,
                                                     !.current = current, !.password = new]]
  /\ UNCHANGED <<tables, issued>>

\* updateUserPassword: the hash is not compared again.
UpdatePassword(r) ==
  /\ At(r, "password")
  /\ password' = [password EXCEPT ![call[r].user] = call[r].password]
  /\ EndOvertaking(r, {q \in Requests : At(q, "password") /\ call[q].user = call[r].user})
  /\ UNCHANGED <<tenants, email, role, issued>>

\* updateProfile: findUserById.
UpdateProfile(r) ==
  /\ At(r, "idle")
  /\ \E k \in issued, e \in Emails :
       /\ IsAccount(k.sub)
       /\ call' = [call EXCEPT ![r] = [NoCall EXCEPT !.at = "email", !.user = k.sub,
                                                     !.email = e]]
  /\ UNCHANGED <<tables, issued>>

\* updateUserEmail: 409 when the e-mail is another account's.
UpdateEmail(r) ==
  /\ At(r, "email") /\ EmailSettled(r)
  /\ LET u == call[r].user
     IN  \/ /\ \E v \in Users \ {u} : email[v] = call[r].email
            /\ UNCHANGED email
         \/ /\ \A v \in Users \ {u} : email[v] # call[r].email
            /\ email' = [email EXCEPT ![u] = call[r].email]
  /\ End(r)
  /\ UNCHANGED <<tenants, password, role, issued>>

-----------------------------------------------------------------------------
(* PATCH /tenant/users/:userId/role and POST /admin/tenants                *)

\* Mutant: the guard on one's own role is forgotten.
ChangeRole_OwnToo(r) ==
  /\ At(r, "idle")
  /\ \E k \in issued, target \in Users, new \in {"tenant_admin", "tenant_view"} :
       /\ VerifiedAdmin(k) /\ TenantOf(k) # None
       /\ call' = [call EXCEPT ![r] = [NoCall EXCEPT !.at = "change", !.user = k.sub,
                     !.tenant = TenantOf(k), !.target = target, !.role = new]]
  /\ UNCHANGED <<tables, issued>>

\* The preHandlers, the last of which reads the caller's role; then 403 without a
\* tenant and for one's own role.  The target's old role is not read.
ChangeRole(r) ==
  /\ At(r, "idle")
  /\ \E k \in issued, target \in Users, new \in {"tenant_admin", "tenant_view"} :
       /\ VerifiedAdmin(k) /\ TenantOf(k) # None
       /\ target # k.sub
       /\ call' = [call EXCEPT ![r] = [NoCall EXCEPT !.at = "change", !.user = k.sub,
                     !.tenant = TenantOf(k), !.target = target, !.role = new]]
  /\ UNCHANGED <<tables, issued>>

\* Mutant: the role is inserted or updated, so no member is needed.
UpdateRole_Upserts(r) ==
  /\ At(r, "change")
  /\ role' = [role EXCEPT ![call[r].target][call[r].tenant] = call[r].role]
  /\ End(r)
  /\ UNCHANGED <<tenants, email, password, issued>>

\* updateUserTenantRole: 404 when the target is no member.  The member is then read
\* once more, for the answer only.
UpdateRole(r) ==
  /\ At(r, "change")
  /\ LET c == call[r]
     IN  \/ /\ role[c.target][c.tenant] = None
            /\ End(r)
            /\ UNCHANGED role
         \/ /\ role[c.target][c.tenant] # None
            /\ role' = [role EXCEPT ![c.target][c.tenant] = c.role]
            /\ EndOvertaking(r, {q \in Requests : /\ At(q, "change")
                                                  /\ call[q].user = c.target
                                                  /\ call[q].tenant = c.tenant})
  /\ UNCHANGED <<tenants, email, password, issued>>

\* verifySuperAdmin and createTenant; only super admins make tenants.
CreateTenant(r) ==
  /\ At(r, "idle")
  /\ \E k \in issued, t \in Tenants \ tenants :
       k.isSuperAdmin /\ tenants' = tenants \cup {t}
  /\ End(r)
  /\ UNCHANGED <<email, password, role, issued>>

-----------------------------------------------------------------------------
\* A query fails, the connection or the process is lost: an open transaction is
\* rolled back; after the commit the account stays and only the tokens are lost.
Fail(r) ==
  /\ call[r].at \notin {"idle", "done"}
  /\ End(r)
  /\ UNCHANGED <<tables, issued>>

Begin(r) ==
  \/ Register(r) \/ Login(r) \/ ChangePassword(r) \/ UpdateProfile(r)
  \/ ChangeRole(r) \/ CreateTenant(r)

Step(r) ==
  \/ InsertUser(r) \/ InsertRole(r) \/ Commit(r) \/ FindFirstTenant(r)
  \/ IssueToken(r) \/ UpdatePassword(r) \/ UpdateEmail(r) \/ UpdateRole(r)

Next == \E r \in Requests : Begin(r) \/ Step(r) \/ Fail(r)

Spec == Init /\ [][Next]_vars

\* A handler that is called keeps running.
FairSpec == Spec /\ \A r \in Requests : WF_vars(Step(r))

-----------------------------------------------------------------------------
(* Properties                                                              *)

\* getCurrentUser: the role GET /me tells the holder of token k, None for a 401.
CurrentRole(k) ==
  IF ~IsAccount(k.sub) THEN None
  ELSE IF k.isSuperAdmin THEN "super_admin" ELSE role[k.sub][TenantOf(k)]

\* Whatever fails during a registration, and after it, an account has a tenant: one
\* that was left without its first tokens can still log in.
AccountsHaveTenants ==
  \A u \in Users \ SuperAdmins : IsAccount(u) => \E t \in tenants : u \in Members(t)

\* Registrations and profile changes that take one e-mail at once, in any order of
\* their statements and commits, never give it to two accounts.
OneAccountPerEmail ==
  \A u, v \in Users : IsAccount(u) /\ email[u] = email[v] => u = v

\* Every token a client holds serves: its user is committed and a member of the
\* tenant it names, or a super admin without one.
TokensServe ==
  \A k \in issued : CurrentRole(k) # None /\ (k.isSuperAdmin <=> k.tid = None)

\* A password is replaced by a call that has verified that very password, or one
\* that another password change of the account overtook after it had verified.
PasswordsReplacedAsVerified ==
  [][\A u \in Users : IsAccount(u) /\ password'[u] # password[u] =>
       \E r \in Requests :
         /\ At(r, "password") /\ call[r].user = u
         /\ call[r].current = password[u] \/ call[r].overtaken
    ]_vars

\* A member's role is changed only by another user who is an admin of that tenant,
\* or who was until another role change overtook the call.
RolesChangedByAdmins ==
  [][\A u \in Users, t \in Tenants : role[u][t] # None /\ role'[u][t] # role[u][t] =>
       \E r \in Requests :
         /\ At(r, "change") /\ call[r].tenant = t /\ call[r].user # u
         /\ call[r].user \in Admins(t) \/ call[r].overtaken
    ]_vars

\* A tenant loses its last admin only when two role changes overlap: calls made one
\* after the other always leave one.
LastAdminLostOnlyByOverlap ==
  [][\A t \in Tenants : Admins(t) # {} /\ Admins(t)' = {} =>
       \E r \in Requests : At(r, "change") /\ call[r].tenant = t /\ call[r].overtaken
    ]_vars

\* The committed accounts, as Directory sees them.
Directory == INSTANCE Directory WITH
  accounts <- {[id |-> u, email |-> email[u], password |-> password[u], roles |-> role[u]] :
                 u \in {u \in Users : IsAccount(u)}}

\* What is committed, and what clients are given, changes by the steps of a directory,
\* each made whole or not at all.  A registration is two, its account and then, unless
\* it fails in between, its token; every other call is one.  A registration's rows appear
\* together, under an e-mail that is still free then, and what a call read before it
\* writes is either still so or does not matter.
ImplementsDirectory == Directory!Spec

\* A call that waits for an e-mail of an open registration gets on, whether that
\* one commits or fails: no call is in progress for ever (each request is one call).
EveryCallEnds == []<>(\A r \in Requests : call[r].at \in {"idle", "done"})
=============================================================================
