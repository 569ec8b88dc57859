--------------------------- MODULE AccountsProofs ---------------------------
(***************************************************************************)
(* The safety properties of Accounts for any users, tenants and number of  *)
(* concurrent calls, from any seeded tables.                               *)
(***************************************************************************)
EXTENDS Accounts, TLAPS

\* A row of user_tenant_roles is an account's, in a tenant that exists.
RolesAreMembers ==
  \A u \in Users, t \in Tenants : role[u][t] # None => IsAccount(u) /\ t \in tenants

\* What an open registration has inserted is new: nobody else has its user id or
\* its e-mail, neither committed nor in another open registration.
PendingIsNew ==
  \A r \in Requests : Pending(r) =>
    /\ call[r].user \notin SuperAdmins /\ ~IsAccount(call[r].user)
    /\ \A u \in Users : email[u] # call[r].email
    /\ \A q \in Requests : Pending(q) /\ q # r =>
         call[q].user # call[r].user /\ call[q].email # call[r].email

\* Before its commit a registration has written the role it commits.
CommitHasRole == \A r \in Requests : At(r, "commit") => call[r].role # None

\* A call that will sign a token has a super admin, or a member of the tenant.
TokensInHand ==
  \A r \in Requests : At(r, "token") =>
    \/ call[r].user \in SuperAdmins /\ call[r].tenant = None
    \/ /\ call[r].user \notin SuperAdmins /\ call[r].tenant # None
       /\ role[call[r].user][call[r].tenant] # None
LoginsAreOfMembers ==
  \A r \in Requests : At(r, "tenant") => call[r].user \notin SuperAdmins

\* The hash a password change has verified is still the account's, or the call was
\* overtaken.
VerifiedOrOvertaken ==
  \A r \in Requests : At(r, "password") =>
    call[r].current = password[call[r].user] \/ call[r].overtaken

\* The caller of a role change is another user than its target, and still an admin
\* unless the call was overtaken.
AdminOrOvertaken ==
  \A r \in Requests : At(r, "change") =>
    /\ call[r].user # call[r].target
    /\ role[call[r].user][call[r].tenant] = "tenant_admin" \/ call[r].overtaken

IInv ==
  /\ AccountsTypeOK
  /\ RolesAreMembers /\ PendingIsNew /\ CommitHasRole
  /\ TokensInHand /\ LoginsAreOfMembers
  /\ VerifiedOrOvertaken /\ AdminOrOvertaken
  /\ AccountsHaveTenants /\ OneAccountPerEmail /\ TokensServe

-----------------------------------------------------------------------------
(* One call                                                                *)

\* What the invariant says of a call by itself.
InHand(c) ==
  /\ c.at \in {"user", "role", "commit"} =>
       c.email # None /\ c.password # None /\ c.tenant \in tenants
  /\ c.at \in {"role", "commit"} =>
       c.user # None /\ c.user \notin SuperAdmins /\ ~IsAccount(c.user)
  /\ c.at = "commit" => c.role # None
  /\ c.at \in {"tenant", "token", "password", "email", "change"} =>
       c.user # None /\ IsAccount(c.user)
  /\ c.at = "tenant" => c.user \notin SuperAdmins
  /\ c.at = "token" =>
       \/ c.user \in SuperAdmins /\ c.tenant = None
       \/ c.user \notin SuperAdmins /\ c.tenant # None /\ role[c.user][c.tenant] # None
  /\ c.at = "password" =>
       c.password # None /\ (c.current = password[c.user] \/ c.overtaken)
  /\ c.at = "email" => c.email # None
  /\ c.at = "change" =>
       /\ c.tenant # None /\ c.target # None /\ c.role # None /\ c.user # c.target
       /\ role[c.user][c.tenant] = "tenant_admin" \/ c.overtaken

\* What it says of the tables and tokens.
TablesOK ==
  /\ tenants \subseteq Tenants
  /\ email \in [Users -> Emails \cup {None}]
  /\ password \in [Users -> Passwords \cup {None}]
  /\ role \in [Users -> [Tenants -> Roles \cup {None}]]
  /\ issued \subseteq Tokens
  /\ \A u \in Users : IsAccount(u) <=> password[u] # None
  /\ RolesAreMembers /\ AccountsHaveTenants /\ OneAccountPerEmail /\ TokensServe

CallsOK == call \in [Requests -> Calls] /\ \A r \in Requests : InHand(call[r])

\* The invariant, taken apart the other way.
LEMMA IInvParts == IInv <=> TablesOK /\ CallsOK /\ PendingIsNew
<1>1. IInv => TablesOK
  BY DEF IInv, AccountsTypeOK, TablesOK
<1>2. IInv => CallsOK /\ PendingIsNew
  BY DEF IInv, AccountsTypeOK, CallsOK, InHand, PendingIsNew, CommitHasRole, TokensInHand,
         LoginsAreOfMembers, VerifiedOrOvertaken, AdminOrOvertaken, Pending, At
<1>3. TablesOK /\ CallsOK /\ PendingIsNew => IInv
  <2> SUFFICES ASSUME TablesOK, CallsOK, PendingIsNew PROVE IInv
    OBVIOUS
  <2>1. AccountsTypeOK
    BY DEF AccountsTypeOK, TablesOK, CallsOK, InHand
  <2>2. CommitHasRole /\ TokensInHand /\ LoginsAreOfMembers
    BY DEF CallsOK, InHand, CommitHasRole, TokensInHand, LoginsAreOfMembers, At
  <2>3. VerifiedOrOvertaken /\ AdminOrOvertaken
    BY DEF CallsOK, InHand, VerifiedOrOvertaken, AdminOrOvertaken, At
  <2> QED
    BY <2>1, <2>2, <2>3 DEF IInv, TablesOK
<1> QED
  BY <1>1, <1>2, <1>3

\* A call that moves on with sound values, and pending rows only if they are new,
\* preserves the invariant while the tables stay.
LEMMA CallIInv ==
  ASSUME IInv, NEW r \in Requests, NEW c \in Calls,
         call' = [call EXCEPT ![r] = c], UNCHANGED <<tables, issued>>,
         InHand(c),
         c.at \in {"role", "commit"} =>
           /\ \A u \in Users : email[u] # c.email
           /\ \A q \in Requests \ {r} : Pending(q) =>
                call[q].user # c.user /\ call[q].email # c.email
  PROVE  IInv'
<1>0. TablesOK /\ CallsOK /\ PendingIsNew
  BY IInvParts
<1>1. UNCHANGED <<tenants, email, password, role, issued>>
  BY DEF tables
<1>2. TablesOK'
  BY <1>0, <1>1
     DEF TablesOK, RolesAreMembers, AccountsHaveTenants, OneAccountPerEmail, TokensServe,
         CurrentRole, TenantOf, IsAccount, Members
<1>3. \A q \in Requests : call'[q] = IF q = r THEN c ELSE call[q]
  BY <1>0 DEF CallsOK
<1>4. CallsOK'
  BY <1>0, <1>1, <1>3 DEF CallsOK, InHand, IsAccount
<1>5. PendingIsNew'
  BY <1>0, <1>1, <1>3 DEF PendingIsNew, Pending, InHand, IsAccount
<1>6. (TablesOK /\ CallsOK /\ PendingIsNew => IInv)'
  BY IInvParts, PTL
<1> QED
  BY <1>2, <1>4, <1>5, <1>6

\* A call that has ended has nothing in hand.
LEMMA EndedOK == Ended \in Calls /\ InHand(Ended) /\ Ended.at = "done"
  BY DEF Ended, NoCall, Calls, InHand, Labels

\* The start of a call and the queries of a registration and a login that only
\* read, or write what is not committed yet.
LEMMA QueryIInv ==
  ASSUME IInv, NEW r \in Requests,
         \/ Register(r) \/ Login(r) \/ ChangePassword(r) \/ UpdateProfile(r) \/ ChangeRole(r)
         \/ InsertUser(r) \/ InsertRole(r) \/ FindFirstTenant(r) \/ Fail(r)
  PROVE  IInv'
<1>0. TablesOK /\ CallsOK /\ PendingIsNew
  BY IInvParts
<1>1. call[r] \in Calls /\ InHand(call[r])
  BY <1>0 DEF CallsOK
<1>2. UNCHANGED <<tables, issued>>
  BY DEF Register, Login, ChangePassword, UpdateProfile, ChangeRole, InsertUser, InsertRole,
         FindFirstTenant, Fail
<1>3. ASSUME End(r) PROVE IInv'
  BY <1>2, <1>3, EndedOK, CallIInv DEF End
<1>4. CASE Register(r)
  <2>1. PICK e \in Emails, p \in Passwords, t \in tenants :
          call' = [call EXCEPT ![r] = [NoCall EXCEPT !.at = "user", !.email = e,
                                                     !.password = p, !.tenant = t]]
    BY <1>4 DEF Register
  <2> DEFINE c == [NoCall EXCEPT !.at = "user", !.email = e, !.password = p, !.tenant = t]
  <2>2. c \in Calls /\ InHand(c) /\ c.at = "user"
    BY <1>0, NoneIsNew DEF TablesOK, NoCall, Calls, InHand, Labels
  <2> QED
    BY <1>2, <2>1, <2>2, CallIInv
<1>5. CASE Login(r)
  <2>1. PICK u \in Users :
          /\ IsAccount(u)
          /\ call' = [call EXCEPT ![r] =
                        [NoCall EXCEPT !.user = u,
                                       !.at = IF u \in SuperAdmins THEN "token" ELSE "tenant"]]
    BY <1>5 DEF Login
  <2> DEFINE c == [NoCall EXCEPT !.user = u,
                                 !.at = IF u \in SuperAdmins THEN "token" ELSE "tenant"]
  <2>2. c \in Calls /\ InHand(c) /\ c.at \in {"token", "tenant"}
    BY <2>1, NoneIsNew DEF NoCall, Calls, InHand, Labels
  <2> QED
    BY <1>2, <2>1, <2>2, CallIInv
<1>6. CASE ChangePassword(r)
  <2>1. PICK k \in issued, current \in Passwords, new \in Passwords :
          /\ IsAccount(k.sub) /\ current = password[k.sub]
          /\ call' = [call EXCEPT ![r] = [NoCall EXCEPT !.at = "password", !.user = k.sub,
                                                     !.current = current, !.password = new]]
    BY <1>6 DEF ChangePassword
  <2> DEFINE c == [NoCall EXCEPT !.at = "password", !.user = k.sub,
                                 !.current = current, !.password = new]
  <2>2. k.sub \in Users
    BY <1>0 DEF TablesOK, Tokens
  <2>3. c \in Calls /\ InHand(c) /\ c.at = "password"
    BY <2>1, <2>2, NoneIsNew DEF NoCall, Calls, InHand, Labels
  <2> QED
    BY <1>2, <2>1, <2>3, CallIInv
<1>7. CASE UpdateProfile(r)
  <2>1. PICK k \in issued, e \in Emails :
          /\ IsAccount(k.sub)
          /\ call' = [call EXCEPT ![r] = [NoCall EXCEPT !.at = "email", !.user = k.sub,
                                                        !.email = e]]
    BY <1>7 DEF UpdateProfile
  <2> DEFINE c == [NoCall EXCEPT !.at = "email", !.user = k.sub, !.email = e]
  <2>2. k.sub \in Users
    BY <1>0 DEF TablesOK, Tokens
  <2>3. c \in Calls /\ InHand(c) /\ c.at = "email"
    BY <2>1, <2>2, NoneIsNew DEF NoCall, Calls, InHand, Labels
  <2> QED
    BY <1>2, <2>1, <2>3, CallIInv
<1>8. CASE ChangeRole(r)
  <2>1. PICK k \in issued, target \in Users, new \in {"tenant_admin", "tenant_view"} :
          /\ VerifiedAdmin(k) /\ TenantOf(k) # None
          /\ target # k.sub
          /\ call' = [call EXCEPT ![r] = [NoCall EXCEPT !.at = "change", !.user = k.sub,
                        !.tenant = TenantOf(k), !.target = target, !.role = new]]
    BY <1>8 DEF ChangeRole
  <2> DEFINE c == [NoCall EXCEPT !.at = "change", !.user = k.sub,
                                 !.tenant = TenantOf(k), !.target = target, !.role = new]
  <2>2. /\ k.sub \in Users /\ TenantOf(k) \in Tenants
        /\ role[k.sub][TenantOf(k)] = "tenant_admin"
    BY <1>0, <2>1 DEF TablesOK, Tokens, TenantOf, VerifiedAdmin
  <2>3. IsAccount(k.sub)
    BY <1>0, <2>2, NoneIsNew DEF TablesOK, RolesAreMembers, Roles
  <2>4. c \in Calls /\ InHand(c) /\ c.at = "change"
    BY <2>1, <2>2, <2>3, NoneIsNew DEF NoCall, Calls, InHand, Labels, Roles
  <2> QED
    BY <1>2, <2>1, <2>4, CallIInv
<1>9. CASE InsertUser(r)
  <2>1. CASE End(r)
    BY <2>1, <1>3
  <2>2. CASE /\ ~EmailTaken(call[r].email)
             /\ \E u \in Users :
                  NewUser(u) /\ call' = [call EXCEPT ![r].user = u, ![r].at = "role"]
    <3>1. PICK u \in Users :
            NewUser(u) /\ call' = [call EXCEPT ![r].user = u, ![r].at = "role"]
      BY <2>2
    <3> DEFINE c == [call[r] EXCEPT !.user = u, !.at = "role"]
    <3>2. call' = [call EXCEPT ![r] = c]
      BY <1>0, <3>1 DEF CallsOK
    <3>3. /\ c \in Calls /\ c.user = u /\ c.at = "role" /\ c.email = call[r].email
          /\ c.password = call[r].password /\ c.tenant = call[r].tenant
      BY <1>1 DEF Calls, Labels
    <3>4. call[r].at = "user" /\ EmailSettled(r)
      BY <1>9 DEF InsertUser, At
    <3>5. InHand(c)
      BY <1>1, <3>1, <3>3, <3>4, NoneIsNew DEF InHand, NewUser
    <3>6. \A v \in Users : email[v] # c.email
      BY <2>2, <3>3 DEF EmailTaken
    <3>7. \A q \in Requests \ {r} : Pending(q) =>
            call[q].user # c.user /\ call[q].email # c.email
      BY <3>1, <3>3, <3>4 DEF NewUser, EmailSettled
    <3> QED
      BY <1>2, <3>2, <3>3, <3>5, <3>6, <3>7, CallIInv
  <2> QED
    BY <1>9, <2>1, <2>2 DEF InsertUser
<1>10. CASE InsertRole(r)
  <2> DEFINE c == [call[r] EXCEPT !.role = "tenant_view", !.at = "commit"]
  <2>1. call' = [call EXCEPT ![r] = c] /\ call[r].at = "role"
    BY <1>0, <1>10 DEF CallsOK, InsertRole, At
  <2>2. /\ c \in Calls /\ c.role = "tenant_view" /\ c.at = "commit" /\ c.user = call[r].user
        /\ c.email = call[r].email /\ c.password = call[r].password
        /\ c.tenant = call[r].tenant
    BY <1>1 DEF Calls, Labels, Roles
  <2>3. InHand(c)
    BY <1>1, <2>1, <2>2, NoneIsNew DEF InHand, Roles
  <2>4. /\ \A u \in Users : email[u] # c.email
        /\ \A q \in Requests \ {r} : Pending(q) =>
             call[q].user # c.user /\ call[q].email # c.email
    BY <1>0, <2>1, <2>2 DEF PendingIsNew, Pending
  <2> QED
    BY <1>2, <2>1, <2>2, <2>3, <2>4, CallIInv
<1>11. CASE FindFirstTenant(r)
  <2>1. CASE End(r)
    BY <2>1, <1>3
  <2>2. CASE \E t \in {t \in Tenants : role[call[r].user][t] # None} :
               call' = [call EXCEPT ![r].tenant = t, ![r].at = "token"]
    <3>1. PICK t \in Tenants :
            /\ role[call[r].user][t] # None
            /\ call' = [call EXCEPT ![r].tenant = t, ![r].at = "token"]
      BY <2>2
    <3> DEFINE c == [call[r] EXCEPT !.tenant = t, !.at = "token"]
    <3>2. call' = [call EXCEPT ![r] = c] /\ call[r].at = "tenant"
      BY <1>0, <1>11, <3>1 DEF CallsOK, FindFirstTenant, At
    <3>3. c \in Calls /\ c.user = call[r].user /\ c.tenant = t /\ c.at = "token"
      BY <1>1 DEF Calls, Labels
    <3>4. InHand(c)
      BY <1>1, <3>1, <3>2, <3>3, NoneIsNew DEF InHand
    <3> QED
      BY <1>2, <3>2, <3>3, <3>4, CallIInv
  <2> QED
    BY <1>11, <2>1, <2>2 DEF FindFirstTenant
<1>12. CASE Fail(r)
  BY <1>3, <1>12 DEF Fail
<1> QED
  BY <1>4, <1>5, <1>6, <1>7, <1>8, <1>9, <1>10, <1>11, <1>12

-----------------------------------------------------------------------------
(* The writes                                                              *)

\* An ended call, and the calls it has overtaken, in the terms of the old ones.
LEMMA EndingCalls ==
  ASSUME call \in [Requests -> Calls], NEW r \in Requests, NEW Q \in SUBSET Requests,
         EndOvertaking(r, Q)
  PROVE  /\ call' \in [Requests -> Calls]
         /\ call'[r] = Ended
         /\ \A q \in Requests \ {r} :
              /\ q \notin Q => call'[q] = call[q]
              /\ q \in Q => call'[q] = [call[q] EXCEPT !.overtaken = TRUE]
<1>1. \A q \in Requests :
        call'[q] = IF q = r THEN Ended
                   ELSE IF q \in Q THEN [call[q] EXCEPT !.overtaken = TRUE] ELSE call[q]
  BY DEF EndOvertaking
<1>2. \A c \in Calls : [c EXCEPT !.overtaken = TRUE] \in Calls
  BY DEF Calls
<1> QED
  BY <1>1, <1>2, EndedOK DEF EndOvertaking

\* Once r has ended, the other open registrations are still new to the tables as
\* long as no user or e-mail of theirs was written.
LEMMA StillPending ==
  ASSUME PendingIsNew, NEW r \in Requests, call'[r] = Ended,
         \A q \in Requests \ {r} :
           /\ call'[q].at = call[q].at
           /\ Pending(q) => call'[q].user = call[q].user /\ call'[q].email = call[q].email,
         \A q \in Requests \ {r} : Pending(q) =>
           /\ email'[call[q].user] = email[call[q].user]
           /\ \A u \in Users : email'[u] # call[q].email
  PROVE  PendingIsNew'
<1>1. \A q \in Requests : Pending(q)' => q # r /\ Pending(q)
  BY EndedOK DEF Pending
<1> QED
  BY <1>1 DEF PendingIsNew, Pending, IsAccount

\* A new token names the user and tenant its call has in hand.
LEMMA TokenIInv == ASSUME IInv, NEW r \in Requests, IssueToken(r) PROVE IInv'
<1>0. TablesOK /\ CallsOK /\ PendingIsNew
  BY IInvParts
<1> DEFINE k == Claims(call[r].user, call[r].tenant)
<1>1. /\ call[r].at = "token" /\ call[r] \in Calls /\ InHand(call[r])
      /\ UNCHANGED <<tenants, email, password, role>> /\ issued' = issued \cup {k}
      /\ call' = [call EXCEPT ![r] = Ended]
  BY <1>0 DEF IssueToken, At, End, CallsOK, tables
<1>2. /\ k \in Tokens /\ (k.isSuperAdmin <=> k.tid = None)
      /\ k.sub = call[r].user /\ CurrentRole(k) # None
  <2> DEFINE u == call[r].user
             t == call[r].tenant
  <2>1. u \in Users /\ t \in Tenants \cup {None} /\ IsAccount(u)
    BY <1>1 DEF InHand, Calls
  <2>2. CASE u \in SuperAdmins /\ t = None
    <3>1. k = [sub |-> u, tid |-> None, isSuperAdmin |-> TRUE]
      BY <2>2 DEF Claims
    <3> QED
      BY <2>1, <3>1, NoneIsNew DEF Tokens, CurrentRole
  <2>3. CASE u \notin SuperAdmins /\ t # None /\ role[u][t] # None
    <3>1. (u \in SuperAdmins) = FALSE
      BY <2>3
    <3>2. k = [sub |-> u, tid |-> t, isSuperAdmin |-> FALSE]
      BY <3>1, Zenon DEF Claims
    <3> QED
      BY <2>1, <2>3, <3>2 DEF Tokens, CurrentRole, TenantOf
  <2> QED
    BY <1>1, <2>2, <2>3 DEF InHand
<1>3. TablesOK'
  BY <1>0, <1>1, <1>2
     DEF TablesOK, RolesAreMembers, AccountsHaveTenants, OneAccountPerEmail, TokensServe,
         CurrentRole, TenantOf, IsAccount, Members
<1>4. \A q \in Requests : call'[q] = IF q = r THEN Ended ELSE call[q]
  BY <1>0, <1>1 DEF CallsOK
<1>5. CallsOK'
  BY <1>0, <1>1, <1>4, EndedOK DEF CallsOK, InHand, IsAccount
<1>6. PendingIsNew'
  BY <1>0, <1>1, <1>4, StillPending DEF PendingIsNew
<1>7. (TablesOK /\ CallsOK /\ PendingIsNew => IInv)'
  BY IInvParts, PTL
<1> QED
  BY <1>3, <1>5, <1>6, <1>7

\* The commit of a registration: a new account, its role, and no other change.
LEMMA CommitIInv == ASSUME IInv, NEW r \in Requests, Commit(r) PROVE IInv'
<1>0. TablesOK /\ CallsOK /\ PendingIsNew
  BY IInvParts
<1> DEFINE u == call[r].user
           t == call[r].tenant
           c == [call[r] EXCEPT !.at = "token"]
<1>1. /\ call[r] \in Calls /\ InHand(call[r]) /\ call[r].at = "commit"
      /\ email' = [email EXCEPT ![u] = call[r].email]
      /\ password' = [password EXCEPT ![u] = call[r].password]
      /\ role' = [role EXCEPT ![u][t] = call[r].role]
      /\ call' = [call EXCEPT ![r] = c] /\ UNCHANGED <<tenants, issued>>
  BY <1>0 DEF Commit, At, CallsOK
<1>2. /\ u \in Users /\ t \in tenants /\ t \in Tenants /\ t # None
      /\ u \notin SuperAdmins /\ ~IsAccount(u)
      /\ call[r].email \in Emails /\ call[r].password \in Passwords /\ call[r].role \in Roles
  BY <1>0, <1>1, NoneIsNew DEF InHand, Calls, TablesOK
<1>3. \A v \in Users, s \in Tenants :
        /\ email'[v] = IF v = u THEN call[r].email ELSE email[v]
        /\ password'[v] = IF v = u THEN call[r].password ELSE password[v]
        /\ role'[v][s] = IF v = u /\ s = t THEN call[r].role ELSE role[v][s]
  BY <1>0, <1>1, <1>2 DEF TablesOK
<1>4. \A v \in Users : email[v] # call[r].email
  BY <1>0, <1>1 DEF PendingIsNew, Pending
<1>5. TablesOK'
  <2>1. /\ tenants' \subseteq Tenants /\ issued' \subseteq Tokens
        /\ email' \in [Users -> Emails \cup {None}]
        /\ password' \in [Users -> Passwords \cup {None}]
        /\ role' \in [Users -> [Tenants -> Roles \cup {None}]]
    BY <1>0, <1>1, <1>2 DEF TablesOK
  <2>2. \A v \in Users : IsAccount(v)' <=> password'[v] # None
    BY <1>0, <1>2, <1>3, NoneIsNew DEF TablesOK, IsAccount
  <2>3. RolesAreMembers'
    BY <1>0, <1>1, <1>2, <1>3, NoneIsNew DEF TablesOK, RolesAreMembers, IsAccount
  <2>4. AccountsHaveTenants'
    <3> SUFFICES ASSUME NEW v \in Users \ SuperAdmins, IsAccount(v)'
                 PROVE  \E s \in tenants' : v \in Members(s)'
      BY DEF AccountsHaveTenants
    <3>1. CASE v = u
      <4>1. role'[u][t] # None
        BY <1>2, <1>3, NoneIsNew
      <4> QED
        BY <1>1, <1>2, <3>1, <4>1 DEF Members
    <3>2. CASE v # u
      <4>1. IsAccount(v)
        BY <1>3, <3>2, <1>2 DEF IsAccount
      <4>2. PICK s \in tenants : v \in Members(s)
        BY <1>0, <4>1 DEF TablesOK, AccountsHaveTenants
      <4>3. role'[v][s] # None
        BY <1>0, <1>3, <3>2, <4>2 DEF TablesOK, Members
      <4> QED
        BY <1>1, <4>2, <4>3 DEF Members
    <3> QED
      BY <3>1, <3>2
  <2>5. OneAccountPerEmail'
    BY <1>0, <1>2, <1>3, <1>4 DEF TablesOK, OneAccountPerEmail, IsAccount
  <2>6. TokensServe'
    <3> SUFFICES ASSUME NEW k \in issued
                 PROVE  CurrentRole(k)' # None /\ (k.isSuperAdmin <=> k.tid = None)
      BY <1>1 DEF TokensServe
    <3>1. k \in Tokens /\ CurrentRole(k) # None /\ (k.isSuperAdmin <=> k.tid = None)
      BY <1>0 DEF TablesOK, TokensServe
    <3>2. k.sub \in Users /\ IsAccount(k.sub) /\ k.sub # u
      BY <1>2, <3>1 DEF Tokens, CurrentRole
    <3>3. k.isSuperAdmin \/ (TenantOf(k) \in Tenants /\ role'[k.sub][TenantOf(k)] = role[k.sub][TenantOf(k)])
      BY <1>3, <3>1, <3>2 DEF Tokens, TenantOf
    <3> QED
      BY <1>2, <1>3, <3>1, <3>2, <3>3 DEF CurrentRole, IsAccount, TenantOf
  <2> QED
    BY <2>1, <2>2, <2>3, <2>4, <2>5, <2>6 DEF TablesOK
<1>6. c \in Calls /\ c.user = u /\ c.tenant = t /\ c.at = "token"
  BY <1>1 DEF Calls, Labels
<1>7. \A q \in Requests : call'[q] = IF q = r THEN c ELSE call[q]
  BY <1>0, <1>1 DEF CallsOK
<1>8. CallsOK'
  <2> SUFFICES ASSUME NEW q \in Requests PROVE InHand(call[q])'
    BY <1>0, <1>6, <1>7, <1>1 DEF CallsOK
  <2>1. CASE q = r
    <3>1. role'[u][t] # None /\ email'[u] # None
      BY <1>2, <1>3, NoneIsNew
    <3>2. call'[q] = c
      BY <1>7, <2>1
    <3> QED
      BY <1>2, <1>6, <3>1, <3>2, NoneIsNew DEF InHand, IsAccount
  <2>2. CASE q # r
    <3>1. call'[q] = call[q] /\ InHand(call[q]) /\ call[q] \in Calls
      BY <1>0, <1>7, <2>2 DEF CallsOK
    <3>2. Pending(q) => call[q].user # u
      BY <1>0, <1>1, <2>2 DEF PendingIsNew, Pending
    <3>3. \A v \in Users : IsAccount(v) => v # u /\ IsAccount(v)' /\ password'[v] = password[v]
      BY <1>2, <1>3 DEF IsAccount
    <3>4. \A v \in Users : v # u => (IsAccount(v)' <=> IsAccount(v))
      BY <1>3, <1>2 DEF IsAccount
    <3>5. \A v \in Users, s \in Tenants : v # u => role'[v][s] = role[v][s]
      BY <1>3
    <3> QED
      BY <1>1, <3>1, <3>2, <3>3, <3>4, <3>5 DEF InHand, Pending, Calls
  <2> QED
    BY <2>1, <2>2
<1>9. PendingIsNew'
  <2>1. \A q \in Requests : Pending(q)' => q # r /\ Pending(q) /\ call'[q] = call[q]
    BY <1>6, <1>7 DEF Pending
  <2>2. \A q \in Requests : Pending(q) => call[q].user \in Users
    BY <1>0 DEF CallsOK, InHand, Pending, Calls
  <2>3. \A q \in Requests \ {r} : Pending(q) => call[q].user # u /\ call[q].email # call[r].email
    BY <1>0, <1>1 DEF PendingIsNew, Pending
  <2>4. ASSUME NEW q \in Requests, Pending(q)'
        PROVE  /\ call'[q].user \notin SuperAdmins /\ email'[call'[q].user] = None
               /\ \A v \in Users : email'[v] # call'[q].email
    BY <1>0, <1>2, <1>3, <2>1, <2>2, <2>3, <2>4 DEF PendingIsNew, IsAccount
  <2> QED
    BY <1>0, <2>1, <2>4 DEF PendingIsNew, IsAccount
<1>10. (TablesOK /\ CallsOK /\ PendingIsNew => IInv)'
  BY IInvParts, PTL
<1> QED
  BY <1>5, <1>8, <1>9, <1>10

\* A new password: the other password changes of the account are overtaken.
LEMMA PasswordIInv == ASSUME IInv, NEW r \in Requests, UpdatePassword(r) PROVE IInv'
<1>0. TablesOK /\ CallsOK /\ PendingIsNew
  BY IInvParts
<1> DEFINE Q == {q \in Requests : At(q, "password") /\ call[q].user = call[r].user}
<1>1. /\ call[r] \in Calls /\ InHand(call[r]) /\ call[r].at = "password"
      /\ password' = [password EXCEPT ![call[r].user] = call[r].password]
      /\ EndOvertaking(r, Q) /\ UNCHANGED <<tenants, email, role, issued>>
  BY <1>0 DEF UpdatePassword, At, CallsOK
<1>2. /\ call[r].user \in Users /\ IsAccount(call[r].user)
      /\ call[r].password \in Passwords /\ call[r].password # None
  BY <1>1 DEF InHand, Calls
<1>3. \A v \in Users :
        password'[v] = IF v = call[r].user THEN call[r].password ELSE password[v]
  BY <1>0, <1>1 DEF TablesOK
<1>4. TablesOK'
  <2>1. /\ password' \in [Users -> Passwords \cup {None}]
        /\ \A v \in Users : IsAccount(v)' <=> password'[v] # None
    BY <1>0, <1>1, <1>2, <1>3 DEF TablesOK, IsAccount
  <2> QED
    BY <1>0, <1>1, <2>1
       DEF TablesOK, RolesAreMembers, AccountsHaveTenants, OneAccountPerEmail, TokensServe,
           CurrentRole, TenantOf, IsAccount, Members
<1>5. /\ call' \in [Requests -> Calls] /\ call'[r] = Ended
      /\ \A q \in Requests \ {r} :
           /\ q \notin Q => call'[q] = call[q]
           /\ q \in Q => call'[q] = [call[q] EXCEPT !.overtaken = TRUE]
  BY <1>0, <1>1, EndingCalls DEF CallsOK
<1>6. CallsOK'
  <2> SUFFICES ASSUME NEW q \in Requests \ {r} PROVE InHand(call[q])'
    BY <1>5, EndedOK DEF CallsOK, InHand
  <2>1. InHand(call[q]) /\ call[q] \in Calls
    BY <1>0 DEF CallsOK
  <2>2. CASE q \in Q
    <3>1. call'[q] = [call[q] EXCEPT !.overtaken = TRUE] /\ call[q].at = "password"
      BY <1>5, <2>2 DEF At
    <3>2. /\ call'[q].at = "password" /\ call'[q].user = call[q].user
          /\ call'[q].password = call[q].password /\ call'[q].overtaken = TRUE
      BY <2>1, <3>1 DEF Calls
    <3> QED
      BY <1>1, <2>1, <3>1, <3>2 DEF InHand, IsAccount
  <2>3. CASE q \notin Q
    <3>1. call'[q] = call[q] /\ (call[q].at = "password" => call[q].user # call[r].user)
      BY <1>5, <2>3 DEF At
    <3>2. call[q].at = "password" => password'[call[q].user] = password[call[q].user]
      BY <1>3, <2>1, <3>1 DEF InHand, Calls
    <3> QED
      BY <1>1, <2>1, <3>1, <3>2 DEF InHand, IsAccount
  <2> QED
    BY <2>2, <2>3
<1>7. PendingIsNew'
  <2>1. \A q \in Requests \ {r} :
          /\ call'[q].at = call[q].at
          /\ call'[q].user = call[q].user /\ call'[q].email = call[q].email
    BY <1>0, <1>5 DEF CallsOK, Calls
  <2> QED
    BY <1>0, <1>1, <1>5, <2>1, StillPending DEF PendingIsNew
<1>8. (TablesOK /\ CallsOK /\ PendingIsNew => IInv)'
  BY IInvParts, PTL
<1> QED
  BY <1>4, <1>6, <1>7, <1>8

\* A new e-mail: no other account has it, no open registration either.
LEMMA EmailIInv == ASSUME IInv, NEW r \in Requests, UpdateEmail(r) PROVE IInv'
<1>0. TablesOK /\ CallsOK /\ PendingIsNew
  BY IInvParts
<1> DEFINE u == call[r].user
           e == call[r].email
<1>1. /\ call[r] \in Calls /\ InHand(call[r]) /\ call[r].at = "email"
      /\ EmailSettled(r) /\ call' = [call EXCEPT ![r] = Ended]
      /\ UNCHANGED <<tenants, password, role, issued>>
  BY <1>0 DEF UpdateEmail, At, CallsOK, End
<1>2. u \in Users /\ email[u] # None /\ e \in Emails /\ e # None
  BY <1>1 DEF InHand, Calls, IsAccount
<1>3. CASE email' = email
  BY <1>1, <1>3, EndedOK, CallIInv DEF tables
<1>4. CASE email' = [email EXCEPT ![u] = e] /\ \A v \in Users \ {u} : email[v] # e
  <2>1. \A v \in Users : email'[v] = IF v = u THEN e ELSE email[v]
    BY <1>0, <1>4 DEF TablesOK
  <2>2. \A v \in Users : IsAccount(v)' <=> IsAccount(v)
    BY <1>2, <2>1 DEF IsAccount
  <2>3. TablesOK'
    <3>1. /\ email' \in [Users -> Emails \cup {None}]
          /\ \A v \in Users : IsAccount(v)' <=> password'[v] # None
          /\ RolesAreMembers'
      BY <1>0, <1>1, <1>2, <1>4, <2>2 DEF TablesOK, RolesAreMembers
    <3>2. AccountsHaveTenants'
      BY <1>0, <1>1, <2>2 DEF TablesOK, AccountsHaveTenants, Members
    <3>3. OneAccountPerEmail'
      BY <1>0, <1>2, <1>4, <2>1, <2>2 DEF TablesOK, OneAccountPerEmail
    <3>4. TokensServe'
      <4>1. \A k \in issued : k.sub \in Users
        BY <1>0 DEF TablesOK, Tokens
      <4> QED
        BY <1>0, <1>1, <2>2, <4>1 DEF TablesOK, TokensServe, CurrentRole, TenantOf
    <3> QED
      BY <1>0, <1>1, <3>1, <3>2, <3>3, <3>4 DEF TablesOK
  <2>4. \A q \in Requests : call'[q] = IF q = r THEN Ended ELSE call[q]
    BY <1>0, <1>1 DEF CallsOK
  <2>5. CallsOK'
    <3>1. call' \in [Requests -> Calls]
      BY <1>0, <1>1, EndedOK DEF CallsOK
    <3>2. InHand(call[r])'
      BY <2>4, EndedOK DEF InHand
    <3>3. ASSUME NEW q \in Requests \ {r} PROVE InHand(call[q])'
      <4>1. call'[q] = call[q] /\ InHand(call[q]) /\ call[q] \in Calls
        BY <1>0, <2>4 DEF CallsOK
      <4> QED
        BY <1>1, <2>2, <4>1 DEF InHand, Calls
    <3> QED
      BY <3>1, <3>2, <3>3 DEF CallsOK
  <2>6. PendingIsNew'
    <3>1. ASSUME NEW q \in Requests \ {r}, Pending(q)
          PROVE  /\ email'[call[q].user] = email[call[q].user]
                 /\ \A v \in Users : email'[v] # call[q].email
      <4>1. /\ call[q].user \in Users /\ email[call[q].user] = None /\ call[q].email # e
            /\ \A v \in Users : email[v] # call[q].email
        BY <1>0, <1>1, <3>1
           DEF PendingIsNew, EmailSettled, CallsOK, InHand, Pending, Calls, IsAccount
      <4> QED
        BY <1>2, <2>1, <4>1
    <3> QED
      BY <1>0, <2>4, <3>1, StillPending
  <2>7. (TablesOK /\ CallsOK /\ PendingIsNew => IInv)'
    BY IInvParts, PTL
  <2> QED
    BY <2>3, <2>5, <2>6, <2>7
<1> QED
  BY <1>1, <1>3, <1>4 DEF UpdateEmail

\* A new role of a member: the role changes its owner has begun are overtaken.
LEMMA RoleIInv == ASSUME IInv, NEW r \in Requests, UpdateRole(r) PROVE IInv'
<1>0. TablesOK /\ CallsOK /\ PendingIsNew
  BY IInvParts
<1> DEFINE c == call[r]
           m == call[r].target
           t == call[r].tenant
           Q == {q \in Requests : /\ At(q, "change")
                                  /\ call[q].user = m /\ call[q].tenant = t}
<1>1. /\ call[r] \in Calls /\ InHand(call[r]) /\ call[r].at = "change"
      /\ UNCHANGED <<tenants, email, password, issued>>
  BY <1>0 DEF UpdateRole, At, CallsOK
<1>2. m \in Users /\ t \in Tenants /\ t # None /\ c.role \in Roles /\ c.role # None
  BY <1>1, NoneIsNew DEF InHand, Calls
<1>3. CASE role[m][t] = None /\ End(r) /\ UNCHANGED role
  BY <1>1, <1>3, EndedOK, CallIInv DEF tables, End
<1>4. CASE /\ role[m][t] # None
           /\ role' = [role EXCEPT ![m][t] = c.role]
           /\ EndOvertaking(r, Q)
  <2>1. \A v \in Users, s \in Tenants :
          role'[v][s] = IF v = m /\ s = t THEN c.role ELSE role[v][s]
    BY <1>0, <1>2, <1>4 DEF TablesOK
  <2>2. \A v \in Users, s \in Tenants : role'[v][s] # None <=> role[v][s] # None
    BY <1>2, <1>4, <2>1
  <2>3. TablesOK'
    <3>1. role' \in [Users -> [Tenants -> Roles \cup {None}]]
      BY <1>0, <1>2, <1>4 DEF TablesOK
    <3>2. RolesAreMembers'
      BY <1>0, <1>1, <2>2 DEF TablesOK, RolesAreMembers, IsAccount
    <3>3. AccountsHaveTenants'
      BY <1>0, <1>1, <2>2 DEF TablesOK, AccountsHaveTenants, Members, IsAccount
    <3>4. TokensServe'
      <4> SUFFICES ASSUME NEW k \in issued
                   PROVE  CurrentRole(k)' # None /\ (k.isSuperAdmin <=> k.tid = None)
        BY <1>1 DEF TokensServe
      <4>1. k \in Tokens /\ CurrentRole(k) # None /\ (k.isSuperAdmin <=> k.tid = None)
        BY <1>0 DEF TablesOK, TokensServe
      <4>2. k.isSuperAdmin \/ role'[k.sub][TenantOf(k)] # None
        BY <2>2, <4>1 DEF Tokens, TenantOf, CurrentRole
      <4> QED
        BY <1>1, <4>1, <4>2, NoneIsNew DEF CurrentRole, TenantOf, IsAccount
    <3> QED
      BY <1>0, <1>1, <3>1, <3>2, <3>3, <3>4 DEF TablesOK, OneAccountPerEmail, IsAccount
  <2>4. /\ call' \in [Requests -> Calls] /\ call'[r] = Ended
        /\ \A q \in Requests \ {r} :
             /\ q \notin Q => call'[q] = call[q]
             /\ q \in Q => call'[q] = [call[q] EXCEPT !.overtaken = TRUE]
    BY <1>0, <1>4, EndingCalls DEF CallsOK
  <2>5. InHand(call[r])'
    BY <2>4, EndedOK DEF InHand
  <2>6. ASSUME NEW q \in Requests \ {r} PROVE InHand(call[q])'
    <3>1. InHand(call[q]) /\ call[q] \in Calls
      BY <1>0 DEF CallsOK
    <3>2. CASE q \in Q
      <4>1. call'[q] = [call[q] EXCEPT !.overtaken = TRUE] /\ call[q].at = "change"
        BY <2>4, <3>2 DEF At
      <4>2. /\ call'[q].at = "change" /\ call'[q].user = call[q].user
            /\ call'[q].tenant = call[q].tenant /\ call'[q].target = call[q].target
            /\ call'[q].role = call[q].role /\ call'[q].overtaken = TRUE
        BY <3>1, <4>1 DEF Calls
      <4> QED
        BY <1>1, <3>1, <4>1, <4>2 DEF InHand, IsAccount
    <3>3. CASE q \notin Q
      <4>1. /\ call'[q] = call[q]
            /\ call[q].at = "change" => call[q].user # m \/ call[q].tenant # t
        BY <2>4, <3>3 DEF At
      <4>2. call[q].at = "change" =>
              role'[call[q].user][call[q].tenant] = role[call[q].user][call[q].tenant]
        BY <2>1, <3>1, <4>1 DEF InHand, Calls
      <4>3. call[q].at = "token" /\ call[q].tenant # None =>
              call[q].user \in Users /\ call[q].tenant \in Tenants
        BY <3>1 DEF InHand, Calls
      <4> QED
        BY <1>1, <2>2, <3>1, <4>1, <4>2, <4>3 DEF InHand, IsAccount
    <3> QED
      BY <3>2, <3>3
  <2>7. CallsOK'
    BY <2>4, <2>5, <2>6 DEF CallsOK
  <2>8. PendingIsNew'
    <3>1. \A q \in Requests \ {r} :
            /\ call'[q].at = call[q].at
            /\ call'[q].user = call[q].user /\ call'[q].email = call[q].email
      BY <1>0, <2>4 DEF CallsOK, Calls
    <3> QED
      BY <1>0, <1>1, <2>4, <3>1, StillPending DEF PendingIsNew
  <2>9. (TablesOK /\ CallsOK /\ PendingIsNew => IInv)'
    BY IInvParts, PTL
  <2> QED
    BY <2>3, <2>7, <2>8, <2>9
<1> QED
  BY <1>3, <1>4 DEF UpdateRole

\* A new tenant has no members yet and takes none from another.
LEMMA TenantIInv == ASSUME IInv, NEW r \in Requests, CreateTenant(r) PROVE IInv'
<1>0. TablesOK /\ CallsOK /\ PendingIsNew
  BY IInvParts
<1>1. /\ call' = [call EXCEPT ![r] = Ended] /\ UNCHANGED <<email, password, role, issued>>
      /\ tenants \subseteq tenants' /\ tenants' \subseteq Tenants
  BY <1>0 DEF CreateTenant, End, TablesOK
<1>2. TablesOK'
  BY <1>0, <1>1
     DEF TablesOK, RolesAreMembers, AccountsHaveTenants, OneAccountPerEmail, TokensServe,
         CurrentRole, TenantOf, IsAccount, Members
<1>3. \A q \in Requests : call'[q] = IF q = r THEN Ended ELSE call[q]
  BY <1>0, <1>1 DEF CallsOK
<1>4. CallsOK'
  <2>1. call' \in [Requests -> Calls]
    BY <1>0, <1>1, EndedOK DEF CallsOK
  <2>2. InHand(call[r])'
    BY <1>3, EndedOK DEF InHand
  <2>3. ASSUME NEW q \in Requests \ {r} PROVE InHand(call[q])'
    BY <1>0, <1>1, <1>3 DEF CallsOK, InHand, IsAccount
  <2> QED
    BY <2>1, <2>2, <2>3 DEF CallsOK
<1>5. PendingIsNew'
  BY <1>0, <1>1, <1>3, StillPending DEF PendingIsNew
<1>6. (TablesOK /\ CallsOK /\ PendingIsNew => IInv)'
  BY IInvParts, PTL
<1> QED
  BY <1>2, <1>4, <1>5, <1>6

-----------------------------------------------------------------------------
(* The invariant                                                           *)

\* The seeded tables satisfy the invariant.
LEMMA InitIInv == Init => IInv
<1> SUFFICES ASSUME Init PROVE TablesOK /\ CallsOK /\ PendingIsNew
  BY IInvParts
<1>1. /\ tenants = SeedTenants /\ email = SeedEmail /\ password = SeedPassword
      /\ role = SeedRole /\ call = [r \in Requests |-> NoCall]
  BY DEF Init
<1>2. NoCall \in Calls /\ NoCall.at = "idle"
  BY DEF NoCall, Calls, Labels
<1>3. CallsOK /\ PendingIsNew
  BY <1>1, <1>2 DEF CallsOK, InHand, PendingIsNew, Pending
<1>4. AccountsHaveTenants
  <2> SUFFICES ASSUME NEW u \in Users \ SuperAdmins, IsAccount(u)
               PROVE  \E t \in tenants : u \in Members(t)
    BY DEF AccountsHaveTenants
  <2>1. PICK t \in Tenants : SeedRole[u][t] # None
    BY <1>1, SeedsAssumption DEF IsAccount
  <2> QED
    BY <1>1, <2>1, SeedsAssumption DEF Members
<1>5. issued \subseteq Tokens /\ TokensServe
  <2> SUFFICES ASSUME NEW k \in issued
               PROVE  /\ k \in Tokens
                      /\ CurrentRole(k) # None /\ (k.isSuperAdmin <=> k.tid = None)
    BY DEF TokensServe
  <2>1. CASE \E u \in SuperAdmins : k = Claims(u, None)
    <3>1. PICK u \in SuperAdmins : k = Claims(u, None)
      BY <2>1
    <3>2. k = [sub |-> u, tid |-> None, isSuperAdmin |-> TRUE]
      BY <3>1 DEF Claims
    <3>3. u \in Users /\ email[u] # None
      BY <1>1, SeedsAssumption
    <3> QED
      BY <3>2, <3>3, NoneIsNew DEF Tokens, CurrentRole, IsAccount
  <2>2. CASE \E u \in Users \ SuperAdmins, t \in Tenants :
               SeedRole[u][t] # None /\ k = Claims(u, t)
    <3>1. PICK u \in Users \ SuperAdmins, t \in Tenants :
            SeedRole[u][t] # None /\ k = Claims(u, t)
      BY <2>2
    <3>2. (u \in SuperAdmins) = FALSE
      BY <3>1
    <3>3. k = [sub |-> u, tid |-> t, isSuperAdmin |-> FALSE]
      BY <3>1, <3>2, Zenon DEF Claims
    <3>4. email[u] # None
      BY <1>1, <3>1, SeedsAssumption
    <3> QED
      BY <1>1, <3>1, <3>3, <3>4, NoneIsNew DEF Tokens, CurrentRole, TenantOf, IsAccount
  <2> QED
    BY <2>1, <2>2 DEF Init
<1>6. TablesOK
  <2>1. RolesAreMembers /\ OneAccountPerEmail
    BY <1>1, SeedsAssumption DEF RolesAreMembers, OneAccountPerEmail, IsAccount
  <2> QED
    BY <1>1, <1>4, <1>5, <2>1, SeedsAssumption DEF TablesOK, IsAccount
<1> QED
  BY <1>3, <1>6

\* No step of any handler, and no failure, breaks the invariant.
LEMMA NextIInv == IInv /\ [Next]_vars => IInv'
<1> SUFFICES ASSUME IInv, [Next]_vars PROVE IInv'
  OBVIOUS
<1>1. CASE UNCHANGED vars
  BY <1>1
     DEF vars, tables, IInv, AccountsTypeOK, RolesAreMembers, PendingIsNew, CommitHasRole,
         TokensInHand, LoginsAreOfMembers, VerifiedOrOvertaken, AdminOrOvertaken,
         AccountsHaveTenants, OneAccountPerEmail, TokensServe, IsAccount, Pending, At,
         Members, CurrentRole, TenantOf
<1>2. CASE Next
  <2>1. PICK r \in Requests : Begin(r) \/ Step(r) \/ Fail(r)
    BY <1>2 DEF Next
  <2>2. CASE CreateTenant(r)
    BY <2>2, TenantIInv
  <2>3. CASE Commit(r)
    BY <2>3, CommitIInv
  <2>4. CASE IssueToken(r)
    BY <2>4, TokenIInv
  <2>5. CASE UpdatePassword(r)
    BY <2>5, PasswordIInv
  <2>6. CASE UpdateEmail(r)
    BY <2>6, EmailIInv
  <2>7. CASE UpdateRole(r)
    BY <2>7, RoleIInv
  <2> QED
    BY <2>1, <2>2, <2>3, <2>4, <2>5, <2>6, <2>7, QueryIInv DEF Begin, Step
<1> QED
  BY <1>1, <1>2

\* The strengthened invariant holds in every state of every behaviour.
THEOREM InductiveInvariant == Spec => []IInv
  BY InitIInv, NextIInv, PTL DEF Spec

\* Every handler has in hand, at each query, what the query uses.
THEOREM AccountsTypeCorrect == Spec => []AccountsTypeOK
<1>1. IInv => AccountsTypeOK
  BY DEF IInv
<1> QED
  BY <1>1, InductiveInvariant, PTL

\* No failure leaves an account without a tenant.
THEOREM AccountsAlwaysHaveTenants == Spec => []AccountsHaveTenants
<1>1. IInv => AccountsHaveTenants
  BY DEF IInv
<1> QED
  BY <1>1, InductiveInvariant, PTL

\* No overlap of registrations and profile changes gives one e-mail to two accounts.
THEOREM EmailsStayUnique == Spec => []OneAccountPerEmail
<1>1. IInv => OneAccountPerEmail
  BY DEF IInv
<1> QED
  BY <1>1, InductiveInvariant, PTL

\* Every token handed out serves from then on.
THEOREM TokensAlwaysServe == Spec => []TokensServe
<1>1. IInv => TokensServe
  BY DEF IInv
<1> QED
  BY <1>1, InductiveInvariant, PTL

-----------------------------------------------------------------------------
(* What a step may never do                                                *)

\* Which steps write a password, and which an e-mail or a role.
LEMMA Writers ==
  ASSUME [Next]_vars
  PROVE  /\ UNCHANGED password \/ \E r \in Requests : Commit(r) \/ UpdatePassword(r)
         /\ \/ UNCHANGED <<email, role>>
            \/ \E r \in Requests : Commit(r) \/ UpdateRole(r) \/ UpdateEmail(r)
<1>1. CASE UNCHANGED vars
  BY <1>1 DEF vars, tables
<1>2. CASE Next
  <2>1. PICK r \in Requests : Begin(r) \/ Step(r) \/ Fail(r)
    BY <1>2 DEF Next
  <2>2. CASE Begin(r)
    <3>1. Begin(r) => UNCHANGED <<email, password, role>>
      BY DEF Begin, Register, Login, ChangePassword, UpdateProfile, ChangeRole, CreateTenant,
             tables
    <3> QED
      BY <2>2, <3>1
  <2>3. CASE Fail(r)
    BY <2>3 DEF Fail, tables
  <2>4. CASE Step(r)
    <3>1. InsertUser(r) \/ InsertRole(r) \/ FindFirstTenant(r) \/ IssueToken(r) =>
            UNCHANGED <<email, password, role>>
      BY DEF InsertUser, InsertRole, FindFirstTenant, IssueToken, tables
    <3>2. UpdatePassword(r) => UNCHANGED <<email, role>>
      BY DEF UpdatePassword
    <3>3. UpdateEmail(r) \/ UpdateRole(r) => UNCHANGED password
      BY DEF UpdateEmail, UpdateRole
    <3> QED
      BY <2>4, <3>1, <3>2, <3>3 DEF Step
  <2> QED
    BY <2>1, <2>2, <2>3, <2>4
<1> QED
  BY <1>1, <1>2

\* A commit touches no row of an account that was there.
LEMMA CommitOnlyAdds ==
  ASSUME IInv, NEW r \in Requests, Commit(r), NEW u \in Users, IsAccount(u)
  PROVE  /\ email'[u] = email[u] /\ password'[u] = password[u]
         /\ \A t \in Tenants : role'[u][t] = role[u][t]
<1>1. TablesOK /\ InHand(call[r]) /\ call[r] \in Calls /\ call[r].at = "commit"
  BY IInvParts DEF CallsOK, Commit, At
<1>2. call[r].user # u /\ call[r].user \in Users /\ call[r].tenant \in Tenants
  BY <1>1, NoneIsNew DEF InHand, Calls, TablesOK
<1> QED
  BY <1>1, <1>2 DEF Commit, TablesOK

\* What UpdateRole may write.
LEMMA RoleWritten ==
  ASSUME IInv, NEW r \in Requests, UpdateRole(r), NEW u \in Users, NEW t \in Tenants,
         role'[u][t] # role[u][t]
  PROVE  /\ At(r, "change") /\ call[r].tenant = t /\ call[r].target = u
         /\ call[r].user \in Users /\ call[r].user # u /\ IsAccount(call[r].user)
         /\ role[call[r].user][t] = "tenant_admin" \/ call[r].overtaken
<1>1. TablesOK /\ InHand(call[r]) /\ call[r] \in Calls /\ call[r].at = "change"
  BY IInvParts DEF CallsOK, UpdateRole, At
<1>2. role' = [role EXCEPT ![call[r].target][call[r].tenant] = call[r].role]
  BY DEF UpdateRole
<1>3. call[r].target \in Users /\ call[r].tenant \in Tenants
  BY <1>1 DEF InHand, Calls
<1>4. call[r].tenant = t /\ call[r].target = u
  BY <1>1, <1>2, <1>3 DEF TablesOK
<1> QED
  BY <1>1, <1>4 DEF InHand, Calls, At

\* A password is replaced only by a call that verified it or was overtaken.
THEOREM PasswordsAreVerified == Spec => PasswordsReplacedAsVerified
<1> DEFINE A == \A u \in Users : IsAccount(u) /\ password'[u] # password[u] =>
                  \E r \in Requests :
                    /\ At(r, "password") /\ call[r].user = u
                    /\ call[r].current = password[u] \/ call[r].overtaken
<1>1. IInv /\ [Next]_vars => A
  <2> SUFFICES ASSUME IInv, [Next]_vars, NEW u \in Users, IsAccount(u),
                      password'[u] # password[u]
               PROVE  \E r \in Requests :
                        /\ At(r, "password") /\ call[r].user = u
                        /\ call[r].current = password[u] \/ call[r].overtaken
    OBVIOUS
  <2>1. PICK r \in Requests : Commit(r) \/ UpdatePassword(r)
    BY Writers
  <2>2. UpdatePassword(r)
    BY <2>1, CommitOnlyAdds
  <2>3. TablesOK /\ InHand(call[r])
    BY IInvParts DEF CallsOK
  <2>4. At(r, "password") /\ call[r].user = u
    BY <2>2, <2>3 DEF UpdatePassword, TablesOK
  <2> QED
    BY <2>3, <2>4 DEF InHand, At
<1> QED
  BY <1>1, InductiveInvariant, PTL DEF Spec, PasswordsReplacedAsVerified

\* A role is changed only by another user who is an admin, or was when overtaken.
THEOREM OnlyAdminsChangeRoles == Spec => RolesChangedByAdmins
<1> DEFINE A == \A u \in Users, t \in Tenants : role[u][t] # None /\ role'[u][t] # role[u][t] =>
                  \E r \in Requests :
                    /\ At(r, "change") /\ call[r].tenant = t /\ call[r].user # u
                    /\ call[r].user \in Admins(t) \/ call[r].overtaken
<1>1. IInv /\ [Next]_vars => A
  <2> SUFFICES ASSUME IInv, [Next]_vars, NEW u \in Users, NEW t \in Tenants,
                      role[u][t] # None, role'[u][t] # role[u][t]
               PROVE  \E r \in Requests :
                        /\ At(r, "change") /\ call[r].tenant = t /\ call[r].user # u
                        /\ call[r].user \in Admins(t) \/ call[r].overtaken
    OBVIOUS
  <2>1. PICK r \in Requests : Commit(r) \/ UpdateRole(r) \/ UpdateEmail(r)
    BY Writers
  <2>2. IsAccount(u)
    BY DEF IInv, RolesAreMembers
  <2>3. UpdateRole(r)
    BY <2>1, <2>2, CommitOnlyAdds DEF UpdateEmail
  <2>4. /\ At(r, "change") /\ call[r].tenant = t /\ call[r].user # u
        /\ call[r].user \in Users /\ IsAccount(call[r].user)
        /\ role[call[r].user][t] = "tenant_admin" \/ call[r].overtaken
    BY <2>3, RoleWritten
  <2> QED
    BY <2>4, NoneIsNew DEF Admins, Members, Roles
<1> QED
  BY <1>1, InductiveInvariant, PTL DEF Spec, RolesChangedByAdmins

\* The admin who makes a role change keeps the role by it; so only a call whose
\* caller was demoted in between takes a tenant's last admin away.
THEOREM AdminsLostOnlyByOverlap == Spec => LastAdminLostOnlyByOverlap
<1> DEFINE A == \A t \in Tenants : Admins(t) # {} /\ Admins(t)' = {} =>
                  \E r \in Requests :
                    At(r, "change") /\ call[r].tenant = t /\ call[r].overtaken
<1>1. IInv /\ [Next]_vars => A
  <2> SUFFICES ASSUME IInv, [Next]_vars, NEW t \in Tenants, Admins(t) # {}, Admins(t)' = {}
               PROVE  \E r \in Requests :
                        At(r, "change") /\ call[r].tenant = t /\ call[r].overtaken
    OBVIOUS
  <2>1. PICK u \in Users : IsAccount(u) /\ role[u][t] = "tenant_admin"
    BY DEF Admins, Members
  <2>2. \A v \in Users : email'[v] = None \/ role'[v][t] # "tenant_admin"
    BY NoneIsNew DEF Admins, Members, IsAccount, Roles
  <2>3. PICK r \in Requests : Commit(r) \/ UpdateRole(r) \/ UpdateEmail(r)
    BY Writers, <2>1, <2>2 DEF IsAccount
  <2>4. ~Commit(r)
    BY <2>1, <2>2, CommitOnlyAdds DEF IsAccount
  <2>5. ~UpdateEmail(r)
    <3> SUFFICES ASSUME UpdateEmail(r) PROVE FALSE
      OBVIOUS
    <3>1. TablesOK /\ InHand(call[r]) /\ call[r] \in Calls /\ call[r].at = "email"
      BY IInvParts DEF CallsOK, UpdateEmail, At
    <3>2. email' = email \/ email' = [email EXCEPT ![call[r].user] = call[r].email]
      BY DEF UpdateEmail
    <3>3. email'[u] # None
      BY <2>1, <3>1, <3>2 DEF InHand, IsAccount, TablesOK
    <3> QED
      BY <2>1, <2>2, <3>3 DEF UpdateEmail
  <2>6. UpdateRole(r) /\ UNCHANGED email
    BY <2>3, <2>4, <2>5 DEF UpdateRole
  <2>7. role'[u][t] # role[u][t]
    BY <2>1, <2>2, <2>6 DEF IsAccount
  <2>8. /\ At(r, "change") /\ call[r].tenant = t /\ call[r].target = u
        /\ call[r].user \in Users /\ call[r].user # u /\ IsAccount(call[r].user)
        /\ role[call[r].user][t] = "tenant_admin" \/ call[r].overtaken
    BY <2>6, <2>7, RoleWritten
  <2>9. role'[call[r].user][t] = role[call[r].user][t]
    BY <2>6, <2>8, RoleWritten
  <2> QED
    BY <2>2, <2>6, <2>8, <2>9 DEF IsAccount
<1> QED
  BY <1>1, InductiveInvariant, PTL DEF Spec, LastAdminLostOnlyByOverlap
=============================================================================
