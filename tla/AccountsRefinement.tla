------------------------- MODULE AccountsRefinement -------------------------
(***************************************************************************)
(* Accounts implements Directory: seen from outside, the commit of a       *)
(* registration, each other write and each signing of a token is one step. *)
(***************************************************************************)
EXTENDS AccountsProofs

\* The account of u, and all accounts, as Directory sees them.
Row(u) == [id |-> u, email |-> email[u], password |-> password[u], roles |-> role[u]]
Rows   == {Row(u) : u \in {u \in Users : IsAccount(u)}}

\* A token's flag is the one its user was signed with.
SignedClaims == \A k \in issued : k = Claims(k.sub, k.tid)

\* Whoever was an admin when a role change began is still a member of the tenant,
\* and no such call makes a driver; a registration makes a viewer.
CallersAreMembers ==
  \A r \in Requests :
    /\ At(r, "change") =>
         /\ role[call[r].user][call[r].tenant] # None
         /\ call[r].role \in {"tenant_admin", "tenant_view"}
    /\ At(r, "commit") => call[r].role = "tenant_view"

DInv == SignedClaims /\ CallersAreMembers

-----------------------------------------------------------------------------
(* The invariant                                                           *)

\* No step takes a member out of a tenant.
LEMMA MembersStay ==
  ASSUME IInv, [Next]_vars, NEW u \in Users, NEW t \in Tenants, role[u][t] # None
  PROVE  role'[u][t] # None
<1>1. TablesOK /\ IsAccount(u)
  BY IInvParts DEF TablesOK, RolesAreMembers
<1>2. CASE role'[u][t] = role[u][t]
  BY <1>2
<1>3. CASE role'[u][t] # role[u][t]
  <2>1. PICK r \in Requests : Commit(r) \/ UpdateRole(r) \/ UpdateEmail(r)
    BY <1>3, Writers
  <2>2. UpdateRole(r)
    BY <1>1, <1>3, <2>1, CommitOnlyAdds DEF UpdateEmail
  <2>3. call[r] \in Calls /\ InHand(call[r]) /\ call[r].at = "change"
    BY <2>2, IInvParts DEF CallsOK, UpdateRole, At
  <2>4. call[r].target \in Users /\ call[r].tenant \in Tenants /\ call[r].role # None
    BY <2>3 DEF InHand, Calls
  <2> QED
    BY <1>1, <1>3, <2>2, <2>4 DEF UpdateRole, TablesOK
<1> QED
  BY <1>2, <1>3

\* A role change or a commit in progress was in progress before, or begins now.
LEMMA CallsGoOn ==
  ASSUME IInv, [Next]_vars, NEW q \in Requests, call'[q].at \in {"change", "commit"}
  PROVE  \/ /\ call'[q].at = call[q].at /\ call'[q].role = call[q].role
            /\ call'[q].user = call[q].user /\ call'[q].tenant = call[q].tenant
         \/ ChangeRole(q) \/ InsertRole(q)
<1>0. call \in [Requests -> Calls]
  BY IInvParts DEF CallsOK
<1>1. CASE UNCHANGED vars
  BY <1>1 DEF vars
<1>2. CASE Next
  <2>1. PICK r \in Requests : Begin(r) \/ Step(r) \/ Fail(r)
    BY <1>2 DEF Next
  <2> DEFINE Others == q # r =>
               /\ call'[q].at = call[q].at /\ call'[q].role = call[q].role
               /\ call'[q].user = call[q].user /\ call'[q].tenant = call[q].tenant
             Elsewhere == Others /\ q # r
  <2>2. ASSUME End(r) PROVE Elsewhere
    BY <1>0, <2>2, EndedOK DEF End
  <2>3. ASSUME NEW Q \in SUBSET Requests, EndOvertaking(r, Q) PROVE Elsewhere
    <3>1. q # r /\ (call'[q] = call[q] \/ call'[q] = [call[q] EXCEPT !.overtaken = TRUE])
      BY <1>0, <2>3, EndingCalls, EndedOK
    <3> QED
      BY <1>0, <3>1 DEF Calls
  <2>4. CASE Begin(r) /\ ~ChangeRole(r)
    <3>1. CASE Register(r)
      BY <1>0, <3>1 DEF Register, NoCall
    <3>2. CASE Login(r)
      BY <1>0, <3>2 DEF Login, NoCall
    <3>3. CASE ChangePassword(r)
      BY <1>0, <3>3 DEF ChangePassword, NoCall
    <3>4. CASE UpdateProfile(r)
      BY <1>0, <3>4 DEF UpdateProfile, NoCall
    <3>5. CASE CreateTenant(r)
      BY <2>2, <3>5 DEF CreateTenant
    <3> QED
      BY <2>4, <3>1, <3>2, <3>3, <3>4, <3>5 DEF Begin
  <2>5. CASE Step(r) /\ ~InsertRole(r)
    <3>1. CASE InsertUser(r)
      BY <1>0, <2>2, <3>1 DEF InsertUser, Calls
    <3>2. CASE Commit(r)
      BY <1>0, <3>2 DEF Commit, Calls
    <3>3. CASE FindFirstTenant(r)
      BY <1>0, <2>2, <3>3 DEF FindFirstTenant, Calls
    <3>4. CASE UpdatePassword(r)
      <4>1. PICK Q \in SUBSET Requests : EndOvertaking(r, Q)
        BY <3>4 DEF UpdatePassword
      <4> QED
        BY <2>3, <4>1
    <3>5. CASE UpdateRole(r)
      <4>1. End(r) \/ \E Q \in SUBSET Requests : EndOvertaking(r, Q)
        BY <3>5 DEF UpdateRole
      <4> QED
        BY <2>2, <2>3, <4>1
    <3>6. CASE IssueToken(r) \/ UpdateEmail(r)
      BY <2>2, <3>6 DEF IssueToken, UpdateEmail
    <3> QED
      BY <2>5, <3>1, <3>2, <3>3, <3>4, <3>5, <3>6 DEF Step
  <2>6. CASE Fail(r)
    BY <2>2, <2>6 DEF Fail
  <2>7. CASE ChangeRole(r)
    BY <1>0, <2>7 DEF ChangeRole
  <2>8. CASE InsertRole(r)
    BY <1>0, <2>8 DEF InsertRole
  <2> QED
    BY <2>1, <2>4, <2>5, <2>6, <2>7, <2>8
<1> QED
  BY <1>1, <1>2

\* The seeds' tokens are signed as all others, and no call is in progress.
LEMMA InitDInv == Init => DInv
<1> SUFFICES ASSUME Init PROVE DInv
  OBVIOUS
<1>1. CallersAreMembers
  BY DEF Init, CallersAreMembers, At, NoCall
<1>2. \A u, t : Claims(u, t).sub = u /\ Claims(u, t).tid = t
  BY DEF Claims
<1>3. \A k \in issued : \E u, t : k = Claims(u, t)
  BY DEF Init
<1> QED
  BY <1>1, <1>2, <1>3 DEF DInv, SignedClaims

\* Every step preserves it.
LEMMA NextDInv == IInv /\ DInv /\ [Next]_vars => DInv'
<1> SUFFICES ASSUME IInv, DInv, [Next]_vars PROVE DInv'
  OBVIOUS
<1>1. SignedClaims'
  <2>1. UNCHANGED issued \/ \E r \in Requests : IssueToken(r)
    BY DEF Next, Begin, Step, vars, Register, Login, ChangePassword, UpdateProfile, ChangeRole,
           CreateTenant, InsertUser, InsertRole, Commit, FindFirstTenant, UpdatePassword,
           UpdateEmail, UpdateRole, Fail
  <2>2. \A u, t : Claims(u, t).sub = u /\ Claims(u, t).tid = t
    BY DEF Claims
  <2>3. \A k \in issued' : k \in issued \/ \E u, t : k = Claims(u, t)
    BY <2>1 DEF IssueToken
  <2> QED
    BY <2>2, <2>3 DEF DInv, SignedClaims
<1>2. ASSUME NEW q \in Requests, At(q, "change")'
      PROVE  /\ role'[call'[q].user][call'[q].tenant] # None
             /\ call'[q].role \in {"tenant_admin", "tenant_view"}
  <2>1. CASE ChangeRole(q)
    <3>1. PICK k \in issued, target \in Users, new \in {"tenant_admin", "tenant_view"} :
            /\ VerifiedAdmin(k) /\ TenantOf(k) # None
            /\ call' = [call EXCEPT ![q] = [NoCall EXCEPT !.at = "change", !.user = k.sub,
                          !.tenant = TenantOf(k), !.target = target, !.role = new]]
      BY <2>1 DEF ChangeRole
    <3>2. role[k.sub][TenantOf(k)] = "tenant_admin"
      BY <3>1 DEF VerifiedAdmin, TenantOf
    <3>3. /\ call'[q].user = k.sub /\ call'[q].tenant = TenantOf(k) /\ call'[q].role = new
          /\ role' = role
      BY <2>1, <3>1, IInvParts DEF CallsOK, ChangeRole, NoCall, tables
    <3> QED
      BY <3>2, <3>3, NoneIsNew DEF Roles
  <2>2. CASE /\ call'[q].at = call[q].at /\ call'[q].role = call[q].role
             /\ call'[q].user = call[q].user /\ call'[q].tenant = call[q].tenant
    <3>1. call[q] \in Calls /\ InHand(call[q]) /\ call[q].at = "change"
      BY <1>2, <2>2, IInvParts DEF CallsOK, At
    <3>2. call[q].user \in Users /\ call[q].tenant \in Tenants
      BY <3>1 DEF InHand, Calls
    <3> QED
      BY <2>2, <3>1, <3>2, MembersStay DEF DInv, CallersAreMembers, At
  <2>3. ~InsertRole(q)
    BY <1>2, IInvParts DEF InsertRole, CallsOK, Calls, At
  <2> QED
    BY <1>2, <2>1, <2>2, <2>3, CallsGoOn DEF At
<1>3. ASSUME NEW q \in Requests, At(q, "commit")'
      PROVE  call'[q].role = "tenant_view"
  <2>1. CASE InsertRole(q)
    BY <2>1, IInvParts DEF InsertRole, CallsOK, Calls
  <2>2. ~ChangeRole(q)
    BY <1>3, IInvParts DEF ChangeRole, CallsOK, NoCall, At
  <2> QED
    BY <1>3, <2>1, <2>2, CallsGoOn DEF At, DInv, CallersAreMembers
<1> QED
  BY <1>1, <1>2, <1>3 DEF DInv, CallersAreMembers

-----------------------------------------------------------------------------
(* The accounts as records                                                 *)

\* A row that changes is replaced, a row that appears is added.
LEMMA RowReplaced ==
  ASSUME NEW u \in Users, IsAccount(u), IsAccount(u)',
         \A v \in Users \ {u} : (IsAccount(v)' <=> IsAccount(v)) /\ Row(v)' = Row(v)
  PROVE  Rows' = (Rows \ {Row(u)}) \cup {Row(u)'}
<1>1. \A v, w : Row(v) = Row(w) => v = w
  BY DEF Row
<1>2. \A v, w : Row(v)' = Row(w) => v = w
  BY DEF Row
<1> HIDE DEF Row
<1> QED
  BY <1>1, <1>2 DEF Rows

LEMMA RowAdded ==
  ASSUME NEW u \in Users, ~IsAccount(u), IsAccount(u)',
         \A v \in Users \ {u} : (IsAccount(v)' <=> IsAccount(v)) /\ Row(v)' = Row(v)
  PROVE  Rows' = Rows \cup {Row(u)'}
BY DEF Rows

\* The fields of a row, and of every row.
LEMMA RowValues ==
  ASSUME NEW u \in Users
  PROVE  Row(u).id = u /\ Row(u).email = email[u] /\ Row(u).roles = role[u]
BY DEF Row

LEMMA RowsAreAccounts ==
  \A a \in Rows : a.id \in Users /\ IsAccount(a.id) /\ a = Row(a.id)
BY RowValues DEF Rows

-----------------------------------------------------------------------------
(* The steps                                                               *)

\* The seeded tables are a directory.
LEMMA InitDirectory == IInv /\ DInv => Directory!Init
<1> SUFFICES ASSUME IInv, DInv PROVE Directory!Init
  OBVIOUS
<1>0. TablesOK
  BY IInvParts
<1>1. ASSUME NEW a \in Rows, NEW b \in Rows, a.id = b.id \/ a.email = b.email
      PROVE  a = b
  <2>1. a.email = email[a.id] /\ b.email = email[b.id]
    BY RowsAreAccounts, RowValues
  <2>2. a.id = b.id
    BY <1>0, <1>1, <2>1, RowsAreAccounts DEF TablesOK, OneAccountPerEmail
  <2> QED
    BY <2>2, RowsAreAccounts
<1>2. ASSUME NEW a \in Rows, a.id \notin SuperAdmins
      PROVE  \E t \in tenants : a.roles[t] # None
  <2>1. a.id \in Users \ SuperAdmins /\ IsAccount(a.id) /\ a.roles = role[a.id]
    BY <1>2, RowsAreAccounts, RowValues
  <2> QED
    BY <1>0, <2>1 DEF TablesOK, AccountsHaveTenants, Members
<1>3. ASSUME NEW k \in issued
      PROVE  \E a \in Rows : Directory!Entitled(a, k.tid) /\ k = Directory!Token(a, k.tid)
  <2>1. k \in Tokens /\ CurrentRole(k) # None /\ (k.isSuperAdmin <=> k.tid = None)
    BY <1>0 DEF TablesOK, TokensServe
  <2>2. k = Claims(k.sub, k.tid) /\ (k.isSuperAdmin <=> k.sub \in SuperAdmins)
    <3>1. k = Claims(k.sub, k.tid)
      BY DEF DInv, SignedClaims
    <3>2. Claims(k.sub, k.tid).isSuperAdmin = (k.sub \in SuperAdmins)
      BY DEF Claims
    <3> QED
      BY <3>1, <3>2
  <2>3. k.sub \in Users /\ IsAccount(k.sub)
    BY <2>1 DEF Tokens, CurrentRole
  <2>4. Row(k.sub) \in Rows
    BY <2>3 DEF Rows
  <2>5. Row(k.sub).id = k.sub /\ Row(k.sub).roles = role[k.sub]
    BY <2>3, RowValues
  <2>6. Directory!Entitled(Row(k.sub), k.tid)
    BY <2>1, <2>2, <2>3, <2>5 DEF Directory!Entitled, CurrentRole, TenantOf
  <2>7. Directory!Token(Row(k.sub), k.tid) = Claims(k.sub, k.tid)
    BY <2>5, Zenon DEF Directory!Token, Claims
  <2> QED
    BY <2>2, <2>4, <2>6, <2>7
<1>4. Directory!Consistent
  BY <1>1, <1>2, <1>3 DEF Directory!Consistent, Rows, Row
<1>5. Directory!TypeOK
  BY <1>0 DEF Directory!TypeOK, Directory!Accounts, Directory!Roles, Directory!Tokens, Roles,
              Tokens, TablesOK, IsAccount
<1> QED
  BY <1>4, <1>5 DEF Directory!Init

\* The commit of a registration is a Join.
LEMMA CommitJoins ==
  ASSUME IInv, DInv, NEW r \in Requests, Commit(r)
  PROVE  Directory!Next
<1>0. TablesOK /\ CallsOK /\ PendingIsNew
  BY IInvParts
<1> PICK c, u, t : c = call[r] /\ u = c.user /\ t = c.tenant
  OBVIOUS
<1>1. /\ c \in Calls /\ InHand(c) /\ c.at = "commit" /\ c.role = "tenant_view"
      /\ UNCHANGED <<tenants, issued>>
  BY <1>0 DEF CallsOK, Commit, At, DInv, CallersAreMembers
<1>2. /\ u \in Users /\ u \notin SuperAdmins /\ ~IsAccount(u)
      /\ t \in tenants /\ t \in Tenants
      /\ c.email \in Emails /\ c.email # None /\ c.password \in Passwords
  BY <1>0, <1>1 DEF InHand, Calls, TablesOK
<1>3. \A a \in Rows : a.id # u /\ a.email # c.email
  BY <1>0, <1>1, <1>2, RowsAreAccounts, RowValues DEF PendingIsNew, Pending
<1>4. IsAccount(u)' /\ \A v \in Users \ {u} : (IsAccount(v)' <=> IsAccount(v)) /\ Row(v)' = Row(v)
  BY <1>0, <1>2 DEF Commit, TablesOK, IsAccount, Row
<1>5. role'[u] = [s \in Tenants |-> IF s = t THEN "tenant_view" ELSE None]
  <2>1. \A s \in Tenants : role[u][s] = None
    BY <1>0, <1>2 DEF TablesOK, RolesAreMembers
  <2>2. role'[u] = [role[u] EXCEPT ![t] = "tenant_view"]
    BY <1>0, <1>1, <1>2 DEF Commit, TablesOK
  <2>3. role[u] \in [Tenants -> Roles \cup {None}]
    BY <1>0, <1>2 DEF TablesOK
  <2> QED
    BY <1>2, <2>1, <2>2, <2>3
<1>6. Row(u)' = [id |-> u, email |-> c.email, password |-> c.password,
                 roles |-> [s \in Tenants |-> IF s = t THEN "tenant_view" ELSE None]]
  BY <1>0, <1>2, <1>5 DEF Commit, TablesOK, Row
<1>7. Rows' = Rows \cup {Row(u)'}
  BY <1>2, <1>4, RowAdded
<1>8. Directory!Join(u, c.email, c.password, t)
  BY <1>1, <1>6, <1>7 DEF Directory!Join, Rows, Row
<1>9. u \in Directory!Unregistered /\ c.email \in Directory!FreeEmails(Rows)
  BY <1>2, <1>3 DEF Directory!Unregistered, Directory!FreeEmails, Rows, Row
<1> QED
  BY <1>2, <1>8, <1>9 DEF Directory!Next, Rows, Row

\* A password change's write is a SetPassword.
LEMMA UpdatePasswordSets ==
  ASSUME IInv, NEW r \in Requests, UpdatePassword(r)
  PROVE  Directory!Next
<1> PICK u, p : u = call[r].user /\ p = call[r].password
  OBVIOUS
<1>0. TablesOK /\ call[r] \in Calls /\ InHand(call[r]) /\ call[r].at = "password"
  BY IInvParts DEF CallsOK, UpdatePassword, At
<1>1. u \in Users /\ IsAccount(u) /\ p \in Passwords
  BY <1>0 DEF InHand, Calls
<1>2. /\ IsAccount(u)'
      /\ \A v \in Users \ {u} : (IsAccount(v)' <=> IsAccount(v)) /\ Row(v)' = Row(v)
      /\ Row(u)' = [Row(u) EXCEPT !.password = p]
  BY <1>0, <1>1 DEF UpdatePassword, TablesOK, IsAccount, Row
<1>3. Rows' = (Rows \ {Row(u)}) \cup {Row(u)'}
  BY <1>1, <1>2, RowReplaced
<1>4. PICK a \in Rows : a = Row(u)
  BY <1>1 DEF Rows
<1>5. Rows' = (Rows \ {a}) \cup {[a EXCEPT !.password = p]}
  BY <1>2, <1>3, <1>4
<1>6. \E b \in Rows, q \in Passwords : Directory!SetPassword(b, q)
  <2>1. Directory!SetPassword(a, p)
    BY <1>5 DEF Directory!SetPassword, Directory!Replace, UpdatePassword, Rows, Row
  <2> QED
    BY <1>1, <2>1
<1> QED
  BY <1>6 DEF Directory!Next, Rows, Row

\* An e-mail change's write is a SetEmail, or nothing when the e-mail is taken.
LEMMA UpdateEmailSets ==
  ASSUME IInv, NEW r \in Requests, UpdateEmail(r)
  PROVE  Directory!Next \/ UNCHANGED Directory!vars
<1> PICK u, e : u = call[r].user /\ e = call[r].email
  OBVIOUS
<1>0. TablesOK /\ call[r] \in Calls /\ InHand(call[r]) /\ call[r].at = "email"
  BY IInvParts DEF CallsOK, UpdateEmail, At
<1>1. u \in Users /\ IsAccount(u) /\ e \in Emails /\ e # None
  BY <1>0 DEF InHand, Calls
<1>2. CASE email' = email
  BY <1>2 DEF UpdateEmail, Directory!vars, IsAccount
<1>3. CASE email' = [email EXCEPT ![u] = e] /\ \A v \in Users \ {u} : email[v] # e
  <2>1. /\ IsAccount(u)'
        /\ \A v \in Users \ {u} : (IsAccount(v)' <=> IsAccount(v)) /\ Row(v)' = Row(v)
        /\ Row(u)' = [Row(u) EXCEPT !.email = e]
    BY <1>0, <1>1, <1>3 DEF UpdateEmail, TablesOK, IsAccount, Row
  <2>2. Rows' = (Rows \ {Row(u)}) \cup {Row(u)'}
    BY <1>1, <2>1, RowReplaced
  <2>3. PICK a \in Rows : a = Row(u)
    BY <1>1 DEF Rows
  <2>4. \A b \in Rows \ {a} : b.email # e
    BY <1>3, <2>3, RowsAreAccounts, RowValues
  <2>5. Rows' = (Rows \ {a}) \cup {[a EXCEPT !.email = e]}
    BY <2>1, <2>2, <2>3
  <2>6. \E b \in Rows : \E f \in Directory!FreeEmails(Rows \ {b}) : Directory!SetEmail(b, f)
    <3>1. Directory!SetEmail(a, e)
      BY <2>5 DEF Directory!SetEmail, Directory!Replace, UpdateEmail, Rows, Row
    <3>2. e \in Directory!FreeEmails(Rows \ {a})
      BY <1>1, <2>4 DEF Directory!FreeEmails
    <3> QED
      BY <3>1, <3>2
  <2> QED
    BY <2>6 DEF Directory!Next, Rows, Row
<1> QED
  BY <1>2, <1>3 DEF UpdateEmail

\* A role change's write is an Appoint, or nothing when its target is no member.
LEMMA UpdateRoleAppoints ==
  ASSUME IInv, DInv, NEW r \in Requests, UpdateRole(r)
  PROVE  Directory!Next \/ UNCHANGED Directory!vars
<1> PICK c, u, t : c = call[r] /\ u = c.target /\ t = c.tenant
  OBVIOUS
<1>0. TablesOK /\ c \in Calls /\ InHand(c) /\ c.at = "change"
  BY IInvParts DEF CallsOK, UpdateRole, At
<1>1. u \in Users /\ t \in Tenants /\ c.user \in Users /\ c.user # u /\ IsAccount(c.user)
  BY <1>0 DEF InHand, Calls
<1>2. CASE role' = role
  BY <1>2 DEF UpdateRole, Directory!vars, IsAccount
<1>3. CASE role[u][t] # None /\ role' = [role EXCEPT ![u][t] = c.role]
  <2>1. IsAccount(u) /\ UNCHANGED <<tenants, email, password, issued>>
    BY <1>0, <1>1, <1>3 DEF TablesOK, RolesAreMembers, UpdateRole
  <2>2. /\ IsAccount(u)'
        /\ \A v \in Users \ {u} : (IsAccount(v)' <=> IsAccount(v)) /\ Row(v)' = Row(v)
        /\ Row(u)' = [Row(u) EXCEPT !.roles = [@ EXCEPT ![t] = c.role]]
    <3>1. /\ role'[u] = [role[u] EXCEPT ![t] = c.role]
          /\ \A v \in Users \ {u} : role'[v] = role[v]
      BY <1>0, <1>1, <1>3 DEF TablesOK
    <3> QED
      BY <2>1, <3>1 DEF IsAccount, Row
  <2>3. Rows' = (Rows \ {Row(u)}) \cup {Row(u)'}
    BY <1>1, <2>1, <2>2, RowReplaced
  <2>4. PICK a \in Rows, b \in Rows : a = Row(u) /\ b = Row(c.user) /\ a # b
    BY <1>1, <2>1, RowValues DEF Rows
  <2>5. /\ role[c.user][t] # None /\ c.role \in {"tenant_admin", "tenant_view"}
    BY <1>0 DEF DInv, CallersAreMembers, At
  <2>6. a.roles[t] # None /\ b.roles[t] # None
    BY <1>1, <1>3, <2>4, <2>5, RowValues
  <2>7. Rows' = (Rows \ {a}) \cup {[a EXCEPT !.roles = [@ EXCEPT ![t] = c.role]]}
    BY <2>2, <2>3, <2>4
  <2>8. \E d \in Rows, s \in Tenants : Directory!Appoint(d, s)
    <3>1. Directory!Appoint(a, t)
      BY <2>1, <2>4, <2>5, <2>6, <2>7 DEF Directory!Appoint, Directory!Replace, Rows, Row
    <3> QED
      BY <1>1, <3>1
  <2> QED
    BY <2>8 DEF Directory!Next, Rows, Row
<1> QED
  BY <1>2, <1>3 DEF UpdateRole

\* A new tenant is founded by a super admin who has an account.
LEMMA CreateTenantFounds ==
  ASSUME IInv, DInv, NEW r \in Requests, CreateTenant(r)
  PROVE  Directory!Next
<1>0. TablesOK
  BY IInvParts
<1>1. PICK k \in issued, t \in Tenants \ tenants : k.isSuperAdmin /\ tenants' = tenants \cup {t}
  BY DEF CreateTenant
<1>2. k.sub \in Users /\ IsAccount(k.sub)
  BY <1>0 DEF TablesOK, TokensServe, Tokens, CurrentRole
<1>3. k.sub \in SuperAdmins
  <2>1. k = Claims(k.sub, k.tid)
    BY DEF DInv, SignedClaims
  <2>2. Claims(k.sub, k.tid).isSuperAdmin = (k.sub \in SuperAdmins)
    BY DEF Claims
  <2> QED
    BY <1>1, <2>1, <2>2
<1>4. Row(k.sub) \in Rows /\ Row(k.sub).id \in SuperAdmins
  BY <1>2, <1>3, RowValues DEF Rows
<1>5. Directory!Found(t)
  BY <1>1, <1>4 DEF Directory!Found, CreateTenant, Rows, Row, IsAccount
<1> QED
  BY <1>5 DEF Directory!Next

\* A token is signed for an account that is entitled to it.
LEMMA IssueTokenSigns ==
  ASSUME IInv, NEW r \in Requests, IssueToken(r)
  PROVE  Directory!Next
<1> DEFINE u == call[r].user
           t == call[r].tenant
<1>0. TablesOK /\ call[r] \in Calls /\ InHand(call[r]) /\ call[r].at = "token"
  BY IInvParts DEF CallsOK, IssueToken, At
<1>1. u \in Users /\ IsAccount(u) /\ t \in Tenants \cup {None}
  BY <1>0 DEF InHand, Calls
<1>2. Row(u) \in Rows /\ Row(u).id = u /\ Row(u).roles = role[u]
  BY <1>1, RowValues DEF Rows
<1>3. Directory!Entitled(Row(u), t)
  BY <1>0, <1>2 DEF Directory!Entitled, InHand
<1>4. Directory!Token(Row(u), t) = Claims(u, t)
  BY <1>2, Zenon DEF Directory!Token, Claims
<1>5. Directory!Sign(Row(u), t)
  BY <1>3, <1>4 DEF Directory!Sign, IssueToken, tables, IsAccount
<1> QED
  BY <1>1, <1>2, <1>5 DEF Directory!Next, Rows, Row

\* Under any interleaving and failure of their queries, calls on the accounts change
\* what is committed and handed out by a directory's steps: a registration joins, and
\* later, apart from that, its token is signed; every other call makes one step at most.
THEOREM AccountsRefineDirectory == Spec => ImplementsDirectory
<1>1. ASSUME IInv, DInv, [Next]_vars PROVE Directory!Next \/ UNCHANGED Directory!vars
  <2>1. CASE UNCHANGED <<tables, issued>>
    BY <2>1 DEF tables, Directory!vars, IsAccount
  <2>2. CASE UNCHANGED vars
    BY <2>1, <2>2 DEF vars
  <2>3. CASE Next
    <3>1. PICK r \in Requests : Begin(r) \/ Step(r) \/ Fail(r)
      BY <2>3 DEF Next
    <3>2. CASE CreateTenant(r) \/ Commit(r) \/ IssueToken(r) \/ UpdatePassword(r)
               \/ UpdateEmail(r) \/ UpdateRole(r)
      BY <1>1, <3>2, CreateTenantFounds, CommitJoins, IssueTokenSigns, UpdatePasswordSets,
         UpdateEmailSets, UpdateRoleAppoints
    <3>3. CASE \/ Register(r) \/ Login(r) \/ ChangePassword(r) \/ UpdateProfile(r)
               \/ ChangeRole(r) \/ InsertUser(r) \/ InsertRole(r) \/ FindFirstTenant(r)
               \/ Fail(r)
      BY <2>1, <3>3
         DEF Register, Login, ChangePassword, UpdateProfile, ChangeRole, InsertUser,
             InsertRole, FindFirstTenant, Fail
    <3> QED
      BY <3>1, <3>2, <3>3 DEF Begin, Step
  <2> QED
    BY <1>1, <2>2, <2>3
<1>2. Spec => [](IInv /\ DInv)
  BY InitIInv, NextIInv, InitDInv, NextDInv, PTL DEF Spec
<1>3. IInv /\ DInv /\ [Next]_vars => [Directory!Next]_(Directory!vars)
  BY <1>1
<1> QED
  BY <1>2, <1>3, InitDirectory, PTL DEF Spec, ImplementsDirectory, Directory!Spec
=============================================================================
