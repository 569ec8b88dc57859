----------------------------- MODULE Directory -----------------------------
(***************************************************************************)
(* What the accounts of chargeops promise to whoever only sees committed   *)
(* rows and the access tokens handed out, however the queries of Accounts  *)
(* interleave and fail: a directory that changes one account at a time.    *)
(***************************************************************************)
CONSTANTS Users, SuperAdmins, Emails, Passwords, Tenants, None

VARIABLES
  accounts,  \* records: id, email, password, and roles, by tenant, None for no member
  tenants,
  issued     \* the claims of the access tokens clients hold

vars == <<accounts, tenants, issued>>

Token(a, t) == [sub |-> a.id, tid |-> t, isSuperAdmin |-> a.id \in SuperAdmins]

Roles    == {"tenant_admin", "tenant_view", "driver"}
Accounts == [id : Users, email : Emails, password : Passwords,
             roles : [Tenants -> Roles \cup {None}]]
Tokens   == [sub : Users, tid : Tenants \cup {None}, isSuperAdmin : BOOLEAN]

\* Account a may act in tenant t; a super admin acts in none in particular.
Entitled(a, t) ==
  IF a.id \in SuperAdmins THEN t = None ELSE t # None /\ a.roles[t] # None

\* Who has no account yet; the e-mails that none of the accounts S has.
Unregistered  == Users \ (SuperAdmins \cup {a.id : a \in accounts})
FreeEmails(S) == Emails \ {a.email : a \in S}

\* The account a, there already, becomes b.
Replace(a, b) == accounts' = (accounts \ {a}) \cup {b}

\* Distinct accounts have distinct e-mails, each may act somewhere, and every token
\* is one its user may have.
Consistent ==
  /\ \A a, b \in accounts : a.id = b.id \/ a.email = b.email => a = b
  /\ \A a \in accounts : a.id \notin SuperAdmins => \E t \in tenants : a.roles[t] # None
  /\ \A k \in issued : \E a \in accounts : Entitled(a, k.tid) /\ k = Token(a, k.tid)

TypeOK ==
  /\ accounts \subseteq Accounts
  /\ tenants \subseteq Tenants
  /\ issued \subseteq Tokens

Init == TypeOK /\ Consistent

\* A registration: a new account, viewer of one tenant.
Join(id, e, p, t) ==
  /\ accounts' = accounts \cup
       {[id |-> id, email |-> e, password |-> p,
         roles |-> [s \in Tenants |-> IF s = t THEN "tenant_view" ELSE None]]}
  /\ UNCHANGED <<tenants, issued>>

SetEmail(a, e) ==
  /\ Replace(a, [a EXCEPT !.email = e])
  /\ UNCHANGED <<tenants, issued>>

SetPassword(a, p) ==
  /\ Replace(a, [a EXCEPT !.password = p])
  /\ UNCHANGED <<tenants, issued>>

\* A member gets another role by another member of the tenant.
Appoint(a, t) ==
  /\ a.roles[t] # None
  /\ \E b \in accounts \ {a} : b.roles[t] # None
  /\ \E new \in {"tenant_admin", "tenant_view"} :
       Replace(a, [a EXCEPT !.roles = [@ EXCEPT ![t] = new]])
  /\ UNCHANGED <<tenants, issued>>

\* A super admin creates a tenant.
Found(t) ==
  /\ \E a \in accounts : a.id \in SuperAdmins
  /\ t \notin tenants /\ tenants' = tenants \cup {t}
  /\ UNCHANGED <<accounts, issued>>

\* A login, a refresh, or the end of a registration.
Sign(a, t) ==
  /\ Entitled(a, t)
  /\ issued' = issued \cup {Token(a, t)}
  /\ UNCHANGED <<accounts, tenants>>

Next ==
  \/ \E id \in Unregistered, e \in FreeEmails(accounts), p \in Passwords, t \in tenants :
       Join(id, e, p, t)
  \/ \E a \in accounts :
       \/ \E e \in FreeEmails(accounts \ {a}) : SetEmail(a, e)
       \/ \E p \in Passwords : SetPassword(a, p)
       \/ \E t \in Tenants : Appoint(a, t)
       \/ \E t \in Tenants \cup {None} : Sign(a, t)
  \/ \E t \in Tenants : Found(t)

Spec == Init /\ [][Next]_vars
=============================================================================
