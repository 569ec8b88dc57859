-------------------------- MODULE DirectoryProofs --------------------------
(***************************************************************************)
(* A directory stays consistent: what a module that implements Directory   *)
(* gets from it alone.                                                     *)
(***************************************************************************)
EXTENDS Directory, TLAPS

\* Changing an account in place: the others keep theirs, and it keeps its id.
LEMMA ReplaceKeeps ==
  ASSUME TypeOK, Consistent, NEW a \in accounts, NEW b \in Accounts, Replace(a, b),
         UNCHANGED <<tenants, issued>>,
         b.id = a.id, \A c \in accounts \ {a} : c.email # b.email,
         \A t \in Tenants : a.roles[t] # None => b.roles[t] # None
  PROVE  TypeOK' /\ Consistent'
<1>1. \A c \in accounts' : c = b \/ (c \in accounts /\ c # a)
  BY DEF Replace
<1>2. b \in accounts' /\ \A c \in accounts : c # a => c \in accounts'
  BY DEF Replace
<1>3. TypeOK'
  BY DEF TypeOK, Replace
<1>4. \A c, d \in accounts' : c.id = d.id \/ c.email = d.email => c = d
  BY <1>1 DEF Consistent
<1>5. ASSUME NEW c \in accounts', c.id \notin SuperAdmins
      PROVE  \E t \in tenants' : c.roles[t] # None
  BY <1>1, <1>5 DEF Consistent, TypeOK
<1>6. ASSUME NEW k \in issued'
      PROVE  \E c \in accounts' : Entitled(c, k.tid) /\ k = Token(c, k.tid)
  <2>1. PICK c \in accounts : Entitled(c, k.tid) /\ k = Token(c, k.tid)
    BY DEF Consistent
  <2>2. CASE c # a
    BY <1>2, <2>1, <2>2
  <2>3. CASE c = a
    <3>1. Token(b, k.tid) = Token(c, k.tid)
      BY <2>3, Zenon DEF Token
    <3>2. Entitled(b, k.tid)
      BY <2>1, <2>3 DEF Entitled, TypeOK, Tokens
    <3> QED
      BY <1>2, <2>1, <3>1, <3>2
  <2> QED
    BY <2>2, <2>3
<1> QED
  BY <1>3, <1>4, <1>5, <1>6 DEF Consistent

\* A registration's account is the only one with its id and e-mail, and a viewer.
LEMMA JoinKeeps ==
  ASSUME None \notin Roles, TypeOK, Consistent,
         NEW id \in Unregistered, NEW e \in FreeEmails(accounts), NEW p \in Passwords,
         NEW t \in tenants, Join(id, e, p, t)
  PROVE  TypeOK' /\ Consistent'
<1> DEFINE roles == [s \in Tenants |-> IF s = t THEN "tenant_view" ELSE None]
           new   == [id |-> id, email |-> e, password |-> p, roles |-> roles]
<1>1. /\ accounts' = accounts \cup {new} /\ UNCHANGED <<tenants, issued>>
      /\ id \notin SuperAdmins /\ \A a \in accounts : a.id # id /\ a.email # e
  BY DEF Join, Unregistered, FreeEmails
<1>2. roles \in [Tenants -> Roles \cup {None}] /\ t \in Tenants /\ roles[t] # None
  BY DEF TypeOK, Roles
<1>3. new \in Accounts /\ new.id = id /\ new.email = e /\ new.roles[t] # None
  BY <1>2 DEF Accounts, Unregistered, FreeEmails
<1> HIDE DEF new
<1>4. TypeOK'
  BY <1>1, <1>3 DEF TypeOK
<1>5. \A a, b \in accounts' : a.id = b.id \/ a.email = b.email => a = b
  BY <1>1, <1>3 DEF Consistent
<1>6. \A a \in accounts' : a.id \notin SuperAdmins => \E s \in tenants' : a.roles[s] # None
  BY <1>1, <1>3 DEF Consistent
<1>7. \A k \in issued' : \E a \in accounts' : Entitled(a, k.tid) /\ k = Token(a, k.tid)
  BY <1>1 DEF Consistent
<1> QED
  BY <1>4, <1>5, <1>6, <1>7 DEF Consistent

\* A token is signed for an account that may have it.
LEMMA SignKeeps ==
  ASSUME TypeOK, Consistent, NEW a \in accounts, NEW t \in Tenants \cup {None}, Sign(a, t)
  PROVE  TypeOK' /\ Consistent'
<1>1. a.id \in Users /\ (a.id \in SuperAdmins) \in BOOLEAN
  BY DEF TypeOK, Accounts
<1>2. Token(a, t) \in Tokens
  BY <1>1, Zenon DEF Token, Tokens
<1>3. Token(a, t).tid = t
  BY DEF Token
<1>4. Entitled(a, t) /\ issued' = issued \cup {Token(a, t)} /\ UNCHANGED <<accounts, tenants>>
  BY DEF Sign
<1>5. TypeOK'
  BY <1>2, <1>4 DEF TypeOK
<1>6. \A k \in issued' : \E b \in accounts : Entitled(b, k.tid) /\ k = Token(b, k.tid)
  BY <1>3, <1>4 DEF Consistent
<1> QED
  BY <1>4, <1>5, <1>6 DEF Consistent

\* However many calls there are, e-mails stay distinct, everybody may act somewhere, and
\* no token in a client's hands names an account or a tenant that would refuse it.
THEOREM DirectoryStaysConsistent ==
  ASSUME None \notin Roles
  PROVE  Spec => [](TypeOK /\ Consistent)
<1>1. ASSUME TypeOK, Consistent, [Next]_vars PROVE TypeOK' /\ Consistent'
  <2>1. CASE UNCHANGED vars
    BY <1>1, <2>1 DEF vars, TypeOK, Consistent
  <2>2. ASSUME NEW id \in Unregistered, NEW e \in FreeEmails(accounts), NEW p \in Passwords,
               NEW t \in tenants, Join(id, e, p, t)
        PROVE  TypeOK' /\ Consistent'
    BY <1>1, <2>2, JoinKeeps
  <2>3. ASSUME NEW a \in accounts, NEW e \in FreeEmails(accounts \ {a}), SetEmail(a, e)
        PROVE  TypeOK' /\ Consistent'
    <3>1. PICK b : b = [a EXCEPT !.email = e]
      OBVIOUS
    <3>2. b \in Accounts /\ b.id = a.id /\ b.email = e /\ b.roles = a.roles
      BY <1>1, <3>1 DEF TypeOK, Accounts, FreeEmails
    <3>3. Replace(a, b) /\ UNCHANGED <<tenants, issued>> /\ \A c \in accounts \ {a} : c.email # e
      BY <2>3, <3>1 DEF SetEmail, FreeEmails
    <3> QED
      BY <1>1, <3>2, <3>3, ReplaceKeeps
  <2>4. ASSUME NEW a \in accounts, NEW p \in Passwords, SetPassword(a, p)
        PROVE  TypeOK' /\ Consistent'
    <3>1. PICK b : b = [a EXCEPT !.password = p]
      OBVIOUS
    <3>2. b \in Accounts /\ b.id = a.id /\ b.email = a.email /\ b.roles = a.roles
      BY <1>1, <3>1 DEF TypeOK, Accounts
    <3>3. Replace(a, b) /\ UNCHANGED <<tenants, issued>>
      BY <2>4, <3>1 DEF SetPassword
    <3>4. \A c \in accounts \ {a} : c.email # b.email
      BY <1>1, <3>2 DEF Consistent
    <3> QED
      BY <1>1, <3>2, <3>3, <3>4, ReplaceKeeps
  <2>5. ASSUME NEW a \in accounts, NEW t \in Tenants, Appoint(a, t)
        PROVE  TypeOK' /\ Consistent'
    <3>1. PICK new \in {"tenant_admin", "tenant_view"} :
            Replace(a, [a EXCEPT !.roles = [@ EXCEPT ![t] = new]])
      BY <2>5 DEF Appoint
    <3>2. PICK b : b = [a EXCEPT !.roles = [@ EXCEPT ![t] = new]]
      OBVIOUS
    <3>3. a \in Accounts
      BY <1>1 DEF TypeOK
    <3>4. b \in Accounts /\ b.id = a.id /\ b.email = a.email
      BY <3>2, <3>3 DEF Accounts, Roles
    <3>5. \A s \in Tenants : a.roles[s] # None => b.roles[s] # None
      BY <1>1, <3>2, <3>3 DEF Accounts, Roles
    <3>6. Replace(a, b) /\ UNCHANGED <<tenants, issued>>
      BY <2>5, <3>1, <3>2 DEF Appoint
    <3>7. \A c \in accounts \ {a} : c.email # b.email
      BY <1>1, <3>4 DEF Consistent
    <3> QED
      BY <1>1, <3>4, <3>5, <3>6, <3>7, ReplaceKeeps
  <2>6. ASSUME NEW t \in Tenants, Found(t)
        PROVE  TypeOK' /\ Consistent'
    BY <1>1, <2>6 DEF Found, TypeOK, Consistent
  <2>7. ASSUME NEW a \in accounts, NEW t \in Tenants \cup {None}, Sign(a, t)
        PROVE  TypeOK' /\ Consistent'
    BY <1>1, <2>7, SignKeeps
  <2> QED
    BY <1>1, <2>1, <2>2, <2>3, <2>4, <2>5, <2>6, <2>7 DEF Next
<1> QED
  BY <1>1, PTL DEF Spec, Init
=============================================================================
