----------------------------- MODULE MCAccounts -----------------------------
(* The two admins of tenant a and a super admin; two accounts and a tenant to *)
(* come.  Of the four e-mails one is free at first.                           *)
EXTENDS Accounts, TLC

CONSTANTS ann, bob, cy, dan, root, a, b, e1, e2, e3, e4, p, q

MCSeedEmail    == ann :> e1 @@ bob :> e2 @@ root :> e3 @@ cy :> None @@ dan :> None
MCSeedPassword == [u \in Users |-> IF MCSeedEmail[u] = None THEN None ELSE p]
MCSeedRole     == [u \in Users |-> [t \in Tenants |->
                     IF u \in {ann, bob} /\ t = a THEN "tenant_admin" ELSE None]]
=============================================================================
