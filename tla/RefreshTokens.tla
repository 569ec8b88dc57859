--------------------------- MODULE RefreshTokens ---------------------------
(***************************************************************************)
(* Login, token refresh and logout of AuthService, down to the SQL         *)
(* statements of refresh-tokens.repo.ts, run by concurrent requests        *)
(* against PostgreSQL in its default isolation, READ COMMITTED:            *)
(*   - a statement sees the rows committed when it starts;                 *)
(*   - SELECT ... FOR UPDATE and UPDATE lock the rows they take until the  *)
(*     transaction ends, wait for a row another transaction holds, and     *)
(*     then re-evaluate the row as it has become;                          *)
(*   - a statement outside db.transaction() is a transaction of its own.   *)
(* A token stands for its hash; a request is one handler in progress.      *)
(***************************************************************************)
EXTENDS Naturals, FiniteSets

CONSTANTS Tokens, Families, Requests, None

ASSUME NoneAssumption == None \notin Tokens \cup Families \cup Requests

VARIABLES
  \* The refresh_tokens table, as committed.
  status,     \* "absent", "live" (revoked_at is null) or "revoked"
  family,     \* family_id
  expired,    \* the rows with expires_at <= now()
  \* The database's open transactions.
  holder,     \* the request whose transaction holds the row's lock, or None
  revoking,   \* uncommitted: the rows the request's transaction has revoked
  inserting,  \* uncommitted: the row it has inserted, or None
  \* The handlers.
  pc, kind, tok,
  todo,       \* the rows the revokeByFamily statement has still to visit
  reply,      \* the handler's answer, when it is not a new token
  \* The clients.
  delivered,  \* the tokens that reached a client
  \* History, read by no action.
  parent,     \* the token each token was rotated from
  swept       \* the rows the request's last revokeByFamily set out to revoke

table   == <<status, family, expired>>
txns    == <<holder, revoking, inserting>>
history == <<parent, swept>>
vars    == <<table, txns, pc, kind, tok, todo, reply, delivered, history>>

Statuses == {"absent", "live", "revoked"}
Kinds    == {"none", "login", "refresh", "logout"}
Replies  == {"none", "loggedOut", "invalid", "reuse"}
PCs      == {"idle", "find", "lock", "rotate", "family", "sweep", "commit", "respond"}

\* The types of the variables; a row is pending exactly between a rotation's
\* writes and the end of its transaction.
TypeOK ==
  /\ status \in [Tokens -> Statuses]
  /\ family \in [Tokens -> Families \cup {None}]
  /\ expired \subseteq Tokens
  /\ holder \in [Tokens -> Requests \cup {None}]
  /\ revoking \in [Requests -> SUBSET Tokens]
  /\ inserting \in [Requests -> Tokens \cup {None}]
  /\ pc \in [Requests -> PCs]
  /\ kind \in [Requests -> Kinds]
  /\ tok \in [Requests -> Tokens \cup {None}]
  /\ todo \in [Requests -> SUBSET Tokens]
  /\ reply \in [Requests -> Replies]
  /\ delivered \subseteq Tokens
  /\ parent \in [Tokens -> Tokens \cup {None}]
  /\ swept \in [Requests -> SUBSET Tokens]
  /\ \A r \in Requests : inserting[r] # None <=> pc[r] = "commit"

Init ==
  /\ status = [t \in Tokens |-> "absent"]
  /\ family = [t \in Tokens |-> None]
  /\ expired = {}
  /\ holder = [t \in Tokens |-> None]
  /\ revoking = [r \in Requests |-> {}]
  /\ inserting = [r \in Requests |-> None]
  /\ pc = [r \in Requests |-> "idle"]
  /\ kind = [r \in Requests |-> "none"]
  /\ tok = [r \in Requests |-> None]
  /\ todo = [r \in Requests |-> {}]
  /\ reply = [r \in Requests |-> "none"]
  /\ delivered = {}
  /\ parent = [t \in Tokens |-> None]
  /\ swept = [r \in Requests |-> {}]

-----------------------------------------------------------------------------
(* Helpers                                                                 *)

Goto(r, label) == pc' = [pc EXCEPT ![r] = label]

\* Mutant: token values are recycled, an insert may overwrite a revoked row.
Fresh_Recycled(t) == status[t] # "live" /\ \A r \in Requests : inserting[r] # t

\* A value of crypto randomness no row or open transaction has used.
Fresh(t) == status[t] = "absent" /\ \A r \in Requests : inserting[r] # t

\* findValidRefreshTokenByHash: the row exists, is not revoked and not expired.
Valid(t) == status[t] = "live" /\ t \notin expired

\* A row lock is granted when nobody else's transaction holds the row.
Grantable(r, t) == holder[t] \in {None, r}

Lock(r, t) == holder' = [holder EXCEPT ![t] = r]

\* Mutant: the connection returns to the pool with its transaction still open.
EndTransaction_KeepsLocks(r) ==
  /\ revoking' = [revoking EXCEPT ![r] = {}]
  /\ inserting' = [inserting EXCEPT ![r] = None]
  /\ UNCHANGED holder

\* The end of r's transaction drops its locks and its uncommitted writes.
EndTransaction(r) ==
  /\ holder' = [t \in Tokens |-> IF holder[t] = r THEN None ELSE holder[t]]
  /\ revoking' = [revoking EXCEPT ![r] = {}]
  /\ inserting' = [inserting EXCEPT ![r] = None]

\* Bound: the finite set Tokens still holds one for every rotation under way.
TokensLeft ==
  Cardinality({t \in Tokens : status[t] = "absent"}) >
  Cardinality({r \in Requests : kind[r] = "refresh" /\ pc[r] \in {"find", "lock", "rotate", "commit"}})

\* The handler returns or throws, and its variables are gone.
Leave(r) ==
  /\ Goto(r, "idle")
  /\ kind' = [kind EXCEPT ![r] = "none"]
  /\ tok' = [tok EXCEPT ![r] = None]
  /\ todo' = [todo EXCEPT ![r] = {}]

Answer(r, a) == reply' = [reply EXCEPT ![r] = a]

-----------------------------------------------------------------------------
(* Login (and the login that ends a registration)                          *)

\* _generateAuthResult: createRefreshToken inserts, in a transaction of its
\* own, a token of a new family.
Login(r) ==
  /\ pc[r] = "idle" /\ TokensLeft
  /\ \E t \in Tokens, f \in Families :
       /\ Fresh(t) /\ \A u \in Tokens : family[u] # f
       /\ status' = [status EXCEPT ![t] = "live"]
       /\ family' = [family EXCEPT ![t] = f]
       /\ tok' = [tok EXCEPT ![r] = t]
  /\ kind' = [kind EXCEPT ![r] = "login"]
  /\ swept' = [swept EXCEPT ![r] = {}]
  /\ Answer(r, "none")
  /\ Goto(r, "respond")
  /\ UNCHANGED <<expired, txns, todo, delivered, parent>>

-----------------------------------------------------------------------------
(* Refresh and logout                                                      *)

\* A client presents a token some answer has given it, not always the newest:
\* two tabs, or a retry, may send one that was rotated meanwhile.
Receive(r) ==
  /\ pc[r] = "idle"
  /\ \E t \in delivered, k \in {"refresh", "logout"} :
       /\ k = "refresh" => TokensLeft
       /\ tok' = [tok EXCEPT ![r] = t]
       /\ kind' = [kind EXCEPT ![r] = k]
  /\ swept' = [swept EXCEPT ![r] = {}]
  /\ Answer(r, "none")
  /\ Goto(r, "find")
  /\ UNCHANGED <<table, txns, todo, delivered, parent>>

\* The check both handlers start with, a statement of its own.
Find(r) ==
  /\ pc[r] = "find"
  /\ \/ /\ Valid(tok[r])
        /\ Goto(r, IF kind[r] = "refresh" THEN "lock" ELSE "family")
        /\ UNCHANGED reply
     \/ /\ ~Valid(tok[r])
        /\ Answer(r, "invalid")
        /\ Goto(r, "idle")
  /\ UNCHANGED <<table, txns, kind, tok, todo, delivered, history>>

\* Mutant: the SELECT without FOR UPDATE.
LockOld_NoForUpdate(r) ==
  /\ pc[r] = "lock"
  /\ Goto(r, IF status[tok[r]] = "live" THEN "rotate" ELSE "family")
  /\ UNCHANGED <<table, txns, kind, tok, todo, reply, delivered, history>>

\* Mutant: revoked_at is not read again under the lock.
LockOld_TrustsFind(r) ==
  /\ pc[r] = "lock" /\ Grantable(r, tok[r])
  /\ Lock(r, tok[r])
  /\ Goto(r, "rotate")
  /\ UNCHANGED <<table, revoking, inserting, kind, tok, todo, reply, delivered, history>>

\* rotateRefreshToken: SELECT ... FOR UPDATE on the presented token.  Whether
\* it is revoked is read under the lock; expires_at is not read again.
LockOld(r) ==
  /\ pc[r] = "lock" /\ Grantable(r, tok[r])
  /\ Lock(r, tok[r])
  /\ Goto(r, IF status[tok[r]] = "live" THEN "rotate" ELSE "family")
  /\ UNCHANGED <<table, revoking, inserting, kind, tok, todo, reply, delivered, history>>

\* rotateRefreshToken: revoke the old row, insert its successor.
Rotate(r) ==
  /\ pc[r] = "rotate"
  /\ revoking' = [revoking EXCEPT ![r] = {tok[r]}]
  /\ \E t \in Tokens : Fresh(t) /\ inserting' = [inserting EXCEPT ![r] = t]
  /\ Goto(r, "commit")
  /\ UNCHANGED <<table, holder, kind, tok, todo, reply, delivered, history>>

\* Mutant: the UPDATE without its condition on revoked_at.
Scan_RevokedToo(r) ==
  /\ pc[r] = "family"
  /\ LET rows == {t \in Tokens : family[t] = family[tok[r]]}
     IN  /\ todo' = [todo EXCEPT ![r] = rows]
         /\ swept' = [swept EXCEPT ![r] = rows]
  /\ Goto(r, "sweep")
  /\ UNCHANGED <<table, txns, kind, tok, reply, delivered, parent>>

\* revokeByFamily, of a logout or of a replay found by rotateRefreshToken: the
\* UPDATE's snapshot, the family's unrevoked rows committed so far.
Scan(r) ==
  /\ pc[r] = "family"
  /\ LET rows == {t \in Tokens : family[t] = family[tok[r]] /\ status[t] = "live"}
     IN  /\ todo' = [todo EXCEPT ![r] = rows]
         /\ swept' = [swept EXCEPT ![r] = rows]
  /\ Goto(r, "sweep")
  /\ UNCHANGED <<table, txns, kind, tok, reply, delivered, parent>>

\* The UPDATE takes one row of its snapshot, once its lock is free, and skips
\* it when it has been revoked meanwhile.
RevokeRow(r) ==
  /\ pc[r] = "sweep"
  /\ \E t \in todo[r] :
       /\ Grantable(r, t)
       /\ todo' = [todo EXCEPT ![r] = @ \ {t}]
       /\ \/ /\ status[t] = "live"
             /\ Lock(r, t)
             /\ revoking' = [revoking EXCEPT ![r] = @ \cup {t}]
          \/ /\ status[t] # "live"
             /\ UNCHANGED <<holder, revoking>>
  /\ UNCHANGED <<table, inserting, pc, kind, tok, reply, delivered, history>>

\* COMMIT of a rotation: the old row is revoked and its successor appears.
CommitRotation(r) ==
  /\ pc[r] = "commit"
  /\ LET new == inserting[r]
     IN  /\ status' = [t \in Tokens |-> IF t = new THEN "live"
                                        ELSE IF t \in revoking[r] THEN "revoked"
                                        ELSE status[t]]
         /\ family' = [family EXCEPT ![new] = family[tok[r]]]
         /\ parent' = [parent EXCEPT ![new] = tok[r]]
         /\ tok' = [tok EXCEPT ![r] = new]
  /\ EndTransaction(r)
  /\ Goto(r, "respond")
  /\ UNCHANGED <<expired, kind, todo, reply, delivered, swept>>

\* Mutant: the replay error is thrown inside the transaction, which rolls back.
CommitSweep_ThrowsInside(r) ==
  /\ pc[r] = "sweep" /\ todo[r] = {}
  /\ status' = [t \in Tokens |-> IF kind[r] = "logout" /\ t \in revoking[r]
                                 THEN "revoked" ELSE status[t]]
  /\ EndTransaction(r)
  /\ Answer(r, IF kind[r] = "logout" THEN "loggedOut" ELSE "reuse")
  /\ Goto(r, "idle")
  /\ UNCHANGED <<family, expired, kind, tok, todo, delivered, history>>

\* COMMIT of revokeByFamily.  A replay throws only now, so its revocations last.
CommitSweep(r) ==
  /\ pc[r] = "sweep" /\ todo[r] = {}
  /\ status' = [t \in Tokens |-> IF t \in revoking[r] THEN "revoked" ELSE status[t]]
  /\ EndTransaction(r)
  /\ Answer(r, IF kind[r] = "logout" THEN "loggedOut" ELSE "reuse")
  /\ Goto(r, "idle")
  /\ UNCHANGED <<family, expired, kind, tok, todo, delivered, history>>

\* The new token of a login or of a refresh reaches the client.
Respond(r) ==
  /\ pc[r] = "respond"
  /\ delivered' = delivered \cup {tok[r]}
  /\ Leave(r)
  /\ UNCHANGED <<table, txns, reply, history>>

\* Mutant: the new token is sent although its transaction was rolled back.
Fail_Answers(r) ==
  /\ pc[r] # "idle"
  /\ delivered' = delivered \cup ({inserting[r]} \ {None})
  /\ EndTransaction(r)
  /\ Leave(r)
  /\ UNCHANGED <<table, reply, history>>

\* Mutant: the handler gives up, its transaction is never rolled back.
Fail_NoRollback(r) ==
  /\ pc[r] # "idle"
  /\ Leave(r)
  /\ UNCHANGED <<table, txns, reply, delivered, history>>

\* A statement fails, the connection or the process is lost: an open transaction
\* is rolled back.  After the commit, only the answer is lost.
Fail(r) ==
  /\ pc[r] # "idle"
  /\ EndTransaction(r)
  /\ Leave(r)
  /\ UNCHANGED <<table, reply, delivered, history>>

\* now() passes a row's expires_at.
Expire ==
  /\ \E t \in Tokens \ expired : status[t] = "live" /\ expired' = expired \cup {t}
  /\ UNCHANGED <<status, family, txns, pc, kind, tok, todo, reply, delivered, history>>

-----------------------------------------------------------------------------
Step(r) ==
  \/ Find(r) \/ LockOld(r) \/ Rotate(r) \/ Scan(r) \/ RevokeRow(r)
  \/ CommitRotation(r) \/ CommitSweep(r) \/ Respond(r)

Next == (\E r \in Requests : Login(r) \/ Receive(r) \/ Step(r) \/ Fail(r)) \/ Expire

Spec == Init /\ [][Next]_vars

\* Every handler keeps running once called (an event loop that never blocks),
\* and PostgreSQL grants a row lock in the order it was asked for: a request
\* that waits for a lock freed again and again gets it (strong fairness).
Fairness ==
  \A r \in Requests : /\ WF_vars(Step(r))
                      /\ SF_vars(LockOld(r)) /\ SF_vars(RevokeRow(r))

FairSpec == Spec /\ Fairness

-----------------------------------------------------------------------------
(* Properties                                                              *)

Live(f) == {t \in Tokens : family[t] = f /\ status[t] = "live"}

\* A login session never has two usable tokens, whatever refreshes, retries and
\* logouts overlap: rotation neither duplicates a token nor leaves the old one.
OneLivePerFamily ==
  \A t, u \in Tokens :
    status[t] = "live" /\ status[u] = "live" /\ family[t] = family[u] => t = u

\* A token is exchanged at most once: of two refreshes of one token at most one
\* is answered with a successor, so the chain of a login session never forks.
NoFork ==
  \A t, u \in Tokens : parent[t] # None /\ parent[t] = parent[u] => t = u

\* A token a client was given is in the table, committed: no answer precedes
\* its transaction, and a failed one hands out nothing.
DeliveredIsStored == \A t \in delivered : status[t] # "absent"

\* Once a logout, or a refresh refused for reuse, has been answered, the rows its
\* statement found are revoked for good: the error thrown for a replay does not
\* undo the revocation that the same transaction made.
AcknowledgedSweepLasts ==
  \A r \in Requests : reply[r] \in {"loggedOut", "reuse"} =>
    \A t \in swept[r] : status[t] = "revoked"

\* r waits for the lock of a row that a request of W holds, or one that has ended.
WaitsFor(r, W) ==
  \E t \in Tokens :
    /\ \/ pc[r] = "lock" /\ t = tok[r]
       \/ pc[r] = "sweep" /\ t \in todo[r]
    /\ holder[t] # None
    /\ holder[t] \in W \ {r} \/ pc[holder[t]] = "idle"

\* No requests wait for each other's row locks in a circle, and none for a lock that
\* was left behind: replays keep the row they have locked while their UPDATE, which
\* orders its rows by nothing, waits for others of the family.
NoDeadlock ==
  \A W \in SUBSET Requests : W # {} => \E r \in W : ~WaitsFor(r, W)

\* No step brings a revoked token back or moves a token to another session, and
\* no transaction's failure does either.
RevocationIsFinal ==
  [][\A t \in Tokens :
       /\ status[t] = "revoked" => status'[t] = "revoked"
       /\ status[t] # "absent" => status'[t] # "absent" /\ family'[t] = family[t]
    ]_table

\* The table as TokenChains sees it.
The(S)  == CHOOSE t \in S : TRUE
Head    == [f \in Families |-> IF Live(f) = {} THEN None ELSE The(Live(f))]
Used    == {t \in Tokens : status[t] # "absent"}
Started == {f \in Families : \E t \in Tokens : family[t] = f}

Chains == INSTANCE TokenChains WITH head <- Head, used <- Used, started <- Started

\* The table, seen as one head per family, does only what TokenChains allows: in
\* particular a session that lost its last token never gains another.
ImplementsChains == Chains!Spec

\* Every request is answered: requests waiting for each other's row locks, a
\* logout and a refresh of the same family included, never wait for ever.
EveryRequestEnds == \A r \in Requests : pc[r] # "idle" ~> pc[r] = "idle"

\* doc/auth/refresh-tokens.md:72-75: after a logout, even one that raced with a
\* refresh of the same session, no token of the session is usable.
LogoutEndsFamily ==
  \A r \in Requests : reply[r] = "loggedOut" => Live(family[tok[r]]) = {}

\* doc/auth/refresh-tokens.md:106-109: when a token that was already rotated is
\* presented again and refused, no token of its session is usable any more.
ReuseEndsFamily ==
  [][\A r \in Requests :
       /\ kind[r] = "refresh" /\ reply[r] = "none" /\ reply'[r] \in {"invalid", "reuse"}
       /\ \E t \in Tokens : parent[t] = tok[r]
       => \A t \in Tokens : family[t] = family[tok[r]] => status'[t] # "live"
    ]_vars
=============================================================================
