------------------------ MODULE RefreshTokensProofs ------------------------
(***************************************************************************)
(* The safety properties of RefreshTokens for any number of tokens,        *)
(* families and concurrent requests, and the proof that it implements      *)
(* TokenChains.                                                            *)
(***************************************************************************)
EXTENDS RefreshTokens, TLAPS

\* A row belongs to a family from its insertion on.
RowsHaveFamilies == \A t \in Tokens : status[t] = "absent" <=> family[t] = None

\* A token with a successor is revoked.
ParentsAreRevoked ==
  \A t \in Tokens : parent[t] # None => status[parent[t]] = "revoked"

\* Uncommitted rows are new, and each transaction has its own.
PendingRowsAreFresh ==
  \A r \in Requests : inserting[r] # None =>
    /\ status[inserting[r]] = "absent"
    /\ \A q \in Requests : inserting[q] = inserting[r] => q = r

\* A rotation holds the lock of the row it rotates from the moment it has seen
\* it live; every row a transaction has revoked is live and locked by it.
LocksProtectWrites ==
  \A r \in Requests :
    /\ pc[r] \in {"rotate", "commit"} => holder[tok[r]] = r /\ status[tok[r]] = "live"
    /\ pc[r] = "commit" => revoking[r] = {tok[r]}
    /\ \A t \in revoking[r] : holder[t] = r /\ status[t] = "live"

\* A handler in progress has a token of the table and has not answered yet.
HandlersAreTyped ==
  \A r \in Requests : pc[r] # "idle" =>
    tok[r] \in Tokens /\ status[tok[r]] # "absent" /\ reply[r] = "none"

\* What a revokeByFamily statement set out to revoke is still to be visited,
\* pending, or revoked.
SweepProgress ==
  \A r \in Requests :
    /\ \A t \in swept[r] : status[t] # "absent"
    /\ pc[r] = "sweep" =>
         \A t \in swept[r] : t \in todo[r] \/ t \in revoking[r] \/ status[t] = "revoked"

\* A sweep revokes rows of one family, and only a sweep or a rotation about to
\* commit has uncommitted revocations.
SweepsOneFamily ==
  \A r \in Requests :
    /\ pc[r] \notin {"sweep", "commit"} => revoking[r] = {}
    /\ pc[r] = "sweep" =>
         \A t \in todo[r] \cup revoking[r] : family[t] = family[tok[r]]

IInv ==
  /\ TypeOK
  /\ RowsHaveFamilies /\ OneLivePerFamily
  /\ ParentsAreRevoked /\ NoFork
  /\ PendingRowsAreFresh /\ LocksProtectWrites /\ HandlersAreTyped
  /\ DeliveredIsStored /\ SweepProgress /\ SweepsOneFamily
  /\ AcknowledgedSweepLasts

-----------------------------------------------------------------------------
\* The invariant holds before the first login.
LEMMA InitIInv == Init => IInv
BY NoneAssumption
   DEF Init, IInv, TypeOK, RowsHaveFamilies, OneLivePerFamily, ParentsAreRevoked, NoFork,
       PendingRowsAreFresh, LocksProtectWrites, HandlersAreTyped, DeliveredIsStored,
       SweepProgress, SweepsOneFamily, AcknowledgedSweepLasts, Statuses, Kinds, Replies, PCs

\* Every step preserves the invariant: one step per action, and under it one per
\* conjunct the action can disturb.
LEMMA NextIInv == IInv /\ [Next]_vars => IInv'
<1> SUFFICES ASSUME IInv, [Next]_vars PROVE IInv'
  OBVIOUS
<1>0. TypeOK /\ RowsHaveFamilies /\ OneLivePerFamily /\ ParentsAreRevoked /\ NoFork
      /\ PendingRowsAreFresh /\ LocksProtectWrites /\ HandlersAreTyped
      /\ DeliveredIsStored /\ SweepProgress /\ SweepsOneFamily /\ AcknowledgedSweepLasts
  BY DEF IInv
<1> USE NoneAssumption
<1> USE DEF TypeOK, Statuses, Kinds, Replies, PCs, table, txns, history, Goto, Answer
<1>1. ASSUME NEW r \in Requests, Login(r) PROVE IInv'
  <2>1. TypeOK'
    BY <1>1, <1>0 DEF Login, Fresh, TypeOK
  <2>2. RowsHaveFamilies'
    BY <1>1, <1>0 DEF Login, Fresh, RowsHaveFamilies
  <2>3. OneLivePerFamily'
    BY <1>1, <1>0 DEF Login, Fresh, OneLivePerFamily
  <2>4. ParentsAreRevoked'
    BY <1>1, <1>0 DEF Login, Fresh, ParentsAreRevoked
  <2>5. PendingRowsAreFresh'
    BY <1>1, <1>0 DEF Login, Fresh, PendingRowsAreFresh
  <2>6. LocksProtectWrites'
    BY <1>1, <1>0 DEF Login, Fresh, LocksProtectWrites
  <2>7. HandlersAreTyped'
    BY <1>1, <1>0 DEF Login, Fresh, HandlersAreTyped
  <2>8. DeliveredIsStored'
    BY <1>1, <1>0 DEF Login, Fresh, DeliveredIsStored
  <2>9. SweepProgress'
    BY <1>1, <1>0 DEF Login, Fresh, SweepProgress
  <2>10. SweepsOneFamily'
    BY <1>1, <1>0 DEF Login, Fresh, SweepsOneFamily, HandlersAreTyped, RowsHaveFamilies
  <2>11. AcknowledgedSweepLasts'
    BY <1>1, <1>0 DEF Login, Fresh, AcknowledgedSweepLasts
  <2>12. NoFork'
    BY <1>1, <1>0 DEF Login, NoFork
  <2> QED
    BY <2>1, <2>2, <2>3, <2>4, <2>5, <2>6, <2>7, <2>8, <2>9, <2>10, <2>11, <2>12 DEF IInv
<1>2. ASSUME NEW r \in Requests, Receive(r) PROVE IInv'
  <2>1. TypeOK'
    BY <1>2, <1>0 DEF Receive, TypeOK
  <2>2. LocksProtectWrites'
    BY <1>2, <1>0 DEF Receive, LocksProtectWrites
  <2>3. HandlersAreTyped'
    BY <1>2, <1>0 DEF Receive, HandlersAreTyped, DeliveredIsStored
  <2>4. SweepProgress'
    BY <1>2, <1>0 DEF Receive, SweepProgress
  <2>5. SweepsOneFamily'
    BY <1>2, <1>0 DEF Receive, SweepsOneFamily
  <2>6. AcknowledgedSweepLasts'
    BY <1>2, <1>0 DEF Receive, AcknowledgedSweepLasts
  <2>7. (RowsHaveFamilies /\ OneLivePerFamily /\ ParentsAreRevoked /\ NoFork /\ PendingRowsAreFresh /\ DeliveredIsStored)'
    BY <1>2, <1>0 DEF Receive, RowsHaveFamilies, OneLivePerFamily, ParentsAreRevoked,
       NoFork, PendingRowsAreFresh, DeliveredIsStored
  <2> QED
    BY <2>1, <2>2, <2>3, <2>4, <2>5, <2>6, <2>7 DEF IInv
<1>3. ASSUME NEW r \in Requests, Find(r) PROVE IInv'
  <2>1. TypeOK'
    BY <1>3, <1>0 DEF Find, Valid, TypeOK
  <2>2. LocksProtectWrites'
    BY <1>3, <1>0 DEF Find, Valid, LocksProtectWrites
  <2>3. HandlersAreTyped'
    BY <1>3, <1>0 DEF Find, Valid, HandlersAreTyped
  <2>4. SweepProgress'
    BY <1>3, <1>0 DEF Find, Valid, SweepProgress
  <2>5. SweepsOneFamily'
    BY <1>3, <1>0 DEF Find, Valid, SweepsOneFamily
  <2>6. AcknowledgedSweepLasts'
    BY <1>3, <1>0 DEF Find, Valid, AcknowledgedSweepLasts
  <2>7. (RowsHaveFamilies /\ OneLivePerFamily /\ ParentsAreRevoked /\ NoFork /\ PendingRowsAreFresh /\ DeliveredIsStored)'
    BY <1>3, <1>0 DEF Find, RowsHaveFamilies, OneLivePerFamily, ParentsAreRevoked, NoFork,
       PendingRowsAreFresh, DeliveredIsStored
  <2> QED
    BY <2>1, <2>2, <2>3, <2>4, <2>5, <2>6, <2>7 DEF IInv
<1>4. ASSUME NEW r \in Requests, LockOld(r) PROVE IInv'
  <2>1. TypeOK'
    BY <1>4, <1>0 DEF LockOld, Grantable, Lock, TypeOK
  <2>2. LocksProtectWrites'
    BY <1>4, <1>0 DEF LockOld, Grantable, Lock, LocksProtectWrites, HandlersAreTyped
  <2>3. HandlersAreTyped'
    BY <1>4, <1>0 DEF LockOld, Grantable, Lock, HandlersAreTyped
  <2>4. SweepProgress'
    BY <1>4, <1>0 DEF LockOld, Grantable, Lock, SweepProgress
  <2>5. SweepsOneFamily'
    BY <1>4, <1>0 DEF LockOld, Grantable, Lock, SweepsOneFamily
  <2>6. (RowsHaveFamilies /\ OneLivePerFamily /\ ParentsAreRevoked /\ NoFork /\ PendingRowsAreFresh /\ DeliveredIsStored /\ AcknowledgedSweepLasts)'
    BY <1>4, <1>0 DEF LockOld, Lock, RowsHaveFamilies, OneLivePerFamily, ParentsAreRevoked,
       NoFork, PendingRowsAreFresh, DeliveredIsStored, AcknowledgedSweepLasts
  <2> QED
    BY <2>1, <2>2, <2>3, <2>4, <2>5, <2>6 DEF IInv
<1>5. ASSUME NEW r \in Requests, Rotate(r) PROVE IInv'
  <2>1. TypeOK'
    BY <1>5, <1>0 DEF Rotate, Fresh, TypeOK, HandlersAreTyped
  <2>2. PendingRowsAreFresh'
    BY <1>5, <1>0 DEF Rotate, Fresh, PendingRowsAreFresh
  <2>3. LocksProtectWrites'
    BY <1>5, <1>0 DEF Rotate, Fresh, LocksProtectWrites
  <2>4. HandlersAreTyped'
    BY <1>5, <1>0 DEF Rotate, Fresh, HandlersAreTyped
  <2>5. SweepProgress'
    BY <1>5, <1>0 DEF Rotate, Fresh, SweepProgress
  <2>6. SweepsOneFamily'
    BY <1>5, <1>0 DEF Rotate, Fresh, SweepsOneFamily
  <2>7. (RowsHaveFamilies /\ OneLivePerFamily /\ ParentsAreRevoked /\ NoFork /\ DeliveredIsStored /\ AcknowledgedSweepLasts)'
    BY <1>5, <1>0 DEF Rotate, RowsHaveFamilies, OneLivePerFamily, ParentsAreRevoked, NoFork,
       DeliveredIsStored, AcknowledgedSweepLasts
  <2> QED
    BY <2>1, <2>2, <2>3, <2>4, <2>5, <2>6, <2>7 DEF IInv
<1>6. ASSUME NEW r \in Requests, Scan(r) PROVE IInv'
  <2>1. TypeOK'
    BY <1>6, <1>0 DEF Scan, TypeOK
  <2>2. LocksProtectWrites'
    BY <1>6, <1>0 DEF Scan, LocksProtectWrites
  <2>3. HandlersAreTyped'
    BY <1>6, <1>0 DEF Scan, HandlersAreTyped
  <2>4. SweepProgress'
    BY <1>6, <1>0 DEF Scan, SweepProgress
  <2>5. SweepsOneFamily'
    BY <1>6, <1>0 DEF Scan, SweepsOneFamily
  <2>6. AcknowledgedSweepLasts'
    BY <1>6, <1>0 DEF Scan, AcknowledgedSweepLasts, HandlersAreTyped
  <2>7. (RowsHaveFamilies /\ OneLivePerFamily /\ ParentsAreRevoked /\ NoFork /\ PendingRowsAreFresh /\ DeliveredIsStored)'
    BY <1>6, <1>0 DEF Scan, RowsHaveFamilies, OneLivePerFamily, ParentsAreRevoked, NoFork,
       PendingRowsAreFresh, DeliveredIsStored
  <2> QED
    BY <2>1, <2>2, <2>3, <2>4, <2>5, <2>6, <2>7 DEF IInv
<1>7. ASSUME NEW r \in Requests, RevokeRow(r) PROVE IInv'
  <2>1. TypeOK'
    BY <1>7, <1>0 DEF RevokeRow, Grantable, Lock, TypeOK
  <2>2. LocksProtectWrites'
    BY <1>7, <1>0 DEF RevokeRow, Grantable, Lock, LocksProtectWrites, HandlersAreTyped
  <2>3. SweepProgress'
    BY <1>7, <1>0 DEF RevokeRow, Grantable, Lock, SweepProgress
  <2>4. SweepsOneFamily'
    BY <1>7, <1>0 DEF RevokeRow, Grantable, Lock, SweepsOneFamily
  <2>5. (RowsHaveFamilies /\ OneLivePerFamily /\ ParentsAreRevoked /\ NoFork /\ PendingRowsAreFresh /\ HandlersAreTyped /\ DeliveredIsStored /\ AcknowledgedSweepLasts)'
    BY <1>7, <1>0 DEF RevokeRow, Lock, RowsHaveFamilies, OneLivePerFamily,
       ParentsAreRevoked, NoFork, PendingRowsAreFresh, HandlersAreTyped, DeliveredIsStored,
       AcknowledgedSweepLasts
  <2> QED
    BY <2>1, <2>2, <2>3, <2>4, <2>5 DEF IInv
<1>8. ASSUME NEW r \in Requests, CommitRotation(r) PROVE IInv'
  <2>1. TypeOK'
    BY <1>8, <1>0 DEF CommitRotation, EndTransaction, TypeOK, HandlersAreTyped
  <2>2. RowsHaveFamilies'
    BY <1>8, <1>0 DEF CommitRotation, EndTransaction, RowsHaveFamilies, LocksProtectWrites,
       PendingRowsAreFresh, HandlersAreTyped
  <2>3. OneLivePerFamily'
    BY <1>8, <1>0 DEF CommitRotation, EndTransaction, OneLivePerFamily, LocksProtectWrites,
       PendingRowsAreFresh, HandlersAreTyped
  <2>4. ParentsAreRevoked'
    BY <1>8, <1>0 DEF CommitRotation, EndTransaction, ParentsAreRevoked, LocksProtectWrites,
       PendingRowsAreFresh, HandlersAreTyped
  <2>5. NoFork'
    BY <1>8, <1>0 DEF CommitRotation, EndTransaction, NoFork, LocksProtectWrites,
       PendingRowsAreFresh, HandlersAreTyped, ParentsAreRevoked
  <2>6. PendingRowsAreFresh'
    BY <1>8, <1>0 DEF CommitRotation, EndTransaction, PendingRowsAreFresh,
       LocksProtectWrites, HandlersAreTyped
  <2>7. LocksProtectWrites'
    BY <1>8, <1>0 DEF CommitRotation, EndTransaction, LocksProtectWrites,
       PendingRowsAreFresh, HandlersAreTyped
  <2>8. HandlersAreTyped'
    BY <1>8, <1>0 DEF CommitRotation, EndTransaction, HandlersAreTyped
  <2>9. DeliveredIsStored'
    BY <1>8, <1>0 DEF CommitRotation, EndTransaction, DeliveredIsStored
  <2>10. SweepProgress'
    BY <1>8, <1>0 DEF CommitRotation, EndTransaction, SweepProgress, LocksProtectWrites,
       PendingRowsAreFresh, HandlersAreTyped
  <2>11. SweepsOneFamily'
    BY <1>8, <1>0 DEF CommitRotation, EndTransaction, SweepsOneFamily, HandlersAreTyped,
       LocksProtectWrites, PendingRowsAreFresh, RowsHaveFamilies
  <2>12. AcknowledgedSweepLasts'
    BY <1>8, <1>0 DEF CommitRotation, EndTransaction, AcknowledgedSweepLasts,
       LocksProtectWrites, PendingRowsAreFresh, HandlersAreTyped
  <2> QED
    BY <2>1, <2>2, <2>3, <2>4, <2>5, <2>6, <2>7, <2>8, <2>9, <2>10, <2>11, <2>12 DEF IInv
<1>9. ASSUME NEW r \in Requests, CommitSweep(r) PROVE IInv'
  <2>1. TypeOK'
    BY <1>9, <1>0 DEF CommitSweep, EndTransaction, TypeOK
  <2>2. RowsHaveFamilies'
    BY <1>9, <1>0 DEF CommitSweep, EndTransaction, RowsHaveFamilies, LocksProtectWrites
  <2>3. OneLivePerFamily'
    BY <1>9, <1>0 DEF CommitSweep, EndTransaction, OneLivePerFamily
  <2>4. ParentsAreRevoked'
    BY <1>9, <1>0 DEF CommitSweep, EndTransaction, ParentsAreRevoked
  <2>5. PendingRowsAreFresh'
    BY <1>9, <1>0 DEF CommitSweep, EndTransaction, PendingRowsAreFresh, LocksProtectWrites
  <2>6. LocksProtectWrites'
    BY <1>9, <1>0 DEF CommitSweep, EndTransaction, LocksProtectWrites, HandlersAreTyped
  <2>7. HandlersAreTyped'
    BY <1>9, <1>0 DEF CommitSweep, EndTransaction, HandlersAreTyped
  <2>8. DeliveredIsStored'
    BY <1>9, <1>0 DEF CommitSweep, EndTransaction, DeliveredIsStored
  <2>9. SweepProgress'
    BY <1>9, <1>0 DEF CommitSweep, EndTransaction, SweepProgress
  <2>10. SweepsOneFamily'
    BY <1>9, <1>0 DEF CommitSweep, EndTransaction, SweepsOneFamily
  <2>11. AcknowledgedSweepLasts'
    BY <1>9, <1>0 DEF CommitSweep, EndTransaction, AcknowledgedSweepLasts, SweepProgress,
       LocksProtectWrites
  <2>12. NoFork'
    BY <1>9, <1>0 DEF CommitSweep, EndTransaction, NoFork
  <2> QED
    BY <2>1, <2>2, <2>3, <2>4, <2>5, <2>6, <2>7, <2>8, <2>9, <2>10, <2>11, <2>12 DEF IInv
<1>10. ASSUME NEW r \in Requests, Respond(r) PROVE IInv'
  <2>1. TypeOK'
    BY <1>10, <1>0 DEF Respond, Leave, TypeOK, HandlersAreTyped
  <2>2. LocksProtectWrites'
    BY <1>10, <1>0 DEF Respond, Leave, LocksProtectWrites
  <2>3. HandlersAreTyped'
    BY <1>10, <1>0 DEF Respond, Leave, HandlersAreTyped
  <2>4. DeliveredIsStored'
    BY <1>10, <1>0 DEF Respond, Leave, DeliveredIsStored, HandlersAreTyped
  <2>5. SweepProgress'
    BY <1>10, <1>0 DEF Respond, Leave, SweepProgress
  <2>6. SweepsOneFamily'
    BY <1>10, <1>0 DEF Respond, Leave, SweepsOneFamily
  <2>7. (RowsHaveFamilies /\ OneLivePerFamily /\ ParentsAreRevoked /\ NoFork /\ PendingRowsAreFresh /\ AcknowledgedSweepLasts)'
    BY <1>10, <1>0 DEF Respond, Leave, RowsHaveFamilies, OneLivePerFamily,
       ParentsAreRevoked, NoFork, PendingRowsAreFresh, AcknowledgedSweepLasts
  <2> QED
    BY <2>1, <2>2, <2>3, <2>4, <2>5, <2>6, <2>7 DEF IInv
<1>11. ASSUME NEW r \in Requests, Fail(r) PROVE IInv'
  <2>1. TypeOK'
    BY <1>11, <1>0 DEF Fail, Leave, EndTransaction, TypeOK
  <2>2. PendingRowsAreFresh'
    BY <1>11, <1>0 DEF Fail, Leave, EndTransaction, PendingRowsAreFresh
  <2>3. LocksProtectWrites'
    BY <1>11, <1>0 DEF Fail, Leave, EndTransaction, LocksProtectWrites, HandlersAreTyped
  <2>4. HandlersAreTyped'
    BY <1>11, <1>0 DEF Fail, Leave, EndTransaction, HandlersAreTyped
  <2>5. SweepProgress'
    BY <1>11, <1>0 DEF Fail, Leave, EndTransaction, SweepProgress
  <2>6. SweepsOneFamily'
    BY <1>11, <1>0 DEF Fail, Leave, EndTransaction, SweepsOneFamily
  <2>7. (RowsHaveFamilies /\ OneLivePerFamily /\ ParentsAreRevoked /\ NoFork /\ DeliveredIsStored /\ AcknowledgedSweepLasts)'
    BY <1>11, <1>0 DEF Fail, Leave, EndTransaction, RowsHaveFamilies, OneLivePerFamily,
       ParentsAreRevoked, NoFork, DeliveredIsStored, AcknowledgedSweepLasts
  <2> QED
    BY <2>1, <2>2, <2>3, <2>4, <2>5, <2>6, <2>7 DEF IInv
<1>12. CASE Expire
  BY <1>12, <1>0 DEF IInv, Expire, RowsHaveFamilies, OneLivePerFamily, ParentsAreRevoked, NoFork, PendingRowsAreFresh, LocksProtectWrites, HandlersAreTyped, DeliveredIsStored, SweepProgress, SweepsOneFamily, AcknowledgedSweepLasts
<1>13. CASE UNCHANGED vars
  BY <1>13, <1>0 DEF IInv, vars, RowsHaveFamilies, OneLivePerFamily, ParentsAreRevoked, NoFork, PendingRowsAreFresh, LocksProtectWrites, HandlersAreTyped, DeliveredIsStored, SweepProgress, SweepsOneFamily, AcknowledgedSweepLasts
<1> QED
  BY <1>1, <1>2, <1>3, <1>4, <1>5, <1>6, <1>7, <1>8, <1>9, <1>10, <1>11, <1>12, <1>13 DEF Next, Step

\* The inductive invariant holds in every reachable state.
THEOREM InductiveInvariant == Spec => []IInv
BY InitIInv, NextIInv, PTL DEF Spec

\* The variables keep their types and the transaction's pending row its place.
THEOREM TypeCorrect == Spec => []TypeOK
BY InductiveInvariant, PTL DEF IInv

\* No login session ever has two usable refresh tokens.
THEOREM AtMostOneLiveToken == Spec => []OneLivePerFamily
BY InductiveInvariant, PTL DEF IInv

\* No refresh token is ever exchanged twice.
THEOREM ChainsNeverFork == Spec => []NoFork
BY InductiveInvariant, PTL DEF IInv

\* A client never holds a token whose transaction did not commit.
THEOREM OnlyStoredTokensAreSent == Spec => []DeliveredIsStored
BY InductiveInvariant, PTL DEF IInv

\* What an answered logout or reuse refusal found to revoke stays revoked.
THEOREM AcknowledgedRevocationsLast == Spec => []AcknowledgedSweepLasts
BY InductiveInvariant, PTL DEF IInv

-----------------------------------------------------------------------------
\* The steps that change the table: everything else leaves status and family.
LEMMA TableSteps ==
  ASSUME Next
  PROVE  \/ \E r \in Requests : Login(r) \/ CommitRotation(r) \/ CommitSweep(r)
         \/ UNCHANGED <<status, family>>
BY DEF Next, Step, table, Receive, Find, LockOld, Rotate, Scan, RevokeRow, Respond, Fail, Expire

\* A revoked token stays revoked, and a row stays in its family.
THEOREM RevocationsAreFinal == Spec => RevocationIsFinal
<1> DEFINE Final ==
      \A t \in Tokens :
        /\ status[t] = "revoked" => status'[t] = "revoked"
        /\ status[t] # "absent" => status'[t] # "absent" /\ family'[t] = family[t]
<1>1. ASSUME IInv, Next PROVE Final
  <2>1. ASSUME NEW r \in Requests, Login(r) PROVE Final
    BY <1>1, <2>1 DEF IInv, TypeOK, Login, Fresh
  <2>2. ASSUME NEW r \in Requests, CommitRotation(r) PROVE Final
    BY <1>1, <2>2 DEF IInv, TypeOK, CommitRotation, PendingRowsAreFresh, LocksProtectWrites
  <2>3. ASSUME NEW r \in Requests, CommitSweep(r) PROVE Final
    BY <1>1, <2>3 DEF IInv, TypeOK, CommitSweep
  <2>4. CASE UNCHANGED <<status, family>>
    BY <2>4
  <2> QED
    BY <1>1, <2>1, <2>2, <2>3, <2>4, TableSteps
<1>2. IInv /\ [Next]_vars => [Final]_table
  BY <1>1 DEF vars
<1> QED
  BY <1>2, InductiveInvariant, PTL DEF Spec, RevocationIsFinal

-----------------------------------------------------------------------------
\* Head of a family whose only live token is t, and of one that has none.
LEMMA HeadValues ==
  ASSUME NEW f \in Families
  PROVE  /\ \A t \in Tokens : Live(f) = {t} => Head[f] = t
         /\ Live(f) = {} => Head[f] = None
<1>1. \A t \in Tokens : The({t}) = t
  BY DEF The
<1> QED
  BY <1>1 DEF Head

\* The same in the state after a step.
LEMMA HeadValuesAfter ==
  ASSUME NEW f \in Families
  PROVE  /\ \A t \in Tokens : Live(f)' = {t} => Head'[f] = t
         /\ Live(f)' = {} => Head'[f] = None
<1>1. \A t \in Tokens : The({t}) = t
  BY DEF The
<1> QED
  BY <1>1 DEF Head

\* A step that changes the live tokens of one family moves one head.
LEMMA HeadMoves ==
  ASSUME NEW f \in Families, \A g \in Families \ {f} : Live(g)' = Live(g)
  PROVE  Head' = [Head EXCEPT ![f] = Head'[f]]
<1>1. \A g \in Families \ {f} : Head'[g] = Head[g]
  BY DEF Head
<1>2. Head = [g \in Families |-> Head[g]] /\ Head' = [g \in Families |-> Head'[g]]
  BY DEF Head
<1> HIDE DEF Head
<1> QED
  BY <1>1, <1>2

\* An empty table is a set of chains none of which has started.
LEMMA InitChains == Init => Chains!Init
BY NoneAssumption DEF Init, Chains!Init, Head, Live, Used, Started

\* A login starts the chain of a new family.
LEMMA LoginStarts ==
  ASSUME IInv, NEW r \in Requests, Login(r)
  PROVE  Chains!Next
<1>1. PICK t \in Tokens, f \in Families :
        /\ Fresh(t) /\ \A u \in Tokens : family[u] # f
        /\ status' = [status EXCEPT ![t] = "live"]
        /\ family' = [family EXCEPT ![t] = f]
  BY DEF Login
<1>2. status[t] = "absent" /\ family[t] = None /\ None \notin Families
  BY <1>1, NoneAssumption DEF IInv, Fresh, RowsHaveFamilies
<1>3. Live(f)' = {t} /\ \A g \in Families \ {f} : Live(g)' = Live(g)
  BY <1>1, <1>2 DEF IInv, TypeOK, Live
<1>4. Head' = [Head EXCEPT ![f] = t]
  BY <1>3, HeadMoves, HeadValuesAfter
<1>5. Used' = Used \cup {t} /\ Started' = Started \cup {f}
  BY <1>1, <1>2 DEF IInv, TypeOK, Used, Started
<1>6. f \notin Started /\ t \notin Used
  BY <1>1, <1>2 DEF Started, Used
<1> QED
  BY <1>4, <1>5, <1>6 DEF Chains!Next, Chains!Start, Chains!Fresh

\* A rotation's commit moves its family's head to the successor.
LEMMA RotationAdvances ==
  ASSUME IInv, NEW r \in Requests, CommitRotation(r)
  PROVE  Chains!Next
<1>0. PICK old \in Tokens, new \in Tokens, f \in Families :
        old = tok[r] /\ new = inserting[r] /\ f = family[old]
  BY DEF IInv, TypeOK, CommitRotation, HandlersAreTyped, RowsHaveFamilies
<1>1. /\ old \in Tokens /\ new \in Tokens /\ f \in Families
      /\ status[old] = "live" /\ status[new] = "absent"
      /\ revoking[r] = {old}
  BY <1>0 DEF IInv, TypeOK, CommitRotation, HandlersAreTyped, LocksProtectWrites,
         PendingRowsAreFresh, RowsHaveFamilies
<1>2. /\ status' = [t \in Tokens |-> IF t = new THEN "live"
                                     ELSE IF t = old THEN "revoked" ELSE status[t]]
      /\ family' = [family EXCEPT ![new] = f]
  BY <1>0, <1>1 DEF CommitRotation
<1>3. family[new] = None /\ None \notin Families /\ None \notin Tokens
  BY <1>1, NoneAssumption DEF IInv, RowsHaveFamilies
<1>4. Live(f) = {old} /\ Live(f)' = {new}
  <2>1. Live(f) = {old}
    BY <1>0, <1>1 DEF IInv, OneLivePerFamily, Live
  <2>2. \A t \in Tokens : family'[t] = f /\ status'[t] = "live" <=> t = new
    BY <1>1, <1>2, <1>3, <2>1 DEF IInv, TypeOK, Live
  <2> QED
    BY <1>1, <2>1, <2>2 DEF Live
<1>5. \A g \in Families \ {f} : Live(g)' = Live(g)
  BY <1>0, <1>1, <1>2, <1>3 DEF IInv, TypeOK, Live
<1>6. Head' = [Head EXCEPT ![f] = new]
  BY <1>1, <1>4, <1>5, HeadMoves, HeadValuesAfter
<1>7. Used' = Used \cup {new} /\ Started' = Started
  BY <1>0, <1>1, <1>2, <1>3 DEF IInv, TypeOK, Used, Started
<1>8. Head[f] # None /\ new \notin Used
  BY <1>1, <1>3, <1>4, HeadValues DEF Used
<1> QED
  BY <1>1, <1>6, <1>7, <1>8 DEF Chains!Next, Chains!Advance, Chains!Fresh

\* A revocation's commit ends the chain of its family, if it still had a head.
LEMMA SweepEnds ==
  ASSUME IInv, NEW r \in Requests, CommitSweep(r)
  PROVE  Chains!Next \/ UNCHANGED Chains!vars
<1>0. PICK f \in Families : f = family[tok[r]]
  BY DEF IInv, TypeOK, CommitSweep, HandlersAreTyped, RowsHaveFamilies
<1>1. /\ revoking[r] \subseteq Live(f)
      /\ \A t, u \in Live(f) : t = u
  BY <1>0 DEF IInv, TypeOK, CommitSweep, LocksProtectWrites, SweepsOneFamily,
              OneLivePerFamily, Live
<1>2. /\ status' = [t \in Tokens |-> IF t \in revoking[r] THEN "revoked" ELSE status[t]]
      /\ family' = family
  BY DEF CommitSweep
<1>3. Used' = Used /\ Started' = Started
  BY <1>1, <1>2 DEF IInv, TypeOK, Used, Started, Live
<1>4. CASE revoking[r] = {}
  <2>1. status' = status
    BY <1>2, <1>4 DEF IInv, TypeOK
  <2>2. Head' = Head
    BY <1>2, <2>1 DEF Head, Live
  <2> QED
    BY <1>3, <2>2 DEF Chains!vars
<1>5. CASE revoking[r] # {}
  <2>1. PICK t \in Tokens : revoking[r] = {t} /\ Live(f) = {t}
    BY <1>1, <1>5 DEF Live
  <2>2. Live(f)' = {} /\ \A g \in Families \ {f} : Live(g)' = Live(g)
    <3>1. Live(f)' = {}
      BY <1>1, <1>2, <2>1 DEF IInv, TypeOK, Live
    <3>2. ASSUME NEW g \in Families \ {f} PROVE Live(g)' = Live(g)
      BY <1>1, <1>2, <2>1 DEF IInv, TypeOK, Live
    <3> QED
      BY <3>1, <3>2
  <2>3. Head' = [Head EXCEPT ![f] = None]
    BY <1>1, <2>2, HeadMoves, HeadValuesAfter
  <2>4. Head[f] # None
    BY <1>1, <2>1, HeadValues, NoneAssumption
  <2> QED
    BY <1>1, <1>3, <2>3, <2>4 DEF Chains!Next, Chains!End
<1> QED
  BY <1>4, <1>5

\* The table of refresh tokens, under any interleaving of logins, refreshes,
\* logouts and failures, implements one-headed chains.
THEOREM Refinement == Spec => ImplementsChains
<1>1. IInv /\ [Next]_vars => [Chains!Next]_(Chains!vars)
  <2> SUFFICES ASSUME IInv, [Next]_vars PROVE Chains!Next \/ UNCHANGED Chains!vars
    OBVIOUS
  <2>1. CASE UNCHANGED <<status, family>>
    BY <2>1 DEF Chains!vars, Head, Used, Started, Live
  <2>2. CASE UNCHANGED vars
    BY <2>1, <2>2 DEF vars, table
  <2> QED
    BY <2>1, <2>2, TableSteps, LoginStarts, RotationAdvances, SweepEnds
<1> QED
  BY <1>1, InitChains, InductiveInvariant, PTL DEF Spec, ImplementsChains, Chains!Spec
-----------------------------------------------------------------------------
(* Requests never wait for each other's row locks in a circle.             *)

\* r refuses a replay: it holds the row it was sent and revokes the family.
Replaying(r) == kind[r] = "refresh" /\ pc[r] \in {"family", "sweep"}

\* Only a refresh rotates, and what it refuses as a replay is revoked.
ReplaysAreRevoked ==
  \A r \in Requests :
    /\ pc[r] \in {"lock", "rotate", "commit"} => kind[r] = "refresh"
    /\ Replaying(r) => status[tok[r]] = "revoked"

\* Why a row is locked: it is being revoked, rotated or replayed.
LocksAreUsed ==
  \A r \in Requests, t \in Tokens : holder[t] = r =>
    \/ t \in revoking[r]
    \/ t = tok[r] /\ (pc[r] \in {"rotate", "commit"} \/ Replaying(r))

\* A family's UPDATE finds one row at most, so once it holds it, it waits no more.
SweepsOneRow ==
  \A r \in Requests : pc[r] = "sweep" =>
    /\ \A t, u \in todo[r] : t = u
    /\ todo[r] # {} => revoking[r] = {}

\* Of any replays that are revoking, the one whose UPDATE started last waits for
\* no row that another of them was sent: that row was revoked when it started.
LastReplayIsFree ==
  \A W \in SUBSET {r \in Requests : Replaying(r) /\ pc[r] = "sweep"} :
    W # {} => \E r \in W : \A q \in W : tok[q] \notin todo[r]

LockInv == ReplaysAreRevoked /\ LocksAreUsed /\ SweepsOneRow /\ LastReplayIsFree

\* No replay is under way at the start.
LEMMA InitLockInv == Init => LockInv
BY NoneAssumption
   DEF Init, LockInv, ReplaysAreRevoked, LocksAreUsed, SweepsOneRow, LastReplayIsFree, Replaying

\* A step that starts no replay's UPDATE leaves the last one free.
LEMMA LastReplayStaysFree ==
  ASSUME LastReplayIsFree,
         \A r \in Requests : (Replaying(r) /\ pc[r] = "sweep")' =>
           /\ Replaying(r) /\ pc[r] = "sweep"
           /\ tok'[r] = tok[r] /\ todo'[r] \subseteq todo[r]
  PROVE  LastReplayIsFree'
<1> SUFFICES ASSUME NEW W \in SUBSET {r \in Requests : (Replaying(r) /\ pc[r] = "sweep")'},
                    W # {}
             PROVE  \E r \in W : \A q \in W : tok'[q] \notin todo'[r]
  BY DEF LastReplayIsFree
<1>1. W \in SUBSET {r \in Requests : Replaying(r) /\ pc[r] = "sweep"}
  OBVIOUS
<1>2. PICK r \in W : \A q \in W : tok[q] \notin todo[r]
  BY <1>1 DEF LastReplayIsFree
<1>3. \A q \in W : tok'[q] = tok[q] /\ todo'[r] \subseteq todo[r]
  OBVIOUS
<1> QED
  BY <1>2, <1>3

\* When a replay's UPDATE starts, it is the last one, and it finds live rows only.
LEMMA NewReplayIsFree ==
  ASSUME IInv, LockInv, NEW r \in Requests, Scan(r)
  PROVE  LastReplayIsFree'
<1> SUFFICES ASSUME NEW W \in SUBSET {q \in Requests : (Replaying(q) /\ pc[q] = "sweep")'},
                    W # {}
             PROVE  \E p \in W : \A q \in W : tok'[q] \notin todo'[p]
  BY DEF LastReplayIsFree
<1>1. \A q \in W : tok'[q] = tok[q] /\ status[tok[q]] = "revoked"
  BY DEF IInv, TypeOK, LockInv, ReplaysAreRevoked, Scan, Replaying, Goto
<1>2. todo' = [todo EXCEPT ![r] = {t \in Tokens : family[t] = family[tok[r]] /\ status[t] = "live"}]
  BY DEF Scan
<1>3. CASE r \in W
  <2>1. \A q \in W : tok'[q] \notin todo'[r]
    BY <1>1, <1>2 DEF IInv, TypeOK
  <2> QED
    BY <1>3, <2>1
<1>4. CASE r \notin W
  <2>1. W \in SUBSET {q \in Requests : Replaying(q) /\ pc[q] = "sweep"}
    BY <1>4 DEF IInv, TypeOK, Scan, Replaying, Goto
  <2>2. PICK p \in W : \A q \in W : tok[q] \notin todo[p]
    BY <2>1 DEF LockInv, LastReplayIsFree
  <2>3. todo'[p] = todo[p]
    BY <1>2, <1>4, <2>2 DEF IInv, TypeOK
  <2> QED
    BY <1>1, <2>2, <2>3
<1> QED
  BY <1>3, <1>4

\* Every step preserves the invariant of the locks.
LEMMA NextLockInv == IInv /\ LockInv /\ [Next]_vars => LockInv'
<1> SUFFICES ASSUME IInv, LockInv, [Next]_vars PROVE LockInv'
  OBVIOUS
<1>0. /\ TypeOK /\ PendingRowsAreFresh /\ LocksProtectWrites /\ HandlersAreTyped
      /\ SweepsOneFamily /\ OneLivePerFamily
      /\ ReplaysAreRevoked /\ LocksAreUsed /\ SweepsOneRow /\ LastReplayIsFree
  BY DEF IInv, LockInv
<1> USE NoneAssumption
<1> USE DEF TypeOK, Statuses, Kinds, Replies, PCs, table, txns, history, Goto, Answer, Replaying
<1>1. ASSUME NEW r \in Requests, Login(r) PROVE LockInv'
  <2>1. ReplaysAreRevoked'
    BY <1>1, <1>0 DEF Login, Fresh, ReplaysAreRevoked, HandlersAreTyped
  <2>2. LocksAreUsed'
    BY <1>1, <1>0 DEF Login, Fresh, LocksAreUsed, SweepsOneFamily
  <2>3. SweepsOneRow'
    BY <1>1, <1>0 DEF Login, Fresh, SweepsOneRow
  <2>4. LastReplayIsFree'
    BY <1>1, <1>0, LastReplayStaysFree DEF Login, Fresh
  <2> QED
    BY <2>1, <2>2, <2>3, <2>4 DEF LockInv
<1>2. ASSUME NEW r \in Requests, Receive(r) PROVE LockInv'
  <2>1. ReplaysAreRevoked'
    BY <1>2, <1>0 DEF Receive, ReplaysAreRevoked
  <2>2. LocksAreUsed'
    BY <1>2, <1>0 DEF Receive, LocksAreUsed, SweepsOneFamily
  <2>3. SweepsOneRow'
    BY <1>2, <1>0 DEF Receive, SweepsOneRow
  <2>4. LastReplayIsFree'
    BY <1>2, <1>0, LastReplayStaysFree DEF Receive
  <2> QED
    BY <2>1, <2>2, <2>3, <2>4 DEF LockInv
<1>3. ASSUME NEW r \in Requests, Find(r) PROVE LockInv'
  <2>1. ReplaysAreRevoked'
    BY <1>3, <1>0 DEF Find, ReplaysAreRevoked
  <2>2. LocksAreUsed'
    BY <1>3, <1>0 DEF Find, LocksAreUsed
  <2>3. SweepsOneRow'
    BY <1>3, <1>0 DEF Find, SweepsOneRow
  <2>4. LastReplayIsFree'
    BY <1>3, <1>0, LastReplayStaysFree DEF Find
  <2> QED
    BY <2>1, <2>2, <2>3, <2>4 DEF LockInv
<1>4. ASSUME NEW r \in Requests, LockOld(r) PROVE LockInv'
  <2>1. ReplaysAreRevoked'
    BY <1>4, <1>0 DEF LockOld, Grantable, Lock, ReplaysAreRevoked, HandlersAreTyped
  <2>2. LocksAreUsed'
    BY <1>4, <1>0 DEF LockOld, Grantable, Lock, LocksAreUsed, SweepsOneFamily, ReplaysAreRevoked
  <2>3. SweepsOneRow'
    BY <1>4, <1>0 DEF LockOld, Grantable, Lock, SweepsOneRow
  <2>4. LastReplayIsFree'
    BY <1>4, <1>0, LastReplayStaysFree DEF LockOld, Grantable, Lock
  <2> QED
    BY <2>1, <2>2, <2>3, <2>4 DEF LockInv
<1>5. ASSUME NEW r \in Requests, Rotate(r) PROVE LockInv'
  <2>1. ReplaysAreRevoked'
    BY <1>5, <1>0 DEF Rotate, Fresh, ReplaysAreRevoked
  <2>2. LocksAreUsed'
    BY <1>5, <1>0 DEF Rotate, Fresh, LocksAreUsed, SweepsOneFamily
  <2>3. SweepsOneRow'
    BY <1>5, <1>0 DEF Rotate, Fresh, SweepsOneRow
  <2>4. LastReplayIsFree'
    BY <1>5, <1>0, LastReplayStaysFree DEF Rotate, Fresh
  <2> QED
    BY <2>1, <2>2, <2>3, <2>4 DEF LockInv
<1>6. ASSUME NEW r \in Requests, Scan(r) PROVE LockInv'
  <2>1. ReplaysAreRevoked'
    BY <1>6, <1>0 DEF Scan, ReplaysAreRevoked
  <2>2. LocksAreUsed'
    BY <1>6, <1>0 DEF Scan, LocksAreUsed
  <2>3. SweepsOneRow'
    BY <1>6, <1>0 DEF Scan, SweepsOneRow, SweepsOneFamily, OneLivePerFamily
  <2>4. LastReplayIsFree'
    BY <1>6, NewReplayIsFree
  <2> QED
    BY <2>1, <2>2, <2>3, <2>4 DEF LockInv
<1>7. ASSUME NEW r \in Requests, RevokeRow(r) PROVE LockInv'
  <2>1. ReplaysAreRevoked'
    BY <1>7, <1>0 DEF RevokeRow, Grantable, Lock, ReplaysAreRevoked
  <2>2. LocksAreUsed'
    BY <1>7, <1>0 DEF RevokeRow, Grantable, Lock, LocksAreUsed
  <2>3. SweepsOneRow'
    BY <1>7, <1>0 DEF RevokeRow, Grantable, Lock, SweepsOneRow
  <2>4. LastReplayIsFree'
    BY <1>7, <1>0, LastReplayStaysFree DEF RevokeRow, Grantable, Lock
  <2> QED
    BY <2>1, <2>2, <2>3, <2>4 DEF LockInv
<1>8. ASSUME NEW r \in Requests, CommitRotation(r) PROVE LockInv'
  <2>1. ReplaysAreRevoked'
    BY <1>8, <1>0 DEF CommitRotation, EndTransaction, ReplaysAreRevoked, HandlersAreTyped, PendingRowsAreFresh, LocksProtectWrites
  <2>2. LocksAreUsed'
    BY <1>8, <1>0 DEF CommitRotation, EndTransaction, LocksAreUsed
  <2>3. SweepsOneRow'
    BY <1>8, <1>0 DEF CommitRotation, EndTransaction, SweepsOneRow
  <2>4. LastReplayIsFree'
    BY <1>8, <1>0, LastReplayStaysFree DEF CommitRotation, EndTransaction
  <2> QED
    BY <2>1, <2>2, <2>3, <2>4 DEF LockInv
<1>9. ASSUME NEW r \in Requests, CommitSweep(r) PROVE LockInv'
  <2>1. ReplaysAreRevoked'
    BY <1>9, <1>0 DEF CommitSweep, EndTransaction, ReplaysAreRevoked, HandlersAreTyped
  <2>2. LocksAreUsed'
    BY <1>9, <1>0 DEF CommitSweep, EndTransaction, LocksAreUsed
  <2>3. SweepsOneRow'
    BY <1>9, <1>0 DEF CommitSweep, EndTransaction, SweepsOneRow
  <2>4. LastReplayIsFree'
    BY <1>9, <1>0, LastReplayStaysFree DEF CommitSweep, EndTransaction
  <2> QED
    BY <2>1, <2>2, <2>3, <2>4 DEF LockInv
<1>10. ASSUME NEW r \in Requests, Respond(r) PROVE LockInv'
  <2>1. ReplaysAreRevoked'
    BY <1>10, <1>0 DEF Respond, Leave, ReplaysAreRevoked
  <2>2. LocksAreUsed'
    BY <1>10, <1>0 DEF Respond, Leave, LocksAreUsed, SweepsOneFamily
  <2>3. SweepsOneRow'
    BY <1>10, <1>0 DEF Respond, Leave, SweepsOneRow
  <2>4. LastReplayIsFree'
    BY <1>10, <1>0, LastReplayStaysFree DEF Respond, Leave
  <2> QED
    BY <2>1, <2>2, <2>3, <2>4 DEF LockInv
<1>11. ASSUME NEW r \in Requests, Fail(r) PROVE LockInv'
  <2>1. ReplaysAreRevoked'
    BY <1>11, <1>0 DEF Fail, Leave, EndTransaction, ReplaysAreRevoked
  <2>2. LocksAreUsed'
    BY <1>11, <1>0 DEF Fail, Leave, EndTransaction, LocksAreUsed
  <2>3. SweepsOneRow'
    BY <1>11, <1>0 DEF Fail, Leave, EndTransaction, SweepsOneRow
  <2>4. LastReplayIsFree'
    BY <1>11, <1>0, LastReplayStaysFree DEF Fail, Leave, EndTransaction
  <2> QED
    BY <2>1, <2>2, <2>3, <2>4 DEF LockInv
<1>12. ASSUME UNCHANGED <<status, txns, pc, kind, tok, todo>> PROVE LockInv'
  <2>1. LastReplayIsFree'
    BY <1>12, <1>0, LastReplayStaysFree
  <2> QED
    BY <1>12, <1>0, <2>1 DEF LockInv, ReplaysAreRevoked, LocksAreUsed, SweepsOneRow
<1>13. CASE Expire
  BY <1>12, <1>13 DEF Expire
<1>14. CASE UNCHANGED vars
  BY <1>12, <1>14 DEF vars
<1> QED
  BY <1>1, <1>2, <1>3, <1>4, <1>5, <1>6, <1>7, <1>8, <1>9, <1>10, <1>11, <1>13, <1>14 DEF Next, Step

\* Under the invariants no set of requests is stuck: whoever is waited for in such
\* a set is a replay waiting for its UPDATE, and the last replay waits for none.
LEMMA LocksAreFreed == IInv /\ LockInv => NoDeadlock
<1> SUFFICES ASSUME IInv, LockInv, NEW W \in SUBSET Requests, W # {},
                    \A r \in W : WaitsFor(r, W)
             PROVE  FALSE
  BY DEF NoDeadlock
<1>0. /\ TypeOK /\ LocksProtectWrites /\ SweepsOneFamily
      /\ LocksAreUsed /\ SweepsOneRow /\ LastReplayIsFree
  BY DEF IInv, LockInv
<1> DEFINE V == {q \in W : Replaying(q) /\ pc[q] = "sweep" /\ todo[q] # {}}
<1>1. ASSUME NEW t \in Tokens, holder[t] \in W
      PROVE  holder[t] \in V /\ t = tok[holder[t]]
  <2>1. PICK q \in W : holder[t] = q
    BY <1>1
  <2>2. pc[q] = "lock" \/ (pc[q] = "sweep" /\ todo[q] # {})
    BY DEF WaitsFor
  <2>3. t \in revoking[q] \/ (t = tok[q] /\ (pc[q] \in {"rotate", "commit"} \/ Replaying(q)))
    BY <1>0, <2>1 DEF LocksAreUsed
  <2>4. t \notin revoking[q]
    BY <1>0, <2>2 DEF SweepsOneFamily, SweepsOneRow
  <2> QED
    BY <2>1, <2>2, <2>3, <2>4 DEF Replaying
<1>2. ASSUME NEW t \in Tokens, holder[t] \in Requests
      PROVE  pc[holder[t]] # "idle"
  BY <1>0, <1>2 DEF LocksAreUsed, SweepsOneFamily, Replaying
<1>3. \A r \in W : \E t \in Tokens :
        /\ pc[r] = "lock" \/ t \in todo[r]
        /\ holder[t] \in V /\ t = tok[holder[t]]
  <2> TAKE r \in W
  <2>1. PICK t \in Tokens :
          /\ (pc[r] = "lock" /\ t = tok[r]) \/ (pc[r] = "sweep" /\ t \in todo[r])
          /\ holder[t] # None
          /\ holder[t] \in W \ {r} \/ pc[holder[t]] = "idle"
    BY DEF WaitsFor
  <2>2. holder[t] \in W
    BY <1>0, <1>2, <2>1 DEF TypeOK
  <2> QED
    BY <1>1, <2>1, <2>2
<1>4. V # {} /\ V \in SUBSET {r \in Requests : Replaying(r) /\ pc[r] = "sweep"}
  BY <1>3
<1>5. PICK r \in V : \A q \in V : tok[q] \notin todo[r]
  BY <1>0, <1>4 DEF LastReplayIsFree
<1>6. PICK t \in Tokens : t \in todo[r] /\ holder[t] \in V /\ t = tok[holder[t]]
  BY <1>3, <1>5
<1> QED
  BY <1>5, <1>6

\* Requests never deadlock on row locks, and no lock is ever left behind.
THEOREM RequestsNeverDeadlock == Spec => []NoDeadlock
<1>1. Spec => [](IInv /\ LockInv)
  BY InitIInv, NextIInv, InitLockInv, NextLockInv, PTL DEF Spec
<1> QED
  BY <1>1, LocksAreFreed, PTL
=============================================================================
