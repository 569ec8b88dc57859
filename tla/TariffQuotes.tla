--------------------------- MODULE TariffQuotes ---------------------------
(***************************************************************************)
(* ChargingSessions observed: beside each start whose station's location   *)
(* has been read, what the two queries of resolveApplicableTariff would    *)
(* have answered had they run in a single step, at every moment since.     *)
(***************************************************************************)
EXTENDS ChargingSessions

VARIABLE moments   \* history: for each request, the answers at each moment so far

Resolving(r) == call[r].loc # None
QuotesFor(r) == Quotes(call[r].user, call[r].tenant, call[r].loc)

Observe ==
  moments' = [r \in Requests |->
                IF Resolving(r)' THEN moments[r] \cup {QuotesFor(r)'} ELSE {}]

QuoteInit == Init /\ moments = [r \in Requests |-> {}]
QuoteNext == Next /\ Observe

QuoteSpec == QuoteInit /\ [][QuoteNext]_<<vars, moments>>

-----------------------------------------------------------------------------
(* Properties                                                              *)

\* Whatever admins link and unlink between the two queries: the tariff of a start
\* applied directly at some moment of the call; or at one moment no direct tariff
\* applied, and at one, perhaps another, this zone tariff did, or no zone tariff for
\* a free session.  So a tariff configured throughout is never overlooked.
PricedByWhatApplied ==
  \A r \in Requests : At(r, "insert") /\ Resolving(r) =>
    \/ \E m \in moments[r] : call[r].tariff \in m.direct
    \/ /\ \E m \in moments[r] : m.direct = {}
       /\ \E m \in moments[r] : \/ call[r].tariff \in m.zone
                                \/ call[r].tariff = None /\ m.zone = {}

\* tariff-zones.repo.ts:122-129: a direct tariff, else a zone's, else none: the
\* answer is one that held at some moment of the call, so a session is free only
\* if for a moment no tariff applied.
ResolvesWhatApplied ==
  \A r \in Requests : At(r, "insert") /\ Resolving(r) =>
    \E m \in moments[r] : call[r].tariff \in Applicable(m)
=============================================================================
