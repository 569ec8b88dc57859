------------------------ MODULE TariffQuotesProofs ------------------------
(***************************************************************************)
(* What the two queries of resolveApplicableTariff guarantee together, for *)
(* any tenants, links and number of concurrent starts and admins.          *)
(***************************************************************************)
EXTENDS TariffQuotes, ChargingSessionsProofs

\* What the queries would answer now has been noted.
NowIsNoted == \A r \in Requests : Resolving(r) => QuotesFor(r) \in moments[r]

\* What holds of a call c that has seen the moments M: no location before its
\* station is read, no tariff before one is found, the second query only after a
\* moment without a direct tariff, and at the end what PricedByWhatApplied says.
Sound(c, M) ==
  /\ c.at \in {"plug", "busy", "station"} => c.loc = None
  /\ c.at \in {"plug", "busy", "station", "direct", "zone"} => c.tariff = None
  /\ c.at = "zone" => \E m \in M : m.direct = {}
  /\ c.at = "insert" /\ c.loc # None =>
       \/ \E m \in M : c.tariff \in m.direct
       \/ /\ \E m \in M : m.direct = {}
          /\ \E m \in M : c.tariff \in m.zone \/ (c.tariff = None /\ m.zone = {})

QInv == NowIsNoted /\ \A r \in Requests : Sound(call[r], moments[r])

-----------------------------------------------------------------------------
\* A call that keeps its location forgets no moment, and notes the new one.
LEMMA MomentsGrow ==
  ASSUME Observe, NEW r \in Requests, Resolving(r)'
  PROVE  QuotesFor(r)' \in moments'[r] /\ moments[r] \subseteq moments'[r]
BY DEF Observe

\* What holds of a call goes on holding as it sees more.
LEMMA SoundGrows ==
  ASSUME NEW c, NEW M, NEW N, Sound(c, M), c.at = "zone" => c.loc # None,
         c.loc # None => M \subseteq N
  PROVE  Sound(c, N)
BY DEF Sound

\* The queries of the start, one by one.
LEMMA StartStepSound ==
  ASSUME IInv, QInv, Observe, NEW r \in Requests, StartStep(r)
  PROVE  Sound(call'[r], moments'[r])
<1> DEFINE c == call[r]
<1>0. call \in [Requests -> Calls] /\ c \in Calls /\ Sound(c, moments[r])
  BY DEF IInv, SessionTypeOK, QInv
<1>1. Sound(NoCall, moments'[r])
  BY DEF Sound, NoCall
<1>2. ASSUME Leave(r) PROVE Sound(call'[r], moments'[r])
  BY <1>0, <1>1, <1>2 DEF Leave
<1>3. CASE Start(r)
  BY <1>0, <1>3 DEF Start, NoCall, Sound
<1>4. CASE FindPlug(r)
  <2>1. (call'[r] = [c EXCEPT !.at = "busy"] /\ c.at = "plug") \/ Leave(r)
    BY <1>0, <1>4 DEF FindPlug, Goto, At
  <2> QED
    BY <1>0, <1>2, <2>1 DEF Sound, Calls
<1>5. CASE FindActive(r)
  <2>1. \/ Leave(r)
        \/ /\ call'[r] = [c EXCEPT !.at = "station", !.seen = {s \in Sessions : Exists(s)}]
           /\ c.at = "busy"
    BY <1>0, <1>5 DEF FindActive, At
  <2> QED
    BY <1>0, <1>2, <2>1 DEF Sound, Calls
<1>6. CASE FindStation(r)
  <2>1. c.at = "station" /\ c.loc = None /\ c.tariff = None
    BY <1>0, <1>6 DEF FindStation, At, Sound
  <2>2. \/ call'[r] = [c EXCEPT !.at = "insert"]
        \/ call'[r] = [c EXCEPT !.loc = location[StationOf[c.plug]], !.at = "direct"]
    BY <1>0, <1>6 DEF FindStation, Goto
  <2> QED
    BY <1>0, <2>1, <2>2 DEF Sound, Calls
<1>7. CASE FindDirect(r)
  <2>1. c.at = "direct" /\ c.loc # None /\ c.tariff = None
    BY <1>0, <1>7, PricingAssumption DEF FindDirect, At, Sound, IInv, SessionTypeOK
  <2>2. QuotesFor(r) \in moments[r] /\ QuotesFor(r).direct = DirectTariffs(c.user, c.tenant)
    BY <2>1 DEF QInv, NowIsNoted, Resolving, QuotesFor, Quotes
  <2>3. \/ DirectTariffs(c.user, c.tenant) = {} /\ call'[r] = [c EXCEPT !.at = "zone"]
        \/ \E p \in DirectTariffs(c.user, c.tenant) :
             call'[r] = [c EXCEPT !.tariff = p, !.at = "insert"]
    BY <1>0, <1>7 DEF FindDirect, Goto
  <2>4. call'[r].loc = c.loc /\ moments[r] \subseteq moments'[r]
    BY <1>0, <2>1, <2>3, MomentsGrow DEF Calls, Resolving
  <2>5. CASE DirectTariffs(c.user, c.tenant) = {} /\ call'[r] = [c EXCEPT !.at = "zone"]
    <3>1. call'[r].at = "zone" /\ call'[r].tariff = None
      BY <1>0, <2>1, <2>5 DEF Calls
    <3> QED
      BY <2>2, <2>4, <2>5, <3>1 DEF Sound
  <2>6. ASSUME NEW p \in DirectTariffs(c.user, c.tenant),
               call'[r] = [c EXCEPT !.tariff = p, !.at = "insert"]
        PROVE  Sound(call'[r], moments'[r])
    <3>1. call'[r].at = "insert" /\ call'[r].tariff = p
      BY <1>0, <2>6 DEF Calls
    <3> QED
      BY <2>2, <2>4, <3>1 DEF Sound
  <2> QED
    BY <2>3, <2>5, <2>6
<1>8. CASE FindZone(r)
  <2>1. /\ c.at = "zone" /\ c.loc # None /\ c.tariff = None
        /\ \E m \in moments[r] : m.direct = {}
    BY <1>0, <1>8, PricingAssumption DEF FindZone, At, Sound, IInv, SessionTypeOK
  <2>2. QuotesFor(r) \in moments[r] /\ QuotesFor(r).zone = ZoneTariffs(c.user, c.tenant, c.loc)
    BY <2>1 DEF QInv, NowIsNoted, Resolving, QuotesFor, Quotes
  <2>3. \/ ZoneTariffs(c.user, c.tenant, c.loc) = {} /\ call'[r] = [c EXCEPT !.at = "insert"]
        \/ \E p \in ZoneTariffs(c.user, c.tenant, c.loc) :
             call'[r] = [c EXCEPT !.tariff = p, !.at = "insert"]
    BY <1>0, <1>8 DEF FindZone, Goto
  <2>4. call'[r].loc = c.loc /\ moments[r] \subseteq moments'[r]
    BY <1>0, <2>1, <2>3, MomentsGrow DEF Calls, Resolving
  <2>5. CASE /\ ZoneTariffs(c.user, c.tenant, c.loc) = {}
             /\ call'[r] = [c EXCEPT !.at = "insert"]
    <3>1. call'[r].at = "insert" /\ call'[r].tariff = None
      BY <1>0, <2>1, <2>5 DEF Calls
    <3> QED
      BY <2>1, <2>2, <2>4, <2>5, <3>1 DEF Sound
  <2>6. ASSUME NEW p \in ZoneTariffs(c.user, c.tenant, c.loc),
               call'[r] = [c EXCEPT !.tariff = p, !.at = "insert"]
        PROVE  Sound(call'[r], moments'[r])
    <3>1. call'[r].at = "insert" /\ call'[r].tariff = p
      BY <1>0, <2>6 DEF Calls
    <3> QED
      BY <2>1, <2>2, <2>4, <3>1 DEF Sound
  <2> QED
    BY <2>3, <2>5, <2>6
<1>9. CASE Insert(r)
  BY <1>2, <1>9 DEF Insert
<1> QED
  BY <1>3, <1>4, <1>5, <1>6, <1>7, <1>8, <1>9 DEF StartStep

\* The other steps of a call look for no tariff.
LEMMA OtherStepSound ==
  ASSUME IInv, QInv, Observe, NEW r \in Requests, EndStep(r) \/ Fail(r)
  PROVE  Sound(call'[r], moments'[r])
<1>0. call \in [Requests -> Calls] /\ call[r] \in Calls
  BY DEF IInv, SessionTypeOK
<1>1. ASSUME Leave(r) PROVE Sound(call'[r], moments'[r])
  BY <1>0, <1>1 DEF Leave, Sound, NoCall
<1>2. CASE End(r)
  BY <1>0, <1>2 DEF End, Sound, NoCall
<1>3. CASE CheckSession(r)
  <2>1. Leave(r) \/ call'[r] = [call[r] EXCEPT !.at = "end"]
    BY <1>0, <1>3 DEF CheckSession, Goto
  <2> QED
    BY <1>0, <1>1, <2>1 DEF Sound, Calls
<1> QED
  BY <1>1, <1>2, <1>3 DEF EndStep, EndSession, Fail

\* Each step is of one call, or of none.
LEMMA OneCallSteps ==
  ASSUME IInv, Next
  PROVE  \/ UNCHANGED call
         \/ \E r \in Requests : /\ StartStep(r) \/ EndStep(r) \/ Fail(r)
                                /\ \A q \in Requests \ {r} : call'[q] = call[q]
<1>0. call \in [Requests -> Calls]
  BY DEF IInv, SessionTypeOK
<1>1. ASSUME NEW r \in Requests, StartStep(r) \/ EndStep(r) \/ Fail(r)
      PROVE  \E c : call' = [call EXCEPT ![r] = c]
  <2>1. Leave(r) \/ (\E l : Goto(r, l)) => \E c : call' = [call EXCEPT ![r] = c]
    BY DEF Leave, Goto
  <2>2. StartStep(r) => \E c : call' = [call EXCEPT ![r] = c]
    BY <2>1 DEF StartStep, Start, FindPlug, FindActive, FindStation, FindDirect, FindZone, Insert
  <2> QED
    BY <1>1, <2>1, <2>2 DEF EndStep, End, CheckSession, EndSession, Fail
<1>2. RemovePlug \/ MoveStation \/ UNCHANGED sessionVars => UNCHANGED call
  BY DEF RemovePlug, MoveStation, sessionVars
<1> QED
  BY <1>0, <1>1, <1>2 DEF Next

\* The invariant of the observer.
LEMMA QuoteInvariant == IInv /\ QInv /\ [QuoteNext]_<<vars, moments>> => QInv'
<1> SUFFICES ASSUME IInv, QInv, [QuoteNext]_<<vars, moments>> PROVE QInv'
  OBVIOUS
<1>1. CASE UNCHANGED <<vars, moments>>
  BY <1>1 DEF vars, sessionVars, pricingVars, QInv, NowIsNoted, Sound, Resolving, QuotesFor,
              Quotes, DirectTariffs, ZoneTariffs
<1>2. CASE QuoteNext
  <2>0. Next /\ Observe
    BY <1>2 DEF QuoteNext
  <2>1. NowIsNoted'
    BY <2>0, MomentsGrow DEF NowIsNoted
  <2>2. ASSUME NEW q \in Requests, call'[q] = call[q] PROVE Sound(call'[q], moments'[q])
    <3>1. call[q].at = "zone" => call[q].loc # None
      BY PricingAssumption DEF IInv, SessionTypeOK
    <3>2. call[q].loc # None => moments[q] \subseteq moments'[q]
      BY <2>0, <2>2, MomentsGrow DEF Resolving
    <3> QED
      BY <2>2, <3>1, <3>2, SoundGrows DEF QInv
  <2>3. \A q \in Requests : Sound(call'[q], moments'[q])
    BY <2>0, <2>2, OneCallSteps, StartStepSound, OtherStepSound
  <2> QED
    BY <2>1, <2>3 DEF QInv
<1> QED
  BY <1>1, <1>2

\* A session's tariff, or its being free, is always accounted for by what applied
\* while its start looked for it.
THEOREM TariffsAppliedWhileResolving == QuoteSpec => []PricedByWhatApplied
<1>1. QuoteInit => Init /\ QInv
  BY DEF QuoteInit, Init, QInv, NowIsNoted, Sound, Resolving, NoCall
<1>2. [QuoteNext]_<<vars, moments>> => [Next]_vars
  BY DEF QuoteNext
<1>3. QInv => PricedByWhatApplied
  BY DEF QInv, Sound, PricedByWhatApplied, At, Resolving
<1> QED
  BY <1>1, <1>2, <1>3, InitIInv, NextIInv, QuoteInvariant, PTL DEF QuoteSpec
=============================================================================
