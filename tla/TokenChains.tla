---------------------------- MODULE TokenChains ----------------------------
(***************************************************************************)
(* What the refresh-token table promises, whatever requests run against    *)
(* it: a login session (a token family) has at most one usable token, its  *)
(* head.  The head moves forward to tokens never used before, and once the *)
(* family has lost its head it never gets another one.                     *)
(***************************************************************************)
CONSTANTS Tokens, Families, None

VARIABLES
  head,     \* the usable token of each family, None before login and after the end
  used,     \* the tokens that are or have been a head
  started   \* the families some login has started

vars == <<head, used, started>>

Init ==
  /\ head = [f \in Families |-> None]
  /\ used = {}
  /\ started = {}

Fresh(t) == t \in Tokens \ used

Start(f, t) ==
  /\ f \notin started /\ Fresh(t)
  /\ head' = [head EXCEPT ![f] = t]
  /\ used' = used \cup {t}
  /\ started' = started \cup {f}

Advance(f, t) ==
  /\ head[f] # None /\ Fresh(t)
  /\ head' = [head EXCEPT ![f] = t]
  /\ used' = used \cup {t}
  /\ UNCHANGED started

End(f) ==
  /\ head[f] # None
  /\ head' = [head EXCEPT ![f] = None]
  /\ UNCHANGED <<used, started>>

Next ==
  \E f \in Families :
    \/ \E t \in Tokens : Start(f, t) \/ Advance(f, t)
    \/ End(f)

Spec == Init /\ [][Next]_vars
=============================================================================
