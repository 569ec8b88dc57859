CONSTANTS
  Tokens = {t1, t2, t3}
  Families = {f1}
  Requests = {r1, r2}
  None = None
SPECIFICATION FairSpec
PROPERTIES
  ImplementsChains
  EveryRequestEnds
\* With the bounded Tokens used up and none delivered, clients have nothing to send.
CHECK_DEADLOCK FALSE
