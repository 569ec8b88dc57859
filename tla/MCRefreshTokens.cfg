CONSTANTS
  Tokens = {t1, t2, t3}
  Families = {f1, f2}
  Requests = {r1, r2, r3}
  None = None
SPECIFICATION Spec
SYMMETRY Symmetry
INVARIANTS
  TypeOK
  OneLivePerFamily
  NoFork
  DeliveredIsStored
  AcknowledgedSweepLasts
  NoDeadlock
PROPERTIES
  RevocationIsFinal
\* With the bounded Tokens used up and none delivered, clients have nothing to send.
CHECK_DEADLOCK FALSE
