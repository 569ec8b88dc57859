CONSTANTS
  Tokens = {t1, t2, t3}
  Families = {f1}
  Requests = {r1, r2}
  None = None
SPECIFICATION Spec
INVARIANT LogoutEndsFamily
CHECK_DEADLOCK FALSE
