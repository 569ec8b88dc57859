CONSTANTS
  Tokens = {t1, t2, t3}
  Families = {f1}
  Requests = {r1, r2}
  None = None
SPECIFICATION Spec
PROPERTY ReuseEndsFamily
CHECK_DEADLOCK FALSE
