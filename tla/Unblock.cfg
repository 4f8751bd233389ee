\* Two users and two handlers at a time.
CONSTANTS
  r1=r1 r2=r2 a=a b=b
  None = None
  Requests = {r1, r2}
  Users = {a, b}
SPECIFICATION Spec
CHECK_DEADLOCK FALSE
PROPERTY UnblockRestoresNothing
