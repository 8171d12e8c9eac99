SPECIFICATION Safety
CONSTANTS
  Task = {t1, t2}
  Client = {c1, c2, c3}
  None = None
INVARIANTS NeverWedged
CHECK_DEADLOCK FALSE
