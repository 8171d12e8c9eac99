SPECIFICATION Safety
CONSTANTS
  Event = {e1, e2}
  Poison = {}
  Request = {r1, r2}
  Activity = {a1}
  Beat = {b1}
  BatchSize = 2
  Fault = {"crash", "connection", "statement", "lostAck"}
  MaxFaults = 2
  None = None
SYMMETRY Symmetry
INVARIANTS TypeOK NoEventLost NoPhantomEvent ExclusiveClaim ClaimIsFresh DuplicatesNeedFaults
CHECK_DEADLOCK FALSE
