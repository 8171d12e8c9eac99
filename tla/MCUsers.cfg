SPECIFICATION Spec
CONSTANTS
  h1 = h1
  h2 = h2
  b1 = b1
  student = student
  bio1 = bio1
  None = None
  Handlers <- MCHandlers
  Blobs = {b1}
  Roles = {student}
  Bios = {bio1}
  Calls <- MCCalls
  MaxCalls = 2
  MaxAttempts = 2
  AccessLife = 1
  RefreshLife = 2
  DefaultLife = 2
  StatusLife = 1
  MaxTime = 3
INVARIANTS TypeOK EventsTellTheState ApprovedIsBound RolesAgeOut
SYMMETRY MCSymmetry
CHECK_DEADLOCK FALSE
