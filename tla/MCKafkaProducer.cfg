SPECIFICATION Spec
CONSTANTS
  Task = {t1, t2}
  Client = {c1, c2, c3}
  None = None
INVARIANTS TypeOK StartedMeansConnected NoLeakedClient PublishContract
PROPERTIES RecoversFromOutage
CHECK_DEADLOCK FALSE
