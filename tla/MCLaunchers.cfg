SPECIFICATION LauncherSpec
CONSTANTS
  e1 = e1
  e2 = e2
  p1 = p1
  w1 = w1
  w2 = w2
  Event = {e1, e2}
  Partition = {p1}
  Home <- OneAggregate
  MaxCopies = 1
  Consumer = {c1, c2}
  None = None
  Workflow = {w1, w2}
  Starts <- Started
  Signals <- Signalled
INVARIANTS LauncherTypeOK CommittedIsAnswered CommitCoversHandled HandedInOrder
PROPERTIES EveryWorkflowAnswered CommitsNeverRetreat EveryMessageHanded
CHECK_DEADLOCK FALSE
