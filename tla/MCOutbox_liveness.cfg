SPECIFICATION Spec
CONSTANTS
  Event = {e1, e2, e3}
  Poison = {e3}
  Request = {r1}
  Activity = {}
  Beat = {b1}
  BatchSize = 2
  Fault = {"crash", "connection", "lostAck"}
  MaxFaults = 1
  None = None
PROPERTIES AtLeastOnce OutboxDrains DeliverySpec
CHECK_DEADLOCK FALSE
