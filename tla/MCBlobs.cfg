SPECIFICATION Spec
CONSTANTS
  Requests = {r1, r2, r3}
  Old = old
  Providers = {"local", "s3", "minio"}
  MaxFaults = 1
  Edges = {e1}
  Ttl = 2
  MaxTime = 3
  None = None
SYMMETRY Symmetry
INVARIANTS TypeOK AnswersAreTrue LostOnlyByPromotion OrphansAreAccounted ServedIsTheBlob ReferenceNamesABlob
PROPERTIES StatusFollowsLifecycle
CHECK_DEADLOCK FALSE
