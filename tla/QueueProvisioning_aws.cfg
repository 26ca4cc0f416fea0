\* Two requests in two processes, or in one; two queues of one bucket.
CONSTANTS
  b1 = b1
  None = None
  Processes = {p1, p2}
  Requests = {r1, r2}
  QueueNames = {n1, n2}
  Buckets = {b1}
  Datastores = {d1}
  BucketOf <- OneBucket
  RowIds = {i1}
  Elsewhere = {"topic"}
SPECIFICATION Spec
SYMMETRY ProvisioningSymmetry
INVARIANTS
  TypeOK
  CreatedDelivers
  DeletedIsGone
PROPERTIES
  EntriesSurvive
