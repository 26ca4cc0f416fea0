CONSTANTS
  None = None
  Processes = {p1, p2}
  Requests = {r1, r2}
  Datastores = {d1}
  Records = {x1, x2}
  Tokens = {}
  Hosts = {}
  HostForms = {}
SPECIFICATION Spec
SYMMETRY StateSymmetry
INVARIANTS
  OnlySavedRecordsCached
  SavedIsFound
  CacheFollowsUnlessDisputed
