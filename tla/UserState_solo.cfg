CONSTANTS
  None = None
  Processes = {p1}
  Requests = {r1}
  Datastores = {d1, d2}
  Records = {x1, x2}
  Tokens = {t1, t2}
  Hosts = {h1, h2}
  HostForms = {h1, h2}
SPECIFICATION Spec
SYMMETRY StateSymmetry
INVARIANTS
  TypeOK
  ConnectionIsWhole
