CONSTANTS
  None = None
  Processes = {p1, p2}
  Requests = {r1, r2}
  UserIds = {u1, u2}
  SessionIds = {s1}
  Emails = {e1, e2}
  AdminEmail = e1
  Passwords = {w1, w2}
SPECIFICATION Spec
SYMMETRY AuthSymmetry
INVARIANTS
  TypeOK
  SessionsMatchAccounts
  AdminRemains
