\* Two sweeps, one message, which creates one object again, received up to
\* twice.
\* The system may stop: the queue deleted, every sweep idle, its message deleted.
CONSTANTS
  q1 = q1
  k1 = k1
  k2 = k2
  m1 = m1
  Free = Free
  Dead = Dead
  None = None
  Queues = {q1}
  Messages = {m1}
  Keys = {k1}
  Home <- OneHome
  Records <- Repetition
  Malformed = {}
  Sweeps = {s1, s2}
  MaxReceives = 2
  MaxBatch = 1
SPECIFICATION Spec
SYMMETRY SweepSymmetry
INVARIANTS
  TypeOK
  OnlyHolderPolls
  OneImportPerEvent
  UnsettledHasOwner
PROPERTIES
  KeepsTheLedger
